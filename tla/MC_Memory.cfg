CONSTANTS
  UsizeBits = 8
  GasLimit = 21
  VeryLow = 3
  QuadDiv = 4
  Operands <- MCOperands
  Huge = Huge
  Bytes8 = {1}
  CallData <- MCCallData
  ReturnDatas <- MCReturnDatas
SPECIFICATION MCLiveSpec
INVARIANTS TypeOK NoMemoryPanic MemoryPaidFor NextMultipleOf32Correct SetDataCorrect
PROPERTIES MStoreMLoadRoundTrip FrameEnds
CHECK_DEADLOCK FALSE
