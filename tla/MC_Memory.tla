------------------------------ MODULE MC_Memory -----------------------------
(***************************************************************************)
(* FrameMemory in a usize of UsizeBits bits, and Memory's pure operators *)
(* against reference definitions over every input in small ranges.  Each *)
(* initial state is either one call of a pure operator (`call`), or the   *)
(* start of a frame whose memory the instructions then drive until it    *)
(* returns or halts.                                                      *)
(***************************************************************************)
EXTENDS FrameMemory

\* Offsets: the start of memory, an unaligned one, one whose word ends on
\* a word boundary past it, one whose end has no multiple of 32 in usize.
MCOperands == {0, 1, 33, UsizeMax - 20}
MCCallData == <<2, 3>>
MCReturnDatas == {<<1, 2>>}

MemLen   == 6                   \* bytes of memory already resized
OldByte  == 9                   \* what the memory held before the call
Datas    == {<<>>, <<1>>, <<1, 2>>, <<1, 2, 3>>}
MaxDataOffset == 4

VARIABLE call

\* set_data's caller guarantees memory_offset + len <= memory size.
Calls ==
  [kind : {"nextMultiple"}, x : 0 .. UsizeMax] \cup
  {c \in [kind : {"setData"}, mo : 0 .. MemLen, doff : 0 .. MaxDataOffset,
          len : 0 .. MemLen, data : Datas] : c.mo + c.len <= MemLen}
Frame == [kind |-> "frame"]

MCInit == call \in Calls \cup {Frame} /\ Init
\* Next, taken in the frame's initial states only.
FrameStep(A) == call = Frame /\ A /\ UNCHANGED call
MCNext ==
  \/ \E off \in Offsets : FrameStep(MLoad(off))
  \/ \E off \in Offsets, b \in Bytes8 : FrameStep(MStore(off, b))
  \/ \E off \in Offsets, b \in Bytes8 : FrameStep(MStore8(off, b))
  \/ \E mo, doff, len \in Offsets : FrameStep(CallDataCopy(mo, doff, len))
  \/ \E off, len \in Offsets : FrameStep(Return(off, len))
  \/ \E oo, ol \in Offsets, d \in ReturnDatas, copies \in BOOLEAN :
       FrameStep(CallOut(oo, ol, d, copies))
  \/ \E mo, doff, len \in Offsets : FrameStep(ReturnDataCopy(mo, doff, len))
  \/ FrameStep(TakeOutput)
MCSpec == MCInit /\ [][MCNext]_<<vars, call>>
\* The run loop and call_inner keep stepping the frame (LiveSpec).
MCLiveSpec == MCSpec /\ WF_<<vars, call>>(MCNext)

\* Every frame ends, whatever its instructions: each one that does not
\* halt pays static gas out of a finite limit, so run returns and
\* call_inner takes the output (or a memory access panics).
FrameEnds == call = Frame => <>(taken \/ panicked)

\* The test of next_multiple_of_32 (memory.rs): x itself when x % 32 = 0,
\* else x + 32 - (x % 32); and None exactly when that overflows usize.
RefNextMultipleOf32(x) ==
  LET up == IF x % 32 = 0 THEN x ELSE x + 32 - (x % 32)
  IN  IF up > UsizeMax THEN None ELSE Some(up)

\* next_multiple_of_32 rounds up to the next multiple of 32 and reports
\* overflow of usize as None, for every usize (bit arithmetic of memory.rs).
NextMultipleOf32Correct ==
  call.kind = "nextMultiple" =>
    NextMultipleOf32(call.x) = RefNextMultipleOf32(call.x)

\* What set_data promises: the len bytes at memory_offset become
\* data[data_offset ..], read as zero past the end of data, and no other
\* byte of memory changes.
RefSetData(m, mo, doff, len, data) ==
  [i \in DOMAIN m |->
     IF mo < i /\ i <= mo + len
     THEN IF doff + (i - mo) <= Len(data) THEN data[doff + (i - mo)] ELSE 0
     ELSE m[i]]

\* set_data (memory.rs), on both of its paths, copies what data has from
\* data_offset and zeroes the rest of the range, leaving other bytes alone.
SetDataCorrect ==
  call.kind = "setData" =>
    LET m0 == [i \in 1 .. MemLen |-> OldByte] IN
    SetData(m0, call.mo, call.doff, call.len, call.data)
      = RefSetData(m0, call.mo, call.doff, call.len, call.data)
=============================================================================
