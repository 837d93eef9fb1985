------------------------------- MODULE Memory -------------------------------
(***************************************************************************)
(* The interpreter's byte memory (interpreter/src/interpreter/memory.rs)  *)
(* as pure operators.  A memory is a sequence of bytes: the byte at       *)
(* 0-based offset j of the code is mem[j + 1].  usize is UsizeBits wide.  *)
(***************************************************************************)
EXTENDS Naturals, Sequences, Bitwise

CONSTANT UsizeBits   \* the width of usize, scaled down from 64

ASSUME UsizeBits \in Nat /\ UsizeBits >= 6

UsizeMax == 2^UsizeBits - 1
\* Option<usize>: <<>> is None, <<v>> is Some(v)
None    == <<>>
Some(v) == <<v>>

\* !x, wrapping_add and checked_add on usize
UsizeNot(x)       == UsizeMax - x
WrappingAdd(x, y) == (x + y) % (UsizeMax + 1)
CheckedAdd(x, y)  == IF x + y > UsizeMax THEN None ELSE Some(x + y)

\* A slip in next_multiple_of_32: the final bitand(31) is left out.
NextMultipleOf32NoMask(x) ==
  CheckedAdd(x, WrappingAdd(UsizeNot(x & 31), 1))

\* next_multiple_of_32(x): r = (!(x & 31)).wrapping_add(1) & 31;
\* x.checked_add(r)
NextMultipleOf32(x) ==
  CheckedAdd(x, WrappingAdd(UsizeNot(x & 31), 1) & 31)

\* A slip in set_data: the tail past the copied data is not zeroed.
SetDataNoZeroTail(mem, memoryOffset, dataOffset, len, data) ==
  IF dataOffset >= Len(data)
  THEN [i \in DOMAIN mem |->
          IF memoryOffset < i /\ i <= memoryOffset + len THEN 0 ELSE mem[i]]
  ELSE LET dataEnd       == IF dataOffset + len <= Len(data)
                            THEN dataOffset + len ELSE Len(data)
           memoryDataEnd == memoryOffset + (dataEnd - dataOffset)
       IN [i \in DOMAIN mem |->
             IF memoryOffset < i /\ i <= memoryDataEnd
             THEN data[dataOffset + i - memoryOffset] ELSE mem[i]]

\* set_data(memory_offset, data_offset, len, data): the caller has checked
\* memory_offset + len against the memory size; a data_offset past the
\* data zeroes the whole range, otherwise the available data is copied and
\* the rest of the range zeroed.
SetData(mem, memoryOffset, dataOffset, len, data) ==
  IF dataOffset >= Len(data)
  THEN [i \in DOMAIN mem |->
          IF memoryOffset < i /\ i <= memoryOffset + len THEN 0 ELSE mem[i]]
  ELSE LET dataEnd       == IF dataOffset + len <= Len(data)
                            THEN dataOffset + len ELSE Len(data)
           memoryDataEnd == memoryOffset + (dataEnd - dataOffset)
       IN [i \in DOMAIN mem |->
             CASE memoryOffset < i /\ i <= memoryDataEnd ->
                    data[dataOffset + i - memoryOffset]
               [] memoryDataEnd < i /\ i <= memoryOffset + len -> 0
               [] OTHER -> mem[i]]
=============================================================================
