----------------------------- MODULE FrameMemory -----------------------------
(***************************************************************************)
(* The memory of one interpreter over its lifetime: the Memory methods    *)
(* (interpreter/src/interpreter/memory.rs) driven by the memory           *)
(* instructions, then read by call_inner through return_value            *)
(* (interpreter.rs).  The instructions and the gas meter are not in this  *)
(* repository: MLOAD, MSTORE, MSTORE8, CALLDATACOPY, RETURN, resize_for   *)
(* and the gas charges are taken from spec sections 3, 4.2 and 4.4.      *)
(*                                                                         *)
(* Byte j (0-based) of memory is mem[j + 1].  A 256-bit word is           *)
(* abstracted to its last byte: MSTORE of w writes 31 zero bytes and w.   *)
(* Indexing a Rust slice or Vec past its end panics: the actions record   *)
(* that in `panicked` rather than assume the caller got the bounds right. *)
(***************************************************************************)
EXTENDS Memory

CONSTANTS
  GasLimit,    \* the frame's gas limit
  VeryLow,     \* the static gas of MLOAD, MSTORE, MSTORE8, CALLDATACOPY
  QuadDiv,     \* the divisor of C_mem's quadratic term (512, scaled)
  Operands,    \* offsets and lengths an instruction may pop, in usize
  Huge,        \* a popped U256 wider than usize
  Bytes8,      \* byte values an instruction may store
  CallData,    \* the frame's input, a sequence of bytes
  ReturnDatas  \* what a callee may return to a CALL of this frame

ASSUME Operands \subseteq 0 .. UsizeMax /\ Huge \notin Nat

VARIABLES
  mem,       \* Memory.data
  gas,       \* Gas: limit, used (static costs) and memory (expansion cost)
  retRange,  \* Interpreter.return_range
  result,    \* Interpreter.instruction_result
  taken,     \* call_inner has taken the output: the frame is gone
  output,    \* what return_value gave call_inner
  panicked,  \* a slice or Vec index went past the end of memory
  loaded,    \* the word the previous instruction pushed if it was MLOAD
  prev,      \* history: the previous instruction, if MLOAD or MSTORE
  returnData \* Interpreter.return_data_buffer

vars == <<mem, gas, retRange, result, taken, output, panicked, loaded, prev, returnData>>

\* prev when the previous instruction was neither MLOAD nor MSTORE
NoPrev == [op |-> "none", off |-> 0, w |-> 0]
\* An instruction other than MLOAD and MSTORE.
Forget == prev' = NoPrev /\ loaded' = <<>>

\* C_mem(n) = 3n + n^2 / 512 for n words (spec 4.2).
MemoryCost(words) == 3 * words + (words * words) \div QuadDiv

\* Memory::resize(new_size): data.resize(new_size, 0).
Resize(m, newSize) == [i \in 1 .. newSize |-> IF i <= Len(m) THEN m[i] ELSE 0]

\* get_slice, set_u256 and set index data[offset..offset + size]: a range
\* past the end of data panics.
InBounds(m, offset, size) == offset + size <= Len(m)

\* get_slice(offset, size): &data[offset..offset + size].
GetSlice(m, offset, size) == SubSeq(m, offset + 1, offset + size)

\* set_byte(index, byte): *data.get_mut(index).unwrap() = byte.
SetByte(m, index, b) == [m EXCEPT ![index + 1] = b]

\* A slip in set_u256: the word's bytes land one byte too far.
SetU256Shifted(m, index, w) ==
  [i \in DOMAIN m |-> CASE i = index + 33             -> w
                        [] index + 1 < i /\ i < index + 33 -> 0
                        [] OTHER                       -> m[i]]

\* set_u256(index, value): data[index..index + 32] = value's 32
\* big-endian bytes.
SetU256(m, index, w) ==
  [i \in DOMAIN m |-> CASE i = index + 32             -> w
                        [] index < i /\ i < index + 32 -> 0
                        [] OTHER                       -> m[i]]

\* A slip in Memory::set: the slice is indexed even for an empty value.
SetUnguarded(m, offset, v) ==
  IF InBounds(m, offset, Len(v))
  THEN [ok |-> TRUE, mem |-> [i \in DOMAIN m |->
                                IF offset < i /\ i <= offset + Len(v) THEN v[i - offset] ELSE m[i]]]
  ELSE [ok |-> FALSE, mem |-> m]

\* Memory::set(offset, value): when value is not empty,
\* data[offset..offset + len] = value, which panics past the end of data.
Set(m, offset, v) ==
  IF v = <<>> THEN [ok |-> TRUE, mem |-> m]
  ELSE IF InBounds(m, offset, Len(v))
  THEN [ok |-> TRUE, mem |-> [i \in DOMAIN m |->
                                IF offset < i /\ i <= offset + Len(v) THEN v[i - offset] ELSE m[i]]]
  ELSE [ok |-> FALSE, mem |-> m]

MinOf(a, b) == IF a <= b THEN a ELSE b

\* as_usize_or_fail: an operand wider than usize halts with
\* InvalidOperandOOG; as_usize_saturated reads it as usize::MAX.
Fits(x)      == x # Huge
Saturated(x) == IF x = Huge THEN UsizeMax ELSE x

\* A slip in resize_for: memory grows but Gas::record_memory is not
\* called, so the expansion is never paid for.
ResizeForNoRecord(m, g, offset, size) ==
  LET end == MinOf(offset + size, UsizeMax)
      new == NextMultipleOf32(end)
  IN  IF end <= Len(m) THEN [ok |-> TRUE, mem |-> m, gas |-> g]
      ELSE IF new = None THEN [ok |-> FALSE, mem |-> m, gas |-> g]
      ELSE LET cost == MemoryCost(new[1] \div 32) IN
           IF g.used + cost > g.limit THEN [ok |-> FALSE, mem |-> m, gas |-> g]
           ELSE [ok |-> TRUE, mem |-> Resize(m, new[1]), gas |-> g]

\* resize_for(offset, size) (spec 4.2): an end offset + size (saturating)
\* past the current length grows memory to next_multiple_of_32(end) and
\* charges the rise in C_mem; no multiple of 32 in usize or a charge
\* past the gas limit is MemoryOOG.  Gas::record_memory keeps the memory
\* cost apart from the static costs: spent = used + memory.
ResizeFor(m, g, offset, size) ==
  LET end == MinOf(offset + size, UsizeMax)
      new == NextMultipleOf32(end)
  IN  IF end <= Len(m) THEN [ok |-> TRUE, mem |-> m, gas |-> g]
      ELSE IF new = None THEN [ok |-> FALSE, mem |-> m, gas |-> g]
      ELSE LET cost == MemoryCost(new[1] \div 32) IN
           IF g.used + cost > g.limit THEN [ok |-> FALSE, mem |-> m, gas |-> g]
           ELSE [ok |-> TRUE, mem |-> Resize(m, new[1]),
                 gas |-> [g EXCEPT !.memory = cost]]


\* A slip in an instruction's gas: the check is made but nothing is charged.
StaticGasUncharged(g, c) ==
  IF g.used + g.memory + c > g.limit THEN [ok |-> FALSE, gas |-> g]
  ELSE [ok |-> TRUE, gas |-> g]

\* The gas check of an instruction's static cost (spec 4.4), taken before
\* its memory is resized.
StaticGas(g, c) ==
  IF g.used + g.memory + c > g.limit THEN [ok |-> FALSE, gas |-> g]
  ELSE [ok |-> TRUE, gas |-> [g EXCEPT !.used = @ + c]]

Running == result = "Continue" /\ ~panicked

\* The instruction halts the loop with code r.
Halt(r) == result' = r /\ Forget /\ UNCHANGED <<mem, retRange, taken, output, panicked, returnData>>

\* The static gas c, then resize_for(offset, size): the halt it ends in
\* ("Continue" if none), and the memory and meter after it.
Metered(c, offset, size) ==
  LET s == StaticGas(gas, c)
      r == ResizeFor(mem, s.gas, offset, size)
  IN  IF ~s.ok THEN [halt |-> "OutOfGas", mem |-> mem, gas |-> gas]
      ELSE IF ~r.ok THEN [halt |-> "MemoryOOG", mem |-> mem, gas |-> s.gas]
      ELSE [halt |-> "Continue", mem |-> r.mem, gas |-> r.gas]

\* A write of size bytes at offset into m: m2 if it fits, else a panic.
WriteOr(m, offset, size, m2) ==
  IF InBounds(m, offset, size)
  THEN mem' = m2 /\ UNCHANGED <<panicked>>
  ELSE mem' = m /\ panicked' = TRUE

\* MLOAD offset: get_slice(offset, 32) pushed as a word.
MLoad(off) ==
  /\ Running
  /\ IF ~Fits(off) THEN gas' = gas /\ Halt("InvalidOperandOOG")
     ELSE LET e == Metered(VeryLow, off, 32) IN
          /\ gas' = e.gas
          /\ IF e.halt # "Continue" THEN Halt(e.halt)
             ELSE /\ mem' = e.mem
                  /\ panicked' = ~InBounds(e.mem, off, 32)
                  /\ loaded' = IF InBounds(e.mem, off, 32) THEN GetSlice(e.mem, off, 32)
                                                         ELSE <<>>
                  /\ prev' = [op |-> "mload", off |-> off, w |-> 0]
                  /\ UNCHANGED <<retRange, result, taken, output, returnData>>

\* MSTORE offset value: set_u256(offset, value).
MStore(off, w) ==
  /\ Running
  /\ IF ~Fits(off) THEN gas' = gas /\ Halt("InvalidOperandOOG")
     ELSE LET e == Metered(VeryLow, off, 32) IN
          /\ gas' = e.gas
          /\ IF e.halt # "Continue" THEN Halt(e.halt)
             ELSE /\ WriteOr(e.mem, off, 32, SetU256(e.mem, off, w))
                  /\ prev' = [op |-> "mstore", off |-> off, w |-> w]
                  /\ loaded' = <<>>
                  /\ UNCHANGED <<retRange, result, taken, output, returnData>>

\* MSTORE8 offset value: set_byte(offset, value as u8).
MStore8(off, b) ==
  /\ Running
  /\ IF ~Fits(off) THEN gas' = gas /\ Halt("InvalidOperandOOG")
     ELSE LET e == Metered(VeryLow, off, 1) IN
          /\ gas' = e.gas
          /\ IF e.halt # "Continue" THEN Halt(e.halt)
             ELSE /\ WriteOr(e.mem, off, 1, SetByte(e.mem, off, b))
                  /\ Forget
                  /\ UNCHANGED <<retRange, result, taken, output, returnData>>

\* CALLDATACOPY memOffset dataOffset len: set_data(memOffset, dataOffset,
\* len, input), the data offset saturated.  An empty copy touches no
\* memory (no expansion for an empty range, Yellow Paper).  The per-word
\* copy cost is left out.
CallDataCopy(mo, doff, len) ==
  /\ Running
  /\ IF ~Fits(mo) \/ ~Fits(len) THEN gas' = gas /\ Halt("InvalidOperandOOG")
     ELSE IF len = 0
     THEN LET s == StaticGas(gas, VeryLow) IN
          IF s.ok THEN gas' = s.gas /\ Forget
                       /\ UNCHANGED <<mem, retRange, result, taken, output, panicked, returnData>>
          ELSE gas' = gas /\ Halt("OutOfGas")
     ELSE LET e == Metered(VeryLow, mo, len) IN
          /\ gas' = e.gas
          /\ IF e.halt # "Continue" THEN Halt(e.halt)
             ELSE /\ WriteOr(e.mem, mo, len, SetData(e.mem, mo, Saturated(doff), len, CallData))
                  /\ Forget
                  /\ UNCHANGED <<retRange, result, taken, output, returnData>>

\* The memory side of CALL out_offset out_len (spec 4.4): out_len = 0
\* stands for out_offset usize::MAX and no resize; else the out range is
\* resized for first.  The callee returns d, which becomes
\* return_data_buffer; on return_ok! and return_revert! (copies) its
\* first min(out_len, len d) bytes are set at out_offset.  The input
\* range and the callee's run are left out; the call's cost is VeryLow.
CallOut(oo, ol, d, copies) ==
  /\ Running
  /\ IF ~Fits(ol) \/ (ol # 0 /\ ~Fits(oo)) THEN gas' = gas /\ Halt("InvalidOperandOOG")
     ELSE LET e  == IF ol = 0 THEN Metered(VeryLow, 0, 0) ELSE Metered(VeryLow, oo, ol)
              at == IF ol = 0 THEN UsizeMax ELSE oo
              w  == Set(e.mem, at, SubSeq(d, 1, MinOf(ol, Len(d))))
          IN /\ gas' = e.gas
             /\ IF e.halt # "Continue" THEN Halt(e.halt)
                ELSE /\ returnData' = d
                     /\ mem' = IF copies THEN w.mem ELSE e.mem
                     /\ panicked' = (copies /\ ~w.ok)
                     /\ Forget
                     /\ UNCHANGED <<retRange, result, taken, output>>

\* RETURNDATACOPY memOffset dataOffset len (EIP-211, spec 4.3): the static
\* gas; a data range past the end of return_data_buffer, or one whose
\* end overflows usize, is OutOfOffset; a non-empty copy resizes memory
\* and sets buffer[dataOffset..end] at memOffset.
ReturnDataCopy(mo, doff, len) ==
  /\ Running
  /\ IF ~Fits(len) THEN gas' = gas /\ Halt("InvalidOperandOOG")
     ELSE LET s   == StaticGas(gas, VeryLow)
              end == CheckedAdd(Saturated(doff), len)
          IN
          IF ~s.ok THEN gas' = gas /\ Halt("OutOfGas")
          ELSE IF end = None \/ end[1] > Len(returnData) THEN gas' = s.gas /\ Halt("OutOfOffset")
          ELSE IF len = 0
          THEN gas' = s.gas /\ Forget
               /\ UNCHANGED <<mem, retRange, result, taken, output, panicked, returnData>>
          ELSE IF ~Fits(mo) THEN gas' = s.gas /\ Halt("InvalidOperandOOG")
          ELSE LET r == ResizeFor(mem, s.gas, mo, len)
                   w == Set(r.mem, mo, SubSeq(returnData, Saturated(doff) + 1, end[1]))
               IN IF ~r.ok THEN gas' = s.gas /\ Halt("MemoryOOG")
                  ELSE /\ gas' = r.gas /\ mem' = w.mem /\ panicked' = ~w.ok
                       /\ Forget
                       /\ UNCHANGED <<retRange, result, taken, output, returnData>>

\* A slip in RETURN: an empty return keeps its offset as the range,
\* unconverted, instead of the usize::MAX sentinel.
ReturnNoSentinel(off, len) ==
  /\ Running
  /\ IF ~Fits(len) THEN gas' = gas /\ Halt("InvalidOperandOOG")
     ELSE IF len = 0
     THEN /\ retRange' = [start |-> off, end |-> off]
          /\ result' = "Return" /\ Forget
          /\ UNCHANGED <<mem, gas, taken, output, panicked, returnData>>
     ELSE IF ~Fits(off) THEN gas' = gas /\ Halt("InvalidOperandOOG")
     ELSE LET r == ResizeFor(mem, gas, off, len) IN
          IF ~r.ok THEN gas' = gas /\ Halt("MemoryOOG")
          ELSE /\ mem' = r.mem /\ gas' = r.gas
               /\ retRange' = [start |-> off, end |-> off + len]
               /\ result' = "Return" /\ Forget
               /\ UNCHANGED <<taken, output, panicked, returnData>>

\* RETURN offset len (spec 4.4): return_range becomes [offset, offset +
\* len) after resizing for it; an empty return leaves memory alone and
\* marks the range with start usize::MAX, the convention return_value
\* relies on (interpreter.rs).  RETURN has no static gas.
Return(off, len) ==
  /\ Running
  /\ IF ~Fits(len) THEN gas' = gas /\ Halt("InvalidOperandOOG")
     ELSE IF len = 0
     THEN /\ retRange' = [start |-> UsizeMax, end |-> UsizeMax]
          /\ result' = "Return" /\ Forget
          /\ UNCHANGED <<mem, gas, taken, output, panicked, returnData>>
     ELSE IF ~Fits(off) THEN gas' = gas /\ Halt("InvalidOperandOOG")
     ELSE LET r == ResizeFor(mem, gas, off, len) IN
          IF ~r.ok THEN gas' = gas /\ Halt("MemoryOOG")
          ELSE /\ mem' = r.mem /\ gas' = r.gas
               /\ retRange' = [start |-> off, end |-> off + len]
               /\ result' = "Return" /\ Forget
               /\ UNCHANGED <<taken, output, panicked, returnData>>

\* A slip in return_value: the empty-range sentinel is not checked.
ReturnValueUnchecked(m, range) ==
  IF InBounds(m, range.start, range.end - range.start)
  THEN [ok |-> TRUE, out |-> GetSlice(m, range.start, range.end - range.start)]
  ELSE [ok |-> FALSE, out |-> <<>>]

\* Interpreter::return_value: empty when return_range.start is usize::MAX,
\* else get_slice(start, end - start) copied out.
ReturnValue(m, range) ==
  IF range.start = UsizeMax THEN [ok |-> TRUE, out |-> <<>>]
  ELSE IF InBounds(m, range.start, range.end - range.start)
  THEN [ok |-> TRUE, out |-> GetSlice(m, range.start, range.end - range.start)]
  ELSE [ok |-> FALSE, out |-> <<>>]

\* call_inner, once run() has returned, whatever the result: it commits or
\* reverts and hands (exit_reason, gas, return_value()) to its caller.
TakeOutput ==
  /\ result # "Continue" /\ ~panicked /\ ~taken
  /\ LET v == ReturnValue(mem, retRange) IN
       /\ taken' = TRUE
       /\ output' = v.out
       /\ panicked' = ~v.ok
  /\ UNCHANGED <<mem, gas, retRange, result, loaded, prev, returnData>>

Offsets == Operands \cup {Huge}

\* Memory::new() (empty data) in Interpreter::new: return_range
\* Range::default() (0..0), instruction_result Continue, Gas::new(limit).
Init ==
  /\ mem = <<>>
  /\ gas = [limit |-> GasLimit, used |-> 0, memory |-> 0]
  /\ retRange = [start |-> 0, end |-> 0]
  /\ result = "Continue"
  /\ taken = FALSE
  /\ output = <<>>
  /\ panicked = FALSE
  /\ loaded = <<>>
  /\ prev = NoPrev
  /\ returnData = <<>>

Next ==
  \/ \E off \in Offsets : MLoad(off)
  \/ \E off \in Offsets, b \in Bytes8 : MStore(off, b) \/ MStore8(off, b)
  \/ \E mo, doff, len \in Offsets : CallDataCopy(mo, doff, len)
  \/ \E off, len \in Offsets : Return(off, len)
  \/ \E oo, ol \in Offsets, d \in ReturnDatas, copies \in BOOLEAN : CallOut(oo, ol, d, copies)
  \/ \E mo, doff, len \in Offsets : ReturnDataCopy(mo, doff, len)
  \/ TakeOutput

Spec == Init /\ [][Next]_vars

\* Interpreter::run loops while instruction_result is Continue, and
\* call_inner takes the output as soon as run returns.
LiveSpec == Spec /\ WF_vars(Next)

-----------------------------------------------------------------------------
TypeOK ==
  /\ mem \in Seq(Bytes8 \cup {0} \cup {CallData[i] : i \in DOMAIN CallData})
  /\ gas \in [limit : {GasLimit}, used : Nat, memory : Nat]
  /\ retRange \in [start : 0 .. UsizeMax, end : 0 .. UsizeMax]
  /\ result \in {"Continue", "Return", "OutOfGas", "MemoryOOG", "InvalidOperandOOG", "OutOfOffset"}
  /\ taken \in BOOLEAN /\ panicked \in BOOLEAN
  /\ loaded \in Seq(Nat)
  /\ returnData \in {<<>>} \cup ReturnDatas
  /\ prev \in [op : {"none", "mload", "mstore"}, off : Nat, w : Nat]

\* No memory access panics, neither an instruction's nor call_inner's
\* return_value: every instruction resizes before it indexes (a size with
\* no multiple of 32 in usize halts as MemoryOOG instead), and
\* return_value reads a range only when RETURN resized for it, a
\* zero-length RETURN at any offset leaving the usize::MAX sentinel.
NoMemoryPanic == ~panicked

\* Memory is always whole words and paid for: the meter's memory cost is
\* C_mem of the current size, however many expansions got there, and the
\* gas spent (static plus memory) never passes the limit.
MemoryPaidFor ==
  /\ Len(mem) % 32 = 0
  /\ gas.memory = MemoryCost(Len(mem) \div 32)
  /\ gas.used + gas.memory <= gas.limit

\* The 32 big-endian bytes of a word abstracted to its last byte.
WordBytes(w) == [i \in 1 .. 32 |-> IF i = 32 THEN w ELSE 0]

\* The round-trip law of spec section 8, MSTORE(off, w); MLOAD(off) == w:
\* an MLOAD right after an MSTORE at the same offset pushes the stored
\* word, whatever expansion, alignment and earlier writes came before.
\* It rests on resize_for, set_u256 and get_slice agreeing on the bytes
\* of [offset, offset + 32).
MStoreMLoadRoundTrip ==
  [][prev.op = "mstore" /\ prev'.op = "mload" /\ prev'.off = prev.off
       => loaded' = WordBytes(prev.w)]_vars
=============================================================================
