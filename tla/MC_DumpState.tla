--------------------------- MODULE MC_DumpState ----------------------------
(***************************************************************************)
(* fn_dump_state's loop over every argument length up to MaxArgLen.       *)
(***************************************************************************)
EXTENDS AdminPrecompile

MaxArgLen == 20

VARIABLE xlen   \* len(x), x = i[2..] the bytes after the config kind

Init == xlen \in 0 .. MaxArgLen
Next == UNCHANGED xlen
Spec == Init /\ [][Next]_xlen

\* Every slot fn_dump_state writes lies inside the 0x100 bytes it
\* malloc'd (admin.rs, the write_bytes loop).
DumpWritesInBuffer ==
  \A off \in DumpLoop(xlen, 0, {}).writes : off + SliceBytes <= DumpBufBytes
=============================================================================
