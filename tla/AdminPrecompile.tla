-------------------------- MODULE AdminPrecompile ---------------------------
(***************************************************************************)
(* The enterprise admin precompile at address 1337 (precompile/src/       *)
(* admin.rs) as pure operators.  Its runtime configuration, the statics   *)
(* MULTISIG and REQUIRED_GAS, is process-global and outside the journal.  *)
(*                                                                         *)
(* An input i is abstracted to its length and the bytes the code looks at:*)
(*   i.len   the byte length of i,                                        *)
(*   i.call  i[0], decoded by AdminCallKind::from_u8,                     *)
(*   i.conf  i[1], decoded by ConfigKind::from_u8,                        *)
(*   i.arg   the value encoded by i[2..] (an address or a gas amount).    *)
(* AdminRun returns the set of outcomes the build can produce, each a     *)
(* record [res, cfg, proc]: res the PrecompileResult ("Ok0" / "Ok1" for   *)
(* Ok with output [0] / [1], "OutOfGas", "EnterpriseHalt"), cfg the new   *)
(* configuration, proc what becomes of the node process ("running",       *)
(* "terminated" by SIGTERM, "crashed" by a panic or a heap corruption).   *)
(***************************************************************************)
EXTENDS Naturals

\* AdminCallKind::from_u8 and ConfigKind::from_u8 (primitives/src/lib.rs)
AdminCallKindOf(b) ==
  CASE b = 1 -> "EmergencyStop"
    [] b = 2 -> "ReloadRuntimeConfig"
    [] b = 3 -> "Mint"
    [] b = 4 -> "Burn"
    [] OTHER -> "Unknown"
ConfigKindOf(b) ==
  CASE b = 1 -> "MultisigAddress"
    [] b = 2 -> "RequiredGas"
    [] b = 3 -> "SetBalance"
    [] b = 4 -> "DumpState"
    [] OTHER -> "Unknown"

\* Widths the code asserts: B160::from_slice needs 20 bytes,
\* copy_from_slice into [u8; 8] needs 8.
AddressBytes == 20
U64Bytes     == 8
\* fn_dump_state mallocs 0x100 bytes and loops while i <= 0x10.
DumpBufBytes == 256
DumpLastIdx  == 16

\* A slip in is_multisig: the caller is not compared, only the scheme.
IsMultisigAnyCaller(ctx, cfg) == ctx.scheme = "StaticCall"

\* is_multisig: only the configured multisig, and only through STATICCALL.
IsMultisig(ctx, cfg) == ctx.caller = cfg.multisig /\ ctx.scheme = "StaticCall"

Running(res, cfg) == [res |-> res, cfg |-> cfg, proc |-> "running"]
Dies(how, cfg)    == [res |-> "none", cfg |-> cfg, proc |-> how]
\* match out { 0 => Ok([0]), 1 => Ok([1]), _ => Err(EnterpriseHalt) }
Returns(out, cfg) ==
  Running(CASE out = 0 -> "Ok0" [] out = 1 -> "Ok1" [] OTHER -> "EnterpriseHalt",
          cfg)

\* The loop of fn_dump_state(x), x = i[2..], from index i: while
\* i <= len x and i <= 0x10 it reads x[i] (a panic when i = len x) and
\* fills the i-th &[u8] slot, SliceBytes wide, of the malloc'd buffer.
\* Returns whether it panicked and the offsets of the slots it wrote.
SliceBytes == 16
RECURSIVE DumpLoop(_, _, _)
DumpLoop(xlen, i, writes) ==
  IF i <= xlen /\ i <= DumpLastIdx
  THEN IF i = xlen THEN [panicked |-> TRUE, writes |-> writes]
       ELSE DumpLoop(xlen, i + 1, writes \cup {i * SliceBytes})
  ELSE [panicked |-> FALSE, writes |-> writes]

\* fn_dump_state(x): when the loop ends without a panic, the code writes
\* out the slice whose pointer and length are bytes of x it just stored:
\* undefined behaviour, that may crash or may return.
DumpState(xlen, cfg) ==
  IF DumpLoop(xlen, 0, {}).panicked
  THEN {Dies("crashed", cfg)}
  ELSE {Dies("crashed", cfg), Returns(0, cfg)}

\* fn_reload_runtime_config(rest), rest = i[1..]
ReloadRuntimeConfig(i, cfg) ==
  LET xlen == i.len - 2 IN
  IF i.len = 1 THEN {Returns(1, cfg)}
  ELSE CASE ConfigKindOf(i.conf) = "MultisigAddress" ->
              IF xlen = AddressBytes
              THEN {Returns(0, [cfg EXCEPT !.multisig = i.arg])}
              ELSE {Dies("crashed", cfg)}
         [] ConfigKindOf(i.conf) = "RequiredGas" ->
              IF xlen = U64Bytes
              THEN {Returns(0, [cfg EXCEPT !.requiredGas = i.arg])}
              ELSE {Dies("crashed", cfg)}
         [] ConfigKindOf(i.conf) = "SetBalance" -> {Returns(0, cfg)}
         [] ConfigKindOf(i.conf) = "DumpState"  -> DumpState(xlen, cfg)
         [] OTHER -> {Returns(1, cfg)}

\* admin_func_run(i, target_gas, context)
AdminRun(i, targetGas, ctx, cfg) ==
  IF cfg.requiredGas # targetGas THEN {Running("OutOfGas", cfg)}
  ELSE IF i.len = 0 \/ ~IsMultisig(ctx, cfg) THEN {Running("EnterpriseHalt", cfg)}
  ELSE CASE AdminCallKindOf(i.call) = "EmergencyStop" -> {Dies("terminated", cfg)}
         [] AdminCallKindOf(i.call) = "ReloadRuntimeConfig" ->
              ReloadRuntimeConfig(i, cfg)
         [] AdminCallKindOf(i.call) \in {"Mint", "Burn"} -> {Returns(0, cfg)}
         [] OTHER -> {Returns(2, cfg)}

\* A slip in admin_func_run: REQUIRED_GAS is read again when the result is
\* built, after a reload in the same call may have rewritten it.
AdminGasUsedReread(cfgOnEntry, cfgAfter) == cfgAfter.requiredGas

\* The gas a successful run reports: gas_base, REQUIRED_GAS as read on
\* entry, whatever the call did to it.
AdminGasUsed(cfgOnEntry, cfgAfter) == cfgOnEntry.requiredGas
=============================================================================
