-------------------------- MODULE MC_EVMExecutor ----------------------------
(***************************************************************************)
(* A small world for EVMExecutor: one externally owned sender "alice", a  *)
(* contract "ms" (the multisig the admin precompile trusts, which can      *)
(* also deploy with CREATE2), the admin precompile "adm", the coinbase     *)
(* "cb" and three empty accounts k1..k3 that creations land on.  Gas is   *)
(* scaled so that a transaction has room for two nested calls.            *)
(***************************************************************************)
EXTENDS EVMExecutor

MCAddr == {"alice", "ms", "adm", "cb", "k1", "k2", "k3"}

\* alice starts at nonce 0 or at u64::MAX; ms holds code and a set slot.
MCInitWorlds ==
  {[bal   |-> [a \in MCAddr |-> IF a = "alice" THEN 6 ELSE 0],
    nonce |-> [a \in MCAddr |-> IF a = "alice" THEN n ELSE 0],
    code  |-> [a \in MCAddr |-> a = "ms"],
    slot  |-> [a \in MCAddr |-> IF a = "ms" THEN 1 ELSE 0]] : n \in {0, NonceMax}}

\* For London, where the balance check counts the maximum fee: alice holds
\* enough for a gas limit of 5 at price 2, or of 4 and a value of 1.
MCInitWorldsLondon ==
  {[w EXCEPT !.bal = [a \in MCAddr |-> IF a = "alice" THEN 10 ELSE 0]] : w \in MCInitWorlds}

\* create_address(alice, 0) = k1, create_address(alice, 1) = k3;
\* create2_address(ms, _, salt) = k2 for the one salt.
MCCreateAddress(c, n) == IF n = 0 THEN "k1" ELSE "k3"
MCCreate2Address(c, s) == "k2"

\* Inputs to the admin precompile: empty, EmergencyStop, a valid and an
\* invalid RequiredGas reload, a MultisigAddress reload handing control to
\* alice, DumpState with a short argument, and an unknown call kind.
MCAdminInputs ==
  {[len |-> 0,  call |-> 0, conf |-> 0, arg |-> 0],
   [len |-> 1,  call |-> 1, conf |-> 0, arg |-> 0],
   [len |-> 10, call |-> 2, conf |-> 2, arg |-> 2],
   [len |-> 5,  call |-> 2, conf |-> 2, arg |-> 2],
   [len |-> 22, call |-> 2, conf |-> 1, arg |-> "alice"],
   [len |-> 4,  call |-> 2, conf |-> 4, arg |-> 0],
   [len |-> 1,  call |-> 9, conf |-> 0, arg |-> 0]}
=============================================================================
