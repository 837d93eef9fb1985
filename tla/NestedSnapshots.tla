-------------------------- MODULE NestedSnapshots ---------------------------
(***************************************************************************)
(* What nested call frames promise of the world state, with no journal:   *)
(* a stack of saved worlds and the outcome the last finished call         *)
(* reported to its caller.  A frame that is entered saves the world (its  *)
(* caller may first have moved its own account: prepaid gas, a nonce      *)
(* bump); while frames run, the world changes but the saved worlds do     *)
(* not; a call that reports success drops its saved world; a call that    *)
(* reports failure restores it.  A call that finishes without entering a  *)
(* frame (too deep, unfunded, a precompile) changes nothing but the       *)
(* caller's nonce when it fails.                                          *)
(***************************************************************************)
EXTENDS Naturals, Sequences

CONSTANT Worlds     \* every value the world may take

VARIABLES
  world,    \* the current world
  saved,    \* one saved world per open frame, innermost last
  lastOk    \* did the last finished call report success to its caller?

vars == <<world, saved, lastOk>>

Init == saved = <<>> /\ world \in Worlds /\ lastOk \in BOOLEAN

\* m is w with only the account of one caller moved: its nonce bumped at
\* most once, its balance lowered by the gas it prepays.
CallerMoved(w, m) ==
  \E c \in DOMAIN w.nonce :
    /\ m.nonce[c] - w.nonce[c] \in {0, 1}
    /\ m.bal[c] <= w.bal[c]
    /\ m = [w EXCEPT !.nonce[c] = m.nonce[c], !.bal[c] = m.bal[c]]

Top == saved[Len(saved)]
Pop == SubSeq(saved, 1, Len(saved) - 1)

Enter ==
  /\ Len(saved') = Len(saved) + 1
  /\ SubSeq(saved', 1, Len(saved)) = saved
  /\ CallerMoved(world, saved'[Len(saved')])
  /\ world' \in Worlds
  /\ UNCHANGED lastOk

Change == world' \in Worlds /\ UNCHANGED <<saved, lastOk>>

Succeed ==
  /\ saved # <<>>
  /\ saved' = Pop
  /\ world' \in Worlds
  /\ lastOk' = TRUE

Fail ==
  /\ saved # <<>>
  /\ world' = Top
  /\ saved' = Pop
  /\ lastOk' = FALSE

FinishAtOnce ==
  /\ UNCHANGED saved
  /\ \/ world' \in Worlds /\ lastOk' = TRUE
     \/ world' \in Worlds /\ CallerMoved(world, world') /\ lastOk' = FALSE

Next == Enter \/ Change \/ Succeed \/ Fail \/ FinishAtOnce

Spec == Init /\ [][Next]_vars
=============================================================================
