--------------------------- MODULE JournaledState ---------------------------
(***************************************************************************)
(* The journaled world state the executor drives (journaled_state.rs of   *)
(* revm, which is not part of this repository's sources: every operator   *)
(* here is modelled from spec sections 3 and 4.6).                        *)
(*                                                                         *)
(* A journaled state js is a record                                        *)
(*   bal, nonce, code, slot : the accounts (code is TRUE iff the code hash *)
(*                            is not KECCAK_EMPTY; slot is one storage     *)
(*                            slot per account),                           *)
(*   logs                   : the logs emitted so far,                     *)
(*   journal                : the ordered log of reversible effects,       *)
(*   depth                  : the number of open checkpoints.              *)
(* The operators are pure: they take js and return the new js, or a       *)
(* record [ok, js] for the operations of the code that can fail.          *)
(***************************************************************************)
EXTENDS Naturals, Sequences, SequencesExt

CONSTANTS
  Addr,       \* account addresses
  NonceMax    \* u64::MAX, scaled down: inc_nonce overflows above it

ASSUME NonceMax \in Nat \ {0}

\* The part of js that a checkpoint revert must restore.
World(js) == [bal |-> js.bal, nonce |-> js.nonce, code |-> js.code,
              slot |-> js.slot, logs |-> js.logs]

\* JournalEntry::BalanceTransfer / NonceChange / StorageChange / CodeChange,
\* each undone by CheckpointRevert.
UndoEntry(e, js) ==
  CASE e.kind = "transfer" ->
         [js EXCEPT !.bal[e.from] = @ + e.value, !.bal[e.to] = @ - e.value]
    [] e.kind = "nonce"    -> [js EXCEPT !.nonce[e.addr] = @ - 1]
    [] e.kind = "storage"  -> [js EXCEPT !.slot[e.addr] = e.old]
    [] e.kind = "code"     -> [js EXCEPT !.code[e.addr] = FALSE]

\* checkpoint(): the savepoint is the pair of log and journal lengths.
CheckpointOf(js) == [log |-> Len(js.logs), journal |-> Len(js.journal)]
Checkpoint(js)   == [js EXCEPT !.depth = @ + 1]

\* checkpoint_commit(): drops the savepoint, the effects stay journaled so
\* that a revert of an enclosing checkpoint still undoes them.
CheckpointCommit(js) == [js EXCEPT !.depth = @ - 1]

\* checkpoint_revert(cp): undo the entries after cp, newest first, and
\* truncate journal and logs to cp.
CheckpointRevert(js, cp) ==
  LET undone == FoldRight(UndoEntry,
                          SubSeq(js.journal, cp.journal + 1, Len(js.journal)),
                          js)
  IN  [undone EXCEPT !.journal = SubSeq(js.journal, 1, cp.journal),
                     !.logs    = SubSeq(js.logs, 1, cp.log),
                     !.depth   = js.depth - 1]

\* transfer(from, to, value): OutOfFund when the source cannot pay.
Transfer(js, from, to, value) ==
  IF js.bal[from] < value
  THEN [ok |-> "OutOfFund", js |-> js]
  ELSE [ok |-> "Continue",
        js |-> [js EXCEPT !.bal[from] = @ - value,
                          !.bal[to]   = @ + value,
                          !.journal   = Append(@, [kind |-> "transfer",
                                           from |-> from, to |-> to,
                                           value |-> value])]]

\* A slip in inc_nonce: no overflow check.
IncNonceUnchecked(js, a) ==
  [ok |-> TRUE,
   js |-> [js EXCEPT !.nonce[a] = @ + 1,
                     !.journal = Append(@, [kind |-> "nonce", addr |-> a])]]

\* inc_nonce(a): None (here ok = FALSE) when the nonce is at u64::MAX.
IncNonce(js, a) ==
  IF js.nonce[a] = NonceMax
  THEN [ok |-> FALSE, js |-> js]
  ELSE [ok |-> TRUE,
        js |-> [js EXCEPT !.nonce[a] = @ + 1,
                          !.journal = Append(@, [kind |-> "nonce", addr |-> a])]]

\* create_account(a): a collision when the account has a nonce or code.
CreateAccountOk(js, a) == js.nonce[a] = 0 /\ ~js.code[a]

\* sstore(a, key, v): records the previous value.
SStore(js, a, v) ==
  [js EXCEPT !.slot[a]  = v,
             !.journal = Append(@, [kind |-> "storage", addr |-> a,
                                    old |-> js.slot[a]])]

\* log(entry)
Log(js, a) == [js EXCEPT !.logs = Append(@, a)]

\* set_code(a, code): only non-empty code changes the code hash.
SetCode(js, a, nonEmpty) ==
  IF nonEmpty
  THEN [js EXCEPT !.code[a] = TRUE,
                  !.journal = Append(@, [kind |-> "code", addr |-> a])]
  ELSE js

\* finalize(): hands out the state and logs and starts an empty journal.
FinalizeJournal(js) == [js EXCEPT !.logs = <<>>, !.journal = <<>>, !.depth = 0]
=============================================================================
