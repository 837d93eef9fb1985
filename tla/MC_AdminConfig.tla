-------------------------- MODULE MC_AdminConfig ----------------------------
(***************************************************************************)
(* MC_EVMExecutor with a history variable cfgAt: the admin precompile's   *)
(* configuration as it was when each frame on the call stack was entered. *)
(***************************************************************************)
EXTENDS MC_EVMExecutor

VARIABLE cfgAt

InitH == Init /\ cfgAt = <<>>
NextH ==
  /\ Next
  /\ cfgAt' = [i \in DOMAIN frames' |->
                 IF i \in DOMAIN cfgAt /\ i <= Len(frames) THEN cfgAt[i] ELSE admin]
SpecH == InitH /\ [][NextH]_<<vars, cfgAt>>

\* A frame that reverts leaves nothing behind (spec 4.6 and 5: "for every
\* reverted frame, none of its entries are present"), the runtime
\* configuration included: when call_inner or create_inner returns a
\* failure, the admin configuration is what it was when the frame began.
RevertRestoresConfig ==
  [][Len(frames') < Len(frames) /\ lastRet' \notin OkResults
       => admin' = cfgAt[Len(frames)]]_<<vars, cfgAt>>
=============================================================================
