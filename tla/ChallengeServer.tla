-------------------------- MODULE ChallengeServer --------------------------
(***************************************************************************)
(* The TCP challenge server of solalloc (challenge/server/src/main.rs);   *)
(* safusol's server is the same program with other setup instructions.    *)
(*                                                                         *)
(* main runs on the thread that #[tokio::main] blocks on: a blocking      *)
(* accept loop that unwraps every accepted stream and tokio::spawns       *)
(* handle_connection for it.  The spawned tasks run on a fixed pool of    *)
(* Workers threads.  handle_connection mixes .await points, where the     *)
(* task yields its worker, with blocking std::net reads and writes on the *)
(* socket, which hold the worker until the client sends or hangs up.      *)
(* File descriptors are bounded: an accept or a try_clone past FdLimit    *)
(* fails with EMFILE.                                                      *)
(***************************************************************************)
EXTENDS Naturals, Sequences, FiniteSets, FiniteSetsExt

CONSTANTS
  Conns,         \* the client connections that will arrive
  Stallers,      \* clients that connect and then never send nor hang up
  Workers,       \* worker threads of the multi-thread runtime
  FdLimit,       \* descriptors the process may still open
  FailingSites   \* sites whose call may fail on its own: "accept"

ASSUME /\ Stallers \subseteq Conns
       /\ Workers \in Nat \ {0}
       /\ FdLimit \in Nat
       /\ FailingSites \subseteq {"accept"}

VARIABLES
  pc,        \* pc[c]: where the task of connection c is in handle_connection
  running,   \* the tasks a worker thread is executing
  runQueue,  \* the runtime's queue of runnable tasks, oldest first
  sent,      \* sent[c]: 0, 1 (the program) or 2 (and the instruction)
  closed,    \* closed[c]: the client has hung up
  proc       \* the server process: "running" or "crashed"

vars == <<pc, running, runQueue, sent, closed, proc>>

Phases == {"unaccepted", "start", "input", "build", "setup", "instr",
           "solve", "verdict", "done", "error", "panicked"}
\* handle_connection has returned (Ok, Err or by a panic the runtime caught)
Ended == {"done", "error", "panicked"}

\* Descriptors a connection holds: the accepted stream, and from
\* try_clone on the clone the ChallengeBuilder reads through.
FdsOf(c) == CASE pc[c] = "start"                        -> 1
              [] pc[c] \in {"unaccepted"} \cup Ended   -> 0
              [] OTHER                                 -> 2
OpenFds == MapThenSumSet(FdsOf, Conns)

ServerUp == proc = "running"

\* The task of c reaches an .await that is pending: it gives its worker
\* back and is queued again when the future wakes it.
Yield(c, next) ==
  /\ pc' = [pc EXCEPT ![c] = next]
  /\ running' = running \ {c}
  /\ runQueue' = Append(runQueue, c)

\* handle_connection returns: the worker is free and both descriptors drop.
Exit(c, end) ==
  /\ pc' = [pc EXCEPT ![c] = end]
  /\ running' = running \ {c}
  /\ UNCHANGED runQueue

\* A slip in the accept loop: the first request is read on the accept
\* thread (as if try_from and input_program ran before tokio::spawn), so
\* the loop waits for the last accepted client before accepting another.
AcceptReadsInline ==
  /\ ServerUp
  /\ \A d \in Conns : pc[d] = "start" => sent[d] >= 1 \/ closed[d]
  /\ \E c \in Conns :
       /\ pc[c] = "unaccepted"
       /\ \/ /\ OpenFds < FdLimit
             /\ pc' = [pc EXCEPT ![c] = "start"]
             /\ runQueue' = Append(runQueue, c)
             /\ UNCHANGED <<running, proc>>
          \/ /\ OpenFds >= FdLimit \/ "accept" \in FailingSites
             /\ proc' = "crashed"
             /\ UNCHANGED <<pc, running, runQueue>>
  /\ UNCHANGED <<sent, closed>>

\* for stream in listener.incoming() { let stream = stream.unwrap();
\* tokio::spawn(...) }: an Err from accept (EMFILE past the descriptor
\* limit, or another accept error) panics main, and the process exits
\* with every session in it.
Accept ==
  /\ ServerUp
  /\ \E c \in Conns :
       /\ pc[c] = "unaccepted"
       /\ \/ /\ OpenFds < FdLimit
             /\ pc' = [pc EXCEPT ![c] = "start"]
             /\ runQueue' = Append(runQueue, c)
             /\ UNCHANGED <<running, proc>>
          \/ /\ OpenFds >= FdLimit \/ "accept" \in FailingSites
             /\ proc' = "crashed"
             /\ UNCHANGED <<pc, running, runQueue>>
  /\ UNCHANGED <<sent, closed>>

\* A slip in the runtime's bound: a task is polled with every worker busy.
ScheduleUnbounded ==
  /\ ServerUp
  /\ runQueue # <<>>
  /\ running' = running \cup {Head(runQueue)}
  /\ runQueue' = Tail(runQueue)
  /\ UNCHANGED <<pc, sent, closed, proc>>

\* A worker thread with nothing to run polls the oldest runnable task.
Schedule ==
  /\ ServerUp
  /\ runQueue # <<>>
  /\ Cardinality(running) < Workers
  /\ running' = running \cup {Head(runQueue)}
  /\ runQueue' = Tail(runQueue)
  /\ UNCHANGED <<pc, sent, closed, proc>>

\* The steps of handle_connection, each taken by the worker running c.
Runs(c, at) == ServerUp /\ c \in running /\ pc[c] = at

\* socket.try_clone().unwrap() and ChallengeBuilder::try_from(..).unwrap():
\* past the descriptor limit the clone fails and the task panics; the
\* runtime catches the panic and drops the task.
Start(c) ==
  /\ Runs(c, "start")
  /\ \/ OpenFds < FdLimit /\ pc' = [pc EXCEPT ![c] = "input"] /\ UNCHANGED <<running, runQueue>>
     \/ OpenFds >= FdLimit /\ Exit(c, "panicked")
  /\ UNCHANGED <<sent, closed, proc>>

\* A blocking read of the client's next message: it holds the worker
\* until the message is there (and parses or not) or the client hung up.
BlockingRead(c, need, next) ==
  \/ sent[c] >= need /\ pc' = [pc EXCEPT ![c] = next] /\ UNCHANGED <<running, runQueue>>
  \/ sent[c] >= need /\ Exit(c, "error")
  \/ sent[c] < need /\ closed[c] /\ Exit(c, "error")

\* A slip in reading the program: end of stream is not an error, and the
\* read keeps waiting for bytes that will never come.
ReadProgramIgnoresEof(c) ==
  /\ Runs(c, "input")
  /\ \/ sent[c] >= 1 /\ pc' = [pc EXCEPT ![c] = "build"] /\ UNCHANGED <<running, runQueue>>
     \/ sent[c] >= 1 /\ Exit(c, "error")
  /\ UNCHANGED <<sent, closed, proc>>

\* builder.input_program()?
ReadProgram(c) ==
  /\ Runs(c, "input")
  /\ BlockingRead(c, 1, "build")
  /\ UNCHANGED <<sent, closed, proc>>

\* builder.build().await
Build(c) ==
  /\ Runs(c, "build")
  /\ Yield(c, "setup")
  /\ UNCHANGED <<sent, closed, proc>>

\* Funding the two keypairs (run_ix(..).await?), writing the program and
\* account ids to the socket (writeln!(..)?, which fails once the client
\* has hung up) and running the register instruction
\* (run_ixs_full(..).await?).
Setup(c) ==
  /\ Runs(c, "setup")
  /\ \/ Yield(c, "instr")
     \/ closed[c] /\ Exit(c, "error")
  /\ UNCHANGED <<sent, closed, proc>>

\* chall.read_instruction(solve_id)?
ReadInstruction(c) ==
  /\ Runs(c, "instr")
  /\ BlockingRead(c, 2, "solve")
  /\ UNCHANGED <<sent, closed, proc>>

\* run_ixs_full(&[solve_ix], ..).await?: the client's instruction may fail.
Solve(c) ==
  /\ Runs(c, "solve")
  /\ \/ Yield(c, "verdict")
     \/ Exit(c, "error")
  /\ UNCHANGED <<sent, closed, proc>>

\* get_account(user).await? and the verdict written with writeln!(..)?
Verdict(c) ==
  /\ Runs(c, "verdict")
  /\ \/ Exit(c, "done")
     \/ closed[c] /\ Exit(c, "error")
  /\ UNCHANGED <<sent, closed, proc>>

HandlerStep(c) ==
  Start(c) \/ ReadProgram(c) \/ Build(c) \/ Setup(c) \/ ReadInstruction(c)
    \/ Solve(c) \/ Verdict(c)

\* The client side: it sends its program, then its instruction, or hangs up.
ClientSend(c) ==
  /\ c \notin Stallers /\ ~closed[c] /\ sent[c] < 2
  /\ sent' = [sent EXCEPT ![c] = @ + 1]
  /\ UNCHANGED <<pc, running, runQueue, closed, proc>>

ClientClose(c) ==
  /\ c \notin Stallers /\ ~closed[c] /\ pc[c] \notin Ended
  /\ closed' = [closed EXCEPT ![c] = TRUE]
  /\ UNCHANGED <<pc, running, runQueue, sent, proc>>

Init ==
  /\ pc = [c \in Conns |-> "unaccepted"]
  /\ running = {}
  /\ runQueue = <<>>
  /\ sent = [c \in Conns |-> 0]
  /\ closed = [c \in Conns |-> FALSE]
  /\ proc = "running"

Next ==
  \/ Accept
  \/ Schedule
  \/ \E c \in Conns : HandlerStep(c) \/ ClientSend(c) \/ ClientClose(c)

Spec == Init /\ [][Next]_vars

(***************************************************************************)
(* Fairness.  The accept thread takes a pending connection; a free worker *)
(* polls the oldest runnable task (tokio's scheduler does not leave a     *)
(* worker idle beside a runnable task); the worker running a task keeps   *)
(* executing it.  Clients other than the Stallers send their messages.    *)
(* Hanging up and failures are not assumed to happen.                     *)
(***************************************************************************)
LiveSpec ==
  /\ Spec
  /\ WF_vars(Accept)
  /\ WF_vars(Schedule)
  /\ \A c \in Conns : WF_vars(HandlerStep(c))
  /\ \A c \in Conns \ Stallers : WF_vars(ClientSend(c))

-----------------------------------------------------------------------------
TypeOK ==
  /\ pc \in [Conns -> Phases]
  /\ running \subseteq Conns /\ Cardinality(running) <= Workers
  /\ runQueue \in Seq(Conns)
  /\ sent \in [Conns -> 0 .. 2]
  /\ closed \in [Conns -> BOOLEAN]
  /\ proc \in {"running", "crashed"}

\* Every client that does not stall has its session finished (a verdict,
\* an error or a caught panic) unless the server process died: the
\* blocking reads of the stalled clients, each holding a worker of the
\* runtime, and the accept loop's unwrap must not starve it.
SessionsFinish ==
  \A c \in Conns \ Stallers : <>(pc[c] \in Ended \/ proc = "crashed")
=============================================================================
