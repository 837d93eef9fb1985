# TLA+ models of the enterprise-blockchain EVM executor

This directory holds TLA+ models of the sources under `src/`. The main
subject is the EVM executor of `src/enterprise-blockchain/revm` and its
admin precompile. Everything is checked with TLC.

## The system

`src/` holds four programs:

| Part | Sources | What it does |
|---|---|---|
| Transaction executor | `revm/src/evm_impl.rs` | `transact` validates a transaction, prepays its gas, charges the intrinsic gas, bumps the nonce and enters `call_inner` or `create_inner`. These recurse through the interpreter for every nested CALL or CREATE, each under a journal checkpoint that is committed or reverted. `finalize` then repays unused gas plus the capped refund and pays the coinbase. |
| Journaled state | revm's `journaled_state.rs` (not in `src/`) | A journal of reversible effects with nested checkpoints. |
| Admin precompile | `precompile/src/admin.rs`, `primitives/src/lib.rs`, `primitives/src/precompile.rs` | A precompile at 1337 that only the multisig may drive, and only through STATICCALL. It stops the node, reloads process-global statics (`MULTISIG`, `REQUIRED_GAS`) and dumps state. |
| Instruction results | `interpreter/src/instruction_result.rs` | `return_ok!`, `return_revert!`, and the mapping of results to Success, Revert and Halt. |
| Interpreter loop | `interpreter/src/interpreter.rs` | `run` steps until the result is not Continue. `run_inspect` does the same with inspector hooks. |
| Inputs | `interpreter/src/inner_models.rs` | `CallInputs`, `CreateInputs`, `Transfer`. |
| Memory | `interpreter/src/interpreter/memory.rs`, `Interpreter::return_value` | A frame's byte memory: word-aligned growth, slice reads and writes, `set` and `set_data` copies, and the output `call_inner` takes from it. |
| Database trait | `primitives/src/db.rs` | The account and storage loader interface. |
| Challenge servers | `safusol/challenge/server`, `solalloc/challenge/server` | A blocking accept loop that spawns one tokio task per connection. The task reads a program and an instruction from the socket, runs them against a fresh bank and writes a verdict. |
| JIT compiler driver | `i-love-revmc/.../jit-compiler` | A one-shot program that compiles bytecode and links it with gcc into `/lib/libjit.so`. |

How the parts interact:
- The executor is single-threaded and synchronous. Every nested call is a recursive call on one stack.
- The only state shared beyond a transaction is the admin precompile's statics. They outlive every checkpoint, and the node process itself.
- The executor reaches storage only through the `Database` trait. An `Err` from it is stored in `data.error` and surfaces as `FatalExternalError`.
- A challenge server's tasks share no data. They do share the runtime's worker threads and the process's file descriptors.

## Modules

- **`JournaledState`**: the journal as pure operators. Its source is not in `src/`, so it is modelled from the spec and marked `spec_modelled` in `PROJECT.json`.
  - A journaled state `js` holds balances, nonces, code flags, one storage slot per account, the logs, the journal entries and the checkpoint depth.
  - The operators are `Checkpoint`, `CheckpointCommit`, `CheckpointRevert`, `Transfer`, `IncNonce`, `CreateAccountOk`, `SStore`, `Log`, `SetCode` and `FinalizeJournal`.
  - `CheckpointRevert` undoes entries newest first, using `FoldRight`.
- **`AdminPrecompile`**: `admin_func_run` and everything it calls, as pure operators.
  - Each operator returns the set of outcomes the build can produce. An outcome is a result, a new configuration and the fate of the process: running, terminated by SIGTERM, or crashed by a panic or undefined behaviour.
  - `DumpLoop` is the recursive translation of `fn_dump_state`'s loop.
- **`EVMExecutor`**: the executor as a state machine.
  - Variables:
    - `js`, the journaled state;
    - `frames`, the interpreters on the call stack;
    - `tx`, the transaction in flight, including `base`, the state `transact` started from;
    - `lastRet`, the result handed to the last caller;
    - `receipt`;
    - `admin`, the precompile statics;
    - `node`, the process;
    - `burnt`, the history of base fee burnt;
    - `txCount`;
    - `dbError`, the executor's `data.error`.
  - The recursion of `call_inner`/`create_inner` through `Interpreter::run` is an explicit frame stack.
    - The part of `call_inner`/`create_inner` before the interpreter runs is `CallInner`/`CreateInner`. It either finishes at once or pushes a frame. Finishing at once covers CallTooDeep, OutOfFund, the precompile, nonce overflow, collision and a database error.
    - The part after the interpreter returns is `CallReturn`/`CreateReturn`, taken by `FrameExit`.
    - `Resume` gives the caller back its unused gas and refund, as the CALL and CREATE instructions do.
  - Actions:
    - `RejectTx` and `Transact` cover `transact` up to dispatch. `TxChecks` lists the validation checks in code order, from the Merge's `PrevrandaoNotSet` on, and the first that fails is the reason.
    - The fork is set by the constants `London`, `Merge` and `Shanghai`, which are ordered as in `SpecId`. From Shanghai, `CoinbaseWarmUp` loads the coinbase in `transact` (EIP-3651); a failure there returns `Err(Database)`. `FinalizeCoinbaseLoad` then reads the coinbase from the journal, so finalize's load cannot fail. Before Shanghai, finalize's load goes to the database. `TransactInner` is the dispatch on `transact_to`.
    - `OpSstore`, `OpLog`, `OpCall` and `OpCreate2` are the Host calls a running frame makes, each guarded as its instruction is. `OpCall` covers CALL, CALLCODE, STATICCALL and DELEGATECALL; `CallInputsOf` builds their `CallContext`. The opcode table is not in `src/`, so bytecode is abstract: a frame with code may take any of these steps or stop with any result.
    - `OpHostRead` is SLOAD, BALANCE, BLOCKHASH, EXTCODESIZE/COPY and EXTCODEHASH: the Host reads `HostSload`, `HostBalance`, `HostBlockHash`, `HostCode` and `HostCodeHash`. What they return is abstract. A failed read stores the error and makes the frame fatal before any gas is charged; a good one costs `OpCost`.
    - `FrameExit`.
    - `Finalize` covers the rest of `transact` and `finalize`.
  - **Database faults.**
    - `FailingReads` names the call sites whose `Database` read may return `Err`, one per site in the code: the caller load in `transact`, the code load and the touch in `call_inner`, the caller, balance, target and `create_account` reads in `create_inner`, the storage read of SSTORE, the reads of `OpHostRead` (`sload`, `balance`, `block_hash`, `code`, `code_hash`), and the coinbase load in `finalize`.
    - A read whose result the code uses stores the error and ends the frame with `FatalExternalError`.
    - A read whose result the code ignores (`IgnoredLoads`) only stores the error.
    - A frame stopped by a fatal error carries `fatal`, so it can only exit with `FatalExternalError`.
    - When `finalize` sees a fatal result, `transact` returns `Err(Database)` and the state goes back to `tx.base`.
  - **Inspector.**
    - `InspectorResults` are the results an inspector's `step`/`step_end` may return. `run_inspect` stops the frame with any of them (`ExitResults`).
    - `InspectorEndResults` are the results its `call`/`create` hooks may cut a call short with. They are also what `call_end`/`create_end` may hand back in place of the code's result (`FinishEnd`). A Continue from the `call`/`create` hooks means "go on" (`evm_impl.rs:489`, 745), so only the other results cut a call short. A Continue from an end hook reaches `transact` as `SuccessOrHalt::InternalContinue`, and there `Finalize` crashes the node (the `panic!` at `evm_impl.rs:284`).
    - Every return of `call_inner` and `create_inner` passes through `FinishEnd`, after the journal was committed or reverted. The one exception is the failed code load.
- **`NestedSnapshots`**: the abstract specification of nested snapshots, written with no journal.
  - It keeps a stack of saved worlds and whether the last call succeeded.
  - Entering a call saves the world. Only the caller's nonce and balance may move first.
  - A failing call restores the saved world. A succeeding call drops it.
  - `EVMExecutor` maps onto it with `Abs == INSTANCE NestedSnapshots WITH ...`. A frame's saved world is `World(CheckpointRevert(js, cp))`.
- **`Memory`**: `next_multiple_of_32` and `set_data` as pure operators over a `UsizeBits`-wide usize.
- **`FrameMemory`**: one interpreter's memory over its life, extending `Memory`.
  - Variables: `mem` (`Memory.data`), `gas` (limit, static `used`, expansion cost `memory`), `retRange` (`return_range`), `result` (`instruction_result`), `taken` and `output` (what `call_inner` took from `return_value`), `panicked`, `returnData` (`return_data_buffer`), and two history variables: `prev`, the previous instruction when it was MLOAD or MSTORE, and `loaded`, the word an MLOAD just pushed.
  - `Resize`, `GetSlice`, `SetByte`, `SetU256`, `Set`, `SetData` and `ReturnValue` are translated from `memory.rs` and `interpreter.rs`. Any slice or `Vec` index past the end sets `panicked`, so no bound is assumed.
  - The instructions that drive memory are not in `src/`: `MLoad`, `MStore`, `MStore8`, `CallDataCopy`, `ReturnDataCopy`, `CallOut`, `Return`, `ResizeFor` (the `memory_resize!` expansion: saturating end, `next_multiple_of_32`, `C_mem` charged as a delta, MemoryOOG on `None` or no gas) and the static gas check come from spec sections 4.2 and 4.4 and are marked `spec_modelled`.
  - `CallOut` is the memory side of CALL. The callee's output becomes `return_data_buffer`, and on success or revert its first `min(out_len, len)` bytes go through `Memory::set` at the out offset. With `out_len = 0` the offset is `usize::MAX` and nothing is resized, so only `set`'s `is_empty` check keeps it from indexing. `ReturnDataCopy` halts with OutOfOffset when the data range passes the end of the buffer or overflows usize.
  - A zero-length RETURN sets `return_range` to `usize::MAX..usize::MAX`, the convention `return_value` tests for.
  - `TakeOutput` is `call_inner` calling `return_value()` once `run()` returns, whatever the result.
- **`ChallengeServer`**: the solalloc and safusol servers. Their `main.rs` files differ only in the setup instructions, which are data.
  - Variables:
    - `pc`, where each connection's task is in `handle_connection`;
    - `running`, the tasks on a worker thread;
    - `runQueue`, the runtime's runnable tasks;
    - `sent` and `closed`, the client side;
    - `proc`, the process.
  - `Accept` is one turn of the accept loop. Past `FdLimit` descriptors the accept fails with EMFILE, and `stream.unwrap()` then panics `main`. Other accept errors are possible when `"accept" \in FailingSites`.
  - `Schedule` is a free worker polling the oldest runnable task.
  - The handler steps, in code order, are `Start`, `ReadProgram`, `Build`, `Setup`, `ReadInstruction`, `Solve` and `Verdict`.
    - `Start` covers the two `unwrap`s on `try_clone`/`try_from`. A panic there ends only the task.
    - `ReadProgram` and `ReadInstruction` are blocking reads. They keep the worker until the client sends or hangs up.
    - At every `.await` (`Yield`) the task gives its worker back.
    - Every `?` is an exit to `error`.
- **MC modules**:
  - `MC_EVMExecutor` gives the constants.
  - `MC_AdminConfig` adds a history variable `cfgAt`: the admin configuration at each frame's entry.
  - `MC_DumpState` enumerates the dump argument lengths.
  - `MC_Memory` has one initial state per pure-operator input (`call`), checked against reference definitions, and one initial state where a frame starts and its memory is driven by the instructions.
  - `MC_ChallengeServer` has three clients, one of them silent.

## Runs

| Run | Expect | Checks |
|---|---|---|
| `executor_safety` (`MC_EVMExecutor.cfg`) | pass | `TypeOK`; `CheckpointsMatchFrames` (open checkpoints = frames, savepoints ordered); `HaltChargesFullGas`; `DbErrorStoredWhenFatal` (a fatal result always has an error stored for `transact` to take, and no error outlives a transaction); `SupplyConserved` (balances + prepaid + burnt constant); `CallDepthWithinLimit` (at most `CallStackLimit + 1` frames); `AdminOnlyByMultisig` (the admin statics change, and the node stops or crashes before finalize, only in a step of a frame running as the multisig configured before it); `AdminChangeReported` (a reconfiguration that takes effect returns Return to its caller, because `admin_func_run` charges the `REQUIRED_GAS` it read on entry). Every fault site may fail except `create_account` and the `balance`, `block_hash` and `code` reads of `OpHostRead`, which behave like `sload` and `code_hash`. Pre-London. About 729k states in ~55 s. |
| `journal_refines_snapshots` (`MC_EVMExecutor_refines.cfg`) | pass | `JournalRefinesSnapshots == Abs!Spec`, with every fault site failing and an inspector that may stop frames with Return, Revert or OutOfGas. `StaticCallChangesNothing`: while a STATICCALL frame is on the stack, no step changes balances, nonces, code, storage or logs. The run allows three frames (`CallStackLimit = 2`), so a STATICCALL callee can make its own CALL, CALLCODE or DELEGATECALL. That nested call inherits `is_static`, which is the case the property is about. Pre-London. About 60k states in ~90 s. |
| `tx_completes` (`MC_EVMExecutor_live.cfg`) | pass | Under `LiveSpec` and Shanghai (so London and the Merge, with `prevrandao` set): `TxCompletes` (a started transaction is finalized, or the node dies), `SupplyConserved` and `HaltChargesFullGas`. London means a base fee of 1, priority fees, init code that may start with 0xEF and the refund cap `spent / 5`. `burnt` records the base fee of the gas used, which spec 4.6 step 8 leaves unpaid, so `SupplyConserved` checks that finalize pays the coinbase the price less the base fee. The code load, `create_account` and the coinbase warm-up in `transact` may fail, and `call_end` may report Revert or Continue; Continue for the outermost call panics in `transact`, a crash `TxCompletes` accepts as an end. About 174k states in ~75 s. |
| `memory_functions` (`MC_Memory.cfg`) | pass | `NextMultipleOf32Correct` and `SetDataCorrect` against reference definitions, including the usize wrap-around, over 816 inputs. `TypeOK`; `NoMemoryPanic` (no instruction and no `return_value` indexes memory past its end); `MemoryPaidFor` (memory is whole words, the meter's memory cost is `C_mem` of the current size after any run of expansions, and spent gas stays within the limit); `MStoreMLoadRoundTrip` (spec section 8's law `MSTORE(off, w); MLOAD(off) == w`, at aligned, unaligned and word-crossing offsets, after any earlier expansion and writes); `FrameEnds` (under `MCLiveSpec`, every frame ends and `call_inner` takes its output, because every instruction that does not halt pays gas). About 46k states in ~35 s. |
| `sessions_finish` (`MC_ChallengeServer.cfg`) | pass | `TypeOK`; `SessionsFinish`: with one silent client on two workers, every other client's session ends unless the server crashed. About 21k states in ~2 s. |
| `create_at_max_nonce` (`MC_EVMExecutor_nonce.cfg`) | violation | `MaxNonceTxNeverSucceeds`. A Create from a sender at the u64::MAX nonce is reported as Success (`evm_impl.rs:537`). |
| `admin_config_survives_revert` (`MC_AdminConfig.cfg`) | violation | `RevertRestoresConfig`. The contract `ms` STATICCALLs the precompile to reload REQUIRED_GAS, then reverts; the reload stays. |
| `dump_state_overflow` (`MC_DumpState.cfg`) | violation | `DumpWritesInBuffer`. With 17 argument bytes the loop writes the slot at offset 256. |
| `call_end_revert_keeps_state` (`MC_EVMExecutor_callend.cfg`) | violation | `JournalRefinesSnapshots`. A call runs SSTORE and stops, and `call_inner` commits. Then `call_end` returns Revert (`evm_impl.rs:880`): the caller sees a failed call whose write stays. |
| `finalize_db_error_panics` (`MC_EVMExecutor_dbpanic.cfg`) | violation | `FinalizeReturnsDbErrors`. `finalize` ignores a failed coinbase load (`evm_impl.rs:352`), then `get_mut(&coinbase).unwrap()` panics (362) instead of returning `Err(Database)`. |
| `create_account_error_leaks_checkpoint` (`MC_EVMExecutor_ckptleak.cfg`) | violation | `CheckpointsMatchFrames`. An `Err` from `create_account` (570) returns FatalExternalError without reverting the checkpoint taken at 552. |
| `inspector_fatal_panics` (`MC_EVMExecutor_inspect.cfg`) | violation | `DbErrorStoredWhenFatal`. An inspector that stops a frame with FatalExternalError reaches `transact` with no error stored, and `self.data.error.take().unwrap()` panics (`interpreter.rs:152`, `evm_impl.rs:281`). |

Every property of a passing run has a mutant in `PROJECT.json`: a plausible slip in the mapped code that TLC then catches.

### Bounds and why they suffice

`MC_EVMExecutor` uses these bounds:
- **Accounts.** Seven: alice; `ms` (contract, multisig, CREATE2 deployer); `adm` (the precompile); `cb` (coinbase); and `k1`..`k3`, where creations land.
  - `create_address(alice, 0)` and `create2_address(ms, _)` map to fixed accounts. So a second CREATE2 collides, and so does a Create after a first Create.
- **Nonce.** `NonceMax = 2`. Alice starts at 0 or at `NonceMax`, so both the ordinary and the overflow paths run.
- **Gas and stack depth.**
  - Gas limits are 4 (valid) and 5 (over the block limit, so rejected). Intrinsic gas is 1 for a call and 2 for a create, and each instruction costs 1.
  - `CallStackLimit = 1` in every run but `journal_refines_snapshots`, which uses 2 so that a call can be nested inside a STATICCALL callee. With 1, the third nested level gets CallTooDeep. The check `depth() > CALL_STACK_LIMIT` runs before the callee's checkpoint, so two frames are on the stack at the deepest point: `CallStackLimit + 1`. With the real constant that is 1025 frames, one more than spec section 3's `depth <= 1024`. This matches Ethereum's rule that a call from depth 1024 fails, and `CallDepthWithinLimit` states the code's bound.
  - This is enough gas for two nested calls and for a refund to matter: `ClearRefund = 2` and the pre-London quotient is 2.
  - The London run (`tx_completes`) uses a block gas limit of 5, so the cap `spent / 5` can be 1. It uses prices 0 and 2, and priority fees none, 0 and 3. These reach both London rejections, an effective price at the base fee and one above it.
  - In the London run, alice holds 10 wei. That is exactly too little for a gas limit of 5 at price 2 plus a value of 1, so the value term of the balance check decides.
- **Values and outputs.**
  - Values are 0 or 1, and the 6 wei balance allows one failing and one passing balance check.
  - Init code may return empty, one-byte or oversized code (`MaxCodeLen = 1`).
- **Admin inputs.** Seven: empty, stop, valid and invalid RequiredGas reloads, a multisig reload, a short DumpState, and an unknown kind. These reach every precompile outcome: PrecompileOOG after a reload, PrecompileError, crash and termination.
- **Transactions.**
  - `MaxTx = 2` in the safety run, so a transaction runs on a state left by another: changed nonces, a reloaded config, a code collision, an error that must not outlive its transaction.
  - The refinement and liveness runs use `MaxTx = 1`. With every fault site failing, the state space grows quickly. Both properties are about one transaction at a time: the snapshot stack is empty between transactions, and `TxCompletes` is per transaction.
- **Faults.** Every database read on the modelled paths is a member of `FailingReads`.
  - The safety run leaves out `create_account`, whose failure path breaks `CheckpointsMatchFrames`. That path has its own violation run.
  - The refinement run lets every site fail.
  - The liveness run, the larger London world, lets three sites fail.

All result codes, collisions, size-limit failures, static-state violations, database errors, crashes and terminations are reached. Each was checked with a reachability query during development. The check also confirms that every action disjunct fires in some passing run.

`MC_Memory` uses an 8-bit usize (`UsizeMax = 255`) and offsets 0, 1, 33 and 235, plus an operand wider than usize.
- 0 and 1 give aligned and unaligned writes; 33 puts a word across a word boundary and forces a two-word expansion.
- 235 plus any size has no multiple of 32 in usize, so `next_multiple_of_32` returns `None` and the instruction halts with MemoryOOG. A zero-length RETURN at 235 is the case the `usize::MAX` sentinel exists for.
- `ReturnDatas = {<<1, 2>>}`: a callee returning two bytes, shorter than most out ranges and copy lengths, so both the clipping of CALL's copy and RETURNDATACOPY's OutOfOffset happen. The buffer starts empty (`Interpreter::new`).
- The gas limit of 21 at `VeryLow = 3` and `C_mem(n) = 3n + n^2/4` allows several instructions and runs out during an expansion, so every halt is reached.

`MC_ChallengeServer` uses three clients, two workers and `FdLimit = 4`.
- The silent client holds a worker forever, so the other two share one worker.
- Four descriptors let two sessions run at once. A third connection then meets EMFILE, either at accept (a crash) or at `try_clone` (a caught panic).
- With two silent clients and `FdLimit = 6`, `SessionsFinish` fails: both workers block in reads and the third client waits forever. No statement of the program promises service, so this is recorded as a hazard, not a finding.

### Fairness

- **`EVMExecutor`.** `LiveSpec == Spec /\ WF_vars(ExecStep)`.
  - The executor runs each transaction to completion on one thread, and every step uses gas or pops a frame.
  - `ExecStep` is every step of a transaction in flight, `Finalize` included.
  - Submitting transactions (`Transact`, `RejectTx`) is up to users and is not fair.
- **`FrameMemory`.** `LiveSpec == Spec /\ WF_vars(Next)`. `Interpreter::run` keeps calling `step` while the result is Continue, and `call_inner` calls `return_value` as soon as `run` returns. Nothing outside the frame can stop it. `MC_Memory` states the same fairness over `MCNext`.
- **`ChallengeServer`.** `LiveSpec` assumes weak fairness of:
  - the accept loop (clients do connect);
  - `Schedule` (tokio leaves no worker idle beside a runnable task);
  - each task's steps (the worker running a task keeps running it);
  - sending, for the clients that are not silent.

  Hanging up and failures are not fair.

## Not modelled, and why

- **The CREATE opcode, warm/cold access, access lists, Shanghai initcode limits.** EIP-3860's limit and word cost depend on the length of `tx.data`, which the model abstracts. A Create transaction's intrinsic cost is the constant `IntrinsicCreate`. Their instructions live in revm's opcode table, which is not in `src/`. CREATE2 and the Create transaction already exercise `create_inner`. The Host reads of SLOAD, BALANCE, BLOCKHASH and EXTCODE* are modelled only as reads that may fail (`OpHostRead`), since what they return is abstract.
- **What an inspector does besides returning results.** It may also change the gas and output it hands back, and read or write `EVMData`. Only its choice of result is modelled.
- **U256 overflow of balances.** Balances are small naturals, and the payment overflow check rejects before any arithmetic.
- **`shrink_to_fit`, copy costs, and the rest of CALL.** `shrink_to_fit` only changes the `Vec`'s capacity, which the model does not represent. The per-word copy cost of CALLDATACOPY and RETURNDATACOPY is left out of `FrameMemory`. So are CALL's input range and the callee's run; the executor models those.
- **SELFDESTRUCT.** `Host::selfdestruct` forwards to `JournaledState::selfdestruct`, outside `src/`. Spec 4.6 says only that it "transfers balance immediately", which does not settle what happens when a contract names itself as the target.
- **When SIGTERM lands.** `EmergencyStop` ends the process in the same step. With the default disposition on Linux the signal is fatal to the whole process before `kill` returns. No SIGTERM handler is installed anywhere in `src/`.
- **The JIT compiler driver.** It is a one-shot program whose state is files written by gcc and mv. The ignored exit statuses are listed as a hazard.
- **The challenge servers' data.** Keypairs, instructions, the bank and the verdict text are abstracted away. Only their control flow and faults are modelled.

## Plan

Done so far:
- the executor core, journal, admin precompile and abstract snapshots;
- database faults at every read site on the modelled paths, and the inspector's step, call, create and end hooks;
- CALLCODE;
- a London configuration (EF prefix, refund cap, base fee burn), run as Shanghai with the Merge check and the coinbase warm-up;
- the STATICCALL property on a three-frame stack, where nested calls inherit `is_static`;
- the memory functions, and one frame's memory driven by the memory instructions;
- the challenge servers' accept loop and worker pool;
- the refinement, completion, session and frame-termination liveness;
- seven violation runs, recorded as findings;
- the call depth bound, who may reconfigure or stop the node, and the stale `REQUIRED_GAS` read;
- the `InternalContinue` panic of an end hook's Continue;
- the Host reads of SLOAD, BALANCE, BLOCKHASH and EXTCODE* as fault sites;
- `Memory::set` through CALL's out range and RETURNDATACOPY, and the MSTORE/MLOAD round-trip law.

Next:
1. A larger instance of the refinement (`MaxTx = 2`) with fewer fault sites.
2. A model of the JIT driver's file effects, if a statement of what `/lib/libjit.so` must hold after a run is found.
