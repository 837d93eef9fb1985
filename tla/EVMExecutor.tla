---------------------------- MODULE EVMExecutor -----------------------------
(***************************************************************************)
(* The transaction executor of revm (revm/src/evm_impl.rs): transact,     *)
(* call_inner, create_inner, finalize and the Host calls the interpreter  *)
(* makes, driving the journaled state (JournaledState) and the admin      *)
(* precompile (AdminPrecompile).                                          *)
(*                                                                         *)
(* Execution is single-threaded and synchronous: call_inner and           *)
(* create_inner recurse through Interpreter::run.  The recursion is kept  *)
(* as an explicit stack of frames: a call or create that enters the       *)
(* interpreter pushes a frame, and the code after the interpreter returns *)
(* (commit or revert, code deposit) runs when the frame exits.  The       *)
(* bytecode itself is abstract: a running frame may take any of the steps *)
(* below (SSTORE, LOG, CALL family, CREATE2, or stop with a result), each *)
(* guarded as the instruction guards it (spec 4.4), and paying gas.       *)
(* Gas amounts and balances are scaled down (see the MC module).          *)
(***************************************************************************)
EXTENDS Naturals, Sequences, FiniteSets, Functions, JournaledState, AdminPrecompile

CONSTANTS
  Senders,          \* tx.caller values
  TxTargets,        \* tx.transact_to Call(addr) targets
  CallTargets,      \* addresses a CALL-family instruction may name
  Deployers,        \* accounts whose code may run CREATE2
  AdminAddr,        \* the admin precompile, address 1337
  Coinbase,         \* block.coinbase
  InitWorlds,       \* the account states a transaction may start from
  CallStackLimit,   \* CALL_STACK_LIMIT (1024), scaled down
  London,           \* GSPEC::enabled(LONDON)
  Merge,            \* GSPEC::enabled(MERGE)
  Shanghai,         \* GSPEC::enabled(SHANGHAI)
  Prevrandao,       \* block.prevrandao.is_some()
  BaseFee,          \* block.basefee
  BlockGasLimit,    \* block.gas_limit
  ChainId,          \* cfg.chain_id
  TxGasLimits, GasPrices, PriorityFees, TxNonces, TxChainIds, Values,
  Vals,             \* storage values
  Salts,            \* CREATE2 salts
  OutKinds,         \* what init code may return: "empty", "code", "ef", "big"
  NoValue,          \* Option::None
  IntrinsicCall,    \* 21000, scaled
  IntrinsicCreate,  \* 53000, scaled
  OpCost,           \* the static cost of one abstract instruction
  ClearRefund,      \* the SSTORE refund for clearing a slot
  CodeDeposit,      \* CODEDEPOSIT per byte, scaled
  MaxCodeLen,       \* MAX_CODE_SIZE, scaled
  CreateAddress(_, _),   \* create_address(caller, nonce)
  Create2Address(_, _),  \* create2_address(caller, code_hash, salt)
  AdminInputs,      \* inputs a frame may pass to the admin precompile
  MultisigInit,     \* MULTISIG as first forced: 0x31337
  RequiredGasInit,  \* REQUIRED_GAS as first forced: 2000, scaled
  MaxTx,            \* bound: transactions per behaviour
  FailingReads,     \* the call sites whose Database read may return Err
  InspectorResults,  \* what Inspector::step/step_end may stop a frame with
  InspectorEndResults \* what Inspector::call/create and their _end hooks may return
                    \* (Continue from call/create: go on with the call)
                    \* ({} when INSPECT is false and run() is used)

VARIABLES
  js,       \* EVMData.journaled_state
  frames,   \* the interpreters on the call stack, innermost last
  tx,       \* the transaction being executed by transact()
  lastRet,  \* the InstructionResult the last call/create returned
  receipt,  \* the ExecutionResult (or error) of the last transaction
  admin,    \* the admin precompile statics MULTISIG and REQUIRED_GAS
  node,     \* the process: "running", "terminated", "crashed"
  burnt,    \* history: wei destroyed by the base fee so far
  txCount,  \* transactions handled so far
  dbError   \* EVMData.error is Some: a Host read stored a database error

ASSUME "Continue" \notin InspectorResults
\* SpecId orders the forks: SHANGHAI after MERGE after LONDON.
ASSUME (Shanghai => Merge) /\ (Merge => London)

vars == <<js, frames, tx, lastRet, receipt, admin, node, burnt, txCount, dbError>>

-----------------------------------------------------------------------------
(* InstructionResult classes (interpreter/src/instruction_result.rs).     *)
OkResults     == {"Continue", "Stop", "Return", "SelfDestruct"}   \* return_ok!
RevertResults == {"Revert", "CallTooDeep", "OutOfFund"}           \* return_revert!

\* SuccessOrHalt::from (Continue is InternalContinue)
ResultClass(r) ==
  CASE r = "Continue"                             -> "Internal"
    [] r \in {"Stop", "Return", "SelfDestruct"} -> "Success"
    [] r = "Revert"                               -> "Revert"
    [] r = "FatalExternalError"                   -> "Fatal"
    [] OTHER                                      -> "Halt"

\* gas.rs: Gas { limit, used, refunded } (not under src/)
GasNew(limit)    == [limit |-> limit, spent |-> 0, refund |-> 0]
Remaining(g)     == g.limit - g.spent
Charge(g, c)     == [g EXCEPT !.spent = @ + c]

Monus(a, b) == IF a >= b THEN a - b ELSE 0
MinOf(a, b) == IF a <= b THEN a ELSE b

\* Env::effective_gas_price
EffectiveGasPrice(gasPrice, prio) ==
  IF prio = NoValue THEN gasPrice ELSE MinOf(gasPrice, BaseFee + prio)

\* CallScheme (primitives/src/lib.rs)
CallSchemes == {"Call", "CallCode", "DelegateCall", "StaticCall"}

\* CallContext: the address the code runs as, its caller and the scheme
\* (code_address is CallInputs.contract, apparent_value is not modelled).
CallContextOf(address, caller, scheme) ==
  [caller |-> caller, address |-> address, scheme |-> scheme]

IdleTx == [phase |-> "idle", caller |-> Coinbase, nonce |-> 0, price |-> 0, prepaid |-> 0,
           gas |-> GasNew(0), ret |-> [r |-> "Continue", gas |-> GasNew(0)],
           base |-> NoValue]


-----------------------------------------------------------------------------
(* A finished call or create hands its result to its caller: the frame    *)
(* below it, or transact() when there is none.  The caller gets its       *)
(* unused gas back on success or revert and the refund on success (the   *)
(* CALL/CREATE instructions, spec 4.4).  A FatalExternalError of the     *)
(* callee becomes the caller's instruction_result: it stops too.          *)
Resume(p, r, g) ==
  [p EXCEPT !.gas = CASE r \in OkResults ->
                           [@ EXCEPT !.spent = @ - Remaining(g),
                                     !.refund = @ + g.refund]
                      [] r \in RevertResults ->
                           [@ EXCEPT !.spent = @ - Remaining(g)]
                      [] OTHER -> @,
            !.fatal = (r = "FatalExternalError")]

Finish(fs, tx0, r, g) ==
  /\ lastRet' = r
  /\ IF fs = <<>>
     THEN frames' = <<>> /\ tx' = [tx0 EXCEPT !.phase = "finalize",
                                              !.ret = [r |-> r, gas |-> g]]
     ELSE frames' = [fs EXCEPT ![Len(fs)] = Resume(@, r, g)] /\ tx' = tx0

\* call_end and create_end (INSPECT): a return of call_inner or create_inner
\* hands (ret, gas, out) to the inspector, after the journal is committed
\* or reverted, and the caller gets what the inspector returns.
EndResults(r) == {r} \cup InspectorEndResults

FinishEnd(fs, tx0, r, g) == \E r2 \in EndResults(r) : Finish(fs, tx0, r2, g)

\* Interpreter::new(contract, gas_limit, is_static): empty memory and stack,
\* instruction_result Continue and Gas::new(gas_limit).  The frame keeps
\* the contract's context, whether it has code, and the savepoint that
\* call_inner or create_inner took for it.
InterpreterNew(kind, ctx, hasCode, static, viaStatic, cp, gasLimit) ==
  [kind |-> kind, addr |-> ctx.address, caller |-> ctx.caller, hasCode |-> hasCode,
   static |-> static, viaStatic |-> viaStatic, cp |-> cp, gas |-> GasNew(gasLimit),
   fatal |-> FALSE]

\* A slip in the depth check: one more level of nesting is let in.
TooDeepOffByOne(js0) == js0.depth > CallStackLimit + 1

\* The depth check of call_inner and create_inner:
\* journaled_state.depth() > CALL_STACK_LIMIT, taken before the callee's
\* checkpoint, so a caller at depth CALL_STACK_LIMIT still gets a frame.
TooDeep(js0) == js0.depth > CallStackLimit

\* Enter the interpreter: push the frame.
Push(fs, tx0, f) == frames' = Append(fs, f) /\ tx' = tx0 /\ UNCHANGED lastRet

\* Database (primitives/src/db.rs): each of basic, code_by_hash, storage
\* and block_hash returns Ok or Err(Self::Error).  What a read at a call
\* site gives: it may fail when the site is one of FailingReads.  The
\* model lets such a read fail also when the journal has the account
\* cached and would not read again: this only adds behaviours.
DbReads(site) == IF site \in FailingReads THEN {"ok", "err"} ELSE {"ok"}

\* Host::code failing in call_inner: map_err stores the error in
\* EVMData.error and call_inner returns FatalExternalError with a fresh
\* Gas, the one return that does not pass through call_end.
HostReadFailsUnrecorded(js0, fs, tx0, g) ==
  js' = js0 /\ Finish(fs, tx0, "FatalExternalError", g) /\ UNCHANGED dbError

HostReadFails(js0, fs, tx0, g) ==
  js' = js0 /\ Finish(fs, tx0, "FatalExternalError", g) /\ dbError' = TRUE

\* Host::load_account whose result the caller ignores (create_inner on the
\* caller and on the new address, call_inner's touch of a zero-value
\* callee): a failure still leaves its error in EVMData.error.
IgnoredLoads(loads) == dbError' = (dbError \/ "err" \in loads)

-----------------------------------------------------------------------------
(* call_inner(inputs), from a journaled state js0, a call stack fs and    *)
(* transaction tx0 that the caller has already brought up to date.        *)
(* inp = [contract, from, to, value, gasLimit, ctx, static, viaStatic].   *)
AdminCall(inp, js1, cp, fs, tx0) ==
  \E i \in AdminInputs : \E o \in AdminRun(i, inp.gasLimit, inp.ctx, admin) :
    /\ admin' = o.cfg
    /\ node' = o.proc
    /\ IF o.proc # "running"
       THEN UNCHANGED <<js, frames, tx, lastRet>>
       ELSE LET g == GasNew(inp.gasLimit)
                used == AdminGasUsed(admin, o.cfg)
            IN CASE o.res \in {"Ok0", "Ok1"} /\ used <= Remaining(g) ->
                      js' = CheckpointCommit(js1) /\ FinishEnd(fs, tx0, "Return", Charge(g, used))
                 [] o.res \in {"Ok0", "Ok1"} ->
                      \* gas.record_cost(gas_used) fails
                      js' = CheckpointRevert(js1, cp) /\ FinishEnd(fs, tx0, "PrecompileOOG", g)
                 [] o.res = "OutOfGas" ->
                      js' = CheckpointRevert(js1, cp) /\ FinishEnd(fs, tx0, "PrecompileOOG", g)
                 [] OTHER ->
                      js' = CheckpointRevert(js1, cp) /\ FinishEnd(fs, tx0, "PrecompileError", g)

CallInner(inp, js0, fs, tx0) ==
  \E codeRead \in DbReads("call_code"),
     touch \in IF inp.value = 0 THEN DbReads("call_touch") ELSE {"ok"} :
  LET g  == GasNew(inp.gasLimit)
      cp == CheckpointOf(js0)
      t  == Transfer(Checkpoint(js0), inp.from, inp.to, inp.value)
  IN
  \/ /\ \E r \in InspectorEndResults \ {"Continue"} : js' = js0 /\ FinishEnd(fs, tx0, r, g)
     /\ UNCHANGED <<admin, node, dbError>>
  \/ /\ codeRead = "err"
     /\ HostReadFails(js0, fs, tx0, g)
     /\ UNCHANGED <<admin, node>>
  \/ /\ codeRead = "ok" /\ TooDeep(js0)
     /\ js' = js0 /\ FinishEnd(fs, tx0, "CallTooDeep", g)
     /\ UNCHANGED <<admin, node, dbError>>
  \/ /\ codeRead = "ok" /\ ~TooDeep(js0)
     /\ t.ok = "OutOfFund"
     /\ js' = CheckpointRevert(t.js, cp) /\ FinishEnd(fs, tx0, "OutOfFund", g)
     /\ IgnoredLoads({touch})
     /\ UNCHANGED <<admin, node>>
  \/ /\ codeRead = "ok" /\ ~TooDeep(js0)
     /\ t.ok = "Continue"
     /\ inp.contract = AdminAddr
     /\ IgnoredLoads({touch})
     /\ AdminCall(inp, t.js, cp, fs, tx0)
  \/ /\ codeRead = "ok" /\ ~TooDeep(js0)
     /\ t.ok = "Continue"
     /\ inp.contract # AdminAddr
     /\ js' = t.js
     /\ Push(fs, tx0, InterpreterNew("call", inp.ctx, js0.code[inp.contract],
                                      inp.static, inp.viaStatic, cp, inp.gasLimit))
     /\ IgnoredLoads({touch})
     /\ UNCHANGED <<admin, node>>

\* A slip in create_inner: the collision path returns without
\* checkpoint_revert, leaving the checkpoint open.
CreateOnCollisionKept(js2, cp) == js2

\* create_inner on a collision: revert to the checkpoint just taken.
CreateOnCollision(js2, cp) == CheckpointRevert(js2, cp)

(* create_inner(inputs); inp = [caller, scheme, value, gasLimit, salt].   *)
(* The caller is loaded first, ignoring the result; the balance read      *)
(* after the depth check fails with FatalExternalError, and so does the   *)
(* read of create_account, after the checkpoint and without reverting it. *)
(* The transfer cannot fail (the balance was checked first) and the new   *)
(* account's nonce cannot overflow (create_account demands nonce 0).      *)
CreateInner(inp, js0, fs, tx0) ==
  \E callerLoad \in DbReads("create_caller"), balanceRead \in DbReads("create_balance"),
     targetLoad \in DbReads("create_target"), accountRead \in DbReads("create_account") :
  LET g       == GasNew(inp.gasLimit)
      c       == inp.caller
      oldNonce == js0.nonce[c]
      created == IF inp.scheme = "Create" THEN CreateAddress(c, oldNonce)
                                          ELSE Create2Address(c, inp.salt)
      js1     == IncNonce(js0, c).js
      cp      == CheckpointOf(js1)
      js2     == Checkpoint(js1)
      js3     == IncNonce(Transfer(js2, c, created, inp.value).js, created).js
      funded  == ~TooDeep(js0) /\ balanceRead = "ok"
  IN
  /\ UNCHANGED <<admin, node>>
  /\ \/ /\ \E r \in InspectorEndResults \ {"Continue"} : js' = js0 /\ FinishEnd(fs, tx0, r, g)
        /\ UNCHANGED dbError
     \/ /\ TooDeep(js0)
        /\ js' = js0 /\ FinishEnd(fs, tx0, "CallTooDeep", g) /\ IgnoredLoads({callerLoad})
     \/ /\ ~TooDeep(js0) /\ balanceRead = "err"
        /\ js' = js0 /\ FinishEnd(fs, tx0, "FatalExternalError", g) /\ dbError' = TRUE
     \/ /\ funded /\ js0.bal[c] < inp.value
        /\ js' = js0 /\ FinishEnd(fs, tx0, "OutOfFund", g) /\ IgnoredLoads({callerLoad})
     \/ /\ funded /\ js0.bal[c] >= inp.value
        /\ ~IncNonce(js0, c).ok
        /\ js' = js0 /\ FinishEnd(fs, tx0, "Return", g) /\ IgnoredLoads({callerLoad})
     \/ /\ funded /\ js0.bal[c] >= inp.value
        /\ IncNonce(js0, c).ok
        /\ accountRead = "ok" /\ ~CreateAccountOk(js2, created)
        /\ js' = CreateOnCollision(js2, cp) /\ FinishEnd(fs, tx0, "CreateCollision", g)
        /\ IgnoredLoads({callerLoad, targetLoad})
     \/ /\ funded /\ js0.bal[c] >= inp.value
        /\ IncNonce(js0, c).ok
        /\ accountRead = "err"
        /\ js' = js2 /\ FinishEnd(fs, tx0, "FatalExternalError", g) /\ dbError' = TRUE
     \/ /\ funded /\ js0.bal[c] >= inp.value
        /\ IncNonce(js0, c).ok
        /\ accountRead = "ok" /\ CreateAccountOk(js2, created)
        /\ js' = js3
        /\ Push(fs, tx0, InterpreterNew("create", [address |-> created, caller |-> c],
                                         TRUE, FALSE, FALSE, cp, inp.gasLimit))
        /\ IgnoredLoads({callerLoad, targetLoad})

-----------------------------------------------------------------------------
(* transact(): the checks that reject a transaction, in the code's order, *)
(* for p = [caller, to, value, gasLimit, gasPrice, prio, nonce, chainId].  *)
Intrinsic(p) == IF p.to = "Create" THEN IntrinsicCreate ELSE IntrinsicCall

\* A slip in the balance check: gas_limit * gas_price without the value.
LacksFundsNoValue(p) == p.gasLimit * p.gasPrice > js.bal[p.caller]

\* balance_check = gas_limit * gas_price + value against the balance
LacksFunds(p) == p.gasLimit * p.gasPrice + p.value > js.bal[p.caller]

\* The early returns of transact() in order, each a pair of its condition
\* and the error; callerLoad is what loading the caller's account gave.
TxChecks(p, callerLoad) ==
  LET eff == EffectiveGasPrice(p.gasPrice, p.prio) IN
  << <<Merge /\ ~Prevrandao,                          "PrevrandaoNotSet">>,
     <<London /\ p.prio # NoValue /\ p.prio > p.gasPrice, "GasMaxFeeGreaterThanPriorityFee">>,
     <<London /\ eff < BaseFee,                          "GasPriceLessThanBasefee">>,
     <<p.gasLimit > BlockGasLimit,                       "CallerGasLimitMoreThanBlock">>,
     <<callerLoad = "err",                               "Database">>,
     <<js.code[p.caller],                                "RejectCallerWithCode">>,
     <<p.chainId # NoValue /\ p.chainId # ChainId,       "InvalidChainId">>,
     <<p.nonce # NoValue /\ p.nonce > js.nonce[p.caller], "NonceTooHigh">>,
     <<p.nonce # NoValue /\ p.nonce < js.nonce[p.caller], "NonceTooLow">>,
     <<LacksFunds(p),                                    "LackOfFundForGasLimit">>,
     <<Intrinsic(p) > p.gasLimit,                        "CallGasCostMoreThanGasLimit">> >>

\* The error of the first check that fails, or "None".
InvalidReason(p, callerLoad) ==
  LET failed == SelectSeq(TxChecks(p, callerLoad), LAMBDA c : c[1]) IN
  IF failed = <<>> THEN "None" ELSE Head(failed)[2]

TxParams ==
  [caller : Senders, to : TxTargets \cup {"Create"}, value : Values,
   gasLimit : TxGasLimits, gasPrice : GasPrices, prio : PriorityFees,
   nonce : TxNonces, chainId : TxChainIds]

CanStartTx == node = "running" /\ tx.phase = "idle" /\ txCount < MaxTx

\* transact() returning Err(InvalidTransaction), or Err(Database) when the
\* caller's account cannot be loaded: the journaled state is dropped,
\* nothing changes.
RejectTx ==
  /\ CanStartTx
  /\ \E p \in TxParams, callerLoad \in DbReads("transact_caller") :
       LET why == InvalidReason(p, callerLoad) IN
       /\ why # "None"
       /\ receipt' = [class |-> IF why = "Database" THEN "DbError" ELSE "Invalid",
                      reason |-> why, gasUsed |-> 0, gasLimit |-> p.gasLimit,
                      nonce |-> js.nonce[p.caller]]
  /\ txCount' = txCount + 1
  /\ UNCHANGED <<js, frames, tx, lastRet, admin, node, burnt, dbError>>

\* EIP-3651: from Shanghai transact() loads the coinbase before it enters
\* the call, and an Err there returns Err(Database) with the journal
\* dropped; before Shanghai nothing is loaded here.
CoinbaseWarmUp == IF Shanghai THEN DbReads("transact_coinbase") ELSE {"ok"}

\* The dispatch on transact_to: a call bumps the caller's nonce first.
TransactInner(p, js1, nonced, left, tx1) ==
  \/ /\ p.to # "Create"
     /\ ~nonced.ok
     /\ js' = js1 /\ Finish(<<>>, tx1, "NonceOverflow", tx1.gas)
     /\ UNCHANGED <<admin, node, dbError>>
  \/ /\ p.to # "Create"
     /\ nonced.ok
     /\ CallInner([contract |-> p.to, from |-> p.caller, to |-> p.to,
                   value |-> p.value, gasLimit |-> left,
                   ctx |-> CallContextOf(p.to, p.caller, "Call"),
                   static |-> FALSE, viaStatic |-> FALSE],
                  nonced.js, <<>>, tx1)
  \/ /\ p.to = "Create"
     /\ CreateInner([caller |-> p.caller, scheme |-> "Create",
                     value |-> p.value, gasLimit |-> left, salt |-> NoValue],
                    js1, <<>>, tx1)

\* transact() up to the interpreter: prepay gas, record the intrinsic cost
\* and then all of the gas limit, warm the coinbase from Shanghai, bump
\* the caller's nonce for a call, and enter call_inner or create_inner
\* with what is left.
Transact ==
  /\ CanStartTx
  /\ \E p \in TxParams :
     LET eff     == EffectiveGasPrice(p.gasPrice, p.prio)
         prepaid == MinOf(js.bal[p.caller], p.gasLimit * eff)
         js1     == [js EXCEPT !.bal[p.caller] = @ - prepaid]
         left    == p.gasLimit - Intrinsic(p)
         tx1     == [phase |-> "exec", caller |-> p.caller,
                     nonce |-> js.nonce[p.caller], price |-> eff,
                     prepaid |-> prepaid,
                     gas |-> Charge(GasNew(p.gasLimit), p.gasLimit),
                     ret |-> IdleTx.ret, base |-> js]
         nonced  == IncNonce(js1, p.caller)
     IN
     /\ InvalidReason(p, "ok") = "None"
     /\ \E coinbaseLoad \in CoinbaseWarmUp :
        \/ /\ coinbaseLoad = "err"
           /\ receipt' = [class |-> "DbError", reason |-> "Database", gasUsed |-> 0,
                          gasLimit |-> p.gasLimit, nonce |-> js.nonce[p.caller]]
           /\ txCount' = txCount + 1
           /\ UNCHANGED <<js, frames, tx, lastRet, admin, node, burnt, dbError>>
        \/ /\ coinbaseLoad = "ok"
           /\ UNCHANGED <<receipt, burnt, txCount>>
           /\ TransactInner(p, js1, nonced, left, tx1)

-----------------------------------------------------------------------------
(* The running frame: the innermost interpreter.                          *)
Top   == frames[Len(frames)]
Below == SubSeq(frames, 1, Len(frames) - 1)
WithTop(f) == [frames EXCEPT ![Len(frames)] = f]

CanStep ==
  /\ node = "running" /\ frames # <<>>
  /\ Top.hasCode /\ ~Top.fatal

\* SSTORE through Host::sstore; clearing a set slot earns a refund.  When
\* the storage read fails, Host::sstore stores the error and returns None
\* and the instruction sets FatalExternalError, before any gas is charged.
OpSstore ==
  /\ CanStep /\ ~Top.static
  /\ \/ /\ "err" \in DbReads("sstore")
        /\ dbError' = TRUE
        /\ frames' = WithTop([Top EXCEPT !.fatal = TRUE])
        /\ UNCHANGED js
     \/ /\ Remaining(Top.gas) >= OpCost
        /\ \E v \in Vals :
             /\ js' = SStore(js, Top.addr, v)
             /\ frames' = WithTop([Top EXCEPT !.gas =
                           [Charge(@, OpCost) EXCEPT !.refund = @ +
                              (IF js.slot[Top.addr] # 0 /\ v = 0 THEN ClearRefund ELSE 0)]])
        /\ UNCHANGED dbError
  /\ UNCHANGED <<tx, lastRet, receipt, admin, node, burnt, txCount>>

\* LOG0 through Host::log
OpLog ==
  /\ CanStep /\ ~Top.static /\ Remaining(Top.gas) >= OpCost
  /\ js' = Log(js, Top.addr)
  /\ frames' = WithTop([Top EXCEPT !.gas = Charge(@, OpCost)])
  /\ UNCHANGED <<tx, lastRet, receipt, admin, node, burnt, txCount, dbError>>

\* The Host reads of the other state-reading instructions.  Each goes
\* through the journal to the database and, on Err, map_err stores the
\* error in EVMData.error and returns None; what an Ok returns is abstract.
\* Host::sload (SLOAD)
HostSload     == DbReads("sload")
\* Host::balance (BALANCE, SELFBALANCE): load_account, then its balance
HostBalance   == DbReads("balance")
\* Host::block_hash (BLOCKHASH), straight to Database::block_hash
HostBlockHash == DbReads("block_hash")
\* Host::code (EXTCODESIZE, EXTCODECOPY): load_code, then the code itself
HostCode      == DbReads("code")
\* Host::code_hash (EXTCODEHASH): load_code, then KECCAK_EMPTY for a
\* precompile, zero for an empty account, else the hash
HostCodeHash  == DbReads("code_hash")

\* SLOAD, BALANCE, BLOCKHASH, EXTCODESIZE/COPY, EXTCODEHASH: a None from the Host
\* read sets FatalExternalError before any gas is charged; otherwise the
\* instruction pays its cost and the frame goes on.
OpHostRead ==
  /\ CanStep
  /\ \E read \in {HostSload, HostBalance, HostBlockHash, HostCode, HostCodeHash} : \E o \in read :
       \/ /\ o = "err"
          /\ dbError' = TRUE
          /\ frames' = WithTop([Top EXCEPT !.fatal = TRUE])
       \/ /\ o = "ok" /\ Remaining(Top.gas) >= OpCost
          /\ frames' = WithTop([Top EXCEPT !.gas = Charge(@, OpCost)])
          /\ UNCHANGED dbError
  /\ UNCHANGED <<js, tx, lastRet, receipt, admin, node, burnt, txCount>>

\* CALL, CALLCODE, STATICCALL and DELEGATECALL through Host::call: the
\* instruction builds the inputs (spec 4.4, 4.7) and hands gas g to the
\* callee.  CALLCODE runs the target's code as the calling account and
\* transfers its value from that account to itself.
\* A slip in building nested call inputs: CALL, CALLCODE and DELEGATECALL
\* start a fresh is_static instead of inheriting the caller's.
CallInputsOfNoInherit(f, scheme, target, value, g) ==
  CASE scheme = "Call" ->
         [contract |-> target, from |-> f.addr, to |-> target, value |-> value,
          gasLimit |-> g, ctx |-> CallContextOf(target, f.addr, scheme),
          static |-> FALSE, viaStatic |-> f.viaStatic]
    [] scheme = "CallCode" ->
         [contract |-> target, from |-> f.addr, to |-> f.addr, value |-> value,
          gasLimit |-> g, ctx |-> CallContextOf(f.addr, f.addr, scheme),
          static |-> FALSE, viaStatic |-> f.viaStatic]
    [] scheme = "StaticCall" ->
         [contract |-> target, from |-> f.addr, to |-> target, value |-> 0,
          gasLimit |-> g, ctx |-> CallContextOf(target, f.addr, scheme),
          static |-> TRUE, viaStatic |-> TRUE]
    [] scheme = "DelegateCall" ->
         [contract |-> target, from |-> f.addr, to |-> f.addr, value |-> 0,
          gasLimit |-> g, ctx |-> CallContextOf(f.addr, f.caller, scheme),
          static |-> FALSE, viaStatic |-> f.viaStatic]

CallInputsOf(f, scheme, target, value, g) ==
  CASE scheme = "Call" ->
         [contract |-> target, from |-> f.addr, to |-> target, value |-> value,
          gasLimit |-> g, ctx |-> CallContextOf(target, f.addr, scheme),
          static |-> f.static, viaStatic |-> f.viaStatic]
    [] scheme = "CallCode" ->
         [contract |-> target, from |-> f.addr, to |-> f.addr, value |-> value,
          gasLimit |-> g, ctx |-> CallContextOf(f.addr, f.addr, scheme),
          static |-> f.static, viaStatic |-> f.viaStatic]
    [] scheme = "StaticCall" ->
         [contract |-> target, from |-> f.addr, to |-> target, value |-> 0,
          gasLimit |-> g, ctx |-> CallContextOf(target, f.addr, scheme),
          static |-> TRUE, viaStatic |-> TRUE]
    [] scheme = "DelegateCall" ->
         [contract |-> target, from |-> f.addr, to |-> f.addr, value |-> 0,
          gasLimit |-> g, ctx |-> CallContextOf(f.addr, f.caller, scheme),
          static |-> f.static, viaStatic |-> f.viaStatic]

\* A slip in the CALL instructions: the base cost is not charged.
OpCallNoBaseCost ==
  /\ CanStep
  /\ \E scheme \in CallSchemes, target \in CallTargets,
        value \in Values, g \in 0 .. Remaining(Top.gas) :
       /\ g + OpCost <= Remaining(Top.gas)
       /\ scheme = "Call" /\ value > 0 => ~Top.static
       /\ scheme \in {"DelegateCall", "StaticCall"} => value = 0
       /\ CallInner(CallInputsOf(Top, scheme, target, value, g), js,
                    WithTop([Top EXCEPT !.gas = Charge(@, g)]), tx)
  /\ UNCHANGED <<receipt, burnt, txCount>>

OpCall ==
  /\ CanStep
  /\ \E scheme \in CallSchemes, target \in CallTargets,
        value \in Values, g \in 0 .. Remaining(Top.gas) :
       /\ g + OpCost <= Remaining(Top.gas)
       /\ scheme = "Call" /\ value > 0 => ~Top.static
       /\ scheme \in {"DelegateCall", "StaticCall"} => value = 0
       /\ CallInner(CallInputsOf(Top, scheme, target, value, g), js,
                    WithTop([Top EXCEPT !.gas = Charge(@, OpCost + g)]), tx)
  /\ UNCHANGED <<receipt, burnt, txCount>>

\* CREATE2 through Host::create
OpCreate2 ==
  /\ CanStep /\ ~Top.static /\ Top.addr \in Deployers
  /\ \E value \in Values, salt \in Salts, g \in 0 .. Remaining(Top.gas) :
       /\ g + OpCost <= Remaining(Top.gas)
       /\ CreateInner([caller |-> Top.addr, scheme |-> "Create2", value |-> value,
                       gasLimit |-> g, salt |-> salt], js,
                      WithTop([Top EXCEPT !.gas = Charge(@, OpCost + g)]), tx)
  /\ UNCHANGED <<receipt, burnt, txCount>>

\* The results a frame may stop with (Interpreter::run / run_inspect):
\* the loop ends at the first instruction_result other than Continue.  A
\* FatalExternalError set by a step ends it; code-less accounts run
\* the padding STOP; a static frame that tries to change state halts.
\* Under run_inspect, Host::step and Host::step_end hand back what the
\* inspector returns, and any result other than Continue ends the frame.
ExitResults(f) ==
  InspectorResults \cup
  CASE f.fatal              -> {"FatalExternalError"}
    [] ~f.fatal /\ ~f.hasCode -> {"Stop"}
    [] OTHER -> {"Stop", "Return", "Revert", "OutOfGas"} \cup
                (IF f.static THEN {"StateChangeDuringStaticCall"} ELSE {})

OutLen(out) ==
  CASE out = "empty" -> 0 [] out = "big" -> MaxCodeLen + 1 [] OTHER -> 1

\* call_inner after the interpreter returns: commit on return_ok!, else
\* revert to the frame's checkpoint.
\* A slip in call_inner: commit whatever the interpreter returned.
CallReturnAlwaysCommit(f, r) ==
  js' = CheckpointCommit(js) /\ FinishEnd(Below, tx, r, f.gas)

CallReturn(f, r) ==
  /\ js' = IF r \in OkResults THEN CheckpointCommit(js)
                              ELSE CheckpointRevert(js, f.cp)
  /\ FinishEnd(Below, tx, r, f.gas)

\* create_inner after the interpreter returns: reject code starting with
\* 0xEF and oversized code, charge the code deposit, then commit and
\* install the code; any failure reverts to the frame's checkpoint.
CreateReturn(f, r, out) ==
  LET deposit == OutLen(out) * CodeDeposit
      Fail(why) == js' = CheckpointRevert(js, f.cp) /\ FinishEnd(Below, tx, why, f.gas)
  IN
  CASE r \notin OkResults                    -> Fail(r)
    [] London /\ out = "ef"                  -> Fail("CreateContractStartingWithEF")
    [] OutLen(out) > MaxCodeLen              -> Fail("CreateContractSizeLimit")
    [] deposit > Remaining(f.gas)            -> Fail("OutOfGas")
    [] OTHER -> /\ js' = SetCode(CheckpointCommit(js), f.addr, OutLen(out) > 0)
                /\ FinishEnd(Below, tx, "Return", Charge(f.gas, deposit))

FrameExit ==
  /\ node = "running" /\ frames # <<>>
  /\ \E r \in ExitResults(Top) :
     \E out \in (IF Top.kind = "create" /\ r = "Return" THEN OutKinds ELSE {"empty"}) :
       IF Top.kind = "call" THEN CallReturn(Top, r) ELSE CreateReturn(Top, r, out)
  /\ UNCHANGED <<receipt, admin, node, burnt, txCount, dbError>>

-----------------------------------------------------------------------------
(* transact() after call_inner/create_inner, and finalize(): give back    *)
(* unused gas, cap the refund, repay the caller and pay the coinbase.     *)
\* transact() after call_inner/create_inner returns (r, rg): the unused
\* gas comes back on return_ok! and return_revert!, the refund on return_ok!.
TxGasAfterReturn(g, r, rg) ==
  CASE r \in OkResults     -> [g EXCEPT !.spent = @ - Remaining(rg), !.refund = @ + rg.refund]
    [] r \in RevertResults -> [g EXCEPT !.spent = @ - Remaining(rg)]
    [] OTHER               -> g

\* A slip in finalize: the coinbase is paid for all gas spent, refund
\* included.
CoinbaseFeeIgnoresRefund(price, g, refunded) == price * g.spent

\* finalize: the coinbase earns its price for the gas spent less the refund.
CoinbaseFee(price, g, refunded) == price * (g.spent - refunded)

\* History: what EIP-1559 burns of a transaction's fee, the base fee of
\* every unit of gas used (spec 4.6 step 8 pays the coinbase the rest).
BaseFeeBurn(gasUsed) == IF London THEN BaseFee * gasUsed ELSE 0

\* A slip in EIP-1559: the coinbase is paid the whole effective price.
CoinbasePriceNoBurn(price) == price

\* EIP-1559: from London the base fee part of the price goes to no one
\* (effective_gas_price.saturating_sub(basefee)).
CoinbasePrice(price) == IF London THEN Monus(price, BaseFee) ELSE price

(* finalize() and the match of transact() on the result.  finalize loads  *)
(* the coinbase ignoring the result and then unwraps it from the state:   *)
(* a failed load panics.  A FatalExternalError result becomes             *)
(* Err(Database(self.data.error.take().unwrap())) and the state finalize  *)
(* produced is dropped, so the caller commits nothing.  Continue (from   *)
(* call_end or create_end) panics.  The EVMImpl, and                      *)
(* with it EVMData.error, is dropped after transact().                    *)
\* The coinbase load of finalize: from Shanghai the account was loaded by
\* transact() before the first checkpoint, no revert unloads it, and the
\* load is served from the journal.
FinalizeCoinbaseLoad == IF Shanghai THEN {"ok"} ELSE DbReads("finalize_coinbase")

Finalize ==
  /\ node = "running" /\ tx.phase = "finalize"
  /\ \E coinbaseLoad \in FinalizeCoinbaseLoad :
     LET r   == tx.ret.r
         g   == TxGasAfterReturn(tx.gas, r, tx.ret.gas)
         refunded == MinOf(g.refund, g.spent \div (IF London THEN 5 ELSE 2))
         coinbasePrice == CoinbasePrice(tx.price)
         js1 == [js EXCEPT !.bal[tx.caller] = @ + tx.price * (Remaining(g) + refunded)]
         js2 == [js1 EXCEPT !.bal[Coinbase] = @ + CoinbaseFee(coinbasePrice, g, refunded)]
     IN
     \/ /\ coinbaseLoad = "err"
        /\ node' = "crashed"
        /\ UNCHANGED <<js, frames, tx, lastRet, receipt, admin, burnt, txCount, dbError>>
     \/ /\ coinbaseLoad = "ok" /\ ResultClass(r) \notin {"Fatal", "Internal"}
        /\ js' = FinalizeJournal(js2)
        /\ burnt' = burnt + BaseFeeBurn(g.spent - refunded)
        /\ receipt' = [class |-> ResultClass(r), reason |-> r,
                       gasUsed |-> g.spent - refunded, gasLimit |-> g.limit,
                       nonce |-> tx.nonce]
        /\ tx' = IdleTx /\ txCount' = txCount + 1 /\ dbError' = FALSE
        /\ UNCHANGED <<frames, lastRet, admin, node>>
     \/ /\ coinbaseLoad = "ok" /\ ResultClass(r) = "Fatal"
        /\ js' = tx.base
        /\ receipt' = [class |-> "DbError", reason |-> r, gasUsed |-> 0,
                       gasLimit |-> g.limit, nonce |-> tx.nonce]
        /\ tx' = IdleTx /\ txCount' = txCount + 1 /\ dbError' = FALSE
        /\ UNCHANGED <<frames, lastRet, admin, node, burnt>>
     \/ /\ coinbaseLoad = "ok" /\ ResultClass(r) = "Internal"
        \* panic!("Internal return flags should remain internal")
        /\ node' = "crashed"
        /\ UNCHANGED <<js, frames, tx, lastRet, receipt, admin, burnt, txCount, dbError>>

\* Nothing left to do: every transaction handled, or the process is gone.
Done ==
  /\ \/ node # "running"
     \/ tx.phase = "idle" /\ txCount = MaxTx
  /\ UNCHANGED vars

Init ==
  /\ js \in {[bal |-> w.bal, nonce |-> w.nonce, code |-> w.code, slot |-> w.slot,
              logs |-> <<>>, journal |-> <<>>, depth |-> 0] : w \in InitWorlds}
  /\ frames = <<>>
  /\ tx = IdleTx
  /\ lastRet = "Stop"
  /\ receipt = [class |-> "None", reason |-> "Continue", gasUsed |-> 0, gasLimit |-> 0,
                nonce |-> 0]
  /\ admin = [multisig |-> MultisigInit, requiredGas |-> RequiredGasInit]
  /\ node = "running"
  /\ burnt = 0
  /\ txCount = 0
  /\ dbError = FALSE

Next ==
  \/ RejectTx \/ Transact
  \/ OpSstore \/ OpLog \/ OpHostRead \/ OpCall \/ OpCreate2 \/ FrameExit
  \/ Finalize \/ Done

Spec == Init /\ [][Next]_vars

\* The interpreter runs each transaction to completion on one thread:
\* once a transaction is in flight, its frames keep stepping until
\* finalize.  Submitting transactions is up to users and is not fair.
ExecStep == OpSstore \/ OpLog \/ OpHostRead \/ OpCall \/ OpCreate2 \/ FrameExit \/ Finalize
LiveSpec == Spec /\ WF_vars(ExecStep)

-----------------------------------------------------------------------------
(* Properties                                                              *)
Results == OkResults \cup RevertResults \cup
  {"OutOfGas", "StateChangeDuringStaticCall", "PrecompileOOG", "PrecompileError",
   "CreateCollision", "CreateContractStartingWithEF", "CreateContractSizeLimit",
   "NonceOverflow", "FatalExternalError"} \cup InspectorResults \cup InspectorEndResults

FrameType ==
  [kind : {"call", "create"}, addr : Addr, caller : Addr, hasCode : BOOLEAN,
   static : BOOLEAN, viaStatic : BOOLEAN, cp : [log : Nat, journal : Nat],
   gas : [limit : Nat, spent : Nat, refund : Nat], fatal : BOOLEAN]

TypeOK ==
  /\ js.bal \in [Addr -> Nat] /\ js.nonce \in [Addr -> 0 .. NonceMax]
  /\ js.code \in [Addr -> BOOLEAN] /\ js.slot \in [Addr -> Vals]
  /\ js.logs \in Seq(Addr) /\ js.depth \in Nat
  /\ frames \in Seq(FrameType)
  /\ \A i \in DOMAIN frames : frames[i].gas.spent <= frames[i].gas.limit
  /\ tx.phase \in {"idle", "exec", "finalize"}
  /\ lastRet \in Results
  /\ node \in {"running", "terminated", "crashed"}
  /\ txCount \in 0 .. MaxTx
  /\ dbError \in BOOLEAN

\* Every FatalExternalError has its database error stored in EVMData.error
\* by the Host read that failed, so that transact()'s
\* self.data.error.take().unwrap() does not panic: on every path by which
\* the result reaches the top (call_inner's code load, create_inner's
\* balance read, SSTORE's storage read, a callee's result taken over by its
\* caller), and no error is left over from an earlier transaction.
DbErrorStoredWhenFatal ==
  /\ \A i \in DOMAIN frames : frames[i].fatal => dbError
  /\ tx.phase = "finalize" /\ ResultClass(tx.ret.r) = "Fatal" => dbError
  /\ tx.phase = "idle" => ~dbError

\* The journal's open checkpoints are exactly the interpreters on the call
\* stack (checkpoint() in call_inner/create_inner against checkpoint_commit
\* or checkpoint_revert on every return path), and each frame's savepoint
\* lies within the journal and log and after its caller's.
CheckpointsMatchFrames ==
  /\ js.depth = Len(frames)
  /\ \A i \in DOMAIN frames :
       /\ frames[i].cp.journal <= Len(js.journal)
       /\ frames[i].cp.log <= Len(js.logs)
       /\ i > 1 => frames[i - 1].cp.journal <= frames[i].cp.journal
                    /\ frames[i - 1].cp.log <= frames[i].cp.log

\* Wei is neither created nor lost: what the accounts hold, plus the gas a
\* transaction has prepaid and not yet settled, plus the base fee of the
\* gas used that EIP-1559 burns, never changes (transact's prepayment, the
\* value transfers of call_inner/create_inner, and finalize's repayment of
\* the caller and payment of the coinbase at the price less the base fee).
Supply == SumFunction(js.bal) + tx.prepaid + burnt
SupplyConserved == [][Supply' = Supply]_vars

\* A transaction that halts is charged its whole gas limit: no halt comes
\* from a path (OutOfFund, CallTooDeep at the top) whose unused gas
\* transact() would give back, which the balance check of transact()
\* (gas_limit * gas_price + value) rules out.
HaltChargesFullGas ==
  receipt.class = "Halt" => receipt.gasUsed = receipt.gasLimit

\* While a STATICCALL is on the call stack, before and after a step,
\* no step changes balances, nonces, code, storage or logs (is_static of
\* call_inner's inputs, inherited by every nested call).
InStatic == \E i \in DOMAIN frames : frames[i].viaStatic
StaticCallChangesNothing ==
  [][InStatic /\ InStatic' => World(js') = World(js)]_vars

\* The journal implements nested snapshots: a frame's saved world is what
\* reverting to its checkpoint would give, and the result the last call
\* handed its caller is a success exactly when its changes were kept.
Worlds == [bal : [Addr -> Nat], nonce : [Addr -> 0 .. NonceMax],
           code : [Addr -> BOOLEAN], slot : [Addr -> Vals], logs : Seq(Addr)]
Abs == INSTANCE NestedSnapshots
         WITH world  <- World(js),
              saved  <- [i \in DOMAIN frames |-> World(CheckpointRevert(js, frames[i].cp))],
              lastOk <- lastRet \in OkResults
JournalRefinesSnapshots == Abs!Spec

\* A transaction whose sender's nonce is already u64::MAX does not succeed:
\* inc_nonce overflows and the transaction is aborted as NonceOverflow
\* (spec 4.6 "overflow -> abort"), whether it calls (transact) or creates
\* (create_inner).
MaxNonceTxNeverSucceeds ==
  receipt.class = "Success" => receipt.nonce < NonceMax

\* transact() hands a failed database read back to its caller as
\* Err(EVMError::Database) and does not take the process down (spec 7:
\* the only errors of transact are an invalid transaction or a fatal
\* database error): finalize, which loads the coinbase, returns.
FinalizeReturnsDbErrors ==
  [][tx.phase = "finalize" /\ node = "running" => node' = "running"]_vars

\* The call stack never holds more than CALL_STACK_LIMIT + 1 interpreters:
\* the depth checks of call_inner and create_inner refuse a nested frame
\* once the journal's checkpoint depth, which counts the frames on the
\* stack, exceeds the limit (the deepest frame admitted sits at depth
\* 1025, one past spec section 3's "depth <= 1024").
CallDepthWithinLimit == Len(frames) <= CallStackLimit + 1

\* Only the multisig reconfigures or stops the node: a step that changes
\* MULTISIG or REQUIRED_GAS, or stops or crashes the process before
\* finalize, is taken by an interpreter running as the multisig configured
\* before the step (admin_func_run checks is_multisig before it decodes
\* the input, so fn_emergency_stop's SIGTERM, the panics of the reload
\* parsers and fn_dump_state are out of every other account's reach, and
\* a multisig that handed control to another address has lost it).
AdminOnlyByMultisig ==
  [][(admin' # admin \/ (tx.phase # "finalize" /\ node' # node))
       => frames # <<>> /\ frames[Len(frames)].addr = admin.multisig]_vars

\* A reconfiguration that takes effect is reported to its caller as a
\* success: admin_func_run charges gas_base, the REQUIRED_GAS it read on
\* entry and compared with the call's gas limit, so call_inner's
\* gas.record_cost succeeds even when the call rewrote REQUIRED_GAS (were
\* the new value charged, the caller would see PrecompileOOG for a change
\* that stays in force, the statics being outside the journal).
AdminChangeReported ==
  [][admin' # admin /\ node' = "running" => lastRet' = "Return"]_vars

\* Every transaction that transact() starts is finalized, unless the node
\* process dies first: every instruction and call costs gas, so the
\* recursion of call_inner/create_inner through Interpreter::run ends.
TxCompletes == tx.phase # "idle" ~> (tx.phase = "idle" \/ node # "running")
=============================================================================
