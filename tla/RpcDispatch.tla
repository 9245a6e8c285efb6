---- MODULE RpcDispatch ----
(***************************************************************************)
(* A call of the RPC endpoint from its arrival to its audit line:          *)
(* RpcDispatcher.dispatch (rpc/dispatcher.py), the table of methods        *)
(* (rpc/registry.py), the transparent mode (rpc/transparent.py), the       *)
(* validation of trading calls (trading.py) and the audit (audit.py).      *)
(*                                                                         *)
(* TradingGuard knows orders and limits only; here its steps are taken by  *)
(* requests that first have to pass the settings, and around them come     *)
(* the calls that never trade, the failures and what is said of each call. *)
(* Accounts, symbols and methods are names; what a name looks like is      *)
(* given by constants.                                                     *)
(***************************************************************************)
EXTENDS TradingGuard

CONSTANTS ReadonlyMethods, TradingMethods, \* the table: pairs of target and method
          OrderMethods, CancelMethods,     \* names of methods
          PublicNames,                     \* names without leading or double underscores
          TradingNames,                    \* names with a marker such as order, cancel, buy
          AllSettings,                     \* the settings a server may be started with
          Calls                            \* the requests of clients

VARIABLES settings, \* fixed when the server starts
          call,     \* the request of a thread, in a set
          level,    \* the level of its method in the audit, "unknown" if it may not be called
          dry,      \* dry_run of its DispatchState: "unset", "yes" or "no"
          detailed, \* trading_details are set
          real,     \* real_trading_call
          ok,       \* its response says ok
          step,     \* "idle", "find", "call", "record" or "audit"
          took      \* history: xtquant took the order of the thread

state   == <<level, dry, detailed, real, ok>>
rpcVars == <<vars, settings, call, state, step, took>>

NoError == "none"
Levels  == {"readonly", "trading", "transparent", "unknown"}

\* The limits of one order and of a day are constants of TradingGuard.
ASSUME RpcAssumption ==
  /\ AllSettings \subseteq
       [enable_trading : BOOLEAN, trading_dry_run : BOOLEAN, require_trade_confirmation : BOOLEAN,
        transparent_rpc : BOOLEAN, targets : SUBSET {"xtdata", "trader"},
        allow_trader : BOOLEAN, allow_trading : BOOLEAN,
        accounts : SUBSET STRING, symbols : SUBSET STRING, blocked : SUBSET STRING]
  /\ \A c \in Calls : c.order \in Orders

RpcInit ==
  /\ Init
  /\ settings \in AllSettings
  /\ call = [t \in Threads |-> {}]
  /\ level = [t \in Threads |-> "unknown"]
  /\ dry = [t \in Threads |-> "unset"]
  /\ detailed = [t \in Threads |-> FALSE]
  /\ real = [t \in Threads |-> FALSE]
  /\ ok = [t \in Threads |-> FALSE]
  /\ step = [t \in Threads |-> "idle"]
  /\ took = [t \in Threads |-> FALSE]
----
(***************************************************************************)
(* Which method may be called, and at which level.                         *)
(***************************************************************************)
Verdict(l, e) == [level |-> l, error |-> e]

IsTradingLike(c) == c.method \in TradingNames

\* transparent_method_decision
TransparentMethodDecision(c) ==
  IF ~settings.transparent_rpc                              THEN Verdict("unknown", "METHOD_NOT_ALLOWED")
  ELSE IF c.target \notin settings.targets                  THEN Verdict("unknown", "TRANSPARENT_TARGET_NOT_ALLOWED")
  ELSE IF c.target = "trader" /\ ~settings.allow_trader     THEN Verdict("unknown", "TRANSPARENT_TRADER_DENIED")
  ELSE IF c.method \notin PublicNames                       THEN Verdict("unknown", "TRANSPARENT_METHOD_DENIED")
  ELSE IF ~IsTradingLike(c)                                 THEN Verdict("transparent", NoError)
  ELSE IF settings.allow_trading                            THEN Verdict("trading", NoError)
  ELSE Verdict("unknown", "TRANSPARENT_TRADING_DENIED")

\* get_method_spec
MethodSpec(c) ==
  IF <<c.target, c.method>> \in TradingMethods       THEN Verdict("trading", NoError)
  ELSE IF <<c.target, c.method>> \in ReadonlyMethods THEN Verdict("readonly", NoError)
  ELSE TransparentMethodDecision(c)

Decision(c) ==
  LET spec == MethodSpec(c)
  IN  IF spec.level = "trading" /\ ~settings.enable_trading
      THEN Verdict("trading", "TRADING_DISABLED")
      ELSE spec

(***************************************************************************)
(* prepare_trading_call up to the daily limits: the first reason to refuse *)
(* the call.                                                               *)
(***************************************************************************)
IsOrder(c) == c.method \in OrderMethods

ValidateAccount(c) ==
  IF c.account \in settings.accounts THEN NoError ELSE "ACCOUNT_NOT_ALLOWED"

ValidateSymbol(c) ==
  IF c.symbol \in settings.blocked \/ (settings.symbols # {} /\ c.symbol \notin settings.symbols)
  THEN "SYMBOL_NOT_ALLOWED" ELSE NoError

\* Arguments that are missing or of the wrong type: c.wellFormed is FALSE.
ValidateOrder(c) ==
  CASE ~c.wellFormed                  -> "TRADING_VALIDATION_ERROR"
    [] ValidateAccount(c) # NoError   -> ValidateAccount(c)
    [] ValidateSymbol(c) # NoError    -> ValidateSymbol(c)
    [] ~WithinOrderLimits(c.order)    -> "ORDER_LIMIT_EXCEEDED"
    [] OTHER                          -> NoError

ValidateCancel(c) == IF c.wellFormed THEN ValidateAccount(c) ELSE "TRADING_VALIDATION_ERROR"

Validate(c) ==
  IF c.target # "trader"               THEN "TRADING_VALIDATION_ERROR"
  ELSE IF IsOrder(c)                   THEN ValidateOrder(c)
  ELSE IF c.method \in CancelMethods   THEN ValidateCancel(c)
  ELSE "TRADING_VALIDATION_ERROR"

ValidateConfirmation(c) ==
  IF settings.require_trade_confirmation /\ ~c.confirmed
  THEN "TRADE_CONFIRMATION_REQUIRED" ELSE NoError
----
(***************************************************************************)
(* The steps of a request.                                                 *)
(***************************************************************************)
\* The request ends with error e, or is answered without a call.
Settle(t, e) ==
  /\ ok' = [ok EXCEPT ![t] = (e = NoError)]
  /\ step' = [step EXCEPT ![t] = "audit"]

Arrive(t, c) ==
  /\ step[t] = "idle"
  /\ call' = [call EXCEPT ![t] = {c}]
  /\ UNCHANGED <<settings, real, took>>

\* METHOD_NOT_ALLOWED and its like, or trading is disabled.
Refuse(t, c) ==
  /\ Arrive(t, c)
  /\ Decision(c).error # NoError
  /\ level' = [level EXCEPT ![t] = Decision(c).level]
  /\ Settle(t, Decision(c).error)
  /\ UNCHANGED <<vars, dry, detailed>>

Admit(t, c) ==
  /\ Arrive(t, c)
  /\ Decision(c).error = NoError
  /\ level' = [level EXCEPT ![t] = Decision(c).level]

DispatchMethod(t, c) ==
  /\ Admit(t, c)
  /\ Decision(c).level # "trading"
  /\ step' = [step EXCEPT ![t] = "find"]
  /\ UNCHANGED <<vars, dry, detailed, ok>>

RefuseTrading(t, c) ==
  /\ Admit(t, c)
  /\ Decision(c).level = "trading"
  /\ \/ Validate(c) # NoError /\ Settle(t, Validate(c))
     \/ /\ Validate(c) = NoError
        /\ ~settings.trading_dry_run
        /\ ValidateConfirmation(c) # NoError
        /\ Settle(t, ValidateConfirmation(c))
  /\ UNCHANGED <<vars, dry, detailed>>

DryRun(t, c) ==
  /\ Admit(t, c)
  /\ Decision(c).level = "trading"
  /\ Validate(c) = NoError
  /\ settings.trading_dry_run
  /\ dry' = [dry EXCEPT ![t] = "yes"]
  /\ detailed' = [detailed EXCEPT ![t] = TRUE]
  /\ Settle(t, NoError)
  /\ UNCHANGED vars

\* The plan is made, and that it would be dry is looked at afterwards.
PrepareAnyCall(t, c) ==
  /\ Admit(t, c)
  /\ Decision(c).level = "trading"
  /\ Validate(c) = NoError
  /\ ValidateConfirmation(c) = NoError
  /\ IF IsOrder(c) THEN CheckOrder(t, c.order) ELSE Cancel(t)
  /\ IF pc'[t] = "call"
     THEN /\ dry' = [dry EXCEPT ![t] = "no"]
          /\ detailed' = [detailed EXCEPT ![t] = TRUE]
          /\ step' = [step EXCEPT ![t] = "find"]
          /\ UNCHANGED ok
     ELSE Settle(t, "DAILY_LIMIT_EXCEEDED") /\ UNCHANGED <<dry, detailed>>

\* What is left of prepare_trading_call is the check of the daily limits, which
\* cancellations do not have.
PrepareTradingCall(t, c) ==
  /\ Admit(t, c)
  /\ Decision(c).level = "trading"
  /\ Validate(c) = NoError
  /\ ~settings.trading_dry_run
  /\ ValidateConfirmation(c) = NoError
  /\ IF IsOrder(c) THEN CheckOrder(t, c.order) ELSE Cancel(t)
  /\ IF pc'[t] = "call"
     THEN /\ dry' = [dry EXCEPT ![t] = "no"]
          /\ detailed' = [detailed EXCEPT ![t] = TRUE]
          /\ step' = [step EXCEPT ![t] = "find"]
          /\ UNCHANGED ok
     ELSE Settle(t, "DAILY_LIMIT_EXCEEDED") /\ UNCHANGED <<dry, detailed>>

\* The order of the thread is let go.
Drop(t) ==
  /\ pc' = [pc EXCEPT ![t] = "idle"]
  /\ order' = [order EXCEPT ![t] = Nothing]
  /\ UNCHANGED <<today, day, used, history>>

\* real_trading_call is set after the call has returned.
FindHandlerOnly(t) ==
  /\ step[t] = "find"
  /\ \/ /\ step' = [step EXCEPT ![t] = "call"]
        /\ UNCHANGED <<vars, ok>>
     \/ /\ Settle(t, "TARGET_NOT_CONNECTED")
        /\ IF pc[t] = "call" THEN Drop(t) ELSE UNCHANGED vars
  /\ UNCHANGED <<settings, call, level, dry, detailed, real, took>>

\* get_target, the look-up of the method and the conversion of its arguments; each
\* may fail, and nothing has been called then.
FindHandler(t) ==
  /\ step[t] = "find"
  /\ \/ /\ step' = [step EXCEPT ![t] = "call"]
        /\ real' = [real EXCEPT ![t] = (level[t] = "trading")]
        /\ UNCHANGED <<vars, ok>>
     \/ /\ Settle(t, "TARGET_NOT_CONNECTED")
        /\ IF pc[t] = "call" THEN Drop(t) ELSE UNCHANGED vars
        /\ UNCHANGED real
  /\ UNCHANGED <<settings, call, level, dry, detailed, took>>

\* A trading call is a step of TradingGuard: xtquant takes it, says no, or raises.
CallHandler(t) ==
  /\ step[t] = "call"
  /\ IF level[t] = "trading"
     THEN /\ CallXtquant(t)
          /\ took' = [took EXCEPT ![t] = (placed' # placed)]
          /\ IF pc'[t] = "record"
             THEN step' = [step EXCEPT ![t] = "record"] /\ UNCHANGED ok
             ELSE Settle(t, "XTQUANT_ERROR")
     ELSE /\ \/ step' = [step EXCEPT ![t] = "record"] /\ UNCHANGED ok
             \/ Settle(t, "XTQUANT_ERROR")
          /\ UNCHANGED <<vars, took>>
  /\ UNCHANGED <<settings, call, level, dry, detailed, real>>

\* Only orders that were answered well are counted.
FinishAnswered(t) ==
  /\ step[t] = "record"
  /\ \/ /\ Settle(t, NoError)
        /\ IF real[t] /\ detailed[t] THEN RecordOrder(t) ELSE UNCHANGED vars
     \/ /\ Settle(t, "TypeError")
        /\ IF pc[t] = "record" THEN Drop(t) ELSE UNCHANGED vars
  /\ UNCHANGED <<settings, call, level, dry, detailed, real, took>>

\* _record_order_if_needed, then to_jsonable, which may raise.
Finish(t) ==
  /\ step[t] = "record"
  /\ IF real[t] /\ detailed[t] THEN RecordOrder(t) ELSE UNCHANGED vars
  /\ \E e \in {NoError, "TypeError"} : Settle(t, e)
  /\ UNCHANGED <<settings, call, level, dry, detailed, real, took>>

\* The finally clause, _record_audit, and the answer.
RecordAudit(t) ==
  /\ step[t] = "audit"
  /\ call' = [call EXCEPT ![t] = {}]
  /\ took' = [took EXCEPT ![t] = FALSE]
  /\ step' = [step EXCEPT ![t] = "idle"]
  /\ level' = [level EXCEPT ![t] = "unknown"]
  /\ dry' = [dry EXCEPT ![t] = "unset"]
  /\ detailed' = [detailed EXCEPT ![t] = FALSE]
  /\ real' = [real EXCEPT ![t] = FALSE]
  /\ ok' = [ok EXCEPT ![t] = FALSE]
  /\ UNCHANGED <<vars, settings>>

\* Date.today() moves on.
NextDay ==
  /\ Midnight
  /\ UNCHANGED <<settings, call, state, step, took>>

Dispatch(t, c) ==
  \/ Refuse(t, c) \/ DispatchMethod(t, c)
  \/ RefuseTrading(t, c) \/ DryRun(t, c) \/ PrepareTradingCall(t, c)

RpcNext ==
  \/ \E t \in Threads :
       \/ \E c \in Calls : Dispatch(t, c)
       \/ FindHandler(t) \/ CallHandler(t) \/ Finish(t) \/ RecordAudit(t)
  \/ NextDay

RpcSpec == RpcInit /\ [][RpcNext]_rpcVars
----
RpcTypeOK ==
  /\ TypeOK
  /\ settings \in AllSettings
  /\ call \in [Threads -> SUBSET Calls]
  /\ level \in [Threads -> Levels]
  /\ dry \in [Threads -> {"unset", "yes", "no"}]
  /\ detailed \in [Threads -> BOOLEAN] /\ real \in [Threads -> BOOLEAN]
  /\ ok \in [Threads -> BOOLEAN]
  /\ step \in [Threads -> {"idle", "find", "call", "record", "audit"}]
  /\ took \in [Threads -> BOOLEAN]

(***************************************************************************)
(* xtquant trades only what the operator has allowed: trading is enabled   *)
(* and not dry, the account is one of the allowed ones, the symbol is not  *)
(* blocked, and the client confirmed if that is asked for.  No setting of  *)
(* the transparent mode gets around it.                                    *)
(***************************************************************************)
Consented(c) ==
  /\ settings.enable_trading /\ ~settings.trading_dry_run
  /\ c.target = "trader"
  /\ c.account \in settings.accounts
  /\ settings.require_trade_confirmation => c.confirmed
  /\ IsOrder(c) => /\ c.symbol \notin settings.blocked
                   /\ settings.symbols # {} => c.symbol \in settings.symbols

OnlyConsentedTrades == \A t \in Threads : took[t] => \A c \in call[t] : Consented(c)

(***************************************************************************)
(* The audit tells what happened to the account: a call that xtquant took  *)
(* is audited as a real trading call with its details, whatever fails      *)
(* afterwards, and what is audited as dry or as not real never reached     *)
(* xtquant.                                                                *)
(***************************************************************************)
AuditIsTrue ==
  \A t \in Threads : step[t] = "audit" =>
    /\ took[t] => level[t] = "trading" /\ real[t] /\ detailed[t] /\ dry[t] = "no"
    /\ dry[t] = "yes" => ~real[t]
    /\ ok[t] /\ level[t] = "trading" => detailed[t] /\ (real[t] <=> dry[t] = "no")

(***************************************************************************)
(* The requests of the endpoint keep to TradingGuard.                      *)
(***************************************************************************)
GuardIsKept == Spec
====
