---------------------------- MODULE AccountTrading ----------------------------
(***************************************************************************)
(* One simulated account of quantsys-v2 and everything that writes to it.  *)
(* Three threads do: the event loop, which serves the requests one after   *)
(* the other ("loop"), the orchestrator's tick thread ("tick": settlement, *)
(* matching, stop loss) and the thread of the webhook job that matches the *)
(* pending orders ("job").  AccountTradingService holds the account's row  *)
(* lock from its last check to its commit; the settlement and the stop     *)
(* loss of PaperTradingEngine take no lock, and the stop loss commits its  *)
(* trade, the position and the cash one after the other.                   *)
(*                                                                         *)
(* One symbol at a price of one per lot, without fees: the fees of a trade *)
(* and of its cash flow are the same numbers.                              *)
(***************************************************************************)
EXTENDS Integers, FiniteSets

CONSTANTS Orders,      \* ids of the pending orders, a finite set of numbers
          Lots,        \* sizes of an order
          Cash0, Held0, \* the account at the start: cash, and lots all sellable
          MaxBuys,     \* MAX_DAILY_BUY_COUNT
          MaxTrades,   \* bound: immediate trades asked for, and sales of the stop loss
          MaxFaults    \* bound: crashes and failed transactions

ASSUME ConstantsAssumption ==
  /\ Orders \subseteq Nat \ {0}
  /\ IsFiniteSet(Orders)
  /\ Lots \subseteq Nat \ {0}
  /\ {Cash0, Held0, MaxBuys, MaxTrades, MaxFaults} \subseteq Nat

VARIABLES
  account,   \* [type, cash]: the row of simulation_account
  lock,      \* the thread that holds SELECT ... FOR UPDATE on it, or "none"
  ledger,    \* the cash flows: their sum and the last balance_after
  pos,       \* the position: shares_total and shares_available, 0 without a row
  today,     \* the trades of the day: lots bought and number of buys
  orders,    \* simulation_pending_orders
  market,    \* "open" in the trading window, else "closed"
  th,        \* the threads
  trades, faults,
  net,       \* history: lots held according to the trades
  fills,     \* history: order -> trades made for it
  marred     \* history: "settlement" raced a trade, a trade is "unrecorded"

vars == <<account, lock, ledger, pos, today, orders, market, th, trades, faults,
          net, fills, marred>>
book == <<account, ledger, pos, today, net>>

Threads == {"loop", "tick", "job"}
Matchers == {"tick", "job"}
Actions == {"BUY", "SELL"}
Requests == [action : Actions, lots : Lots, order : Orders \cup {0}]
NoRequest == [action |-> "none", lots |-> 0, order |-> 0]
NoRead == [cash |-> 0, last |-> 0, total |-> 0, avail |-> 0, bought |-> 0]
Idle == [pc |-> "idle", queue |-> {}, req |-> NoRequest, read |-> NoRead]

Init == /\ account \in [type : {"agent", "user"}, cash : {Cash0}]
        /\ lock = "none"
        /\ ledger = [sum |-> Cash0, last |-> Cash0]
        /\ pos = [total |-> Held0, avail |-> Held0]
        /\ today = [bought |-> 0, buys |-> 0]
        /\ orders = [o \in Orders |-> [status |-> "none", req |-> NoRequest]]
        /\ market = "closed"
        /\ th = [t \in Threads |-> Idle]
        /\ trades = 0 /\ faults = 0
        /\ net = Held0
        /\ fills = [o \in Orders |-> 0]
        /\ marred = {}

Pending == {o \in Orders : orders[o].status = "pending"}

-------------------------------------------------------------------------------
(* The checks of execute_trade, and how it ends.                           *)

FundsFor(r) == r.action = "BUY" => r.lots <= account.cash
SharesFor(r) == r.action = "SELL" => pos.total > 0 /\ r.lots <= pos.avail
Signed(r) == IF r.action = "BUY" THEN r.lots ELSE -r.lots

\* The transaction is committed; a matcher will mark its order.
Done(t) == [th EXCEPT ![t] =
  IF t = "loop" THEN Idle ELSE [th[t] EXCEPT !.pc = "executed", !.read = NoRead]]

\* TradingError: a matcher will mark its order, a request is answered.
Refused(t) == [th EXCEPT ![t] =
  IF t = "loop" THEN Idle ELSE [th[t] EXCEPT !.pc = "failed", !.read = NoRead]]

\* TradeGuardService.validate_trade_request: window, daily buys, funds, shares.
Approves(r) ==
  /\ market = "open"
  /\ r.action = "BUY" => today.buys < MaxBuys
  /\ FundsFor(r)
  /\ SharesFor(r)

\* TradeGuardService judges the request without the lock.
Judged(t, r) ==
  IF Approves(r) THEN [th EXCEPT ![t].pc = "approved", ![t].req = r]
  ELSE IF t = "loop" THEN th
  ELSE [th EXCEPT ![t].pc = "failed", ![t].req = r]

-------------------------------------------------------------------------------
(* Requests, served on the event loop.                                     *)

\* A trade to be executed now.
AskTrade(action, lots) ==
  /\ th["loop"].pc = "idle"
  /\ trades < MaxTrades
  /\ trades' = trades + 1
  /\ th' = Judged("loop", [action |-> action, lots |-> lots, order |-> 0])
  /\ UNCHANGED <<book, lock, orders, market, faults, fills, marred>>

\* execute_at = 'market_open' outside the session: a pending order, unless one
\* for the same action is pending and the client did not confirm the duplicate.
Place(o, action, lots, allowDuplicate) ==
  /\ th["loop"].pc = "idle"
  /\ market = "closed"
  /\ orders[o].status = "none"
  /\ allowDuplicate \/ \A p \in Pending : orders[p].req.action # action
  /\ orders' = [orders EXCEPT ![o] =
       [status |-> "pending", req |-> [action |-> action, lots |-> lots, order |-> o]]]
  /\ UNCHANGED <<book, lock, market, th, trades, faults, fills, marred>>

\* cancel_pending_order reads the status ...
AskCancel(o) ==
  /\ th["loop"].pc = "idle"
  /\ o \in Pending
  /\ th' = [th EXCEPT !["loop"].pc = "cancel", !["loop"].req = orders[o].req]
  /\ UNCHANGED <<book, lock, orders, market, trades, faults, fills, marred>>

\* ... and writes it without looking again.
Cancel ==
  /\ th["loop"].pc = "cancel"
  /\ orders' = [orders EXCEPT ![th["loop"].req.order].status = "cancelled"]
  /\ th' = [th EXCEPT !["loop"] = Idle]
  /\ UNCHANGED <<book, lock, market, trades, faults, fills, marred>>

-------------------------------------------------------------------------------
(* execute_pending_orders: the pending orders are read once, in the order  *)
(* of their ids; each is executed and then marked, in separate commits.    *)

StartPass(t) ==
  /\ th[t].pc = "idle"
  /\ t = "tick" => market = "open"
  /\ Pending # {}
  /\ th' = [th EXCEPT ![t].pc = "pass", ![t].queue = Pending]
  /\ UNCHANGED <<book, lock, orders, market, trades, faults, fills, marred>>

NextOrder(t) ==
  /\ th[t].pc = "pass"
  /\ th[t].queue # {}
  /\ LET o == CHOOSE i \in th[t].queue : \A j \in th[t].queue : i <= j
     IN  th' = [Judged(t, orders[o].req) EXCEPT ![t].queue = @ \ {o}]
  /\ UNCHANGED <<book, lock, orders, market, trades, faults, fills, marred>>

\* The next order, or the end of the pass.
GoOn(t) == [th EXCEPT ![t] =
  IF th[t].queue = {} THEN Idle ELSE [Idle EXCEPT !.pc = "pass", !.queue = th[t].queue]]

\* Mutant: a refused order is left as it is.
MarkUnlessRefused(t, status) ==
  /\ th[t].pc = status
  /\ orders' = [orders EXCEPT ![th[t].req.order].status =
                  IF status = "failed" THEN @ ELSE status]
  /\ th' = GoOn(t)
  /\ UNCHANGED <<book, lock, market, trades, faults, fills, marred>>

\* update_pending_order_status, whatever the status is by now.
Mark(t, status) ==
  /\ th[t].pc = status
  /\ orders' = [orders EXCEPT ![th[t].req.order].status = status]
  /\ th' = GoOn(t)
  /\ UNCHANGED <<book, lock, market, trades, faults, fills, marred>>

\* The mark raises: no TradingError, so it ends the pass.
AbortPass(t) ==
  /\ th[t].pc \in {"executed", "failed"}
  /\ faults < MaxFaults
  /\ faults' = faults + 1
  /\ th' = [th EXCEPT ![t] = Idle]
  /\ UNCHANGED <<book, lock, orders, market, trades, fills, marred>>

-------------------------------------------------------------------------------
(* execute_trade: checks without the lock, then one transaction under it.  *)

\* Mutants: the row is read without FOR UPDATE; the funds are not looked at again.
NotLocked(t) == TRUE
SharesRechecked(r) == SharesFor(r)

LockIsFree(t) == lock = "none"
Rechecked(r) == FundsFor(r) /\ SharesFor(r)

\* get_account_for_update waits for the row; cash and position are read again.
Lock(t) ==
  /\ th[t].pc = "approved"
  /\ LockIsFree(t)
  /\ IF Rechecked(th[t].req)
       THEN /\ lock' = t
            /\ th' = [th EXCEPT ![t].pc = "locked", ![t].read =
                 [cash |-> account.cash, last |-> ledger.last, total |-> pos.total,
                  avail |-> pos.avail, bought |-> 0]]
       ELSE UNCHANGED lock /\ th' = Refused(t)
  /\ UNCHANGED <<book, orders, market, trades, faults, fills, marred>>

\* The position p after trade r by a session that read s: the columns that
\* differ from s are written, so a purchase leaves shares_available alone.
Position(r, s, p) ==
  IF r.action = "BUY" THEN [p EXCEPT !.total = s.total + r.lots]
  ELSE IF s.total = r.lots THEN [total |-> 0, avail |-> 0]
  ELSE [total |-> s.total - r.lots, avail |-> s.avail - r.lots]

Settling == th["tick"].pc \in {"bought", "settling"}

\* The order, the trade, its cash flow, the position and the cash are committed
\* together; a settlement that read a row deleted here will write nothing.
Commit(t) ==
  LET r == th[t].req  s == th[t].read  n == Signed(r) IN
  /\ th[t].pc = "locked"
  /\ account' = [account EXCEPT !.cash = s.cash - n]
  /\ ledger' = [sum |-> ledger.sum - n, last |-> s.last - n]
  /\ pos' = Position(r, s, pos)
  /\ today' = IF r.action = "BUY"
                THEN [bought |-> today.bought + r.lots, buys |-> today.buys + 1] ELSE today
  /\ net' = net + n
  /\ fills' = [o \in Orders |-> fills[o] + IF o = r.order THEN 1 ELSE 0]
  /\ marred' = IF Settling THEN marred \cup {"settlement"} ELSE marred
  /\ lock' = "none"
  /\ th' = IF th["tick"].pc = "settling" /\ pos'.total = 0
             THEN [Done(t) EXCEPT !["tick"] = Idle] ELSE Done(t)
  /\ UNCHANGED <<orders, market, trades, faults>>

\* add_trade fails, rolls back, which frees the row, and returns None, which
\* nobody looks at: position and cash are written without a trade and a flow.
CommitUnrecorded(t) ==
  LET r == th[t].req  now == [NoRead EXCEPT !.total = pos.total, !.avail = pos.avail] IN
  /\ th[t].pc = "locked"
  /\ faults < MaxFaults
  /\ faults' = faults + 1
  /\ account' = [account EXCEPT !.cash = @ - Signed(r)]
  /\ pos' = Position(r, now, pos)
  /\ marred' = marred \cup {"unrecorded"} \cup IF Settling THEN {"settlement"} ELSE {}
  /\ lock' = "none"
  /\ th' = IF th["tick"].pc = "settling" /\ pos'.total = 0
             THEN [Done(t) EXCEPT !["tick"] = Idle] ELSE Done(t)
  /\ UNCHANGED <<ledger, today, net, orders, market, trades, fills>>

\* Any other statement fails: rollback, and a TradingError 500.
RollBack(t) ==
  /\ th[t].pc = "locked"
  /\ faults < MaxFaults
  /\ faults' = faults + 1
  /\ lock' = "none"
  /\ th' = Refused(t)
  /\ UNCHANGED <<book, orders, market, trades, fills, marred>>

-------------------------------------------------------------------------------
(* settle_t1: the lots bought today are summed, then the positions read,   *)
(* then shares_available is written where it differs from what was read.   *)

SettleTrades ==
  /\ th["tick"].pc = "idle"
  /\ th' = [th EXCEPT !["tick"].pc = "bought", !["tick"].read.bought = today.bought]
  /\ UNCHANGED <<book, lock, orders, market, trades, faults, fills, marred>>

SettlePositions ==
  /\ th["tick"].pc = "bought"
  /\ th' = [th EXCEPT !["tick"].pc = "settling", !["tick"].read.total = pos.total,
                      !["tick"].read.avail = pos.avail]
  /\ UNCHANGED <<book, lock, orders, market, trades, faults, fills, marred>>

\* Mutant: the purchases of the day are not found.
AllSellable(s) == s.total

Sellable(s) == IF s.total > s.bought THEN s.total - s.bought ELSE 0

SettleWrite ==
  LET s == th["tick"].read IN
  /\ th["tick"].pc = "settling"
  /\ pos' = IF s.total # 0 /\ Sellable(s) # s.avail THEN [pos EXCEPT !.avail = Sellable(s)]
            ELSE pos
  /\ th' = [th EXCEPT !["tick"] = Idle]
  /\ UNCHANGED <<account, ledger, today, net, lock, orders, market, trades, faults,
                 fills, marred>>

-------------------------------------------------------------------------------
(* check_stop_loss / _execute_sell, for the accounts of type 'agent': all  *)
(* sellable lots, in three commits and without the account's lock.  What a *)
(* step needs it reads after the commit before.                            *)

\* add_trade commits, or fails and is ignored.
StopTrade(recorded) ==
  /\ th["tick"].pc = "idle"
  /\ market = "open"
  /\ account.type = "agent"
  /\ pos.avail > 0
  /\ trades < MaxTrades
  /\ trades' = trades + 1
  /\ th' = [th EXCEPT !["tick"].pc = "stop", !["tick"].read.avail = pos.avail]
  /\ IF recorded
       THEN /\ ledger' = [sum |-> ledger.sum + pos.avail, last |-> ledger.last + pos.avail]
            /\ net' = net - pos.avail
            /\ UNCHANGED <<faults, marred>>
       ELSE /\ faults < MaxFaults
            /\ faults' = faults + 1
            /\ marred' = marred \cup {"unrecorded"}
            /\ UNCHANGED <<ledger, net>>
  /\ UNCHANGED <<account, pos, today, lock, orders, market, fills>>

\* The rest of the position, purchases of today included, becomes sellable; then
\* the cash is read.
StopPosition ==
  LET left == pos.total - th["tick"].read.avail IN
  /\ th["tick"].pc = "stop"
  /\ pos' = IF left <= 0 THEN [total |-> 0, avail |-> 0] ELSE [total |-> left, avail |-> left]
  /\ th' = [th EXCEPT !["tick"].pc = "stopCash", !["tick"].read.cash = account.cash]
  /\ UNCHANGED <<account, ledger, today, net, lock, orders, market, trades, faults,
                 fills, marred>>

\* The UPDATE waits for the row lock and then writes what was computed before.
StopCash ==
  /\ th["tick"].pc = "stopCash"
  /\ lock = "none"
  /\ account' = [account EXCEPT !.cash = th["tick"].read.cash + th["tick"].read.avail]
  /\ th' = [th EXCEPT !["tick"] = Idle]
  /\ UNCHANGED <<ledger, pos, today, net, lock, orders, market, trades, faults,
                 fills, marred>>

-------------------------------------------------------------------------------
(* The clock, and the end of the process.                                  *)

Open ==
  /\ market = "closed"
  /\ market' = "open"
  /\ UNCHANGED <<book, lock, orders, th, trades, faults, fills, marred>>

Close ==
  /\ market = "open"
  /\ market' = "closed"
  /\ UNCHANGED <<book, lock, orders, th, trades, faults, fills, marred>>

\* Midnight: no trade carries the new day's trade_date yet.
NewDay ==
  /\ market = "closed"
  /\ today.buys > 0
  /\ today' = [bought |-> 0, buys |-> 0]
  /\ UNCHANGED <<account, ledger, pos, net, lock, orders, market, th, trades, faults,
                 fills, marred>>

\* What was not committed is gone, and the row lock with it.
Crash ==
  /\ faults < MaxFaults
  /\ \E t \in Threads : th[t].pc # "idle"
  /\ faults' = faults + 1
  /\ lock' = "none"
  /\ th' = [t \in Threads |-> Idle]
  /\ UNCHANGED <<book, orders, market, trades, fills, marred>>

-------------------------------------------------------------------------------
Execute(t) == Lock(t) \/ Commit(t)

Match(t) == NextOrder(t) \/ \E s \in {"executed", "failed"} : Mark(t, s)

Settle == SettlePositions \/ SettleWrite

Stop == StopPosition \/ StopCash

Next ==
  \/ \E a \in Actions, n \in Lots : AskTrade(a, n)
  \/ \E o \in Orders, a \in Actions, n \in Lots, d \in BOOLEAN : Place(o, a, n, d)
  \/ \E o \in Orders : AskCancel(o)
  \/ Cancel
  \/ \E t \in Matchers : StartPass(t) \/ Match(t) \/ AbortPass(t)
  \/ \E t \in Threads : Execute(t) \/ CommitUnrecorded(t) \/ RollBack(t)
  \/ SettleTrades \/ Settle
  \/ Stop \/ \E b \in BOOLEAN : StopTrade(b)
  \/ Open \/ Close \/ NewDay \/ Crash

\* A thread goes on with what it has begun, the clock runs, and the scheduler's
\* daily job begins a pass as long as orders are pending.
Fairness ==
  /\ \A t \in Threads : WF_vars(Execute(t))
  /\ \A t \in Matchers : WF_vars(Match(t))
  /\ WF_vars(Cancel) /\ WF_vars(Settle) /\ WF_vars(Stop)
  /\ WF_vars(Open) /\ WF_vars(Close)
  /\ WF_vars(StartPass("job"))

Spec == Init /\ [][Next]_vars /\ Fairness

-------------------------------------------------------------------------------
\* Type invariant: which threads are where, who holds the lock, and what an
\* order can have become.
TypeOK ==
  /\ account \in [type : {"agent", "user"}, cash : Int]
  /\ ledger \in [sum : Int, last : Int]
  /\ pos \in [total : Int, avail : Int]
  /\ today \in [bought : Nat, buys : Nat]
  /\ orders \in [Orders -> [status : {"none", "pending", "cancelled", "executed", "failed"},
                            req : Requests \cup {NoRequest}]]
  /\ market \in {"open", "closed"}
  /\ th \in [Threads -> [pc : {"idle", "approved", "locked", "cancel", "pass",
                               "executed", "failed", "bought", "settling", "stop",
                               "stopCash"},
                         queue : SUBSET Orders,
                         req : Requests \cup {NoRequest},
                         read : [cash : Int, last : Int, total : Int, avail : Int,
                                 bought : Nat]]]
  /\ lock \in Threads \cup {"none"}
  /\ \A t \in Threads : th[t].pc = "locked" <=> lock = t
  /\ trades \in 0..MaxTrades
  /\ faults \in 0..MaxFaults
  /\ net \in Int
  /\ fills \in [Orders -> Nat]
  /\ marred \subseteq {"settlement", "unrecorded"}

FlowsMatchCash == ledger.sum = account.cash /\ ledger.last = account.cash
PositionMatchesTrades == pos.total = net

\* verify_cash_flow_invariant: the flows add up to the cash of the account, the
\* last balance is the cash, and the position is the net of the trades.  For an
\* account that is not sold out by the stop loss this holds whatever threads
\* trade at once, unless a trade's record was lost: no trade is overwritten.
BooksBalance ==
  account.type = "user" /\ "unrecorded" \notin marred =>
    FlowsMatchCash /\ PositionMatchesTrades

\* Cash is never overdrawn, whoever trades at once and whatever fails.
CashNotOverdrawn == account.cash >= 0

\* T+1: what was bought today is not sellable today, and nothing is sellable
\* that is not held, unless a settlement ran while a trade was committed.
TPlusOne ==
  account.type = "user" /\ "settlement" \notin marred =>
    pos.avail >= 0 /\ pos.avail <= pos.total - today.bought

\* A pending order does not stay pending: some pass executes or fails it, or
\* the client cancels it.
PendingEnds == \A o \in Orders : o \in Pending ~> o \notin Pending

\* execute_pending_orders: "already handled orders are no longer pending,
\* calling again has no side effect": an order is traded once.
ExecutedOnce == \A o \in Orders : fills[o] <= 1

\* verify_cash_flow_invariant for every account, while no sale is half done.
CashFlowInvariant ==
  th["tick"].pc \notin {"stop", "stopCash"} => ledger.sum = account.cash
===============================================================================
