------------------------- MODULE AccountTrading_proofs -------------------------
(***************************************************************************)
(* Proofs about the account, for any orders, sizes, limits and faults:     *)
(* types with the account's lock, that cash is never overdrawn, that the   *)
(* cash flows and trades account for cash and position, and T+1.           *)
(*                                                                         *)
(* They rest on what the thread that holds the lock has read: nobody else  *)
(* writes the cash, or the lots of an account without a stop loss, before  *)
(* it commits; and a settlement only ever frees lots for sale.             *)
(***************************************************************************)
EXTENDS AccountTrading, WellFoundedInduction, TLAPS

ThreadStates == [pc : {"idle", "approved", "locked", "cancel", "pass", "executed", "failed",
                       "bought", "settling", "stop", "stopCash"},
                 queue : SUBSET Orders,
                 req : Requests \cup {NoRequest},
                 read : [cash : Int, last : Int, total : Int, avail : Int, bought : Nat]]

\* An account that T+1 can be relied on for.
Unmarred == account.type = "user" /\ "settlement" \notin marred

\* What the thread that holds the lock has read is still so: the cash for every
\* account, the lots and the last balance for one without a stop loss.  The
\* sellable lots may have grown.
LockSound ==
  \A t \in Threads : th[t].pc = "locked" =>
    /\ th[t].read.cash = account.cash
    /\ th[t].req.action = "BUY" => th[t].req.lots <= account.cash
    /\ account.type = "user" => /\ th[t].read.total = pos.total
                                /\ th[t].read.last = ledger.last
    /\ Unmarred => /\ 0 <= th[t].read.avail /\ th[t].read.avail <= pos.avail
                   /\ th[t].req.action # "BUY" => th[t].req.lots <= th[t].read.avail

\* The stop loss is for the accounts of agents, and sells what was there.
StopSound ==
  /\ th["tick"].pc \in {"stop", "stopCash"} =>
       account.type = "agent" /\ th["tick"].read.avail > 0
  /\ th["tick"].pc = "stopCash" => th["tick"].read.cash >= 0

\* A settlement that no trade has raced knows all purchases of the day, and the
\* lots that are sellable already are among those it will free.
SettleSound ==
  Unmarred =>
    /\ Settling => /\ today.bought <= th["tick"].read.bought
                   /\ pos.avail <= pos.total - th["tick"].read.bought
    /\ th["tick"].pc = "settling" => th["tick"].read.total = pos.total

IInv == /\ TypeOK
        /\ LockSound
        /\ StopSound
        /\ SettleSound
        /\ CashNotOverdrawn
        /\ BooksBalance
        /\ TPlusOne

-------------------------------------------------------------------------------
\* Every set of order ids has a least element.
LEMMA LeastOrder ==
  ASSUME NEW T, T \subseteq Orders, T # {}
  PROVE  \E x \in T : \A y \in T : x <= y
<1>0. T \subseteq Nat BY ConstantsAssumption
<1>1. PICK x \in T : \A y \in T : ~ (<<y, x>> \in OpToRel(<, Nat))
  BY <1>0, WFMin, NatLessThanWellFounded
<1>2. \A y \in T : ~ (y < x)
  <2> SUFFICES ASSUME NEW y \in T, y < x PROVE FALSE
    OBVIOUS
  <2>1. <<y, x>> \in OpToRel(<, Nat) BY <1>0 DEF OpToRel
  <2>2. QED BY <1>1, <2>1
<1>3. QED BY <1>0, <1>2

\* An idle thread, and what a thread may ask for.
LEMMA IdleThread ==
  /\ Idle \in ThreadStates /\ NoRead \in [cash : Int, last : Int, total : Int, avail : Int, bought : Nat]
  /\ Idle.pc = "idle" /\ Idle.queue = {}
BY DEF Idle, ThreadStates, NoRead, NoRequest

\* Any request has a size; a thread without one asks for nothing.
LEMMA RequestTypes ==
  ASSUME NEW r \in Requests \cup {NoRequest}
  PROVE  /\ r.lots \in Nat /\ r.order \in Orders \cup {0}
         /\ r.action \in {"BUY", "SELL", "none"}
         /\ r.action = "none" => r.lots = 0
<1>1. CASE r = NoRequest BY <1>1 DEF NoRequest
<1>2. CASE r \in Requests
  <2>1. r.lots \in Lots /\ r.action \in Actions /\ r.order \in Orders \cup {0}
    BY <1>2 DEF Requests
  <2>2. QED BY <2>1, ConstantsAssumption DEF Actions
<1>3. QED BY <1>1, <1>2

\* The parts of a thread's state.
LEMMA ThreadTypes ==
  ASSUME TypeOK, NEW t \in Threads
  PROVE  /\ th[t] \in ThreadStates
         /\ th[t].req \in Requests \cup {NoRequest}
         /\ th[t].queue \subseteq Orders
         /\ th[t].read.cash \in Int /\ th[t].read.last \in Int /\ th[t].read.total \in Int
         /\ th[t].read.avail \in Int /\ th[t].read.bought \in Nat
BY DEF TypeOK, ThreadStates

\* A thread that is judged is approved, refused, or answered.
LEMMA JudgedThread ==
  ASSUME TypeOK, NEW t \in Threads, NEW r \in Requests \cup {NoRequest}
  PROVE  /\ Judged(t, r) \in [Threads -> ThreadStates]
         /\ \A u \in Threads \ {t} : Judged(t, r)[u] = th[u]
         /\ Judged(t, r)[t].pc \in {"approved", "failed", th[t].pc}
         /\ Judged(t, r)[t].read = th[t].read
         /\ Judged(t, r)[t].queue = th[t].queue
<1>1. th \in [Threads -> ThreadStates]
  BY DEF TypeOK, ThreadStates
<1>2. ASSUME NEW l \in {"approved", "failed"}, Judged(t, r) = [th EXCEPT ![t].pc = l, ![t].req = r]
      PROVE  /\ Judged(t, r) \in [Threads -> ThreadStates]
             /\ \A u \in Threads \ {t} : Judged(t, r)[u] = th[u]
             /\ Judged(t, r)[t].pc = l
             /\ Judged(t, r)[t].read = th[t].read
             /\ Judged(t, r)[t].queue = th[t].queue
  <2>1. th[t] \in ThreadStates BY <1>1
  <2>2. [th[t] EXCEPT !.pc = l, !.req = r] \in ThreadStates BY <2>1 DEF ThreadStates
  <2>3. Judged(t, r) = [th EXCEPT ![t] = [th[t] EXCEPT !.pc = l, !.req = r]]
    BY <1>1, <1>2, <2>1 DEF ThreadStates
  <2>4. Judged(t, r)[t] = [th[t] EXCEPT !.pc = l, !.req = r] BY <1>1, <2>3
  <2>5. QED BY <1>1, <2>1, <2>2, <2>3, <2>4 DEF ThreadStates
<1>3. \/ Judged(t, r) = [th EXCEPT ![t].pc = "approved", ![t].req = r]
      \/ Judged(t, r) = [th EXCEPT ![t].pc = "failed", ![t].req = r]
      \/ Judged(t, r) = th
  BY DEF Judged
<1>4. QED BY <1>1, <1>2, <1>3

\* The two ends of a trade leave the thread idle or about to mark its order.
LEMMA EndedThread ==
  ASSUME TypeOK, NEW t \in Threads
  PROVE  /\ Done(t) \in [Threads -> ThreadStates] /\ Refused(t) \in [Threads -> ThreadStates]
         /\ \A u \in Threads \ {t} : Done(t)[u] = th[u] /\ Refused(t)[u] = th[u]
         /\ Done(t)[t].pc \in {"idle", "executed"} /\ Refused(t)[t].pc \in {"idle", "failed"}
<1>1. CASE t = "loop"
  BY <1>1, IdleThread DEF Done, Refused, TypeOK, ThreadStates
<1>2. CASE t # "loop"
  <2> DEFINE d == [th[t] EXCEPT !.pc = "executed", !.read = NoRead]
             f == [th[t] EXCEPT !.pc = "failed", !.read = NoRead]
  <2>1. d \in ThreadStates /\ d.pc = "executed" /\ f \in ThreadStates /\ f.pc = "failed"
    BY ThreadTypes, IdleThread DEF ThreadStates
  <2>2. Done(t) = [th EXCEPT ![t] = d] /\ Refused(t) = [th EXCEPT ![t] = f]
    BY <1>2 DEF Done, Refused
  <2> HIDE DEF d, f
  <2>3. QED BY <2>1, <2>2, ThreadTypes DEF TypeOK, ThreadStates
<1>3. QED BY <1>1, <1>2

\* The next order, or idle.
LEMMA GoOnThread ==
  ASSUME TypeOK, NEW t \in Threads
  PROVE  /\ GoOn(t) \in [Threads -> ThreadStates]
         /\ \A u \in Threads \ {t} : GoOn(t)[u] = th[u]
         /\ GoOn(t)[t].pc \in {"idle", "pass"}
<1>1. [Idle EXCEPT !.pc = "pass", !.queue = th[t].queue] \in ThreadStates
  BY ThreadTypes, IdleThread DEF ThreadStates
<1>2. [Idle EXCEPT !.pc = "pass", !.queue = th[t].queue].pc = "pass"
  BY IdleThread DEF ThreadStates
<1>3. QED
  BY <1>1, <1>2, IdleThread DEF GoOn, TypeOK, ThreadStates

-------------------------------------------------------------------------------
\* A position after a trade is a position, with its total changed by the trade; a
\* purchase makes nothing sellable, a sale takes what it sells.
LEMMA PositionValue ==
  ASSUME NEW r \in Requests \cup {NoRequest}, NEW q \in [total : Int, avail : Int],
         NEW s, s.total \in Int, s.avail \in Int
  PROVE  /\ Position(r, s, q) \in [total : Int, avail : Int]
         /\ Position(r, s, q).total = s.total + Signed(r)
         /\ r.action = "BUY" => Position(r, s, q).avail = q.avail
         /\ r.action # "BUY" => Position(r, s, q).avail =
                                  IF s.total = r.lots THEN 0 ELSE s.avail - r.lots
<1>1. r.lots \in Nat BY RequestTypes
<1>2. CASE r.action = "BUY"
  <2>1. Position(r, s, q) = [q EXCEPT !.total = s.total + r.lots] BY <1>2 DEF Position
  <2>2. QED BY <1>1, <1>2, <2>1 DEF Signed
<1>3. CASE r.action # "BUY" /\ s.total = r.lots
  BY <1>1, <1>3 DEF Position, Signed
<1>4. CASE r.action # "BUY" /\ s.total # r.lots
  <2>1. Position(r, s, q) = [total |-> s.total - r.lots, avail |-> s.avail - r.lots]
    BY <1>4 DEF Position
  <2>2. QED BY <1>1, <1>4, <2>1 DEF Signed
<1>5. QED BY <1>2, <1>3, <1>4

\* The types hold at the start.
LEMMA InitTypes == Init => TypeOK
<1> SUFFICES ASSUME Init PROVE TypeOK
  OBVIOUS
<1> USE ConstantsAssumption DEF Init
<1>1. /\ account \in [type : {"agent", "user"}, cash : Int]
      /\ ledger \in [sum : Int, last : Int] /\ pos \in [total : Int, avail : Int]
      /\ today \in [bought : Nat, buys : Nat]
  OBVIOUS
<1>2. /\ orders \in [Orders -> [status : {"none", "pending", "cancelled", "executed", "failed"},
                               req : Requests \cup {NoRequest}]]
      /\ market \in {"open", "closed"} /\ fills \in [Orders -> Nat]
  OBVIOUS
<1>3. th \in [Threads -> ThreadStates] BY IdleThread
<1>4. \A t \in Threads : th[t].pc = "locked" <=> lock = t
  <2>1. \A t \in Threads : th[t].pc = "idle" /\ lock # t BY IdleThread DEF Threads
  <2>2. QED BY <2>1
<1>5. /\ lock \in Threads \cup {"none"} /\ trades \in 0..MaxTrades /\ faults \in 0..MaxFaults
      /\ net \in Int /\ marred \subseteq {"settlement", "unrecorded"}
  OBVIOUS
<1>6. QED BY <1>1, <1>2, <1>3, <1>4, <1>5 DEF TypeOK, ThreadStates

\* Of the types, what a step of thread t leaves to be shown.
LEMMA TypesOfStep ==
  ASSUME TypeOK, NEW t \in Threads,
         th' \in [Threads -> ThreadStates],
         \A u \in Threads \ {t} : th'[u].pc = "locked" <=> th[u].pc = "locked",
         \/ th'[t].pc # "locked" /\ lock' = lock /\ lock # t
         \/ th'[t].pc # "locked" /\ lock' = "none" /\ lock = t
         \/ th'[t].pc = "locked" /\ lock' = t /\ lock = "none"
  PROVE  /\ lock' \in Threads \cup {"none"}
         /\ \A u \in Threads : th'[u].pc = "locked" <=> lock' = u
BY DEF TypeOK, Threads

OrderRows == [Orders -> [status : {"none", "pending", "cancelled", "executed", "failed"},
                         req : Requests \cup {NoRequest}]]

\* The status of an order is written.
LEMMA OrderMarked ==
  ASSUME TypeOK, NEW o, NEW status \in {"none", "pending", "cancelled", "executed", "failed"}
  PROVE  [orders EXCEPT ![o].status = status] \in OrderRows
<1>1. orders \in OrderRows BY DEF TypeOK, OrderRows
<1>2. CASE o \in Orders
  <2>1. [orders[o] EXCEPT !.status = status] \in
          [status : {"none", "pending", "cancelled", "executed", "failed"},
           req : Requests \cup {NoRequest}]
    BY <1>1, <1>2 DEF OrderRows
  <2>2. QED BY <1>1, <2>1 DEF OrderRows
<1>3. CASE o \notin Orders BY <1>1, <1>3 DEF OrderRows
<1>4. QED BY <1>2, <1>3

\* A thread's state is replaced.
LEMMA Replaced ==
  ASSUME TypeOK, NEW t \in Threads, NEW v \in ThreadStates, th' = [th EXCEPT ![t] = v]
  PROVE  /\ th' \in [Threads -> ThreadStates] /\ th'[t] = v
         /\ \A u \in Threads \ {t} : th'[u] = th[u]
<1>1. th \in [Threads -> ThreadStates] BY DEF TypeOK, ThreadStates
<1>2. QED BY <1>1

\* Of the types, what a step that leaves the books alone leaves to be shown.
BooksKept == UNCHANGED <<book, market, fills, marred>>
Counted == trades' \in 0..MaxTrades /\ faults' \in 0..MaxFaults

\* Types of a step that leaves the books alone.
LEMMA TypesOfQuietStep ==
  ASSUME TypeOK, BooksKept, Counted, orders' \in OrderRows, NEW t \in Threads,
         th' \in [Threads -> ThreadStates],
         \A u \in Threads \ {t} : th'[u] = th[u],
         \/ th'[t].pc # "locked" /\ lock' = lock /\ lock # t
         \/ th'[t].pc # "locked" /\ lock' = "none" /\ lock = t
         \/ th'[t].pc = "locked" /\ lock' = t /\ lock = "none"
  PROVE  TypeOK'
<1>1. lock' \in Threads \cup {"none"} /\ \A u \in Threads : th'[u].pc = "locked" <=> lock' = u
  BY TypesOfStep
<1>2. QED
  BY <1>1 DEF TypeOK, BooksKept, Counted, OrderRows, ThreadStates, book

\* Types of a request that is served.
LEMMA TypesOfRequests ==
  ASSUME TypeOK, \/ \E a \in Actions, n \in Lots : AskTrade(a, n)
                 \/ \E o \in Orders, a \in Actions, n \in Lots, d \in BOOLEAN : Place(o, a, n, d)
                 \/ \E o \in Orders : AskCancel(o)
                 \/ Cancel
  PROVE  TypeOK'
<1> USE DEF Threads
<1>1. ASSUME NEW a \in Actions, NEW n \in Lots, AskTrade(a, n) PROVE TypeOK'
  <2>1. [action |-> a, lots |-> n, order |-> 0] \in Requests \cup {NoRequest} BY DEF Requests
  <2>2. /\ th' \in [Threads -> ThreadStates]
        /\ \A u \in Threads \ {"loop"} : th'[u] = th[u]
        /\ th'["loop"].pc # "locked" /\ lock # "loop"
    BY <1>1, <2>1, JudgedThread DEF AskTrade, TypeOK
  <2>3. BooksKept /\ Counted /\ orders' \in OrderRows /\ lock' = lock
    BY <1>1, ConstantsAssumption DEF AskTrade, BooksKept, Counted, OrderRows, TypeOK
  <2>4. QED BY <2>2, <2>3, TypesOfQuietStep
<1>2. ASSUME NEW o \in Orders, NEW a \in Actions, NEW n \in Lots, NEW d \in BOOLEAN,
             Place(o, a, n, d)
      PROVE  TypeOK'
  <2>1. [action |-> a, lots |-> n, order |-> o] \in Requests BY DEF Requests
  <2>2. orders' \in OrderRows BY <1>2, <2>1 DEF Place, TypeOK, OrderRows
  <2>3. QED BY <1>2, <2>2 DEF Place, TypeOK, OrderRows, book
<1>3. ASSUME NEW o \in Orders, AskCancel(o) PROVE TypeOK'
  <2>1. orders[o].req \in Requests \cup {NoRequest} BY DEF TypeOK
  <2>2. [th["loop"] EXCEPT !.pc = "cancel", !.req = orders[o].req] \in ThreadStates
    BY <2>1, ThreadTypes DEF ThreadStates
  <2>3. th' = [th EXCEPT !["loop"] = [th["loop"] EXCEPT !.pc = "cancel", !.req = orders[o].req]]
    BY <1>3 DEF AskCancel, TypeOK
  <2>4. [th["loop"] EXCEPT !.pc = "cancel", !.req = orders[o].req].pc # "locked"
    BY ThreadTypes DEF ThreadStates
  <2>5. /\ th' \in [Threads -> ThreadStates]
        /\ \A u \in Threads \ {"loop"} : th'[u] = th[u]
        /\ th'["loop"].pc # "locked" /\ lock # "loop"
    BY <1>3, <2>2, <2>3, <2>4, Replaced DEF AskCancel, TypeOK
  <2>6. BooksKept /\ Counted /\ orders' \in OrderRows /\ lock' = lock
    BY <1>3 DEF AskCancel, BooksKept, Counted, OrderRows, TypeOK
  <2>7. QED BY <2>5, <2>6, TypesOfQuietStep
<1>4. CASE Cancel
  <2>1. /\ th' \in [Threads -> ThreadStates]
        /\ \A u \in Threads \ {"loop"} : th'[u] = th[u]
        /\ th'["loop"].pc # "locked" /\ lock # "loop"
    BY <1>4, IdleThread, Replaced DEF Cancel, TypeOK
  <2>2. orders' \in OrderRows
    BY <1>4, OrderMarked DEF Cancel
  <2>3. BooksKept /\ Counted /\ lock' = lock BY <1>4 DEF Cancel, BooksKept, Counted, TypeOK
  <2>4. QED BY <2>1, <2>2, <2>3, TypesOfQuietStep
<1>5. QED BY <1>1, <1>2, <1>3, <1>4

\* Where a pass takes the thread of a matcher.
LEMMA PassThread ==
  ASSUME TypeOK, NEW t \in Matchers,
         StartPass(t) \/ NextOrder(t) \/ AbortPass(t) \/ \E s \in {"executed", "failed"} : Mark(t, s)
  PROVE  /\ th' \in [Threads -> ThreadStates] /\ \A u \in Threads \ {t} : th'[u] = th[u]
         /\ th'[t].pc \in {"pass", "approved", "failed", "idle"}
<1>0. t \in Threads BY DEF Matchers, Threads
<1>1. CASE StartPass(t)
  <2>1. [th[t] EXCEPT !.pc = "pass", !.queue = Pending] \in ThreadStates
    BY <1>0, ThreadTypes DEF ThreadStates, Pending
  <2>2. th' = [th EXCEPT ![t] = [th[t] EXCEPT !.pc = "pass", !.queue = Pending]]
    BY <1>1 DEF StartPass, TypeOK
  <2>3. [th[t] EXCEPT !.pc = "pass", !.queue = Pending].pc = "pass"
    BY <1>0, ThreadTypes DEF ThreadStates
  <2>4. QED BY <1>0, <2>1, <2>2, <2>3, Replaced
<1>2. CASE NextOrder(t)
  <2>1. PICK o \in th[t].queue : th' = [Judged(t, orders[o].req) EXCEPT ![t].queue = @ \ {o}]
    <3> DEFINE m == CHOOSE i \in th[t].queue : \A j \in th[t].queue : i <= j
    <3>1. m \in th[t].queue
      BY <1>0, <1>2, ThreadTypes, LeastOrder DEF NextOrder
    <3>2. th' = [Judged(t, orders[m].req) EXCEPT ![t].queue = @ \ {m}]
      BY <1>2 DEF NextOrder
    <3> HIDE DEF m
    <3>3. QED BY <3>1, <3>2
  <2>2. PICK J \in [Threads -> ThreadStates] :
          /\ \A u \in Threads \ {t} : J[u] = th[u]
          /\ J[t].pc \in {"approved", "failed", "pass"}
          /\ th' = [J EXCEPT ![t].queue = @ \ {o}]
    <3>1. orders[o].req \in Requests \cup {NoRequest} BY <1>0, ThreadTypes DEF TypeOK
    <3>2. QED BY <1>0, <1>2, <2>1, <3>1, JudgedThread DEF NextOrder
  <2>3. /\ [J[t] EXCEPT !.queue = @ \ {o}] \in ThreadStates
        /\ [J[t] EXCEPT !.queue = @ \ {o}].pc = J[t].pc
        /\ th' = [J EXCEPT ![t] = [J[t] EXCEPT !.queue = @ \ {o}]]
    BY <1>0, <2>2 DEF ThreadStates
  <2>4. QED BY <1>0, <2>2, <2>3
<1>3. CASE AbortPass(t)
  BY <1>0, <1>3, IdleThread, Replaced DEF AbortPass
<1>4. ASSUME NEW s \in {"executed", "failed"}, Mark(t, s)
      PROVE  /\ th' \in [Threads -> ThreadStates] /\ \A u \in Threads \ {t} : th'[u] = th[u]
             /\ th'[t].pc \in {"pass", "idle"}
  BY <1>0, <1>4, GoOnThread DEF Mark
<1>5. QED BY <1>1, <1>2, <1>3, <1>4

\* A pass leaves the books and the lock alone.
LEMMA PassIsQuiet ==
  ASSUME TypeOK, NEW t \in Matchers,
         StartPass(t) \/ NextOrder(t) \/ AbortPass(t) \/ \E s \in {"executed", "failed"} : Mark(t, s)
  PROVE  BooksKept /\ Counted /\ lock' = lock /\ lock # t /\ t \in Threads
<1>0. t \in Threads BY DEF Matchers, Threads
<1>1. CASE StartPass(t) BY <1>0, <1>1 DEF StartPass, BooksKept, Counted, TypeOK
<1>2. CASE NextOrder(t) BY <1>0, <1>2 DEF NextOrder, BooksKept, Counted, TypeOK
<1>3. CASE AbortPass(t)
  BY <1>0, <1>3, ConstantsAssumption DEF AbortPass, BooksKept, Counted, TypeOK
<1>4. CASE \E s \in {"executed", "failed"} : Mark(t, s)
  BY <1>0, <1>4 DEF Mark, BooksKept, Counted, TypeOK
<1>5. QED BY <1>1, <1>2, <1>3, <1>4

\* Types of the pass of a matcher.
LEMMA TypesOfPass ==
  ASSUME TypeOK, NEW t \in Matchers,
         StartPass(t) \/ NextOrder(t) \/ AbortPass(t) \/ \E s \in {"executed", "failed"} : Mark(t, s)
  PROVE  TypeOK'
<1>1. orders' \in OrderRows
  <2>1. CASE StartPass(t) \/ NextOrder(t) \/ AbortPass(t)
    BY <2>1 DEF StartPass, NextOrder, AbortPass, OrderRows, TypeOK
  <2>2. ASSUME NEW s \in {"executed", "failed"}, Mark(t, s) PROVE orders' \in OrderRows
    BY <2>2, OrderMarked DEF Mark
  <2>3. QED BY <2>1, <2>2
<1>2. QED BY <1>1, PassThread, PassIsQuiet, TypesOfQuietStep

\* A thread takes the lock with what it reads then, or gives up.
LEMMA LockThread ==
  ASSUME TypeOK, NEW t \in Threads, Lock(t)
  PROVE  /\ th' \in [Threads -> ThreadStates]
         /\ \A u \in Threads \ {t} : th'[u] = th[u]
         /\ th[t].pc = "approved" /\ lock = "none"
         /\ \/ /\ Rechecked(th[t].req) /\ lock' = t
               /\ th'[t].pc = "locked" /\ th'[t].req = th[t].req
               /\ th'[t].read = [cash |-> account.cash, last |-> ledger.last,
                                total |-> pos.total, avail |-> pos.avail, bought |-> 0]
            \/ lock' = lock /\ th'[t].pc \in {"idle", "failed"}
<1> DEFINE s == [cash |-> account.cash, last |-> ledger.last, total |-> pos.total,
                 avail |-> pos.avail, bought |-> 0]
           v == [th[t] EXCEPT !.pc = "locked", !.read = s]
<1>1. s \in [cash : Int, last : Int, total : Int, avail : Int, bought : Nat]
  BY DEF TypeOK
<1> HIDE DEF s
<1>2. v \in ThreadStates /\ v.pc = "locked" /\ v.req = th[t].req /\ v.read = s
  BY <1>1, ThreadTypes DEF ThreadStates
<1>3. CASE Rechecked(th[t].req)
  <2>1. th' = [th EXCEPT ![t].pc = "locked", ![t].read = s] /\ lock' = t
    BY <1>3 DEF Lock, s
  <2>2. th' = [th EXCEPT ![t] = v] BY <2>1 DEF TypeOK
  <2> HIDE DEF v
  <2>3. th' \in [Threads -> ThreadStates] /\ th'[t] = v /\ \A u \in Threads \ {t} : th'[u] = th[u]
    BY <1>2, <2>2, Replaced
  <2>4. QED BY <1>2, <1>3, <2>1, <2>3 DEF Lock, LockIsFree, s
<1>4. CASE ~Rechecked(th[t].req)
  BY <1>4, EndedThread DEF Lock, LockIsFree
<1>5. QED BY <1>3, <1>4

\* The thread that commits goes on; a settlement whose row is gone is over.
LEMMA CommitThread ==
  ASSUME TypeOK, NEW t \in Threads, Commit(t) \/ CommitUnrecorded(t)
  PROVE  /\ th' \in [Threads -> ThreadStates]
         /\ th[t].pc = "locked" /\ lock = t /\ lock' = "none"
         /\ th'[t].pc \in {"idle", "executed"}
         /\ \A u \in Threads \ {t} : th'[u] = th[u] \/ th'[u] = Idle
         /\ \A u \in Threads : th'[u].pc # "locked"
<1>1. th[t].pc = "locked" /\ lock = t /\ lock' = "none"
  BY DEF Commit, CommitUnrecorded, TypeOK
<1>2. /\ Done(t) \in [Threads -> ThreadStates]
      /\ \A u \in Threads \ {t} : Done(t)[u] = th[u]
      /\ Done(t)[t].pc \in {"idle", "executed"}
  BY EndedThread
<1>3. \/ th' = Done(t)
      \/ th["tick"].pc = "settling" /\ th' = [Done(t) EXCEPT !["tick"] = Idle]
  BY DEF Commit, CommitUnrecorded
<1>4. /\ th' \in [Threads -> ThreadStates] /\ th'[t].pc \in {"idle", "executed"}
      /\ \A u \in Threads \ {t} : th'[u] = th[u] \/ th'[u] = Idle
  BY <1>1, <1>2, <1>3, IdleThread
<1>5. \A u \in Threads \ {t} : th[u].pc # "locked" BY <1>1 DEF TypeOK
<1>6. QED BY <1>1, <1>4, <1>5, IdleThread

\* Types of a trade's transaction.
LEMMA TypesOfTrade ==
  ASSUME TypeOK, NEW t \in Threads, Lock(t) \/ Commit(t) \/ CommitUnrecorded(t) \/ RollBack(t)
  PROVE  TypeOK'
<1>1. CASE Lock(t)
  <2>1. BooksKept /\ Counted /\ orders' \in OrderRows
    BY <1>1 DEF Lock, BooksKept, Counted, OrderRows, TypeOK
  <2>2. lock # t /\ th' \in [Threads -> ThreadStates] /\ \A u \in Threads \ {t} : th'[u] = th[u]
    BY <1>1, LockThread DEF TypeOK, Threads
  <2>3. QED BY <1>1, <2>1, <2>2, LockThread, TypesOfQuietStep
<1>2. CASE RollBack(t)
  <2>1. BooksKept /\ Counted /\ orders' \in OrderRows
    BY <1>2, ConstantsAssumption DEF RollBack, BooksKept, Counted, OrderRows, TypeOK
  <2>2. /\ th' \in [Threads -> ThreadStates] /\ \A u \in Threads \ {t} : th'[u] = th[u]
        /\ th'[t].pc # "locked"
    BY <1>2, EndedThread DEF RollBack
  <2>3. lock' = "none" /\ lock = t BY <1>2 DEF RollBack, TypeOK
  <2>4. QED BY <2>1, <2>2, <2>3, TypesOfQuietStep
<1>3. CASE Commit(t) \/ CommitUnrecorded(t)
  <2>1. th' \in [Threads -> ThreadStates] /\ lock' \in Threads \cup {"none"}
    BY <1>3, CommitThread
  <2>2. \A u \in Threads : th'[u].pc = "locked" <=> lock' = u
    <3>1. \A u \in Threads : th'[u].pc # "locked" /\ lock' # u BY <1>3, CommitThread DEF Threads
    <3>2. QED BY <3>1
  <2>3. /\ th[t].req \in Requests \cup {NoRequest} /\ th[t].req.lots \in Nat
        /\ Signed(th[t].req) \in Int
    BY ThreadTypes, RequestTypes DEF Signed
  <2>4. th[t].read.cash \in Int /\ th[t].read.last \in Int /\ th[t].read.total \in Int
        /\ th[t].read.avail \in Int
    BY ThreadTypes
  <2>5. pos' \in [total : Int, avail : Int]
    <3>1. CASE Commit(t)
      BY <2>3, <2>4, <3>1, PositionValue DEF Commit, TypeOK
    <3>2. CASE CommitUnrecorded(t)
      <4> DEFINE now == [NoRead EXCEPT !.total = pos.total, !.avail = pos.avail]
      <4>1. now.total \in Int /\ now.avail \in Int BY IdleThread DEF TypeOK
      <4>2. pos' = Position(th[t].req, now, pos) BY <3>2 DEF CommitUnrecorded
      <4> HIDE DEF now
      <4>3. QED BY <2>3, <4>1, <4>2, PositionValue DEF TypeOK
    <3>3. QED BY <1>3, <3>1, <3>2
  <2>6. account' \in [type : {"agent", "user"}, cash : Int]
    BY <1>3, <2>3, <2>4 DEF Commit, CommitUnrecorded, TypeOK
  <2>7. /\ ledger' \in [sum : Int, last : Int] /\ net' \in Int
        /\ today' \in [bought : Nat, buys : Nat] /\ fills' \in [Orders -> Nat]
    BY <1>3, <2>3, <2>4 DEF Commit, CommitUnrecorded, TypeOK
  <2>8. /\ trades' \in 0..MaxTrades /\ faults' \in 0..MaxFaults
        /\ market' \in {"open", "closed"} /\ orders' = orders
    BY <1>3, ConstantsAssumption DEF Commit, CommitUnrecorded, TypeOK
  <2>9. marred' \subseteq {"settlement", "unrecorded"}
    BY <1>3 DEF Commit, CommitUnrecorded, TypeOK
  <2>10. QED BY <2>1, <2>2, <2>5, <2>6, <2>7, <2>8, <2>9 DEF TypeOK, ThreadStates
<1>4. QED BY <1>1, <1>2, <1>3

\* A step of the tick thread keeps the rest of what it has read.
LEMMA TickThread ==
  ASSUME TypeOK, NEW l \in {"bought", "settling", "stop", "stopCash"},
         NEW s \in [cash : Int, last : Int, total : Int, avail : Int, bought : Nat],
         th' = [th EXCEPT !["tick"] = [th["tick"] EXCEPT !.pc = l, !.read = s]]
  PROVE  /\ th' \in [Threads -> ThreadStates]
         /\ \A u \in Threads \ {"tick"} : th'[u] = th[u]
         /\ th'["tick"].pc = l /\ th'["tick"].read = s
<1>1. "tick" \in Threads /\ th["tick"] \in ThreadStates BY ThreadTypes DEF Threads
<1>2. /\ [th["tick"] EXCEPT !.pc = l, !.read = s] \in ThreadStates
      /\ [th["tick"] EXCEPT !.pc = l, !.read = s].pc = l
      /\ [th["tick"] EXCEPT !.pc = l, !.read = s].read = s
  BY <1>1 DEF ThreadStates
<1>3. QED BY <1>1, <1>2, Replaced

\* Where the settlement goes, and what it has read then.
LEMMA SettleThread ==
  ASSUME TypeOK, SettleTrades \/ SettlePositions
  PROVE  /\ th' \in [Threads -> ThreadStates]
         /\ \A u \in Threads \ {"tick"} : th'[u] = th[u]
         /\ \/ /\ SettleTrades /\ th'["tick"].pc = "bought"
               /\ th'["tick"].read.bought = today.bought
            \/ /\ SettlePositions /\ th'["tick"].pc = "settling"
               /\ th'["tick"].read.bought = th["tick"].read.bought
               /\ th'["tick"].read.total = pos.total
<1> DEFINE r == th["tick"].read
<1>0. r \in [cash : Int, last : Int, total : Int, avail : Int, bought : Nat]
  BY ThreadTypes DEF TypeOK, ThreadStates, Threads
<1>1. CASE SettleTrades
  <2> DEFINE s == [r EXCEPT !.bought = today.bought]
  <2>1. s \in [cash : Int, last : Int, total : Int, avail : Int, bought : Nat] /\ s.bought = today.bought
    BY <1>0 DEF TypeOK
  <2>2. th' = [th EXCEPT !["tick"] = [th["tick"] EXCEPT !.pc = "bought", !.read = s]]
    BY <1>1 DEF SettleTrades, TypeOK, Threads
  <2> HIDE DEF s, r
  <2>3. QED BY <1>1, <2>1, <2>2, TickThread
<1>2. CASE SettlePositions
  <2> DEFINE s == [r EXCEPT !.total = pos.total, !.avail = pos.avail]
  <2>1. /\ s \in [cash : Int, last : Int, total : Int, avail : Int, bought : Nat]
        /\ s.bought = r.bought /\ s.total = pos.total
    BY <1>0 DEF TypeOK
  <2>2. th' = [th EXCEPT !["tick"] = [th["tick"] EXCEPT !.pc = "settling", !.read = s]]
    <3>1. th \in [Threads -> ThreadStates] /\ "tick" \in Threads BY DEF TypeOK, ThreadStates, Threads
    <3>2. th["tick"] \in ThreadStates BY <3>1
    <3>3. th' = [th EXCEPT !["tick"].pc = "settling", !["tick"].read.total = pos.total,
                           !["tick"].read.avail = pos.avail]
      BY <1>2 DEF SettlePositions
    <3>4. th'["tick"] = [th["tick"] EXCEPT !.pc = "settling", !.read = s]
      BY <3>1, <3>2, <3>3, <1>0 DEF ThreadStates
    <3>5. QED BY <3>1, <3>3, <3>4
  <2> HIDE DEF s
  <2>3. QED BY <1>2, <2>1, <2>2, TickThread
<1>3. QED BY <1>1, <1>2

\* Where the stop loss goes, and what it has read then.
LEMMA StopThread ==
  ASSUME TypeOK, StopPosition \/ \E b \in BOOLEAN : StopTrade(b)
  PROVE  /\ th' \in [Threads -> ThreadStates]
         /\ \A u \in Threads \ {"tick"} : th'[u] = th[u]
         /\ \/ /\ \E b \in BOOLEAN : StopTrade(b)
               /\ th'["tick"].pc = "stop" /\ th'["tick"].read.avail = pos.avail
            \/ /\ StopPosition /\ th'["tick"].pc = "stopCash"
               /\ th'["tick"].read.avail = th["tick"].read.avail
               /\ th'["tick"].read.cash = account.cash
<1> DEFINE r == th["tick"].read
<1>0. r \in [cash : Int, last : Int, total : Int, avail : Int, bought : Nat]
  BY ThreadTypes DEF TypeOK, ThreadStates, Threads
<1>1. CASE \E b \in BOOLEAN : StopTrade(b)
  <2> DEFINE s == [r EXCEPT !.avail = pos.avail]
  <2>1. s \in [cash : Int, last : Int, total : Int, avail : Int, bought : Nat] /\ s.avail = pos.avail
    BY <1>0 DEF TypeOK
  <2>2. th' = [th EXCEPT !["tick"] = [th["tick"] EXCEPT !.pc = "stop", !.read = s]]
    <3>1. th \in [Threads -> ThreadStates] /\ "tick" \in Threads BY DEF TypeOK, ThreadStates, Threads
    <3>2. th["tick"] \in ThreadStates BY <3>1
    <3>3. th' = [th EXCEPT !["tick"].pc = "stop", !["tick"].read.avail = pos.avail]
      BY <1>1 DEF StopTrade
    <3>4. th'["tick"] = [th["tick"] EXCEPT !.pc = "stop", !.read = s]
      BY <3>1, <3>2, <3>3, <1>0 DEF ThreadStates
    <3>5. QED BY <3>1, <3>3, <3>4
  <2> HIDE DEF s, r
  <2>3. QED BY <1>1, <2>1, <2>2, TickThread
<1>2. CASE StopPosition
  <2> DEFINE s == [r EXCEPT !.cash = account.cash]
  <2>1. /\ s \in [cash : Int, last : Int, total : Int, avail : Int, bought : Nat]
        /\ s.avail = r.avail /\ s.cash = account.cash
    BY <1>0 DEF TypeOK
  <2>2. th' = [th EXCEPT !["tick"] = [th["tick"] EXCEPT !.pc = "stopCash", !.read = s]]
    BY <1>2 DEF StopPosition, TypeOK, Threads
  <2> HIDE DEF s
  <2>3. QED BY <1>2, <2>1, <2>2, TickThread
<1>3. QED BY <1>1, <1>2

\* Types of the tick thread's own writes: none of them takes the lock.
LEMMA TypesOfTick ==
  ASSUME TypeOK, SettleTrades \/ Settle \/ Stop \/ \E b \in BOOLEAN : StopTrade(b)
  PROVE  TypeOK'
<1>0. "tick" \in Threads /\ lock # "tick" /\ lock' = lock
  BY DEF SettleTrades, Settle, SettlePositions, SettleWrite, Stop, StopPosition, StopCash,
         StopTrade, TypeOK, Threads
<1>1. /\ th' \in [Threads -> ThreadStates] /\ \A u \in Threads \ {"tick"} : th'[u] = th[u]
      /\ th'["tick"].pc # "locked"
  <2>1. CASE SettleTrades \/ SettlePositions BY <2>1, SettleThread
  <2>2. CASE StopPosition \/ \E b \in BOOLEAN : StopTrade(b) BY <2>2, StopThread
  <2>3. CASE SettleWrite \/ StopCash
    BY <1>0, <2>3, IdleThread, Replaced DEF SettleWrite, StopCash
  <2>4. QED BY <2>1, <2>2, <2>3 DEF Settle, Stop
<1>2. lock' \in Threads \cup {"none"} /\ \A u \in Threads : th'[u].pc = "locked" <=> lock' = u
  BY <1>0, <1>1, TypesOfStep
<1>3. /\ th["tick"].read.cash \in Int /\ th["tick"].read.total \in Int
      /\ th["tick"].read.avail \in Int /\ th["tick"].read.bought \in Nat
  BY <1>0, ThreadTypes
<1>4. pos' \in [total : Int, avail : Int]
  <2>1. CASE SettleTrades \/ SettlePositions \/ StopCash \/ \E b \in BOOLEAN : StopTrade(b)
    BY <2>1 DEF SettleTrades, SettlePositions, StopCash, StopTrade, TypeOK, book
  <2>2. CASE SettleWrite
    <3>1. Sellable(th["tick"].read) \in Int BY <1>3 DEF Sellable
    <3>2. QED BY <2>2, <3>1 DEF SettleWrite, TypeOK
  <2>3. CASE StopPosition BY <1>3, <2>3 DEF StopPosition, TypeOK
  <2>4. QED BY <2>1, <2>2, <2>3 DEF Settle, Stop
<1>5. account' \in [type : {"agent", "user"}, cash : Int]
  BY <1>3 DEF SettleTrades, Settle, SettlePositions, SettleWrite, Stop, StopPosition, StopCash,
              StopTrade, TypeOK, book
<1>6. /\ ledger' \in [sum : Int, last : Int] /\ net' \in Int
      /\ marred' \subseteq {"settlement", "unrecorded"}
  BY DEF SettleTrades, Settle, SettlePositions, SettleWrite, Stop, StopPosition, StopCash,
         StopTrade, TypeOK, book
<1>7. trades' \in 0..MaxTrades /\ faults' \in 0..MaxFaults
  BY ConstantsAssumption
     DEF SettleTrades, Settle, SettlePositions, SettleWrite, Stop, StopPosition, StopCash,
         StopTrade, TypeOK
<1>8. UNCHANGED <<today, orders, market, fills>>
  BY DEF SettleTrades, Settle, SettlePositions, SettleWrite, Stop, StopPosition, StopCash,
         StopTrade, book
<1>9. QED
  BY <1>1, <1>2, <1>4, <1>5, <1>6, <1>7, <1>8 DEF TypeOK, ThreadStates

\* Types of what the clock and a crash do.
LEMMA TypesOfClock ==
  ASSUME TypeOK, Open \/ Close \/ NewDay \/ Crash
  PROVE  TypeOK'
<1>1. CASE Open \/ Close BY <1>1 DEF Open, Close, TypeOK, book
<1>2. CASE NewDay BY <1>2 DEF NewDay, TypeOK
<1>3. CASE Crash
  <2>1. th' \in [Threads -> ThreadStates] BY <1>3, IdleThread DEF Crash
  <2>2. \A u \in Threads : th'[u].pc = "locked" <=> lock' = u
    <3>1. \A u \in Threads : th'[u].pc = "idle" /\ lock' # u BY <1>3, IdleThread DEF Crash, Threads
    <3>2. QED BY <3>1
  <2>3. lock' = "none" /\ faults' \in 0..MaxFaults BY <1>3, ConstantsAssumption DEF Crash, TypeOK
  <2>4. QED BY <1>3, <2>1, <2>2, <2>3 DEF Crash, TypeOK, ThreadStates, book
<1>4. QED BY <1>1, <1>2, <1>3

\* Every step keeps the types.
LEMMA TypeStep == TypeOK /\ [Next]_vars => TypeOK'
<1> SUFFICES ASSUME TypeOK, [Next]_vars PROVE TypeOK'
  OBVIOUS
<1>1. CASE UNCHANGED vars BY <1>1 DEF vars, TypeOK
<1>2. QED
  BY <1>1, TypesOfRequests, TypesOfPass, TypesOfTrade, TypesOfTick, TypesOfClock
     DEF Next, Match, Execute

-------------------------------------------------------------------------------
\* The parts of the invariant that the types leave to be shown.
Accounts == LockSound /\ StopSound /\ SettleSound /\ CashNotOverdrawn /\ BooksBalance /\ TPlusOne

\* A step of thread t that leaves the books alone, and t without the lock and
\* outside settlement and stop loss, keeps everything.
LEMMA QuietStep ==
  ASSUME IInv, BooksKept, NEW t \in Threads,
         \A u \in Threads \ {t} : th'[u] = th[u],
         th'[t].pc \notin {"locked", "bought", "settling", "stop", "stopCash"}
  PROVE  Accounts'
<1> USE DEF IInv, BooksKept, book, Threads
<1>1. LockSound' BY DEF LockSound, Unmarred
<1>2. StopSound' BY DEF StopSound
<1>3. SettleSound' BY DEF SettleSound, Settling, Unmarred
<1>4. CashNotOverdrawn' /\ BooksBalance' /\ TPlusOne'
  BY DEF CashNotOverdrawn, BooksBalance, FlowsMatchCash, PositionMatchesTrades, TPlusOne
<1>5. QED BY <1>1, <1>2, <1>3, <1>4 DEF Accounts

\* Requests and passes are quiet: trades are made in transactions of their own.
LEMMA RequestStep ==
  ASSUME IInv, \/ \E a \in Actions, n \in Lots : AskTrade(a, n)
               \/ \E o \in Orders : AskCancel(o)
               \/ Cancel
  PROVE  Accounts'
<1>0. TypeOK /\ "loop" \in Threads BY DEF IInv, Threads
<1>1. ASSUME NEW a \in Actions, NEW n \in Lots, AskTrade(a, n) PROVE Accounts'
  <2>1. [action |-> a, lots |-> n, order |-> 0] \in Requests \cup {NoRequest} BY DEF Requests
  <2>2. /\ \A u \in Threads \ {"loop"} : th'[u] = th[u]
        /\ th'["loop"].pc \in {"approved", "failed", "idle"}
    BY <1>0, <1>1, <2>1, JudgedThread DEF AskTrade
  <2>3. BooksKept BY <1>1 DEF AskTrade, BooksKept
  <2>4. QED BY <1>0, <2>2, <2>3, QuietStep
<1>2. ASSUME NEW o \in Orders, AskCancel(o) PROVE Accounts'
  <2>1. /\ \A u \in Threads \ {"loop"} : th'[u] = th[u]
        /\ th'["loop"].pc = "cancel"
    <3>1. th \in [Threads -> ThreadStates] /\ th["loop"] \in ThreadStates
      BY <1>0, ThreadTypes DEF TypeOK, ThreadStates
    <3>2. QED BY <1>0, <1>2, <3>1 DEF AskCancel, ThreadStates
  <2>2. BooksKept BY <1>2 DEF AskCancel, BooksKept
  <2>3. QED BY <1>0, <2>1, <2>2, QuietStep
<1>3. CASE Cancel
  <2>1. /\ \A u \in Threads \ {"loop"} : th'[u] = th[u]
        /\ th'["loop"].pc = "idle"
    BY <1>0, <1>3, IdleThread, Replaced DEF Cancel
  <2>2. BooksKept BY <1>3 DEF Cancel, BooksKept
  <2>3. QED BY <1>0, <2>1, <2>2, QuietStep
<1>4. QED BY <1>1, <1>2, <1>3

\* So are the passes of the matchers.
LEMMA PassStep ==
  ASSUME IInv, NEW t \in Matchers,
         StartPass(t) \/ NextOrder(t) \/ AbortPass(t) \/ \E s \in {"executed", "failed"} : Mark(t, s)
  PROVE  Accounts'
BY PassThread, PassIsQuiet, QuietStep DEF IInv

\* An order is placed.
LEMMA PlaceStep ==
  ASSUME IInv, UNCHANGED <<book, th, marred>>
  PROVE  Accounts'
BY DEF IInv, Accounts, LockSound, StopSound, SettleSound, Settling, Unmarred, CashNotOverdrawn,
       BooksBalance, FlowsMatchCash, PositionMatchesTrades, TPlusOne, book

\* Under the lock, a thread knows what it needs for its trade.
LEMMA LockStep ==
  ASSUME IInv, NEW t \in Threads, Lock(t)
  PROVE  Accounts'
<1>1. TypeOK /\ BooksKept BY DEF IInv, Lock, BooksKept
<1>2. CASE th'[t].pc # "locked"
  BY <1>1, <1>2, LockThread, QuietStep
<1>3. CASE th'[t].pc = "locked"
  <2>1. /\ \A u \in Threads \ {t} : th'[u] = th[u]
        /\ Rechecked(th[t].req) /\ th'[t].req = th[t].req /\ th[t].pc = "approved"
        /\ th'[t].read = [cash |-> account.cash, last |-> ledger.last,
                         total |-> pos.total, avail |-> pos.avail, bought |-> 0]
    BY <1>1, <1>3, LockThread
  <2>2. /\ th'[t].read.cash = account.cash /\ th'[t].read.last = ledger.last
        /\ th'[t].read.total = pos.total /\ th'[t].read.avail = pos.avail
    BY <2>1
  <2>3. /\ th[t].req.lots \in Nat /\ th[t].req.action \in {"BUY", "SELL", "none"}
        /\ th[t].req.action = "none" => th[t].req.lots = 0
    BY <1>1, ThreadTypes, RequestTypes
  <2>4. LockSound'
    <3> SUFFICES ASSUME NEW u \in Threads, th'[u].pc = "locked"
                 PROVE  /\ th'[u].read.cash = account.cash
                        /\ th'[u].req.action = "BUY" => th'[u].req.lots <= account.cash
                        /\ account.type = "user" => /\ th'[u].read.total = pos.total
                                                    /\ th'[u].read.last = ledger.last
                        /\ Unmarred => /\ 0 <= th'[u].read.avail /\ th'[u].read.avail <= pos.avail
                                       /\ th'[u].req.action # "BUY" => th'[u].req.lots <= th'[u].read.avail
      BY <1>1 DEF LockSound, Unmarred, BooksKept, book
    <3>1. CASE u # t BY <2>1, <3>1 DEF IInv, LockSound
    <3>2. CASE u = t
      <4>1. th[t].req.action = "BUY" => th[t].req.lots <= account.cash
        BY <2>1 DEF Rechecked, FundsFor
      <4>2. Unmarred => 0 <= pos.avail BY DEF IInv, Unmarred, TPlusOne
      <4>3. th[t].req.action = "SELL" => th[t].req.lots <= pos.avail
        BY <2>1 DEF Rechecked, SharesFor
      <4>4. pos.avail \in Int BY <1>1 DEF TypeOK
      <4>5. QED BY <2>1, <2>2, <2>3, <3>2, <4>1, <4>2, <4>3, <4>4
    <3>3. QED BY <3>1, <3>2
  <2>5. t = "tick" => ~Settling' /\ th'["tick"].pc \notin {"stop", "stopCash"}
    BY <1>3 DEF Settling
  <2>6. StopSound' /\ SettleSound'
    BY <1>1, <1>3, <2>1 DEF IInv, StopSound, SettleSound, Settling, Unmarred, BooksKept, book, Threads
  <2>7. CashNotOverdrawn' /\ BooksBalance' /\ TPlusOne'
    BY <1>1 DEF IInv, BooksKept, book, CashNotOverdrawn, BooksBalance, FlowsMatchCash,
                PositionMatchesTrades, TPlusOne
  <2>8. QED BY <2>4, <2>6, <2>7 DEF Accounts
<1>4. QED BY <1>2, <1>3

\* What the thread that commits knows.
LEMMA LockedThread ==
  ASSUME IInv, NEW t \in Threads, th[t].pc = "locked"
  PROVE  /\ th[t].req \in Requests \cup {NoRequest} /\ th[t].req.lots \in Nat
         /\ th[t].read.total \in Int /\ th[t].read.avail \in Int
         /\ th[t].read.cash = account.cash /\ account.cash \in Int /\ account.cash >= 0
         /\ Signed(th[t].req) \in Int /\ Signed(th[t].req) <= account.cash
         /\ account.type = "user" => /\ th[t].read.total = pos.total
                                     /\ th[t].read.last = ledger.last
         /\ Unmarred => /\ 0 <= th[t].read.avail /\ th[t].read.avail <= pos.avail
                        /\ th[t].req.action # "BUY" => th[t].req.lots <= th[t].read.avail
<1>1. /\ th[t].req \in Requests \cup {NoRequest} /\ th[t].req.lots \in Nat
      /\ th[t].read.total \in Int /\ th[t].read.avail \in Int
  BY ThreadTypes, RequestTypes DEF IInv
<1>2. account.cash \in Int /\ account.cash >= 0 BY DEF IInv, TypeOK, CashNotOverdrawn
<1>3. /\ th[t].read.cash = account.cash
      /\ th[t].req.action = "BUY" => th[t].req.lots <= account.cash
      /\ account.type = "user" => /\ th[t].read.total = pos.total
                                  /\ th[t].read.last = ledger.last
      /\ Unmarred => /\ 0 <= th[t].read.avail /\ th[t].read.avail <= pos.avail
                     /\ th[t].req.action # "BUY" => th[t].req.lots <= th[t].read.avail
  BY DEF IInv, LockSound
<1>4. Signed(th[t].req) \in Int /\ Signed(th[t].req) <= account.cash
  BY <1>1, <1>2, <1>3 DEF Signed
<1>5. QED BY <1>1, <1>2, <1>3, <1>4

\* After a commit nobody holds the lock, and a settlement still under way has
\* been raced.
LEMMA CommitFrees ==
  ASSUME IInv, NEW t \in Threads, Commit(t) \/ CommitUnrecorded(t)
  PROVE  LockSound' /\ StopSound' /\ SettleSound' /\ account'.type = account.type
         /\ (Unmarred' => Unmarred /\ ~Settling)
<1>1. TypeOK BY DEF IInv
<1>2. account'.type = account.type BY <1>1 DEF Commit, CommitUnrecorded, TypeOK
<1>3. LockSound' BY <1>1, CommitThread DEF LockSound
<1>4. th'["tick"] = th["tick"] \/ th'["tick"].pc \in {"idle", "executed"}
  BY <1>1, CommitThread, IdleThread DEF Threads
<1>5. Unmarred' => Unmarred /\ ~Settling
  BY <1>2 DEF Unmarred, Commit, CommitUnrecorded
<1>6. StopSound' BY <1>2, <1>4 DEF IInv, StopSound
<1>7. SettleSound' BY <1>4, <1>5 DEF SettleSound, Settling
<1>8. QED BY <1>2, <1>3, <1>5, <1>6, <1>7

\* A recorded trade moves cash, flows, position and net by the same amount.
LEMMA CommitStep ==
  ASSUME IInv, NEW t \in Threads, Commit(t)
  PROVE  Accounts'
<1> DEFINE r == th[t].req
           s == th[t].read
           n == Signed(th[t].req)
<1>1. TypeOK /\ th[t].pc = "locked" BY DEF IInv, Commit
<1>2. /\ account'.cash = s.cash - n /\ ledger'.sum = ledger.sum - n /\ ledger'.last = s.last - n
      /\ net' = net + n /\ pos' = Position(r, s, pos) /\ marred \subseteq marred'
      /\ today'.bought = IF r.action = "BUY" THEN today.bought + r.lots ELSE today.bought
  BY <1>1 DEF Commit, TypeOK
<1>3. /\ r \in Requests \cup {NoRequest} /\ r.lots \in Nat /\ s.total \in Int /\ s.avail \in Int
      /\ s.cash = account.cash /\ account.cash \in Int /\ n \in Int /\ n <= account.cash
      /\ account.type = "user" => s.total = pos.total /\ s.last = ledger.last
      /\ Unmarred => /\ 0 <= s.avail /\ s.avail <= pos.avail
                     /\ r.action # "BUY" => r.lots <= s.avail
  BY <1>1, LockedThread
<1>4. /\ pos'.total = s.total + n
      /\ r.action = "BUY" => pos'.avail = pos.avail
      /\ r.action # "BUY" => pos'.avail = IF s.total = r.lots THEN 0 ELSE s.avail - r.lots
  BY <1>1, <1>2, <1>3, PositionValue DEF TypeOK
<1>5. n = IF r.action = "BUY" THEN r.lots ELSE -r.lots BY DEF Signed
<1>6. /\ pos.total \in Int /\ pos.avail \in Int /\ ledger.sum \in Int /\ net \in Int
      /\ today.bought \in Nat
  BY <1>1 DEF TypeOK
<1> HIDE DEF r, s, n
<1>7. CashNotOverdrawn' BY <1>2, <1>3 DEF CashNotOverdrawn
<1>8. BooksBalance'
  BY <1>2, <1>3, <1>4, <1>6, CommitFrees
     DEF IInv, BooksBalance, FlowsMatchCash, PositionMatchesTrades
<1>9. TPlusOne'
  <2> SUFFICES ASSUME Unmarred'
               PROVE  pos'.avail >= 0 /\ pos'.avail <= pos'.total - today'.bought
    BY DEF TPlusOne, Unmarred
  <2>1. /\ Unmarred /\ account.type = "user"
        /\ 0 <= pos.avail /\ pos.avail <= pos.total - today.bought
    BY CommitFrees DEF IInv, TPlusOne, Unmarred
  <2>2. s.total = pos.total /\ 0 <= s.avail /\ s.avail <= pos.avail
        /\ (r.action # "BUY" => r.lots <= s.avail)
    BY <1>3, <2>1
  <2>3. CASE r.action = "BUY" BY <1>2, <1>3, <1>4, <1>5, <1>6, <2>1, <2>2, <2>3
  <2>4. CASE r.action # "BUY"
    <3>1. /\ r.lots <= pos.avail /\ today'.bought = today.bought /\ pos'.total = pos.total - r.lots
          /\ pos'.avail = IF pos.total = r.lots THEN 0 ELSE s.avail - r.lots
      BY <1>2, <1>3, <1>4, <1>5, <1>6, <2>2, <2>4
    <3>2. CASE pos.total = r.lots
      <4>1. pos'.avail = 0 /\ pos'.total = 0 BY <1>3, <3>1, <3>2
      <4>2. QED BY <1>3, <1>6, <2>1, <3>1, <3>2, <4>1
    <3>3. CASE pos.total # r.lots
      <4>1. pos'.avail = s.avail - r.lots BY <3>1, <3>3
      <4>2. QED BY <1>3, <1>6, <2>1, <2>2, <2>4, <3>1, <4>1
    <3>4. QED BY <3>2, <3>3
  <2>5. QED BY <2>3, <2>4
<1>10. QED BY <1>7, <1>8, <1>9, CommitFrees DEF Accounts

\* A trade whose record is lost still leaves no debt, and nothing sellable that
\* was bought today.
LEMMA CommitUnrecordedStep ==
  ASSUME IInv, NEW t \in Threads, CommitUnrecorded(t)
  PROVE  Accounts'
<1> DEFINE r == th[t].req
           now == [NoRead EXCEPT !.total = pos.total, !.avail = pos.avail]
           n == Signed(th[t].req)
<1>1. TypeOK /\ th[t].pc = "locked" BY DEF IInv, CommitUnrecorded
<1>2. /\ account'.cash = account.cash - n /\ today' = today
      /\ pos' = Position(r, now, pos) /\ "unrecorded" \in marred'
  BY <1>1 DEF CommitUnrecorded, TypeOK
<1>3. /\ r \in Requests \cup {NoRequest} /\ r.lots \in Nat
      /\ account.cash \in Int /\ n \in Int /\ n <= account.cash
      /\ Unmarred => (r.action # "BUY" => r.lots <= pos.avail)
  BY <1>1, LockedThread DEF TypeOK
<1>4. pos \in [total : Int, avail : Int] /\ today.bought \in Nat BY <1>1 DEF TypeOK
<1>5. now.total = pos.total /\ now.avail = pos.avail BY IdleThread DEF NoRead
<1>6. n = IF r.action = "BUY" THEN r.lots ELSE -r.lots BY DEF Signed
<1> HIDE DEF r, now, n
<1>7. /\ pos'.total = pos.total + Signed(r)
      /\ r.action = "BUY" => pos'.avail = pos.avail
      /\ r.action # "BUY" => pos'.avail = IF pos.total = r.lots THEN 0 ELSE pos.avail - r.lots
  BY <1>2, <1>3, <1>4, <1>5, PositionValue
<1>8. CashNotOverdrawn' BY <1>2, <1>3 DEF CashNotOverdrawn
<1>9. BooksBalance' BY <1>2 DEF BooksBalance
<1>10. TPlusOne'
  <2> SUFFICES ASSUME Unmarred'
               PROVE  pos'.avail >= 0 /\ pos'.avail <= pos'.total - today'.bought
    BY DEF TPlusOne, Unmarred
  <2>1. Unmarred /\ 0 <= pos.avail /\ pos.avail <= pos.total - today.bought
    BY CommitFrees DEF IInv, TPlusOne, Unmarred
  <2>2. pos.total \in Int /\ pos.avail \in Int BY <1>4
  <2>3. pos'.total = pos.total + (IF r.action = "BUY" THEN r.lots ELSE -r.lots)
    BY <1>7 DEF Signed
  <2>4. CASE r.action = "BUY" BY <1>2, <1>3, <1>4, <1>7, <2>1, <2>2, <2>3, <2>4
  <2>5. CASE r.action # "BUY"
    <3>1. /\ r.lots <= pos.avail /\ today'.bought = today.bought /\ pos'.total = pos.total - r.lots
          /\ pos'.avail = IF pos.total = r.lots THEN 0 ELSE pos.avail - r.lots
      BY <1>2, <1>3, <1>7, <2>1, <2>2, <2>3, <2>5
    <3>2. CASE pos.total = r.lots
      <4>1. pos'.avail = 0 /\ pos'.total = 0 BY <1>3, <2>2, <3>1, <3>2
      <4>2. QED BY <1>3, <1>4, <2>1, <2>2, <3>1, <3>2, <4>1
    <3>3. CASE pos.total # r.lots
      <4>1. pos'.avail = pos.avail - r.lots BY <3>1, <3>3
      <4>2. QED BY <1>3, <1>4, <2>1, <2>2, <3>1, <4>1
    <3>4. QED BY <3>2, <3>3
  <2>6. QED BY <2>4, <2>5
<1>11. QED BY <1>8, <1>9, <1>10, CommitFrees DEF Accounts

\* A rollback writes nothing.
LEMMA RollBackStep ==
  ASSUME IInv, NEW t \in Threads, RollBack(t)
  PROVE  Accounts'
<1>1. TypeOK BY DEF IInv
<1>2. /\ \A u \in Threads \ {t} : th'[u] = th[u]
      /\ th'[t].pc \in {"idle", "failed"}
  BY <1>1, EndedThread DEF RollBack
<1>3. BooksKept BY DEF RollBack, BooksKept
<1>4. QED BY <1>2, <1>3, QuietStep

\* A settlement reads the purchases of the day, and then the lots.
LEMMA SettleReadStep ==
  ASSUME IInv, SettleTrades \/ SettlePositions
  PROVE  Accounts'
<1>1. TypeOK /\ UNCHANGED <<book, marred>> BY DEF IInv, SettleTrades, SettlePositions
<1>2. /\ \A u \in Threads \ {"tick"} : th'[u] = th[u]
      /\ th'["tick"].pc \in {"bought", "settling"}
  BY <1>1, SettleThread
<1>3. LockSound' BY <1>1, <1>2 DEF IInv, LockSound, Unmarred, book
<1>4. StopSound' BY <1>2 DEF StopSound
<1>5. SettleSound'
  <2>1. CASE SettleTrades
    <3>1. th'["tick"].pc = "bought" /\ th'["tick"].read.bought = today.bought
      BY <1>1, <2>1, SettleThread DEF SettleTrades, SettlePositions
    <3>2. today.bought \in Nat BY <1>1 DEF TypeOK
    <3>3. QED BY <1>1, <3>1, <3>2 DEF IInv, SettleSound, Settling, Unmarred, TPlusOne, book
  <2>2. CASE SettlePositions
    <3>1. /\ th["tick"].pc = "bought" /\ th'["tick"].pc = "settling"
          /\ th'["tick"].read.bought = th["tick"].read.bought /\ th'["tick"].read.total = pos.total
      BY <1>1, <2>2, SettleThread DEF SettleTrades, SettlePositions
    <3>2. QED BY <1>1, <3>1 DEF IInv, SettleSound, Settling, Unmarred, book
  <2>3. QED BY <2>1, <2>2
<1>6. CashNotOverdrawn' /\ BooksBalance' /\ TPlusOne'
  BY <1>1 DEF IInv, book, CashNotOverdrawn, BooksBalance, FlowsMatchCash,
              PositionMatchesTrades, TPlusOne
<1>7. QED BY <1>3, <1>4, <1>5, <1>6 DEF Accounts

\* What a settlement writes is not less than what was sellable, and is covered by
\* the lots that were not bought today.
LEMMA SettleWriteStep ==
  ASSUME IInv, SettleWrite
  PROVE  Accounts'
<1> DEFINE s == th["tick"].read
<1>1. TypeOK /\ "tick" \in Threads BY DEF IInv, Threads
<1>2. /\ \A u \in Threads \ {"tick"} : th'[u] = th[u]
      /\ th'["tick"].pc = "idle"
  BY <1>1, IdleThread, Replaced DEF SettleWrite
<1>3. UNCHANGED <<account, ledger, today, net, marred>> /\ th["tick"].pc = "settling"
  BY DEF SettleWrite
<1>4. /\ s.total \in Int /\ s.bought \in Nat /\ s.avail \in Int /\ today.bought \in Nat
      /\ pos.total \in Int /\ pos.avail \in Int
  BY <1>1, ThreadTypes DEF TypeOK
<1>5. pos'.total = pos.total /\ pos'.avail \in {pos.avail, Sellable(s)}
  BY <1>1 DEF SettleWrite, TypeOK
<1>6. Sellable(s) = IF s.total > s.bought THEN s.total - s.bought ELSE 0 BY DEF Sellable
<1>7. Unmarred => /\ pos'.avail \in Int /\ pos'.avail >= pos.avail
                  /\ pos'.avail <= pos.total - today.bought
  <2> SUFFICES ASSUME Unmarred
               PROVE  /\ pos'.avail \in Int /\ pos'.avail >= pos.avail
                      /\ pos'.avail <= pos.total - today.bought
    OBVIOUS
  <2>1. /\ s.total = pos.total /\ today.bought <= s.bought /\ pos.avail <= pos.total - s.bought
        /\ 0 <= pos.avail /\ pos.avail <= pos.total - today.bought
    BY <1>3 DEF IInv, SettleSound, Settling, TPlusOne, Unmarred
  <2> HIDE DEF s
  <2>2. QED BY <1>4, <1>5, <1>6, <2>1
<1> HIDE DEF s
<1>8. LockSound'
  <2>1. Unmarred' <=> Unmarred BY <1>3 DEF Unmarred
  <2>2. ASSUME NEW u \in Threads, th'[u].pc = "locked", Unmarred
        PROVE  /\ 0 <= th'[u].read.avail /\ th'[u].read.avail <= pos'.avail
               /\ th'[u].req.action # "BUY" => th'[u].req.lots <= th'[u].read.avail
    <3>1. th'[u] = th[u] BY <1>2, <2>2
    <3>2. /\ 0 <= th[u].read.avail /\ th[u].read.avail <= pos.avail
          /\ th[u].req.action # "BUY" => th[u].req.lots <= th[u].read.avail
      BY <2>2, <3>1 DEF IInv, LockSound
    <3>3. th[u].read.avail \in Int BY <1>1, ThreadTypes
    <3>4. QED BY <1>4, <1>7, <2>2, <3>1, <3>2, <3>3
  <2>3. ASSUME NEW u \in Threads, th'[u].pc = "locked"
        PROVE  th'[u] = th[u] /\ th[u].pc = "locked"
    BY <1>2, <2>3
  <2>4. QED BY <1>3, <1>5, <2>1, <2>2, <2>3 DEF IInv, LockSound
<1>9. StopSound' /\ SettleSound' BY <1>2 DEF StopSound, SettleSound, Settling
<1>10. CashNotOverdrawn' /\ BooksBalance'
  BY <1>3, <1>5 DEF IInv, CashNotOverdrawn, BooksBalance, FlowsMatchCash, PositionMatchesTrades
<1>11. TPlusOne'
  BY <1>3, <1>4, <1>5, <1>7 DEF IInv, TPlusOne, Unmarred
<1>12. QED BY <1>8, <1>9, <1>10, <1>11 DEF Accounts

\* A step of the stop loss: an account of an agent, whose cash stays covered.
LEMMA StopStep ==
  ASSUME IInv, Stop \/ \E b \in BOOLEAN : StopTrade(b)
  PROVE  Accounts'
<1>1. TypeOK /\ "tick" \in Threads BY DEF IInv, Threads
<1>2. /\ account.type = "agent" /\ account'.type = "agent"
      /\ th["tick"].pc \in {"stop", "stopCash"} => th["tick"].read.avail > 0
      /\ th["tick"].pc = "stopCash" => th["tick"].read.cash >= 0
  BY <1>1 DEF Stop, StopPosition, StopCash, StopTrade, IInv, StopSound, TypeOK
<1>3. SettleSound' /\ BooksBalance' /\ TPlusOne'
  BY <1>2 DEF SettleSound, Unmarred, BooksBalance, TPlusOne
<1>4. CASE StopPosition \/ \E b \in BOOLEAN : StopTrade(b)
  <2>1. /\ \A u \in Threads \ {"tick"} : th'[u] = th[u]
        /\ th'["tick"].pc \in {"stop", "stopCash"} /\ th'["tick"].read.avail > 0
        /\ th'["tick"].pc = "stopCash" => th'["tick"].read.cash = account.cash
    BY <1>1, <1>2, <1>4, StopThread DEF StopPosition, StopTrade
  <2>2. account' = account BY <1>4 DEF StopPosition, StopTrade
  <2>3. LockSound' BY <1>2, <2>1, <2>2 DEF IInv, LockSound, Unmarred
  <2>4. StopSound' BY <1>2, <2>1, <2>2 DEF IInv, StopSound, CashNotOverdrawn
  <2>5. CashNotOverdrawn' BY <2>2 DEF IInv, CashNotOverdrawn
  <2>6. QED BY <1>3, <2>3, <2>4, <2>5 DEF Accounts
<1>5. CASE StopCash
  <2>1. /\ \A u \in Threads \ {"tick"} : th'[u] = th[u]
        /\ th'["tick"].pc = "idle"
    BY <1>1, <1>5, IdleThread, Replaced DEF StopCash
  <2>2. \A u \in Threads : th'[u].pc # "locked"
    <3>1. \A u \in Threads : th[u].pc # "locked" BY <1>1, <1>5 DEF StopCash, TypeOK, Threads
    <3>2. QED BY <2>1, <3>1
  <2>3. LockSound' BY <2>2 DEF LockSound
  <2>4. StopSound' BY <2>1 DEF StopSound
  <2>5. account'.cash = th["tick"].read.cash + th["tick"].read.avail
    BY <1>1, <1>5 DEF StopCash, TypeOK
  <2>6. th["tick"].read.cash \in Int /\ th["tick"].read.avail \in Int BY <1>1, ThreadTypes
  <2>7. CashNotOverdrawn' BY <1>2, <1>5, <2>5, <2>6 DEF StopCash, CashNotOverdrawn
  <2>8. QED BY <1>3, <2>3, <2>4, <2>7 DEF Accounts
<1>6. QED BY <1>4, <1>5 DEF Stop

\* A new day forgets the purchases of the day before; a crash forgets the threads.
LEMMA ClockStep ==
  ASSUME IInv, NewDay \/ Crash
  PROVE  Accounts'
<1>1. CASE NewDay
  <2>1. /\ today'.bought = 0 /\ UNCHANGED <<account, ledger, pos, net, th, marred>>
        /\ today.bought \in Nat /\ pos.total \in Int /\ pos.avail \in Int
        /\ th["tick"].read.bought \in Nat
    BY <1>1, ThreadTypes DEF NewDay, IInv, TypeOK, Threads
  <2>2. LockSound' /\ StopSound'
    BY <2>1 DEF IInv, LockSound, StopSound, Unmarred
  <2>3. SettleSound' BY <2>1 DEF IInv, SettleSound, Settling, Unmarred
  <2>4. CashNotOverdrawn' /\ BooksBalance'
    BY <2>1 DEF IInv, CashNotOverdrawn, BooksBalance, FlowsMatchCash, PositionMatchesTrades
  <2>5. TPlusOne' BY <2>1 DEF IInv, TPlusOne
  <2>6. QED BY <2>2, <2>3, <2>4, <2>5 DEF Accounts
<1>2. CASE Crash
  <2>1. \A u \in Threads : th'[u].pc = "idle" BY <1>2, IdleThread DEF Crash
  <2>2. th'["tick"].pc = "idle" BY <2>1 DEF Threads
  <2>3. LockSound' /\ StopSound' /\ SettleSound'
    BY <2>1, <2>2 DEF LockSound, StopSound, SettleSound, Settling
  <2>4. CashNotOverdrawn' /\ BooksBalance' /\ TPlusOne'
    BY <1>2 DEF Crash, IInv, book, CashNotOverdrawn, BooksBalance, FlowsMatchCash,
                PositionMatchesTrades, TPlusOne
  <2>5. QED BY <2>3, <2>4 DEF Accounts
<1>3. QED BY <1>1, <1>2

\* The account at the start.
LEMMA InitIInv == Init => IInv
<1> SUFFICES ASSUME Init PROVE IInv
  OBVIOUS
<1>1. \A t \in Threads : th[t].pc = "idle" BY IdleThread DEF Init
<1>2. th["tick"].pc = "idle" BY <1>1 DEF Threads
<1>3. LockSound /\ StopSound /\ SettleSound
  BY <1>1, <1>2 DEF LockSound, StopSound, SettleSound, Settling
<1>4. CashNotOverdrawn /\ BooksBalance /\ TPlusOne
  BY ConstantsAssumption DEF Init, CashNotOverdrawn, BooksBalance, FlowsMatchCash,
                             PositionMatchesTrades, TPlusOne
<1>5. QED BY <1>3, <1>4, InitTypes DEF IInv

\* The whole is inductive.
LEMMA Inductive == Spec => []IInv
<1>1. IInv /\ [Next]_vars => IInv'
  <2> SUFFICES ASSUME IInv, [Next]_vars PROVE IInv'
    OBVIOUS
  <2>1. TypeOK' BY TypeStep DEF IInv
  <2>2. Accounts'
    <3>1. CASE \/ \E a \in Actions, n \in Lots : AskTrade(a, n)
               \/ \E o \in Orders : AskCancel(o)
               \/ Cancel
      BY <3>1, RequestStep
    <3>2. CASE \/ \E o \in Orders, a \in Actions, n \in Lots, d \in BOOLEAN : Place(o, a, n, d)
               \/ Open \/ Close \/ UNCHANGED vars
      BY <3>2, PlaceStep DEF Place, Open, Close, vars, book
    <3>3. CASE \E t \in Matchers : StartPass(t) \/ Match(t) \/ AbortPass(t)
      BY <3>3, PassStep DEF Match
    <3>4. CASE \E t \in Threads : Execute(t) \/ CommitUnrecorded(t) \/ RollBack(t)
      BY <3>4, LockStep, CommitStep, CommitUnrecordedStep, RollBackStep DEF Execute
    <3>5. CASE SettleTrades \/ Settle BY <3>5, SettleReadStep, SettleWriteStep DEF Settle
    <3>6. CASE Stop \/ \E b \in BOOLEAN : StopTrade(b) BY <3>6, StopStep
    <3>7. CASE NewDay \/ Crash BY <3>7, ClockStep
    <3>8. QED BY <3>1, <3>2, <3>3, <3>4, <3>5, <3>6, <3>7 DEF Next
  <2>3. QED BY <2>1, <2>2 DEF IInv, Accounts
<1>2. QED BY InitIInv, <1>1, PTL DEF Spec

-------------------------------------------------------------------------------
\* Rows, threads and counters keep their types, and exactly the thread that is in
\* its transaction holds the lock.
THEOREM TypeCorrect == Spec => []TypeOK
<1>1. IInv => TypeOK BY DEF IInv
<1>2. QED BY Inductive, <1>1, PTL

\* Whoever trades at once and whatever fails, the cash is never overdrawn.
THEOREM NoOverdraft == Spec => []CashNotOverdrawn
<1>1. IInv => CashNotOverdrawn BY DEF IInv
<1>2. QED BY Inductive, <1>1, PTL

\* For an account without a stop loss, flows and trades account for cash and
\* position, unless the record of a trade was lost.
THEOREM BooksAlwaysBalance == Spec => []BooksBalance
<1>1. IInv => BooksBalance BY DEF IInv
<1>2. QED BY Inductive, <1>1, PTL

\* What was bought today is not sellable today, unless a settlement was raced by
\* the commit of a trade.
THEOREM NotSoldOnTheDay == Spec => []TPlusOne
<1>1. IInv => TPlusOne BY DEF IInv
<1>2. QED BY Inductive, <1>1, PTL
===============================================================================
