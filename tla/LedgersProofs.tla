---------------------------- MODULE LedgersProofs ----------------------------
(***************************************************************************)
(* The execution budget and the account report of MAGI3, the research      *)
(* records of MAGI1, and the rotation account, the first paper accounts    *)
(* and the figures of MAGI2 (modules FastBudget, AccountsReport, Research, *)
(* RankLedger, DeadlineLedger, PerformanceView), for all values of their   *)
(* constants.                                                              *)
(***************************************************************************)
EXTENDS FastBudget, RankLedger, Research, DeadlineLedger, AccountsReport, PerformanceView, SumFacts

-----------------------------------------------------------------------------
(* FastBudget: what was spent and what may still be spent is kept below the *)
(* limit and within the cash, and a signal is sent once.                   *)
(*                                                                         *)
(* A snapshot may miss what orders in flight spend, but never what an      *)
(* order that was released spent.  So the invariant counts an order in the *)
(* book at its full cost and a released one at what it spent; every        *)
(* snapshot shows at least the latter, and that is what a caller adds to.  *)

States == {"RESERVED", "SENDING", "UNKNOWN", "ACKNOWLEDGED", "TERMINAL", "RECONCILED"}
Steps == {"reserve", "post", "answered", "lost"}

Working(c) == pc[c] \in Steps

\* What the orders that were released spent.
Kept == [s \in Signals |-> IF book[s] = "RECONCILED" THEN order[s].spent ELSE 0]
Settled == SumFunctionOnSet(Kept, Signals)

\* The shapes of the tables.
Types ==
  /\ book \in [Signals -> States \cup {None}]
  /\ order \in [Signals -> [state : {"none", "open", "done"}, spent : Int]]
  /\ posts \in [Signals -> {0, 1}]
  /\ pc \in [Callers -> Steps \cup {"idle"}]
  /\ work = [c \in Callers |-> work[c]] /\ snap = [c \in Callers |-> snap[c]]

\* Nothing is sent without an entry of the book, and what is released is done.
OrderInv(s) ==
  /\ book[s] = None => order[s].state = "none" /\ posts[s] = 0
  /\ book[s] \in {"TERMINAL", "RECONCILED"} => order[s].state = "done"
  /\ order[s].spent >= 0 /\ order[s].spent <= Cost
  /\ order[s].state # "done" => order[s].spent = 0

OrdersInv == \A s \in Signals : OrderInv(s)

\* A caller works at an order of its own, which is sent once.
CallersInv ==
  \A c \in Callers : Working(c) =>
    /\ work[c] \in Outstanding
    /\ pc[c] \in {"reserve", "post"} => posts[work[c]] = 0 /\ order[work[c]].state = "none"
    /\ \A d \in Callers \ {c} : Working(d) => work[d] # work[c]

\* A snapshot shows what the released orders spent.
SnapsInv ==
  \A c \in Callers : snap[c] # None =>
    /\ snap[c].held \in Int /\ snap[c].cash \in Int
    /\ snap[c].held >= Settled /\ snap[c].cash <= Capital - snap[c].held

MoneyInv == Settled + Reserved < Limit /\ Settled + Reserved <= Capital

IInv == Types /\ OrdersInv /\ CallersInv /\ SnapsInv /\ MoneyInv

-----------------------------------------------------------------------------
(* The sums                                                                *)

\* The quantities of the invariant are integers, and a set of signals is counted.
LEMMA Amounts ==
  ASSUME Types, OrdersInv
  PROVE  /\ Settled \in Int /\ Held \in Int /\ Settled <= Held
         /\ Cardinality(Outstanding) \in Nat /\ Cardinality(Open) \in Nat
         /\ IsFiniteSet(Outstanding)
         /\ Reserved \in Int /\ Cost * Cardinality(Open) >= 0 /\ Cost * Cardinality(Open) \in Int
<1>1. \A s \in Signals : Kept[s] \in Int /\ Spent[s] \in Int /\ Kept[s] <= Spent[s]
  BY DEF Types, OrdersInv, OrderInv, Kept, Spent
<1>2. Settled \in Int /\ Held \in Int /\ Settled <= Held
  BY <1>1, BudgetAssumption, SumType, SumAtMost DEF Settled, Held
<1>3. IsFiniteSet(Outstanding) /\ IsFiniteSet(Open)
  <2>1. Outstanding \subseteq Signals /\ Open \subseteq Signals
    BY DEF Outstanding, Open
  <2> QED BY <2>1, BudgetAssumption, FS_Subset
<1>4. Cardinality(Outstanding) \in Nat /\ Cardinality(Open) \in Nat
  BY <1>3, FS_CardinalityType
<1>5. Cost \in Nat
  BY BudgetAssumption
<1>6. \A n \in Nat : Cost * n \in Nat
  BY <1>5
<1> QED BY <1>2, <1>3, <1>4, <1>6 DEF Reserved

\* What was and may be spent is no more than what the book accounts for.
LEMMA Accounted ==
  ASSUME Types, OrdersInv
  PROVE  Held + Cost * Cardinality(Open) <= Settled + Reserved
<1> DEFINE f == [s \in Signals |-> IF s \in Open THEN Spent[s] + Cost ELSE Spent[s]]
           g == [s \in Signals |-> IF s \in Outstanding THEN Kept[s] + Cost ELSE Kept[s]]
<1>1. Cost \in Nat /\ IsFiniteSet(Signals)
  BY BudgetAssumption
<1>2. \A s \in Signals : Kept[s] \in Int /\ Spent[s] \in Int
  BY DEF Types, Kept, Spent
<1>3. Outstanding \in SUBSET Signals /\ Open \in SUBSET Signals
  BY DEF Outstanding, Open
<1>4. \A s \in Signals : f[s] \in Int /\ g[s] \in Int
  BY <1>1, <1>2
<1>5. ASSUME NEW s \in Signals PROVE f[s] <= g[s]
  <2>1. /\ order[s].state \in {"none", "open", "done"} /\ order[s].spent \in Int
        /\ Spent[s] = order[s].spent /\ OrderInv(s) /\ None # "RECONCILED"
    BY BudgetAssumption DEF Types, Spent, OrdersInv
  <2>2. CASE book[s] \in {None, "RECONCILED"}
    <3>1. s \notin Open /\ s \notin Outstanding
      BY <2>1, <2>2 DEF Open, Outstanding, OrderInv
    <3>2. Kept[s] = Spent[s]
      BY <2>1, <2>2 DEF OrderInv, Kept
    <3> QED BY <1>2, <3>1, <3>2
  <2>3. CASE book[s] \notin {None, "RECONCILED"}
    <3>1. s \in Outstanding /\ Kept[s] = 0
      BY <2>3 DEF Outstanding, Kept
    <3>2. s \in Open => Spent[s] = 0
      BY <2>1 DEF Open, OrderInv
    <3>3. Spent[s] <= Cost
      BY <2>1 DEF OrderInv
    <3> QED BY <1>1, <1>2, <3>1, <3>2, <3>3
  <2> QED BY <2>2, <2>3
<1>6. Raised(Spent, f, Signals, Open, Cost) /\ Raised(Kept, g, Signals, Outstanding, Cost)
  BY <1>2, <1>4 DEF Raised
<1>7. \A s \in Signals : f[s] \in Int /\ g[s] \in Int /\ f[s] <= g[s]
  BY <1>4, <1>5
<1> HIDE DEF f, g
<1>8. SumFunctionOnSet(f, Signals) <= SumFunctionOnSet(g, Signals)
  BY <1>1, <1>7, SumAtMost
<1>9. SumFunctionOnSet(f, Signals) = SumFunctionOnSet(Spent, Signals) + Cost * Cardinality(Open)
  BY <1>1, <1>3, <1>6, SumRaised
<1>10. SumFunctionOnSet(g, Signals) = SumFunctionOnSet(Kept, Signals) + Cost * Cardinality(Outstanding)
  BY <1>1, <1>3, <1>6, SumRaised
<1> QED BY <1>8, <1>9, <1>10 DEF Held, Settled, Reserved

-----------------------------------------------------------------------------
(* The steps                                                               *)

\* What a step leaves of the money: the same orders are in the book, the same
\* ones released, and snapshots of before.
SameBooks ==
  /\ Kept' = Kept /\ Outstanding' = Outstanding
  /\ \A c \in Callers : snap[c]' = snap[c] \/ snap[c]' = None

LEMMA SameMoney ==
  ASSUME SnapsInv, MoneyInv, SameBooks
  PROVE  SnapsInv' /\ MoneyInv'
<1>1. Settled' = Settled /\ Reserved' = Reserved
  BY DEF SameBooks, Settled, Reserved
<1>2. MoneyInv'
  BY <1>1 DEF MoneyInv
<1>3. SnapsInv'
  BY <1>1 DEF SnapsInv, SameBooks
<1> QED BY <1>2, <1>3

LEMMA InitialInv == BInit => IInv
<1> SUFFICES ASSUME BInit PROVE IInv
  OBVIOUS
<1>1. Cost \in Nat /\ Limit \in Nat \ {0} /\ Capital \in Nat /\ IsFiniteSet(Signals)
  BY BudgetAssumption
<1>2. Types
  BY DEF BInit, Types
<1>9. OrdersInv
  BY <1>1, BudgetAssumption DEF BInit, OrdersInv, OrderInv
<1>3. CallersInv /\ SnapsInv
  BY DEF BInit, CallersInv, SnapsInv, Working, Steps
<1>4. Outstanding = {} /\ \A s \in Signals : Kept[s] = 0
  BY BudgetAssumption DEF BInit, Outstanding, Kept
<1>5. Settled = 0
  <2>1. Settled = Cardinality(Signals) * 0
    BY <1>1, <1>4, SumConstant DEF Settled
  <2>2. Cardinality(Signals) \in Nat
    BY <1>1, FS_CardinalityType
  <2> QED BY <2>1, <2>2
<1>6. Reserved = 0
  <2>1. Cardinality(Outstanding) = 0
    BY <1>4, FS_EmptySet
  <2> QED BY <1>1, <2>1 DEF Reserved
<1> QED BY <1>1, <1>2, <1>3, <1>5, <1>6, <1>9 DEF IInv, MoneyInv

\* The steps that move no money.
LEMMA PassKeeps == IInv /\ Pass => IInv'
<1> SUFFICES ASSUME IInv, Pass PROVE IInv'
  OBVIOUS
<1>1. Types' /\ OrdersInv' /\ CallersInv'
  BY DEF IInv, Pass, Types, OrdersInv, OrderInv, CallersInv, Working, Outstanding
<1>2. SameBooks
  BY DEF Pass, SameBooks, Kept, Outstanding
<1> QED BY <1>1, <1>2, SameMoney DEF IInv

\* A process that died remembers nothing; the book and the exchange do.
LEMMA DieKeeps == IInv /\ Die => IInv'
<1> SUFFICES ASSUME IInv, Die PROVE IInv'
  OBVIOUS
<1>1. Types' /\ OrdersInv'
  BY DEF IInv, Die, Types, OrdersInv, OrderInv
<1>2. CallersInv'
  BY DEF Die, CallersInv, Working, Steps
<1>3. SameBooks
  BY DEF Die, SameBooks, Kept, Outstanding
<1> QED BY <1>1, <1>2, <1>3, SameMoney DEF IInv

\* A new snapshot shows all that was spent, of orders released and others.
LEMMA LookKeeps == \A c \in Callers : IInv /\ Look(c) => IInv'
<1> SUFFICES ASSUME NEW c \in Callers, IInv, Look(c) PROVE IInv'
  OBVIOUS
<1>1. Types' /\ OrdersInv' /\ CallersInv'
  BY DEF IInv, Look, Types, OrdersInv, OrderInv, CallersInv, Working, Outstanding
<1>2. Kept' = Kept /\ Outstanding' = Outstanding
  BY DEF Look, Kept, Outstanding
<1>3. Settled' = Settled /\ Reserved' = Reserved
  BY <1>2 DEF Settled, Reserved
<1>4. MoneyInv'
  BY <1>3 DEF IInv, MoneyInv
<1>5. PICK complete \in BOOLEAN :
        snap' = [snap EXCEPT ![c] = [ts |-> now, held |-> Held, complete |-> complete,
                                    cash |-> Capital - Held - Cost * Cardinality(Open)]]
  BY DEF Look
<1>6. /\ Settled \in Int /\ Held \in Int /\ Settled <= Held
      /\ Cost * Cardinality(Open) >= 0 /\ Cost * Cardinality(Open) \in Int
      /\ Capital \in Nat
  BY Amounts, BudgetAssumption DEF IInv
<1>7. snap'[c].held = Held /\ snap'[c].cash = Capital - Held - Cost * Cardinality(Open)
  BY <1>5 DEF IInv, Types
<1>8. \A d \in Callers \ {c} : snap'[d] = snap[d]
  BY <1>5 DEF IInv, Types
<1>9. ASSUME NEW d \in Callers, snap'[d] # None
      PROVE  /\ snap'[d].held \in Int /\ snap'[d].cash \in Int
             /\ snap'[d].held >= Settled /\ snap'[d].cash <= Capital - snap'[d].held
  <2>1. CASE d = c
    BY <1>6, <1>7, <2>1
  <2>2. CASE d # c
    BY <1>8, <1>9, <2>2 DEF IInv, SnapsInv
  <2> QED BY <2>1, <2>2
<1>10. SnapsInv'
  BY <1>3, <1>9 DEF SnapsInv
<1> QED BY <1>1, <1>4, <1>10 DEF IInv

\* A step of a caller at its own order, which stays in the book.
LEMMA SendingKeeps == \A c \in Callers : IInv /\ Sending(c) => IInv'
<1> SUFFICES ASSUME NEW c \in Callers, IInv, Sending(c) PROVE IInv'
  OBVIOUS
<1> DEFINE s == work[c]
<1>1. /\ s \in Outstanding /\ s \in Signals /\ Working(c)
      /\ posts[s] = 0 /\ order[s].state = "none"
      /\ book[s] \notin {None, "RECONCILED"}
  BY DEF IInv, CallersInv, Sending, Working, Steps, Outstanding
<1>2. None # "SENDING"
  BY BudgetAssumption
<1> HIDE DEF s
<1>3. book' = [book EXCEPT ![s] = "SENDING"] /\ pc' = [pc EXCEPT ![c] = "post"]
  BY DEF Sending, s
<1>4. Types' /\ OrdersInv'
  BY <1>1, <1>2, <1>3 DEF IInv, Sending, Types, OrdersInv, OrderInv, States, Steps
<1>5. Outstanding' = Outstanding
  BY <1>1, <1>2, <1>3 DEF IInv, Types, Outstanding
<1>6. CallersInv'
  <2>1. \A d \in Callers : Working(d)' <=> Working(d)
    BY <1>1, <1>3 DEF IInv, Types, Working, Steps
  <2>2. \A d \in Callers : pc'[d] \in {"reserve", "post"} => d = c \/ pc'[d] = pc[d]
    BY <1>3 DEF IInv, Types
  <2>3. work' = work /\ posts' = posts /\ order' = order
    BY DEF Sending
  <2>4. CallersInv
    BY DEF IInv
  <2> QED BY <1>1, <1>5, <2>1, <2>2, <2>3, <2>4 DEF CallersInv, s
<1>7. SameBooks
  <2>1. Kept' = Kept
    BY <1>1, <1>3 DEF IInv, Types, Sending, Kept
  <2> QED BY <1>5, <2>1 DEF Sending, SameBooks
<1> QED BY <1>4, <1>6, <1>7, SameMoney DEF IInv

\* The answer, or its loss, is recorded; the order stays in the book.
LEMMA SettleKeeps == \A c \in Callers : IInv /\ Settle(c) => IInv'
<1> SUFFICES ASSUME NEW c \in Callers, IInv, Settle(c) PROVE IInv'
  OBVIOUS
<1> DEFINE s == work[c]
           newState == IF pc[c] = "answered" THEN "ACKNOWLEDGED" ELSE "UNKNOWN"
<1>1. /\ s \in Outstanding /\ s \in Signals /\ book[s] \notin {None, "RECONCILED"}
  BY DEF IInv, CallersInv, Settle, Working, Steps, Outstanding
<1>2. /\ newState \in States /\ newState \notin {None, "RECONCILED", "TERMINAL"}
  BY BudgetAssumption DEF States
<1>3. /\ book' = [book EXCEPT ![s] = newState] /\ pc' = [pc EXCEPT ![c] = "idle"]
      /\ work' = [work EXCEPT ![c] = None]
      /\ UNCHANGED <<order, posts, snap>>
  BY DEF Settle
<1> HIDE DEF s, newState
<1>4. Types' /\ OrdersInv'
  BY <1>1, <1>2, <1>3 DEF IInv, Types, OrdersInv, OrderInv
<1>5. Outstanding' = Outstanding
  BY <1>1, <1>2, <1>3 DEF IInv, Types, Outstanding
<1>6. CallersInv'
  <2>1. \A d \in Callers : Working(d)' => Working(d) /\ d # c /\ pc'[d] = pc[d] /\ work'[d] = work[d]
    BY <1>3 DEF IInv, Types, Working, Steps
  <2>2. CallersInv
    BY DEF IInv
  <2> QED BY <1>3, <1>5, <2>1, <2>2 DEF CallersInv
<1>7. SameBooks
  <2>1. Kept' = Kept
    BY <1>1, <1>2, <1>3 DEF IInv, Types, Kept
  <2> QED BY <1>3, <1>5, <2>1 DEF SameBooks
<1> QED BY <1>4, <1>6, <1>7, SameMoney DEF IInv

\* A request reaches the exchange once: its caller is the only one at the
\* signal, and no request for it was made before.
LEMMA PostKeeps == \A c \in Callers : IInv /\ Post(c) => IInv'
<1> SUFFICES ASSUME NEW c \in Callers, IInv, Post(c) PROVE IInv'
  OBVIOUS
<1> DEFINE s == work[c]
<1>1. /\ s \in Outstanding /\ s \in Signals /\ book[s] \notin {None, "RECONCILED"}
      /\ posts[s] = 0 /\ order[s].state = "none" /\ order[s].spent = 0
      /\ book[s] # "TERMINAL"
  BY DEF IInv, CallersInv, OrdersInv, OrderInv, Post, Working, Steps, Outstanding
<1>2. /\ pc[c] = "post" /\ UNCHANGED <<book, work, snap>>
      /\ \E p \in {"answered", "lost"} : pc' = [pc EXCEPT ![c] = p]
  BY DEF Post
<1>3. \/ UNCHANGED <<order, posts>>
      \/ order' = [order EXCEPT ![s].state = "open"] /\ posts' = [posts EXCEPT ![s] = @ + 1]
  BY DEF Post
<1>4. /\ \A r \in Signals \ {s} : order'[r] = order[r] /\ posts'[r] = posts[r]
      /\ order'[s].state \in {"none", "open"} /\ order'[s].spent = 0 /\ posts'[s] \in {0, 1}
  BY <1>1, <1>3 DEF IInv, Types
<1>9. /\ order' \in [Signals -> [state : {"none", "open", "done"}, spent : Int]]
      /\ posts' \in [Signals -> {0, 1}]
  BY <1>1, <1>3 DEF IInv, Types
<1>10. /\ pc' \in [Callers -> Steps \cup {"idle"}]
       /\ pc'[c] \in {"answered", "lost"} /\ \A d \in Callers \ {c} : pc'[d] = pc[d]
  BY <1>2 DEF IInv, Types, Steps
<1> HIDE DEF s
<1>5. Types' /\ OrdersInv'
  <2>1. Types'
    BY <1>2, <1>9, <1>10 DEF IInv, Types
  <2>2. ASSUME NEW r \in Signals PROVE OrderInv(r)'
    <3>1. CASE r = s
      BY <1>1, <1>2, <1>4, <3>1, BudgetAssumption DEF OrderInv
    <3>2. CASE r # s
      BY <1>2, <1>4, <3>2 DEF IInv, OrdersInv, OrderInv
    <3> QED BY <3>1, <3>2
  <2> QED BY <2>1, <2>2 DEF OrdersInv
<1>6. Outstanding' = Outstanding
  BY <1>2 DEF Outstanding
<1>7. CallersInv'
  <2>1. \A d \in Callers : Working(d)' => Working(d)
    BY <1>2, <1>10 DEF Working, Steps
  <2>2. \A d \in Callers : pc'[d] \in {"reserve", "post"} => d # c /\ pc[d] \in {"reserve", "post"}
    BY <1>10
  <2>3. Working(c) /\ CallersInv
    BY <1>2 DEF IInv, Working, Steps
  <2>4. \A d \in Callers \ {c} : Working(d) => work[d] # s /\ work[d] \in Signals
    BY <2>3 DEF CallersInv, s, Outstanding
  <2> QED BY <1>2, <1>4, <1>6, <2>1, <2>2, <2>3, <2>4 DEF CallersInv, Working, Steps
<1>8. SameBooks
  <2>1. \A r \in Signals : book[r] = "RECONCILED" => order'[r] = order[r]
    BY <1>1, <1>4
  <2>2. Kept' = Kept
    BY <1>2, <2>1 DEF Kept
  <2> QED BY <1>2, <1>6, <2>2 DEF SameBooks
<1> QED BY <1>5, <1>7, <1>8, SameMoney DEF IInv

\* An execution spends no more than was reserved.
LEMMA ExecuteKeeps == \A s \in Signals : IInv /\ Execute(s) => IInv'
<1> SUFFICES ASSUME NEW s \in Signals, IInv, Execute(s) PROVE IInv'
  OBVIOUS
<1>1. Cost \in Nat \ {0}
  BY BudgetAssumption
<1>2. PICK spent \in {0, Cost - 1, Cost} : order' = [order EXCEPT ![s] = [state |-> "done", spent |-> spent]]
  BY DEF Execute
<1>3. /\ order[s].state = "open" /\ UNCHANGED <<book, posts, pc, work, snap>>
      /\ book[s] \notin {None, "TERMINAL", "RECONCILED"}
  BY DEF IInv, OrdersInv, OrderInv, Execute
<1>4. spent \in Int /\ spent >= 0 /\ spent <= Cost
  BY <1>1
<1>5. /\ order' \in [Signals -> [state : {"none", "open", "done"}, spent : Int]]
      /\ order'[s].state = "done" /\ order'[s].spent = spent
      /\ \A r \in Signals \ {s} : order'[r] = order[r]
  BY <1>2, <1>4 DEF IInv, Types
<1>6. Types' /\ OrdersInv'
  <2>1. Types'
    BY <1>3, <1>5 DEF IInv, Types
  <2>2. ASSUME NEW r \in Signals PROVE OrderInv(r)'
    <3>1. CASE r = s
      BY <1>3, <1>4, <1>5, <3>1 DEF OrderInv
    <3>2. CASE r # s
      BY <1>3, <1>5, <3>2 DEF IInv, OrdersInv, OrderInv
    <3> QED BY <3>1, <3>2
  <2> QED BY <2>1, <2>2 DEF OrdersInv
<1>7. Outstanding' = Outstanding
  BY <1>3 DEF Outstanding
<1>8. CallersInv'
  <2>1. \A d \in Callers : Working(d)' <=> Working(d)
    BY <1>3 DEF Working
  <2>2. ASSUME NEW d \in Callers, Working(d), pc[d] \in {"reserve", "post"} PROVE work[d] # s
    BY <1>3, <2>2 DEF IInv, CallersInv
  <2>3. \A d \in Callers : Working(d) => work[d] \in Signals
    BY DEF IInv, CallersInv, Outstanding
  <2> QED BY <1>3, <1>5, <1>7, <2>1, <2>2, <2>3 DEF IInv, CallersInv
<1>9. SameBooks
  <2>1. Kept' = Kept
    BY <1>3, <1>5 DEF Kept
  <2> QED BY <1>3, <1>7, <2>1 DEF SameBooks
<1> QED BY <1>6, <1>8, <1>9, SameMoney DEF IInv

\* A query records what the exchange says; the order stays in the book.
LEMMA ReconcileKeeps ==
  \A c \in Callers, s \in Signals : IInv /\ Reconcile(c, s) => IInv'
<1> SUFFICES ASSUME NEW c \in Callers, NEW s \in Signals, IInv, Reconcile(c, s) PROVE IInv'
  OBVIOUS
<1> DEFINE newState == IF order[s].state = "open" THEN "ACKNOWLEDGED" ELSE "TERMINAL"
<1>1. book[s] \notin {None, "RECONCILED"} /\ order[s].state # "none"
  BY DEF Reconcile
<1>2. /\ newState \in States /\ newState \notin {None, "RECONCILED"}
      /\ newState = "TERMINAL" => order[s].state = "done"
  BY <1>1, BudgetAssumption DEF States, IInv, Types
<1>3. book' = [book EXCEPT ![s] = newState] /\ UNCHANGED <<order, posts, pc, work, snap>>
  BY DEF Reconcile
<1> HIDE DEF newState
<1>4. Types' /\ OrdersInv'
  BY <1>1, <1>2, <1>3 DEF IInv, Types, OrdersInv, OrderInv
<1>5. Outstanding' = Outstanding
  BY <1>1, <1>2, <1>3 DEF IInv, Types, Outstanding
<1>6. CallersInv'
  BY <1>3, <1>5 DEF IInv, CallersInv, Working
<1>7. SameBooks
  <2>1. Kept' = Kept
    BY <1>1, <1>2, <1>3 DEF IInv, Types, Kept
  <2> QED BY <1>3, <1>5, <2>1 DEF SameBooks
<1> QED BY <1>4, <1>6, <1>7, SameMoney DEF IInv

\* What is reserved was not spent by any released order, and fits beside the
\* outstanding ones: a snapshot shows at least what was released.
LEMMA ReserveKeeps ==
  \A c \in Callers, s \in Signals : IInv /\ Reserve(c, s) => IInv'
<1> SUFFICES ASSUME NEW c \in Callers, NEW s \in Signals, IInv, Reserve(c, s) PROVE IInv'
  OBVIOUS
<1>1. CASE ~(book[s] = None /\ Admitted(c))
  <2>1. UNCHANGED <<book, pc, work, order, posts, snap>>
    BY <1>1 DEF Reserve
  <2>2. Types' /\ OrdersInv' /\ CallersInv'
    BY <2>1 DEF IInv, Types, OrdersInv, OrderInv, CallersInv, Working, Outstanding
  <2>3. SameBooks
    BY <2>1 DEF SameBooks, Kept, Outstanding
  <2> QED BY <2>2, <2>3, SameMoney DEF IInv
<1>2. CASE book[s] = None /\ Admitted(c)
  <2>1. /\ book' = [book EXCEPT ![s] = "RESERVED"] /\ pc' = [pc EXCEPT ![c] = "reserve"]
        /\ work' = [work EXCEPT ![c] = s] /\ UNCHANGED <<order, posts, snap>>
        /\ snap[c] # None
    BY <1>2 DEF Reserve
  <2>2. "RESERVED" # None /\ None # "RECONCILED" /\ Cost \in Nat /\ IsFiniteSet(Signals)
    BY BudgetAssumption
  <2>3. order[s].state = "none" /\ posts[s] = 0
    BY <1>2 DEF IInv, OrdersInv, OrderInv
  <2>4. Types' /\ OrdersInv'
    BY <2>1, <2>2, <2>3 DEF IInv, Types, OrdersInv, OrderInv, States, Steps
  <2>5. s \notin Outstanding /\ Outstanding' = Outstanding \cup {s}
    BY <1>2, <2>1, <2>2 DEF IInv, Types, Outstanding
  <2>6. CallersInv'
    <3>1. ASSUME NEW d \in Callers, d # c
          PROVE  /\ (Working(d)' <=> Working(d)) /\ pc'[d] = pc[d] /\ work'[d] = work[d]
                 /\ Working(d) => work[d] # s
      <4>1. pc'[d] = pc[d] /\ work'[d] = work[d]
        BY <2>1, <3>1 DEF IInv, Types
      <4> QED BY <2>5, <4>1 DEF IInv, CallersInv, Working
    <3>2. pc'[c] = "reserve" /\ work'[c] = s
      BY <2>1 DEF IInv, Types
    <3>3. \A d \in Callers : Working(d)' =>
            \/ d = c
            \/ Working(d) /\ d # c /\ pc'[d] = pc[d] /\ work'[d] = work[d] /\ work[d] # s
      BY <3>1
    <3>4. CallersInv
      BY DEF IInv
    <3> QED BY <2>1, <2>3, <2>5, <3>2, <3>3, <3>4 DEF CallersInv
  <2>7. Kept' = Kept
    BY <1>2, <2>1, <2>2 DEF IInv, Types, Kept
  <2>8. Settled' = Settled
    BY <2>7 DEF Settled
  <2>9. /\ Settled \in Int /\ Reserved \in Int /\ IsFiniteSet(Outstanding)
        /\ Cardinality(Outstanding) \in Nat
    BY Amounts DEF IInv
  <2>10. Reserved' = Reserved + Cost
    <3>1. Cardinality(Outstanding)' = Cardinality(Outstanding) + 1
      BY <2>5, <2>9, FS_AddElement
    <3>2. \A n \in Nat : Cost * (n + 1) = Cost * n + Cost
      BY <2>2
    <3> QED BY <2>9, <3>1, <3>2 DEF Reserved
  <2>11. /\ snap[c].held \in Int /\ snap[c].cash \in Int
         /\ snap[c].held >= Settled /\ snap[c].cash <= Capital - snap[c].held
         /\ snap[c].held + Reserved + Cost < Limit /\ Cost + Reserved <= snap[c].cash
    BY <1>2, <2>1 DEF IInv, SnapsInv, Admitted
  <2>12. MoneyInv'
    <3>1. Settled + (Reserved + Cost) < Limit /\ Settled + (Reserved + Cost) <= Capital
      BY <2>2, <2>9, <2>11, BudgetAssumption
    <3> QED BY <2>8, <2>10, <3>1 DEF MoneyInv
  <2>13. SnapsInv'
    BY <2>1, <2>8 DEF IInv, SnapsInv
  <2> QED BY <2>4, <2>6, <2>12, <2>13 DEF IInv
<1> QED BY <1>1, <1>2

\* A released order counts for what it spent, which every snapshot shows.
LEMMA ReleaseKeeps == \A s \in Signals : IInv /\ Release(s) => IInv'
<1> SUFFICES ASSUME NEW s \in Signals, IInv, Release(s) PROVE IInv'
  OBVIOUS
<1>1. /\ book[s] = "TERMINAL" /\ \A c \in Callers : work[c] # s
      /\ book' = [book EXCEPT ![s] = "RECONCILED"]
      /\ UNCHANGED <<order, posts, pc, work, snap>>
      /\ \A c \in Callers : snap[c] # None => snap[c].held = Held
  BY DEF Release
<1>2. None \notin {"TERMINAL", "RECONCILED"} /\ Cost \in Nat /\ IsFiniteSet(Signals)
  BY BudgetAssumption
<1>3. Types'
  BY <1>1 DEF IInv, Types, States
<1>4. OrdersInv'
  BY <1>1, <1>2 DEF IInv, Types, OrdersInv, OrderInv
<1>5. s \in Outstanding /\ Outstanding' = Outstanding \ {s}
  BY <1>1, <1>2 DEF IInv, Types, Outstanding
<1>6. CallersInv'
  BY <1>1, <1>5 DEF IInv, CallersInv, Working
<1>7. /\ Settled \in Int /\ Reserved \in Int /\ IsFiniteSet(Outstanding)
      /\ Cardinality(Outstanding) \in Nat
  BY Amounts DEF IInv
<1>8. /\ Settled' \in Int /\ Settled' <= Held'
  <2>1. \A r \in Signals : Kept'[r] \in Int /\ Spent'[r] \in Int /\ Kept'[r] <= Spent'[r]
    BY <1>3, <1>4 DEF Types, OrdersInv, OrderInv, Kept, Spent
  <2> QED BY <1>2, <2>1, SumType, SumAtMost DEF Settled, Held
<1>9. Held' = Held
  <2>1. Spent' = Spent
    BY <1>1 DEF Spent
  <2> QED BY <2>1 DEF Held
<1>10. SnapsInv'
  BY <1>1, <1>8, <1>9 DEF IInv, SnapsInv
<1>11. Kept[s] = 0 /\ Kept'[s] = order[s].spent
  BY <1>1 DEF IInv, Types, Kept
<1>12. Settled' = Settled - Kept[s] + Kept'[s]
  <2>1. \A r \in Signals : Kept[r] \in Int
    BY DEF IInv, Types, Kept
  <2>2. \A r \in Signals : Kept'[r] \in Int
    BY <1>3 DEF Types, Kept
  <2>3. \A r \in Signals \ {s} : Kept'[r] = Kept[r]
    BY <1>1 DEF IInv, Types, Kept
  <2>4. Changed(Kept, Kept', Signals, s)
    BY <2>1, <2>2, <2>3 DEF Changed
  <2> QED BY <1>2, <2>4, SumChange DEF Settled
<1>13. Reserved' = Reserved - Cost
  <2>1. Cardinality(Outstanding)' = Cardinality(Outstanding) - 1
    BY <1>5, <1>7, FS_RemoveElement
  <2>2. \A n \in Nat : Cost * (n - 1) = Cost * n - Cost
    BY <1>2
  <2> QED BY <1>7, <2>1, <2>2 DEF Reserved
<1>14. order[s].spent \in Int /\ order[s].spent <= Cost
  BY DEF IInv, Types, OrdersInv, OrderInv
<1>15. MoneyInv'
  <2>1. Settled' + Reserved' <= Settled + Reserved
    BY <1>2, <1>7, <1>11, <1>12, <1>13, <1>14
  <2>2. Settled' + Reserved' \in Int /\ Limit \in Int /\ Capital \in Int
    BY <1>2, <1>7, <1>8, <1>13, BudgetAssumption
  <2> QED BY <1>7, <2>1, <2>2 DEF IInv, MoneyInv
<1> QED BY <1>3, <1>4, <1>6, <1>10, <1>15 DEF IInv

\* Nothing the invariant speaks of changes in a stuttering step.
LEMMA StutterKeeps == IInv /\ UNCHANGED bvars => IInv'
<1> SUFFICES ASSUME IInv, UNCHANGED bvars PROVE IInv'
  OBVIOUS
<1>1. Types' /\ OrdersInv' /\ CallersInv'
  BY DEF bvars, IInv, Types, OrdersInv, OrderInv, CallersInv, Working, Outstanding
<1>2. SameBooks
  BY DEF bvars, SameBooks, Kept, Outstanding
<1> QED BY <1>1, <1>2, SameMoney DEF IInv

-----------------------------------------------------------------------------
(* The theorems                                                            *)

\* What was released plus the full cost of every order in the book stays below
\* the limit and within the cash, and every snapshot in use shows the former
\* (magi3/fast_execution.py:44-50).
THEOREM IInvInvariant == BSpec => []IInv
<1>1. BInit => IInv
  BY InitialInv
<1>2. IInv /\ [BNext]_bvars => IInv'
  <2> SUFFICES ASSUME IInv, [BNext]_bvars PROVE IInv'
    OBVIOUS
  <2>1. CASE Pass
    BY <2>1, PassKeeps
  <2>2. CASE Die
    BY <2>2, DieKeeps
  <2>3. ASSUME NEW c \in Callers, Look(c) \/ Sending(c) \/ Post(c) \/ Settle(c) PROVE IInv'
    BY <2>3, LookKeeps, SendingKeeps, PostKeeps, SettleKeeps
  <2>4. ASSUME NEW c \in Callers, NEW s \in Signals, Reserve(c, s) \/ Reconcile(c, s) PROVE IInv'
    BY <2>4, ReserveKeeps, ReconcileKeeps
  <2>5. ASSUME NEW s \in Signals, Execute(s) \/ Release(s) PROVE IInv'
    BY <2>5, ExecuteKeeps, ReleaseKeeps
  <2>6. CASE UNCHANGED bvars
    BY <2>6, StutterKeeps
  <2> QED BY <2>1, <2>2, <2>3, <2>4, <2>5, <2>6 DEF BNext
<1> QED BY <1>1, <1>2, PTL DEF BSpec

\* For any number of callers and signals: what was spent and what the exchange
\* may still spend stays below five percent of the equity and within the cash,
\* and a signal reaches the exchange at most once, whatever answers are lost
\* and whenever the process dies (magi3/fast_execution.py:42, :48, :50, :104).
THEOREM CapitalKept == BSpec => []CapitalIsKept
<1>1. IInv => CapitalIsKept
  <2> SUFFICES ASSUME IInv PROVE CapitalIsKept
    OBVIOUS
  <2> DEFINE open == Cost * Cardinality(Open)
  <2>1. /\ Held \in Int /\ open \in Int /\ Settled \in Int /\ Reserved \in Int
        /\ Limit \in Int /\ Capital \in Int
    BY Amounts, BudgetAssumption DEF IInv
  <2>2. Held + open <= Settled + Reserved
    BY Accounted DEF IInv
  <2>3. Settled + Reserved < Limit /\ Settled + Reserved <= Capital
    BY DEF IInv, MoneyInv
  <2>4. \A s \in Signals : posts[s] <= 1 /\ (posts[s] = 1 => book[s] # None)
    BY DEF IInv, Types, OrdersInv, OrderInv
  <2> HIDE DEF open
  <2>5. Held + open < Limit /\ Held + open <= Capital
    BY <2>1, <2>2, <2>3
  <2> QED BY <2>4, <2>5 DEF CapitalIsKept, open
<1> QED BY <1>1, IInvInvariant, PTL

-----------------------------------------------------------------------------
(* Research: a snapshot has one baseline and one of each outcome, and an   *)
(* outcome rests on quotes that were heard, wherever the process dies.     *)
(*                                                                         *)
(* Uniqueness rests on the snapshots known: they are committed together    *)
(* with the baselines, so a process that starts again knows of every       *)
(* snapshot that has one, whether or not vpd_seen was saved.  An outcome   *)
(* is remembered as done while its baseline waits, and what waited is gone *)
(* with the process.  For the quotes, what is forgotten is older than      *)
(* anything that waits: HeardInv.                                          *)

Snapshots == [ts : Nat, available : Nat]
Entries == [snapshot : Nat, ts : Nat, available : Nat, vpd : Nat]
Evaluations == [snapshot : Nat, ts : Nat, horizon : HORIZONS, at : Nat]

RTypes ==
  /\ clock \in Nat /\ ticked \in Nat
  /\ snapshots \in Seq([ts : Nat, high : BOOLEAN])
  /\ rows \subseteq Snapshots
  /\ candidate \in Snapshots \cup {Nothing}
  /\ quote \in Nat \cup {Nothing}
  /\ samples \subseteq Nat /\ heard \subseteq Nat
  /\ pending \subseteq [snapshot : Nat, ts : Nat, done : SUBSET HORIZONS]
  /\ db \in [known : SUBSET Snapshots, entries : SUBSET Entries, evaluations : SUBSET Evaluations]
  /\ disk.records \in [known : SUBSET Snapshots, entries : SUBSET Entries, evaluations : SUBSET Evaluations]
  /\ disk = [records |-> disk.records, seen |-> disk.seen]

\* In a set of records an entry has its snapshot, and each is there once.
Consistent(r) ==
  /\ \A e \in r.entries : /\ e.available <= e.ts /\ e.vpd >= e.snapshot
                          /\ \E k \in r.known : k.ts = e.snapshot
  /\ \A v \in r.evaluations : \E e \in r.entries : e.snapshot = v.snapshot /\ e.ts = v.ts
  /\ \A e, f \in r.entries : e.snapshot = f.snapshot => e = f
  /\ \A v, w \in r.evaluations : v.snapshot = w.snapshot /\ v.horizon = w.horizon => v = w

\* The transaction holds what is committed, and the process knows its snapshots.
RecordsInv ==
  /\ Consistent(db) /\ Consistent(disk.records)
  /\ life # "down" => /\ rows = db.known
                      /\ disk.records.entries \subseteq db.entries
                      /\ disk.records.evaluations \subseteq db.evaluations

\* A process that is down remembers nothing.
DownInv == life = "down" => /\ db = Empty /\ candidate = Nothing /\ quote = Nothing
                            /\ samples = {} /\ pending = {} /\ heard = {}

\* What waits for its baseline has none.
CandidateInv ==
  candidate # Nothing => /\ candidate \in rows /\ candidate.ts <= candidate.available
                         /\ \A e \in db.entries : e.snapshot # candidate.ts

\* What waits for its outcomes has a baseline, and remembers the outcomes it has.
PendingInv ==
  /\ \A p \in pending : /\ \E e \in db.entries : e.snapshot = p.snapshot /\ e.ts = p.ts
                        /\ \A v \in db.evaluations : v.snapshot = p.snapshot => v.horizon \in p.done
  /\ \A p, q \in pending : p.snapshot = q.snapshot => p = q

ClockInv == \A i \in DOMAIN snapshots : snapshots[i].ts <= clock

RInv == RTypes /\ RecordsInv /\ DownInv /\ CandidateInv /\ PendingInv /\ ClockInv

Near(x) == \E q \in heard : x - q \in 0 .. FRESH

\* What an outcome may look at was heard: a baseline, a sample since one, and the
\* newest quote unless it is older than any of them.
HeardInv ==
  /\ quote # Nothing /\ quote >= clock - (FRESH + GAP) => quote \in heard
  /\ \A p \in pending : Near(p.ts)
  /\ \A x \in samples : x >= clock - 1 => Near(x)
  /\ \A x \in samples, p \in pending : x >= p.ts => Near(x)

-----------------------------------------------------------------------------
(* The records                                                              *)

\* A commit there is, is one.
LEMMA CommitType ==
  ASSUME NEW R, NEW s \in Seq(R), NEW i \in DOMAIN s
  PROVE  s[i] \in R
OBVIOUS

\* The first state keeps nothing.
LEMMA InitRInv == RInit => RInv
BY ResearchAssumption DEF RInit, RInv, RTypes, RecordsInv, Consistent, DownInv, CandidateInv, PendingInv,
   ClockInv, Empty, Snapshots, Entries, Evaluations

\* A snapshot that may be joined is as new as the one that waits.
LEMMA JoinedIsCurrent ==
  ASSUME RTypes, CandidateInv, NEW t \in Nat,
         candidate # Nothing, t >= candidate.available, t - candidate.ts <= MAXAGE
  PROVE  Joined(t) \in Nat /\ Joined(t) >= candidate.ts
<1> DEFINE xs == {r \in rows : r.ts <= t /\ r.available <= t /\ t - r.ts <= MAXAGE}
           S == {r.ts : r \in xs}
<1>1. candidate \in xs /\ xs \subseteq Snapshots
  BY DEF RTypes, CandidateInv, Snapshots
<1>2. S \in SUBSET Nat /\ candidate.ts \in S /\ \A x \in S : x <= t
  BY <1>1 DEF Snapshots
<1>3. Joined(t) = Max(S)
  BY <1>1 DEF Joined
<1>4. Max(S) \in S /\ \A x \in S : Max(S) >= x
  <2> HIDE DEF S
  <2> QED BY <1>2, MaxIsOne
<1> HIDE DEF S
<1> QED BY <1>2, <1>3, <1>4

LEMMA TockKeeps == RInv /\ Tock => RInv'
<1> SUFFICES ASSUME RInv, Tock PROVE RInv'
  OBVIOUS
<1>1. RTypes'
  BY DEF RInv, Tock, RTypes, memory
<1>2. ClockInv'
  <2>1. snapshots' = snapshots /\ clock' = clock + 1 /\ clock \in Nat
    BY DEF RInv, Tock, RTypes
  <2>2. ASSUME NEW i \in DOMAIN snapshots PROVE snapshots[i].ts \in Nat /\ snapshots[i].ts <= clock
    <3>1. snapshots[i] \in [ts : Nat, high : BOOLEAN]
      BY CommitType DEF RInv, RTypes
    <3> QED BY <3>1 DEF RInv, ClockInv
  <2> QED BY <2>1, <2>2 DEF ClockInv
<1> QED BY <1>1, <1>2 DEF RInv, Tock, memory, RecordsInv, Consistent, DownInv, CandidateInv, PendingInv

LEMMA BookKeeps ==
  ASSUME RInv, life = "run", NEW t \in Put, Book(t), UNCHANGED <<clock, snapshots, disk, life, starts>>
  PROVE  RInv'
<1>1. t \in Nat
  BY DEF Put
<1>2. RTypes'
  <2>1. heard' \subseteq Nat
    BY <1>1 DEF Book, Recent, RInv, RTypes
  <2>2. quote' \in Nat \cup {Nothing}
    BY <1>1 DEF Book, RInv, RTypes
  <2> QED BY <2>1, <2>2 DEF Book, RInv, RTypes
<1> QED BY <1>2 DEF RInv, Book, RecordsInv, Consistent, DownInv, CandidateInv, PendingInv, ClockInv

LEMMA BaselineKeeps ==
  ASSUME RInv, life = "run", NEW t \in Put, Baseline(t), UNCHANGED <<clock, snapshots, disk, life, starts>>
  PROVE  RInv'
<1> DEFINE e == [snapshot |-> candidate.ts, ts |-> t, available |-> candidate.available, vpd |-> Joined(t)]
           p == [snapshot |-> candidate.ts, ts |-> t, done |-> {}]
<1>1. t \in Nat
  BY DEF Put
<1>2. Joined(t) \in Nat /\ Joined(t) >= candidate.ts
  BY <1>1, JoinedIsCurrent DEF RInv, Baseline
<1>3. candidate \in Snapshots
  BY DEF Baseline, RInv, RTypes
<1>4. e \in Entries /\ p \in [snapshot : Nat, ts : Nat, done : SUBSET HORIZONS]
  BY <1>1, <1>2, <1>3 DEF Entries, Snapshots
<1>5. e.available <= e.ts /\ e.vpd >= e.snapshot /\ \E k \in db.known : k.ts = e.snapshot
  BY <1>2, <1>3 DEF Baseline, RInv, RecordsInv, CandidateInv
<1>6. \A f \in db.entries : f.snapshot # e.snapshot
  BY DEF Baseline, RInv, CandidateInv
<1>7. e.snapshot = p.snapshot /\ e.ts = p.ts /\ p.done = {}
  OBVIOUS
<1>8. pending' = pending \cup {p} /\ db' = [db EXCEPT !.entries = @ \cup {e}]
      /\ UNCHANGED <<last, rows, quote, samples, ticked, heard>> /\ candidate' = Nothing
  BY DEF Baseline
<1> HIDE DEF e, p
<1>9. db'.known = db.known /\ db'.entries = db.entries \cup {e} /\ db'.evaluations = db.evaluations
  BY <1>8 DEF RInv, RTypes
<1>10. RTypes'
  BY <1>4, <1>8, <1>9 DEF RInv, RTypes
<1>11. Consistent(db)'
  <2>1. Consistent(db)
    BY DEF RInv, RecordsInv
  <2> QED BY <2>1, <1>5, <1>6, <1>9 DEF Consistent
<1>12. RecordsInv'
  BY <1>8, <1>9, <1>11 DEF RInv, RecordsInv, Consistent
<1>13. PendingInv'
  <2>1. \A v \in db.evaluations : v.snapshot # p.snapshot
    BY <1>6, <1>7 DEF RInv, RecordsInv, Consistent
  <2>2. \A q \in pending : q.snapshot # p.snapshot
    BY <1>6, <1>7 DEF RInv, PendingInv
  <2> QED BY <1>7, <1>8, <1>9, <2>1, <2>2 DEF RInv, PendingInv
<1> QED BY <1>8, <1>10, <1>12, <1>13 DEF RInv, DownInv, CandidateInv, ClockInv

\* A snapshot that is new to the process has no record; nor has a candidate.
LEMMA AddKeeps ==
  ASSUME RInv, life = "run", NEW s \in [ts : Nat, high : BOOLEAN], s.ts <= clock, Add(s),
         UNCHANGED <<clock, disk, life, starts>>,
         snapshots' \in Seq([ts : Nat, high : BOOLEAN]), ClockInv'
  PROVE  RInv'
<1> DEFINE k == [ts |-> s.ts, available |-> clock]
<1>1. CASE Known(s)
  <2>1. UNCHANGED <<db, rows, candidate, quote, samples, ticked, pending, heard>>
    BY <1>1 DEF Add
  <2>2. RTypes'
    BY <2>1 DEF RInv, RTypes
  <2> QED BY <2>1, <2>2 DEF RInv, RecordsInv, Consistent, DownInv, CandidateInv, PendingInv
<1>2. CASE ~Known(s)
  <2>1. /\ rows' = rows \cup {k} /\ db' = [db EXCEPT !.known = rows']
        /\ candidate' \in {candidate, k}
        /\ UNCHANGED <<quote, samples, ticked, pending, heard>>
    BY <1>2 DEF Add
  <2>2. k \in Snapshots /\ k.ts = s.ts /\ k.ts <= k.available
    BY DEF Snapshots, RInv, RTypes
  <2> HIDE DEF k
  <2>3. db'.known = rows \cup {k} /\ db'.entries = db.entries /\ db'.evaluations = db.evaluations
    BY <2>1 DEF RInv, RTypes
  <2>4. RTypes'
    BY <2>1, <2>2 DEF RInv, RTypes
  <2>5. rows = db.known /\ Consistent(db)
    BY DEF RInv, RecordsInv
  <2>6. Consistent(db)'
    BY <2>3, <2>5 DEF Consistent
  <2>7. RecordsInv'
    BY <2>1, <2>3, <2>6 DEF RInv, RecordsInv, Consistent
  <2>8. \A e \in db.entries : e.snapshot # k.ts
    BY <1>2, <2>2, <2>5 DEF Known, Consistent
  <2>9. CandidateInv'
    BY <2>1, <2>2, <2>3, <2>8 DEF RInv, CandidateInv
  <2>10. PendingInv'
    BY <2>1, <2>3 DEF RInv, PendingInv
  <2> QED BY <2>4, <2>7, <2>9, <2>10 DEF RInv, DownInv
<1> QED BY <1>1, <1>2

LEMMA FetchKeeps ==
  ASSUME RInv, life = "run", Fetch, UNCHANGED <<clock, disk, life, starts>>
  PROVE  RInv'
<1> DEFINE Commit == [ts : Nat, high : BOOLEAN]
<1>0. snapshots \in Seq(Commit) /\ clock \in Nat /\ \A i \in DOMAIN snapshots : snapshots[i].ts <= clock
  BY DEF RInv, RTypes, ClockInv
<1>1. ASSUME NEW t \in Put, NEW high \in BOOLEAN,
             snapshots' = Append(snapshots, [ts |-> t, high |-> high]), Add([ts |-> t, high |-> high])
      PROVE  RInv'
  <2>1. t \in Nat /\ t <= clock
    BY <1>0 DEF Put
  <2>2. PICK s : s = [ts |-> t, high |-> high]
    OBVIOUS
  <2>3. s \in Commit /\ s.ts <= clock
    BY <2>1, <2>2
  <2>4. snapshots' \in Seq(Commit) /\ \A i \in DOMAIN snapshots' : i \in DOMAIN snapshots \/ snapshots'[i] = s
    BY <1>0, <1>1, <2>2, <2>3
  <2>5. \A i \in DOMAIN snapshots : snapshots'[i] = snapshots[i]
    BY <1>0, <1>1
  <2>6. ClockInv'
    BY <1>0, <2>3, <2>4, <2>5 DEF ClockInv
  <2> QED BY <1>1, <2>2, <2>3, <2>4, <2>6, AddKeeps
<1>2. ASSUME snapshots # <<>>, Add(snapshots[Len(snapshots)]), UNCHANGED snapshots
      PROVE  RInv'
  <2>1. Len(snapshots) \in DOMAIN snapshots
    BY <1>0, <1>2
  <2>2. snapshots[Len(snapshots)] \in Commit /\ snapshots[Len(snapshots)].ts <= clock
    BY <1>0, <2>1, CommitType
  <2>3. ClockInv' /\ snapshots' \in Seq(Commit)
    BY <1>0, <1>2 DEF ClockInv
  <2> QED BY <1>2, <2>2, <2>3, AddKeeps
<1> QED BY <1>1, <1>2 DEF Fetch

\* An outcome is recorded once: what is due was not recorded before, and is
\* remembered as done as long as anything of its baseline waits.
LEMMA TickKeeps ==
  ASSUME RInv, life = "run", Tick(clock), UNCHANGED <<clock, snapshots, disk, life, starts>>
  PROVE  RInv'
<1> DEFINE Record(p, h) == [snapshot |-> p.snapshot, ts |-> p.ts, horizon |-> h, at |-> clock]
           More(p) == [p EXCEPT !.done = @ \cup Due(p, clock)]
           Outcomes == UNION {{Record(p, h) : h \in Complete(p, clock)} : p \in pending}
<1>0. clock \in Nat /\ pending \subseteq [snapshot : Nat, ts : Nat, done : SUBSET HORIZONS]
  BY DEF RInv, RTypes
<1>1. \A p \in pending : Complete(p, clock) \subseteq Due(p, clock) /\ Due(p, clock) \subseteq HORIZONS \ p.done
  BY DEF Complete, Due
<1>2. \A v \in Outcomes : \E p \in pending : \E h \in Due(p, clock) : v = Record(p, h)
  BY <1>1
<1>3. \A q \in pending' : \E p \in pending : q = More(p)
  BY DEF Tick
<1>4. \A p \in pending : /\ More(p) \in [snapshot : Nat, ts : Nat, done : SUBSET HORIZONS]
                         /\ More(p).snapshot = p.snapshot /\ More(p).ts = p.ts
                         /\ More(p).done = p.done \cup Due(p, clock)
  BY <1>0, <1>1
<1>5. db' = [db EXCEPT !.evaluations = @ \cup Outcomes] /\ UNCHANGED <<last, rows, seen, candidate, quote, heard>>
  BY DEF Tick
<1>6. samples' \subseteq Nat /\ ticked' \in Nat
  BY <1>0 DEF Tick, Sampled, Recent, RInv, RTypes
<1>7. \A v \in Outcomes : \E p \in pending :
        /\ v \in Evaluations /\ v.snapshot = p.snapshot /\ v.ts = p.ts
        /\ v.at = clock /\ v.horizon \in Due(p, clock)
  <2>1. ASSUME NEW p \in pending, NEW h \in Due(p, clock)
        PROVE  Record(p, h) \in Evaluations
    BY <1>0, <1>1 DEF Evaluations
  <2> QED BY <1>2, <2>1
<1> HIDE DEF Outcomes, More
<1>8. db'.known = db.known /\ db'.entries = db.entries /\ db'.evaluations = db.evaluations \cup Outcomes
  BY <1>5 DEF RInv, RTypes
<1>9. RTypes'
  <2>1. pending' \subseteq [snapshot : Nat, ts : Nat, done : SUBSET HORIZONS]
    BY <1>3, <1>4
  <2>2. Outcomes \subseteq Evaluations
    BY <1>7
  <2> QED BY <1>5, <1>6, <2>1, <2>2 DEF RInv, RTypes
<1>10. Consistent(db)'
  <2>0. Consistent(db)
    BY DEF RInv, RecordsInv
  <2>1. ASSUME NEW v \in Outcomes PROVE \E e \in db.entries : e.snapshot = v.snapshot /\ e.ts = v.ts
    BY <1>7 DEF RInv, PendingInv
  <2>2. ASSUME NEW v \in Outcomes, NEW w \in db.evaluations, v.snapshot = w.snapshot, v.horizon = w.horizon
        PROVE  FALSE
    <3>1. PICK p \in pending : v.snapshot = p.snapshot /\ v.horizon \in Due(p, clock)
      BY <1>7
    <3>2. w.horizon \in p.done
      BY <2>2, <3>1 DEF RInv, PendingInv
    <3> QED BY <1>1, <2>2, <3>1, <3>2
  <2>3. ASSUME NEW v \in Outcomes, NEW w \in Outcomes, v.snapshot = w.snapshot, v.horizon = w.horizon
        PROVE  v = w
    <3>1. PICK p \in pending : v \in Evaluations /\ v.snapshot = p.snapshot /\ v.ts = p.ts /\ v.at = clock
      BY <1>7
    <3>2. PICK q \in pending : w \in Evaluations /\ w.snapshot = q.snapshot /\ w.ts = q.ts /\ w.at = clock
      BY <1>7
    <3>3. p = q
      BY <2>3, <3>1, <3>2 DEF RInv, PendingInv
    <3> QED BY <2>3, <3>1, <3>2, <3>3 DEF Evaluations
  <2> QED BY <1>8, <2>0, <2>1, <2>2, <2>3 DEF Consistent
<1>11. RecordsInv'
  BY <1>5, <1>8, <1>10 DEF RInv, RecordsInv, Consistent
<1>12. PendingInv'
  <2>1. ASSUME NEW q \in pending'
        PROVE  /\ \E e \in db'.entries : e.snapshot = q.snapshot /\ e.ts = q.ts
               /\ \A v \in db'.evaluations : v.snapshot = q.snapshot => v.horizon \in q.done
    <3>1. PICK p \in pending : q = More(p)
      BY <1>3
    <3>2. ASSUME NEW v \in Outcomes, v.snapshot = p.snapshot PROVE v.horizon \in Due(p, clock)
      <4>1. PICK r \in pending : v.snapshot = r.snapshot /\ v.horizon \in Due(r, clock)
        BY <1>7
      <4>2. r = p
        BY <3>2, <4>1 DEF RInv, PendingInv
      <4> QED BY <4>1, <4>2
    <3> QED BY <1>4, <1>8, <3>1, <3>2 DEF RInv, PendingInv
  <2>2. ASSUME NEW q \in pending', NEW r \in pending', q.snapshot = r.snapshot PROVE q = r
    BY <1>3, <1>4, <2>2 DEF RInv, PendingInv
  <2> QED BY <2>1, <2>2 DEF PendingInv
<1> QED BY <1>5, <1>8, <1>9, <1>11, <1>12 DEF RInv, DownInv, CandidateInv, ClockInv

LEMMA CommitsKeep == RInv /\ (Flush \/ Checkpoint) => RInv'
<1> SUFFICES ASSUME RInv, Flush \/ Checkpoint PROVE RInv'
  OBVIOUS
<1>1. /\ UNCHANGED <<clock, snapshots, db, rows, candidate, quote, samples, ticked, pending, heard>>
      /\ life # "down" /\ life' # "down"
  BY DEF Flush, Checkpoint, memory
<1>2. disk'.records \in {db, disk.records} /\ disk' = [records |-> disk'.records, seen |-> disk'.seen]
  <2>1. disk = [records |-> disk.records, seen |-> disk.seen]
    BY DEF RInv, RTypes
  <2> QED BY <2>1 DEF Flush, Checkpoint
<1>3. RTypes'
  BY <1>1, <1>2 DEF RInv, RTypes
<1>4. RecordsInv'
  BY <1>1, <1>2 DEF RInv, RecordsInv, Consistent
<1> QED BY <1>1, <1>3, <1>4 DEF RInv, DownInv, CandidateInv, PendingInv, ClockInv

LEMMA StartKeeps == RInv /\ Start => RInv'
<1> SUFFICES ASSUME RInv, Start PROVE RInv'
  OBVIOUS
<1>1. /\ UNCHANGED <<clock, snapshots, disk, candidate, quote, samples, ticked, pending, heard>>
      /\ life' = "run" /\ db' = disk.records /\ rows' = disk.records.known
      /\ candidate = Nothing /\ pending = {}
  BY DEF Start, RInv, DownInv
<1>2. RTypes'
  BY <1>1 DEF RInv, RTypes
<1> QED BY <1>1, <1>2 DEF RInv, RecordsInv, Consistent, DownInv, CandidateInv, PendingInv, ClockInv

\* What a process that is stopped or killed knew is gone; the records stay.
LEMMA EndsKeep == RInv /\ (Stop \/ Kill) => RInv'
<1> SUFFICES ASSUME RInv, Stop \/ Kill PROVE RInv'
  OBVIOUS
<1>1. UNCHANGED <<clock, snapshots>> /\ life' = "down" /\ Gone
  BY DEF Stop, Kill
<1>2. disk'.records \in {db, disk.records} /\ disk' = [records |-> disk'.records, seen |-> disk'.seen]
  BY DEF Stop, Kill, RInv, RTypes
<1>3. RTypes'
  BY <1>1, <1>2 DEF RInv, RTypes, Gone, Empty
<1>4. Consistent(db)' /\ Consistent(disk.records)'
  BY <1>1, <1>2 DEF Gone, Empty, RInv, RecordsInv, Consistent
<1> QED BY <1>1, <1>3, <1>4 DEF RInv, RecordsInv, DownInv, CandidateInv, PendingInv, ClockInv, Gone

LEMMA IdleKeeps == RInv /\ UNCHANGED rvars => RInv'
BY DEF rvars, memory, RInv, RTypes, RecordsInv, Consistent, DownInv, CandidateInv, PendingInv, ClockInv

LEMMA ProcessKeeps == RInv /\ Process => RInv'
<1> SUFFICES ASSUME RInv, Process PROVE RInv'
  OBVIOUS
<1>1. life = "run" /\ UNCHANGED <<clock, disk, life, starts>>
  BY DEF Process
<1>2. ASSUME NEW t \in Put, Book(t), UNCHANGED snapshots PROVE RInv'
  BY <1>1, <1>2, BookKeeps
<1>3. ASSUME NEW t \in Put, Baseline(t), UNCHANGED snapshots PROVE RInv'
  BY <1>1, <1>3, BaselineKeeps
<1>4. CASE Tick(clock) /\ UNCHANGED snapshots
  BY <1>1, <1>4, TickKeeps
<1>5. CASE Fetch
  BY <1>1, <1>5, FetchKeeps
<1> QED BY <1>2, <1>3, <1>4, <1>5 DEF Process

LEMMA NextRInv == RInv /\ [RNext]_rvars => RInv'
BY TockKeeps, ProcessKeeps, CommitsKeep, StartKeeps, EndsKeep, IdleKeeps DEF RNext

\* Whatever the process does and wherever it dies, the records fit together.
THEOREM RInvInvariant == RSpec => []RInv
BY InitRInv, NextRInv, PTL DEF RSpec

\* A snapshot has one baseline and one of each outcome (magi1/research.py:72).
THEOREM BaselinesOnce == RSpec => []BaselineOnce
<1>1. RInv => BaselineOnce
  <2> SUFFICES ASSUME RInv PROVE BaselineOnce
    OBVIOUS
  <2>1. PICK r \in {db, disk.records} :
          /\ db.entries \cup disk.records.entries = r.entries
          /\ db.evaluations \cup disk.records.evaluations = r.evaluations
    <3>1. CASE life = "down"
      BY <3>1 DEF RInv, DownInv, Empty
    <3>2. CASE life # "down"
      BY <3>2 DEF RInv, RecordsInv
    <3> QED BY <3>1, <3>2
  <2>2. Consistent(r)
    BY DEF RInv, RecordsInv
  <2>3. \A e \in r.entries : e.vpd # Nothing
    BY ResearchAssumption DEF RInv, RTypes, Entries
  <2> QED BY <2>1, <2>2, <2>3 DEF BaselineOnce, Consistent
<1> QED BY <1>1, RInvInvariant, PTL

-----------------------------------------------------------------------------
(* What was heard                                                           *)

\* What is no older than the present or a pending baseline, less ago, is kept.
LEMMA RecentKeeps ==
  ASSUME RTypes, NEW xs \in SUBSET Nat, NEW ago \in Nat
  PROVE  /\ Recent(xs, ago) \subseteq xs
         /\ \A x \in xs : x >= clock - ago => x \in Recent(xs, ago)
         /\ \A x \in xs, p \in pending : x >= p.ts - ago => x \in Recent(xs, ago)
<1> DEFINE begun == {p.ts : p \in pending} \cup {clock}
<1>1. begun \in SUBSET Nat /\ clock \in begun /\ \A p \in pending : p.ts \in begun
  BY DEF RTypes
<1>2. Recent(xs, ago) = {x \in xs : x >= Min(begun) - ago}
  BY DEF Recent
<1> HIDE DEF begun
<1>3. PICK m \in Nat : m = Min(begun) /\ \A b \in begun : m <= b
  BY <1>1, MinIsOne
<1>4. ASSUME NEW x \in xs, NEW b \in begun, x >= b - ago PROVE x >= m - ago
  <2>1. x \in Nat /\ b \in Nat /\ m <= b
    BY <1>1, <1>3
  <2> QED BY <1>4, <2>1
<1> QED BY <1>1, <1>2, <1>3, <1>4

\* A quote that is fresh enough for a baseline or a sample was heard.
LEMMA FreshIsNear ==
  ASSUME RTypes, HeardInv, NEW t \in Nat, t >= clock - 1, At(t)
  PROVE  Near(t)
<1>1. quote \in Nat /\ t - quote \in 0 .. FRESH /\ clock \in Nat
  BY DEF At, RTypes
<1>2. quote >= clock - (FRESH + GAP)
  BY <1>1, ResearchAssumption
<1>3. quote \in heard
  BY <1>2 DEF HeardInv, At
<1> QED BY <1>1, <1>3 DEF Near

LEMMA TockHears == RInv /\ HeardInv /\ Tock => HeardInv'
<1> SUFFICES ASSUME RInv, HeardInv, Tock PROVE HeardInv'
  OBVIOUS
<1>1. clock' = clock + 1 /\ clock \in Nat /\ UNCHANGED <<quote, heard, samples, pending>>
  BY DEF Tock, memory, RInv, RTypes
<1>2. samples \subseteq Nat /\ quote \in Nat \cup {Nothing}
  BY DEF RInv, RTypes
<1>3. quote # Nothing /\ quote >= clock' - (FRESH + GAP) => quote >= clock - (FRESH + GAP)
  BY <1>1, <1>2, ResearchAssumption
<1>4. \A x \in samples : x >= clock' - 1 => x >= clock - 1
  BY <1>1, <1>2
<1> QED BY <1>1, <1>3, <1>4 DEF HeardInv, Near

LEMMA BookHears ==
  ASSUME RInv, HeardInv, NEW t \in Put, Book(t), UNCHANGED clock
  PROVE  HeardInv'
<1> DEFINE ago == FRESH + GAP
<1>1. /\ clock \in Nat /\ t \in Nat /\ t >= clock - 1 /\ heard \cup {t} \in SUBSET Nat /\ samples \subseteq Nat
      /\ \A p \in pending : p.ts \in Nat
  BY DEF Put, RInv, RTypes
<1>2. ago \in Nat /\ FRESH \in Nat /\ FRESH + 1 <= ago
  BY ResearchAssumption
<1>3. heard' = Recent(heard \cup {t}, ago) /\ UNCHANGED <<samples, pending>>
      /\ quote' \in {quote, t}
  BY DEF Book
<1> HIDE DEF ago
<1>4. /\ \A x \in heard \cup {t} : x >= clock - ago => x \in heard'
      /\ \A x \in heard \cup {t}, p \in pending : x >= p.ts - ago => x \in heard'
  BY <1>1, <1>2, <1>3, RecentKeeps DEF RInv
<1>5. quote' # Nothing /\ quote' >= clock' - ago => quote' \in heard'
  <2>1. t >= clock - ago
    BY <1>1, <1>2
  <2>2. quote # Nothing /\ quote >= clock - ago => quote \in heard
    BY DEF HeardInv, ago
  <2> QED BY <1>3, <1>4, <2>1, <2>2
<1>6. ASSUME NEW p \in pending, NEW x \in Nat, x >= p.ts, Near(x) PROVE Near(x)'
  <2>1. PICK q \in heard : x - q \in 0 .. FRESH
    BY <1>6 DEF Near
  <2>2. q >= p.ts - ago
    BY <1>1, <1>2, <1>6, <2>1
  <2> QED BY <1>4, <2>1, <2>2 DEF Near
<1>7. ASSUME NEW x \in Nat, x >= clock - 1, Near(x) PROVE Near(x)'
  <2>1. PICK q \in heard : x - q \in 0 .. FRESH
    BY <1>7 DEF Near
  <2>2. q >= clock - ago
    BY <1>1, <1>2, <1>7, <2>1
  <2> QED BY <1>4, <2>1, <2>2 DEF Near
<1>8. \A p \in pending' : Near(p.ts)'
  <2>1. ASSUME NEW p \in pending PROVE Near(p.ts)'
    <3>1. p.ts \in Nat /\ p.ts >= p.ts /\ Near(p.ts)
      BY <1>1 DEF HeardInv
    <3>2. PICK x : x = p.ts
      OBVIOUS
    <3> QED BY <1>6, <3>1, <3>2
  <2>2. \A p \in pending : p.ts' = p.ts
    OBVIOUS
  <2> QED BY <1>3, <2>1
<1>9. \A x \in samples' : x >= clock' - 1 => Near(x)'
  BY <1>1, <1>3, <1>7 DEF HeardInv
<1>10. \A x \in samples', p \in pending' : x >= p.ts => Near(x)'
  BY <1>1, <1>3, <1>6 DEF HeardInv
<1> QED BY <1>5, <1>8, <1>9, <1>10 DEF HeardInv, ago

LEMMA BaselineHears ==
  ASSUME RInv, HeardInv, NEW t \in Put, Baseline(t), UNCHANGED clock
  PROVE  HeardInv'
<1> DEFINE p == [snapshot |-> candidate.ts, ts |-> t, done |-> {}]
<1>1. t \in Nat /\ t >= clock - 1 /\ clock \in Nat
  BY DEF Put, RInv, RTypes
<1>2. pending' = pending \cup {p} /\ UNCHANGED <<quote, samples, heard>> /\ At(t)
  BY DEF Baseline
<1>3. p.ts = t
  OBVIOUS
<1> HIDE DEF p
<1>4. Near(p.ts)
  BY <1>1, <1>2, <1>3, FreshIsNear DEF RInv
<1>5. \A x \in samples : x >= p.ts => x >= clock - 1
  BY <1>1, <1>3 DEF RInv, RTypes
<1> QED BY <1>2, <1>4, <1>5 DEF HeardInv, Near

\* A sample that counts is near a quote that was heard.
LEMMA SampledIsNear ==
  ASSUME RTypes, HeardInv, NEW x \in Sampled(clock)
  PROVE  /\ x \in Nat /\ (x >= clock - 1 => Near(x))
         /\ \A p \in pending : x >= p.ts => Near(x)
<1>1. clock \in Nat /\ samples \subseteq Nat
  BY DEF RTypes
<1>2. x \in samples \/ (x = clock /\ At(clock))
  <2>1. CASE At(clock)
    BY <1>1, <2>1, RecentKeeps DEF Sampled
  <2>2. CASE ~At(clock)
    BY <1>1, <2>2, RecentKeeps DEF Sampled
  <2> QED BY <2>1, <2>2
<1>3. CASE x \in samples
  BY <1>1, <1>3 DEF HeardInv
<1>4. CASE x = clock /\ At(clock)
  BY <1>1, <1>4, FreshIsNear
<1> QED BY <1>2, <1>3, <1>4

LEMMA TickHears == RInv /\ HeardInv /\ Tick(clock) /\ UNCHANGED clock => HeardInv'
<1> SUFFICES ASSUME RInv, HeardInv, Tick(clock), UNCHANGED clock PROVE HeardInv'
  OBVIOUS
<1>1. samples' = Sampled(clock) /\ UNCHANGED <<quote, heard>>
  BY DEF Tick
<1>2. \A q \in pending' : \E p \in pending : q.ts = p.ts
  BY DEF Tick, RInv, RTypes
<1>3. \A x \in samples' : (x >= clock - 1 => Near(x)) /\ \A p \in pending : x >= p.ts => Near(x)
  BY <1>1, SampledIsNear DEF RInv
<1> QED BY <1>1, <1>2, <1>3 DEF HeardInv, Near

LEMMA NextHeardInv == RInv /\ HeardInv /\ [RNext]_rvars => HeardInv'
<1> SUFFICES ASSUME RInv, HeardInv, [RNext]_rvars PROVE HeardInv'
  OBVIOUS
<1>1. CASE Tock
  BY <1>1, TockHears
<1>2. CASE Process
  <2>1. UNCHANGED clock
    BY <1>2 DEF Process
  <2>2. CASE Fetch
    BY <2>1, <2>2 DEF Fetch, Add, HeardInv, Near
  <2> QED BY <1>2, <2>1, <2>2, BookHears, BaselineHears, TickHears DEF Process
<1>3. CASE Stop \/ Kill
  BY <1>3, ResearchAssumption DEF Stop, Kill, Gone, HeardInv, Near
<1>4. CASE Flush \/ Checkpoint \/ Start \/ UNCHANGED rvars
  BY <1>4 DEF Flush, Checkpoint, Start, rvars, memory, HeardInv, Near
<1> QED BY <1>1, <1>2, <1>3, <1>4 DEF RNext

\* Samples without a hole between a baseline and its horizon leave no moment of
\* that time far from a sample.
LEMMA CoveredIsNear ==
  ASSUME NEW xs \in SUBSET Nat, NEW first \in xs, NEW end \in Nat, \A x \in xs : x <= end,
         Covered(xs, end), NEW t \in first .. end
  PROVE  \E a \in xs : t - a \in 0 .. GAP
<1> DEFINE B == {x \in xs : x <= t}
<1>1. t \in Nat /\ first \in B /\ B \in SUBSET Nat /\ \A x \in B : x <= t
  <2>1. first \in Nat /\ t \in Nat /\ first <= t
    OBVIOUS
  <2> QED BY <2>1
<1>2. PICK a \in B : \A x \in B : a >= x
  <2> HIDE DEF B
  <2> QED BY <1>1, MaxIsOne
<1>3. a \in xs /\ a \in Nat /\ a <= t
  BY <1>2
<1>4. CASE a = Max(xs)
  BY <1>3, <1>4, ResearchAssumption DEF Covered
<1>5. CASE a # Max(xs)
  <2>1. PICK b \in xs : b > a /\ b - a <= GAP
    BY <1>3, <1>5 DEF Covered
  <2>2. b \in Nat /\ b > t
    BY <1>2, <1>3, <2>1
  <2> QED BY <1>1, <1>3, <2>1, <2>2, ResearchAssumption
<1> QED BY <1>4, <1>5

LEMMA TickSees == RInv /\ HeardInv /\ Tick(clock) => OutcomesWereSeen
<1> SUFFICES ASSUME RInv, HeardInv, Tick(clock),
                    NEW e \in db'.evaluations \ (db.evaluations \cup disk.records.evaluations),
                    NEW t \in e.ts .. e.ts + e.horizon
             PROVE  \E q \in heard : t - q \in 0 .. FRESH + GAP
  BY DEF OutcomesWereSeen
<1>1. PICK p \in pending : \E h \in Complete(p, clock) :
        e = [snapshot |-> p.snapshot, ts |-> p.ts, horizon |-> h, at |-> clock]
  BY DEF Tick, RInv, RTypes
<1>2. PICK h \in Complete(p, clock) : e.ts = p.ts /\ e.horizon = h
  BY <1>1
<1> DEFINE xs == {p.ts} \cup {x \in Sampled(clock) : x \in p.ts + 1 .. p.ts + h}
<1>3. p.ts \in Nat /\ h \in Nat /\ Covered(xs, p.ts + h)
  BY ResearchAssumption DEF RInv, RTypes, Complete, Due
<1>4. xs \in SUBSET Nat /\ p.ts \in xs /\ \A x \in xs : x <= p.ts + h
  BY <1>3, SampledIsNear DEF RInv
<1>5. \A x \in xs : Near(x)
  BY <1>3, SampledIsNear DEF RInv, HeardInv
<1> HIDE DEF xs
<1>6. PICK a \in xs : t - a \in 0 .. GAP
  <2>1. t \in p.ts .. p.ts + h /\ p.ts + h \in Nat
    BY <1>2, <1>3
  <2> QED BY <1>3, <1>4, <2>1, CoveredIsNear
<1>7. PICK q \in heard : a - q \in 0 .. FRESH
  BY <1>5 DEF Near
<1>8. a \in Nat /\ q \in Nat /\ t \in Int
  BY <1>2, <1>3, <1>4 DEF RInv, RTypes
<1> QED BY <1>6, <1>7, <1>8, ResearchAssumption

\* An outcome rests on quotes that this process heard all along
\* (magi1/research.py:27, magi1/quality.py:47).
THEOREM OutcomesSeen == RSpec => OutcomesRestOnQuotes
<1>1. RInit => HeardInv
  BY ResearchAssumption DEF RInit, HeardInv, Near
<1>2. RInv /\ HeardInv /\ [RNext]_rvars => [OutcomesWereSeen]_rvars
  <2> SUFFICES ASSUME RInv, HeardInv, RNext PROVE OutcomesWereSeen
    OBVIOUS
  <2>1. ASSUME db'.evaluations \subseteq db.evaluations \cup disk.records.evaluations PROVE OutcomesWereSeen
    BY <2>1 DEF OutcomesWereSeen
  <2>2. CASE Tock \/ Flush \/ Checkpoint \/ Start
    BY <2>1, <2>2 DEF Tock, Flush, Checkpoint, Start, memory
  <2>3. CASE Stop \/ Kill
    BY <2>1, <2>3 DEF Stop, Kill, Gone, Empty
  <2>4. CASE Process
    <3>1. ASSUME NEW t \in Put, Book(t) \/ Baseline(t) PROVE OutcomesWereSeen
      BY <2>1, <3>1 DEF Book, Baseline, RInv, RTypes
    <3>2. CASE Fetch
      <4>1. db'.evaluations = db.evaluations
        BY <3>2 DEF Fetch, Add, RInv, RTypes
      <4> QED BY <2>1, <4>1
    <3> QED BY <2>4, <3>1, <3>2, TickSees DEF Process
  <2> QED BY <2>2, <2>3, <2>4 DEF RNext
<1> QED BY <1>1, <1>2, RInvInvariant, NextHeardInv, PTL DEF RSpec, OutcomesRestOnQuotes

\* The research record as a whole (magi1/research.py:72 and :27), for any
\* freshness, hole and horizons.
THEOREM ResearchHonest == RSpec => ResearchIsHonest
BY BaselinesOnce, OutcomesSeen, PTL DEF ResearchIsHonest

-----------------------------------------------------------------------------
(* RankLedger: what the rotation account promises can be paid.  A trade     *)
(* that waits claims its budget, a partial sale its proceeds; the offers of *)
(* a ranking are made one row after the other from what is not claimed yet. *)

Live(t) == t # Nil /\ t.status \in {"ENTRY_PENDING", "OPEN", "EXIT_PENDING"}
Act(tr) == {s \in Symbols : Live(tr[s])}
Tables == [Symbols -> Trades \cup {Nil}]

TradeInv(t) ==
  t # Nil => /\ t.status = "ENTRY_PENDING" => t.qty = 0 /\ t.cost = 0
             /\ t.status \in {"OPEN", "EXIT_PENDING"} => t.qty > 0 /\ t.cost = t.qty * Entry

LEMMA RankConstants ==
  /\ IsFiniteSet(Symbols) /\ Seed \in Nat /\ Slot \in Nat /\ MaxPositions \in Nat
  /\ Entry \in Nat \ {0} /\ Target \in Nat \ {0} /\ StopPrice \in Nat \ {0} /\ INTERVAL \in Nat \ {0}
  /\ TTL \in Nat /\ LATENCY \in Nat /\ AGE \in Nat /\ Nil \notin Trades /\ Nil \notin Rankings
BY RankAssumption

LEMMA ClaimType ==
  ASSUME NEW t \in Trades \cup {Nil}
  PROVE  Claim(t) \in Nat /\ Tied(t) \in Nat /\ (~Live(t) => Claim(t) = 0 /\ Tied(t) = 0)
BY DEF Claim, Tied, Live, Trades

LEMMA LiveCount ==
  ASSUME NEW tr
  PROVE  IsFiniteSet(Act(tr)) /\ Cardinality(Act(tr)) \in Nat
<1>1. Act(tr) \subseteq Symbols
  BY DEF Act
<1> QED BY <1>1, RankConstants, FS_Subset, FS_CardinalityType

\* What is claimed and what is tied up.
LEMMA ClaimAmounts ==
  ASSUME NEW tr \in Tables
  PROVE  /\ Spoken(tr) \in Nat /\ Invested(tr) \in Nat
         /\ \A s \in Symbols : Claim(tr[s]) <= Spoken(tr) /\ Tied(tr[s]) <= Invested(tr)
<1>1. \A s \in Symbols : Claim(tr[s]) \in Nat /\ Tied(tr[s]) \in Nat
  BY ClaimType DEF Tables
<1> DEFINE f == [s \in Symbols |-> Claim(tr[s])]
           g == [s \in Symbols |-> Tied(tr[s])]
<1>2. (\A s \in Symbols : f[s] \in Nat /\ f[s] = Claim(tr[s])) /\ (\A s \in Symbols : g[s] \in Nat /\ g[s] = Tied(tr[s]))
  BY <1>1
<1>3. Spoken(tr) = SumFunctionOnSet(f, Symbols) /\ Invested(tr) = SumFunctionOnSet(g, Symbols)
  BY DEF Spoken, Invested
<1> HIDE DEF f, g
<1>4. SumFunctionOnSet(f, Symbols) \in Nat /\ \A s \in Symbols : f[s] <= SumFunctionOnSet(f, Symbols)
  BY <1>2, RankConstants, SumNatural
<1>5. SumFunctionOnSet(g, Symbols) \in Nat /\ \A s \in Symbols : g[s] <= SumFunctionOnSet(g, Symbols)
  BY <1>2, RankConstants, SumNatural
<1> QED BY <1>2, <1>3, <1>4, <1>5

\* One trade changes.
LEMMA OneTrade ==
  ASSUME NEW tr \in Tables, NEW s \in Symbols, NEW new \in Trades
  PROVE  /\ [tr EXCEPT ![s] = new] \in Tables
         /\ Spoken([tr EXCEPT ![s] = new]) = Spoken(tr) - Claim(tr[s]) + Claim(new)
         /\ Invested([tr EXCEPT ![s] = new]) = Invested(tr) - Tied(tr[s]) + Tied(new)
<1> DEFINE w == [tr EXCEPT ![s] = new]
<1>1. w \in Tables /\ w[s] = new /\ \A x \in Symbols \ {s} : w[x] = tr[x]
  BY DEF Tables
<1> HIDE DEF w
<1>2. \A x \in Symbols : Claim(tr[x]) \in Nat /\ Tied(tr[x]) \in Nat /\ Claim(w[x]) \in Nat /\ Tied(w[x]) \in Nat
  BY <1>1, ClaimType DEF Tables
<1>3. Spoken(w) = Spoken(tr) - Claim(tr[s]) + Claim(new)
  <2> DEFINE f == [x \in Symbols |-> Claim(tr[x])]
             g == [x \in Symbols |-> Claim(w[x])]
  <2>1. f[s] = Claim(tr[s]) /\ g[s] = Claim(new) /\ Changed(f, g, Symbols, s)
    BY <1>1, <1>2 DEF Changed
  <2>2. Spoken(tr) = SumFunctionOnSet(f, Symbols) /\ Spoken(w) = SumFunctionOnSet(g, Symbols)
    BY DEF Spoken
  <2> HIDE DEF f, g
  <2> QED BY <2>1, <2>2, RankConstants, SumChange
<1>4. Invested(w) = Invested(tr) - Tied(tr[s]) + Tied(new)
  <2> DEFINE f == [x \in Symbols |-> Tied(tr[x])]
             g == [x \in Symbols |-> Tied(w[x])]
  <2>1. f[s] = Tied(tr[s]) /\ g[s] = Tied(new) /\ Changed(f, g, Symbols, s)
    BY <1>1, <1>2 DEF Changed
  <2>2. Invested(tr) = SumFunctionOnSet(f, Symbols) /\ Invested(w) = SumFunctionOnSet(g, Symbols)
    BY DEF Invested
  <2> HIDE DEF f, g
  <2> QED BY <2>1, <2>2, RankConstants, SumChange
<1> QED BY <1>1, <1>3, <1>4 DEF w

\* Every trade claims no more than before and ties up the same.
LEMMA AllTrades ==
  ASSUME NEW tr \in Tables, NEW w \in Tables,
         \A s \in Symbols : Claim(w[s]) <= Claim(tr[s]) /\ Tied(w[s]) = Tied(tr[s]) /\ (Live(w[s]) => Live(tr[s]))
  PROVE  Spoken(w) <= Spoken(tr) /\ Invested(w) = Invested(tr) /\ Cardinality(Act(w)) <= Cardinality(Act(tr))
<1>1. \A x \in Symbols : Claim(tr[x]) \in Nat /\ Tied(tr[x]) \in Nat /\ Claim(w[x]) \in Nat /\ Tied(w[x]) \in Nat
  BY ClaimType DEF Tables
<1>2. Spoken(w) <= Spoken(tr)
  <2> DEFINE f == [x \in Symbols |-> Claim(w[x])]
             g == [x \in Symbols |-> Claim(tr[x])]
  <2>1. \A x \in Symbols : f[x] \in Int /\ g[x] \in Int /\ f[x] <= g[x]
    BY <1>1
  <2>2. Spoken(w) = SumFunctionOnSet(f, Symbols) /\ Spoken(tr) = SumFunctionOnSet(g, Symbols)
    BY DEF Spoken
  <2> HIDE DEF f, g
  <2> QED BY <2>1, <2>2, RankConstants, SumAtMost
<1>3. Invested(w) = Invested(tr)
  <2> DEFINE f == [x \in Symbols |-> Tied(w[x])]
             g == [x \in Symbols |-> Tied(tr[x])]
  <2>1. \A x \in Symbols : f[x] = g[x]
    OBVIOUS
  <2>2. Invested(w) = SumFunctionOnSet(f, Symbols) /\ Invested(tr) = SumFunctionOnSet(g, Symbols)
    BY DEF Invested
  <2> HIDE DEF f, g
  <2> QED BY <2>1, <2>2, RankConstants, SumSame
<1>4. Cardinality(Act(w)) <= Cardinality(Act(tr))
  <2>1. Act(w) \subseteq Act(tr)
    BY DEF Act
  <2> QED BY <2>1, LiveCount, FS_Subset
<1> QED BY <1>2, <1>3, <1>4

-----------------------------------------------------------------------------
\* The offers of one ranking

Episodes == [entry : Nat, consumed : BOOLEAN]

Accs == [trade : Tables, members : [DOMAIN rank.members -> Episodes], done : BOOLEAN]

\* A trade that waits, of the episode of its coin.
Offered(s, t) ==
  /\ s \in DOMAIN rank.members /\ t # Nil /\ t.status = "ENTRY_PENDING"
  /\ t.id = <<control.generation, rank.members[s].entry>>

\* What holds after each row.
Offering(acc) ==
  /\ acc \in Accs
  /\ Spoken(acc.trade) <= cash /\ Cardinality(Act(acc.trade)) <= MaxPositions
  /\ \A s \in Symbols : /\ TradeInv(acc.trade[s]) /\ Tied(acc.trade[s]) = Tied(trade[s])
                        /\ acc.trade[s] = Nil => trade[s] = Nil
                        /\ acc.trade[s] = trade[s] \/ Offered(s, acc.trade[s])
  /\ ~funded => acc.trade = trade
  /\ \A s \in DOMAIN rank.members : acc.members[s].entry = rank.members[s].entry

LEMMA RowKeeps ==
  ASSUME NEW acc, Offering(acc), NEW s \in Symbols, s \in DOMAIN rank.members, cash \in Nat, moment \in Nat,
         control.generation \in Nat, rank.members[s].entry \in Nat
  PROVE  Offering(OfferRow(acc, s))
<1> DEFINE t == acc.trade[s]
           spent == [acc EXCEPT !.members[s].consumed = TRUE]
           stop == [acc EXCEPT !.done = TRUE]
           unclaimed == cash - Spoken(acc.trade)
           budget == IF unclaimed < Slot THEN unclaimed ELSE Slot
           new == NewTrade(s, budget)
           id == <<control.generation, rank.members[s].entry>>
<1>0. acc \in Accs /\ acc.trade \in Tables
  BY DEF Offering, Accs
<1>1. spent \in Accs /\ spent.trade = acc.trade
  BY <1>0 DEF Accs, Episodes
<1>2. stop \in Accs /\ stop.trade = acc.trade
  BY <1>0 DEF Accs
<1>3. Act(acc.trade) = {x \in Symbols : acc.trade[x] # Nil /\ acc.trade[x].status \in {"ENTRY_PENDING", "OPEN", "EXIT_PENDING"}}
  BY DEF Act, Live
<1>4. OfferRow(acc, s) =
        IF acc.done \/ acc.members[s].consumed THEN acc
        ELSE IF s \in Act(acc.trade) THEN spent
        ELSE IF Cardinality(Act(acc.trade)) >= MaxPositions \/ ~ funded \/ unclaimed <= 0 THEN stop
        ELSE IF t # Nil /\ t.id = id THEN spent
        ELSE [spent EXCEPT !.trade[s] = new]
  BY <1>3 DEF OfferRow, Promised
<1> HIDE DEF spent, stop
<1>5. Offering(spent) /\ Offering(stop)
  <2>1. \A x \in DOMAIN rank.members : spent.members[x].entry = acc.members[x].entry /\ stop.members[x] = acc.members[x]
    BY <1>0 DEF spent, stop, Accs, Episodes
  <2> QED BY <1>1, <1>2, <2>1 DEF Offering
<1>6. ASSUME s \notin Act(acc.trade), ~(Cardinality(Act(acc.trade)) >= MaxPositions \/ ~ funded \/ unclaimed <= 0)
      PROVE  Offering([spent EXCEPT !.trade[s] = new])
  <2> DEFINE w == [acc.trade EXCEPT ![s] = new]
             end == [spent EXCEPT !.trade[s] = new]
  <2>2. unclaimed \in Nat \ {0} /\ budget \in Nat /\ budget <= unclaimed
    BY <1>0, <1>6, RankConstants, ClaimAmounts DEF Offering
  <2>3. /\ new \in Trades /\ new # Nil /\ Claim(new) = budget /\ Tied(new) = 0
        /\ new.status = "ENTRY_PENDING" /\ new.qty = 0 /\ new.cost = 0 /\ new.id = id
    <3> HIDE DEF budget
    <3>1. /\ new \in [id : Nat \X Nat, status : {"ENTRY_PENDING"}, signal : Nat, session : {budget}, qty : {0}, cost : {0},
                      profitFrom : {Nil}, exitReady : {Nil}, lastBook : {Nil}, profitBook : {Nil}, checked : {Nil}]
      BY DEF NewTrade, Blank
    <3>2. new \in Trades
      BY <2>2, <3>1 DEF Trades
    <3>3. new.status = "ENTRY_PENDING" /\ new.qty = 0 /\ new.cost = 0 /\ new.session = budget
      BY <3>1
    <3>5. new.id = id
      BY DEF NewTrade, Blank
    <3> HIDE DEF new
    <3>4. new # Nil
      BY <3>2, RankConstants
    <3> QED BY <3>2, <3>3, <3>4, <3>5 DEF Claim, Tied
  <2> HIDE DEF new, budget
  <2>1. end \in Accs /\ end.trade = w /\ end.members = spent.members
    BY <1>0, <1>1, <2>3 DEF Accs, Tables
  <2> HIDE DEF end
  <2>4. t \in Trades \cup {Nil} /\ Claim(t) = 0 /\ Tied(t) = 0
    BY <1>6, ClaimType DEF Offering, Accs, Tables, Act
  <2>5. w \in Tables /\ Spoken(w) = Spoken(acc.trade) + budget /\ Invested(w) = Invested(acc.trade)
    <3>1. acc.trade \in Tables
      BY <1>0
    <3>2. Spoken(acc.trade) \in Nat /\ Invested(acc.trade) \in Nat
      BY <3>1, ClaimAmounts
    <3> QED BY <2>2, <2>3, <2>4, <3>1, <3>2, OneTrade
  <2>6. Spoken(w) <= cash
    BY <1>0, <2>2, <2>5, ClaimAmounts DEF Offering
  <2>7. Cardinality(Act(w)) <= MaxPositions
    <3>1. Act(w) \subseteq Act(acc.trade) \cup {s}
      BY <1>0 DEF Act, Tables
    <3>2. IsFiniteSet(Act(acc.trade)) /\ Cardinality(Act(acc.trade)) \in Nat
      BY LiveCount
    <3>3. IsFiniteSet(Act(acc.trade) \cup {s}) /\ Cardinality(Act(acc.trade) \cup {s}) = Cardinality(Act(acc.trade)) + 1
      BY <1>6, <3>2, FS_AddElement
    <3>4. Cardinality(Act(w)) <= Cardinality(Act(acc.trade)) + 1 /\ Cardinality(Act(w)) \in Nat
      BY <3>1, <3>3, FS_Subset, LiveCount
    <3> QED BY <1>6, <3>2, <3>4, RankConstants
  <2>8. ASSUME NEW x \in Symbols
        PROVE  /\ TradeInv(w[x]) /\ Tied(w[x]) = Tied(trade[x]) /\ (w[x] = Nil => trade[x] = Nil)
               /\ w[x] = trade[x] \/ Offered(x, w[x])
    <3>1. CASE x = s
      <4>1. w[x] = new
        BY <1>0, <3>1 DEF Tables
      <4>2. Tied(trade[s]) = 0
        BY <2>4 DEF Offering
      <4> QED BY <2>3, <3>1, <4>1, <4>2 DEF TradeInv, Offered
    <3>2. CASE x # s
      <4>1. w[x] = acc.trade[x]
        BY <1>0, <3>2 DEF Tables
      <4> QED BY <4>1 DEF Offering
    <3> QED BY <3>1, <3>2
  <2> HIDE DEF w
  <2>9. Offering(end)
    <3>1. \A x \in DOMAIN rank.members : end.members[x].entry = rank.members[x].entry
      BY <1>5, <2>1 DEF Offering
    <3> QED BY <1>6, <2>1, <2>6, <2>7, <2>8, <3>1 DEF Offering
  <2> QED BY <2>9 DEF end
<1> QED BY <1>4, <1>5, <1>6

\* OfferRank goes through the offers by FoldLeft: what it computes is the last of
\* the values that the offers before each position lead to.
RowResults(h, base, offers, D) ==
  h = [q \in SUBSET D |-> IF q = {} THEN base ELSE OfferRow(h[q \ {Max(q)}], offers[Max(q)])]

LEMMA OffersByRow ==
  ASSUME NEW base, NEW offers
  PROVE  FoldLeft(OfferRow, base, offers) = (CHOOSE h : RowResults(h, base, offers, DOMAIN offers))[DOMAIN offers]
BY DEF FoldLeft, MapThenFoldSet, RowResults

LEMMA MaxLess ==
  ASSUME NEW n \in Nat, NEW q \in SUBSET (1 .. n), q # {}
  PROVE  /\ Max(q) \in q /\ q \ {Max(q)} \in SUBSET (1 .. n)
         /\ IsFiniteSet(q) /\ Cardinality(q) \in Nat \ {0}
         /\ Cardinality(q \ {Max(q)}) = Cardinality(q) - 1
<1>0. IsFiniteSet(1 .. n)
  BY FS_Interval
<1>1. IsFiniteSet(q)
  BY <1>0, FS_Subset
<1>2. Max(q) \in q
  <2>1. q \in SUBSET Nat /\ \A x \in q : x <= n
    OBVIOUS
  <2> QED BY <2>1, MaxIsOne
<1>3. Cardinality(q) \in Nat /\ Cardinality(q) # 0
  BY <1>1, FS_CardinalityType, FS_EmptySet
<1> QED BY <1>1, <1>2, <1>3, FS_RemoveElement

LEMMA RowResultsExist ==
  ASSUME NEW n \in Nat, NEW base, NEW offers
  PROVE  \E h : RowResults(h, base, offers, 1 .. n)
<1> DEFINE D == 1 .. n
           Upto(k) == {q \in SUBSET D : Cardinality(q) <= k}
           Runner(h, k) == \A q \in Upto(k) :
             h[q] = IF q = {} THEN base ELSE OfferRow(h[q \ {Max(q)}], offers[Max(q)])
           P == {k \in Nat : \E h : Runner(h, k)}
<1>0. IsFiniteSet(D)
  BY FS_Interval
<1>1. 0 \in P
  <2>1. \A q \in Upto(0) : q = {}
    <3> SUFFICES ASSUME NEW q \in SUBSET D, Cardinality(q) <= 0 PROVE q = {}
      OBVIOUS
    <3>1. IsFiniteSet(q)
      BY <1>0, FS_Subset
    <3>2. Cardinality(q) \in Nat
      BY <3>1, FS_CardinalityType
    <3>3. Cardinality(q) = 0
      BY <3>2
    <3> QED BY <3>1, <3>3, FS_EmptySet
  <2>2. Runner([q \in {{}} |-> base], 0)
    BY <2>1
  <2> QED BY <2>2
<1>2. ASSUME NEW k \in P PROVE k + 1 \in P
  <2>1. PICK h : Runner(h, k)
    OBVIOUS
  <2> DEFINE next == [q \in Upto(k + 1) |->
                        IF q = {} THEN base ELSE OfferRow(h[q \ {Max(q)}], offers[Max(q)])]
  <2>2. \A q \in Upto(k + 1) : q # {} => q \ {Max(q)} \in Upto(k)
    <3> SUFFICES ASSUME NEW q \in SUBSET D, Cardinality(q) <= k + 1, q # {}
                 PROVE  q \ {Max(q)} \in Upto(k)
      OBVIOUS
    <3>1. k \in Nat
      OBVIOUS
    <3>2. /\ q \ {Max(q)} \in SUBSET D /\ Cardinality(q) \in Nat
          /\ Cardinality(q \ {Max(q)}) = Cardinality(q) - 1
      BY MaxLess
    <3> QED BY <3>1, <3>2
  <2>3. \A q \in Upto(k) : Cardinality(q) \in Int
    <3> SUFFICES ASSUME NEW q \in SUBSET D PROVE Cardinality(q) \in Int
      OBVIOUS
    <3>1. IsFiniteSet(q)
      BY <1>0, FS_Subset
    <3>2. Cardinality(q) \in Nat
      BY <3>1, FS_CardinalityType
    <3> QED BY <3>2
  <2>4. \A q \in Upto(k) : q \in Upto(k + 1)
    BY <2>3
  <2>5. \A q \in Upto(k) : next[q] = h[q]
    BY <2>1, <2>4
  <2>6. Runner(next, k + 1)
    BY <2>2, <2>5
  <2> HIDE DEF next
  <2>7. k + 1 \in Nat
    OBVIOUS
  <2> QED BY <2>6, <2>7
<1>3. P = Nat
  <2> HIDE DEF P
  <2> QED BY <1>1, <1>2, NatSetInduction DEF P
<1>4. Cardinality(D) \in Nat
  BY <1>0, FS_CardinalityType
<1>5. PICK h : Runner(h, Cardinality(D))
  BY <1>3, <1>4
<1>6. Upto(Cardinality(D)) = SUBSET D
  BY <1>0, FS_Subset
<1> DEFINE g == [q \in SUBSET D |-> h[q]]
<1>7. \A q \in SUBSET D : g[q] = IF q = {} THEN base ELSE OfferRow(g[q \ {Max(q)}], offers[Max(q)])
  BY <1>5, <1>6, MaxLess
<1>8. RowResults(g, base, offers, D)
  <2>1. g = [q \in SUBSET D |-> g[q]]
    OBVIOUS
  <2> HIDE DEF g
  <2> QED BY <1>7, <2>1 DEF RowResults
<1> QED BY <1>8

\* What holds before the first row and is kept by each holds after the last.
LEMMA OffersKeep ==
  ASSUME NEW base, Offering(base), NEW n \in Nat, NEW offers \in [1 .. n -> Symbols],
         \A i \in 1 .. n : offers[i] \in DOMAIN rank.members /\ rank.members[offers[i]].entry \in Nat,
         cash \in Nat, moment \in Nat, control.generation \in Nat
  PROVE  Offering(FoldLeft(OfferRow, base, offers))
<1> DEFINE D == 1 .. n
           h == CHOOSE g : RowResults(g, base, offers, D)
           P == {k \in Nat : \A q \in SUBSET D : Cardinality(q) = k => Offering(h[q])}
<1>1. FoldLeft(OfferRow, base, offers) = h[D]
  BY OffersByRow
<1>2. RowResults(h, base, offers, D)
  BY RowResultsExist
<1>3. IsFiniteSet(D) /\ Cardinality(D) \in Nat
  BY FS_Interval, FS_CardinalityType
<1> HIDE DEF h
<1>4. 0 \in P
  <2>1. \A q \in SUBSET D : Cardinality(q) = 0 => q = {}
    BY <1>3, FS_Subset, FS_EmptySet
  <2>2. h[{}] = base
    BY <1>2 DEF RowResults
  <2> QED BY <2>1, <2>2
<1>5. ASSUME NEW k \in P PROVE k + 1 \in P
  <2>0. k \in Nat
    OBVIOUS
  <2>2. \A q \in SUBSET D : Cardinality(q) = k => Offering(h[q])
    OBVIOUS
  <2>1. ASSUME NEW q \in SUBSET D, Cardinality(q) = k + 1 PROVE Offering(h[q])
    <3> HIDE DEF P
    <3>0. Cardinality(q) = k + 1
      BY <2>1
    <3>1. q # {}
      <4>1. Cardinality({}) = 0
        BY FS_EmptySet
      <4>2. k + 1 # 0
        BY <2>0
      <4> QED BY <3>0, <4>1, <4>2
    <3>2. Max(q) \in 1 .. n /\ q \ {Max(q)} \in SUBSET D /\ Cardinality(q \ {Max(q)}) = k
      <4>1. Max(q) \in q /\ q \ {Max(q)} \in SUBSET (1 .. n) /\ Cardinality(q \ {Max(q)}) = Cardinality(q) - 1
        BY <3>1, MaxLess
      <4>2. Cardinality(q \ {Max(q)}) = k
        BY <2>0, <3>0, <4>1
      <4>3. Max(q) \in 1 .. n
        BY <4>1
      <4> QED BY <4>1, <4>2, <4>3
    <3>3. Offering(h[q \ {Max(q)}])
      BY <2>2, <3>2
    <3>4. h[q] = OfferRow(h[q \ {Max(q)}], offers[Max(q)])
      BY <1>2, <3>1 DEF RowResults
    <3>5. /\ offers[Max(q)] \in Symbols /\ offers[Max(q)] \in DOMAIN rank.members
          /\ rank.members[offers[Max(q)]].entry \in Nat
      BY <3>2
    <3>6. Offering(OfferRow(h[q \ {Max(q)}], offers[Max(q)]))
      BY <3>3, <3>5, RowKeeps
    <3> QED BY <3>4, <3>6
  <2> QED BY <2>0, <2>1
<1>6. P = Nat
  <2> HIDE DEF P
  <2> QED BY <1>4, <1>5, NatSetInduction DEF P
<1>7. Offering(h[D])
  BY <1>3, <1>6
<1> QED BY <1>1, <1>7

-----------------------------------------------------------------------------
\* The invariant

RankTypes ==
  /\ moment \in Nat /\ stopped \in BOOLEAN
  /\ control \in [enabled : BOOLEAN, resumed : Nat, generation : Nat \ {0}]
  /\ launch \in [at : Nat, pending : BOOLEAN, generation : {1}]

RankShape(r) ==
  /\ r \in [slot : Nat, generation : Nat, saved : Nat, members : {r.members}]
  /\ DOMAIN r.members \subseteq Symbols /\ r.members \in [DOMAIN r.members -> Episodes]

RanksInv ==
  /\ rank # Nil => RankShape(rank)
  /\ scan # Nil => /\ scan \in [slot : Nat, generation : Nat, rows : {scan.rows}]
                   /\ scan.rows # Nil => RankShape(rank) /\ \E n \in Nat : scan.rows \in [1 .. n -> DOMAIN rank.members]

BookShape(b) == b.requested \in Nat /\ b.received \in Nat /\ b.top \in Nat /\ b.size \in Nat \ {0}

WorkerInv ==
  /\ worker \in [item : {worker.item}, asked : {worker.asked}, seen : {worker.seen}, book : {worker.book}]
  /\ worker.item # Nil => /\ worker.item \in Symbols \X (Nat \X Nat) /\ worker.asked \in Nat
                          /\ trade[worker.item[1]] # Nil
  /\ worker.book # Nil => worker.item # Nil /\ BookShape(worker.book)

\* What is claimed is there to spend, and what the account did adds up.
AccountInv ==
  /\ trade \in Tables /\ cash \in Nat /\ funded \in BOOLEAN /\ realized \in Int
  /\ \A s \in Symbols : TradeInv(trade[s])
  /\ cash + Invested(trade) = (IF funded THEN Seed ELSE 0) + realized
  /\ Spoken(trade) <= cash
  /\ Cardinality(Act(trade)) <= MaxPositions
  /\ ~funded => cash = 0 /\ \A s \in Symbols : trade[s] = Nil

NoWait(tr) == \A s \in Symbols : tr[s] # Nil => tr[s].status # "ENTRY_PENDING"

\* A stop is of a later generation than the timer's.
StopInv == stopped => ~ control.enabled /\ control.generation # 1 /\ NoWait(trade)

RankInv == RankTypes /\ RanksInv /\ WorkerInv /\ AccountInv /\ StopInv

LEMMA RankInitial == RankInit => RankInv
<1> SUFFICES ASSUME RankInit PROVE RankInv
  OBVIOUS
<1>1. RankTypes /\ RanksInv
  <2>1. moment \in Nat /\ stopped \in BOOLEAN /\ rank = Nil /\ scan = Nil
    BY DEF RankInit
  <2>2. control \in [enabled : BOOLEAN, resumed : Nat, generation : Nat \ {0}]
    BY DEF RankInit
  <2>3. launch \in [at : Nat, pending : BOOLEAN, generation : {1}]
    BY DEF RankInit
  <2> QED BY <2>1, <2>2, <2>3 DEF RankTypes, RanksInv
<1>2. WorkerInv
  BY DEF RankInit, WorkerInv, Idle
<1>3. trade \in Tables /\ \A s \in Symbols : trade[s] = Nil
  BY DEF RankInit, Tables
<1>4. AccountInv
  <2>1. \A s \in Symbols : Claim(trade[s]) = 0 /\ Tied(trade[s]) = 0
    BY <1>3 DEF Claim, Tied
  <2>2. Spoken(trade) = 0 /\ Invested(trade) = 0
    <3> DEFINE f == [s \in Symbols |-> Claim(trade[s])]
               g == [s \in Symbols |-> Tied(trade[s])]
    <3>1. (\A s \in Symbols : f[s] = 0) /\ (\A s \in Symbols : g[s] = 0)
      BY <2>1
    <3>2. Spoken(trade) = SumFunctionOnSet(f, Symbols) /\ Invested(trade) = SumFunctionOnSet(g, Symbols)
      BY DEF Spoken, Invested
    <3> HIDE DEF f, g
    <3>3. SumFunctionOnSet(f, Symbols) = Cardinality(Symbols) * 0
      BY <3>1, RankConstants, SumConstant
    <3>4. SumFunctionOnSet(g, Symbols) = Cardinality(Symbols) * 0
      BY <3>1, RankConstants, SumConstant
    <3>5. Cardinality(Symbols) \in Nat
      BY RankConstants, FS_CardinalityType
    <3> QED BY <3>2, <3>3, <3>4, <3>5
  <2>3. Act(trade) = {}
    BY <1>3 DEF Act, Live
  <2>4. Cardinality(Act(trade)) = 0
    BY <2>3, FS_EmptySet
  <2>5. cash = 0 /\ realized = 0 /\ ~funded /\ funded \in BOOLEAN
    BY DEF RankInit
  <2>7. cash + Invested(trade) = (IF funded THEN Seed ELSE 0) + realized
    BY <2>2, <2>5
  <2>6. \A s \in Symbols : TradeInv(trade[s])
    BY <1>3 DEF TradeInv
  <2>8. Spoken(trade) <= cash /\ Cardinality(Act(trade)) <= MaxPositions /\ cash \in Nat /\ realized \in Int
    BY <2>2, <2>4, <2>5, RankConstants
  <2> QED BY <1>3, <2>5, <2>6, <2>7, <2>8 DEF AccountInv
<1>5. StopInv
  BY DEF RankInit, StopInv
<1> QED BY <1>1, <1>2, <1>4, <1>5 DEF RankInv

-----------------------------------------------------------------------------
\* What becomes of a trade

LEMMA EndedFacts ==
  ASSUME NEW t \in Trades, NEW st \in {"SKIPPED", "CLOSED"}, NEW n, n = Ended(t, st)
  PROVE  /\ n \in Trades /\ n # Nil /\ TradeInv(n) /\ ~Live(n) /\ Claim(n) = 0 /\ Tied(n) = 0
         /\ n.status # "ENTRY_PENDING"
<1>1. n \in [id : Nat \X Nat, status : {"SKIPPED", "CLOSED"}, signal : {0}, session : {0}, qty : {0}, cost : {0},
             profitFrom : {Nil}, exitReady : {Nil}, lastBook : {Nil}, profitBook : {Nil}, checked : {Nil}]
  BY DEF Ended, Blank, Trades
<1>2. n \in Trades
  BY <1>1 DEF Trades
<1>3. n.status \in {"SKIPPED", "CLOSED"}
  BY <1>1
<1> QED BY <1>2, <1>3, RankConstants DEF TradeInv, Live, Claim, Tied

LEMMA RequestFacts ==
  ASSUME NEW t \in Trades, TradeInv(t), t.status \in {"ENTRY_PENDING", "OPEN"}, NEW ts \in Nat,
         NEW n, n = ExitRequested(t, ts)
  PROVE  /\ n \in Trades /\ n # Nil /\ TradeInv(n) /\ Claim(n) <= Claim(t) /\ Tied(n) = Tied(t) /\ Live(t)
         /\ n.status # "ENTRY_PENDING"
<1>0. t # Nil /\ Live(t) /\ Claim(t) \in Nat /\ Tied(t) \in Nat
  BY RankConstants, ClaimType DEF Live
<1>1. CASE t.qty > 0
  <2>1. n = [t EXCEPT !.status = "EXIT_PENDING", !.exitReady = ts, !.profitFrom = Nil]
    BY <1>1 DEF ExitRequested
  <2>2. n \in Trades /\ n.status = "EXIT_PENDING" /\ n.qty = t.qty /\ n.cost = t.cost /\ n.session = t.session
    BY <2>1 DEF Trades
  <2>3. t.status = "OPEN" /\ t.cost = t.qty * Entry
    BY <1>0, <1>1 DEF TradeInv
  <2>4. n # Nil
    BY <2>2, RankConstants
  <2>5. TradeInv(n)
    BY <1>1, <2>2, <2>3 DEF TradeInv
  <2>6. t.session \in Nat
    BY DEF Trades
  <2>7. Claim(n) = t.session /\ Claim(t) = t.session /\ Tied(n) = t.cost /\ Tied(t) = t.cost
    BY <1>0, <2>2, <2>3, <2>4 DEF Claim, Tied
  <2> QED BY <1>0, <2>2, <2>4, <2>5, <2>6, <2>7
<1>2. CASE ~(t.qty > 0)
  <2>1. n = Ended(t, "SKIPPED")
    BY <1>2 DEF ExitRequested
  <2>2. t.status = "ENTRY_PENDING"
    BY <1>0, <1>2 DEF TradeInv
  <2>3. Tied(t) = 0
    BY <2>2 DEF Tied
  <2> QED BY <1>0, <2>1, <2>3, EndedFacts
<1> QED BY <1>1, <1>2

LEMMA LotsLeft ==
  ASSUME NEW a \in Int, NEW b \in Int, NEW c \in Int
  PROVE  (a - b) * c = a * c - b * c
OBVIOUS

LEMMA SoldFacts ==
  ASSUME NEW t \in Trades, TradeInv(t), t.status \in {"OPEN", "EXIT_PENDING"}, NEW qty \in Nat, qty <= t.qty,
         NEW price \in Nat, NEW n, n = Sold(t, qty, price)
  PROVE  /\ n \in Trades /\ n # Nil /\ TradeInv(n) /\ Live(t)
         /\ Claim(n) <= Claim(t) + qty * price /\ Tied(n) = Tied(t) - qty * Entry
         /\ n.status # "ENTRY_PENDING"
<1> DEFINE rest == [t EXCEPT !.qty = @ - qty, !.cost = @ - qty * Entry, !.session = @ + qty * price]
<1>0. t # Nil /\ Live(t) /\ Claim(t) = t.session /\ Tied(t) = t.cost /\ t.cost = t.qty * Entry
      /\ t.session \in Nat /\ t.qty \in Nat /\ t.cost \in Nat
  BY RankConstants DEF Live, Claim, Tied, TradeInv, Trades
<1>1. qty * price \in Nat /\ qty * Entry \in Nat /\ t.qty - qty \in Nat /\ (t.qty - qty) * Entry \in Nat
      /\ (t.qty - qty) * Entry = t.cost - qty * Entry
  BY <1>0, RankConstants, LotsLeft
<1>2. /\ rest \in Trades /\ rest.status = t.status /\ rest.qty = t.qty - qty /\ rest.cost = t.cost - qty * Entry
      /\ rest.session = t.session + qty * price
  <2> DEFINE p == qty * price
             e == qty * Entry
  <2>1. t.session + p \in Nat /\ t.qty - qty \in Nat /\ t.cost - e \in Nat
    BY <1>0, <1>1
  <2>2. rest = [t EXCEPT !.qty = t.qty - qty, !.cost = t.cost - e, !.session = t.session + p]
    OBVIOUS
  <2> HIDE DEF p, e
  <2>3. /\ [t EXCEPT !.qty = t.qty - qty, !.cost = t.cost - e, !.session = t.session + p] \in Trades
        /\ [t EXCEPT !.qty = t.qty - qty, !.cost = t.cost - e, !.session = t.session + p].status = t.status
        /\ [t EXCEPT !.qty = t.qty - qty, !.cost = t.cost - e, !.session = t.session + p].qty = t.qty - qty
        /\ [t EXCEPT !.qty = t.qty - qty, !.cost = t.cost - e, !.session = t.session + p].cost = t.cost - e
        /\ [t EXCEPT !.qty = t.qty - qty, !.cost = t.cost - e, !.session = t.session + p].session = t.session + p
    BY <2>1 DEF Trades
  <2> QED BY <2>2, <2>3 DEF p, e
<1>3. n = IF rest.qty = 0 THEN Ended(t, "CLOSED") ELSE rest
  BY DEF Sold
<1> HIDE DEF rest
<1>4. CASE rest.qty = 0
  <2>1. Tied(t) = qty * Entry
    <3>2. t.qty - qty = 0
      BY <1>2, <1>4
    <3>1. t.qty = qty
      BY <1>0, <3>2
    <3> QED BY <1>0, <3>1
  <2> QED BY <1>0, <1>1, <1>3, <1>4, <2>1, EndedFacts
<1>5. CASE rest.qty # 0
  <2>1. n = rest /\ n # Nil
    BY <1>2, <1>3, <1>5, RankConstants
  <2>2. TradeInv(n)
    <3>1. n.qty > 0 /\ n.cost = n.qty * Entry
      BY <1>1, <1>2, <1>5, <2>1
    <3> QED BY <1>2, <2>1, <3>1 DEF TradeInv
  <2>3. Claim(n) = t.session + qty * price /\ Tied(n) = t.cost - qty * Entry
    BY <1>2, <2>1 DEF Claim, Tied
  <2> QED BY <1>0, <1>1, <1>2, <2>1, <2>2, <2>3
<1> QED BY <1>4, <1>5

LEMMA LiveBefore ==
  ASSUME NEW tr \in Tables, NEW w \in Tables, \A s \in Symbols : Live(w[s]) => Live(tr[s])
  PROVE  Cardinality(Act(w)) <= Cardinality(Act(tr))
<1>1. Act(w) \subseteq Act(tr)
  BY DEF Act
<1> QED BY <1>1, LiveCount, FS_Subset

\* One trade changes, and the cash with it.
LEMMA TradeStep ==
  ASSUME AccountInv, NEW s \in Symbols, trade[s] \in Trades, NEW new \in Trades, TradeInv(new), Live(trade[s]),
         trade' = [trade EXCEPT ![s] = new], funded' = funded, NEW d \in Int, NEW e \in Int,
         cash' = cash + d, realized' = realized + e, cash + d \in Nat,
         d + Tied(new) - Tied(trade[s]) = e, Claim(new) <= Claim(trade[s]) + d
  PROVE  AccountInv'
<1>1. trade \in Tables /\ cash \in Nat /\ realized \in Int /\ funded \in BOOLEAN
  BY DEF AccountInv
<1>2. /\ trade' \in Tables
      /\ Spoken(trade') = Spoken(trade) - Claim(trade[s]) + Claim(new)
      /\ Invested(trade') = Invested(trade) - Tied(trade[s]) + Tied(new)
  BY <1>1, OneTrade
<1>3. /\ Spoken(trade) \in Nat /\ Invested(trade) \in Nat /\ Spoken(trade') \in Nat /\ Invested(trade') \in Nat
      /\ Claim(trade[s]) \in Nat /\ Tied(trade[s]) \in Nat /\ Claim(new) \in Nat /\ Tied(new) \in Nat
      /\ Claim(trade[s]) <= Spoken(trade)
  BY <1>1, <1>2, ClaimAmounts, ClaimType
<1>4. cash' + Invested(trade') = (IF funded THEN Seed ELSE 0) + realized'
  <2>1. cash + Invested(trade) = (IF funded THEN Seed ELSE 0) + realized
    BY DEF AccountInv
  <2>2. (IF funded THEN Seed ELSE 0) \in Nat
    BY RankConstants
  <2> QED BY <1>1, <1>2, <1>3, <2>1, <2>2
<1>5. Spoken(trade') <= cash'
  <2>1. Spoken(trade) <= cash
    BY DEF AccountInv
  <2> QED BY <1>1, <1>2, <1>3, <2>1
<1>6. \A x \in Symbols : TradeInv(trade'[x]) /\ (Live(trade'[x]) => Live(trade[x]))
  BY <1>1 DEF AccountInv, Tables
<1>7. Cardinality(Act(trade')) <= MaxPositions
  <2>1. Cardinality(Act(trade')) <= Cardinality(Act(trade)) /\ Cardinality(Act(trade)) <= MaxPositions
    BY <1>1, <1>2, <1>6, LiveBefore DEF AccountInv
  <2> QED BY <2>1, LiveCount, RankConstants
<1>8. funded
  BY RankConstants DEF AccountInv
<1> QED BY <1>1, <1>2, <1>4, <1>5, <1>6, <1>7, <1>8 DEF AccountInv

LEMMA TradeAlone ==
  ASSUME AccountInv, NEW s \in Symbols, trade[s] \in Trades, NEW new \in Trades, TradeInv(new), Live(trade[s]),
         trade' = [trade EXCEPT ![s] = new], UNCHANGED <<cash, funded, realized>>,
         Tied(new) = Tied(trade[s]), Claim(new) <= Claim(trade[s])
  PROVE  AccountInv'
<1>1. cash \in Nat /\ realized \in Int /\ Tied(new) \in Nat /\ Claim(trade[s]) \in Nat
  BY ClaimType DEF AccountInv
<1>2. PICK d \in Int : d = 0 /\ cash' = cash + d /\ realized' = realized + d /\ cash + d \in Nat
                       /\ d + Tied(new) - Tied(trade[s]) = d /\ Claim(new) <= Claim(trade[s]) + d
  BY <1>1
<1> QED BY <1>2, TradeStep

\* Trades are given up, and the cash stays.
LEMMA TradesStep ==
  ASSUME AccountInv, trade' \in Tables, UNCHANGED <<cash, funded, realized>>,
         \A s \in Symbols : /\ TradeInv(trade'[s]) /\ (Live(trade'[s]) => Live(trade[s]))
                            /\ Claim(trade'[s]) <= Claim(trade[s]) /\ Tied(trade'[s]) = Tied(trade[s])
                            /\ trade[s] = Nil => trade'[s] = Nil
  PROVE  AccountInv'
<1>1. trade \in Tables /\ cash \in Nat /\ realized \in Int /\ funded \in BOOLEAN
  BY DEF AccountInv
<1>2. /\ Spoken(trade') <= Spoken(trade) /\ Invested(trade') = Invested(trade)
      /\ Cardinality(Act(trade')) <= Cardinality(Act(trade))
  BY <1>1, AllTrades
<1>3. Spoken(trade) \in Nat /\ Spoken(trade') \in Nat
  BY <1>1, ClaimAmounts
<1>4. Spoken(trade') <= cash'
  BY <1>1, <1>2, <1>3 DEF AccountInv
<1>5. Cardinality(Act(trade')) <= MaxPositions
  <2>1. Cardinality(Act(trade)) <= MaxPositions
    BY DEF AccountInv
  <2> QED BY <1>2, <2>1, LiveCount, RankConstants
<1> QED BY <1>1, <1>2, <1>4, <1>5 DEF AccountInv

LEMMA SameAccount ==
  ASSUME AccountInv, UNCHANGED <<trade, cash, funded, realized>>
  PROVE  AccountInv'
BY DEF AccountInv

-----------------------------------------------------------------------------
\* The steps that leave the trades alone

LEMMA ElapseKeeps == RankInv /\ Elapse => RankInv'
<1> SUFFICES ASSUME RankInv, Elapse PROVE RankInv'
  OBVIOUS
<1>1. moment' = moment + 1 /\ UNCHANGED <<control, launch, cash, funded, trade, rank, scan, worker, realized, stopped>>
  BY DEF Elapse
<1>2. RankTypes'
  BY <1>1 DEF RankInv, RankTypes
<1>3. RanksInv' /\ WorkerInv' /\ StopInv'
  BY <1>1 DEF RankInv, RanksInv, RankShape, WorkerInv, StopInv
<1> QED BY <1>1, <1>2, <1>3, SameAccount DEF RankInv

LEMMA SetType ==
  ASSUME RankTypes, NEW enabled \in BOOLEAN, NEW at \in Nat, Set(enabled, at)
  PROVE  /\ control' \in [enabled : BOOLEAN, resumed : Nat, generation : Nat \ {0}]
         /\ control'.enabled = enabled /\ control'.generation # 1
<1>1. control.generation + 1 \in Nat \ {0, 1} /\ control.resumed \in Nat
  BY DEF RankTypes
<1>2. (IF enabled THEN at ELSE control.resumed) \in Nat
  BY <1>1
<1>3. control' = [enabled |-> enabled, generation |-> control.generation + 1,
                  resumed |-> IF enabled THEN at ELSE control.resumed]
  BY DEF Set
<1>4. control'.enabled = enabled /\ control'.generation = control.generation + 1
  BY <1>3
<1> QED BY <1>1, <1>2, <1>3, <1>4

LEMMA ActivateKeeps == RankInv /\ ActivateDue => RankInv'
<1> SUFFICES ASSUME RankInv, ActivateDue PROVE RankInv'
  OBVIOUS
<1>1. /\ launch' = [launch EXCEPT !.pending = FALSE]
      /\ control' = control \/ (StillWanted(launch) /\ Set(TRUE, launch.at))
      /\ UNCHANGED <<moment, cash, funded, trade, rank, scan, worker, realized, stopped>>
  BY DEF ActivateDue
<1>2. RankTypes'
  <2>1. launch' \in [at : Nat, pending : BOOLEAN, generation : {1}] /\ launch.at \in Nat
    BY <1>1 DEF RankInv, RankTypes
  <2>2. control' \in [enabled : BOOLEAN, resumed : Nat, generation : Nat \ {0}]
    BY <1>1, <2>1, SetType DEF RankInv, RankTypes
  <2> QED BY <1>1, <2>1, <2>2 DEF RankInv, RankTypes
<1>3. StopInv'
  <2>1. stopped => ~StillWanted(launch)
    BY DEF StillWanted, RankInv, RankTypes, StopInv
  <2>2. stopped => control' = control
    BY <1>1, <2>1
  <2> QED BY <1>1, <2>2 DEF RankInv, StopInv
<1>4. RanksInv' /\ WorkerInv'
  BY <1>1 DEF RankInv, RanksInv, RankShape, WorkerInv
<1> QED BY <1>1, <1>2, <1>3, <1>4, SameAccount DEF RankInv

LEMMA ResumeKeeps == RankInv /\ Resume => RankInv'
<1> SUFFICES ASSUME RankInv, Resume PROVE RankInv'
  OBVIOUS
<1>1. /\ control' = control \/ Set(TRUE, moment)
      /\ stopped' = FALSE
      /\ UNCHANGED <<moment, launch, cash, funded, trade, rank, scan, worker, realized>>
  BY DEF Resume
<1>2. RankTypes'
  <2>1. control' \in [enabled : BOOLEAN, resumed : Nat, generation : Nat \ {0}]
    BY <1>1, SetType DEF RankInv, RankTypes
  <2>2. stopped' \in BOOLEAN /\ moment' \in Nat /\ launch' \in [at : Nat, pending : BOOLEAN, generation : {1}]
    BY <1>1 DEF RankInv, RankTypes
  <2> QED BY <2>1, <2>2 DEF RankTypes
<1>3. StopInv'
  BY <1>1 DEF StopInv
<1>4. RanksInv' /\ WorkerInv'
  BY <1>1 DEF RankInv, RanksInv, RankShape, WorkerInv
<1> QED BY <1>1, <1>2, <1>3, <1>4, SameAccount DEF RankInv

LEMMA SlotType == ASSUME NEW ts \in Nat PROVE SlotOf(ts) \in Nat
<1>1. ts \div INTERVAL \in Nat
  BY RankConstants
<1> DEFINE q == ts \div INTERVAL
<1>2. q \in Nat
  BY <1>1
<1>3. SlotOf(ts) = q * INTERVAL
  BY DEF SlotOf
<1> HIDE DEF q
<1> QED BY <1>2, <1>3, RankConstants

LEMMA ScanStartKeeps == RankInv /\ ScanStart => RankInv'
<1> SUFFICES ASSUME RankInv, ScanStart PROVE RankInv'
  OBVIOUS
<1>1. /\ scan' = [slot |-> SlotOf(moment), generation |-> control.generation, rows |-> Nil]
      /\ UNCHANGED <<moment, control, launch, cash, funded, trade, rank, worker, realized, stopped>>
  BY DEF ScanStart
<1>2. SlotOf(moment) \in Nat /\ control.generation \in Nat
  BY SlotType DEF RankInv, RankTypes
<1>3. scan' \in [slot : Nat, generation : Nat, rows : {scan'.rows}] /\ scan'.rows = Nil
  BY <1>1, <1>2
<1>4. RanksInv'
  BY <1>1, <1>3 DEF RankInv, RanksInv, RankShape
<1>5. RankTypes' /\ WorkerInv' /\ StopInv'
  BY <1>1 DEF RankInv, RankTypes, WorkerInv, StopInv
<1> QED BY <1>1, <1>4, <1>5, SameAccount DEF RankInv

LEMMA RankSaved ==
  ASSUME RankInv, scan # Nil, NEW n \in Nat, NEW offers \in [1 .. n -> Symbols], NEW r,
         r = [slot |-> scan.slot, generation |-> scan.generation, saved |-> moment,
              members |-> [s \in Range(offers) |-> Member(s)]]
  PROVE  /\ RankShape(r) /\ r # Nil /\ r.generation = scan.generation
         /\ DOMAIN r.members = Range(offers) /\ \A s \in Range(offers) : r.members[s] = Member(s)
         /\ offers \in [1 .. n -> DOMAIN r.members]
<1> DEFINE members == [s \in Range(offers) |-> Member(s)]
<1>0. scan \in [slot : Nat, generation : Nat, rows : {scan.rows}] /\ moment \in Nat
  BY DEF RankInv, RankTypes, RanksInv
<1>1. Range(offers) \subseteq Symbols /\ \A i \in 1 .. n : offers[i] \in Range(offers)
  BY DEF Range
<1>2. \A s \in Range(offers) : Member(s) \in Episodes
  BY <1>0 DEF Member, Episodes, RankInv, RanksInv, RankShape
<1>3. /\ members \in [Range(offers) -> Episodes] /\ DOMAIN members = Range(offers)
      /\ \A s \in Range(offers) : members[s] = Member(s)
  BY <1>2
<1>4. r = [slot |-> scan.slot, generation |-> scan.generation, saved |-> moment, members |-> members]
  OBVIOUS
<1> HIDE DEF members
<1>5. r.members = members /\ r.generation = scan.generation
  BY <1>4
<1>6. RankShape(r)
  BY <1>0, <1>1, <1>3, <1>4, <1>5 DEF RankShape
<1>7. r \in Rankings
  <2>1. members \in UNION {[ranked -> [entry : Nat, consumed : BOOLEAN]] : ranked \in SUBSET Symbols}
    BY <1>1, <1>3 DEF Episodes
  <2> QED BY <1>0, <1>4, <2>1 DEF Rankings
<1>8. offers \in [1 .. n -> DOMAIN r.members]
  BY <1>1, <1>3, <1>5
<1> QED BY <1>3, <1>5, <1>6, <1>7, <1>8, RankConstants

LEMMA RankOrNot ==
  ASSUME SaveRank
  PROVE  \/ /\ Saveable
            /\ \E n \in Nat : \E offers \in [1 .. n -> Symbols] :
                 /\ rank' = [slot |-> scan.slot, generation |-> scan.generation, saved |-> moment,
                             members |-> [s \in Range(offers) |-> Member(s)]]
                 /\ scan' = [scan EXCEPT !.rows = offers] /\ away' = away \cup (Symbols \ Range(offers))
         \/ scan' = Nil /\ UNCHANGED <<rank, away>>
<1>1. PICK offers \in {q \in UNION {[1 .. n -> Symbols] : n \in 1 .. Cardinality(Symbols)} : IsInjective(q)} :
        IF Saveable
          THEN /\ rank' = [slot |-> scan.slot, generation |-> scan.generation, saved |-> moment,
                           members |-> [s \in Range(offers) |-> Member(s)]]
               /\ scan' = [scan EXCEPT !.rows = offers] /\ away' = away \cup (Symbols \ Range(offers))
          ELSE scan' = Nil /\ UNCHANGED <<rank, away>>
  BY DEF SaveRank
<1>2. PICK n \in Nat : offers \in [1 .. n -> Symbols]
  <2>1. PICK n \in 1 .. Cardinality(Symbols) : offers \in [1 .. n -> Symbols]
    OBVIOUS
  <2> QED BY <2>1
<1> QED BY <1>1, <1>2

LEMMA SaveRankKeeps == RankInv /\ SaveRank => RankInv'
<1> SUFFICES ASSUME RankInv, SaveRank PROVE RankInv'
  OBVIOUS
<1>1. /\ scan # Nil /\ scan.rows = Nil
      /\ UNCHANGED <<moment, control, launch, cash, funded, trade, worker, realized, stopped>>
  BY DEF SaveRank
<1>2. RanksInv'
  <2>1. ASSUME NEW n \in Nat, NEW offers \in [1 .. n -> Symbols],
               rank' = [slot |-> scan.slot, generation |-> scan.generation, saved |-> moment,
                        members |-> [s \in Range(offers) |-> Member(s)]],
               scan' = [scan EXCEPT !.rows = offers]
        PROVE  RanksInv'
    <3>1. RankShape(rank') /\ offers \in [1 .. n -> DOMAIN rank'.members]
      BY <1>1, <2>1, RankSaved
    <3>2. scan \in [slot : Nat, generation : Nat, rows : {scan.rows}]
      BY <1>1 DEF RankInv, RanksInv
    <3>3. scan' \in [slot : Nat, generation : Nat, rows : {scan'.rows}] /\ scan'.rows = offers
      BY <2>1, <3>2
    <3> QED BY <3>1, <3>3 DEF RanksInv
  <2>2. CASE scan' = Nil /\ rank' = rank
    BY <2>2 DEF RankInv, RanksInv, RankShape
  <2> QED BY <2>1, <2>2, RankOrNot
<1>3. RankTypes' /\ WorkerInv' /\ StopInv'
  BY <1>1 DEF RankInv, RankTypes, WorkerInv, StopInv
<1> QED BY <1>1, <1>2, <1>3, SameAccount DEF RankInv

LEMMA PauseKeeps == RankInv /\ PauseAndClear => RankInv'
<1> SUFFICES ASSUME RankInv, PauseAndClear PROVE RankInv'
  OBVIOUS
<1>1. /\ Set(FALSE, moment) /\ stopped' = TRUE /\ trade' = [s \in Symbols |-> Cleared(s)]
      /\ UNCHANGED <<moment, launch, cash, funded, rank, scan, worker, realized>>
  BY DEF PauseAndClear
<1>2. /\ control' \in [enabled : BOOLEAN, resumed : Nat, generation : Nat \ {0}]
      /\ ~control'.enabled /\ control'.generation # 1
  BY <1>1, SetType DEF RankInv, RankTypes
<1>3. RankTypes'
  BY <1>1, <1>2 DEF RankInv, RankTypes
<1>4. trade \in Tables /\ moment \in Nat /\ \A s \in Symbols : TradeInv(trade[s])
  BY DEF RankInv, RankTypes, AccountInv
<1>5. ASSUME NEW s \in Symbols
      PROVE  /\ trade'[s] \in Trades \cup {Nil} /\ TradeInv(trade'[s]) /\ (Live(trade'[s]) => Live(trade[s]))
             /\ Claim(trade'[s]) <= Claim(trade[s]) /\ Tied(trade'[s]) = Tied(trade[s])
             /\ trade[s] = Nil <=> trade'[s] = Nil
             /\ trade'[s] # Nil => trade'[s].status # "ENTRY_PENDING"
  <2>0. trade'[s] = Cleared(s) /\ trade[s] \in Trades \cup {Nil} /\ TradeInv(trade[s])
    BY <1>1, <1>4 DEF Tables
  <2>1. CASE Has(s, {"ENTRY_PENDING", "OPEN"})
    <3>1. trade'[s] = ExitRequested(trade[s], moment) /\ trade[s] \in Trades /\ trade[s].status \in {"ENTRY_PENDING", "OPEN"}
      BY <2>0, <2>1 DEF Cleared, Has
    <3>2. trade[s] # Nil
      BY <3>1, RankConstants
    <3> QED BY <1>4, <2>0, <3>1, <3>2, RequestFacts
  <2>2. CASE ~Has(s, {"ENTRY_PENDING", "OPEN"})
    <3>1. trade'[s] = trade[s] /\ (trade[s] # Nil => trade[s].status # "ENTRY_PENDING")
      BY <2>0, <2>2 DEF Cleared, Has
    <3>2. Claim(trade[s]) \in Nat
      BY <2>0, ClaimType
    <3> QED BY <2>0, <3>1, <3>2
  <2> QED BY <2>1, <2>2
<1>6. trade' \in Tables
  <2>1. trade' = [s \in Symbols |-> trade'[s]]
    BY <1>1
  <2> QED BY <1>5, <2>1 DEF Tables
<1>7. AccountInv'
  BY <1>1, <1>5, <1>6, TradesStep DEF RankInv
<1>8. StopInv'
  BY <1>2, <1>5 DEF StopInv, NoWait
<1>9. WorkerInv'
  BY <1>1, <1>5 DEF RankInv, WorkerInv
<1>10. RanksInv'
  BY <1>1 DEF RankInv, RanksInv, RankShape
<1> QED BY <1>3, <1>7, <1>8, <1>9, <1>10 DEF RankInv

LEMMA AdvanceKeeps == RankInv /\ Advance => RankInv'
<1> SUFFICES ASSUME RankInv, Advance PROVE RankInv'
  OBVIOUS
<1>1. /\ trade' = [s \in Symbols |-> IF Expired(s) THEN Ended(trade[s], "SKIPPED") ELSE trade[s]]
      /\ UNCHANGED <<moment, control, launch, cash, funded, rank, scan, worker, realized, stopped>>
  BY DEF Advance
<1>4. trade \in Tables /\ \A s \in Symbols : TradeInv(trade[s])
  BY DEF RankInv, AccountInv
<1>5. ASSUME NEW s \in Symbols
      PROVE  /\ trade'[s] \in Trades \cup {Nil} /\ TradeInv(trade'[s]) /\ (Live(trade'[s]) => Live(trade[s]))
             /\ Claim(trade'[s]) <= Claim(trade[s]) /\ Tied(trade'[s]) = Tied(trade[s])
             /\ trade[s] = Nil <=> trade'[s] = Nil
             /\ trade'[s] # Nil /\ trade'[s].status = "ENTRY_PENDING" => trade'[s] = trade[s]
  <2>0. trade[s] \in Trades \cup {Nil} /\ TradeInv(trade[s]) /\ Claim(trade[s]) \in Nat
    BY <1>4, ClaimType DEF Tables
  <2>1. CASE Expired(s)
    <3>1. trade'[s] = Ended(trade[s], "SKIPPED") /\ trade[s] \in Trades /\ Tied(trade[s]) = 0 /\ trade[s] # Nil
      BY <1>1, <2>0, <2>1 DEF Expired, Has, Tied
    <3> QED BY <2>0, <3>1, EndedFacts
  <2>2. CASE ~Expired(s)
    <3>1. trade'[s] = trade[s]
      BY <1>1, <2>2
    <3> QED BY <2>0, <3>1
  <2> QED BY <2>1, <2>2
<1>6. trade' \in Tables
  <2>1. trade' = [s \in Symbols |-> trade'[s]]
    BY <1>1
  <2> QED BY <1>5, <2>1 DEF Tables
<1>7. AccountInv'
  BY <1>1, <1>5, <1>6, TradesStep DEF RankInv
<1>8. StopInv'
  BY <1>1, <1>5 DEF RankInv, StopInv, NoWait
<1>9. WorkerInv'
  BY <1>1, <1>5 DEF RankInv, WorkerInv
<1>10. RankTypes' /\ RanksInv'
  BY <1>1 DEF RankInv, RankTypes, RanksInv, RankShape
<1> QED BY <1>7, <1>8, <1>9, <1>10 DEF RankInv

LEMMA OffersMade ==
  ASSUME RankInv, scan # Nil, scan.rows # Nil
  PROVE  Offering(FoldLeft(OfferRow, [trade |-> trade, members |-> rank.members, done |-> FALSE], scan.rows))
<1> DEFINE base == [trade |-> trade, members |-> rank.members, done |-> FALSE]
<1>1. RankShape(rank) /\ \E n \in Nat : scan.rows \in [1 .. n -> DOMAIN rank.members]
  BY DEF RankInv, RanksInv
<1>2. PICK n \in Nat : scan.rows \in [1 .. n -> DOMAIN rank.members]
  BY <1>1
<1>3. /\ trade \in Tables /\ cash \in Nat /\ moment \in Nat /\ control.generation \in Nat
      /\ rank.members \in [DOMAIN rank.members -> Episodes] /\ DOMAIN rank.members \subseteq Symbols
  BY <1>1 DEF RankInv, AccountInv, RankTypes, RankShape
<1>4. Offering(base)
  <2>1. base \in Accs /\ base.trade = trade /\ base.members = rank.members
    BY <1>3 DEF Accs
  <2> HIDE DEF base
  <2> QED BY <2>1 DEF Offering, RankInv, AccountInv
<1>5. scan.rows \in [1 .. n -> Symbols]
  BY <1>2, <1>3
<1>6. \A i \in 1 .. n : scan.rows[i] \in DOMAIN rank.members /\ rank.members[scan.rows[i]].entry \in Nat
  BY <1>2, <1>3 DEF Episodes
<1> HIDE DEF base
<1>7. Offering(FoldLeft(OfferRow, base, scan.rows))
  BY <1>2, <1>3, <1>4, <1>5, <1>6, OffersKeep
<1> QED BY <1>7 DEF base

LEMMA OfferRankKeeps == RankInv /\ OfferRank => RankInv'
<1> SUFFICES ASSUME RankInv, OfferRank PROVE RankInv'
  OBVIOUS
<1> DEFINE end == FoldLeft(OfferRow, [trade |-> trade, members |-> rank.members, done |-> FALSE], scan.rows)
<1>1. /\ scan # Nil /\ scan.rows # Nil /\ scan' = Nil
      /\ \/ control.enabled /\ trade' = end.trade /\ rank' = [rank EXCEPT !.members = end.members]
         \/ trade' = trade /\ rank' = rank
      /\ UNCHANGED <<moment, control, launch, cash, funded, worker, realized, stopped>>
  BY DEF OfferRank
<1>2. RankTypes'
  BY <1>1 DEF RankInv, RankTypes
<1>3. ASSUME trade' = trade, rank' = rank PROVE RankInv'
  BY <1>1, <1>2, <1>3, SameAccount DEF RankInv, RanksInv, RankShape, WorkerInv, StopInv
<1>4. ASSUME control.enabled, trade' = end.trade, rank' = [rank EXCEPT !.members = end.members] PROVE RankInv'
  <2>1. RankShape(rank)
    BY <1>1 DEF RankInv, RanksInv
  <2>7. Offering(end)
    BY <1>1, OffersMade
  <2> HIDE DEF end
  <2>8. end \in Accs /\ end.trade \in Tables /\ end.members \in [DOMAIN rank.members -> Episodes]
    BY <2>7 DEF Offering, Accs
  <2>9. AccountInv'
    <3>1. trade' \in Tables /\ cash' \in Nat /\ funded' \in BOOLEAN /\ realized' \in Int
      BY <1>1, <1>4, <2>8 DEF RankInv, AccountInv
    <3>2. \A s \in Symbols : TradeInv(trade'[s])
      BY <1>4, <2>7 DEF Offering
    <3>3. Invested(trade') = Invested(trade)
      <4> DEFINE f == [x \in Symbols |-> Tied(trade'[x])]
                 g == [x \in Symbols |-> Tied(trade[x])]
      <4>1. \A x \in Symbols : f[x] = g[x]
        BY <1>4, <2>7 DEF Offering
      <4>2. Invested(trade') = SumFunctionOnSet(f, Symbols) /\ Invested(trade) = SumFunctionOnSet(g, Symbols)
        BY DEF Invested
      <4> HIDE DEF f, g
      <4> QED BY <4>1, <4>2, RankConstants, SumSame
    <3>4. Spoken(trade') <= cash' /\ Cardinality(Act(trade')) <= MaxPositions
      BY <1>1, <1>4, <2>7 DEF Offering
    <3>5. ~funded' => cash' = 0 /\ \A s \in Symbols : trade'[s] = Nil
      BY <1>1, <1>4, <2>7 DEF Offering, RankInv, AccountInv
    <3> QED BY <1>1, <3>1, <3>2, <3>3, <3>4, <3>5 DEF RankInv, AccountInv
  <2>10. RanksInv'
    <3>1. RankShape(rank')
      BY <1>4, <2>1, <2>8 DEF RankShape
    <3> QED BY <1>1, <3>1 DEF RanksInv
  <2>11. WorkerInv'
    <3>1. \A s \in Symbols : trade[s] # Nil => trade'[s] # Nil
      BY <1>4, <2>7 DEF Offering
    <3> QED BY <1>1, <3>1 DEF RankInv, WorkerInv
  <2>12. StopInv'
    BY <1>1, <1>4 DEF RankInv, StopInv
  <2> QED BY <1>2, <2>9, <2>10, <2>11, <2>12 DEF RankInv
<1> QED BY <1>1, <1>3, <1>4

-----------------------------------------------------------------------------
\* The worker of the venue

LEMMA FundKeeps == RankInv /\ Fund => RankInv'
<1> SUFFICES ASSUME RankInv, Fund PROVE RankInv'
  OBVIOUS
<1>1. /\ ~funded /\ funded' /\ funded' \in BOOLEAN /\ cash' = Seed
      /\ UNCHANGED <<moment, control, launch, trade, rank, scan, worker, realized, stopped>>
  BY DEF Fund
<1>2. AccountInv'
  <2>1. trade \in Tables /\ realized \in Int /\ cash \in Nat /\ \A s \in Symbols : trade[s] = Nil
    BY <1>1 DEF RankInv, AccountInv
  <2>2. Spoken(trade) = 0 /\ Invested(trade) = 0
    <3> DEFINE f == [s \in Symbols |-> Claim(trade[s])]
               g == [s \in Symbols |-> Tied(trade[s])]
    <3>1. (\A s \in Symbols : f[s] = 0) /\ (\A s \in Symbols : g[s] = 0)
      BY <2>1 DEF Claim, Tied
    <3>2. Spoken(trade) = SumFunctionOnSet(f, Symbols) /\ Invested(trade) = SumFunctionOnSet(g, Symbols)
      BY DEF Spoken, Invested
    <3> HIDE DEF f, g
    <3>3. SumFunctionOnSet(f, Symbols) = Cardinality(Symbols) * 0
      BY <3>1, RankConstants, SumConstant
    <3>4. SumFunctionOnSet(g, Symbols) = Cardinality(Symbols) * 0
      BY <3>1, RankConstants, SumConstant
    <3>5. Cardinality(Symbols) \in Nat
      BY RankConstants, FS_CardinalityType
    <3> QED BY <3>2, <3>3, <3>4, <3>5
  <2>3. cash = realized /\ cash = 0
    BY <1>1, <2>1, <2>2 DEF RankInv, AccountInv
  <2> QED BY <1>1, <2>1, <2>2, <2>3, RankConstants DEF RankInv, AccountInv
<1>3. RankTypes' /\ RanksInv' /\ WorkerInv' /\ StopInv'
  BY <1>1 DEF RankInv, RankTypes, RanksInv, RankShape, WorkerInv, StopInv
<1> QED BY <1>2, <1>3 DEF RankInv

LEMMA TakeKeeps == \A s \in Symbols : RankInv /\ Take(s) => RankInv'
<1> SUFFICES ASSUME NEW s \in Symbols, RankInv, Take(s) PROVE RankInv'
  OBVIOUS
<1>1. /\ s \in Active
      /\ worker' = [Idle EXCEPT !.item = <<s, trade[s].id>>, !.asked = moment, !.seen = trade[s].status]
      /\ UNCHANGED <<moment, control, launch, cash, funded, trade, rank, scan, realized, stopped>>
  BY DEF Take
<1>2. WorkerInv'
  <2>1. trade[s] # Nil /\ trade[s] \in Trades /\ moment \in Nat
    BY <1>1 DEF Active, Pending, Holding, Has, RankInv, RankTypes, AccountInv, Tables
  <2>2. trade[s].id \in Nat \X Nat
    BY <2>1 DEF Trades
  <2>3. worker' = [item |-> <<s, trade[s].id>>, asked |-> moment, seen |-> trade[s].status, book |-> Nil]
    BY <1>1 DEF Idle
  <2>4. <<s, trade[s].id>>[1] = s /\ <<s, trade[s].id>> \in Symbols \X (Nat \X Nat)
    BY <2>2
  <2>5. worker'.item = <<s, trade[s].id>> /\ worker'.asked = moment /\ worker'.book = Nil
    BY <2>3
  <2>6. worker' \in [item : {worker'.item}, asked : {worker'.asked}, seen : {worker'.seen}, book : {worker'.book}]
    BY <2>3
  <2> QED BY <1>1, <2>1, <2>4, <2>5, <2>6 DEF WorkerInv
<1>3. RankTypes' /\ RanksInv' /\ StopInv'
  BY <1>1 DEF RankInv, RankTypes, RanksInv, RankShape, StopInv
<1> QED BY <1>1, <1>2, <1>3, SameAccount DEF RankInv

LEMMA WorkerIdles ==
  ASSUME RankInv, worker' = Idle, scan' = scan \/ scan' = Nil,
         UNCHANGED <<moment, control, launch, cash, funded, trade, rank, realized, stopped>>
  PROVE  RankInv'
<1>1. WorkerInv'
  BY DEF WorkerInv, Idle
<1>2. RankTypes' /\ RanksInv' /\ StopInv'
  BY DEF RankInv, RankTypes, RanksInv, RankShape, StopInv
<1> QED BY <1>1, <1>2, SameAccount DEF RankInv

LEMMA MinOfTwo ==
  ASSUME NEW a \in Nat, NEW b \in Nat
  PROVE  Min({a, b}) \in Nat /\ Min({a, b}) <= a /\ Min({a, b}) <= b
<1>1. {a, b} \in SUBSET Nat /\ {a, b} # {} /\ a \in {a, b} /\ b \in {a, b}
  OBVIOUS
<1>2. Min({a, b}) \in {a, b} /\ \A x \in {a, b} : Min({a, b}) <= x
  BY <1>1, MinIsOne
<1> QED BY <1>1, <1>2

LEMMA TimesAtMost ==
  ASSUME NEW a \in Nat, NEW b \in Nat, NEW c \in Nat, a <= b
  PROVE  a * c <= b * c
<1>1. b * c = a * c + (b - a) * c
  OBVIOUS
<1>2. b - a \in Nat
  OBVIOUS
<1>3. (b - a) * c \in Nat /\ a * c \in Nat /\ b * c \in Nat
  BY <1>2
<1> QED BY <1>1, <1>3

\* No trade is forgotten, and none waits that did not.
TradesKept ==
  \A x \in Symbols : /\ trade[x] # Nil => trade'[x] # Nil
                     /\ (trade'[x] # Nil /\ trade'[x].status = "ENTRY_PENDING") => trade'[x] = trade[x]

LEMMA SameTrades == UNCHANGED trade => TradesKept
BY DEF TradesKept

LEMMA OneTradeKept ==
  ASSUME AccountInv, NEW s \in Symbols, NEW new, new # Nil, new.status # "ENTRY_PENDING", trade' = [trade EXCEPT ![s] = new]
  PROVE  TradesKept
<1>1. \A x \in Symbols : trade'[x] = IF x = s THEN new ELSE trade[x]
  BY DEF AccountInv, Tables
<1> QED BY <1>1 DEF TradesKept

\* A trade sells what the book takes of it.
LEMMA SoldStep ==
  ASSUME AccountInv, NEW s \in Symbols, trade[s] \in Trades, NEW t \in Trades,
         t.status = trade[s].status, t.qty = trade[s].qty, t.cost = trade[s].cost, t.session = trade[s].session,
         t.status \in {"OPEN", "EXIT_PENDING"}, NEW size \in Nat, NEW price \in Nat,
         NEW qty, qty = Min({t.qty, size}), trade' = [trade EXCEPT ![s] = Sold(t, qty, price)],
         Proceed(s, qty, price), funded' = funded
  PROVE  AccountInv' /\ TradesKept
<1>1. t.qty \in Nat /\ TradeInv(trade[s]) /\ trade[s] # Nil /\ t # Nil
  BY RankConstants DEF Trades, AccountInv
<1>2. TradeInv(t) /\ Claim(t) = Claim(trade[s]) /\ Tied(t) = Tied(trade[s])
  BY <1>1 DEF TradeInv, Claim, Tied
<1>3. qty \in Nat /\ qty <= t.qty
  BY <1>1, MinOfTwo
<1>4. PICK new : new = Sold(t, qty, price)
  OBVIOUS
<1>5. /\ new \in Trades /\ new # Nil /\ TradeInv(new) /\ Live(t)
      /\ Claim(new) <= Claim(t) + qty * price /\ Tied(new) = Tied(t) - qty * Entry
      /\ new.status # "ENTRY_PENDING"
  BY <1>2, <1>3, <1>4, SoldFacts
<1>6. Live(trade[s])
  BY <1>1 DEF Live
<1> DEFINE d == qty * price
           c == qty * Entry
           e == qty * (price - Entry)
<1>7. d \in Nat /\ c \in Nat /\ e = d - c /\ e \in Int
  BY <1>3, RankConstants
<1>8. cash' = cash + d /\ realized' = realized + e /\ cash \in Nat
  BY DEF Proceed, AccountInv
<1>9. Claim(new) <= Claim(trade[s]) + d /\ Tied(new) = Tied(trade[s]) - c /\ Tied(trade[s]) \in Nat
  BY <1>2, <1>5, ClaimType
<1> HIDE DEF d, c, e
<1>10. cash + d \in Nat /\ d + Tied(new) - Tied(trade[s]) = e
  BY <1>7, <1>8, <1>9
<1>11. AccountInv'
  <2>1. trade' = [trade EXCEPT ![s] = new] /\ d \in Int /\ e \in Int
    BY <1>4, <1>7
  <2> HIDE DEF Proceed
  <2> QED BY <1>5, <1>6, <1>8, <1>9, <1>10, <2>1, TradeStep
<1>12. TradesKept
  BY <1>4, <1>5, OneTradeKept
<1> QED BY <1>11, <1>12

LEMMA EnterKeeps ==
  ASSUME AccountInv, NEW s \in Symbols, trade[s] \in Trades, moment \in Nat, NEW b, BookShape(b), Enter(s, b),
         UNCHANGED <<funded, realized>>
  PROVE  AccountInv' /\ TradesKept
<1> DEFINE t == trade[s]
           qty == LotsFor(b, t)
<1>1. t # Nil /\ TradeInv(t) /\ t.session \in Nat /\ cash \in Nat /\ realized \in Int
  BY RankConstants DEF Trades, AccountInv
<1>2. CASE UNCHANGED <<trade, cash>>
  BY <1>2, SameAccount, SameTrades
<1>3. CASE t.status = "ENTRY_PENDING" /\ trade' = [trade EXCEPT ![s] = Ended(t, "SKIPPED")] /\ UNCHANGED cash
  <2>1. PICK new : new = Ended(t, "SKIPPED")
    OBVIOUS
  <2>2. new \in Trades /\ new # Nil /\ TradeInv(new) /\ Claim(new) = 0 /\ Tied(new) = 0 /\ new.status # "ENTRY_PENDING"
    BY <2>1, EndedFacts
  <2>3. Live(t) /\ Tied(t) = 0 /\ Claim(t) \in Nat
    BY <1>1, <1>3, ClaimType DEF Live, Tied
  <2>4. AccountInv'
    <3>1. /\ trade' = [trade EXCEPT ![s] = new] /\ UNCHANGED <<cash, realized>>
          /\ Tied(new) = Tied(trade[s]) /\ Claim(new) <= Claim(trade[s])
      BY <1>1, <1>3, <2>1, <2>2, <2>3
    <3> QED BY <2>2, <2>3, <3>1, TradeAlone
  <2> QED BY <1>3, <2>1, <2>2, <2>4, OneTradeKept
<1>4. CASE /\ t.status = "ENTRY_PENDING" /\ qty # 0 /\ ~(qty * Entry > cash)
           /\ cash' = cash - qty * Entry
           /\ trade' = [trade EXCEPT ![s] = [t EXCEPT !.status = "OPEN", !.qty = qty, !.cost = qty * Entry, !.session = 0,
                                                      !.signal = 0, !.profitFrom = moment + LATENCY]]
  <2>1. qty \in Nat /\ qty * Entry <= t.session
    <3>1. t.session \div Entry \in Nat /\ (t.session \div Entry) * Entry <= t.session
      BY <1>1, RankConstants
    <3> DEFINE q == t.session \div Entry
    <3> HIDE DEF q
    <3>2. qty = 0 \/ qty = Min({b.size, q})
      BY DEF LotsFor, q
    <3>3. q \in Nat /\ q * Entry <= t.session /\ b.size \in Nat
      BY <3>1 DEF q, BookShape
    <3>4. CASE qty = 0
      BY <1>4, <3>4
    <3>5. CASE qty = Min({b.size, q})
      <4> HIDE DEF qty
      <4>1. qty \in Nat /\ qty <= q
        BY <3>3, <3>5, MinOfTwo
      <4>2. qty * Entry <= q * Entry /\ q * Entry \in Nat /\ qty * Entry \in Nat
        BY <3>3, <4>1, RankConstants, TimesAtMost
      <4> QED BY <1>1, <3>3, <4>1, <4>2
    <3> QED BY <3>2, <3>4, <3>5
  <2> DEFINE c == qty * Entry
             new == [t EXCEPT !.status = "OPEN", !.qty = qty, !.cost = c, !.session = 0,
                              !.signal = 0, !.profitFrom = moment + LATENCY]
  <2>2. c \in Nat /\ c <= cash /\ c <= t.session /\ c = qty * Entry
    BY <1>1, <1>4, <2>1, RankConstants
  <2>3. trade' = [trade EXCEPT ![s] = new] /\ cash' = cash - c
    BY <1>4
  <2> HIDE DEF c
  <2>4. moment + LATENCY \in Nat
    BY RankConstants
  <2> HIDE DEF qty
  <2>5. new \in Trades /\ new.status = "OPEN" /\ new.qty = qty /\ new.cost = c /\ new.session = 0
    BY <2>1, <2>2, <2>4 DEF Trades
  <2> HIDE DEF new
  <2>6. new # Nil
    BY <2>5, RankConstants
  <2>7. TradeInv(new)
    BY <1>4, <2>1, <2>2, <2>5 DEF TradeInv
  <2>8. Claim(new) = 0 /\ Tied(new) = c /\ Claim(t) = t.session /\ Tied(t) = 0 /\ Live(t)
    BY <1>1, <1>4, <2>5, <2>6 DEF Claim, Tied, Live
  <2> DEFINE d == 0 - c
  <2>9. PICK e \in Int : e = 0 /\ d \in Int /\ cash' = cash + d /\ cash + d \in Nat /\ realized' = realized + e
                         /\ d + Tied(new) - Tied(t) = e /\ Claim(new) <= Claim(t) + d
    BY <1>1, <2>2, <2>3, <2>8
  <2> HIDE DEF d
  <2>10. AccountInv'
    <3>1. d + Tied(new) - Tied(trade[s]) = e /\ Claim(new) <= Claim(trade[s]) + d /\ Live(trade[s])
      BY <2>8, <2>9
    <3> QED BY <2>3, <2>5, <2>7, <2>9, <3>1, TradeStep
  <2> QED BY <2>3, <2>5, <2>6, <2>10, OneTradeKept
<1>5. CASE t.status # "ENTRY_PENDING"
  BY <1>2, <1>5 DEF Enter
<1> QED BY <1>2, <1>3, <1>4, <1>5 DEF Enter

LEMMA ExitKeeps ==
  ASSUME AccountInv, NEW s \in Symbols, trade[s] \in Trades, NEW b, BookShape(b), Exit(s, b), UNCHANGED funded
  PROVE  AccountInv' /\ TradesKept
<1> DEFINE t == [trade[s] EXCEPT !.lastBook = Bidding(b)]
<1>1. CASE UNCHANGED <<trade, cash, realized>>
  BY <1>1, SameAccount, SameTrades
<1>2. CASE /\ trade[s].status = "EXIT_PENDING"
           /\ trade' = [trade EXCEPT ![s] = Sold(t, Min({trade[s].qty, b.size}), b.top)]
           /\ Proceed(s, Min({trade[s].qty, b.size}), b.top)
  <2>1. Bidding(b) \in Nat \X Nat /\ b.size \in Nat /\ b.top \in Nat
    BY DEF Bidding, BookShape
  <2>2. t \in Trades /\ t.status = trade[s].status /\ t.qty = trade[s].qty /\ t.cost = trade[s].cost
        /\ t.session = trade[s].session
    BY <2>1 DEF Trades
  <2> HIDE DEF t
  <2> QED BY <1>2, <2>1, <2>2, SoldStep
<1> QED BY <1>1, <1>2 DEF Exit

LEMMA CheckStopKeeps ==
  ASSUME AccountInv, RanksInv, NEW s \in Symbols, trade[s] \in Trades, NEW b, BookShape(b), CheckStop(s, b), UNCHANGED funded
  PROVE  AccountInv' /\ TradesKept
<1> DEFINE t == [trade[s] EXCEPT !.profitBook = Bidding(b)]
           c == [trade[s] EXCEPT !.checked = rank.slot]
<1>1. CASE UNCHANGED <<trade, cash, realized>>
  BY <1>1, SameAccount, SameTrades
<1>2. CASE /\ trade[s].status = "OPEN"
           /\ trade' = [trade EXCEPT ![s] = Sold(t, Min({trade[s].qty, b.size}), Target)]
           /\ Proceed(s, Min({trade[s].qty, b.size}), Target)
  <2>1. Bidding(b) \in Nat \X Nat /\ b.size \in Nat /\ Target \in Nat
    BY RankConstants DEF Bidding, BookShape
  <2>2. t \in Trades /\ t.status = trade[s].status /\ t.qty = trade[s].qty /\ t.cost = trade[s].cost
        /\ t.session = trade[s].session
    BY <2>1 DEF Trades
  <2> HIDE DEF t
  <2> QED BY <1>2, <2>1, <2>2, SoldStep
<1>3. CASE /\ trade[s].status = "OPEN" /\ Outside(s, b) /\ UNCHANGED <<cash, realized>>
           /\ trade' = [trade EXCEPT ![s] = ExitRequested(c, b.requested)] \/ trade' = [trade EXCEPT ![s] = c]
  <2>1. rank.slot \in Nat /\ b.requested \in Nat
    BY <1>3 DEF Outside, RanksInv, RankShape, BookShape
  <2>2. c \in Trades /\ c.status = "OPEN" /\ c.qty = trade[s].qty /\ c.cost = trade[s].cost /\ c.session = trade[s].session
    BY <1>3, <2>1 DEF Trades
  <2> HIDE DEF c
  <2>3. c # Nil /\ trade[s] # Nil /\ TradeInv(trade[s])
    BY <2>2, RankConstants DEF AccountInv
  <2>4. TradeInv(c) /\ Claim(c) = Claim(trade[s]) /\ Tied(c) = Tied(trade[s]) /\ Live(trade[s])
    BY <1>3, <2>2, <2>3 DEF TradeInv, Claim, Tied, Live
  <2>5. Claim(c) \in Nat /\ Tied(c) \in Nat
    BY <2>2, ClaimType
  <2>6. PICK new : trade' = [trade EXCEPT ![s] = new] /\ (new = c \/ new = ExitRequested(c, b.requested))
    BY <1>3
  <2>7. /\ new \in Trades /\ new # Nil /\ TradeInv(new) /\ Claim(new) <= Claim(c) /\ Tied(new) = Tied(c)
        /\ new.status # "ENTRY_PENDING"
    BY <2>1, <2>2, <2>3, <2>4, <2>5, <2>6, RequestFacts
  <2>10. AccountInv'
    BY <1>3, <2>4, <2>6, <2>7, TradeAlone
  <2> QED BY <2>6, <2>7, <2>10, OneTradeKept
<1> QED BY <1>1, <1>2, <1>3 DEF CheckStop

\* What the worker does to its trade, and then to itself.
LEMMA WorkerStep ==
  ASSUME RankInv, AccountInv', TradesKept, WorkerInv', UNCHANGED <<moment, control, launch, rank, scan, stopped>>
  PROVE  RankInv'
<1>1. StopInv'
  BY DEF RankInv, StopInv, NoWait, TradesKept
<1>2. RankTypes' /\ RanksInv'
  BY DEF RankInv, RankTypes, RanksInv, RankShape
<1> QED BY <1>1, <1>2 DEF RankInv

LEMMA IdleWorker == worker' = Idle => WorkerInv'
BY DEF WorkerInv, Idle

LEMMA ItemTrade ==
  ASSUME RankInv, worker.item # Nil
  PROVE  worker.item[1] \in Symbols /\ trade[worker.item[1]] \in Trades /\ trade[worker.item[1]] # Nil
BY DEF RankInv, WorkerInv, AccountInv, Tables

\* What may come of a book that arrives.
LEMMA Arrived ==
  ASSUME RankInv, Arrive
  PROVE  \E b : /\ BookShape(b)
                /\ LET s == worker.item[1]
                   IN \/ UNCHANGED <<trade, cash, realized>> /\ worker' = Idle
                      \/ Enter(s, b) /\ UNCHANGED realized /\ worker' = Idle
                      \/ Exit(s, b) /\ worker' = Idle
                      \/ worker' = [worker EXCEPT !.book = b] /\ CheckStop(s, b)
                      \/ worker' = [worker EXCEPT !.book = b] /\ UNCHANGED <<trade, cash, realized>>
<1> DEFINE s == worker.item[1]
           answer(top, size) == [requested |-> worker.asked, received |-> moment, top |-> top, size |-> size]
<1>1. worker.item # Nil
  BY DEF Arrive
<1>2. PICK top \in IF worker.seen = "ENTRY_PENDING" THEN Asks ELSE Bids, size \in 1 .. 2 :
        \/ UNCHANGED <<trade, cash, realized>> /\ worker' = Idle
        \/ Enter(s, answer(top, size)) /\ UNCHANGED realized /\ worker' = Idle
        \/ Exit(s, answer(top, size)) /\ worker' = Idle
        \/ worker' = [worker EXCEPT !.book = answer(top, size)] /\ CheckStop(s, answer(top, size))
        \/ worker' = [worker EXCEPT !.book = answer(top, size)] /\ UNCHANGED <<trade, cash, realized>>
  BY DEF Arrive
<1> DEFINE b == answer(top, size)
<1>3. BookShape(b)
  <2>1. top \in Nat /\ size \in Nat \ {0}
    BY RankConstants DEF Asks, Bids
  <2>2. worker.asked \in Nat /\ moment \in Nat
    BY <1>1 DEF RankInv, WorkerInv, RankTypes
  <2> QED BY <2>1, <2>2 DEF BookShape
<1> HIDE DEF answer
<1> QED BY <1>2, <1>3

LEMMA ArriveKeeps == RankInv /\ Arrive => RankInv'
<1> SUFFICES ASSUME RankInv, Arrive PROVE RankInv'
  OBVIOUS
<1> DEFINE s == worker.item[1]
<1>1. /\ worker.item # Nil /\ worker.book = Nil
      /\ UNCHANGED <<moment, control, launch, funded, rank, scan, stopped>>
  BY DEF Arrive
<1>2. PICK b : /\ BookShape(b)
               /\ \/ UNCHANGED <<trade, cash, realized>> /\ worker' = Idle
                  \/ Enter(s, b) /\ UNCHANGED realized /\ worker' = Idle
                  \/ Exit(s, b) /\ worker' = Idle
                  \/ worker' = [worker EXCEPT !.book = b] /\ CheckStop(s, b)
                  \/ worker' = [worker EXCEPT !.book = b] /\ UNCHANGED <<trade, cash, realized>>
  BY Arrived
<1>3. BookShape(b)
  BY <1>2
<1>4. s \in Symbols /\ trade[s] \in Trades /\ moment \in Nat /\ AccountInv /\ RanksInv
  BY <1>1, ItemTrade DEF RankInv, RankTypes
<1> HIDE DEF s
<1>5. AccountInv' /\ TradesKept
  BY <1>1, <1>2, <1>3, <1>4, EnterKeeps, ExitKeeps, CheckStopKeeps, SameAccount, SameTrades
<1>6. WorkerInv'
  <2>1. CASE worker' = Idle
    BY <2>1, IdleWorker
  <2>2. CASE worker' = [worker EXCEPT !.book = b]
    <3>1. /\ worker \in [item : {worker.item}, asked : {worker.asked}, seen : {worker.seen}, book : {worker.book}]
          /\ worker.item \in Symbols \X (Nat \X Nat) /\ worker.asked \in Nat /\ trade[worker.item[1]] # Nil
      BY <1>1 DEF RankInv, WorkerInv
    <3>2. worker' \in [item : {worker.item}, asked : {worker.asked}, seen : {worker.seen}, book : {b}]
      BY <2>2, <3>1
    <3>3. worker'.item = worker.item /\ worker'.asked = worker.asked /\ worker'.seen = worker.seen /\ worker'.book = b
      BY <3>2
    <3>4. trade'[worker.item[1]] # Nil
      BY <1>5, <3>1 DEF TradesKept
    <3> QED BY <1>1, <1>3, <3>1, <3>2, <3>3, <3>4 DEF WorkerInv
  <2> QED BY <1>2, <2>1, <2>2
<1> QED BY <1>1, <1>5, <1>6, WorkerStep

LEMMA UnansweredKeeps == RankInv /\ Unanswered => RankInv'
BY WorkerIdles DEF Unanswered

LEMMA RestartKeeps == RankInv /\ Restart => RankInv'
BY WorkerIdles DEF Restart

LEMMA RecheckKeeps == RankInv /\ Recheck => RankInv'
<1> SUFFICES ASSUME RankInv, Recheck PROVE RankInv'
  OBVIOUS
<1> DEFINE s == worker.item[1]
<1>1. /\ worker.book # Nil
      /\ \/ worker' = [worker EXCEPT !.asked = moment, !.seen = "AGAIN", !.book = Nil] /\ UNCHANGED <<trade, cash, realized>>
         \/ worker' = Idle /\ Exit(s, worker.book)
         \/ worker' = Idle /\ UNCHANGED <<trade, cash, realized>>
      /\ UNCHANGED <<moment, control, launch, funded, rank, scan, stopped>>
  BY DEF Recheck
<1>2. worker.item # Nil /\ BookShape(worker.book) /\ moment \in Nat /\ AccountInv
  BY <1>1 DEF RankInv, WorkerInv, RankTypes
<1>3. s \in Symbols /\ trade[s] \in Trades
  BY <1>2, ItemTrade
<1>4. AccountInv' /\ TradesKept
  BY <1>1, <1>2, <1>3, ExitKeeps, SameAccount, SameTrades
<1>5. WorkerInv'
  <2>1. CASE worker' = Idle
    BY <2>1, IdleWorker
  <2>2. CASE worker' = [worker EXCEPT !.asked = moment, !.seen = "AGAIN", !.book = Nil]
    <3>1. /\ worker \in [item : {worker.item}, asked : {worker.asked}, seen : {worker.seen}, book : {worker.book}]
          /\ worker.item \in Symbols \X (Nat \X Nat) /\ trade[worker.item[1]] # Nil
      BY <1>2 DEF RankInv, WorkerInv
    <3>2. worker' \in [item : {worker.item}, asked : {moment}, seen : {"AGAIN"}, book : {Nil}]
      BY <2>2, <3>1
    <3>3. worker'.item = worker.item /\ worker'.asked = moment /\ worker'.seen = "AGAIN" /\ worker'.book = Nil
      BY <3>2
    <3>4. trade'[worker.item[1]] # Nil
      BY <1>4, <3>1 DEF TradesKept
    <3> QED BY <1>2, <3>1, <3>2, <3>3, <3>4 DEF WorkerInv
  <2> QED BY <1>1, <2>1, <2>2
<1> QED BY <1>1, <1>4, <1>5, WorkerStep

-----------------------------------------------------------------------------
\* The theorems

LEMMA RankStutter == RankInv /\ UNCHANGED rankvars => RankInv'
<1> SUFFICES ASSUME RankInv, UNCHANGED rankvars PROVE RankInv'
  OBVIOUS
<1>1. UNCHANGED <<moment, control, launch, cash, funded, trade, rank, scan, worker, realized, stopped>>
  BY DEF rankvars
<1>2. RankTypes' /\ RanksInv' /\ StopInv' /\ WorkerInv'
  BY <1>1 DEF RankInv, RankTypes, RanksInv, RankShape, StopInv, WorkerInv
<1> QED BY <1>1, <1>2, SameAccount DEF RankInv

\* The rotation account adds up through every step, and no trade or offer claims
\* cash that another one has claimed (fast_rank_paper.py, fast_tick_paper.py).
THEOREM RankInvInvariant == RankSpec => []RankInv
<1>1. RankInit => RankInv
  BY RankInitial
<1>2. RankInv /\ [RankNext]_rankvars => RankInv'
  BY RankStutter, ElapseKeeps, ActivateKeeps, PauseKeeps, ResumeKeeps, ScanStartKeeps, SaveRankKeeps, OfferRankKeeps,
     FundKeeps, AdvanceKeeps, ArriveKeeps, UnansweredKeeps, RecheckKeeps, RestartKeeps, TakeKeeps
     DEF RankNext
<1> QED BY <1>1, <1>2, PTL DEF RankSpec

\* What the ranking account promises can be paid, and after a stop nothing buys
\* and nothing waits to buy until the user starts again.
THEOREM RankFunded == RankSpec => []RankIsFundedAndStops
<1>1. RankInv => RankIsFundedAndStops
  <2> SUFFICES ASSUME RankInv PROVE RankIsFundedAndStops
    OBVIOUS
  <2>1. Active = Act(trade)
    BY DEF Active, Pending, Holding, Has, Act, Live
  <2>2. ClaimsAreFunded
    BY <2>1 DEF ClaimsAreFunded, RankInv, AccountInv
  <2>3. StopHolds
    BY DEF StopHolds, Pending, Has, NoWait, RankInv, StopInv
  <2> QED BY <2>2, <2>3 DEF RankIsFundedAndStops
<1> QED BY <1>1, RankInvInvariant, PTL


-----------------------------------------------------------------------------
(* RankLedger: what is bought was ranked, in time and once.  A trade keeps   *)
(* the start and the episode it was offered in; a coin that stays in the     *)
(* ranking of a start stays in its episode, so the same offer is not made    *)
(* again.                                                                    *)

\* A trade is of the episode in which its coin was ranked, unless the coin left
\* the ranking since; and what waits is of the present start.
InEpisode(r, t, s) == t.id[1] = r.generation => s \in DOMAIN r.members /\ r.members[s].entry = t.id[2]

EpisodesInv ==
  \A s \in Symbols : trade[s] # Nil =>
    /\ rank # Nil /\ trade[s].id[1] <= rank.generation
    /\ trade[s].status = "ENTRY_PENDING" => control.enabled /\ trade[s].id[1] = control.generation
    /\ s \notin away => InEpisode(rank, trade[s], s)

StartsInv ==
  /\ control.generation = 1 => ~control.enabled
  /\ scan # Nil => scan.generation <= control.generation
  /\ rank # Nil => rank.generation <= control.generation

\* No trade gets another origin, and none begins.
IdsStay ==
  \A x \in Symbols : /\ trade[x] # Nil => trade'[x] # Nil /\ trade'[x].id = trade[x].id
                     /\ trade[x] = Nil => trade'[x] = Nil
                     /\ (trade'[x] # Nil /\ trade'[x].status = "ENTRY_PENDING") => trade'[x] = trade[x]

NoneOpened ==
  \A x \in Symbols : trade'[x] # Nil /\ trade'[x].status = "OPEN" => trade[x] # Nil /\ trade[x].status = "OPEN"

LEMMA SameIds == UNCHANGED trade => IdsStay /\ NoneOpened
BY DEF IdsStay, NoneOpened

LEMMA UnboughtIsRanked == IdsStay /\ NoneOpened => EntryIsRanked
BY DEF IdsStay, NoneOpened, EntryIsRanked

LEMMA EpisodesStay ==
  ASSUME EpisodesInv, IdsStay, UNCHANGED <<rank, away>>, control' = control \/ NoWait(trade')
  PROVE  EpisodesInv'
<1> SUFFICES ASSUME NEW s \in Symbols, trade'[s] # Nil
             PROVE  /\ rank' # Nil /\ trade'[s].id[1] <= rank'.generation
                    /\ trade'[s].status = "ENTRY_PENDING" => control'.enabled /\ trade'[s].id[1] = control'.generation
                    /\ s \notin away' => InEpisode(rank', trade'[s], s)
  BY DEF EpisodesInv
<1>1. trade[s] # Nil /\ trade'[s].id = trade[s].id
  BY DEF IdsStay
<1>2. rank' # Nil /\ trade'[s].id[1] <= rank'.generation /\ (s \notin away' => InEpisode(rank', trade'[s], s))
  BY <1>1 DEF EpisodesInv, InEpisode
<1>3. ASSUME trade'[s].status = "ENTRY_PENDING" PROVE control'.enabled /\ trade'[s].id[1] = control'.generation
  <2>1. trade[s].status = "ENTRY_PENDING" /\ control' = control
    BY <1>3 DEF IdsStay, NoWait
  <2> QED BY <1>1, <2>1 DEF EpisodesInv
<1> QED BY <1>2, <1>3

LEMMA RankedTypes ==
  ASSUME RankInv
  PROVE  /\ control.generation \in Nat /\ control.enabled \in BOOLEAN
         /\ scan # Nil => scan.generation \in Nat
         /\ rank # Nil => rank.generation \in Nat
         /\ trade \in Tables
BY DEF RankInv, RankTypes, RanksInv, RankShape, AccountInv

LEMMA StartsStay ==
  ASSUME RankInv, StartsInv, rank' = rank, scan' = scan \/ scan' = Nil,
         control' = control \/ control'.generation = control.generation + 1
  PROVE  StartsInv'
<1>1. CASE control' = control
  BY <1>1 DEF StartsInv
<1>2. CASE control'.generation = control.generation + 1
  <2>1. control'.generation # 1
    <3>1. control.generation \in Nat \ {0}
      BY DEF RankInv, RankTypes
    <3> QED BY <1>2, <3>1
  <2>2. scan' # Nil => scan'.generation <= control'.generation
    BY <1>2, RankedTypes DEF StartsInv
  <2>3. rank' # Nil => rank'.generation <= control'.generation
    BY <1>2, RankedTypes DEF StartsInv
  <2> QED BY <2>1, <2>2, <2>3 DEF StartsInv
<1> QED BY <1>1, <1>2

LEMMA RankedInitial == RankInit => EpisodesInv /\ StartsInv
<1> SUFFICES ASSUME RankInit PROVE EpisodesInv /\ StartsInv
  OBVIOUS
<1>1. /\ control.generation = 1 /\ ~control.enabled /\ scan = Nil /\ rank = Nil
      /\ \A s \in Symbols : trade[s] = Nil
  BY DEF RankInit
<1> QED BY <1>1 DEF EpisodesInv, StartsInv

\* The steps that leave the trades alone.
LEMMA QuietRanked ==
  ASSUME RankInv, EpisodesInv, StartsInv, UNCHANGED <<control, trade, rank, away>>, scan' = scan \/ scan' = Nil
  PROVE  EpisodesInv' /\ StartsInv' /\ EntryIsRanked
BY SameIds, UnboughtIsRanked, EpisodesStay, StartsStay

LEMMA QuietSteps ==
  ASSUME RankInv, EpisodesInv, StartsInv,
         Elapse \/ Fund \/ Unanswered \/ Restart \/ (\E s \in Symbols : Take(s)) \/ UNCHANGED rankvars
  PROVE  EpisodesInv' /\ StartsInv' /\ EntryIsRanked
<1>1. UNCHANGED <<control, trade, rank, away>> /\ (scan' = scan \/ scan' = Nil)
  BY DEF Elapse, Fund, Unanswered, Restart, Take, rankvars
<1> QED BY <1>1, QuietRanked

LEMMA ScanStartRanked ==
  ASSUME RankInv, EpisodesInv, StartsInv, ScanStart
  PROVE  EpisodesInv' /\ StartsInv' /\ EntryIsRanked
<1>1. /\ scan' = [slot |-> SlotOf(moment), generation |-> control.generation, rows |-> Nil]
      /\ UNCHANGED <<control, trade, rank, away>>
  BY DEF ScanStart
<1>2. scan'.generation = control.generation
  BY <1>1
<1>3. StartsInv'
  BY <1>1, <1>2, RankedTypes DEF StartsInv
<1> QED BY <1>1, <1>3, SameIds, UnboughtIsRanked, EpisodesStay

\* A start, and the end of one: nothing waits.
LEMMA SetRanked ==
  ASSUME RankInv, EpisodesInv, StartsInv, NEW enabled \in BOOLEAN, NEW at, Set(enabled, at), NoWait(trade'),
         IdsStay, NoneOpened, UNCHANGED <<rank, scan, away>>
  PROVE  EpisodesInv' /\ StartsInv' /\ EntryIsRanked
<1>1. control'.generation = control.generation + 1
  BY DEF Set
<1> QED BY <1>1, UnboughtIsRanked, EpisodesStay, StartsStay

LEMMA ActivateRanked ==
  ASSUME RankInv, EpisodesInv, StartsInv, ActivateDue
  PROVE  EpisodesInv' /\ StartsInv' /\ EntryIsRanked
<1>1. /\ control' = control \/ (StillWanted(launch) /\ Set(TRUE, launch.at))
      /\ UNCHANGED <<trade, rank, scan, away>>
  BY DEF ActivateDue
<1>2. CASE control' = control
  BY <1>1, <1>2, QuietRanked
<1>3. CASE StillWanted(launch) /\ Set(TRUE, launch.at)
  <2>1. ~control.enabled
    BY <1>3 DEF StillWanted, StartsInv, RankInv, RankTypes
  <2>2. NoWait(trade')
    BY <1>1, <2>1 DEF NoWait, EpisodesInv
  <2> QED BY <1>1, <1>3, <2>2, SameIds, SetRanked
<1> QED BY <1>1, <1>2, <1>3

LEMMA ResumeRanked ==
  ASSUME RankInv, EpisodesInv, StartsInv, Resume
  PROVE  EpisodesInv' /\ StartsInv' /\ EntryIsRanked
<1>1. /\ control' = control \/ (~control.enabled /\ Set(TRUE, moment))
      /\ UNCHANGED <<trade, rank, scan, away>>
  BY DEF Resume
<1>2. CASE control' = control
  BY <1>1, <1>2, QuietRanked
<1>3. CASE ~control.enabled /\ Set(TRUE, moment)
  <2>1. NoWait(trade')
    BY <1>1, <1>3 DEF NoWait, EpisodesInv
  <2> QED BY <1>1, <1>3, <2>1, SameIds, SetRanked
<1> QED BY <1>1, <1>2, <1>3

\* What becomes of a trade has its origin, and is not bought by it.
LEMMA RowOrigin ==
  ASSUME NEW t \in Trades
  PROVE  /\ \A st : Ended(t, st).id = t.id /\ Ended(t, st).status = st
         /\ \A ts : /\ ExitRequested(t, ts).id = t.id
                    /\ ExitRequested(t, ts).status \in {"EXIT_PENDING", "SKIPPED"}
         /\ \A qty, price : /\ Sold(t, qty, price).id = t.id
                            /\ Sold(t, qty, price).status \in {"CLOSED", t.status}
<1>1. ASSUME NEW st PROVE Ended(t, st).id = t.id /\ Ended(t, st).status = st
  BY DEF Ended, Blank
<1>2. ASSUME NEW ts
      PROVE  ExitRequested(t, ts).id = t.id /\ ExitRequested(t, ts).status \in {"EXIT_PENDING", "SKIPPED"}
  BY <1>1 DEF ExitRequested, Trades
<1>3. ASSUME NEW qty, NEW price
      PROVE  Sold(t, qty, price).id = t.id /\ Sold(t, qty, price).status \in {"CLOSED", t.status}
  <2> DEFINE rest == [t EXCEPT !.qty = @ - qty, !.cost = @ - qty * Entry, !.session = @ + qty * price]
  <2>1. rest.id = t.id /\ rest.status = t.status
    BY DEF Trades
  <2>2. Sold(t, qty, price) = IF rest.qty = 0 THEN Ended(t, "CLOSED") ELSE rest
    BY DEF Sold
  <2> HIDE DEF rest
  <2> QED BY <1>1, <2>1, <2>2
<1> QED BY <1>1, <1>2, <1>3

LEMMA PauseRanked ==
  ASSUME RankInv, EpisodesInv, StartsInv, PauseAndClear
  PROVE  EpisodesInv' /\ StartsInv' /\ EntryIsRanked
<1>1. Set(FALSE, moment) /\ trade' = [s \in Symbols |-> Cleared(s)] /\ UNCHANGED <<rank, scan, away>>
  BY DEF PauseAndClear
<1>2. trade \in Tables /\ moment \in Nat /\ \A s \in Symbols : TradeInv(trade[s])
  BY DEF RankInv, RankTypes, AccountInv
<1>3. ASSUME NEW s \in Symbols
      PROVE  /\ trade[s] # Nil => trade'[s] # Nil /\ trade'[s].id = trade[s].id
             /\ trade[s] = Nil => trade'[s] = Nil
             /\ trade'[s] # Nil => trade'[s].status # "ENTRY_PENDING"
             /\ trade'[s] # Nil /\ trade'[s].status = "OPEN" => trade[s] # Nil /\ trade[s].status = "OPEN"
  <2>0. trade'[s] = Cleared(s) /\ trade[s] \in Trades \cup {Nil} /\ TradeInv(trade[s])
    BY <1>1, <1>2 DEF Tables
  <2>1. CASE Has(s, {"ENTRY_PENDING", "OPEN"})
    <3>1. trade'[s] = ExitRequested(trade[s], moment) /\ trade[s] \in Trades /\ trade[s].status \in {"ENTRY_PENDING", "OPEN"}
      BY <2>0, <2>1 DEF Cleared, Has
    <3>2. trade[s] # Nil /\ trade'[s] # Nil
      BY <1>2, <2>0, <3>1, RankConstants, RequestFacts
    <3> QED BY <3>1, <3>2, RowOrigin
  <2>2. CASE ~Has(s, {"ENTRY_PENDING", "OPEN"})
    BY <2>0, <2>2 DEF Cleared, Has
  <2> QED BY <2>1, <2>2
<1>4. IdsStay /\ NoneOpened /\ NoWait(trade')
  BY <1>3 DEF IdsStay, NoneOpened, NoWait
<1> QED BY <1>1, <1>4, SetRanked

LEMMA AdvanceRanked ==
  ASSUME RankInv, EpisodesInv, StartsInv, Advance
  PROVE  EpisodesInv' /\ StartsInv' /\ EntryIsRanked
<1>1. /\ trade' = [s \in Symbols |-> IF Expired(s) THEN Ended(trade[s], "SKIPPED") ELSE trade[s]]
      /\ UNCHANGED <<control, rank, scan, away>>
  BY DEF Advance
<1>2. trade \in Tables
  BY DEF RankInv, AccountInv
<1>3. ASSUME NEW s \in Symbols
      PROVE  /\ trade[s] # Nil => trade'[s] # Nil /\ trade'[s].id = trade[s].id
             /\ trade[s] = Nil => trade'[s] = Nil
             /\ (trade'[s] # Nil /\ trade'[s].status = "ENTRY_PENDING") => trade'[s] = trade[s]
             /\ trade'[s] # Nil /\ trade'[s].status = "OPEN" => trade[s] # Nil /\ trade[s].status = "OPEN"
  <2>0. trade[s] \in Trades \cup {Nil}
    BY <1>2 DEF Tables
  <2>1. CASE Expired(s)
    <3>1. trade'[s] = Ended(trade[s], "SKIPPED") /\ trade[s] \in Trades /\ trade[s] # Nil
      BY <1>1, <2>0, <2>1 DEF Expired, Has
    <3>2. trade'[s] # Nil
      BY <3>1, EndedFacts
    <3> QED BY <3>1, <3>2, RowOrigin
  <2>2. CASE ~Expired(s)
    BY <1>1, <2>2
  <2> QED BY <2>1, <2>2
<1>4. IdsStay /\ NoneOpened
  BY <1>3 DEF IdsStay, NoneOpened
<1> QED BY <1>1, <1>4, UnboughtIsRanked, EpisodesStay, StartsStay

\* A ranking keeps the episode of every coin that stays in it.
LEMMA SaveRankRanked ==
  ASSUME RankInv, EpisodesInv, StartsInv, SaveRank
  PROVE  EpisodesInv' /\ StartsInv' /\ EntryIsRanked
<1>1. scan # Nil /\ UNCHANGED <<control, trade>>
  BY DEF SaveRank
<1>3. CASE scan' = Nil /\ UNCHANGED <<rank, away>>
  BY <1>1, <1>3, QuietRanked
<1>4. ASSUME Saveable, NEW n \in Nat, NEW offers \in [1 .. n -> Symbols],
             rank' = [slot |-> scan.slot, generation |-> scan.generation, saved |-> moment,
                      members |-> [s \in Range(offers) |-> Member(s)]],
             scan' = [scan EXCEPT !.rows = offers], away' = away \cup (Symbols \ Range(offers))
      PROVE  EpisodesInv' /\ StartsInv' /\ EntryIsRanked
  <2>1. /\ rank' # Nil /\ rank'.generation = scan.generation /\ DOMAIN rank'.members = Range(offers)
        /\ \A s \in Range(offers) : rank'.members[s] = Member(s)
    BY <1>1, <1>4, RankSaved
  <2>2. scan.generation = control.generation
    BY <1>4 DEF Saveable
  <2>3. scan'.generation = scan.generation
    <3>1. scan \in [slot : Nat, generation : Nat, rows : {scan.rows}]
      BY <1>1 DEF RankInv, RanksInv
    <3> QED BY <1>4, <3>1
  <2>4. StartsInv'
    BY <1>1, <2>1, <2>2, <2>3, RankedTypes DEF StartsInv
  <2>5. ASSUME NEW s \in Symbols, trade[s] # Nil
        PROVE  /\ trade[s].id[1] <= rank'.generation
               /\ s \notin away' => InEpisode(rank', trade[s], s)
    <3>1. /\ rank # Nil /\ trade[s].id[1] <= rank.generation /\ rank.generation <= control.generation
          /\ s \notin away => InEpisode(rank, trade[s], s)
      BY <2>5 DEF EpisodesInv, StartsInv
    <3>2. trade[s].id[1] \in Nat
      BY <2>5 DEF RankInv, AccountInv, Tables, Trades
    <3>3. rank.generation \in Nat /\ control.generation \in Nat
      BY <3>1, RankedTypes
    <3>4. trade[s].id[1] <= rank'.generation
      BY <2>1, <2>2, <3>1, <3>2, <3>3
    <3>5. ASSUME s \notin away', trade[s].id[1] = rank'.generation
          PROVE  s \in DOMAIN rank'.members /\ rank'.members[s].entry = trade[s].id[2]
      <4>1. s \notin away /\ s \in Range(offers)
        BY <1>4, <3>5
      <4>2. rank.generation = trade[s].id[1]
        BY <2>1, <2>2, <3>1, <3>2, <3>3, <3>5
      <4>3. s \in DOMAIN rank.members /\ rank.members[s].entry = trade[s].id[2]
        BY <3>1, <4>1, <4>2 DEF InEpisode
      <4>4. Member(s) = rank.members[s]
        BY <2>1, <2>2, <3>1, <3>5, <4>2, <4>3 DEF Member
      <4> QED BY <2>1, <4>1, <4>3, <4>4
    <3> QED BY <3>4, <3>5 DEF InEpisode
  <2>6. EpisodesInv'
    BY <1>1, <2>1, <2>5 DEF EpisodesInv
  <2> QED BY <1>1, <2>4, <2>6, SameIds, UnboughtIsRanked
<1> QED BY <1>3, <1>4, RankOrNot

\* A ranking offers a coin in its episode; what was offered in it is not offered
\* again.
LEMMA OfferRankRanked ==
  ASSUME RankInv, EpisodesInv, StartsInv, OfferRank
  PROVE  EpisodesInv' /\ StartsInv' /\ EntryIsRanked
<1> DEFINE end == FoldLeft(OfferRow, [trade |-> trade, members |-> rank.members, done |-> FALSE], scan.rows)
<1>1. /\ scan # Nil /\ scan.rows # Nil /\ scan' = Nil /\ control' = control
      /\ \/ /\ control.enabled /\ rank.generation = control.generation
            /\ trade' = end.trade /\ rank' = [rank EXCEPT !.members = end.members]
            /\ away' = away \ {s \in Symbols : end.trade[s] # trade[s]}
         \/ UNCHANGED <<trade, rank, away>>
  BY DEF OfferRank
<1>2. CASE UNCHANGED <<trade, rank, away>>
  BY <1>1, <1>2, QuietRanked
<1>3. CASE /\ control.enabled /\ rank.generation = control.generation
           /\ trade' = end.trade /\ rank' = [rank EXCEPT !.members = end.members]
           /\ away' = away \ {s \in Symbols : end.trade[s] # trade[s]}
  <2>1. Offering(end)
    BY <1>1, OffersMade
  <2> HIDE DEF end
  <2>2. RankShape(rank) /\ trade \in Tables
    BY <1>1 DEF RankInv, RanksInv, AccountInv
  <2>3. /\ end.members \in [DOMAIN rank.members -> Episodes]
        /\ \A s \in DOMAIN rank.members : end.members[s].entry = rank.members[s].entry
    BY <2>1 DEF Offering, Accs
  <2>4. /\ rank'.generation = control.generation /\ rank'.members = end.members /\ RankShape(rank')
    BY <1>3, <2>2, <2>3 DEF RankShape
  <2>5. ASSUME NEW s \in Symbols
        PROVE  /\ trade'[s] = trade[s] \/ Offered(s, trade'[s])
               /\ trade[s] # Nil => trade'[s] # Nil
               /\ trade'[s] # trade[s] => s \notin away'
               /\ s \notin away' /\ trade'[s] = trade[s] => s \notin away
    BY <1>3, <2>1 DEF Offering
  <2>6. ASSUME NEW s \in Symbols, Offered(s, trade'[s])
        PROVE  /\ trade'[s].id[1] = control.generation /\ trade'[s].id[2] = rank.members[s].entry
               /\ s \in DOMAIN rank.members /\ trade'[s] # Nil /\ trade'[s].status = "ENTRY_PENDING"
               /\ trade'[s].id = <<control.generation, rank.members[s].entry>>
    BY <2>6 DEF Offered
  <2>7. control.generation \in Nat
    BY RankedTypes
  <2>8. rank' # Nil
    <3>1. rank' \in Rankings
      BY <2>4 DEF RankShape, Rankings, Episodes
    <3> QED BY <3>1, RankConstants
  <2>9. ASSUME NEW s \in Symbols, trade'[s] # Nil
        PROVE  /\ trade'[s].id[1] <= rank'.generation
               /\ trade'[s].status = "ENTRY_PENDING" => control'.enabled /\ trade'[s].id[1] = control'.generation
               /\ s \notin away' => InEpisode(rank', trade'[s], s)
    <3>1. CASE Offered(s, trade'[s])
      BY <1>1, <1>3, <2>3, <2>4, <2>6, <2>7, <3>1 DEF InEpisode
    <3>2. CASE trade'[s] = trade[s]
      <4>1. /\ trade[s].id[1] <= rank.generation
            /\ trade[s].status = "ENTRY_PENDING" => trade[s].id[1] = control.generation
            /\ s \notin away => InEpisode(rank, trade[s], s)
        BY <2>9, <3>2 DEF EpisodesInv
      <4>2. s \notin away' => InEpisode(rank', trade[s], s)
        BY <1>3, <2>3, <2>4, <2>5, <3>2, <4>1 DEF InEpisode
      <4> QED BY <1>1, <1>3, <2>4, <3>2, <4>1, <4>2
    <3> QED BY <2>5, <3>1, <3>2
  <2>10. EpisodesInv'
    BY <2>8, <2>9 DEF EpisodesInv
  <2>11. StartsInv'
    BY <1>1, <2>4, <2>7 DEF StartsInv
  <2>12. EntryIsRanked
    <3>1. ASSUME NEW s \in Symbols, trade'[s] # Nil, trade'[s].status = "OPEN"
          PROVE  trade[s] # Nil /\ trade[s].status = "OPEN"
      BY <2>5, <2>6, <3>1
    <3>2. ASSUME NEW s \in Symbols, trade[s] # Nil, trade'[s].id # trade[s].id, trade'[s].id[1] = trade[s].id[1]
          PROVE  s \in away
      <4>1. Offered(s, trade'[s])
        BY <2>5, <3>2
      <4>2. trade[s].id \in Nat \X Nat
        BY <2>2, <3>2 DEF Tables, Trades
      <4>3. trade[s].id = <<trade[s].id[1], trade[s].id[2]>>
        BY <4>2
      <4>4. trade[s].id[1] = rank.generation
        BY <1>3, <2>6, <3>2, <4>1
      <4>5. s \notin away => trade[s].id[2] = rank.members[s].entry
        BY <3>2, <4>4 DEF EpisodesInv, InEpisode
      <4> QED BY <1>3, <2>6, <3>2, <4>1, <4>3, <4>4, <4>5
    <3> QED BY <3>1, <3>2 DEF EntryIsRanked
  <2> QED BY <2>10, <2>11, <2>12
<1> QED BY <1>1, <1>2, <1>3

-----------------------------------------------------------------------------
\* The worker: a trade that it sells, or gives up, keeps its origin.

LEMMA OneOrigin ==
  ASSUME trade \in Tables, TradesKept, NEW s \in Symbols, trade[s] \in Trades, NEW new,
         trade' = [trade EXCEPT ![s] = new], new.id = trade[s].id
  PROVE  /\ IdsStay
         /\ (new.status = "OPEN" => trade[s].status = "OPEN") => NoneOpened
<1>1. \A x \in Symbols : trade'[x] = IF x = s THEN new ELSE trade[x]
  BY DEF Tables
<1>2. trade[s] # Nil
  BY RankConstants
<1> QED BY <1>1, <1>2 DEF IdsStay, NoneOpened, TradesKept

LEMMA SoldOrigin ==
  ASSUME trade \in Tables, TradesKept, NEW s \in Symbols, trade[s] \in Trades,
         NEW t \in Trades, t.id = trade[s].id, t.status = trade[s].status, NEW qty, NEW price,
         trade' = [trade EXCEPT ![s] = Sold(t, qty, price)]
  PROVE  IdsStay /\ NoneOpened
<1>1. Sold(t, qty, price).id = trade[s].id /\ Sold(t, qty, price).status \in {"CLOSED", trade[s].status}
  BY RowOrigin
<1> QED BY <1>1, OneOrigin

LEMMA ExitOrigin ==
  ASSUME trade \in Tables, TradesKept, NEW s \in Symbols, trade[s] \in Trades, NEW b, BookShape(b), Exit(s, b)
  PROVE  IdsStay /\ NoneOpened
<1> DEFINE t == [trade[s] EXCEPT !.lastBook = Bidding(b)]
<1>1. CASE UNCHANGED trade
  BY <1>1, SameIds
<1>2. CASE trade' = [trade EXCEPT ![s] = Sold(t, Min({trade[s].qty, b.size}), b.top)]
  <2>1. Bidding(b) \in Nat \X Nat
    BY DEF Bidding, BookShape
  <2>2. t \in Trades /\ t.id = trade[s].id /\ t.status = trade[s].status
    BY <2>1 DEF Trades
  <2> HIDE DEF t
  <2> QED BY <1>2, <2>2, SoldOrigin
<1> QED BY <1>1, <1>2 DEF Exit

LEMMA CheckStopOrigin ==
  ASSUME trade \in Tables, RanksInv, TradesKept, NEW s \in Symbols, trade[s] \in Trades, NEW b, BookShape(b), CheckStop(s, b)
  PROVE  IdsStay /\ NoneOpened
<1> DEFINE t == [trade[s] EXCEPT !.profitBook = Bidding(b)]
           c == [trade[s] EXCEPT !.checked = rank.slot]
<1>1. CASE UNCHANGED trade
  BY <1>1, SameIds
<1>2. CASE trade' = [trade EXCEPT ![s] = Sold(t, Min({trade[s].qty, b.size}), Target)]
  <2>1. Bidding(b) \in Nat \X Nat
    BY DEF Bidding, BookShape
  <2>2. t \in Trades /\ t.id = trade[s].id /\ t.status = trade[s].status
    BY <2>1 DEF Trades
  <2> HIDE DEF t
  <2> QED BY <1>2, <2>2, SoldOrigin
<1>3. CASE /\ Outside(s, b)
           /\ trade' = [trade EXCEPT ![s] = ExitRequested(c, b.requested)] \/ trade' = [trade EXCEPT ![s] = c]
  <2>1. rank.slot \in Nat
    BY <1>3 DEF Outside, RanksInv, RankShape
  <2>2. c \in Trades /\ c.id = trade[s].id /\ c.status = trade[s].status
    BY <2>1 DEF Trades
  <2> HIDE DEF c
  <2>3. PICK new : trade' = [trade EXCEPT ![s] = new] /\ (new = c \/ new = ExitRequested(c, b.requested))
    BY <1>3
  <2>4. new.id = trade[s].id /\ (new.status = "OPEN" => trade[s].status = "OPEN")
    BY <2>2, <2>3, RowOrigin
  <2> QED BY <2>3, <2>4, OneOrigin
<1> QED BY <1>1, <1>2, <1>3 DEF CheckStop

\* What displayed lots cost is within the budget.
LEMMA LotsFit ==
  ASSUME NEW t \in Trades, NEW b, BookShape(b)
  PROVE  LotsFor(b, t) * Entry <= t.session
<1>1. t.session \in Nat /\ b.size \in Nat
  BY DEF Trades, BookShape
<1>2. t.session \div Entry \in Nat /\ (t.session \div Entry) * Entry <= t.session
  BY <1>1, RankConstants
<1> DEFINE q == t.session \div Entry
<1>3. LotsFor(b, t) = 0 \/ LotsFor(b, t) = Min({b.size, q})
  BY DEF LotsFor
<1>4. q \in Nat /\ q * Entry <= t.session
  BY <1>2
<1> HIDE DEF q
<1>5. CASE LotsFor(b, t) = 0
  <2>1. 0 * Entry = 0
    BY RankConstants
  <2> QED BY <1>1, <1>5, <2>1
<1>6. CASE LotsFor(b, t) = Min({b.size, q})
  <2>1. LotsFor(b, t) \in Nat /\ LotsFor(b, t) <= q
    BY <1>1, <1>4, <1>6, MinOfTwo
  <2> DEFINE lots == LotsFor(b, t)
  <2>2. lots \in Nat /\ lots <= q
    BY <2>1
  <2> HIDE DEF lots
  <2>3. lots * Entry <= q * Entry /\ q * Entry \in Nat /\ lots * Entry \in Nat
    BY <1>4, <2>2, RankConstants, TimesAtMost
  <2>4. lots * Entry <= t.session
    BY <1>1, <1>4, <2>3
  <2> QED BY <2>4 DEF lots
<1> QED BY <1>3, <1>5, <1>6

\* An entry is bought for an offer of this start, in time and within its budget.
LEMMA EnterOrigin ==
  ASSUME trade \in Tables, EpisodesInv, TradesKept, moment \in Nat, NEW s \in Symbols, trade[s] \in Trades,
         NEW b, BookShape(b), Enter(s, b)
  PROVE  IdsStay /\ EntryIsRanked
<1> DEFINE t == trade[s]
           qty == LotsFor(b, t)
<1>0. trade[s] # Nil
  BY RankConstants
<1>1. CASE UNCHANGED trade
  BY <1>1, SameIds, UnboughtIsRanked
<1>2. CASE trade' = [trade EXCEPT ![s] = Ended(t, "SKIPPED")]
  <2>1. Ended(t, "SKIPPED").id = trade[s].id /\ Ended(t, "SKIPPED").status = "SKIPPED"
    BY RowOrigin
  <2>2. PICK new : new = Ended(t, "SKIPPED")
    OBVIOUS
  <2> QED BY <1>2, <2>1, <2>2, OneOrigin, UnboughtIsRanked
<1>3. CASE /\ control.enabled /\ t.status = "ENTRY_PENDING" /\ ~Expired(s)
           /\ trade' = [trade EXCEPT ![s] = [t EXCEPT !.status = "OPEN", !.qty = qty, !.cost = qty * Entry, !.session = 0,
                                                      !.signal = 0, !.profitFrom = moment + LATENCY]]
  <2> DEFINE c == qty * Entry
             new == [t EXCEPT !.status = "OPEN", !.qty = qty, !.cost = c, !.session = 0,
                              !.signal = 0, !.profitFrom = moment + LATENCY]
  <2>1. trade' = [trade EXCEPT ![s] = new] /\ c <= t.session
    BY <1>3, LotsFit
  <2> HIDE DEF c, qty
  <2>2. new.id = t.id /\ new.cost = c
    BY DEF Trades
  <2> HIDE DEF new
  <2>3. IdsStay
    BY <2>1, <2>2, OneOrigin
  <2>4. \A x \in Symbols : trade'[x] = IF x = s THEN new ELSE trade[x]
    BY <2>1 DEF Tables
  <2>5. t.id[1] = control.generation
    BY <1>0, <1>3 DEF EpisodesInv
  <2>6. moment <= t.signal + TTL
    <3>1. t.signal \in Nat
      BY DEF Trades
    <3>2. ~(moment > t.signal + TTL)
      BY <1>0, <1>3 DEF Expired, Has
    <3> QED BY <3>1, <3>2, RankConstants
  <2>7. ASSUME NEW x \in Symbols, trade'[x] # Nil, trade'[x].status = "OPEN", trade[x] = Nil \/ trade[x].status # "OPEN"
        PROVE  /\ trade[x].status = "ENTRY_PENDING" /\ trade'[x].id[1] = control.generation
               /\ control.enabled /\ moment <= trade[x].signal + TTL
               /\ trade'[x].cost <= trade[x].session
    <3>1. x = s
      BY <2>4, <2>7
    <3> QED BY <1>3, <2>1, <2>2, <2>4, <2>5, <2>6, <3>1
  <2>8. \A x \in Symbols : trade[x] # Nil => trade'[x].id = trade[x].id
    BY <2>3 DEF IdsStay
  <2>9. EntryIsRanked
    BY <2>7, <2>8 DEF EntryIsRanked
  <2> QED BY <2>3, <2>9
<1> QED BY <1>1, <1>2, <1>3 DEF Enter

LEMMA ArriveRanked ==
  ASSUME RankInv, EpisodesInv, StartsInv, Arrive
  PROVE  EpisodesInv' /\ StartsInv' /\ EntryIsRanked
<1> DEFINE s == worker.item[1]
<1>1. worker.item # Nil /\ UNCHANGED <<moment, control, launch, funded, rank, scan, stopped, away>>
  BY DEF Arrive
<1>2. PICK b : /\ BookShape(b)
               /\ \/ UNCHANGED <<trade, cash, realized>>
                  \/ Enter(s, b) /\ UNCHANGED realized
                  \/ Exit(s, b)
                  \/ CheckStop(s, b)
  BY Arrived
<1>3. s \in Symbols /\ trade[s] \in Trades /\ moment \in Nat /\ AccountInv /\ RanksInv /\ trade \in Tables
  BY <1>1, ItemTrade DEF RankInv, RankTypes, AccountInv
<1> HIDE DEF s
<1>4. TradesKept
  BY <1>1, <1>2, <1>3, EnterKeeps, ExitKeeps, CheckStopKeeps, SameTrades
<1>5. IdsStay /\ EntryIsRanked
  BY <1>2, <1>3, <1>4, EnterOrigin, ExitOrigin, CheckStopOrigin, SameIds, UnboughtIsRanked
<1> QED BY <1>1, <1>5, EpisodesStay, StartsStay

LEMMA RecheckRanked ==
  ASSUME RankInv, EpisodesInv, StartsInv, Recheck
  PROVE  EpisodesInv' /\ StartsInv' /\ EntryIsRanked
<1> DEFINE s == worker.item[1]
<1>1. /\ worker.book # Nil /\ UNCHANGED <<moment, control, launch, funded, rank, scan, stopped, away>>
      /\ \/ UNCHANGED <<trade, cash, realized>>
         \/ Exit(s, worker.book)
  BY DEF Recheck
<1>2. worker.item # Nil /\ BookShape(worker.book) /\ AccountInv /\ trade \in Tables
  BY <1>1 DEF RankInv, WorkerInv, AccountInv
<1>3. s \in Symbols /\ trade[s] \in Trades
  BY <1>2, ItemTrade
<1>4. TradesKept
  BY <1>1, <1>2, <1>3, ExitKeeps, SameTrades
<1>5. IdsStay /\ NoneOpened
  BY <1>1, <1>2, <1>3, <1>4, ExitOrigin, SameIds
<1> QED BY <1>1, <1>5, UnboughtIsRanked, EpisodesStay, StartsStay

LEMMA RankedStep ==
  ASSUME RankInv, EpisodesInv, StartsInv, [RankNext]_rankvars
  PROVE  EpisodesInv' /\ StartsInv' /\ EntryIsRanked
<1>1. CASE Elapse \/ Fund \/ Unanswered \/ Restart \/ (\E s \in Symbols : Take(s)) \/ UNCHANGED rankvars
  BY <1>1, QuietSteps
<1>2. CASE ActivateDue \/ PauseAndClear \/ Resume
  BY <1>2, ActivateRanked, PauseRanked, ResumeRanked
<1>3. CASE ScanStart \/ SaveRank \/ OfferRank
  BY <1>3, ScanStartRanked, SaveRankRanked, OfferRankRanked
<1>4. CASE Advance \/ Arrive \/ Recheck
  BY <1>4, AdvanceRanked, ArriveRanked, RecheckRanked
<1> QED BY <1>1, <1>2, <1>3, <1>4 DEF RankNext

\* Whatever the threads do between an offer and its purchase: what is bought was
\* offered in time by a ranking of this start, within its budget, and a coin that
\* stays in the ranking is not bought again (fast_rank_paper.py:83-137).
THEOREM EntriesRanked == RankSpec => EntriesAreRanked
<1>1. RankInit => EpisodesInv /\ StartsInv
  BY RankedInitial
<1>2. RankInv /\ EpisodesInv /\ StartsInv /\ [RankNext]_rankvars => EpisodesInv' /\ StartsInv'
  BY RankedStep
<1>3. RankInv /\ EpisodesInv /\ StartsInv /\ [RankNext]_rankvars => [EntryIsRanked]_rankvars
  BY RankedStep
<1> QED BY <1>1, <1>2, <1>3, RankInvInvariant, PTL DEF RankSpec, EntriesAreRanked

-----------------------------------------------------------------------------
(* DeadlineLedger: what is promised to the signals that wait can be paid,   *)
(* money is conserved, and a pass buys only when nothing is left to sell.   *)

Statuses == {"ENTRY_PENDING", "OPEN", "EXIT_PENDING", "SKIPPED", "CLOSED"}
Rows == [symbol : Coins, signal : Int, deadline : Int, ready : Int, status : Statuses, lots : Nat, cost : Int,
         due : Int, exitReady : Int, hash : Views \cup {Void}, got : Int, close : Int]

\* A table: what waits or was skipped has cost nothing.
Table(f) ==
  /\ DOMAIN f \in SUBSET RowIds /\ IsFiniteSet(DOMAIN f)
  /\ f = [i \in DOMAIN f |-> f[i]]
  /\ \A i \in DOMAIN f : f[i] \in Rows /\ (f[i].status \in {"ENTRY_PENDING", "SKIPPED"} => f[i].got = 0 /\ f[i].cost = 0)

SlotTypes == instant \in Nat /\ endowed \in BOOLEAN /\ money \in Nat /\ Table(trades)

FundedInv(f, m, e) ==
  /\ m >= SLOT * Cardinality(Waiting(f))
  /\ e => m = SEED + Balance(f)
  /\ ~e => m = 0 /\ \A i \in DOMAIN f : f[i].status = "SKIPPED"

\* What a pass has still to do: sales, and behind them purchases.
Buying(f, i) == f[i].status \in {"ENTRY_PENDING", "SKIPPED"}
PassInv(f, p) ==
  /\ p \in Seq(DOMAIN f)
  /\ \A k, l \in DOMAIN p : k # l => p[k] # p[l]
  /\ \A k, l \in DOMAIN p : k < l /\ Buying(f, p[k]) => Buying(f, p[l])

RequestInv == request # Void => request \in Requests /\ pass # <<>> /\ request.ident = Head(pass)

SlotInv == SlotTypes /\ FundedInv(trades, money, endowed) /\ PassInv(trades, pass) /\ RequestInv

LEMMA SlotConstants ==
  /\ RowIds \subseteq Nat /\ SellPrices \subseteq Nat /\ Void \notin Requests
  /\ ENTRY_TTL \in Nat /\ HOLD \in Nat /\ DEADLINE \in Nat /\ DELAY \in Nat /\ COOLDOWN \in Nat /\ STALE \in Nat
  /\ SLOW \in Nat /\ MAX_POSITIONS \in Nat /\ SEED \in Nat /\ Lots \in Nat /\ LotCost \in Nat /\ LastInstant \in Nat
  /\ SLOT \in Nat
<1>1. \A a, b \in Nat : a * b \in Nat
  OBVIOUS
<1> QED BY <1>1, DeadlineAssumption DEF SLOT

\* The slots of some of the signals cost no more than those of all.
LEMMA SlotsMonotone ==
  ASSUME NEW m \in Nat, NEW n \in Nat, m <= n
  PROVE  SLOT * m \in Nat /\ SLOT * n \in Nat /\ SLOT * m <= SLOT * n /\ SLOT * (m + 1) = SLOT * m + SLOT
<1> DEFINE c == SLOT
<1>1. c \in Nat
  BY SlotConstants
<1> HIDE DEF c
<1>2. c * m \in Nat /\ c * n \in Nat /\ c * m <= c * n /\ c * (m + 1) = c * m + c
  BY <1>1
<1> QED BY <1>2 DEF c

LEMMA WaitingFacts ==
  ASSUME NEW f, Table(f)
  PROVE  /\ Waiting(f) = {i \in DOMAIN f : f[i].status = "ENTRY_PENDING"}
         /\ Bought(f) = {i \in DOMAIN f : f[i].status \in {"OPEN", "EXIT_PENDING"}}
         /\ Exits(f) = {i \in DOMAIN f : f[i].status = "EXIT_PENDING"}
         /\ IsFiniteSet(Waiting(f)) /\ Cardinality(Waiting(f)) \in Nat
         /\ IsFiniteSet(Exits(f)) /\ Cardinality(Exits(f)) \in Nat
<1>1. Waiting(f) = {i \in DOMAIN f : f[i].status = "ENTRY_PENDING"}
  BY DEF Waiting, Bought, Taken, LiveStates
<1>2. Bought(f) = {i \in DOMAIN f : f[i].status \in {"OPEN", "EXIT_PENDING"}}
  BY DEF Bought, Taken, LiveStates
<1>3. Exits(f) = {i \in DOMAIN f : f[i].status = "EXIT_PENDING"}
  BY DEF Exits, Taken, LiveStates
<1>4. Waiting(f) \subseteq DOMAIN f /\ Exits(f) \subseteq DOMAIN f /\ IsFiniteSet(DOMAIN f)
  BY <1>1, <1>3 DEF Table
<1> QED BY <1>1, <1>2, <1>3, <1>4, FS_Subset, FS_CardinalityType

\* Fewer signals wait: what is promised is less.
LEMMA FewerWait ==
  ASSUME NEW f, Table(f), NEW g, Table(g), Waiting(g) \subseteq Waiting(f), NEW m \in Nat,
         m >= SLOT * Cardinality(Waiting(f))
  PROVE  m >= SLOT * Cardinality(Waiting(g))
<1>1. /\ IsFiniteSet(Waiting(f)) /\ Cardinality(Waiting(f)) \in Nat /\ Cardinality(Waiting(g)) \in Nat
      /\ Cardinality(Waiting(g)) <= Cardinality(Waiting(f))
  BY WaitingFacts, FS_Subset
<1>2. SLOT * Cardinality(Waiting(g)) <= SLOT * Cardinality(Waiting(f))
      /\ SLOT * Cardinality(Waiting(g)) \in Nat /\ SLOT * Cardinality(Waiting(f)) \in Nat
  BY <1>1, SlotsMonotone
<1> QED BY <1>2

Net(f, i) == f[i].got - f[i].cost

LEMMA NetType == ASSUME NEW f, Table(f), NEW i \in DOMAIN f PROVE Net(f, i) \in Int
<1>1. f[i] \in Rows
  BY DEF Table
<1> QED BY <1>1 DEF Net, Rows

\* The balance depends on what each trade brought and cost, and on nothing else.
LEMMA BalanceFacts ==
  ASSUME NEW f, Table(f)
  PROVE  /\ Balance(f) \in Int
         /\ \A g : Table(g) /\ DOMAIN g = DOMAIN f /\ (\A i \in DOMAIN f : Net(g, i) = Net(f, i)) => Balance(g) = Balance(f)
         /\ \A g, i : Table(g) /\ DOMAIN g = DOMAIN f /\ i \in DOMAIN f /\ (\A j \in DOMAIN f \ {i} : Net(g, j) = Net(f, j))
                        => Balance(g) = Balance(f) - Net(f, i) + Net(g, i)
<1> DEFINE D == DOMAIN f
           B(g) == [i \in DOMAIN g |-> g[i].got - g[i].cost]
<1>1. IsFiniteSet(D)
  BY DEF Table
<1>2. ASSUME NEW g, Table(g), DOMAIN g = D PROVE \A i \in D : B(g)[i] = Net(g, i) /\ B(g)[i] \in Int
  BY <1>2, NetType DEF Net
<1>3. \A g : DOMAIN g = D => Balance(g) = SumFunctionOnSet(B(g), D)
  BY DEF Balance
<1> HIDE DEF B
<1>4. Balance(f) \in Int
  <2>1. \A i \in D : B(f)[i] \in Int
    BY <1>2
  <2> QED BY <1>1, <1>3, <2>1, SumType
<1>5. ASSUME NEW g, Table(g), DOMAIN g = D, \A i \in D : Net(g, i) = Net(f, i)
      PROVE  Balance(g) = Balance(f)
  <2>1. \A i \in D : B(g)[i] = B(f)[i]
    BY <1>2, <1>5
  <2> QED BY <1>1, <1>3, <1>5, <2>1, SumSame
<1>6. ASSUME NEW g, NEW i, Table(g), DOMAIN g = D, i \in D, \A j \in D \ {i} : Net(g, j) = Net(f, j)
      PROVE  Balance(g) = Balance(f) - Net(f, i) + Net(g, i)
  <2>1. Changed(B(f), B(g), D, i) /\ B(f)[i] = Net(f, i) /\ B(g)[i] = Net(g, i)
    BY <1>2, <1>6 DEF Changed
  <2> QED BY <1>1, <1>3, <1>6, <2>1, SumChange
<1> QED BY <1>4, <1>5, <1>6

-----------------------------------------------------------------------------
\* The order of a pass

\* Of several trades one comes last.
LEMMA LastExists ==
  ASSUME NEW f, Table(f), NEW S \in SUBSET DOMAIN f, S # {}
  PROVE  \E m \in S : \A y \in S \ {m} : Before(f, y, m)
<1> DEFINE P == {T \in SUBSET S : T # {} => \E m \in T : \A y \in T \ {m} : Before(f, y, m)}
<1>1. IsFiniteSet(S)
  BY FS_Subset DEF Table
<1>2. \A i \in S : i \in Nat /\ f[i].deadline \in Int
  BY SlotConstants DEF Table, Rows
<1>3. {} \in P
  OBVIOUS
<1>4. ASSUME NEW T \in P, NEW x \in S \ T PROVE T \cup {x} \in P
  <2>1. CASE T = {}
    BY <2>1
  <2>2. CASE T # {}
    <3>1. PICK m \in T : \A y \in T \ {m} : Before(f, y, m)
      BY <2>2
    <3>2. CASE Before(f, x, m)
      <4>1. \A y \in (T \cup {x}) \ {m} : Before(f, y, m)
        BY <3>1, <3>2
      <4> QED BY <4>1
    <3>3. CASE ~Before(f, x, m)
      <4>1. Before(f, m, x)
        BY <1>2, <3>3 DEF Before
      <4>2. \A y \in T \ {m} : Before(f, y, x)
        BY <1>2, <3>1, <4>1 DEF Before
      <4>3. \A y \in (T \cup {x}) \ {x} : Before(f, y, x)
        BY <4>1, <4>2
      <4> QED BY <4>3
    <3> QED BY <3>2, <3>3
  <2> QED BY <2>1, <2>2
<1>5. P = SUBSET S
  <2>1. P \in SUBSET SUBSET S
    OBVIOUS
  <2> HIDE DEF P
  <2> QED BY <1>1, <1>3, <1>4, <2>1, SubsetInduction
<1> QED BY <1>5

Sorts(f, S, q) == q \in [1 .. Cardinality(S) -> S] /\ \A k, l \in DOMAIN q : k < l => Before(f, q[k], q[l])

LEMMA SortedExists ==
  ASSUME NEW f, Table(f), NEW S \in SUBSET DOMAIN f
  PROVE  \E q : Sorts(f, S, q)
<1> DEFINE P == {n \in Nat : \A T \in SUBSET S : Cardinality(T) = n => \E q : Sorts(f, T, q)}
<1>1. IsFiniteSet(S) /\ Cardinality(S) \in Nat
  BY FS_Subset, FS_CardinalityType DEF Table
<1>2. 0 \in P
  <2>1. ASSUME NEW T \in SUBSET S, Cardinality(T) = 0 PROVE \E q : Sorts(f, T, q)
    <3>1. Sorts(f, T, [k \in 1 .. 0 |-> k])
      BY <2>1 DEF Sorts
    <3> QED BY <3>1
  <2> QED BY <2>1
<1>3. ASSUME NEW n \in P PROVE n + 1 \in P
  <2>0. n \in Nat /\ \A T \in SUBSET S : Cardinality(T) = n => \E q : Sorts(f, T, q)
    OBVIOUS
  <2>1. ASSUME NEW T \in SUBSET S, Cardinality(T) = n + 1 PROVE \E q : Sorts(f, T, q)
    <3> HIDE DEF P
    <3>1. IsFiniteSet(T) /\ T # {}
      <4>1. IsFiniteSet(T)
        BY <1>1, FS_Subset
      <4>2. Cardinality({}) = 0
        BY FS_EmptySet
      <4>3. n + 1 # 0
        BY <2>0
      <4> QED BY <2>1, <4>1, <4>2, <4>3
    <3>2. PICK m \in T : \A y \in T \ {m} : Before(f, y, m)
      BY <3>1, LastExists
    <3>3. Cardinality(T \ {m}) = n /\ T \ {m} \in SUBSET S
      <4>1. Cardinality(T \ {m}) = Cardinality(T) - 1
        BY <3>1, FS_RemoveElement
      <4> QED BY <2>0, <2>1, <4>1
    <3>4. PICK q : Sorts(f, T \ {m}, q)
      BY <2>0, <3>3
    <3> DEFINE r == [k \in 1 .. n + 1 |-> IF k = n + 1 THEN m ELSE q[k]]
    <3>5. q \in [1 .. n -> T \ {m}] /\ \A k, l \in 1 .. n : k < l => Before(f, q[k], q[l])
      BY <3>3, <3>4 DEF Sorts
    <3>6. r \in [1 .. n + 1 -> T]
      BY <2>0, <3>5
    <3>7. ASSUME NEW k \in 1 .. n + 1, NEW l \in 1 .. n + 1, k < l PROVE Before(f, r[k], r[l])
      <4>1. k \in 1 .. n /\ r[k] = q[k] /\ q[k] \in T \ {m}
        BY <2>0, <3>5, <3>7
      <4>2. CASE l = n + 1
        BY <3>2, <4>1, <4>2
      <4>3. CASE l # n + 1
        <5>1. l \in 1 .. n /\ r[l] = q[l]
          BY <2>0, <4>3
        <5> QED BY <3>5, <3>7, <4>1, <5>1
      <4> QED BY <4>2, <4>3
    <3>8. Sorts(f, T, r)
      BY <2>1, <3>6, <3>7 DEF Sorts
    <3> QED BY <3>8
  <2>2. n + 1 \in Nat
    BY <2>0
  <2> QED BY <2>1, <2>2
<1>4. P = Nat
  <2> HIDE DEF P
  <2> QED BY <1>2, <1>3, NatSetInduction DEF P
<1> QED BY <1>1, <1>4

\* A queue holds what it is made of, once.
LEMMA QueueFacts ==
  ASSUME NEW f, Table(f), NEW S \in SUBSET DOMAIN f
  PROVE  /\ Queue(f, S) \in Seq(S) /\ Queue(f, S) \in [1 .. Cardinality(S) -> S]
         /\ Cardinality(S) \in Nat /\ DOMAIN Queue(f, S) = 1 .. Cardinality(S) /\ Len(Queue(f, S)) = Cardinality(S)
         /\ \A k, l \in DOMAIN Queue(f, S) : k # l => Queue(f, S)[k] # Queue(f, S)[l]
<1> DEFINE q == Queue(f, S)
<1>1. IsFiniteSet(S) /\ Cardinality(S) \in Nat
  BY FS_Subset, FS_CardinalityType DEF Table
<1>2. \E p \in [1 .. Cardinality(S) -> S] : \A k, l \in DOMAIN p : k < l => Before(f, p[k], p[l])
  BY SortedExists DEF Sorts
<1>3. q \in [1 .. Cardinality(S) -> S] /\ \A k, l \in DOMAIN q : k < l => Before(f, q[k], q[l])
  BY <1>2 DEF Queue
<1> HIDE DEF q
<1>4. \A i \in S : i \in Nat /\ f[i].deadline \in Int
  BY SlotConstants DEF Table, Rows
<1>5. \A i \in S : ~Before(f, i, i)
  BY <1>4 DEF Before
<1>6. ASSUME NEW k \in DOMAIN q, NEW l \in DOMAIN q, k # l PROVE q[k] # q[l]
  <2>1. k \in Nat /\ l \in Nat /\ q[k] \in S /\ q[l] \in S
    BY <1>1, <1>3
  <2>2. CASE k < l
    BY <1>3, <1>5, <2>1, <2>2
  <2>3. CASE l < k
    BY <1>3, <1>5, <2>1, <2>3
  <2> QED BY <1>6, <2>1, <2>2, <2>3
<1>7. q \in Seq(S) /\ Len(q) = Cardinality(S)
  BY <1>1, <1>3
<1> QED BY <1>1, <1>3, <1>6, <1>7 DEF q

\* What a pass finds to do: what is to be sold first.
LEMMA PlanFacts ==
  ASSUME NEW f, Table(f)
  PROVE  PassInv(f, Plan(f))
<1> DEFINE q == Queue(f, Exits(f))
           r == Queue(f, Waiting(f))
<1>1. Exits(f) \in SUBSET DOMAIN f /\ Waiting(f) \in SUBSET DOMAIN f
  BY WaitingFacts
<1>2. /\ q \in Seq(Exits(f)) /\ r \in Seq(Waiting(f))
      /\ (\A k, l \in DOMAIN q : k # l => q[k] # q[l]) /\ (\A k, l \in DOMAIN r : k # l => r[k] # r[l])
  BY <1>1, QueueFacts
<1>3. Plan(f) = q \o r
  BY DEF Plan
<1> HIDE DEF q, r
<1>4. /\ \A i \in Exits(f) : ~Buying(f, i) /\ i \notin Waiting(f)
      /\ \A i \in Waiting(f) : Buying(f, i)
  BY WaitingFacts DEF Buying
<1>5. q \in Seq(DOMAIN f) /\ r \in Seq(DOMAIN f)
  BY <1>1, <1>2
<1>6. /\ q \o r \in Seq(DOMAIN f) /\ Len(q) \in Nat /\ Len(r) \in Nat
      /\ DOMAIN (q \o r) = 1 .. Len(q) + Len(r) /\ DOMAIN q = 1 .. Len(q) /\ DOMAIN r = 1 .. Len(r)
      /\ \A k \in 1 .. Len(q) + Len(r) : (q \o r)[k] = IF k <= Len(q) THEN q[k] ELSE r[k - Len(q)]
  BY <1>5
<1> DEFINE p == q \o r
<1>7. ASSUME NEW k \in DOMAIN p
      PROVE  \/ k \in 1 .. Len(q) /\ k \in DOMAIN q /\ p[k] = q[k] /\ p[k] \in Exits(f)
             \/ k > Len(q) /\ k - Len(q) \in DOMAIN r /\ p[k] = r[k - Len(q)] /\ p[k] \in Waiting(f)
  <2>1. CASE k <= Len(q)
    <3>1. k \in DOMAIN q /\ p[k] = q[k]
      BY <1>6, <2>1
    <3> QED BY <1>2, <1>6, <3>1
  <2>2. CASE k > Len(q)
    <3>1. k - Len(q) \in DOMAIN r /\ p[k] = r[k - Len(q)]
      BY <1>6, <2>2
    <3> QED BY <1>2, <2>2, <3>1
  <2> QED BY <1>6, <2>1, <2>2
<1>8. \A k \in DOMAIN p : k \in Nat
  BY <1>6
<1> HIDE DEF p
<1>9. ASSUME NEW k \in DOMAIN p, NEW l \in DOMAIN p, k # l PROVE p[k] # p[l]
  BY <1>2, <1>4, <1>6, <1>7, <1>8, <1>9
<1>10. ASSUME NEW k \in DOMAIN p, NEW l \in DOMAIN p, k < l, Buying(f, p[k]) PROVE Buying(f, p[l])
  <2>1. k > Len(q)
    BY <1>4, <1>7, <1>10
  <2>2. l > Len(q)
    BY <1>6, <1>8, <1>10, <2>1
  <2>3. p[l] \in Waiting(f)
    BY <1>6, <1>7, <1>8, <2>2
  <2> QED BY <1>4, <2>3
<1>11. p \in Seq(DOMAIN f)
  BY <1>6 DEF p
<1> QED BY <1>3, <1>9, <1>10, <1>11 DEF PassInv, p

\* A pass goes on while trades are advanced, and without what was handled.
LEMMA PassStays ==
  ASSUME NEW f, NEW g, NEW p, PassInv(f, p), DOMAIN f \subseteq DOMAIN g,
         \A i \in DOMAIN f : Buying(g, i) <=> Buying(f, i)
  PROVE  PassInv(g, p)
<1>1. p \in Seq(DOMAIN f) /\ DOMAIN p = 1 .. Len(p) /\ \A k \in DOMAIN p : p[k] \in DOMAIN f
  BY DEF PassInv
<1>2. p \in Seq(DOMAIN g)
  BY <1>1
<1> QED BY <1>1, <1>2 DEF PassInv

LEMMA TailStays ==
  ASSUME NEW f, NEW g, NEW p, PassInv(f, p), p # <<>>, DOMAIN g = DOMAIN f,
         \A i \in DOMAIN f \ {Head(p)} : Buying(g, i) <=> Buying(f, i)
  PROVE  PassInv(g, Tail(p)) /\ Head(p) \in DOMAIN f
<1>1. p \in Seq(DOMAIN f) /\ Len(p) \in Nat \ {0} /\ DOMAIN p = 1 .. Len(p) /\ Head(p) = p[1] /\ 1 \in DOMAIN p
  BY DEF PassInv
<1> DEFINE r == Tail(p)
<1>2. /\ r \in Seq(DOMAIN g) /\ DOMAIN r = 1 .. Len(p) - 1
      /\ \A k \in 1 .. Len(p) - 1 : r[k] = p[k + 1]
  BY <1>1
<1> HIDE DEF r
<1>3. \A k \in DOMAIN r : k \in Nat /\ k + 1 \in DOMAIN p /\ r[k] = p[k + 1] /\ k + 1 # 1
  BY <1>1, <1>2
<1>4. \A k \in DOMAIN r : r[k] \in DOMAIN f \ {Head(p)}
  <2> SUFFICES ASSUME NEW k \in DOMAIN r PROVE r[k] \in DOMAIN f \ {Head(p)}
    OBVIOUS
  <2>1. p[k + 1] \in DOMAIN f /\ p[k + 1] # p[1]
    BY <1>1, <1>3 DEF PassInv
  <2> QED BY <1>1, <1>3, <2>1
<1>5. ASSUME NEW k \in DOMAIN r, NEW l \in DOMAIN r, k # l PROVE r[k] # r[l]
  <2>1. k + 1 # l + 1
    BY <1>3, <1>5
  <2> QED BY <1>3, <2>1 DEF PassInv
<1>6. ASSUME NEW k \in DOMAIN r, NEW l \in DOMAIN r, k < l, Buying(g, r[k]) PROVE Buying(g, r[l])
  <2>1. k + 1 < l + 1
    BY <1>3, <1>6
  <2>2. Buying(f, p[k + 1])
    BY <1>3, <1>4, <1>6
  <2>3. Buying(f, p[l + 1])
    BY <1>3, <2>1, <2>2 DEF PassInv
  <2> QED BY <1>3, <1>4, <2>3
<1>7. Head(p) \in DOMAIN f
  BY <1>1
<1> QED BY <1>2, <1>5, <1>6, <1>7 DEF PassInv, r

-----------------------------------------------------------------------------
\* What advance() does to a trade

LEMMA AdvancedFacts ==
  ASSUME NEW f, Table(f), instant \in Nat, NEW g, g = Advanced(f)
  PROVE  /\ Table(g) /\ DOMAIN g = DOMAIN f /\ Waiting(g) \subseteq Waiting(f)
         /\ \A i \in DOMAIN f :
              /\ Net(g, i) = Net(f, i) /\ g[i].deadline = f[i].deadline
              /\ Buying(g, i) <=> Buying(f, i)
              /\ g[i].status = "ENTRY_PENDING" => g[i] = f[i]
              /\ g[i].status = "OPEN" => f[i].status = "OPEN"
              /\ f[i].status \in {"OPEN", "EXIT_PENDING"} => g[i].status \in {"OPEN", "EXIT_PENDING"}
              /\ f[i].status = "SKIPPED" => g[i].status = "SKIPPED"
<1> DEFINE next(i) ==
             CASE i \in Waiting(f) /\ instant > f[i].signal + ENTRY_TTL -> [f[i] EXCEPT !.status = "SKIPPED"]
               [] i \in Bought(f) /\ instant >= f[i].deadline ->
                    [f[i] EXCEPT !.status = "EXIT_PENDING", !.exitReady = Min({@, instant})]
               [] f[i].status = "OPEN" /\ instant < f[i].deadline /\ instant >= f[i].due ->
                    [f[i] EXCEPT !.status = "EXIT_PENDING", !.exitReady = instant + DELAY]
               [] OTHER -> f[i]
<1>0. g = [i \in DOMAIN f |-> next(i)]
  BY DEF Advanced
<1>9. ASSUME NEW i \in DOMAIN f
      PROVE  \/ i \in Waiting(f) /\ next(i) = [f[i] EXCEPT !.status = "SKIPPED"]
             \/ i \in Bought(f) /\ next(i) = [f[i] EXCEPT !.status = "EXIT_PENDING", !.exitReady = Min({@, instant})]
             \/ f[i].status = "OPEN" /\ next(i) = [f[i] EXCEPT !.status = "EXIT_PENDING", !.exitReady = instant + DELAY]
             \/ next(i) = f[i]
  OBVIOUS
<1> HIDE DEF next
<1>1. /\ DOMAIN g = DOMAIN f /\ g = [i \in DOMAIN g |-> g[i]]
      /\ \A i \in DOMAIN f : g[i] = next(i)
  BY <1>0
<1>2. ASSUME NEW i \in DOMAIN f
      PROVE  \/ f[i].status = "ENTRY_PENDING" /\ g[i] = [f[i] EXCEPT !.status = "SKIPPED"]
             \/ /\ f[i].status \in {"OPEN", "EXIT_PENDING"}
                /\ \E x \in Int : g[i] = [f[i] EXCEPT !.status = "EXIT_PENDING", !.exitReady = x]
             \/ g[i] = f[i]
  <2>1. f[i] \in Rows /\ f[i].exitReady \in Int
    BY DEF Table, Rows
  <2>2. Min({f[i].exitReady, instant}) \in Int /\ instant + DELAY \in Int
    <3>1. \E x \in {f[i].exitReady, instant} : \A y \in {f[i].exitReady, instant} : x <= y
      BY <2>1
    <3> QED BY <2>1, <3>1, SlotConstants DEF Min
  <2>3. /\ i \in Waiting(f) => f[i].status = "ENTRY_PENDING"
        /\ i \in Bought(f) => f[i].status \in {"OPEN", "EXIT_PENDING"}
    BY WaitingFacts
  <2>4. \/ i \in Waiting(f) /\ g[i] = [f[i] EXCEPT !.status = "SKIPPED"]
        \/ i \in Bought(f) /\ g[i] = [f[i] EXCEPT !.status = "EXIT_PENDING", !.exitReady = Min({f[i].exitReady, instant})]
        \/ f[i].status = "OPEN" /\ g[i] = [f[i] EXCEPT !.status = "EXIT_PENDING", !.exitReady = instant + DELAY]
        \/ g[i] = f[i]
    BY <1>1, <1>9
  <2> QED BY <2>2, <2>3, <2>4
<1>3. ASSUME NEW i \in DOMAIN f
      PROVE  /\ g[i] \in Rows /\ (g[i].status \in {"ENTRY_PENDING", "SKIPPED"} => g[i].got = 0 /\ g[i].cost = 0)
             /\ Net(g, i) = Net(f, i) /\ g[i].deadline = f[i].deadline
             /\ Buying(g, i) <=> Buying(f, i)
             /\ g[i].status = "ENTRY_PENDING" => g[i] = f[i]
             /\ g[i].status = "OPEN" => f[i].status = "OPEN"
             /\ f[i].status \in {"OPEN", "EXIT_PENDING"} => g[i].status \in {"OPEN", "EXIT_PENDING"}
             /\ f[i].status = "SKIPPED" => g[i].status = "SKIPPED"
  <2>1. f[i] \in Rows /\ (f[i].status \in {"ENTRY_PENDING", "SKIPPED"} => f[i].got = 0 /\ f[i].cost = 0)
    BY DEF Table
  <2>2. CASE f[i].status = "ENTRY_PENDING" /\ g[i] = [f[i] EXCEPT !.status = "SKIPPED"]
    BY <2>1, <2>2 DEF Rows, Statuses, Net, Buying
  <2>3. ASSUME f[i].status \in {"OPEN", "EXIT_PENDING"}, NEW x \in Int,
               g[i] = [f[i] EXCEPT !.status = "EXIT_PENDING", !.exitReady = x]
        PROVE  <1>3!2
    BY <2>1, <2>3 DEF Rows, Statuses, Net, Buying
  <2>4. CASE g[i] = f[i]
    BY <2>1, <2>4 DEF Net, Buying
  <2> QED BY <1>2, <2>2, <2>3, <2>4
<1>4. Table(g)
  BY <1>1, <1>3 DEF Table
<1>5. Waiting(g) \subseteq Waiting(f)
  <2>1. \A i \in Waiting(g) : i \in DOMAIN f /\ g[i].status = "ENTRY_PENDING"
    BY <1>1, <1>4, WaitingFacts
  <2>2. \A i \in Waiting(g) : f[i].status = "ENTRY_PENDING"
    BY <1>3, <2>1
  <2> QED BY <2>1, <2>2, WaitingFacts
<1> QED BY <1>1, <1>3, <1>4, <1>5

\* Advancing the trades leaves the money and the promises.
LEMMA AdvancedKeeps ==
  ASSUME NEW f, Table(f), instant \in Nat, NEW m \in Nat, NEW e \in BOOLEAN, FundedInv(f, m, e)
  PROVE  FundedInv(Advanced(f), m, e)
<1> DEFINE g == Advanced(f)
<1>1. /\ Table(g) /\ DOMAIN g = DOMAIN f /\ Waiting(g) \subseteq Waiting(f)
      /\ \A i \in DOMAIN f : Net(g, i) = Net(f, i) /\ (f[i].status = "SKIPPED" => g[i].status = "SKIPPED")
  BY AdvancedFacts
<1> HIDE DEF g
<1>2. m >= SLOT * Cardinality(Waiting(g))
  BY <1>1, FewerWait DEF FundedInv
<1>3. Balance(g) = Balance(f)
  BY <1>1, BalanceFacts
<1> QED BY <1>1, <1>2, <1>3 DEF FundedInv, g

-----------------------------------------------------------------------------
(* The steps                                                               *)

LEMMA SlotInitial == LInit => SlotInv
<1> SUFFICES ASSUME LInit PROVE SlotInv
  OBVIOUS
<1>1. DOMAIN trades = {} /\ trades = [i \in DOMAIN trades |-> trades[i]]
  BY DEF LInit
<1>2. Table(trades)
  BY <1>1, FS_EmptySet DEF Table
<1>3. instant = 0 /\ endowed \in BOOLEAN /\ money = (IF endowed THEN SEED ELSE 0) /\ pass = <<>> /\ request = Void
  BY DEF LInit
<1>4. Waiting(trades) = {}
  BY <1>1, <1>2, WaitingFacts
<1>5. Balance(trades) = 0
  BY <1>1, SumEmpty DEF Balance
<1>6. Cardinality(Waiting(trades)) = 0 /\ SLOT * 0 = 0
  BY <1>4, FS_EmptySet, SlotConstants
<1>7. FundedInv(trades, money, endowed)
  BY <1>1, <1>3, <1>5, <1>6, SlotConstants DEF FundedInv
<1>8. PassInv(trades, pass)
  BY <1>3 DEF PassInv
<1> QED BY <1>2, <1>3, <1>7, <1>8, SlotConstants DEF SlotInv, SlotTypes, RequestInv

LEMMA LaterKeeps == SlotInv /\ Later => SlotInv'
BY DEF SlotInv, Later, SlotTypes, RequestInv, FundedInv, PassInv, Table, Buying, Balance, Waiting, Bought, Taken

LEMMA AskKeeps == SlotInv /\ Ask => SlotInv'
<1> SUFFICES ASSUME SlotInv, Ask PROVE SlotInv'
  OBVIOUS
<1>1. UNCHANGED <<instant, endowed, money, trades>> /\ pass # <<>>
  BY DEF Ask
<1>2. PassInv(trades, Tail(pass)) /\ Head(pass) \in DOMAIN trades
  BY <1>1, TailStays DEF SlotInv
<1>3. \/ pass' = Tail(pass) /\ request' = Void
      \/ pass' = pass /\ request' = [ident |-> Head(pass), at |-> instant, side |-> trades[Head(pass)].status]
  BY DEF Ask
<1>4. PassInv(trades, pass')
  BY <1>2, <1>3 DEF SlotInv
<1>5. RequestInv'
  <2>1. CASE request' = Void
    BY <2>1 DEF RequestInv
  <2>2. CASE pass' = pass /\ request' = [ident |-> Head(pass), at |-> instant, side |-> trades[Head(pass)].status]
    <3>1. trades[Head(pass)].status \in Statuses /\ Head(pass) \in RowIds /\ instant \in Nat
      BY <1>2 DEF SlotInv, SlotTypes, Table, Rows
    <3>2. request' \in Requests /\ request'.ident = Head(pass)
      BY <2>2, <3>1 DEF Requests, Statuses
    <3> QED BY <1>1, <2>2, <3>2 DEF RequestInv
  <2> QED BY <1>3, <2>1, <2>2
<1>6. SlotTypes' /\ FundedInv(trades', money', endowed')
  BY <1>1 DEF SlotInv, SlotTypes
<1>7. PassInv(trades', pass')
  BY <1>1, <1>4
<1> QED BY <1>5, <1>6, <1>7 DEF SlotInv, FundedInv, PassInv, Balance, Waiting, Bought, Taken, Buying

LEMMA ReopenKeeps == SlotInv /\ Reopen => SlotInv'
<1> SUFFICES ASSUME SlotInv, Reopen PROVE SlotInv'
  OBVIOUS
<1>1. UNCHANGED <<instant, endowed, money, trades>> /\ pass' = <<>> /\ request' = Void
  BY DEF Reopen
<1>2. PassInv(trades', pass') /\ RequestInv'
  BY <1>1 DEF PassInv, RequestInv
<1>3. SlotTypes' /\ FundedInv(trades', money', endowed')
  BY <1>1 DEF SlotInv, SlotTypes
<1> QED BY <1>2, <1>3 DEF SlotInv

\* A trade is added.
LEMMA BalanceGrows ==
  ASSUME NEW f, Table(f), NEW g, Table(g), NEW i, i \notin DOMAIN f, DOMAIN g = DOMAIN f \cup {i},
         \A j \in DOMAIN f : g[j] = f[j]
  PROVE  Balance(g) = Balance(f) + Net(g, i)
<1> DEFINE D == DOMAIN f
           B(h) == [j \in DOMAIN h |-> h[j].got - h[j].cost]
<1>1. IsFiniteSet(D)
  BY DEF Table
<1>2. \A j \in D \cup {i} : B(g)[j] = Net(g, j) /\ B(g)[j] \in Int
  BY NetType DEF Net
<1>3. \A j \in D : B(g)[j] = B(f)[j]
  OBVIOUS
<1>4. Balance(g) = SumFunctionOnSet(B(g), D \cup {i}) /\ Balance(f) = SumFunctionOnSet(B(f), D)
  BY DEF Balance
<1> HIDE DEF B
<1>5. SumFunctionOnSet(B(g), D \cup {i}) = B(g)[i] + SumFunctionOnSet(B(g), D)
  BY <1>1, <1>2, SumInsert
<1>6. SumFunctionOnSet(B(g), D) = SumFunctionOnSet(B(f), D)
  BY <1>1, <1>3, SumSame
<1>7. Balance(f) \in Int /\ Net(g, i) \in Int
  BY BalanceFacts, NetType
<1> QED BY <1>2, <1>4, <1>5, <1>6, <1>7

LEMMA OfferKeeps == SlotInv /\ Offer => SlotInv'
<1> SUFFICES ASSUME SlotInv, Offer PROVE SlotInv'
  OBVIOUS
<1>0. /\ UNCHANGED <<instant, endowed, money, pass, request>>
      /\ instant \in Nat /\ endowed \in BOOLEAN /\ money \in Nat /\ Table(trades)
      /\ FundedInv(trades, money, endowed) /\ PassInv(trades, pass) /\ RequestInv
  BY DEF Offer, SlotInv, SlotTypes
<1>1. PICK i \in RowIds \ DOMAIN trades, s \in Coins, signal \in {instant, instant - STALE} :
        trades' = [j \in DOMAIN trades \cup {i} |-> IF j # i THEN trades[j]
          ELSE [symbol |-> s, signal |-> signal, deadline |-> signal + DEADLINE, ready |-> instant + DELAY,
                status |-> IF Refused(s, signal) THEN "SKIPPED" ELSE "ENTRY_PENDING",
                lots |-> 0, cost |-> 0, due |-> 0, exitReady |-> LastInstant, hash |-> Void, got |-> 0, close |-> 0]]
  BY DEF Offer
<1> DEFINE st == IF Refused(s, signal) THEN "SKIPPED" ELSE "ENTRY_PENDING"
           new == [symbol |-> s, signal |-> signal, deadline |-> signal + DEADLINE, ready |-> instant + DELAY,
                   status |-> st, lots |-> 0, cost |-> 0, due |-> 0, exitReady |-> LastInstant, hash |-> Void, got |-> 0,
                   close |-> 0]
           g == trades'
<1>2. /\ DOMAIN g = DOMAIN trades \cup {i} /\ g = [j \in DOMAIN g |-> g[j]]
      /\ g[i] = new /\ \A j \in DOMAIN trades : g[j] = trades[j]
  BY <1>1
<1>3. /\ new \in Rows /\ new.got = 0 /\ new.cost = 0 /\ new.status = st
      /\ st \in {"SKIPPED", "ENTRY_PENDING"}
  BY <1>0, SlotConstants DEF Rows, Statuses
<1>9. st = "ENTRY_PENDING" => endowed /\ money - SetAside >= SLOT
  <2>1. money - SetAside < SLOT <=> ~(money - SetAside >= SLOT)
    <3>1. SetAside \in Nat /\ SLOT \in Nat
      BY <1>0, SlotsMonotone, SlotConstants, WaitingFacts DEF SetAside
    <3> QED BY <1>0, <3>1
  <2> QED BY <2>1 DEF Refused
<1> HIDE DEF new, st, g
<1>4. Table(g)
  <2>1. IsFiniteSet(DOMAIN g) /\ DOMAIN g \in SUBSET RowIds
    BY <1>0, <1>2, FS_AddElement DEF Table
  <2>2. \A j \in DOMAIN g : g[j] \in Rows /\ (g[j].status \in {"ENTRY_PENDING", "SKIPPED"} => g[j].got = 0 /\ g[j].cost = 0)
    BY <1>0, <1>2, <1>3 DEF Table
  <2> QED BY <1>2, <2>1, <2>2 DEF Table
<1>5. Balance(g) = Balance(trades)
  <2>1. Net(g, i) = 0
    BY <1>2, <1>3 DEF Net
  <2>2. Balance(g) = Balance(trades) + Net(g, i)
    BY <1>0, <1>2, <1>4, BalanceGrows
  <2>3. Balance(trades) \in Int
    BY <1>0, BalanceFacts
  <2> QED BY <2>1, <2>2, <2>3
<1>6. FundedInv(g, money, endowed)
  <2>1. CASE st = "SKIPPED"
    <3>1. Waiting(g) \subseteq Waiting(trades)
      BY <1>0, <1>2, <1>3, <1>4, <2>1, WaitingFacts
    <3>2. money >= SLOT * Cardinality(Waiting(g))
      BY <1>0, <1>4, <3>1, FewerWait DEF FundedInv
    <3>3. ~endowed => \A j \in DOMAIN g : g[j].status = "SKIPPED"
      BY <1>0, <1>2, <1>3, <2>1 DEF FundedInv
    <3> QED BY <1>0, <1>5, <3>2, <3>3 DEF FundedInv
  <2>2. CASE st = "ENTRY_PENDING"
    <3>1. Waiting(g) = Waiting(trades) \cup {i} /\ i \notin Waiting(trades)
      BY <1>0, <1>2, <1>3, <1>4, <2>2, WaitingFacts
    <3>2. Cardinality(Waiting(g)) = Cardinality(Waiting(trades)) + 1 /\ Cardinality(Waiting(trades)) \in Nat
      BY <1>0, <3>1, WaitingFacts, FS_AddElement
    <3>3. SLOT * Cardinality(Waiting(g)) = SLOT * Cardinality(Waiting(trades)) + SLOT
          /\ SLOT * Cardinality(Waiting(trades)) \in Nat
      BY <3>2, SlotsMonotone
    <3>4. money >= SLOT * Cardinality(Waiting(g)) /\ endowed
      BY <1>0, <1>9, <2>2, <3>3, SlotConstants DEF SetAside
    <3> QED BY <1>0, <1>5, <3>4 DEF FundedInv
  <2> QED BY <1>3, <2>1, <2>2
<1>7. PassInv(g, pass)
  <2>1. \A j \in DOMAIN trades : Buying(g, j) <=> Buying(trades, j)
    BY <1>2 DEF Buying
  <2> QED BY <1>0, <1>2, <2>1, PassStays
<1>8. SlotTypes' /\ RequestInv'
  BY <1>0, <1>4 DEF SlotTypes, RequestInv, g
<1>10. FundedInv(trades', money', endowed') /\ PassInv(trades', pass')
  BY <1>0, <1>6, <1>7 DEF g
<1> QED BY <1>8, <1>10 DEF SlotInv

LEMMA BeginKeeps == SlotInv /\ Begin => SlotInv'
<1> SUFFICES ASSUME SlotInv, Begin PROVE SlotInv'
  OBVIOUS
<1>0. /\ instant \in Nat /\ endowed \in BOOLEAN /\ money \in Nat /\ Table(trades)
      /\ FundedInv(trades, money, endowed) /\ RequestInv
  BY DEF SlotInv, SlotTypes
<1>1. /\ trades' = Advanced(trades) /\ pass' = Plan(trades') /\ UNCHANGED <<instant, request>> /\ request = Void
      /\ \/ endowed /\ UNCHANGED <<endowed, money>>
         \/ ~endowed /\ endowed' = TRUE /\ money' = SEED
  BY DEF Begin
<1>2. Table(trades') /\ FundedInv(trades', money, endowed)
  BY <1>0, <1>1, AdvancedFacts, AdvancedKeeps
<1>3. PassInv(trades', pass')
  BY <1>1, <1>2, PlanFacts
<1>4. FundedInv(trades', money', endowed')
  <2>1. CASE endowed /\ UNCHANGED <<endowed, money>>
    BY <1>2, <2>1
  <2>2. CASE ~endowed /\ endowed' = TRUE /\ money' = SEED
    <3> DEFINE g == trades'
    <3>1. Table(g) /\ \A i \in DOMAIN g : g[i].status = "SKIPPED"
      BY <1>2, <2>2 DEF FundedInv
    <3> HIDE DEF g
    <3>2. Waiting(g) = {}
      BY <3>1, WaitingFacts
    <3>3. SLOT * Cardinality(Waiting(g)) = 0
      BY <3>2, FS_EmptySet, SlotConstants
    <3>4. Balance(g) = 0
      <4> DEFINE B == [i \in DOMAIN g |-> g[i].got - g[i].cost]
                 D == DOMAIN g
      <4>1. IsFiniteSet(D) /\ \A i \in D : B[i] = 0
        BY <3>1 DEF Table
      <4>2. Balance(g) = SumFunctionOnSet(B, D)
        BY DEF Balance
      <4> HIDE DEF B, D
      <4>3. SumFunctionOnSet(B, D) = Cardinality(D) * 0 /\ Cardinality(D) \in Nat
        BY <4>1, SumConstant, FS_CardinalityType
      <4> QED BY <4>2, <4>3
    <3> QED BY <2>2, <3>3, <3>4, SlotConstants DEF FundedInv, g
  <2> QED BY <1>1, <2>1, <2>2
<1>5. SlotTypes' /\ RequestInv'
  BY <1>0, <1>1, <1>2, SlotConstants DEF SlotTypes, RequestInv
<1> QED BY <1>3, <1>4, <1>5 DEF SlotInv

\* The trade at hand changes, and the money with it.
LEMMA HandledKeeps ==
  ASSUME SlotInv, request # Void, NEW f, f = Advanced(trades), NEW i, i = request.ident,
         NEW new \in Rows, new.status \in {"ENTRY_PENDING", "SKIPPED"} => new.got = 0 /\ new.cost = 0,
         new.status # "ENTRY_PENDING", f[i].status \in {"ENTRY_PENDING", "EXIT_PENDING"},
         trades' = [f EXCEPT ![i] = new], NEW d \in Int, money' = money + d, money + d \in Nat,
         new.got - new.cost = Net(f, i) + d,
         f[i].status = "EXIT_PENDING" => d >= 0,
         f[i].status = "ENTRY_PENDING" => d + SLOT >= 0,
         request' = Void, pass' = Tail(pass), UNCHANGED <<instant, endowed>>
  PROVE  SlotInv'
<1>0. /\ instant \in Nat /\ endowed \in BOOLEAN /\ money \in Nat /\ Table(trades)
      /\ FundedInv(trades, money, endowed) /\ PassInv(trades, pass) /\ RequestInv
  BY DEF SlotInv, SlotTypes
<1>1. pass # <<>> /\ i = Head(pass)
  BY <1>0 DEF RequestInv
<1>2. /\ Table(f) /\ DOMAIN f = DOMAIN trades /\ FundedInv(f, money, endowed)
      /\ \A j \in DOMAIN f : Buying(f, j) <=> Buying(trades, j)
  BY <1>0, AdvancedFacts, AdvancedKeeps
<1>3. i \in DOMAIN f
  BY <1>0, <1>1, <1>2, TailStays
<1> DEFINE g == trades'
<1>4. DOMAIN g = DOMAIN f /\ g = [j \in DOMAIN g |-> g[j]] /\ g[i] = new /\ \A j \in DOMAIN f \ {i} : g[j] = f[j]
  BY <1>2, <1>3 DEF Table
<1> HIDE DEF g
<1>5. Table(g)
  <2>1. \A j \in DOMAIN g : g[j] \in Rows /\ (g[j].status \in {"ENTRY_PENDING", "SKIPPED"} => g[j].got = 0 /\ g[j].cost = 0)
    BY <1>2, <1>4 DEF Table
  <2> QED BY <1>2, <1>4, <2>1 DEF Table
<1>6. PassInv(g, Tail(pass))
  <2>1. \A j \in DOMAIN trades \ {Head(pass)} : Buying(g, j) <=> Buying(trades, j)
    BY <1>1, <1>2, <1>4 DEF Buying
  <2> QED BY <1>0, <1>1, <1>2, <1>4, <2>1, TailStays
<1>7. Balance(g) = Balance(f) + d
  <2>1. \A j \in DOMAIN f \ {i} : Net(g, j) = Net(f, j)
    BY <1>4 DEF Net
  <2>2. Net(g, i) = Net(f, i) + d
    BY <1>4 DEF Net
  <2>3. Balance(g) = Balance(f) - Net(f, i) + Net(g, i)
    BY <1>2, <1>3, <1>4, <1>5, <2>1, BalanceFacts
  <2>4. Balance(f) \in Int /\ Net(f, i) \in Int
    BY <1>2, <1>3, BalanceFacts, NetType
  <2> QED BY <2>2, <2>3, <2>4
<1>8. endowed
  BY <1>2, <1>3 DEF FundedInv
<1>9. money + d >= SLOT * Cardinality(Waiting(g))
  <2>1. Waiting(g) = Waiting(f) \ {i}
    BY <1>2, <1>3, <1>4, <1>5, WaitingFacts
  <2>2. money >= SLOT * Cardinality(Waiting(f))
    BY <1>2 DEF FundedInv
  <2>3. IsFiniteSet(Waiting(f)) /\ Cardinality(Waiting(f)) \in Nat /\ Cardinality(Waiting(g)) \in Nat
    BY <1>2, <1>5, WaitingFacts
  <2>4. CASE f[i].status = "EXIT_PENDING"
    <3>1. money >= SLOT * Cardinality(Waiting(g))
      BY <1>0, <1>2, <1>5, <2>1, <2>2, FewerWait
    <3>2. SLOT * Cardinality(Waiting(g)) \in Nat
      BY <2>3, SlotsMonotone
    <3> QED BY <1>0, <2>4, <3>1, <3>2
  <2>5. CASE f[i].status = "ENTRY_PENDING"
    <3>1. i \in Waiting(f)
      BY <1>2, <1>3, <2>5, WaitingFacts
    <3>2. Cardinality(Waiting(f)) = Cardinality(Waiting(g)) + 1
      <4>1. Cardinality(Waiting(f) \ {i}) = Cardinality(Waiting(f)) - 1
        BY <2>3, <3>1, FS_RemoveElement
      <4> QED BY <2>1, <2>3, <4>1
    <3>3. SLOT * Cardinality(Waiting(f)) = SLOT * Cardinality(Waiting(g)) + SLOT /\ SLOT * Cardinality(Waiting(g)) \in Nat
      BY <2>3, <3>2, SlotsMonotone
    <3> QED BY <1>0, <2>2, <2>5, <3>3, SlotConstants
  <2> QED BY <2>4, <2>5
<1>10. FundedInv(g, money + d, endowed)
  <2>1. money = SEED + Balance(f) /\ Balance(f) \in Int
    BY <1>2, <1>8, BalanceFacts DEF FundedInv
  <2>2. money + d = SEED + Balance(g)
    BY <1>0, <1>7, <2>1, SlotConstants
  <2> QED BY <1>8, <1>9, <2>2 DEF FundedInv
<1>11. SlotTypes' /\ RequestInv'
  BY <1>0, <1>5 DEF SlotTypes, RequestInv, g
<1>12. FundedInv(trades', money', endowed') /\ PassInv(trades', pass')
  BY <1>6, <1>10 DEF g
<1> QED BY <1>11, <1>12 DEF SlotInv

\* A row that is bought, and one of which a part is sold.
BoughtOf(t, lots, cost, due) == [t EXCEPT !.status = "OPEN", !.lots = lots, !.cost = cost, !.due = due]
SoldOf(t, lots, cost, v, got, st, at) ==
  [t EXCEPT !.lots = lots, !.cost = cost, !.hash = v, !.got = got, !.status = st, !.close = at]

LEMMA BoughtRow ==
  ASSUME NEW t \in Rows, NEW lots \in Nat, NEW cost \in Int, NEW due \in Int,
         NEW n, n = BoughtOf(t, lots, cost, due)
  PROVE  n \in Rows /\ n.status = "OPEN" /\ n.got = t.got /\ n.cost = cost
BY DEF Rows, Statuses, BoughtOf

LEMMA AnswerKeeps == SlotInv /\ Answer => SlotInv'
<1> SUFFICES ASSUME SlotInv, Answer PROVE SlotInv'
  OBVIOUS
<1> DEFINE i == request.ident
           f == Advanced(trades)
<1>0. /\ instant \in Nat /\ endowed \in BOOLEAN /\ money \in Nat /\ Table(trades)
      /\ FundedInv(trades, money, endowed) /\ PassInv(trades, pass) /\ RequestInv
  BY DEF SlotInv, SlotTypes
<1>1. /\ request # Void /\ request' = Void /\ pass' = Tail(pass) /\ UNCHANGED <<instant, endowed>>
      /\ \/ f[i].status = "ENTRY_PENDING" /\ Purchase(f, i)
         \/ f[i].status = "EXIT_PENDING" /\ Sale(f, i)
         \/ trades' = f /\ UNCHANGED money
  BY DEF Answer
<1>2. /\ Table(f) /\ DOMAIN f = DOMAIN trades /\ FundedInv(f, money, endowed)
      /\ \A j \in DOMAIN f : Buying(f, j) <=> Buying(trades, j)
  BY <1>0, AdvancedFacts, AdvancedKeeps
<1>3. pass # <<>> /\ i = Head(pass) /\ i \in DOMAIN f
  <2>1. pass # <<>> /\ i = Head(pass)
    BY <1>0, <1>1 DEF RequestInv
  <2> QED BY <1>0, <1>2, <2>1, TailStays
<1>4. f[i] \in Rows /\ (f[i].status \in {"ENTRY_PENDING", "SKIPPED"} => f[i].got = 0 /\ f[i].cost = 0)
  BY <1>2, <1>3 DEF Table
<1>11. f = Advanced(trades) /\ i = request.ident
  OBVIOUS
<1> HIDE DEF f, i
<1>5. CASE f[i].status = "ENTRY_PENDING" /\ Skip(f, i)
  <2> DEFINE new == [f[i] EXCEPT !.status = "SKIPPED"]
  <2>1. trades' = [f EXCEPT ![i] = new] /\ money' = money + 0
    BY <1>0, <1>5 DEF Skip
  <2>2. new \in Rows /\ new.status = "SKIPPED" /\ new.got = 0 /\ new.cost = 0
    BY <1>4, <1>5 DEF Rows, Statuses
  <2>3. new.got - new.cost = Net(f, i) + 0
    BY <1>4, <1>5, <2>2 DEF Net
  <2> HIDE DEF new
  <2>4. money + 0 \in Nat /\ 0 + SLOT >= 0
    BY <1>0, SlotConstants
  <2>5. PICK d \in Int : /\ d = 0 /\ money' = money + d /\ money + d \in Nat
                         /\ new.got - new.cost = Net(f, i) + d /\ d + SLOT >= 0
    BY <2>1, <2>3, <2>4
  <2> QED BY <1>1, <1>5, <1>11, <2>1, <2>2, <2>5, HandledKeeps
<1>6. CASE /\ f[i].status = "ENTRY_PENDING" /\ SLOT <= money /\ money' = money - SLOT
           /\ trades' = [f EXCEPT ![i] = [f[i] EXCEPT !.status = "OPEN", !.lots = Lots, !.cost = SLOT,
                                                   !.due = Min({instant + HOLD, f[i].deadline})]]
  <2> DEFINE due == Min({instant + HOLD, f[i].deadline})
             new == [f[i] EXCEPT !.status = "OPEN", !.lots = Lots, !.cost = SLOT, !.due = due]
  <2>0. SLOT \in Nat /\ Lots \in Nat
    BY SlotConstants
  <2>1. trades' = [f EXCEPT ![i] = new] /\ money' = money + (-SLOT) /\ money + (-SLOT) \in Nat
    BY <1>0, <1>6, <2>0
  <2>2. due \in Int
    <3>1. instant + HOLD \in Int /\ f[i].deadline \in Int
      BY <1>0, <1>4, SlotConstants DEF Rows
    <3>2. \E x \in {instant + HOLD, f[i].deadline} : \A y \in {instant + HOLD, f[i].deadline} : x <= y
      BY <3>1
    <3> QED BY <3>1, <3>2 DEF Min
  <2> HIDE DEF due
  <2>6. new = BoughtOf(f[i], Lots, SLOT, due)
    BY DEF BoughtOf
  <2> HIDE DEF new
  <2>3. new \in Rows /\ new.status = "OPEN" /\ new.got = 0 /\ new.cost = SLOT
    <3>1. new \in Rows /\ new.status = "OPEN" /\ new.got = f[i].got /\ new.cost = SLOT
      <4>1. f[i] \in Rows /\ Lots \in Nat /\ SLOT \in Int /\ due \in Int
        BY <1>4, <2>0, <2>2
      <4> QED BY <2>6, <4>1, BoughtRow
    <3> QED BY <1>4, <1>6, <3>1
  <2>4. new.got - new.cost = Net(f, i) + (-SLOT)
    BY <1>4, <1>6, <2>0, <2>3 DEF Net
  <2> HIDE DEF new
  <2>5. -SLOT \in Int /\ (-SLOT) + SLOT >= 0
    BY <2>0
  <2> QED BY <1>1, <1>6, <1>11, <2>1, <2>3, <2>4, <2>5, HandledKeeps
<1>7. ASSUME f[i].status = "EXIT_PENDING",
             NEW v \in Views \ {f[i].hash}, NEW q \in 1 .. f[i].lots, NEW price \in SellPrices,
             money' = money + q * price,
             trades' = [f EXCEPT ![i] = [f[i] EXCEPT !.lots = @ - q, !.cost = @ - q * LotCost, !.hash = v,
                                        !.got = @ + q * price - q * LotCost,
                                        !.status = IF q = f[i].lots THEN "CLOSED" ELSE @,
                                        !.close = instant]]
      PROVE  SlotInv'
  <2> DEFINE brought == q * price
             spent == q * LotCost
             st == IF q = f[i].lots THEN "CLOSED" ELSE f[i].status
             new == [f[i] EXCEPT !.lots = @ - q, !.cost = @ - spent, !.hash = v, !.got = @ + brought - spent,
                                 !.status = st, !.close = instant]
  <2>0. f[i].lots \in Nat /\ q \in Nat /\ q <= f[i].lots /\ price \in Nat /\ LotCost \in Nat
    BY <1>4, SlotConstants DEF Rows
  <2>1. brought \in Nat /\ spent \in Nat
    BY <2>0
  <2>2. trades' = [f EXCEPT ![i] = new] /\ money' = money + brought
    BY <1>7
  <2>6. st \in {"CLOSED", "EXIT_PENDING"}
    BY <1>7
  <2> HIDE DEF brought, spent, st
  <2> DEFINE lots == f[i].lots - q
             cost == f[i].cost - spent
             got == f[i].got + brought - spent
  <2>7. new = SoldOf(f[i], lots, cost, v, got, st, instant)
    BY DEF SoldOf
  <2>11. lots \in Nat /\ cost \in Int /\ got \in Int /\ instant \in Int
    <3>1. f[i].lots \in Nat /\ f[i].cost \in Int /\ f[i].got \in Int
      BY <1>4 DEF Rows
    <3> QED BY <1>0, <2>0, <2>1, <3>1
  <2>12. got = f[i].got + brought - spent /\ cost = f[i].cost - spent
    OBVIOUS
  <2>13. v \in Views /\ st \in Statuses
    BY <1>7, <2>6 DEF Statuses
  <2>14. f[i] \in Rows
    BY <1>4
  <2> HIDE DEF new, lots, cost, got
  <2>3. /\ new \in Rows /\ new.status \in {"CLOSED", "EXIT_PENDING"}
        /\ new.got = f[i].got + brought - spent /\ new.cost = f[i].cost - spent
    <3>1. new \in Rows /\ new.status = st /\ new.got = got /\ new.cost = cost
      BY <2>7, <2>11, <2>13, <2>14 DEF Rows, SoldOf
    <3> QED BY <2>6, <2>12, <3>1
  <2>4. new.got - new.cost = Net(f, i) + brought
    <3>1. f[i].got \in Int /\ f[i].cost \in Int
      BY <1>4 DEF Rows
    <3> QED BY <2>1, <2>3, <3>1 DEF Net
  <2>5. money + brought \in Nat
    BY <1>0, <2>1
  <2>8. PICK d \in Int : /\ d >= 0 /\ money' = money + d /\ money + d \in Nat /\ new.got - new.cost = Net(f, i) + d
    BY <2>1, <2>2, <2>4, <2>5
  <2>9. trades' = [f EXCEPT ![i] = new] /\ f[i].status = "EXIT_PENDING"
    BY <1>7, <2>2
  <2>10. request # Void /\ request' = Void /\ pass' = Tail(pass) /\ UNCHANGED <<instant, endowed>>
    BY <1>1
  <2> QED BY <1>11, <2>3, <2>8, <2>9, <2>10, HandledKeeps
<1>8. CASE trades' = f /\ UNCHANGED money
  <2>1. PassInv(f, Tail(pass))
    BY <1>0, <1>2, <1>3, TailStays
  <2>2. PassInv(trades', pass') /\ FundedInv(trades', money', endowed')
    BY <1>1, <1>2, <1>8, <2>1
  <2>3. SlotTypes' /\ RequestInv'
    BY <1>0, <1>1, <1>2, <1>8 DEF SlotTypes, RequestInv
  <2> QED BY <2>2, <2>3 DEF SlotInv
<1>9. CASE f[i].status = "ENTRY_PENDING" /\ Purchase(f, i)
  <2>1. \/ Skip(f, i)
        \/ /\ SLOT <= money /\ money' = money - SLOT
           /\ trades' = [f EXCEPT ![i] = [f[i] EXCEPT !.status = "OPEN", !.lots = Lots, !.cost = SLOT,
                                                   !.due = Min({instant + HOLD, f[i].deadline})]]
    BY <1>9 DEF Purchase
  <2> QED BY <1>5, <1>6, <1>9, <2>1
<1>10. CASE f[i].status = "EXIT_PENDING" /\ Sale(f, i)
  <2> QED BY <1>7, <1>10 DEF Sale
<1> QED BY <1>1, <1>8, <1>9, <1>10

LEMMA SlotStutter == SlotInv /\ UNCHANGED lvars => SlotInv'
<1> SUFFICES ASSUME SlotInv, UNCHANGED lvars PROVE SlotInv'
  OBVIOUS
<1>1. UNCHANGED <<instant, endowed, money, trades, pass, request>>
  BY DEF lvars
<1> QED BY <1>1 DEF SlotInv, SlotTypes, RequestInv

\* The promises stay covered, and a pass keeps its order.
THEOREM SlotInvInvariant == LSpec => []SlotInv
<1>1. SlotInv /\ [LNext]_lvars => SlotInv'
  BY LaterKeeps, OfferKeeps, BeginKeeps, AskKeeps, AnswerKeeps, ReopenKeeps, SlotStutter DEF LNext
<1> QED BY <1>1, SlotInitial, PTL DEF LSpec

\* The account can pay for every signal it accepted, and money is conserved.
THEOREM PromisesFunded == LSpec => []PromisesAreFunded
<1>1. SlotInv => PromisesAreFunded
  BY DEF SlotInv, FundedInv, PromisesAreFunded
<1> QED BY <1>1, SlotInvInvariant, PTL

\* A purchase comes after every sale of its pass, with nothing overdue, in time.
LEMMA AnswerSells == SlotInv /\ Answer => SaleComesFirst
<1> SUFFICES ASSUME SlotInv, Answer, NEW k \in DOMAIN trades,
                    trades[k].status = "ENTRY_PENDING", trades'[k].status = "OPEN"
             PROVE  /\ instant <= trades[k].signal + ENTRY_TTL
                    /\ \A j \in Bought(trades) : instant < trades[j].deadline
                    /\ \A j \in Range(pass) : trades[j].status # "EXIT_PENDING"
  BY DEF SaleComesFirst
<1> DEFINE i == request.ident
           f == Advanced(trades)
<1>0. instant \in Nat /\ Table(trades) /\ PassInv(trades, pass) /\ RequestInv
  BY DEF SlotInv, SlotTypes
<1>1. /\ request # Void
      /\ \/ f[i].status = "ENTRY_PENDING" /\ Purchase(f, i)
         \/ f[i].status = "EXIT_PENDING" /\ Sale(f, i)
         \/ trades' = f
  BY DEF Answer
<1>2. /\ Table(f) /\ DOMAIN f = DOMAIN trades
      /\ \A j \in DOMAIN f : /\ f[j].deadline = trades[j].deadline
                             /\ f[j].status = "ENTRY_PENDING" => f[j] = trades[j]
                             /\ f[j].status = "OPEN" => trades[j].status = "OPEN"
                             /\ trades[j].status \in {"OPEN", "EXIT_PENDING"} => f[j].status \in {"OPEN", "EXIT_PENDING"}
  BY <1>0, AdvancedFacts
<1>3. pass # <<>> /\ i = Head(pass) /\ i \in DOMAIN f
  <2>1. pass # <<>> /\ i = Head(pass)
    BY <1>0, <1>1 DEF RequestInv
  <2>2. \A j \in DOMAIN trades : Buying(trades, j) <=> Buying(trades, j)
    OBVIOUS
  <2> QED BY <1>0, <1>2, <2>1, <2>2, TailStays
<1> HIDE DEF f, i
<1>4. f[k].status # "OPEN"
  BY <1>2
<1>5. trades' # f
  BY <1>4
<1>6. ~(f[i].status = "EXIT_PENDING" /\ Sale(f, i))
  <2> SUFFICES ASSUME f[i].status = "EXIT_PENDING", Sale(f, i) PROVE FALSE
    OBVIOUS
  <2>1. PICK n : trades' = [f EXCEPT ![i] = n] /\ n.status \in {"CLOSED", "EXIT_PENDING"}
    <3>1. f[i] \in Rows
      BY <1>2, <1>3 DEF Table
    <3>2. PICK v \in Views \ {f[i].hash}, q \in 1 .. f[i].lots, price \in SellPrices :
             trades' = [f EXCEPT ![i] = [f[i] EXCEPT !.lots = @ - q, !.cost = @ - q * LotCost, !.hash = v,
                                        !.got = @ + q * price - q * LotCost,
                                        !.status = IF q = f[i].lots THEN "CLOSED" ELSE @,
                                        !.close = instant]]
      BY DEF Sale
    <3> DEFINE n == [f[i] EXCEPT !.lots = @ - q, !.cost = @ - q * LotCost, !.hash = v,
                                 !.got = @ + q * price - q * LotCost,
                                 !.status = IF q = f[i].lots THEN "CLOSED" ELSE @,
                                 !.close = instant]
    <3>3. n.status \in {"CLOSED", "EXIT_PENDING"}
      BY <3>1 DEF Rows
    <3>4. trades' = [f EXCEPT ![i] = n]
      BY <3>2
    <3> QED BY <3>3, <3>4
  <2>2. \A j \in DOMAIN f : trades'[j] = IF j = i THEN n ELSE f[j]
    BY <1>2, <2>1 DEF Table
  <2> QED BY <1>2, <1>4, <2>1, <2>2
<1>7. f[i].status = "ENTRY_PENDING" /\ Purchase(f, i)
  BY <1>1, <1>5, <1>6
<1>8. ~Skip(f, i)
  <2> SUFFICES ASSUME trades' = [f EXCEPT ![i].status = "SKIPPED"] PROVE FALSE
    BY DEF Skip
  <2>1. f[i] \in Rows
    BY <1>2, <1>3 DEF Table
  <2>2. \A j \in DOMAIN f : trades'[j] = IF j = i THEN [f[i] EXCEPT !.status = "SKIPPED"] ELSE f[j]
    BY <1>2, <1>3 DEF Table
  <2>3. [f[i] EXCEPT !.status = "SKIPPED"].status = "SKIPPED"
    BY <2>1 DEF Rows
  <2> QED BY <1>2, <1>4, <2>2, <2>3
<1>9. /\ ~(instant > f[i].signal + ENTRY_TTL) /\ ~Overdue(f)
      /\ trades' = [f EXCEPT ![i] = [f[i] EXCEPT !.status = "OPEN", !.lots = Lots, !.cost = SLOT,
                                              !.due = Min({instant + HOLD, f[i].deadline})]]
  BY <1>7, <1>8 DEF Purchase
<1>10. k = i
  <2>1. \A j \in DOMAIN f \ {i} : trades'[j] = f[j]
    BY <1>2, <1>9 DEF Table
  <2> QED BY <1>2, <1>4, <2>1
<1>11. instant <= trades[k].signal + ENTRY_TTL
  <2>1. f[i] = trades[k] /\ trades[k].signal \in Int
    BY <1>0, <1>2, <1>3, <1>7, <1>10 DEF Table, Rows
  <2> QED BY <1>0, <1>9, <2>1, SlotConstants
<1>12. ASSUME NEW j \in Bought(trades) PROVE instant < trades[j].deadline
  <2>1. j \in DOMAIN f /\ j \in Bought(f)
    BY <1>0, <1>2, WaitingFacts
  <2>2. f[j].deadline = trades[j].deadline /\ trades[j].deadline \in Int
    BY <1>0, <1>2, <2>1 DEF Table, Rows
  <2> QED BY <1>0, <1>9, <2>1, <2>2 DEF Overdue
<1>13. ASSUME NEW j \in Range(pass) PROVE trades[j].status # "EXIT_PENDING"
  <2>1. PICK l \in DOMAIN pass : j = pass[l]
    BY DEF Range
  <2>2. pass \in Seq(DOMAIN trades) /\ DOMAIN pass = 1 .. Len(pass) /\ Len(pass) \in Nat \ {0} /\ Head(pass) = pass[1]
    BY <1>0, <1>3 DEF PassInv
  <2>3. Buying(trades, pass[1])
    BY <1>3, <1>10, <2>2 DEF Buying
  <2>4. 1 \in DOMAIN pass /\ (l # 1 => 1 < l)
    BY <2>2
  <2>5. Buying(trades, j)
    BY <1>0, <2>1, <2>3, <2>4 DEF PassInv
  <2> QED BY <2>5 DEF Buying
<1> QED BY <1>11, <1>12, <1>13

THEOREM SalesFirst == LSpec => SalesComeFirst
<1>1. SlotInv /\ [LNext]_lvars => SaleComesFirst \/ UNCHANGED lvars
  <2> SUFFICES ASSUME SlotInv, LNext PROVE SaleComesFirst
    OBVIOUS
  <2>0. instant \in Nat /\ Table(trades)
    BY DEF SlotInv, SlotTypes
  <2>1. CASE Later \/ Ask \/ Reopen
    <3>1. trades' = trades
      BY <2>1 DEF Later, Ask, Reopen
    <3> QED BY <3>1 DEF SaleComesFirst
  <2>2. CASE Offer
    <3>1. \A j \in DOMAIN trades : trades'[j] = trades[j]
      BY <2>2 DEF Offer
    <3> QED BY <3>1 DEF SaleComesFirst
  <2>3. CASE Begin
    <3>1. trades' = Advanced(trades)
      BY <2>3 DEF Begin
    <3>2. \A j \in DOMAIN trades : trades'[j].status = "OPEN" => trades[j].status = "OPEN"
      BY <2>0, <3>1, AdvancedFacts
    <3> QED BY <3>2 DEF SaleComesFirst
  <2>4. CASE Answer
    BY <2>4, AnswerSells
  <2> QED BY <2>1, <2>2, <2>3, <2>4 DEF LNext
<1> QED BY <1>1, SlotInvInvariant, PTL DEF LSpec, SalesComeFirst

-----------------------------------------------------------------------------
(* AccountsReport: how old the oldest answer behind a price may be.         *)

\* The age that a rate of exchange may add.
RateAge == Max({LAG, CACHE - 1})

LEMMA RateAgeBounds == RateAge \in Nat /\ RateAge >= CACHE - 1 /\ RateAge >= LAG
<1> DEFINE S == {LAG, CACHE - 1}
           n == CACHE + LAG
<1>1. S \in SUBSET Nat /\ S # {} /\ n \in Nat /\ \A x \in S : x <= n
  BY AccountsAssumption
<1>2. Max(S) \in S /\ \A x \in S : Max(S) >= x
  <2> HIDE DEF S, n
  <2> QED BY <1>1, MaxIsOne
<1> QED BY <1>1, <1>2 DEF RateAge

\* A time, and an answer that is no older than so much before it.
Quotes == [at : Int, oldest : Int]
Aged(n, q) == q \in Quotes /\ q.oldest >= q.at - n

Places == {"upbit", "binance", "kraken", "bithumb"}
Things == UNION {Holdings[v] : v \in Places}
QuoteKeys == (Places \X Things) \cup {Rate}

CacheInv == DOMAIN cache \subseteq QuoteKeys /\ \A k \in DOMAIN cache : Aged(BookBehind(k[1]), cache[k])

LEMMA BehindBounds ==
  /\ LAG \in Nat /\ CACHE \in Nat \ {0} /\ RateAge \in Nat /\ RateAge >= CACHE - 1 /\ RateAge >= LAG
  /\ \A v : Delay(v) \in Nat /\ (v = "kraken" => Delay(v) = LAG)
  /\ \A v : BookBehind(v) \in Nat
  /\ \A v : v \in Home => BookBehind(v) = LAG
  /\ \A v : v \notin Home => BookBehind(v) = LAG + Delay(v) + RateAge
  /\ \A v, a : Behind(v, a) \in Nat
  /\ \A v, a : a = Usdt => Behind(v, a) = LAG + CACHE - 1
  /\ \A v, a : a = Usd => Behind(v, a) = 3 * LAG + CACHE - 1
  /\ \A v, a : a # Usdt /\ a # Usd => Behind(v, a) = BookBehind(v)
<1>1. /\ LAG \in Nat /\ CACHE \in Nat \ {0} /\ RateAge \in Nat /\ RateAge >= CACHE - 1 /\ RateAge >= LAG
      /\ Usdt # Usd
  BY AccountsAssumption, RateAgeBounds
<1>2. \A v : Delay(v) \in Nat /\ (v = "kraken" => Delay(v) = LAG)
  BY <1>1 DEF Delay
<1>3. \A v : BookBehind(v) = IF v \in Home THEN LAG ELSE LAG + Delay(v) + RateAge
  BY DEF BookBehind, RateAge
<1>4. \A v : BookBehind(v) \in Nat
  BY <1>1, <1>2, <1>3
<1>5. \A v, a : Behind(v, a) \in Nat
  BY <1>1, <1>4 DEF Behind
<1> QED BY <1>1, <1>2, <1>3, <1>4, <1>5 DEF Behind

LEMMA CachedOne ==
  ASSUME NEW key, NEW s, NEW q \in Cached(key, s)
  PROVE  key \in DOMAIN cache /\ q = cache[key] /\ s - q.at < CACHE
BY DEF Cached

\* The least of two times.
LEMMA LeastOfTwo ==
  ASSUME NEW a \in Int, NEW b \in Int
  PROVE  Min({a, b}) \in {a, b}
<1>1. \E m \in {a, b} : \A y \in {a, b} : m <= y
  <2>1. CASE a <= b
    BY <2>1
  <2>2. CASE ~(a <= b)
    BY <2>2
  <2> QED BY <2>1, <2>2
<1> QED BY <1>1 DEF Min

\* A rate of exchange at hand: it was got then, or is the young one of the cache.
LEMMA RateIsAged ==
  ASSUME CacheInv, NEW s \in Int, NEW r \in Rates(s)
  PROVE  /\ Aged(LAG, r) /\ r.oldest >= s - LAG - (CACHE - 1)
         /\ Cached(Rate, s) = {} => r.oldest = s - LAG
<1>0. LAG \in Nat /\ CACHE \in Nat \ {0}
  BY BehindBounds
<1>1. CASE Cached(Rate, s) = {}
  <2>1. r = [at |-> s, oldest |-> s - LAG]
    BY <1>1 DEF Rates, Got
  <2> QED BY <1>0, <1>1, <2>1 DEF Aged, Quotes
<1>2. CASE Cached(Rate, s) # {}
  <2>1. r \in Cached(Rate, s)
    BY <1>2 DEF Rates
  <2>2. Rate \in DOMAIN cache /\ r = cache[Rate] /\ s - r.at < CACHE
    BY <2>1, CachedOne
  <2>3. Rate[1] \in Home
    BY DEF Rate, Home
  <2>4. Aged(LAG, r)
    BY <2>2, <2>3, BehindBounds DEF CacheInv
  <2> QED BY <1>0, <1>2, <2>2, <2>4 DEF Aged, Quotes
<1> QED BY <1>1, <1>2

\* What an outcome of mark() leaves in the cache.
Brought(keep) == DOMAIN keep \subseteq QuoteKeys /\ \A k \in DOMAIN keep : Aged(BookBehind(k[1]), keep[k])

LEMMA RateIsKept ==
  ASSUME NEW price, NEW r, Aged(LAG, r)
  PROVE  LET o == Outcome(price, {Rate}, r) IN o.price = price /\ Brought(o.keep)
<1>1. Rate[1] \in Home /\ Rate \in QuoteKeys
  BY DEF Rate, Home, QuoteKeys
<1> QED BY <1>1, BehindBounds DEF Outcome, Brought

LEMMA TetherIsAged ==
  ASSUME present \in Int, CacheInv, NEW o \in TetherMarks
  PROVE  Aged(LAG + CACHE - 1, o.price) /\ Brought(o.keep)
<1>0. LAG \in Nat /\ CACHE \in Nat
  BY BehindBounds
<1>1. PICK r \in Rates(present) : o = Outcome([r EXCEPT !.at = present], {Rate}, r)
  BY DEF TetherMarks
<1>2. Aged(LAG, r) /\ r.oldest >= present - LAG - (CACHE - 1)
  BY RateIsAged
<1>3. o.price = [r EXCEPT !.at = present] /\ Brought(o.keep)
  BY <1>1, <1>2, RateIsKept
<1> QED BY <1>0, <1>2, <1>3 DEF Aged, Quotes

LEMMA DollarIsAged ==
  ASSUME present \in Int, CacheInv, NEW o \in DollarMarks
  PROVE  Aged(3 * LAG + CACHE - 1, o.price) /\ Brought(o.keep)
<1>0. LAG \in Nat /\ CACHE \in Nat \ {0}
  BY BehindBounds
<1>1. PICK s \in Moments(2 * LAG) :
        \E r \in Rates(s) : o = Outcome([at |-> present, oldest |-> Min({r.oldest, present - LAG})], {Rate}, r)
  BY DEF DollarMarks
<1>2. s \in Int /\ s >= present - 2 * LAG
  BY <1>0 DEF Moments
<1>3. PICK r \in Rates(s) :
        o = Outcome([at |-> present, oldest |-> Min({r.oldest, present - LAG})], {Rate}, r)
  BY <1>1
<1>4. Aged(LAG, r) /\ r.oldest >= s - LAG - (CACHE - 1) /\ r.oldest \in Int
  BY <1>2, RateIsAged DEF Aged, Quotes
<1> DEFINE m == Min({r.oldest, present - LAG})
<1>5. m \in {r.oldest, present - LAG}
  BY <1>0, <1>4, LeastOfTwo
<1>6. o.price = [at |-> present, oldest |-> m] /\ Brought(o.keep)
  BY <1>3, <1>4, RateIsKept
<1> HIDE DEF m
<1> QED BY <1>0, <1>2, <1>4, <1>5, <1>6 DEF Aged, Quotes

LEMMA ForeignIsAged ==
  ASSUME present \in Int, CacheInv, NEW v \in Places \ Home, NEW a \in Things, NEW o \in ForeignMarks(v, a)
  PROVE  Aged(BookBehind(v), o.price) /\ Brought(o.keep)
<1>0. /\ LAG \in Nat /\ CACHE \in Nat \ {0} /\ RateAge \in Nat /\ RateAge >= CACHE - 1 /\ RateAge >= LAG
      /\ Delay(v) \in Nat /\ BookBehind(v) = LAG + Delay(v) + RateAge
  BY BehindBounds
<1> DEFINE From(s) == s - IF Cached(Rate, s) = {} THEN 2 * LAG ELSE LAG
           P(s, r) == [at |-> present, oldest |-> Min({r.oldest, From(s)})]
<1>1. PICK s \in Moments(Delay(v)) : \E r \in Rates(s) : o = Outcome(P(s, r), {<<v, a>>, Rate}, r)
  BY DEF ForeignMarks
<1>2. s \in Int /\ s >= present - Delay(v)
  BY <1>0 DEF Moments
<1>3. PICK r \in Rates(s) : o = Outcome(P(s, r), {<<v, a>>, Rate}, r)
  BY <1>1
<1>4. /\ Aged(LAG, r) /\ r.oldest >= s - LAG - (CACHE - 1) /\ r.oldest \in Int
      /\ Cached(Rate, s) = {} => r.oldest = s - LAG
  BY <1>2, RateIsAged DEF Aged, Quotes
<1> DEFINE f == From(s)
           m == Min({r.oldest, f})
<1>5. f \in Int /\ f >= s - LAG - RateAge /\ r.oldest >= s - LAG - RateAge
  BY <1>0, <1>2, <1>4
<1>6. m \in {r.oldest, f}
  <2> HIDE DEF f
  <2> QED BY <1>4, <1>5, LeastOfTwo
<1>7. P(s, r) = [at |-> present, oldest |-> m]
  OBVIOUS
<1> HIDE DEF P, m, f
<1>8. Aged(BookBehind(v), P(s, r))
  BY <1>0, <1>2, <1>4, <1>5, <1>6, <1>7 DEF Aged, Quotes
<1>9. Rate[1] \in Home /\ Rate \in QuoteKeys /\ <<v, a>> \in QuoteKeys /\ <<v, a>>[1] = v
  BY DEF Rate, Home, QuoteKeys
<1>10. /\ o.price = P(s, r) /\ DOMAIN o.keep = {<<v, a>>, Rate} /\ o.keep[Rate] = r
       /\ <<v, a>> # Rate /\ o.keep[<<v, a>>] = P(s, r)
  BY <1>3, <1>9 DEF Outcome
<1>11. Brought(o.keep)
  BY <1>4, <1>8, <1>9, <1>10, BehindBounds DEF Brought
<1> QED BY <1>8, <1>10, <1>11

LEMMA MarkIsAged ==
  ASSUME present \in Int, CacheInv, NEW v \in Places, NEW a \in Things, NEW o \in Marks(v, a)
  PROVE  Aged(Behind(v, a), o.price) /\ Brought(o.keep)
<1>1. CASE a = Usdt
  BY <1>1, TetherIsAged, BehindBounds DEF Marks
<1>2. CASE a # Usdt /\ a = Usd
  BY <1>2, DollarIsAged, BehindBounds DEF Marks
<1>3. CASE a # Usdt /\ a # Usd /\ Cached(<<v, a>>, present) # {}
  <2>1. PICK q \in Cached(<<v, a>>, present) : o = Outcome(q, {}, q)
    BY <1>3 DEF Marks
  <2>2. <<v, a>> \in DOMAIN cache /\ q = cache[<<v, a>>]
    BY <2>1, CachedOne
  <2>3. Aged(BookBehind(v), q)
    BY <2>2 DEF CacheInv
  <2>4. o.price = q /\ Brought(o.keep)
    BY <2>1 DEF Outcome, Brought
  <2> QED BY <1>3, <2>3, <2>4, BehindBounds
<1>4. CASE a # Usdt /\ a # Usd /\ Cached(<<v, a>>, present) = {} /\ v \in Home
  <2>1. o = Outcome(Got(present), {<<v, a>>}, Got(present))
    BY <1>4 DEF Marks
  <2>2. BookBehind(v) = LAG /\ LAG \in Nat
    BY <1>4, BehindBounds
  <2>3. Aged(BookBehind(v), Got(present))
    BY <2>2 DEF Got, Aged, Quotes
  <2>4. o.price = Got(present) /\ DOMAIN o.keep = {<<v, a>>} /\ o.keep[<<v, a>>] = Got(present)
    BY <2>1 DEF Outcome
  <2>5. Brought(o.keep)
    BY <2>3, <2>4 DEF Brought, QuoteKeys
  <2> QED BY <1>4, <2>3, <2>4, <2>5, BehindBounds
<1>5. CASE a # Usdt /\ a # Usd /\ Cached(<<v, a>>, present) = {} /\ v \notin Home
  <2>1. o \in ForeignMarks(v, a)
    BY <1>5 DEF Marks
  <2> QED BY <1>5, <2>1, ForeignIsAged, BehindBounds
<1> QED BY <1>1, <1>2, <1>3, <1>4, <1>5

LEMMA StoredKeeps ==
  ASSUME CacheInv, NEW keep, Brought(keep), NEW keys \in SUBSET (DOMAIN keep), cache' = Stored(keep, keys)
  PROVE  CacheInv'
<1>1. /\ DOMAIN cache' = keys \cup DOMAIN cache
      /\ \A k \in DOMAIN cache' : cache'[k] = IF k \in keys THEN keep[k] ELSE cache[k]
  BY DEF Stored
<1> QED BY <1>1 DEF CacheInv, Brought

\* A venue that was asked, and the prices it was given.
PriceLists == UNION {[named -> Quotes] : named \in SUBSET Things}
VenueRows == [observed : Int, oldest : Int, held : SUBSET Things, todo : SUBSET Things,
              prices : PriceLists, status : {"OK", "UNAVAILABLE", "PARTIAL_VALUATION", "STALE_VALUATION"}]
RowOf(r, v) ==
  /\ r.oldest = r.observed - Queries(v) * LAG
  /\ \A a \in DOMAIN r.prices : Aged(Behind(v, a), r.prices[a])
  /\ r.status = "OK" => r.held = DOMAIN r.prices \cup r.todo

AccInv ==
  /\ present \in Int /\ CacheInv
  /\ collected \in Seq(VenueRows) /\ Len(collected) <= 4
  /\ \A i \in DOMAIN collected : RowOf(collected[i], VENUES[i]) /\ collected[i].todo = {}
  /\ row # NoReport => row \in VenueRows /\ Len(collected) < 4 /\ RowOf(row, Venue)
  /\ TotalIsRecent

LEMMA FourVenues ==
  /\ Len(VENUES) = 4 /\ DOMAIN VENUES = 1 .. 4
  /\ \A n \in Nat : n < 4 => VENUES[n + 1] \in Places
  /\ \A v : Queries(v) \in Nat /\ LAG \in Nat /\ Queries(v) * LAG \in Nat
<1>1. Len(VENUES) = 4 /\ DOMAIN VENUES = 1 .. 4
  BY DEF VENUES
<1>2. VENUES[1] \in Places /\ VENUES[2] \in Places /\ VENUES[3] \in Places /\ VENUES[4] \in Places
  BY DEF VENUES, Places
<1>3. \A n \in Nat : n < 4 => VENUES[n + 1] \in Places
  <2> SUFFICES ASSUME NEW n \in Nat, n < 4 PROVE VENUES[n + 1] \in Places
    OBVIOUS
  <2>1. n + 1 = 1 \/ n + 1 = 2 \/ n + 1 = 3 \/ n + 1 = 4
    OBVIOUS
  <2> QED BY <1>2, <2>1
<1>4. \A v : Queries(v) \in Nat /\ LAG \in Nat /\ Queries(v) * LAG \in Nat
  BY BehindBounds DEF Queries
<1> QED BY <1>1, <1>3, <1>4

LEMMA BalancesKeeps == AccInv /\ Balances => AccInv'
<1> SUFFICES ASSUME AccInv, Balances PROVE AccInv'
  OBVIOUS
<1>1. /\ present \in Int /\ collected \in Seq(VenueRows) /\ Len(collected) \in Nat /\ Len(collected) < 4
      /\ UNCHANGED <<present, cache, collected, report>>
  BY FourVenues DEF AccInv, Balances
<1>2. PICK held \in SUBSET Holdings[Venue], ok \in BOOLEAN :
        row' = [observed |-> present, oldest |-> present - Queries(Venue) * LAG,
                held |-> IF ok THEN held ELSE {},
                todo |-> IF ok THEN held ELSE {}, prices |-> [a \in {} |-> NoReport],
                status |-> IF ok THEN "OK" ELSE "UNAVAILABLE"]
  BY DEF Balances
<1>3. held \in SUBSET Things
  BY <1>1, <1>2, FourVenues DEF Things, Venue
<1>4. [a \in {} |-> NoReport] \in PriceLists
  <2>1. [a \in {} |-> NoReport] \in [{} -> Quotes] /\ {} \in SUBSET Things
    OBVIOUS
  <2> QED BY <2>1 DEF PriceLists
<1>5. Queries(Venue) * LAG \in Int
  BY FourVenues
<1>6. row' \in VenueRows
  BY <1>1, <1>2, <1>3, <1>4, <1>5 DEF VenueRows
<1>7. RowOf(row', Venue)
  BY <1>2 DEF RowOf
<1>8. Venue' = Venue
  BY <1>1 DEF Venue
<1> QED BY <1>1, <1>6, <1>7, <1>8 DEF AccInv, CacheInv, TotalIsRecent

\* A venue with one more price.
LEMMA Priced ==
  ASSUME NEW r \in VenueRows, NEW v, NEW a \in r.todo, RowOf(r, v),
         NEW prices \in PriceLists, DOMAIN prices = DOMAIN r.prices \cup {a},
         \A y \in DOMAIN prices : Aged(Behind(v, y), prices[y]),
         NEW n, n = [r EXCEPT !.todo = @ \ {a}, !.prices = prices]
  PROVE  n \in VenueRows /\ RowOf(n, v)
<1>1. r.todo \in SUBSET Things
  BY DEF VenueRows
<1>2. /\ n \in VenueRows /\ n.prices = prices /\ n.todo = r.todo \ {a} /\ n.status = r.status
      /\ n.held = r.held /\ n.oldest = r.oldest /\ n.observed = r.observed
  BY <1>1 DEF VenueRows
<1> QED BY <1>1, <1>2 DEF RowOf

LEMMA Unpriced ==
  ASSUME NEW r \in VenueRows, NEW v, NEW a \in r.todo, RowOf(r, v), NEW n,
         n = [r EXCEPT !.todo = @ \ {a}, !.status = "PARTIAL_VALUATION"]
  PROVE  n \in VenueRows /\ RowOf(n, v)
BY DEF VenueRows, RowOf

LEMMA MarkKeeps == AccInv /\ Mark => AccInv'
<1> SUFFICES ASSUME AccInv, Mark PROVE AccInv'
  OBVIOUS
<1> DEFINE v == Venue
<1>1. /\ present \in Int /\ CacheInv /\ collected \in Seq(VenueRows) /\ Len(collected) \in Nat
      /\ Len(collected) < 4 /\ row # NoReport /\ row \in VenueRows /\ RowOf(row, v)
      /\ UNCHANGED <<present, collected, report>>
  BY DEF AccInv, Mark
<1>2. v \in Places /\ Venue' = v
  BY <1>1, FourVenues DEF Venue
<1>3. PICK a \in row.todo : \E o \in Marks(v, a) :
        \/ /\ cache' = Stored(o.keep, DOMAIN o.keep)
           /\ row' = [row EXCEPT !.todo = @ \ {a},
                        !.prices = [x \in DOMAIN @ \cup {a} |-> IF x = a THEN o.price ELSE @[x]]]
        \/ /\ row' = [row EXCEPT !.todo = @ \ {a}, !.status = "PARTIAL_VALUATION"]
           /\ \E keys \in {{}, DOMAIN o.keep \cap {Rate}, DOMAIN o.keep} : cache' = Stored(o.keep, keys)
  BY DEF Mark
<1>4. a \in Things
  BY <1>1 DEF VenueRows
<1>5. PICK o \in Marks(v, a) :
        \/ /\ cache' = Stored(o.keep, DOMAIN o.keep)
           /\ row' = [row EXCEPT !.todo = @ \ {a},
                        !.prices = [x \in DOMAIN @ \cup {a} |-> IF x = a THEN o.price ELSE @[x]]]
        \/ /\ row' = [row EXCEPT !.todo = @ \ {a}, !.status = "PARTIAL_VALUATION"]
           /\ \E keys \in {{}, DOMAIN o.keep \cap {Rate}, DOMAIN o.keep} : cache' = Stored(o.keep, keys)
  BY <1>3
<1> HIDE DEF v
<1>6. Aged(Behind(v, a), o.price) /\ Brought(o.keep)
  BY <1>1, <1>2, <1>4, MarkIsAged
<1>7. row' \in VenueRows /\ RowOf(row', v)
  <2>1. CASE row' = [row EXCEPT !.todo = @ \ {a},
                       !.prices = [x \in DOMAIN @ \cup {a} |-> IF x = a THEN o.price ELSE @[x]]]
    <3> DEFINE q == o.price
               prices == [y \in DOMAIN row.prices \cup {a} |-> IF y = a THEN q ELSE row.prices[y]]
    <3>1. row' = [row EXCEPT !.todo = @ \ {a}, !.prices = prices]
      BY <2>1
    <3>2. Aged(Behind(v, a), q)
      BY <1>6
    <3> HIDE DEF q
    <3>3. /\ prices \in PriceLists /\ DOMAIN prices = DOMAIN row.prices \cup {a}
          /\ \A y \in DOMAIN prices : Aged(Behind(v, y), prices[y])
      <4>1. row.prices \in PriceLists
        BY <1>1 DEF VenueRows
      <4>2. PICK named \in SUBSET Things : row.prices \in [named -> Quotes]
        BY <4>1 DEF PriceLists
      <4>3. prices \in [named \cup {a} -> Quotes] /\ named \cup {a} \in SUBSET Things
        BY <1>4, <3>2, <4>2 DEF Aged
      <4>4. prices \in PriceLists
        BY <4>3 DEF PriceLists
      <4> QED BY <1>1, <3>2, <4>2, <4>4 DEF RowOf
    <3> HIDE DEF prices
    <3> QED BY <1>1, <3>1, <3>3, Priced
  <2>2. CASE row' = [row EXCEPT !.todo = @ \ {a}, !.status = "PARTIAL_VALUATION"]
    BY <1>1, <2>2, Unpriced
  <2> QED BY <1>5, <2>1, <2>2
<1>8. CacheInv'
  <2>1. PICK keys \in SUBSET (DOMAIN o.keep) : cache' = Stored(o.keep, keys)
    BY <1>5
  <2> QED BY <1>1, <1>6, <2>1, StoredKeeps
<1> QED BY <1>1, <1>2, <1>7, <1>8 DEF AccInv, TotalIsRecent, v

LEMMA NextVenueKeeps == AccInv /\ NextVenue => AccInv'
<1> SUFFICES ASSUME AccInv, NextVenue PROVE AccInv'
  OBVIOUS
<1>1. /\ present \in Int /\ collected \in Seq(VenueRows) /\ Len(collected) \in Nat
      /\ Len(collected) < 4 /\ row # NoReport /\ row \in VenueRows /\ RowOf(row, Venue)
      /\ row.todo = {} /\ collected' = Append(collected, row) /\ row' = NoReport
      /\ UNCHANGED <<present, cache, report>>
  BY DEF AccInv, NextVenue
<1>2. /\ collected' \in Seq(VenueRows) /\ Len(collected') <= 4
      /\ DOMAIN collected' = DOMAIN collected \cup {Len(collected) + 1}
      /\ collected'[Len(collected) + 1] = row
      /\ \A i \in DOMAIN collected : collected'[i] = collected[i]
  BY <1>1
<1>3. \A i \in DOMAIN collected' : RowOf(collected'[i], VENUES[i]) /\ collected'[i].todo = {}
  BY <1>1, <1>2 DEF AccInv, Venue
<1> QED BY <1>1, <1>2, <1>3 DEF AccInv, CacheInv, TotalIsRecent

\* A report that is complete keeps the rows as they are, and none is outdated.
LEMMA FinishKeeps == AccInv /\ Finish => AccInv'
<1> SUFFICES ASSUME AccInv, Finish PROVE AccInv'
  OBVIOUS
<1> DEFINE final == [i \in DOMAIN collected |->
                      IF collected[i].status = "OK" /\ Outdated(collected[i], present)
                      THEN [collected[i] EXCEPT !.status = "STALE_VALUATION"] ELSE collected[i]]
           complete == \A i \in DOMAIN final : final[i].status = "OK"
<1>1. /\ present \in Int /\ collected \in Seq(VenueRows) /\ Len(collected) = 4 /\ row = NoReport
      /\ report' = [at |-> present, complete |-> complete, rows |-> IF complete THEN final ELSE <<>>]
      /\ collected' = <<>> /\ UNCHANGED <<present, cache, row>>
  BY FourVenues DEF AccInv, Finish
<1>2. DOMAIN collected = 1 .. 4 /\ \A i \in 1 .. 4 : collected[i] \in VenueRows
  BY <1>1
<1>3. ASSUME complete, NEW i \in 1 .. 4
      PROVE  final[i] = collected[i] /\ collected[i].status = "OK" /\ ~Outdated(collected[i], present)
  <2>1. final[i].status = "OK"
    BY <1>2, <1>3
  <2>2. CASE collected[i].status = "OK" /\ Outdated(collected[i], present)
    <3>1. final[i].status = "STALE_VALUATION"
      BY <1>2, <2>2 DEF VenueRows
    <3> QED BY <2>1, <3>1
  <2>3. CASE ~(collected[i].status = "OK" /\ Outdated(collected[i], present))
    <3>1. final[i] = collected[i]
      BY <1>2, <2>3
    <3> QED BY <2>1, <2>3, <3>1
  <2> QED BY <2>2, <2>3
<1>4. DOMAIN final = 1 .. 4
  BY <1>2
<1> HIDE DEF final, complete
<1>5. ASSUME complete, NEW i \in 1 .. 4
      PROVE  LET r == final[i]
             IN /\ r.held = DOMAIN r.prices /\ present - r.oldest <= REPORT + Queries(VENUES[i]) * LAG
                /\ \A a \in DOMAIN r.prices : present - r.prices[a].oldest <= REPORT + Behind(VENUES[i], a)
  <2> DEFINE r == collected[i]
             v == VENUES[i]
             asked == Queries(v) * LAG
  <2>1. final[i] = r /\ r.status = "OK" /\ ~Outdated(r, present) /\ r \in VenueRows
        /\ RowOf(r, v) /\ r.todo = {}
    BY <1>2, <1>3, <1>5 DEF AccInv
  <2> HIDE DEF r, v
  <2>2. r.held = DOMAIN r.prices /\ r.oldest = r.observed - asked /\ r.observed \in Int
    BY <2>1 DEF RowOf, VenueRows
  <2>3. asked \in Nat /\ REPORT \in Nat
    BY FourVenues, AccountsAssumption
  <2>4. present - r.observed <= REPORT /\ \A a \in DOMAIN r.prices : ~(present - r.prices[a].at > REPORT)
    BY <1>1, <2>1, <2>2, <2>3 DEF Outdated
  <2>5. ASSUME NEW a \in DOMAIN r.prices
        PROVE  present - r.prices[a].oldest <= REPORT + Behind(v, a)
    <3> DEFINE q == r.prices[a]
               n == Behind(v, a)
    <3>1. Aged(n, q) /\ ~(present - q.at > REPORT) /\ n \in Nat
      BY <2>1, <2>4, BehindBounds DEF RowOf
    <3> HIDE DEF q, n
    <3>2. present - q.oldest <= REPORT + n
      BY <1>1, <2>3, <3>1 DEF Aged, Quotes
    <3> QED BY <3>2 DEF q, n
  <2> HIDE DEF asked
  <2>6. present - r.oldest <= REPORT + asked
    BY <1>1, <2>2, <2>3, <2>4
  <2> QED BY <2>1, <2>2, <2>5, <2>6 DEF v, asked
<1>6. TotalIsRecent'
  <2> SUFFICES ASSUME complete
               PROVE  \A i \in DOMAIN VENUES :
                        LET r == final[i]
                        IN /\ r.held = DOMAIN r.prices
                           /\ present - r.oldest <= REPORT + Queries(VENUES[i]) * LAG
                           /\ \A a \in DOMAIN r.prices :
                                present - r.prices[a].oldest <= REPORT + Behind(VENUES[i], a)
    BY <1>1 DEF TotalIsRecent
  <2> QED BY <1>4, <1>5, FourVenues
<1>7. DOMAIN collected' = {} /\ Len(collected') = 0 /\ collected' \in Seq(VenueRows)
  BY <1>1
<1> QED BY <1>1, <1>6, <1>7 DEF AccInv, CacheInv

\* What a report on the accounts keeps true: how old the answer behind every quote in
\* the cache and every price in a row may be.
THEOREM AccInvInvariant == AccSpec => []AccInv
<1>1. AccInit => AccInv
  <2> SUFFICES ASSUME AccInit PROVE AccInv
    OBVIOUS
  <2>1. present = 0 /\ DOMAIN cache = {} /\ row = NoReport /\ collected = <<>> /\ report = NoReport
        /\ collected \in Seq(VenueRows) /\ Len(collected) = 0 /\ DOMAIN collected = {}
    BY DEF AccInit
  <2> QED BY <2>1 DEF AccInv, CacheInv, TotalIsRecent
<1>2. AccInv /\ [AccNext]_avars => AccInv'
  <2>1. AccInv /\ ClockMoves => AccInv'
    <3> SUFFICES ASSUME AccInv, ClockMoves PROVE AccInv'
      OBVIOUS
    <3>1. UNCHANGED <<cache, row, collected, report>> /\ present' \in Int
      BY DEF AccInv, ClockMoves
    <3>2. CacheInv' /\ TotalIsRecent'
      BY <3>1 DEF AccInv, CacheInv, TotalIsRecent
    <3>3. \A i \in DOMAIN collected' : RowOf(collected'[i], VENUES[i]) /\ collected'[i].todo = {}
      BY <3>1 DEF AccInv
    <3>4. row' # NoReport => row' \in VenueRows /\ Len(collected') < 4 /\ RowOf(row', Venue')
      BY <3>1 DEF AccInv, Venue
    <3> QED BY <3>1, <3>2, <3>3, <3>4 DEF AccInv
  <2>2. AccInv /\ UNCHANGED avars => AccInv'
    BY DEF AccInv, avars, CacheInv, TotalIsRecent, Venue
  <2> QED BY <2>1, <2>2, BalancesKeeps, MarkKeeps, NextVenueKeeps, FinishKeeps DEF AccNext
<1> QED BY <1>1, <1>2, PTL DEF AccSpec

\* A complete report rests on answers no older than it allows, but for the time the
\* requests took and the age of a rate used again (magi3/accounts.py:72,
\* magi3/market_data.py:102), for any holdings, delays and failures.
THEOREM TotalRecent == AccSpec => []TotalIsRecent
<1>1. AccInv => TotalIsRecent
  BY DEF AccInv
<1> QED BY <1>1, AccInvInvariant, PTL

-----------------------------------------------------------------------------
(* PerformanceView: a mark is of its day, and what a view has read of the    *)
(* state is what is stored, unless the file was written since the first look. *)

FigureInv ==
  /\ time \in Nat
  /\ stored \in PaperAccounts /\ mem \in PaperAccounts /\ state \in PaperAccounts
  /\ events \in Results /\ sold \in Results
  /\ daily \in [Days -> DailyMarks \cup {NoFigure}]
  /\ \A d \in Days : daily[d] # NoFigure => d * DAY <= daily[d].ts /\ daily[d].ts < (d + 1) * DAY
  /\ same /\ reading \in {"log", "finish"} => state = stored
  /\ ReturnsAreDaily

LEMMA FinitePurchases == IsFiniteSet(Purchases) /\ \A f : Recorded(f) \subseteq Purchases
<1>1. MaxEntries \in Int
  BY FiguresAssumption
<1>2. IsFiniteSet(Purchases)
  BY <1>1, FS_Interval DEF Purchases
<1> QED BY <1>2 DEF Recorded

LEMMA ResultsAreNumbers ==
  ASSUME NEW f \in Results
  PROVE  /\ IsFiniteSet(Recorded(f)) /\ Recorded(f) \subseteq Purchases
         /\ \A i \in Recorded(f) : f[i] \in Int
         /\ Sum(f) \in Int
<1>2. IsFiniteSet(Recorded(f)) /\ Recorded(f) \subseteq Purchases
  BY FinitePurchases, FS_Subset
<1>3. \A i \in Recorded(f) : f[i] \in Int
  BY FiguresAssumption DEF Recorded, Results
<1>4. Sum(f) \in Int
  BY <1>2, <1>3, SumType DEF Sum
<1> QED BY <1>2, <1>3, <1>4

LEMMA IdentityIsOne ==
  ASSUME NEW a \in PaperAccounts
  PROVE  Identity(a) \in [cash : Int, active : SUBSET Purchases]
<1>1. a.open \in SUBSET Purchases /\ a.closed \in Results
  BY DEF PaperAccounts
<1>2. IsFiniteSet(Purchases)
  BY FinitePurchases
<1>3. IsFiniteSet(a.open) /\ Cardinality(a.open) \in Nat
  BY <1>1, <1>2, FS_Subset, FS_CardinalityType
<1>4. Sum(a.closed) \in Int /\ COST \in Nat
  BY <1>1, ResultsAreNumbers, FiguresAssumption
<1>5. Cash(a) \in Int
  BY <1>3, <1>4 DEF Cash
<1> QED BY <1>1, <1>5 DEF Identity

-----------------------------------------------------------------------------
(* The processes that trade and value                                       *)

LEMMA AccountsKept ==
  ASSUME FigureInv, Trade
  PROVE  /\ stored' \in PaperAccounts /\ mem' \in PaperAccounts /\ events' \in Results
         /\ UNCHANGED <<time, daily, reading, state, sold, view>>
         /\ same' => same /\ stored' = stored
<1>0. /\ stored \in PaperAccounts /\ mem \in PaperAccounts /\ events \in Results
      /\ stored.open \in SUBSET Purchases /\ stored.closed \in Results /\ mem.closed \in Results
      /\ UNCHANGED <<time, daily, reading, state, sold, view>>
  BY DEF FigureInv, PaperAccounts, Trade
<1>1. CASE Buy
  <2>1. Made(stored) \in Nat /\ Made(stored) < MaxEntries /\ MaxEntries \in Nat
    <3>1. IsFiniteSet(Purchases) /\ Recorded(stored.closed) \subseteq Purchases
      BY FinitePurchases
    <3>2. IsFiniteSet(stored.open \cup Recorded(stored.closed))
      BY <1>0, <3>1, FS_Subset
    <3> QED BY <1>1, <3>2, FS_CardinalityType, FiguresAssumption DEF Made, Buy
  <2>2. Made(stored) + 1 \in Purchases
    BY <2>1 DEF Purchases
  <2>3. mem' \in PaperAccounts
    BY <1>0, <1>1, <2>2 DEF Buy, PaperAccounts
  <2> QED BY <1>0, <1>1, <2>3 DEF Buy, Saved
<1>2. CASE CloseLogs
  <2>1. PICK i \in stored.open, p \in Profits :
          /\ mem' = [open |-> stored.open \ {i}, closed |-> [stored.closed EXCEPT ![i] = p]]
          /\ events' = [events EXCEPT ![i] = p]
    BY <1>2 DEF CloseLogs
  <2>2. [stored.closed EXCEPT ![i] = p] \in Results /\ events' \in Results
    BY <1>0, <2>1 DEF Results
  <2>3. mem' \in PaperAccounts
    BY <1>0, <2>1, <2>2 DEF PaperAccounts
  <2> QED BY <1>0, <1>2, <2>2, <2>3 DEF CloseLogs
<1>3. CASE CloseSaves \/ ReplaceState
  BY <1>0, <1>3 DEF CloseSaves, ReplaceState, Saved
<1>4. CASE Replace
  <2>1. PICK p \in Profits :
          mem' = [open |-> {Made(stored) + 1},
                  closed |-> [i \in Purchases |-> IF i \in stored.open THEN p ELSE stored.closed[i]]]
    BY <1>4 DEF Replace
  <2>2. Made(stored) + 1 \in Purchases
    <3>1. IsFiniteSet(Purchases) /\ Recorded(stored.closed) \subseteq Purchases
      BY FinitePurchases
    <3>2. IsFiniteSet(stored.open \cup Recorded(stored.closed))
      BY <1>0, <3>1, FS_Subset
    <3> QED BY <1>4, <3>2, FS_CardinalityType, FiguresAssumption DEF Made, Replace, Purchases
  <2>3. [i \in Purchases |-> IF i \in stored.open THEN p ELSE stored.closed[i]] \in Results
    BY <1>0 DEF Results
  <2>4. mem' \in PaperAccounts
    BY <2>1, <2>2, <2>3 DEF PaperAccounts
  <2> QED BY <1>0, <1>4, <2>4 DEF Replace
<1>5. CASE ReplaceEvents
  <2>1. events' \in Results
    BY <1>0, <1>5 DEF ReplaceEvents, Results, Recorded
  <2> QED BY <1>0, <1>5, <2>1 DEF ReplaceEvents
<1>6. CASE ReplaceEnds
  BY <1>0, <1>6 DEF ReplaceEnds
<1> QED BY <1>1, <1>2, <1>3, <1>4, <1>5, <1>6 DEF Trade

LEMMA ValuateKeeps == FigureInv /\ Valuate => FigureInv'
<1> SUFFICES ASSUME FigureInv, Valuate PROVE FigureInv'
  OBVIOUS
<1>1. PICK quoted \in {TRUE} \cup {stored.open = {}} :
        daily' = [daily EXCEPT ![time \div DAY] =
                    Newer(@, [ts |-> time, valid |-> quoted, identity |-> Identity(stored)])]
  BY DEF Valuate
<1> DEFINE m == [ts |-> time, valid |-> quoted, identity |-> Identity(stored)]
           d == time \div DAY
<1>2. m \in DailyMarks /\ m.ts = time
  <2>1. Identity(stored) \in [cash : Int, active : SUBSET Purchases] /\ time \in Nat /\ quoted \in BOOLEAN
    BY <1>1, IdentityIsOne DEF FigureInv
  <2> QED BY <2>1 DEF DailyMarks
<1>3. d \in Nat /\ d * DAY <= time /\ time < (d + 1) * DAY
  BY FiguresAssumption DEF FigureInv
<1>4. daily \in [Days -> DailyMarks \cup {NoFigure}]
  BY DEF FigureInv
<1>5. daily' = [daily EXCEPT ![d] = Newer(daily[d], m)]
  BY <1>1
<1> HIDE DEF m, d
<1>6. \A e \in Days : daily'[e] = IF e = d THEN Newer(daily[d], m) ELSE daily[e]
  BY <1>4, <1>5
<1>7. daily' \in [Days -> DailyMarks \cup {NoFigure}]
  BY <1>2, <1>4, <1>5 DEF Newer
<1>8. \A e \in Days : daily'[e] # NoFigure => e * DAY <= daily'[e].ts /\ daily'[e].ts < (e + 1) * DAY
  BY <1>2, <1>3, <1>6 DEF FigureInv, Newer
<1> QED BY <1>7, <1>8 DEF FigureInv, Valuate, account, reader, ReturnsAreDaily

-----------------------------------------------------------------------------
(* The view                                                                 *)

\* The valuation that counts as current is one that was kept.
LEMMA CurrentIsKept ==
  ASSUME FigureInv, Current(state, daily) # NoFigure
  PROVE  Current(state, daily) \in DailyMarks
<1> DEFINE held == {d \in Days : daily[d] # NoFigure}
           m == Latest(daily)
<1>1. m # NoFigure /\ Current(state, daily) = [m EXCEPT !.valid = @ /\ time - m.ts <= MARK_AGE]
  BY DEF Current
<1>2. held # {} /\ m = daily[CHOOSE d \in held : \A x \in held : x <= d]
  BY <1>1 DEF Latest
<1>3. LastMoment \div DAY \in Nat
  BY FiguresAssumption
<1>4. held \in SUBSET Nat /\ \A x \in held : x <= LastMoment \div DAY
  BY <1>3 DEF Days
<1>5. \E d \in held : \A x \in held : x <= d
  <2> HIDE DEF held
  <2>1. Max(held) \in held /\ \A x \in held : Max(held) >= x
    BY <1>2, <1>3, <1>4, MaxIsOne
  <2> QED BY <1>4, <2>1
<1>6. m \in DailyMarks
  <2>1. (CHOOSE d \in held : \A x \in held : x <= d) \in held
    BY <1>5
  <2> QED BY <1>2, <2>1 DEF FigureInv
<1> HIDE DEF m
<1>7. m.valid \in BOOLEAN
  BY <1>6 DEF DailyMarks
<1>8. (m.valid /\ time - m.ts <= MARK_AGE) \in BOOLEAN
  OBVIOUS
<1>9. [m EXCEPT !.valid = @ /\ time - m.ts <= MARK_AGE] \in DailyMarks
  <2> DEFINE b == m.valid /\ time - m.ts <= MARK_AGE
  <2>1. [m EXCEPT !.valid = @ /\ time - m.ts <= MARK_AGE] = [m EXCEPT !.valid = b]
    OBVIOUS
  <2>2. b \in BOOLEAN
    OBVIOUS
  <2> HIDE DEF b
  <2> QED BY <1>6, <2>1, <2>2 DEF DailyMarks
<1> QED BY <1>1, <1>9

LEMMA ReturnsOfDays ==
  ASSUME FigureInv, NEW r \in Returns(Current(state, daily), daily)
  PROVE  /\ r.base.valid /\ r.end.valid
         /\ r.end.ts - r.base.ts <= DAY + TOLERANCE - 1 /\ r.base.ts < r.day * DAY
         /\ r.day * DAY <= r.end.ts
<1> DEFINE c == Current(state, daily)
<1>1. PICK d \in Days \ {0} :
        /\ r = [day |-> d, base |-> daily[d - 1], end |-> EndOf(c, daily, d)]
        /\ Closes(daily[d - 1], d - 1)
        /\ IF d < time \div DAY THEN Closes(EndOf(c, daily, d), d)
           ELSE EndOf(c, daily, d) # NoFigure /\ EndOf(c, daily, d).valid
  BY DEF Returns
<1>2. d \in Nat /\ d # 0 /\ d - 1 \in Days /\ d \in Days
  <2>1. LastMoment \div DAY \in Nat
    BY FiguresAssumption
  <2> QED BY <1>1, <2>1 DEF Days
<1>3. DAY \in Nat \ {0} /\ TOLERANCE \in Nat
  BY FiguresAssumption
<1> DEFINE base == daily[d - 1]
           end == EndOf(c, daily, d)
<1>4. /\ base \in DailyMarks /\ base.ts \in Nat /\ base.valid /\ d * DAY - base.ts <= TOLERANCE
      /\ base.ts < d * DAY
  <2>1. base # NoFigure /\ base.valid /\ (d - 1 + 1) * DAY - base.ts <= TOLERANCE
    BY <1>1 DEF Closes
  <2>2. base \in DailyMarks /\ base.ts < (d - 1 + 1) * DAY
    BY <1>2, <2>1 DEF FigureInv
  <2>3. d - 1 + 1 = d
    BY <1>2
  <2> QED BY <2>1, <2>2, <2>3 DEF DailyMarks
<1>5. /\ end \in DailyMarks /\ end.ts \in Nat /\ end.valid
      /\ d * DAY <= end.ts /\ end.ts < (d + 1) * DAY
  <2>1. end # NoFigure /\ end.valid
    BY <1>1 DEF Closes
  <2>2. CASE c # NoFigure /\ d = time \div DAY /\ c.ts \div DAY = d
    <3>1. end = c /\ c \in DailyMarks
      BY <2>2, CurrentIsKept DEF EndOf
    <3> HIDE DEF c, end
    <3>2. c.ts \in Nat /\ c.ts \div DAY = d
      BY <2>2, <3>1 DEF DailyMarks
    <3>3. d * DAY <= c.ts /\ c.ts < (d + 1) * DAY
      BY <1>2, <1>3, <3>2
    <3> QED BY <2>1, <3>1, <3>2, <3>3
  <2>3. CASE ~(c # NoFigure /\ d = time \div DAY /\ c.ts \div DAY = d)
    <3>1. end = daily[d]
      BY <2>3 DEF EndOf
    <3> HIDE DEF c, end
    <3> QED BY <1>2, <2>1, <3>1 DEF FigureInv, DailyMarks
  <2> QED BY <2>2, <2>3
<1>6. r.day = d /\ r.base = base /\ r.end = end
  BY <1>1
<1> HIDE DEF base, end, c
<1>7. (d + 1) * DAY = d * DAY + DAY /\ d * DAY \in Int
  BY <1>2, <1>3
<1>8. end.ts - base.ts <= DAY + TOLERANCE - 1
  BY <1>3, <1>4, <1>5, <1>7
<1> QED BY <1>4, <1>5, <1>6, <1>8

LEMMA ShowKeeps == FigureInv /\ Show /\ UNCHANGED <<time, kills, account, daily>> => FigureInv'
<1> SUFFICES ASSUME FigureInv, Show, UNCHANGED <<time, kills, account, daily>> PROVE FigureInv'
  OBVIOUS
<1>1. /\ UNCHANGED <<time, stored, mem, events, daily>> /\ reading' = "check"
      /\ state' = [open |-> {}, closed |-> Nobody] /\ sold' = Nobody
  BY DEF Show, account
<1>2. Nobody \in Results /\ state' \in PaperAccounts
  BY <1>1 DEF Nobody, Results, PaperAccounts
<1>3. ReturnsAreDaily'
  <2>1. CASE UNCHANGED view
    BY <2>1 DEF FigureInv, ReturnsAreDaily
  <2>2. CASE view'.rows = Returns(Current(state, daily), daily)
    <3> SUFFICES ASSUME NEW r \in Returns(Current(state, daily), daily)
                 PROVE  /\ r.base.valid /\ r.end.valid
                        /\ r.end.ts - r.base.ts <= DAY + TOLERANCE - 1 /\ r.base.ts < r.day * DAY
                        /\ r.day * DAY <= r.end.ts
      BY <2>2 DEF ReturnsAreDaily
    <3> QED BY ReturnsOfDays
  <2> QED BY <2>1, <2>2 DEF Show
<1> QED BY <1>1, <1>2, <1>3 DEF FigureInv

\* What the files and a view keep true: a mark is of its day, and the state read is the
\* one stored while the file is unchanged.
THEOREM FigureInvInvariant == VSpec => []FigureInv
<1>1. VInit => FigureInv
  <2> SUFFICES ASSUME VInit PROVE FigureInv
    OBVIOUS
  <2>1. Nobody \in Results /\ [open |-> {}, closed |-> Nobody] \in PaperAccounts
    BY DEF Nobody, Results, PaperAccounts
  <2> QED BY <2>1 DEF VInit, FigureInv, ReturnsAreDaily
<1>2. FigureInv /\ [VNext]_vvars => FigureInv'
  <2> SUFFICES ASSUME FigureInv, [VNext]_vvars PROVE FigureInv'
    OBVIOUS
  <2>1. CASE Trade
    BY <2>1, AccountsKept DEF FigureInv, ReturnsAreDaily
  <2>2. CASE Crash
    BY <2>2 DEF Crash, FigureInv, ReturnsAreDaily, reader
  <2>3. CASE Valuate
    BY <2>3, ValuateKeeps
  <2>4. CASE ViewReads
    <3>1. UNCHANGED <<time, stored, mem, events, daily>>
      BY <2>4 DEF ViewReads, account
    <3>2. CASE Check
      BY <3>1, <3>2 DEF Check, FigureInv, ReturnsAreDaily
    <3>3. CASE Stat
      BY <3>1, <3>3 DEF Stat, FigureInv, ReturnsAreDaily
    <3>4. CASE ReadState
      BY <3>1, <3>4 DEF ReadState, FigureInv, ReturnsAreDaily
    <3>5. CASE Log
      BY <3>1, <3>5 DEF Log, FigureInv, ReturnsAreDaily
    <3>6. CASE Show
      BY <2>4, <3>6, ShowKeeps DEF ViewReads
    <3> QED BY <2>4, <3>2, <3>3, <3>4, <3>5, <3>6 DEF ViewReads
  <2>5. CASE MomentPasses
    BY <2>5 DEF MomentPasses, FigureInv, ReturnsAreDaily, account, reader
  <2>6. CASE UNCHANGED vvars
    BY <2>6 DEF vvars, FigureInv, ReturnsAreDaily, account, reader
  <2> QED BY <2>1, <2>2, <2>3, <2>4, <2>5, <2>6 DEF VNext
<1> QED BY <1>1, <1>2, PTL DEF VSpec

\* What is counted beside the account and comes to the same sum adds nothing.
LEMMA LostCancel ==
  ASSUME NEW s \in PaperAccounts, NEW e \in Results, AllCounted(s, e)
  PROVE  /\ Recorded(s.closed) \subseteq Recorded(Counted(s, e))
         /\ SumFunctionOnSet(e, Recorded(Counted(s, e)) \ Recorded(s.closed)) = 0
<1> DEFINE c == Counted(s, e)
           kept == Recorded(s.closed)
           lost == Recorded(c) \ kept
<1>1. s.closed \in Results
  BY DEF PaperAccounts
<1>2. c \in Results
  BY <1>1 DEF Counted, Results
<1>3. /\ kept \subseteq Recorded(c) /\ Recorded(c) = kept \cup lost /\ kept \cap lost = {}
      /\ \A i \in kept : c[i] = s.closed[i]
      /\ \A i \in lost : c[i] = e[i]
  BY DEF Recorded, Counted
<1>4. /\ IsFiniteSet(kept) /\ IsFiniteSet(Recorded(c)) /\ \A i \in Recorded(c) : c[i] \in Int
      /\ Sum(s.closed) \in Int
  <2> HIDE DEF c, kept
  <2> QED BY <1>1, <1>2, ResultsAreNumbers DEF kept
<1>5. IsFiniteSet(lost)
  BY <1>4, FS_Subset
<1> HIDE DEF c, kept, lost
<1>6. SumFunctionOnSet(c, kept \cup lost) = SumFunctionOnSet(c, kept) + SumFunctionOnSet(c, lost)
  BY <1>3, <1>4, <1>5, SumUnion
<1>7. SumFunctionOnSet(c, kept) = SumFunctionOnSet(s.closed, kept)
  BY <1>3, <1>4, SumSame
<1>8. SumFunctionOnSet(c, lost) = SumFunctionOnSet(e, lost) /\ SumFunctionOnSet(c, lost) \in Int
  BY <1>3, <1>4, <1>5, SumSame, SumType
<1>9. SumFunctionOnSet(c, kept \cup lost) = SumFunctionOnSet(s.closed, kept)
      /\ SumFunctionOnSet(s.closed, kept) \in Int
  BY <1>3, <1>4 DEF AllCounted, Lifetime, Sum, c, kept
<1>10. SumFunctionOnSet(e, lost) = 0
  BY <1>6, <1>7, <1>8, <1>9
<1> QED BY <1>3, <1>10 DEF c, kept, lost

LEMMA WinsAreCurrent == FigureInv /\ [VNext]_vvars => WinRateIsCurrent
<1> SUFFICES ASSUME FigureInv, [VNext]_vvars, reading = "finish", view' # view, view'.complete
             PROVE  /\ Recorded(stored.closed) \subseteq view'.counted
                    /\ SumFunctionOnSet(sold, view'.counted \ Recorded(stored.closed)) = 0
  BY DEF WinRateIsCurrent
<1>1. Show
  BY DEF VNext, vvars, Trade, Crash, Valuate, ViewReads, MomentPasses, reader, Check, Stat, ReadState, Log
<1>2. /\ same /\ view' = [counted |-> Recorded(Counted(state, sold)), complete |-> AllCounted(state, sold),
                          rows |-> Returns(Current(state, daily), daily)]
  BY <1>1 DEF Show, Unchanged
<1>3. state = stored /\ state \in PaperAccounts /\ sold \in Results
  BY <1>2 DEF FigureInv
<1>4. view'.counted = Recorded(Counted(state, sold)) /\ AllCounted(state, sold)
  BY <1>2
<1> QED BY <1>3, <1>4, LostCancel

\* The returns and the win rate that are shown are current, for any results, purchases,
\* replacements and deaths between the event and the state.
THEOREM FiguresCurrent == VSpec => FiguresAreCurrent
<1>1. FigureInv => ReturnsAreDaily
  BY DEF FigureInv
<1>2. FigureInv /\ [VNext]_vvars => WinRateIsCurrent
  BY WinsAreCurrent
<1>3. FigureInv' => ReturnsAreDaily'
  BY <1>1, PTL
<1>4. FigureInv /\ FigureInv' /\ [VNext]_vvars => [WinRateIsCurrent /\ ReturnsAreDaily']_vvars
  BY <1>2, <1>3
<1> QED BY <1>4, FigureInvInvariant, PTL DEF VSpec, FiguresAreCurrent

=============================================================================
