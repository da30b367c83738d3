------------------------- MODULE HourlyWorkersProofs -------------------------
(***************************************************************************)
(* For any markets, slots, times and number of faults: trading restarts    *)
(* flat and on new signals, fills carry out their own order, and a         *)
(* rebalancing accounts for its targets.                                   *)
(*                                                                         *)
(* The invariant is one of the ledger at a time t; each operation of the   *)
(* ledger keeps it, whatever stale order or lot a thread hands it, so the  *)
(* threads add no more than that their stamps lie in the past.  A second   *)
(* part, Money, says that what is reserved is covered: each operation      *)
(* keeps it by what it adds to or takes from the sum of the budgets.       *)
(***************************************************************************)
EXTENDS HourlyWorkers, SumFacts

OpShape(op) ==
  op = [phase |-> op.phase, request |-> op.request, boundary |-> op.boundary,
        targets |-> op.targets, sells |-> op.sells, bought |-> op.bought,
        canceled |-> op.canceled]

OnSymbols(f) == f = [x \in Symbols |-> f[x]]

\* The ledger has the fields it should have, and its tables their markets.
Shape(L) ==
  /\ L = [cash |-> L.cash, realized |-> L.realized, positions |-> L.positions,
          pending |-> L.pending, previous |-> L.previous, confirmed |-> L.confirmed,
          used_day |-> L.used_day, last_exit |-> L.last_exit, enabled |-> L.enabled,
          generation |-> L.generation, resumed |-> L.resumed, scan |-> L.scan,
          rebalance |-> L.rebalance, requests |-> L.requests]
  /\ OnSymbols(L.positions) /\ OnSymbols(L.pending) /\ OnSymbols(L.previous)
  /\ OnSymbols(L.last_exit)
  /\ OpShape(L.rebalance)
  /\ L.confirmed \subseteq Symbols
  /\ L.enabled \in BOOLEAN
  /\ L.resumed \in Int

\* An exit has its lot and follows its entry; an entry has none, follows the
\* last exit and rests on two hours after the last resumption.
SellOk(L, x) ==
  /\ L.pending[x].side = "SELL" /\ L.positions[x] # None
  /\ L.pending[x].decision >= L.positions[x].entry

BuyOk(L, x) ==
  /\ L.pending[x].side = "BUY" /\ L.positions[x] = None /\ L.enabled
  /\ L.pending[x].decision >= L.last_exit[x]
  /\ L.pending[x].signal \in Int /\ L.pending[x].signal - HOUR > L.resumed
  /\ L.pending[x].request \in {0, L.rebalance.request}

OrdersInv(L, t) ==
  \A x \in Symbols : L.pending[x] # NoOrder =>
    /\ L.pending[x].decision \in Int /\ L.pending[x].decision <= t
    /\ L.pending[x].earliest = L.pending[x].decision + 1
    /\ SellOk(L, x) \/ BuyOk(L, x)

\* A stopped account sells everything it holds.
LotsInv(L, t) ==
  \A x \in Symbols :
    /\ L.last_exit[x] \in Int /\ L.last_exit[x] <= t
    /\ L.positions[x] # None =>
         /\ L.positions[x].entry \in Int /\ L.positions[x].entry <= t
         /\ L.positions[x].signal \in Int /\ L.positions[x].signal - HOUR > L.resumed
         /\ ~L.enabled => L.pending[x] # NoOrder

SeenInv(L) ==
  \A x \in Symbols :
    /\ L.previous[x] # None =>
         L.previous[x].boundary \in Int /\ L.previous[x].boundary > L.resumed
    /\ x \in L.confirmed =>
         L.previous[x] # None /\ L.previous[x].boundary - HOUR > L.resumed

\* The entries of the current rebalancing that are still reserved.
Open(L) == {x \in Symbols : /\ L.pending[x] # NoOrder /\ L.pending[x].side = "BUY"
                            /\ L.pending[x].request = L.rebalance.request}

OpInv(L) ==
  /\ IsFiniteSet(L.requests)
  /\ L.rebalance.phase \in Phases
  /\ L.rebalance.request \in Nat /\ (L.rebalance.phase # "NONE" <=> L.rebalance.request > 0)
  /\ L.rebalance.boundary \in Int
  /\ L.rebalance.targets \subseteq Symbols
  /\ Rebalancing(L) => L.enabled /\ L.rebalance.boundary - HOUR > L.resumed
  /\ L.rebalance.phase \in {"SELLING", "DONE", "CANCELED"} => Open(L) = {}
  /\ L.rebalance.phase = "SELLING" => L.rebalance.bought = {} /\ L.rebalance.canceled = {}
  /\ L.rebalance.phase = "BUYING" =>
       L.rebalance.targets = L.rebalance.bought \cup L.rebalance.canceled \cup Open(L)
  /\ L.rebalance.phase \in {"DONE", "CANCELED"} =>
       L.rebalance.targets = L.rebalance.bought \cup L.rebalance.canceled
  /\ L.rebalance.bought \cap L.rebalance.canceled = {}
  /\ L.rebalance.phase # "NONE" =>
       Open(L) \cap (L.rebalance.bought \cup L.rebalance.canceled) = {}

Good(L, t) == Shape(L) /\ OrdersInv(L, t) /\ LotsInv(L, t) /\ SeenInv(L) /\ OpInv(L)

\* What one step does to the lots: a fill carries out the pending order, and
\* trading starts only with an empty account.
Follows(L, M) ==
  \A x \in Symbols : M.positions[x] # L.positions[x] =>
    /\ L.pending[x] # NoOrder /\ M.pending[x] = NoOrder
    /\ IF L.positions[x] # None
         THEN /\ L.pending[x].side = "SELL" /\ M.positions[x] = None
              /\ L.pending[x].decision >= L.positions[x].entry
              /\ M.last_exit[x] > L.pending[x].decision
         ELSE /\ L.pending[x].side = "BUY" /\ L.enabled
              /\ L.pending[x].generation = L.generation
              /\ M.positions[x].entry > L.pending[x].decision
              /\ M.positions[x].entry > L.last_exit[x]

Flat(L, M) == M.enabled /\ ~L.enabled => Held(L) = {} /\ Held(M) = {}

Keeps(L, M, t) == Good(M, t) /\ Follows(L, M) /\ Flat(L, M)

-----------------------------------------------------------------------------
\* Constants are numbers.
LEMMA Numbers ==
  /\ HOUR \in Nat /\ HOUR > 0 /\ DAY \in Nat /\ StartStamp \in Nat /\ Symbols \subseteq Nat
  BY LedgerAssumption

\* The hour of a stamp is a number.
LEMMA HourIsInt == ASSUME NEW t \in Int PROVE HourOf(t) \in Int
  BY Numbers DEF HourOf

\* A later clock disturbs nothing.
LEMMA GoodLater ==
  ASSUME NEW L, NEW t \in Int, Good(L, t)
  PROVE  Good(L, t + 1)
  BY DEF Good, OrdersInv, LotsInv

\* A step that leaves lots and switch alone carries out nothing.
LEMMA SameLots ==
  ASSUME NEW L, NEW M, M.positions = L.positions, M.enabled = L.enabled
  PROVE  Follows(L, M) /\ Flat(L, M)
  BY DEF Follows, Flat

-----------------------------------------------------------------------------
\* schedule_exit() touches the pending table only.
LEMMA ScheduleFields ==
  ASSUME NEW L, Shape(L), NEW S, NEW t
  PROVE  LET M == ScheduleExit(L, S, t)
         IN /\ Shape(M)
            /\ M.positions = L.positions /\ M.previous = L.previous
            /\ M.confirmed = L.confirmed /\ M.last_exit = L.last_exit
            /\ M.enabled = L.enabled /\ M.generation = L.generation
            /\ M.resumed = L.resumed /\ M.rebalance = L.rebalance
            /\ M.requests = L.requests
            /\ \A x \in Symbols :
                 M.pending[x] = IF x \in S /\ L.pending[x] = NoOrder
                   THEN [side |-> "SELL", decision |-> t, earliest |-> t + 1,
                         generation |-> L.generation]
                   ELSE L.pending[x]
  BY DEF Shape, OnSymbols, ScheduleExit

LEMMA ScheduleSame ==
  ASSUME NEW L, Shape(L), NEW S, NEW t
  PROVE  /\ ScheduleExit(L, S, t).positions = L.positions
         /\ ScheduleExit(L, S, t).enabled = L.enabled
         /\ ScheduleExit(L, S, t).resumed = L.resumed
  BY DEF Shape, ScheduleExit

\* schedule_exit() for lots that are held.
LEMMA ScheduleGood ==
  ASSUME NEW L, NEW t \in Int, Good(L, t), NEW S, S \subseteq Held(L)
  PROVE  Good(ScheduleExit(L, S, t), t)
<1> DEFINE M == ScheduleExit(L, S, t)
<1>1. /\ Shape(M)
      /\ M.positions = L.positions /\ M.previous = L.previous
      /\ M.confirmed = L.confirmed /\ M.last_exit = L.last_exit
      /\ M.enabled = L.enabled /\ M.generation = L.generation
      /\ M.resumed = L.resumed /\ M.rebalance = L.rebalance
      /\ M.requests = L.requests
      /\ \A x \in Symbols :
           M.pending[x] = IF x \in S /\ L.pending[x] = NoOrder
             THEN [side |-> "SELL", decision |-> t, earliest |-> t + 1,
                   generation |-> L.generation]
             ELSE L.pending[x]
  BY ScheduleFields DEF Good
<1> HIDE DEF M
<1>2. OrdersInv(M, t)
  BY <1>1 DEF Good, OrdersInv, LotsInv, SellOk, BuyOk, Held
<1>3. LotsInv(M, t)
  BY <1>1 DEF Good, LotsInv
<1>4. SeenInv(M)
  BY <1>1 DEF Good, SeenInv
<1>5. Open(M) = Open(L)
  <2>1. \A x \in Symbols : x \in Open(M) <=> x \in Open(L)
    BY <1>1 DEF Open
  <2> QED BY <2>1 DEF Open
<1>6. OpInv(M)
  BY <1>1, <1>5 DEF Good, OpInv, Rebalancing
<1> QED BY <1>1, <1>2, <1>3, <1>4, <1>6 DEF Good, M

-----------------------------------------------------------------------------
\* check_hard_stops() schedules exits of held lots only.
LEMMA HardStoppedGood ==
  ASSUME NEW L, NEW t \in Int, Good(L, t), NEW hit \in SUBSET Symbols, NEW quoted, NEW expected
  PROVE  Keeps(L, HardStopped(L, hit, quoted, t, expected), t)
<1> DEFINE S == {x \in hit : /\ L.positions[x] # None /\ L.positions[x] = expected[x]
                             /\ L.positions[x].entry <= quoted
                             /\ quoted <= t /\ t - quoted <= QuoteAge}
           M == ScheduleExit(L, S, t)
<1>1. S \subseteq Held(L)
  BY DEF Held
<1>2. Good(M, t)
  <2> HIDE DEF S
  <2> QED BY <1>1, ScheduleGood
<1>3. M.positions = L.positions /\ M.enabled = L.enabled
  <2> HIDE DEF S
  <2> QED BY ScheduleSame DEF Good
<1>4. HardStopped(L, hit, quoted, t, expected) = M
  BY DEF HardStopped
<1> HIDE DEF M
<1> QED BY <1>2, <1>3, <1>4, SameLots DEF Keeps

-----------------------------------------------------------------------------
\* An ordinary entry reserves nothing, or for a market without lot and order.
LEMMA EntryGood ==
  ASSUME NEW L, NEW t \in Int, Good(L, t), NEW x \in Symbols, NEW point,
         point.boundary \in Int, point.boundary - HOUR > L.resumed, L.enabled
  PROVE  Keeps(L, Entry(L, x, point, t), t)
<1> DEFINE M == Entry(L, x, point, t)
<1>1. PICK budget : M = [L EXCEPT !.used_day[x] = DayOf(point.boundary),
           !.pending[x] = IF /\ L.positions[x] = None /\ L.pending[x] = NoOrder
                             /\ point.boundary > L.last_exit[x]
                             /\ Vacant(L) > 0 /\ ~Rebalancing(L) /\ budget >= MinBudget
                            THEN BuyOrder(L, t, point.boundary, budget, 0, None) ELSE @]
  BY DEF Entry
<1> HIDE DEF M
<1>2. \/ M.pending = L.pending
      \/ /\ L.positions[x] = None /\ L.pending[x] = NoOrder /\ ~Rebalancing(L)
         /\ M.pending = [L.pending EXCEPT ![x] = BuyOrder(L, t, point.boundary, budget, 0, None)]
  BY <1>1 DEF Good, Shape, OnSymbols
<1>3. /\ Shape(M)
      /\ M.positions = L.positions /\ M.previous = L.previous
      /\ M.confirmed = L.confirmed /\ M.last_exit = L.last_exit
      /\ M.enabled = L.enabled /\ M.resumed = L.resumed
      /\ M.rebalance = L.rebalance /\ M.requests = L.requests
  BY <1>1 DEF Good, Shape, OnSymbols
<1>4. Follows(L, M) /\ Flat(L, M)
  BY <1>3, SameLots
<1>5. LotsInv(M, t) /\ SeenInv(M)
  BY <1>3 DEF Good, LotsInv, SeenInv
<1>6. OrdersInv(M, t) /\ OpInv(M)
  <2>1. CASE M.pending = L.pending
    <3>1. OrdersInv(M, t)
      BY <1>3, <2>1 DEF Good, OrdersInv, SellOk, BuyOk
    <3>2. Open(M) = Open(L)
      BY <1>3, <2>1 DEF Open
    <3> QED BY <1>3, <3>1, <3>2 DEF Good, OpInv, Rebalancing
  <2>2. CASE /\ L.positions[x] = None /\ L.pending[x] = NoOrder /\ ~Rebalancing(L)
             /\ M.pending = [L.pending EXCEPT ![x] = BuyOrder(L, t, point.boundary, budget, 0, None)]
    <3>1. \A y \in Symbols : M.pending[y] = IF y = x
            THEN BuyOrder(L, t, point.boundary, budget, 0, None) ELSE L.pending[y]
      BY <2>2 DEF Good, Shape, OnSymbols
    <3>2. L.last_exit[x] <= t
      BY DEF Good, LotsInv
    <3>3. OrdersInv(M, t)
      BY <1>3, <2>2, <3>1, <3>2 DEF Good, OrdersInv, SellOk, BuyOk, BuyOrder
    <3>4. L.rebalance.phase # "NONE" => Open(M) = Open(L)
      <4> SUFFICES ASSUME L.rebalance.phase # "NONE" PROVE Open(M) = Open(L)
        OBVIOUS
      <4>1. L.rebalance.request # 0
        BY DEF Good, OpInv
      <4>2. \A y \in Symbols : y \in Open(M) <=> y \in Open(L)
        BY <1>3, <2>2, <3>1, <4>1 DEF Open, BuyOrder
      <4> QED BY <4>2 DEF Open
    <3>5. L.rebalance.phase \notin {"SELLING", "BUYING"}
      BY <2>2 DEF Rebalancing
    <3> QED BY <1>3, <3>3, <3>4, <3>5 DEF Good, OpInv, Rebalancing, Phases
  <2> QED BY <1>2, <2>1, <2>2
<1> QED BY <1>3, <1>4, <1>5, <1>6 DEF Good, Keeps, M

\* observe() of an hour read under any earlier control.
LEMMA ObservedGood ==
  ASSUME NEW L, NEW t \in Int, Good(L, t), NEW x \in Symbols, NEW point,
         point # None, point.boundary \in Int, NEW generation
  PROVE  Keeps(L, Observed(L, x, point, t, generation), t)
<1> DEFINE old  == L.previous[x]
           yes  == Confirms(old, point)
           pool == IF yes THEN L.confirmed \cup {x} ELSE L.confirmed \ {x}
           seen == [L EXCEPT !.previous[x] = point, !.confirmed = pool]
           kept == IF Breaks(L, x, point) THEN ScheduleExit(seen, {x}, t) ELSE seen
           M    == Observed(L, x, point, t, generation)
           skip == \/ generation # L.generation \/ ~L.enabled \/ point.boundary <= L.resumed
                   \/ old # None /\ old.boundary >= point.boundary
<1>1. CASE skip
  BY <1>1, SameLots DEF Observed, Keeps
<1>2. CASE ~skip
  <2>1. L.enabled /\ point.boundary > L.resumed
    BY <1>2 DEF Good, Shape
  <2>2. /\ Shape(seen)
        /\ seen.positions = L.positions /\ seen.pending = L.pending
        /\ seen.last_exit = L.last_exit /\ seen.enabled = L.enabled
        /\ seen.resumed = L.resumed
        /\ seen.rebalance = L.rebalance /\ seen.requests = L.requests
        /\ seen.confirmed = pool
        /\ \A y \in Symbols : seen.previous[y] = IF y = x THEN point ELSE L.previous[y]
    <3> DEFINE table == [L.previous EXCEPT ![x] = point]
    <3>1. seen = [L EXCEPT !.previous = table, !.confirmed = pool]
      BY DEF Good, Shape
    <3>2. OnSymbols(table) /\ \A y \in Symbols : table[y] = IF y = x THEN point ELSE L.previous[y]
      BY DEF Good, Shape, OnSymbols
    <3>4. pool \subseteq Symbols
      BY DEF Good, Shape
    <3> HIDE DEF pool, table, seen
    <3>3. seen.previous = table /\ seen.confirmed = pool
      BY <3>1 DEF Good, Shape
    <3> QED BY <3>1, <3>2, <3>3, <3>4 DEF Good, Shape
  <2>3. yes => point.boundary - HOUR > L.resumed
    BY Numbers DEF Good, SeenInv, Confirms, Shape
  <2> HIDE DEF seen
  <2>4. SeenInv(seen)
    <3> SUFFICES ASSUME NEW y \in Symbols
                 PROVE  /\ seen.previous[y] # None =>
                             /\ seen.previous[y].boundary \in Int
                             /\ seen.previous[y].boundary > seen.resumed
                        /\ y \in seen.confirmed =>
                             /\ seen.previous[y] # None
                             /\ seen.previous[y].boundary - HOUR > seen.resumed
      BY DEF SeenInv
    <3>1. CASE y = x
      BY <2>1, <2>2, <2>3, <3>1
    <3>2. CASE y # x
      BY <2>2, <3>2 DEF Good, SeenInv
    <3> QED BY <3>1, <3>2
  <2>5. Open(seen) = Open(L)
    BY <2>2 DEF Open
  <2>6. Good(seen, t)
    <3>1. OrdersInv(seen, t)
      BY <2>2 DEF Good, OrdersInv, SellOk, BuyOk
    <3>2. LotsInv(seen, t)
      BY <2>2 DEF Good, LotsInv
    <3>3. OpInv(seen)
      BY <2>2, <2>5 DEF Good, OpInv, Rebalancing
    <3> QED BY <2>2, <2>4, <3>1, <3>2, <3>3 DEF Good
  <2>7. /\ Good(kept, t) /\ kept.positions = L.positions /\ kept.enabled = L.enabled
        /\ kept.resumed = L.resumed
    <3>1. CASE Breaks(L, x, point)
      <4>1. {x} \subseteq Held(seen)
        BY <2>2, <3>1 DEF Held, Breaks
      <4>2. Good(ScheduleExit(seen, {x}, t), t)
        BY <2>6, <4>1, ScheduleGood
      <4>3. kept = ScheduleExit(seen, {x}, t)
        BY <3>1
      <4> HIDE DEF kept
      <4> QED BY <2>2, <4>2, <4>3, ScheduleSame
    <3>2. CASE ~Breaks(L, x, point)
      BY <2>2, <2>6, <3>2
    <3> QED BY <3>1, <3>2
  <2> HIDE DEF kept
  <2>8. M = kept \/ (yes /\ M = Entry(kept, x, point, t))
    BY <1>2 DEF Observed, kept, seen, Good, Shape
  <2>9. Follows(L, kept) /\ Flat(L, kept)
    BY <2>7, SameLots
  <2>10. CASE M = kept
    BY <2>7, <2>9, <2>10 DEF Keeps
  <2>11. CASE yes /\ M = Entry(kept, x, point, t)
    <3>1. Keeps(kept, M, t)
      BY <2>1, <2>3, <2>7, <2>11, EntryGood
    <3>2. M.positions = kept.positions /\ M.enabled = kept.enabled
      BY <2>7, <2>11 DEF Entry, Good, Shape
    <3> QED BY <2>7, <3>1, <3>2, SameLots DEF Keeps
  <2> QED BY <2>8, <2>10, <2>11
<1> QED BY <1>1, <1>2

-----------------------------------------------------------------------------
\* cancel_entry() of a pending entry.
LEMMA CancelGood ==
  ASSUME NEW L, NEW t \in Int, Good(L, t), NEW x \in Symbols,
         L.pending[x] # NoOrder, L.pending[x].side = "BUY"
  PROVE  Keeps(L, Cancel(L, x, L.pending[x]), t)
<1> DEFINE order == L.pending[x]
           mine  == order.request # 0 /\ order.request = L.rebalance.request
           gone  == IF mine THEN L.rebalance.canceled \cup {x} ELSE L.rebalance.canceled
           M     == Cancel(L, x, order)
<1>1. /\ Shape(M)
      /\ M.positions = L.positions /\ M.previous = L.previous
      /\ M.confirmed = L.confirmed /\ M.last_exit = L.last_exit
      /\ M.enabled = L.enabled /\ M.resumed = L.resumed /\ M.requests = L.requests
      /\ \A y \in Symbols : M.pending[y] = IF y = x THEN NoOrder ELSE L.pending[y]
      /\ M.rebalance = [L.rebalance EXCEPT !.canceled = gone]
  <2> DEFINE table == [L.pending EXCEPT ![x] = NoOrder]
             op    == [L.rebalance EXCEPT !.canceled = gone]
  <2>1. M = [L EXCEPT !.pending = table, !.rebalance = op]
    BY DEF Good, Shape, OpShape, Cancel
  <2>2. OnSymbols(table) /\ \A y \in Symbols : table[y] = IF y = x THEN NoOrder ELSE L.pending[y]
    BY DEF Good, Shape, OnSymbols
  <2>3. OpShape(op)
    <3> HIDE DEF gone
    <3> QED BY DEF Good, Shape, OpShape
  <2> HIDE DEF table, op, M
  <2>4. M.pending = table /\ M.rebalance = op
    BY <2>1 DEF Good, Shape
  <2> QED BY <2>1, <2>2, <2>3, <2>4 DEF Good, Shape, op
<1> HIDE DEF M
<1>2. LotsInv(M, t)
  <2>1. L.positions[x] = None
    BY DEF Good, OrdersInv, SellOk, BuyOk
  <2> QED BY <1>1, <2>1 DEF Good, LotsInv
<1>3. /\ M.rebalance.canceled = gone
      /\ M.rebalance.phase = L.rebalance.phase /\ M.rebalance.request = L.rebalance.request
      /\ M.rebalance.boundary = L.rebalance.boundary
      /\ M.rebalance.targets = L.rebalance.targets /\ M.rebalance.bought = L.rebalance.bought
  <2> HIDE DEF gone
  <2> QED BY <1>1 DEF Good, Shape, OpShape
<1>4. OrdersInv(M, t) /\ SeenInv(M)
  BY <1>1, <1>3 DEF Good, OrdersInv, SellOk, BuyOk, SeenInv
<1>5. Open(M) = Open(L) \ {x}
  <2>1. \A y \in Symbols : y \in Open(M) <=> y \in Open(L) /\ y # x
    BY <1>1, <1>3 DEF Open
  <2> QED BY <2>1 DEF Open
<1>6. mine <=> x \in Open(L) /\ L.rebalance.phase # "NONE"
  BY DEF Open, Good, OpInv
<1>7. OpInv(M)
  <2>1. CASE mine
    <3>1. L.rebalance.phase = "BUYING" /\ x \in Open(L)
      BY <1>6, <2>1 DEF Good, OpInv, Phases
    <3>2. gone = L.rebalance.canceled \cup {x}
      BY <2>1
    <3> HIDE DEF gone
    <3> QED BY <1>1, <1>3, <1>5, <3>1, <3>2 DEF Good, OpInv, Rebalancing
  <2>2. CASE ~mine
    <3>1. gone = L.rebalance.canceled
      BY <2>2
    <3>2. L.rebalance.phase # "NONE" => Open(M) = Open(L)
      BY <1>5, <1>6, <2>2
    <3> HIDE DEF gone
    <3> QED BY <1>1, <1>3, <3>1, <3>2 DEF Good, OpInv, Rebalancing, Phases
  <2> QED BY <2>1, <2>2
<1>8. Follows(L, M) /\ Flat(L, M)
  BY <1>1, SameLots
<1> QED BY <1>1, <1>2, <1>4, <1>7, <1>8 DEF Good, Keeps, M

-----------------------------------------------------------------------------
\* What _finish() writes into it.
OpEnd(op, p, c) == [op EXCEPT !.phase = p, !.canceled = c]

LEMMA OpEnded ==
  ASSUME NEW op, OpShape(op), NEW p, NEW c
  PROVE  LET m == OpEnd(op, p, c)
         IN /\ OpShape(m)
            /\ m.phase = p /\ m.request = op.request /\ m.boundary = op.boundary
            /\ m.targets = op.targets /\ m.bought = op.bought /\ m.canceled = c
<1> DEFINE r == [op EXCEPT !.phase = p]
           m == [r EXCEPT !.canceled = c]
<1>1. /\ OpShape(r)
      /\ r.phase = p /\ r.request = op.request /\ r.boundary = op.boundary
      /\ r.targets = op.targets /\ r.bought = op.bought
  BY DEF OpShape
<1>2. OpEnd(op, p, c) = m
  BY DEF OpEnd
<1> HIDE DEF r
<1>3. /\ OpShape(m)
      /\ m.phase = r.phase /\ m.request = r.request /\ m.boundary = r.boundary
      /\ m.targets = r.targets /\ m.bought = r.bought /\ m.canceled = c
  BY <1>1 DEF OpShape
<1> QED BY <1>1, <1>2, <1>3

\* _finish() changes the record of the rebalancing only.
LEMMA FinishFields ==
  ASSUME NEW L, Shape(L), NEW phase
  PROVE  LET M == Finish(L, phase)
         IN /\ Shape(M)
            /\ M.positions = L.positions /\ M.pending = L.pending /\ M.previous = L.previous
            /\ M.confirmed = L.confirmed /\ M.last_exit = L.last_exit
            /\ M.enabled = L.enabled /\ M.resumed = L.resumed /\ M.requests = L.requests
            /\ M.rebalance.phase = phase /\ M.rebalance.request = L.rebalance.request
            /\ M.rebalance.boundary = L.rebalance.boundary
            /\ M.rebalance.targets = L.rebalance.targets
            /\ M.rebalance.bought = L.rebalance.bought
            /\ M.rebalance.canceled = IF phase = "CANCELED"
                 THEN L.rebalance.canceled \cup (L.rebalance.targets \ L.rebalance.bought)
                 ELSE L.rebalance.canceled
<1> DEFINE gone == IF phase = "CANCELED"
                     THEN L.rebalance.canceled \cup (L.rebalance.targets \ L.rebalance.bought)
                     ELSE L.rebalance.canceled
           op == OpEnd(L.rebalance, phase, gone)
           M  == Finish(L, phase)
<1>1. M = [L EXCEPT !.rebalance = op]
  BY DEF Shape, OpShape, Finish, OpEnd
<1>2. /\ OpShape(op)
      /\ op.phase = phase /\ op.request = L.rebalance.request
      /\ op.boundary = L.rebalance.boundary /\ op.targets = L.rebalance.targets
      /\ op.bought = L.rebalance.bought /\ op.canceled = gone
  <2>1. OpShape(L.rebalance)
    BY DEF Shape
  <2> HIDE DEF gone
  <2> QED BY <2>1, OpEnded
<1> HIDE DEF op, M
<1>3. M.rebalance = op
  BY <1>1 DEF Shape
<1>4. /\ Shape(M)
      /\ M.positions = L.positions /\ M.pending = L.pending /\ M.previous = L.previous
      /\ M.confirmed = L.confirmed /\ M.last_exit = L.last_exit
      /\ M.enabled = L.enabled /\ M.resumed = L.resumed /\ M.requests = L.requests
  BY <1>1, <1>2, <1>3 DEF Shape
<1> QED BY <1>2, <1>3, <1>4 DEF M

\* A rebalancing ends when nothing is reserved for it any more.
LEMMA FinishGood ==
  ASSUME NEW L, NEW t \in Int, Good(L, t), NEW phase \in {"DONE", "CANCELED"},
         Rebalancing(L), Open(L) = {}, phase = "DONE" => L.rebalance.phase = "BUYING"
  PROVE  Keeps(L, Finish(L, phase), t)
<1> DEFINE M == Finish(L, phase)
<1>1. /\ Shape(M)
      /\ M.positions = L.positions /\ M.pending = L.pending /\ M.previous = L.previous
      /\ M.confirmed = L.confirmed /\ M.last_exit = L.last_exit
      /\ M.enabled = L.enabled /\ M.resumed = L.resumed /\ M.requests = L.requests
      /\ M.rebalance.phase = phase /\ M.rebalance.request = L.rebalance.request
      /\ M.rebalance.boundary = L.rebalance.boundary
      /\ M.rebalance.targets = L.rebalance.targets
      /\ M.rebalance.bought = L.rebalance.bought
      /\ M.rebalance.canceled = IF phase = "CANCELED"
           THEN L.rebalance.canceled \cup (L.rebalance.targets \ L.rebalance.bought)
           ELSE L.rebalance.canceled
  BY FinishFields DEF Good
<1> HIDE DEF M
<1>2. OrdersInv(M, t) /\ LotsInv(M, t) /\ SeenInv(M)
  BY <1>1 DEF Good, OrdersInv, SellOk, BuyOk, LotsInv, SeenInv
<1>3. Open(M) = {}
  BY <1>1 DEF Open
<1>4. OpInv(M)
  <2>1. CASE phase = "DONE"
    BY <1>1, <1>3, <2>1 DEF Good, OpInv, Rebalancing, Phases
  <2>2. CASE phase = "CANCELED"
    BY <1>1, <1>3, <2>2 DEF Good, OpInv, Rebalancing, Phases
  <2> QED BY <2>1, <2>2
<1>5. Follows(L, M) /\ Flat(L, M)
  BY <1>1, SameLots
<1> QED BY <1>1, <1>2, <1>4, <1>5 DEF Good, Keeps, M

\* Once everything is sold, each target is reserved or dropped.
LEMMA PlaceTargetsGood ==
  ASSUME NEW L, NEW t \in Int, Good(L, t), L.rebalance.phase = "SELLING"
  PROVE  /\ Keeps(L, PlaceTargets(L, t), t)
         /\ PlaceTargets(L, t).positions = L.positions
         /\ PlaceTargets(L, t).enabled = L.enabled
<1> DEFINE op   == L.rebalance
           good == {x \in op.targets :
                      /\ L.positions[x] = None /\ L.pending[x] = NoOrder
                      /\ L.previous[x] # None /\ L.previous[x].boundary = op.boundary
                      /\ L.previous[x].qualifies}
           M    == PlaceTargets(L, t)
<1>1. PICK budget, days :
        M = [L EXCEPT !.rebalance = [op EXCEPT !.phase = "BUYING",
                                               !.canceled = op.canceled \cup (op.targets \ good)],
                      !.used_day = days,
                      !.pending = [x \in Symbols |->
                         IF x \in good
                           THEN BuyOrder(L, t, op.boundary, budget, op.request, op.boundary + HOUR)
                           ELSE L.pending[x]]]
  <2> HIDE DEF good
  <2>1. M = [L EXCEPT !.rebalance = [op EXCEPT !.phase = "BUYING",
                                               !.canceled = op.canceled \cup (op.targets \ good)],
                      !.used_day = [x \in Symbols |->
                         IF x \in good THEN DayOf(op.boundary) ELSE L.used_day[x]],
                      !.pending = [x \in Symbols |->
                         IF x \in good
                           THEN BuyOrder(L, t, op.boundary, L.cash \div (Slots - Cardinality(Held(L))),
                                         op.request, op.boundary + HOUR)
                           ELSE L.pending[x]]]
    BY DEF PlaceTargets, Good, Shape, OpShape, good
  <2> QED BY <2>1
<1>2. good \subseteq op.targets /\ good \subseteq Symbols
  BY DEF Good, OpInv
<1>3. \A x \in good : L.positions[x] = None /\ L.pending[x] = NoOrder
  OBVIOUS
<1> HIDE DEF good, M
<1>4. /\ Shape(M)
      /\ M.positions = L.positions /\ M.previous = L.previous
      /\ M.confirmed = L.confirmed /\ M.last_exit = L.last_exit
      /\ M.enabled = L.enabled /\ M.resumed = L.resumed /\ M.requests = L.requests
      /\ \A x \in Symbols : M.pending[x] = IF x \in good
           THEN BuyOrder(L, t, op.boundary, budget, op.request, op.boundary + HOUR)
           ELSE L.pending[x]
      /\ M.rebalance.phase = "BUYING" /\ M.rebalance.request = op.request
      /\ M.rebalance.boundary = op.boundary /\ M.rebalance.targets = op.targets
      /\ M.rebalance.bought = op.bought
      /\ M.rebalance.canceled = op.canceled \cup (op.targets \ good)
  BY <1>1 DEF Good, Shape, OnSymbols, OpShape
<1>5. /\ L.enabled /\ op.boundary \in Int /\ op.boundary - HOUR > L.resumed
      /\ Open(L) = {} /\ op.bought = {} /\ op.canceled = {}
      /\ op.request \in Nat /\ op.request > 0
  BY DEF Good, OpInv, Rebalancing
<1>6. OrdersInv(M, t)
  <2> SUFFICES ASSUME NEW x \in Symbols, M.pending[x] # NoOrder
               PROVE  /\ M.pending[x].decision \in Int /\ M.pending[x].decision <= t
                      /\ M.pending[x].earliest = M.pending[x].decision + 1
                      /\ SellOk(M, x) \/ BuyOk(M, x)
    BY DEF OrdersInv
  <2>1. CASE x \in good
    <3>1. L.last_exit[x] \in Int /\ L.last_exit[x] <= t
      BY DEF Good, LotsInv
    <3> QED BY <1>3, <1>4, <1>5, <2>1, <3>1 DEF BuyOk, BuyOrder
  <2>2. CASE x \notin good
    BY <1>4, <2>2 DEF Good, OrdersInv, SellOk, BuyOk
  <2> QED BY <2>1, <2>2
<1>7. LotsInv(M, t)
  BY <1>4, <1>5 DEF Good, LotsInv
<1>8. SeenInv(M)
  BY <1>4 DEF Good, SeenInv
<1>9. Open(M) = good
  <2>1. \A x \in Symbols : x \in good => x \in Open(M)
    <3> SUFFICES ASSUME NEW x \in Symbols, x \in good PROVE x \in Open(M)
      OBVIOUS
    <3>1. M.pending[x] = BuyOrder(L, t, op.boundary, budget, op.request, op.boundary + HOUR)
      BY <1>4
    <3>2. M.pending[x] # NoOrder
      BY <3>1 DEF BuyOrder, NoOrder
    <3> QED BY <1>4, <3>1, <3>2 DEF Open, BuyOrder
  <2>2. \A x \in Symbols : x \notin good => x \notin Open(M)
    BY <1>4, <1>5 DEF Open
  <2> QED BY <1>2, <2>1, <2>2 DEF Open
<1>10. OpInv(M)
  BY <1>2, <1>4, <1>5, <1>9 DEF Good, OpInv, Rebalancing, Phases
<1>11. Follows(L, M) /\ Flat(L, M)
  BY <1>4, SameLots
<1> QED BY <1>4, <1>6, <1>7, <1>8, <1>10, <1>11 DEF Good, Keeps, M

\* advance()
LEMMA AdvancedGood ==
  ASSUME NEW L, NEW t \in Int, Good(L, t)
  PROVE  Keeps(L, Advanced(L, t), t)
<1> DEFINE M == Advanced(L, t)
<1>1. Rebalancing(L) => L.enabled
  BY DEF Good, OpInv
<1>2. CASE M = L
  BY <1>2, SameLots DEF Keeps
<1>3. CASE Rebalancing(L) /\ L.rebalance.phase = "BUYING" /\ Open(L) = {} /\ M = Finish(L, "DONE")
  BY <1>3, FinishGood
<1>4. CASE L.rebalance.phase = "SELLING" /\ M = Finish(L, "CANCELED")
  <2>1. Open(L) = {} /\ Rebalancing(L)
    BY <1>4 DEF Good, OpInv, Rebalancing
  <2> QED BY <1>4, <2>1, FinishGood
<1>5. CASE L.rebalance.phase = "SELLING" /\ M = PlaceTargets(L, t)
  BY <1>5, PlaceTargetsGood
<1>6. (\E x \in Orders(L, "BUY") : L.pending[x].request = L.rebalance.request) \/ Open(L) = {}
  BY DEF Orders, Open
<1> QED BY <1>1, <1>2, <1>3, <1>4, <1>5, <1>6 DEF Advanced, Rebalancing

-----------------------------------------------------------------------------
\* request(): nothing is pending, and the targets were confirmed after the
\* last resumption.
LEMMA RequestedGood ==
  ASSUME NEW L, NEW t \in Int, Good(L, t), NEW mode, Plannable(L, mode, t)
  PROVE  /\ Keeps(L, Requested(L, mode, t), t)
         /\ Requested(L, mode, t).positions = L.positions
         /\ Requested(L, mode, t).enabled = L.enabled
<1> DEFINE sells == IF mode = "rebuild" THEN Held(L) ELSE {}
           op   == [phase |-> "SELLING", request |-> Cardinality(L.requests) + 1,
                    boundary |-> HourOf(t), targets |-> Targets(L, mode, t), sells |-> sells,
                    bought |-> {}, canceled |-> {}]
           used == L.requests \cup {Basis(L, mode, t)}
           base == [L EXCEPT !.requests = used, !.rebalance = op]
           M    == ScheduleExit(base, sells, t)
<1>1. Requested(L, mode, t) = M
  BY DEF Requested, Good, Shape
<1>2. /\ L.enabled
      /\ \A x \in Symbols : L.pending[x] = NoOrder
      /\ Targets(L, mode, t) # {}
  BY DEF Plannable
<1>3. \A x \in Targets(L, mode, t) : x \in L.confirmed /\ L.previous[x].boundary = HourOf(t)
  BY DEF Targets, FirstOf, Candidates
<1>4. /\ Targets(L, mode, t) \subseteq Symbols
      /\ HourOf(t) \in Int /\ HourOf(t) - HOUR > L.resumed
  <2>1. L.confirmed \subseteq Symbols
    BY DEF Good, Shape
  <2> QED BY <1>2, <1>3, <2>1, HourIsInt DEF Good, SeenInv
<1>5. /\ OpShape(op) /\ op.phase = "SELLING" /\ op.request = Cardinality(L.requests) + 1
      /\ op.boundary = HourOf(t) /\ op.targets = Targets(L, mode, t)
      /\ op.bought = {} /\ op.canceled = {}
  <2> HIDE DEF sells
  <2> QED BY DEF OpShape
<1> HIDE DEF op
<1>6. /\ Shape(base)
      /\ base.positions = L.positions /\ base.pending = L.pending
      /\ base.previous = L.previous /\ base.confirmed = L.confirmed
      /\ base.last_exit = L.last_exit /\ base.enabled = L.enabled
      /\ base.resumed = L.resumed /\ base.rebalance = op
      /\ base.requests = L.requests \cup {Basis(L, mode, t)}
  <2> DEFINE r == [L EXCEPT !.requests = used]
             m == [r EXCEPT !.rebalance = op]
  <2>1. base = m
    BY DEF Good, Shape
  <2> HIDE DEF used, base
  <2>2. /\ Shape(r)
        /\ r.positions = L.positions /\ r.pending = L.pending
        /\ r.previous = L.previous /\ r.confirmed = L.confirmed
        /\ r.last_exit = L.last_exit /\ r.enabled = L.enabled
        /\ r.resumed = L.resumed /\ r.requests = used
    BY DEF Good, Shape
  <2> HIDE DEF r
  <2>3. /\ Shape(m)
        /\ m.positions = r.positions /\ m.pending = r.pending
        /\ m.previous = r.previous /\ m.confirmed = r.confirmed
        /\ m.last_exit = r.last_exit /\ m.enabled = r.enabled
        /\ m.resumed = r.resumed /\ m.rebalance = op /\ m.requests = r.requests
    BY <1>5, <2>2 DEF Shape
  <2> HIDE DEF m
  <2> QED BY <2>1, <2>2, <2>3 DEF used
<1> HIDE DEF base
<1>7. OrdersInv(base, t) /\ LotsInv(base, t) /\ SeenInv(base)
  BY <1>2, <1>6 DEF Good, OrdersInv, LotsInv, SeenInv
<1>8. Open(base) = {}
  BY <1>2, <1>6 DEF Open, NoOrder
<1>9. OpInv(base)
  <2>1. IsFiniteSet(base.requests)
    BY <1>6, FS_AddElement DEF Good, OpInv
  <2>2. Cardinality(L.requests) \in Nat
    BY FS_CardinalityType DEF Good, OpInv
  <2> QED BY <1>2, <1>4, <1>5, <1>6, <1>8, <2>1, <2>2 DEF OpInv, Rebalancing, Phases
<1>10. sells \subseteq Held(base)
  BY <1>6 DEF Held
<1>11. Good(M, t)
  <2> HIDE DEF sells
  <2> QED BY <1>6, <1>7, <1>9, <1>10, ScheduleGood DEF Good
<1>12. M.positions = L.positions /\ M.enabled = L.enabled
  <2> HIDE DEF sells
  <2> QED BY <1>6, ScheduleSame
<1> HIDE DEF M
<1> QED BY <1>1, <1>11, <1>12, SameLots DEF Keeps

-----------------------------------------------------------------------------
\* A sale carries out the pending exit of the lot.
LEMMA SoldGood ==
  ASSUME NEW L, NEW t \in Int, Good(L, t), NEW x \in Symbols, NEW bar \in Int, NEW worth,
         L.pending[x] # NoOrder, L.pending[x].side = "SELL",
         L.pending[x].earliest <= bar, bar <= t
  PROVE  Keeps(L, Sold(L, x, bar, worth), t)
<1> DEFINE lots  == [L.positions EXCEPT ![x] = None]
           table == [L.pending EXCEPT ![x] = NoOrder]
           exits == [L.last_exit EXCEPT ![x] = bar]
           M     == Sold(L, x, bar, worth)
<1>1. PICK cash, realized :
        M = [L EXCEPT !.cash = cash, !.realized = realized, !.last_exit = exits,
                      !.positions = lots, !.pending = table]
  BY DEF Sold, Good, Shape
<1>2. /\ OnSymbols(lots) /\ \A y \in Symbols : lots[y] = IF y = x THEN None ELSE L.positions[y]
      /\ OnSymbols(table) /\ \A y \in Symbols : table[y] = IF y = x THEN NoOrder ELSE L.pending[y]
      /\ OnSymbols(exits) /\ \A y \in Symbols : exits[y] = IF y = x THEN bar ELSE L.last_exit[y]
  BY DEF Good, Shape, OnSymbols
<1> HIDE DEF lots, table, exits, M
<1>3. /\ Shape(M)
      /\ M.positions = lots /\ M.pending = table /\ M.last_exit = exits
      /\ M.previous = L.previous /\ M.confirmed = L.confirmed
      /\ M.enabled = L.enabled /\ M.resumed = L.resumed
      /\ M.rebalance = L.rebalance /\ M.requests = L.requests
  BY <1>1, <1>2 DEF Good, Shape
<1>4. /\ L.pending[x].decision \in Int /\ L.pending[x].earliest = L.pending[x].decision + 1
      /\ L.positions[x] # None /\ L.pending[x].decision >= L.positions[x].entry
  BY DEF Good, OrdersInv, SellOk, BuyOk
<1>5. OrdersInv(M, t)
  BY <1>2, <1>3 DEF Good, OrdersInv, SellOk, BuyOk
<1>6. LotsInv(M, t) /\ SeenInv(M)
  BY <1>2, <1>3 DEF Good, LotsInv, SeenInv
<1>7. Open(M) = Open(L)
  <2>1. \A y \in Symbols : y \in Open(M) <=> y \in Open(L)
    BY <1>2, <1>3 DEF Open
  <2> QED BY <2>1 DEF Open
<1>8. OpInv(M)
  BY <1>3, <1>7 DEF Good, OpInv, Rebalancing
<1>9. Follows(L, M)
  BY <1>2, <1>3, <1>4 DEF Follows
<1>10. Flat(L, M)
  BY <1>3 DEF Flat
<1> QED BY <1>3, <1>5, <1>6, <1>8, <1>9, <1>10 DEF Good, Keeps, M

\* A purchase carries out the pending entry.
LEMMA BoughtGood ==
  ASSUME NEW L, NEW t \in Int, Good(L, t), NEW x \in Symbols, NEW bar \in Int,
         L.pending[x] # NoOrder, L.pending[x].side = "BUY",
         L.pending[x].earliest <= bar, bar <= t, L.pending[x].generation = L.generation
  PROVE  Keeps(L, Bought(L, x, L.pending[x], bar), t)
<1> DEFINE order == L.pending[x]
           mine  == order.request # 0 /\ order.request = L.rebalance.request
           got   == IF mine THEN L.rebalance.bought \cup {x} ELSE L.rebalance.bought
           lot   == [entry |-> bar, cost |-> order.budget, signal |-> order.signal]
           lots  == [L.positions EXCEPT ![x] = lot]
           table == [L.pending EXCEPT ![x] = NoOrder]
           op    == [L.rebalance EXCEPT !.bought = got]
           M     == Bought(L, x, order, bar)
<1>1. PICK cash :
        M = [L EXCEPT !.cash = cash, !.positions = lots, !.pending = table, !.rebalance = op]
  BY DEF Bought, Good, Shape, OpShape
<1>2. /\ OnSymbols(lots) /\ \A y \in Symbols : lots[y] = IF y = x THEN lot ELSE L.positions[y]
      /\ OnSymbols(table) /\ \A y \in Symbols : table[y] = IF y = x THEN NoOrder ELSE L.pending[y]
  <2> HIDE DEF lot
  <2> QED BY DEF Good, Shape, OnSymbols
<1>3. /\ OpShape(op) /\ op.phase = L.rebalance.phase /\ op.request = L.rebalance.request
      /\ op.boundary = L.rebalance.boundary /\ op.targets = L.rebalance.targets
      /\ op.bought = got /\ op.canceled = L.rebalance.canceled
  <2>1. OpShape(L.rebalance)
    BY DEF Good, Shape
  <2> HIDE DEF got
  <2> QED BY <2>1 DEF OpShape
<1>4. lot.entry = bar /\ lot.signal = order.signal
  OBVIOUS
<1>5. /\ order.decision \in Int /\ order.earliest = order.decision + 1
      /\ L.positions[x] = None /\ L.enabled /\ order.decision >= L.last_exit[x]
      /\ order.signal \in Int /\ order.signal - HOUR > L.resumed
      /\ order.request \in {0, L.rebalance.request}
  BY DEF Good, OrdersInv, SellOk, BuyOk
<1> HIDE DEF lots, table, op, M, lot
<1>6. /\ Shape(M)
      /\ M.positions = lots /\ M.pending = table /\ M.last_exit = L.last_exit
      /\ M.previous = L.previous /\ M.confirmed = L.confirmed
      /\ M.enabled = L.enabled /\ M.resumed = L.resumed
      /\ M.rebalance = op /\ M.requests = L.requests
  BY <1>1, <1>2, <1>3 DEF Good, Shape
<1>7. OrdersInv(M, t)
  BY <1>2, <1>3, <1>6 DEF Good, OrdersInv, SellOk, BuyOk
<1>8. LotsInv(M, t) /\ SeenInv(M)
  BY <1>2, <1>4, <1>5, <1>6 DEF Good, LotsInv, SeenInv
<1>9. Open(M) = Open(L) \ {x}
  <2>1. \A y \in Symbols : y \in Open(M) <=> y \in Open(L) /\ y # x
    BY <1>2, <1>3, <1>6 DEF Open
  <2> QED BY <2>1 DEF Open
<1>10. mine <=> x \in Open(L) /\ L.rebalance.phase # "NONE"
  BY DEF Open, Good, OpInv
<1>11. OpInv(M)
  <2>1. CASE mine
    <3>1. L.rebalance.phase = "BUYING" /\ x \in Open(L)
      BY <1>10, <2>1 DEF Good, OpInv, Phases
    <3>2. got = L.rebalance.bought \cup {x}
      BY <2>1
    <3> HIDE DEF got
    <3> QED BY <1>3, <1>6, <1>9, <3>1, <3>2 DEF Good, OpInv, Rebalancing
  <2>2. CASE ~mine
    <3>1. got = L.rebalance.bought
      BY <2>2
    <3>2. L.rebalance.phase # "NONE" => Open(M) = Open(L)
      BY <1>9, <1>10, <2>2
    <3> HIDE DEF got
    <3> QED BY <1>3, <1>6, <3>1, <3>2 DEF Good, OpInv, Rebalancing, Phases
  <2> QED BY <2>1, <2>2
<1>12. Follows(L, M)
  <2>1. bar > L.last_exit[x]
    BY <1>5 DEF Good, LotsInv
  <2> QED BY <1>2, <1>4, <1>5, <1>6, <2>1 DEF Follows
<1>13. Flat(L, M)
  BY <1>6 DEF Flat
<1> QED BY <1>6, <1>7, <1>8, <1>11, <1>12, <1>13 DEF Good, Keeps, M

\* execute() of any order a thread holds, at any bar up to its stamp.
LEMMA ExecutedGood ==
  ASSUME NEW L, NEW t \in Int, Good(L, t), NEW x \in Symbols, NEW order, order # NoOrder,
         NEW bar \in Int, NEW stamp \in Int, stamp <= t, NEW worth, NEW below
  PROVE  Keeps(L, Executed(L, x, order, bar, stamp, worth, below), t)
<1> DEFINE M == Executed(L, x, order, bar, stamp, worth, below)
<1>1. CASE M = L
  BY <1>1, SameLots DEF Keeps
<1>2. CASE M # L
  <2>1. /\ L.pending[x] = order /\ ~(bar < order.earliest) /\ ~(bar > stamp)
    BY <1>2 DEF Executed
  <2>2. L.pending[x].earliest <= bar /\ bar <= t
    BY <2>1 DEF Good, OrdersInv
  <2>3. L.pending[x].side \in {"BUY", "SELL"}
    BY <2>1 DEF Good, OrdersInv, SellOk, BuyOk
  <2>4. CASE order.side = "SELL"
    <3>1. M = Sold(L, x, bar, worth)
      BY <1>2, <2>4 DEF Executed
    <3> QED BY <2>1, <2>2, <2>4, <3>1, SoldGood
  <2>5. CASE order.side = "BUY"
    <3>1. order.generation = L.generation
      BY <1>2, <2>5 DEF Executed
    <3>2. M = Cancel(L, x, order) \/ M = Bought(L, x, order, bar)
      BY <1>2, <2>5 DEF Executed
    <3> HIDE DEF M
    <3>3. CASE M = Cancel(L, x, order)
      BY <2>1, <2>5, <3>3, CancelGood DEF M
    <3>4. CASE M = Bought(L, x, order, bar)
      BY <2>1, <2>2, <2>5, <3>1, <3>4, BoughtGood DEF M
    <3> QED BY <3>2, <3>3, <3>4
  <2> QED BY <2>1, <2>3, <2>4, <2>5
<1> QED BY <1>1, <1>2
-----------------------------------------------------------------------------
\* clear(): no entry stays reserved, every lot gets its exit, and a
\* rebalancing ends.
LEMMA ClearedGood ==
  ASSUME NEW L, NEW t \in Int, Good(L, t)
  PROVE  Keeps(L, Cleared(L, t), t)
<1> DEFINE table == [x \in Symbols |-> IF x \in Orders(L, "BUY") THEN NoOrder ELSE L.pending[x]]
           next  == L.generation + 1
           off   == [L EXCEPT !.enabled = FALSE, !.generation = next, !.pending = table]
           N     == ScheduleExit(off, Held(L), t)
           M     == Cleared(L, t)
<1>1. M = Advanced(N, t)
  BY DEF Cleared, Good, Shape
<1>2. \A x \in Symbols : table[x] = IF x \in Orders(L, "BUY") THEN NoOrder ELSE L.pending[x]
  OBVIOUS
<1>3. OnSymbols(table)
  BY DEF OnSymbols
<1> HIDE DEF table, next
<1>4. /\ Shape(off)
      /\ off.positions = L.positions /\ off.pending = table /\ off.previous = L.previous
      /\ off.confirmed = L.confirmed /\ off.last_exit = L.last_exit
      /\ off.enabled = FALSE /\ off.resumed = L.resumed
      /\ off.rebalance = L.rebalance /\ off.requests = L.requests
  <2> DEFINE q == [L EXCEPT !.generation = next]
             r == [q EXCEPT !.pending = table]
  <2>1. off = [r EXCEPT !.enabled = FALSE]
    BY DEF Good, Shape
  <2> HIDE DEF off
  <2>2. /\ Shape(q)
        /\ q.positions = L.positions /\ q.previous = L.previous
        /\ q.confirmed = L.confirmed /\ q.last_exit = L.last_exit
        /\ q.resumed = L.resumed
        /\ q.rebalance = L.rebalance /\ q.requests = L.requests
    BY DEF Good, Shape
  <2> HIDE DEF q
  <2>3. /\ Shape(r) /\ r.pending = table
        /\ r.positions = q.positions /\ r.previous = q.previous
        /\ r.confirmed = q.confirmed /\ r.last_exit = q.last_exit
        /\ r.resumed = q.resumed
        /\ r.rebalance = q.rebalance /\ r.requests = q.requests
    BY <1>3, <2>2 DEF Shape
  <2> HIDE DEF r
  <2> QED BY <2>1, <2>2, <2>3 DEF Shape
<1> HIDE DEF off
<1>5. /\ Shape(N)
      /\ N.positions = L.positions /\ N.previous = L.previous
      /\ N.confirmed = L.confirmed /\ N.last_exit = L.last_exit
      /\ N.enabled = FALSE /\ N.resumed = L.resumed
      /\ N.rebalance = L.rebalance /\ N.requests = L.requests
      /\ \A x \in Symbols :
           N.pending[x] = IF x \in Held(L) /\ table[x] = NoOrder
             THEN [side |-> "SELL", decision |-> t, earliest |-> t + 1,
                   generation |-> off.generation]
             ELSE table[x]
  BY <1>4, ScheduleFields
<1> HIDE DEF N
<1>6. \A x \in Symbols : table[x] # NoOrder =>
         /\ table[x] = L.pending[x] /\ SellOk(L, x)
         /\ L.pending[x].decision \in Int /\ L.pending[x].decision <= t
         /\ L.pending[x].earliest = L.pending[x].decision + 1
  <2> SUFFICES ASSUME NEW x \in Symbols, table[x] # NoOrder
               PROVE  /\ table[x] = L.pending[x] /\ SellOk(L, x)
                      /\ L.pending[x].decision \in Int /\ L.pending[x].decision <= t
                      /\ L.pending[x].earliest = L.pending[x].decision + 1
    OBVIOUS
  <2>1. x \notin Orders(L, "BUY") /\ table[x] = L.pending[x]
    BY <1>2
  <2>2. L.pending[x].side # "BUY"
    BY <2>1 DEF Orders
  <2> QED BY <2>1, <2>2 DEF Good, OrdersInv, BuyOk
<1>7. OrdersInv(N, t)
  <2> SUFFICES ASSUME NEW x \in Symbols, N.pending[x] # NoOrder
               PROVE  /\ N.pending[x].decision \in Int /\ N.pending[x].decision <= t
                      /\ N.pending[x].earliest = N.pending[x].decision + 1
                      /\ SellOk(N, x)
    BY DEF OrdersInv
  <2>1. CASE x \in Held(L) /\ table[x] = NoOrder
    <3>1. N.pending[x] = [side |-> "SELL", decision |-> t, earliest |-> t + 1,
                          generation |-> off.generation]
      BY <1>5, <2>1
    <3>2. L.positions[x] # None /\ L.positions[x].entry <= t
      BY <2>1 DEF Held, Good, LotsInv
    <3> QED BY <1>5, <3>1, <3>2 DEF SellOk
  <2>2. CASE ~(x \in Held(L) /\ table[x] = NoOrder)
    <3>1. N.pending[x] = table[x]
      BY <1>5, <2>2
    <3> QED BY <1>5, <1>6, <3>1 DEF SellOk
  <2> QED BY <2>1, <2>2
<1>8. LotsInv(N, t)
  <2>1. \A x \in Symbols : L.positions[x] # None => N.pending[x] # NoOrder
    BY <1>5 DEF Held, NoOrder
  <2> QED BY <1>5, <2>1 DEF Good, LotsInv
<1>9. SeenInv(N)
  BY <1>5 DEF Good, SeenInv
<1>10. \A x \in Symbols : ~(N.pending[x] # NoOrder /\ N.pending[x].side = "BUY")
  BY <1>7, <1>5 DEF OrdersInv, SellOk, BuyOk
<1>11. Open(N) = {}
  BY <1>10 DEF Open
<1>12. CASE Rebalancing(N)
  <2>1. M = Finish(N, "CANCELED")
    BY <1>1, <1>5, <1>12 DEF Advanced
  <2> HIDE DEF M
  <2>2. /\ Shape(M)
        /\ M.positions = N.positions /\ M.pending = N.pending /\ M.previous = N.previous
        /\ M.confirmed = N.confirmed /\ M.last_exit = N.last_exit
        /\ M.enabled = N.enabled /\ M.resumed = N.resumed /\ M.requests = N.requests
        /\ M.rebalance.phase = "CANCELED" /\ M.rebalance.request = N.rebalance.request
        /\ M.rebalance.boundary = N.rebalance.boundary
        /\ M.rebalance.targets = N.rebalance.targets
        /\ M.rebalance.bought = N.rebalance.bought
        /\ M.rebalance.canceled =
             N.rebalance.canceled \cup (N.rebalance.targets \ N.rebalance.bought)
    <3> DEFINE F == Finish(N, "CANCELED")
    <3>1. /\ Shape(F)
          /\ F.positions = N.positions /\ F.pending = N.pending /\ F.previous = N.previous
          /\ F.confirmed = N.confirmed /\ F.last_exit = N.last_exit
          /\ F.enabled = N.enabled /\ F.resumed = N.resumed /\ F.requests = N.requests
          /\ F.rebalance.phase = "CANCELED" /\ F.rebalance.request = N.rebalance.request
          /\ F.rebalance.boundary = N.rebalance.boundary
          /\ F.rebalance.targets = N.rebalance.targets
          /\ F.rebalance.bought = N.rebalance.bought
          /\ F.rebalance.canceled = IF "CANCELED" = "CANCELED"
               THEN N.rebalance.canceled \cup (N.rebalance.targets \ N.rebalance.bought)
               ELSE N.rebalance.canceled
      BY <1>5, FinishFields
    <3> HIDE DEF F
    <3>2. M = F
      BY <2>1 DEF F
    <3> QED BY <3>1, <3>2
  <2>3. OrdersInv(M, t) /\ LotsInv(M, t) /\ SeenInv(M)
    BY <1>7, <1>8, <1>9, <2>2 DEF OrdersInv, SellOk, BuyOk, LotsInv, SeenInv
  <2>4. Open(M) = {}
    BY <1>10, <2>2 DEF Open
  <2>5. L.rebalance.phase = "SELLING" \/ L.rebalance.phase = "BUYING"
    BY <1>5, <1>12 DEF Rebalancing
  <2>6. OpInv(M)
    <3>1. CASE L.rebalance.phase = "SELLING"
      BY <1>5, <2>2, <2>4, <3>1 DEF Good, OpInv, Rebalancing, Phases
    <3>2. CASE L.rebalance.phase = "BUYING"
      <4>1. L.rebalance.targets = L.rebalance.bought \cup L.rebalance.canceled \cup Open(L)
        BY <3>2 DEF Good, OpInv
      <4>2. M.rebalance.targets = M.rebalance.bought \cup M.rebalance.canceled
        BY <1>5, <2>2, <4>1
      <4> QED BY <1>5, <2>2, <2>4, <3>2, <4>2 DEF Good, OpInv, Rebalancing, Phases
    <3> QED BY <2>5, <3>1, <3>2
  <2>7. Follows(L, M) /\ Flat(L, M)
    BY <1>5, <2>2 DEF Follows, Flat
  <2> QED BY <2>2, <2>3, <2>6, <2>7 DEF Good, Keeps, M
<1>13. CASE ~Rebalancing(N)
  <2>1. M = N
    BY <1>1, <1>13 DEF Advanced
  <2>2. OpInv(N)
    BY <1>5, <1>11, <1>13 DEF Good, OpInv, Rebalancing
  <2>3. Follows(L, N) /\ Flat(L, N)
    BY <1>5 DEF Follows, Flat
  <2> QED BY <1>5, <1>7, <1>8, <1>9, <2>1, <2>2, <2>3 DEF Good, Keeps
<1> QED BY <1>12, <1>13

\* resume(): nothing is held, nothing pending, and nothing seen.
LEMMA ResumedGood ==
  ASSUME NEW L, NEW t \in Int, Good(L, t)
  PROVE  Keeps(L, Resumed(L, t), t)
<1> DEFINE M == Resumed(L, t)
<1>1. CASE M = L
  BY <1>1, SameLots DEF Keeps
<1>2. CASE M # L
  <2> DEFINE blank == [x \in Symbols |-> None]
  <2>1. /\ Orders(L, "SELL") = {} /\ ~L.enabled
        /\ M = [L EXCEPT !.enabled = TRUE, !.generation = L.generation + 1, !.resumed = t,
                         !.previous = blank, !.confirmed = {}]
    BY <1>2 DEF Resumed, Good, Shape
  <2>2. OnSymbols(blank) /\ \A x \in Symbols : blank[x] = None
    BY DEF OnSymbols
  <2> HIDE DEF blank, M
  <2>3. /\ Shape(M)
        /\ M.positions = L.positions /\ M.pending = L.pending /\ M.previous = blank
        /\ M.confirmed = {} /\ M.last_exit = L.last_exit
        /\ M.enabled = TRUE /\ M.resumed = t
        /\ M.rebalance = L.rebalance /\ M.requests = L.requests
    BY <2>1, <2>2 DEF Good, Shape
  <2>4. \A x \in Symbols : L.pending[x] = NoOrder
    BY <2>1 DEF Good, OrdersInv, SellOk, BuyOk, Orders
  <2>5. \A x \in Symbols : L.positions[x] = None
    BY <2>1, <2>4 DEF Good, LotsInv
  <2>6. OrdersInv(M, t) /\ LotsInv(M, t) /\ SeenInv(M)
    BY <2>2, <2>3, <2>4, <2>5 DEF Good, OrdersInv, LotsInv, SeenInv
  <2>7. Open(M) = Open(L)
    BY <2>3 DEF Open
  <2>8. ~Rebalancing(M)
    BY <2>1, <2>3 DEF Good, OpInv, Rebalancing
  <2>9. OpInv(M)
    BY <2>3, <2>7, <2>8 DEF Good, OpInv, Rebalancing
  <2>10. Follows(L, M) /\ Flat(L, M)
    BY <2>3, <2>5 DEF Follows, Flat, Held
  <2> QED BY <2>3, <2>6, <2>9, <2>10 DEF Good, Keeps, M
<1> QED BY <1>1, <1>2

\* set_scan(): nothing else changes.
LEMMA ScanGood ==
  ASSUME NEW L, NEW t \in Int, Good(L, t), NEW scan
  PROVE  Keeps(L, [L EXCEPT !.scan = scan], t)
<1> DEFINE M == [L EXCEPT !.scan = scan]
<1>1. /\ Shape(M)
      /\ M.positions = L.positions /\ M.pending = L.pending /\ M.previous = L.previous
      /\ M.confirmed = L.confirmed /\ M.last_exit = L.last_exit
      /\ M.enabled = L.enabled /\ M.resumed = L.resumed
      /\ M.rebalance = L.rebalance /\ M.requests = L.requests
  BY DEF Good, Shape
<1> HIDE DEF M
<1>2. OrdersInv(M, t) /\ LotsInv(M, t) /\ SeenInv(M)
  BY <1>1 DEF Good, OrdersInv, SellOk, BuyOk, LotsInv, SeenInv
<1>3. Open(M) = Open(L)
  BY <1>1 DEF Open
<1>4. OpInv(M)
  BY <1>1, <1>3 DEF Good, OpInv, Rebalancing
<1> QED BY <1>1, <1>2, <1>4, SameLots DEF Good, Keeps, M

\* The account as opened.
LEMMA InitialGood == Good(InitialLedger, StartStamp)
<1> DEFINE M == InitialLedger
<1>1. Shape(M)
  BY Numbers DEF InitialLedger, Shape, OnSymbols, OpShape, NoRebalance
<1>2. /\ \A x \in Symbols : /\ M.positions[x] = None /\ M.pending[x] = NoOrder
                            /\ M.previous[x] = None /\ M.last_exit[x] = 0
      /\ M.confirmed = {} /\ M.rebalance = NoRebalance /\ M.requests = {}
      /\ M.enabled = TRUE
  BY DEF InitialLedger
<1> HIDE DEF M
<1>3. OrdersInv(M, StartStamp) /\ LotsInv(M, StartStamp) /\ SeenInv(M)
  BY <1>2, Numbers DEF OrdersInv, LotsInv, SeenInv
<1>4. Open(M) = {}
  BY <1>2 DEF Open
<1>5. OpInv(M)
  BY <1>2, <1>4, FS_EmptySet DEF OpInv, NoRebalance, Rebalancing, Phases
<1> QED BY <1>1, <1>3, <1>5 DEF Good, M

\* advance() carries out nothing.
LEMMA AdvancedSame ==
  ASSUME NEW L, NEW t \in Int, Good(L, t)
  PROVE  Advanced(L, t).positions = L.positions /\ Advanced(L, t).enabled = L.enabled
<1> DEFINE M == Advanced(L, t)
<1>1. \/ M = L
      \/ M = Finish(L, "DONE") \/ M = Finish(L, "CANCELED")
      \/ L.rebalance.phase = "SELLING" /\ M = PlaceTargets(L, t)
  BY DEF Advanced, Rebalancing
<1>2. ASSUME NEW phase, M = Finish(L, phase)
      PROVE  M.positions = L.positions /\ M.enabled = L.enabled
  <2>1. Shape(L)
    BY DEF Good
  <2>2. Finish(L, phase).positions = L.positions /\ Finish(L, phase).enabled = L.enabled
    BY <2>1 DEF Finish, Shape
  <2> HIDE DEF M
  <2> QED BY <1>2, <2>2
<1>3. CASE L.rebalance.phase = "SELLING" /\ M = PlaceTargets(L, t)
  <2> HIDE DEF M
  <2> QED BY <1>3, PlaceTargetsGood DEF M
<1> HIDE DEF M
<1> QED BY <1>1, <1>2, <1>3 DEF M

-----------------------------------------------------------------------------
(* Money: what is reserved is covered by the cash and by the slots.        *)

\* The slots that lots and entries take.
Taken(L) == Held(L) \cup Orders(L, "BUY")

\* The slots a rebalancing leaves taken once its exits are filled.
Claimed(L) == L.rebalance.targets \cup (Held(L) \ L.rebalance.sells)

Money(L) ==
  /\ L.cash \in Int
  /\ \A x \in Symbols : Budgets(L)[x] \in Nat
  /\ \A x \in Held(L) : L.positions[x].cost \in Nat
  /\ Held(L) \cap Orders(L, "BUY") = {}
  /\ Cardinality(Taken(L)) <= Slots
  /\ Reserved(L) <= L.cash
  /\ L.rebalance.phase = "SELLING" =>
       /\ Orders(L, "BUY") = {}
       /\ Claimed(L) \subseteq Symbols /\ Cardinality(Claimed(L)) <= Slots

\* Sets of markets can be counted.
LEMMA Counts ==
  ASSUME NEW S \in SUBSET Symbols
  PROVE  /\ IsFiniteSet(S) /\ Cardinality(S) \in Nat /\ Slots \in Nat
         /\ \A T \in SUBSET S : Cardinality(T) <= Cardinality(S)
<1>1. IsFiniteSet(Symbols) /\ Slots \in Nat
  BY LedgerAssumption
<1>2. IsFiniteSet(S)
  BY <1>1, FS_Subset
<1> QED BY <1>1, <1>2, FS_CardinalityType, FS_Subset

\* Held lots and reserved entries are of markets.
LEMMA OfMarkets ==
  ASSUME NEW L
  PROVE  /\ Held(L) \in SUBSET Symbols /\ Orders(L, "BUY") \in SUBSET Symbols
         /\ Taken(L) \in SUBSET Symbols
         /\ \A x \in Symbols : /\ x \in Held(L) <=> L.positions[x] # None
                               /\ x \in Orders(L, "BUY") <=> L.pending[x].side = "BUY"
BY DEF Held, Orders, Taken

\* The budget of an entry, and of no entry.
LEMMA BudgetOf ==
  ASSUME NEW L, NEW x \in Symbols
  PROVE  /\ L.pending[x].side = "BUY" => Budgets(L)[x] = L.pending[x].budget
         /\ L.pending[x].side # "BUY" => Budgets(L)[x] = 0
         /\ L.pending[x] = NoOrder => L.pending[x].side # "BUY"
BY DEF Budgets, NoOrder

\* A reserved budget is part of the whole.
LEMMA ReservedWhole ==
  ASSUME NEW L, \A x \in Symbols : Budgets(L)[x] \in Nat
  PROVE  Reserved(L) \in Nat /\ \A x \in Symbols : Budgets(L)[x] <= Reserved(L)
<1>1. IsFiniteSet(Symbols)
  BY LedgerAssumption
<1> DEFINE f == Budgets(L)
<1>2. \A x \in Symbols : f[x] \in Nat
  OBVIOUS
<1> HIDE DEF f
<1>3. SumFunctionOnSet(f, Symbols) \in Nat /\ \A x \in Symbols : f[x] <= SumFunctionOnSet(f, Symbols)
  BY <1>1, <1>2, SumNatural
<1> QED BY <1>3 DEF f, Reserved

\* One order changed: the sum changes by its budget.
LEMMA ReservedChange ==
  ASSUME NEW L, NEW M, NEW x \in Symbols,
         \A y \in Symbols : Budgets(L)[y] \in Nat /\ Budgets(M)[y] \in Nat,
         \A y \in Symbols : y # x => Budgets(M)[y] = Budgets(L)[y]
  PROVE  Reserved(M) = Reserved(L) - Budgets(L)[x] + Budgets(M)[x]
<1>1. IsFiniteSet(Symbols)
  BY LedgerAssumption
<1> DEFINE f == Budgets(L)
           g == Budgets(M)
<1>2. Changed(f, g, Symbols, x)
  BY DEF Changed
<1> HIDE DEF f, g
<1>3. SumFunctionOnSet(g, Symbols) = SumFunctionOnSet(f, Symbols) - f[x] + g[x]
  BY <1>1, <1>2, SumChange
<1> QED BY <1>3 DEF f, g, Reserved

\* Entries that are the same need the same cash.
LEMMA ReservedSame ==
  ASSUME NEW L, NEW M, \A x \in Symbols : Budgets(M)[x] = Budgets(L)[x]
  PROVE  Reserved(M) = Reserved(L)
<1>1. IsFiniteSet(Symbols)
  BY LedgerAssumption
<1> DEFINE f == Budgets(L)
           g == Budgets(M)
<1>2. \A x \in Symbols : g[x] = f[x]
  OBVIOUS
<1> HIDE DEF f, g
<1>3. SumFunctionOnSet(g, Symbols) = SumFunctionOnSet(f, Symbols)
  BY <1>1, <1>2, SumSame
<1> QED BY <1>3 DEF f, g, Reserved

\* The entries are those of L.
SameEntries(L, M) ==
  \A x \in Symbols : /\ M.pending[x].side = "BUY" <=> L.pending[x].side = "BUY"
                     /\ L.pending[x].side = "BUY" => M.pending[x] = L.pending[x]

\* A step that moves no money.
LEMMA SameMoney ==
  ASSUME NEW L, NEW M, Money(L), SameEntries(L, M),
         M.cash = L.cash, M.positions = L.positions,
         M.rebalance.phase = "SELLING" =>
           /\ L.rebalance.phase = "SELLING"
           /\ M.rebalance.targets = L.rebalance.targets /\ M.rebalance.sells = L.rebalance.sells
  PROVE  Money(M)
<1>1. Held(M) = Held(L) /\ Orders(M, "BUY") = Orders(L, "BUY")
  BY DEF Held, Orders, SameEntries
<1>2. \A x \in Symbols : Budgets(M)[x] = Budgets(L)[x]
  BY BudgetOf DEF SameEntries
<1>3. Reserved(M) = Reserved(L)
  BY <1>2, ReservedSame
<1>4. M.rebalance.phase = "SELLING" => Claimed(M) = Claimed(L)
  BY <1>1 DEF Claimed
<1>5. Taken(M) = Taken(L)
  BY <1>1 DEF Taken
<1> QED BY <1>1, <1>2, <1>3, <1>4, <1>5 DEF Money

\* schedule_exit() reserves nothing.
LEMMA ScheduleMoney ==
  ASSUME NEW L, Shape(L), Money(L), NEW S, NEW t
  PROVE  Money(ScheduleExit(L, S, t)) /\ Shape(ScheduleExit(L, S, t))
<1> DEFINE M == ScheduleExit(L, S, t)
<1>1. M.cash = L.cash
  BY DEF Shape, ScheduleExit
<1>2. /\ M.positions = L.positions /\ M.rebalance = L.rebalance /\ Shape(M)
      /\ \A x \in Symbols :
           M.pending[x] = IF x \in S /\ L.pending[x] = NoOrder
             THEN [side |-> "SELL", decision |-> t, earliest |-> t + 1,
                   generation |-> L.generation]
             ELSE L.pending[x]
  BY ScheduleFields
<1> HIDE DEF M
<1>3. SameEntries(L, M)
  BY <1>2 DEF SameEntries, NoOrder
<1> QED BY <1>1, <1>2, <1>3, SameMoney DEF M

\* An ordinary entry gets its share of the cash that is not reserved.
LEMMA EntryMoney ==
  ASSUME NEW L, NEW t, Shape(L), Money(L), NEW x \in Symbols, NEW point
  PROVE  Money(Entry(L, x, point, t))
<1> DEFINE budget == IF Vacant(L) > 0 THEN (L.cash - Reserved(L)) \div Vacant(L) ELSE 0
           order  == BuyOrder(L, t, point.boundary, budget, 0, None)
           taken  == /\ L.positions[x] = None /\ L.pending[x] = NoOrder
                     /\ point.boundary > L.last_exit[x]
                     /\ Vacant(L) > 0 /\ ~Rebalancing(L) /\ budget >= MinBudget
           day    == DayOf(point.boundary)
           M      == Entry(L, x, point, t)
<1>1. M = [L EXCEPT !.used_day[x] = day, !.pending[x] = IF taken THEN order ELSE @]
  BY DEF Entry
<1>2. order.side = "BUY" /\ order.budget = budget
  BY DEF BuyOrder
<1>3. Reserved(L) \in Nat /\ L.cash - Reserved(L) \in Nat /\ L.cash \in Int
  BY ReservedWhole DEF Money
<1>4. Vacant(L) \in Int
  BY Counts, OfMarkets DEF Vacant
<1>5. Vacant(L) > 0 => budget \in Nat /\ budget <= L.cash - Reserved(L)
  <2> DEFINE a == L.cash - Reserved(L)
             n == Vacant(L)
  <2> SUFFICES ASSUME n > 0 PROVE budget \in Nat /\ budget <= a
    OBVIOUS
  <2>1. a \in Nat /\ n \in Nat /\ budget = a \div n
    BY <1>3, <1>4
  <2> HIDE DEF a, n, budget
  <2> QED BY <2>1, ShareAtMost DEF n
<1> HIDE DEF M, order, day, budget
<1>6. /\ M.cash = L.cash /\ M.positions = L.positions /\ M.rebalance = L.rebalance
      /\ \A y \in Symbols : M.pending[y] = IF y = x /\ taken THEN order ELSE L.pending[y]
  BY <1>1 DEF Shape, OnSymbols
<1>7. CASE ~taken
  <2>1. SameEntries(L, M)
    BY <1>6, <1>7 DEF SameEntries
  <2> HIDE DEF taken
  <2> QED BY <1>6, <2>1, SameMoney DEF M
<1>8. CASE taken
  <2>1. L.positions[x] = None /\ L.pending[x].side # "BUY" /\ Vacant(L) > 0 /\ ~Rebalancing(L)
    BY <1>8, BudgetOf
  <2>2. \A y \in Symbols : M.pending[y] = IF y = x THEN order ELSE L.pending[y]
    BY <1>6, <1>8
  <2>3. Held(M) = Held(L) /\ Orders(M, "BUY") = Orders(L, "BUY") \cup {x}
    BY <1>2, <1>6, <2>2 DEF Held, Orders
  <2>4. x \notin Held(L) /\ x \notin Orders(L, "BUY")
    BY <2>1, OfMarkets
  <2>5. Cardinality(Taken(M)) <= Slots
    <3>1. Taken(M) = Taken(L) \cup {x} /\ x \notin Taken(L)
      BY <2>3, <2>4 DEF Taken
    <3>2. IsFiniteSet(Taken(L)) /\ Cardinality(Taken(L)) \in Nat
      BY Counts, OfMarkets
    <3>3. Cardinality(Taken(M)) = Cardinality(Taken(L)) + 1
      BY <3>1, <3>2, FS_AddElement
    <3>4. IsFiniteSet(Held(L)) /\ IsFiniteSet(Orders(L, "BUY"))
      BY Counts, OfMarkets
    <3>5. Cardinality(Held(L) \cap Orders(L, "BUY")) = 0
      BY FS_EmptySet DEF Money
    <3>6. Cardinality(Held(L)) \in Nat /\ Cardinality(Orders(L, "BUY")) \in Nat /\ Slots \in Nat
      BY Counts, OfMarkets
    <3>7. Cardinality(Held(L) \cup Orders(L, "BUY")) =
            Cardinality(Held(L)) + Cardinality(Orders(L, "BUY"))
              - Cardinality(Held(L) \cap Orders(L, "BUY"))
      BY <3>4, FS_Union
    <3>8. Cardinality(Taken(L)) = Cardinality(Held(L)) + Cardinality(Orders(L, "BUY"))
      BY <3>5, <3>6, <3>7 DEF Taken
    <3> QED BY <2>1, <3>2, <3>3, <3>6, <3>8 DEF Vacant
  <2>6. \A y \in Symbols : y # x => Budgets(M)[y] = Budgets(L)[y]
    BY <2>2 DEF Budgets
  <2>7. Budgets(M)[x] = budget /\ Budgets(L)[x] = 0
    BY <1>2, <2>1, <2>2, BudgetOf
  <2>8. \A y \in Symbols : Budgets(M)[y] \in Nat /\ Budgets(L)[y] \in Nat
    BY <1>5, <2>1, <2>6, <2>7 DEF Money
  <2>9. Reserved(M) = Reserved(L) + budget
    BY <1>3, <1>5, <2>1, <2>6, <2>7, <2>8, ReservedChange
  <2>10. M.rebalance.phase # "SELLING"
    BY <1>6, <2>1 DEF Rebalancing
  <2>11. \A y \in Held(M) : M.positions[y].cost \in Nat
    BY <1>6, <2>3 DEF Money
  <2>12. Held(M) \cap Orders(M, "BUY") = {}
    BY <2>3, <2>4 DEF Money
  <2>13. Reserved(M) <= M.cash
    BY <1>3, <1>5, <1>6, <2>1, <2>9
  <2> QED BY <1>3, <1>6, <2>5, <2>8, <2>10, <2>11, <2>12, <2>13 DEF Money, M
<1> QED BY <1>7, <1>8

\* observe(): only an ordinary entry reserves money.
LEMMA ObservedMoney ==
  ASSUME NEW L, NEW t, Shape(L), Money(L), NEW x \in Symbols, NEW point, NEW generation
  PROVE  Money(Observed(L, x, point, t, generation))
<1> DEFINE old  == L.previous[x]
           pool == IF Confirms(old, point) THEN L.confirmed \cup {x} ELSE L.confirmed \ {x}
           seen == [L EXCEPT !.previous[x] = point, !.confirmed = pool]
           kept == IF Breaks(L, x, point) THEN ScheduleExit(seen, {x}, t) ELSE seen
           M    == Observed(L, x, point, t, generation)
<1>1. M = L \/ M = Entry(kept, x, point, t) \/ M = kept
  BY DEF Observed
<1>2. /\ Shape(seen)
      /\ seen.cash = L.cash /\ seen.positions = L.positions /\ seen.pending = L.pending
      /\ seen.rebalance = L.rebalance
  <2> DEFINE table == [L.previous EXCEPT ![x] = point]
             r     == [L EXCEPT !.previous = table]
             m     == [r EXCEPT !.confirmed = pool]
  <2>1. seen = m
    BY DEF Shape
  <2>2. OnSymbols(table) /\ pool \subseteq Symbols
    BY DEF Shape, OnSymbols
  <2> HIDE DEF seen, table, pool
  <2>3. /\ Shape(r) /\ r.cash = L.cash /\ r.positions = L.positions
        /\ r.pending = L.pending /\ r.rebalance = L.rebalance
    BY <2>2 DEF Shape
  <2> HIDE DEF r
  <2>4. /\ Shape(m) /\ m.cash = r.cash /\ m.positions = r.positions
        /\ m.pending = r.pending /\ m.rebalance = r.rebalance
    BY <2>2, <2>3 DEF Shape
  <2> HIDE DEF m
  <2> QED BY <2>1, <2>3, <2>4
<1> HIDE DEF seen, M
<1>3. Money(seen)
  <2>1. SameEntries(L, seen)
    BY <1>2 DEF SameEntries
  <2> QED BY <1>2, <2>1, SameMoney
<1>4. Money(kept) /\ Shape(kept)
  BY <1>2, <1>3, ScheduleMoney
<1> HIDE DEF kept
<1>5. Money(Entry(kept, x, point, t))
  BY <1>4, EntryMoney
<1> QED BY <1>1, <1>4, <1>5 DEF M

\* cancel_entry() releases what was reserved.
LEMMA CancelMoney ==
  ASSUME NEW L, Shape(L), Money(L), NEW x \in Symbols, L.pending[x].side = "BUY"
  PROVE  Money(Cancel(L, x, L.pending[x]))
<1> DEFINE mine == L.pending[x].request # 0 /\ L.pending[x].request = L.rebalance.request
           gone == IF mine THEN L.rebalance.canceled \cup {x} ELSE L.rebalance.canceled
           M    == Cancel(L, x, L.pending[x])
<1>1. M = [L EXCEPT !.pending[x] = NoOrder, !.rebalance = [L.rebalance EXCEPT !.canceled = gone]]
  BY DEF Shape, OpShape, Cancel
<1> HIDE DEF gone, M
<1>2. /\ M.cash = L.cash /\ M.positions = L.positions
      /\ M.rebalance.phase = L.rebalance.phase
      /\ \A y \in Symbols : M.pending[y] = IF y = x THEN NoOrder ELSE L.pending[y]
  BY <1>1 DEF Shape, OnSymbols, OpShape
<1>3. \A y \in Symbols : y # x => Budgets(M)[y] = Budgets(L)[y]
  BY <1>2 DEF Budgets
<1>4. Budgets(M)[x] = 0
  BY <1>2, BudgetOf
<1>5. \A y \in Symbols : Budgets(L)[y] \in Nat /\ Budgets(M)[y] \in Nat
  BY <1>3, <1>4 DEF Money
<1>6. Reserved(M) <= L.cash
  <2>1. Reserved(M) = Reserved(L) - Budgets(L)[x] + Budgets(M)[x]
    BY <1>3, <1>5, ReservedChange
  <2> QED BY <1>4, <1>5, <2>1, ReservedWhole DEF Money
<1>7. /\ Held(M) = Held(L) /\ Orders(M, "BUY") = Orders(L, "BUY") \ {x}
      /\ x \in Orders(L, "BUY")
  BY <1>2 DEF Held, Orders, NoOrder
<1>8. Cardinality(Taken(M)) <= Slots
  <2>1. Taken(M) \in SUBSET Taken(L)
    BY <1>7 DEF Taken
  <2> QED BY <2>1, Counts, OfMarkets DEF Money
<1> QED BY <1>2, <1>5, <1>6, <1>7, <1>8 DEF Money, M

LEMMA FinishSame ==
  ASSUME NEW L, Shape(L), NEW phase
  PROVE  /\ Finish(L, phase).positions = L.positions /\ Finish(L, phase).pending = L.pending
         /\ Finish(L, phase).rebalance.phase = phase
<1> DEFINE gone == IF phase = "CANCELED"
                     THEN L.rebalance.canceled \cup (L.rebalance.targets \ L.rebalance.bought)
                     ELSE L.rebalance.canceled
<1>1. Finish(L, phase) = [L EXCEPT !.rebalance = OpEnd(L.rebalance, phase, gone)]
  BY DEF Shape, OpShape, Finish, OpEnd
<1>2. OpEnd(L.rebalance, phase, gone).phase = phase
  <2>1. OpShape(L.rebalance)
    BY DEF Shape
  <2> HIDE DEF gone
  <2> QED BY <2>1, OpEnded
<1> HIDE DEF gone
<1> QED BY <1>1, <1>2 DEF Shape

\* _finish() moves no money.
LEMMA FinishMoney ==
  ASSUME NEW L, Shape(L), Money(L), NEW phase, phase # "SELLING"
  PROVE  Money(Finish(L, phase))
<1> DEFINE M == Finish(L, phase)
<1>1. M.positions = L.positions /\ M.pending = L.pending /\ M.rebalance.phase = phase
  BY FinishSame
<1>2. M.cash = L.cash
  BY DEF Finish, Shape
<1> HIDE DEF M
<1>3. SameEntries(L, M)
  BY <1>1 DEF SameEntries
<1> QED BY <1>1, <1>2, <1>3, SameMoney DEF M

\* The targets share the cash: there is a vacant slot for each of them.
LEMMA PlaceTargetsMoney ==
  ASSUME NEW L, NEW t, Shape(L), Money(L), L.rebalance.phase = "SELLING",
         L.rebalance.sells \cap Held(L) = {}, Affordable(L)
  PROVE  Money(PlaceTargets(L, t))
<1> DEFINE op     == L.rebalance
           vacant == Slots - Cardinality(Held(L))
           good   == {x \in op.targets :
                        /\ L.positions[x] = None /\ L.pending[x] = NoOrder
                        /\ L.previous[x] # None /\ L.previous[x].boundary = op.boundary
                        /\ L.previous[x].qualifies}
           budget == L.cash \div vacant
           order  == BuyOrder(L, t, op.boundary, budget, op.request, op.boundary + HOUR)
           M      == PlaceTargets(L, t)
<1>1. PICK days :
        M = [L EXCEPT !.rebalance = [op EXCEPT !.phase = "BUYING",
                                               !.canceled = op.canceled \cup (op.targets \ good)],
                      !.used_day = days,
                      !.pending = [x \in Symbols |-> IF x \in good THEN order ELSE L.pending[x]]]
  <2> HIDE DEF good
  <2>1. M = [L EXCEPT !.rebalance = [op EXCEPT !.phase = "BUYING",
                                               !.canceled = op.canceled \cup (op.targets \ good)],
                      !.used_day = [x \in Symbols |->
                         IF x \in good THEN DayOf(op.boundary) ELSE L.used_day[x]],
                      !.pending = [x \in Symbols |-> IF x \in good THEN order ELSE L.pending[x]]]
    BY DEF PlaceTargets, Shape, OpShape, good
  <2> QED BY <2>1
<1>2. order.side = "BUY" /\ order.budget = budget
  BY DEF BuyOrder
<1>3. /\ good \subseteq op.targets /\ \A x \in good : L.positions[x] = None
      /\ Orders(L, "BUY") = {} /\ Claimed(L) \subseteq Symbols /\ Cardinality(Claimed(L)) <= Slots
      /\ Reserved(L) <= L.cash /\ L.cash \in Int
  BY DEF Money
<1>4. vacant > 0
  BY DEF Affordable
<1> HIDE DEF good, M, order
<1>5. /\ M.cash = L.cash /\ M.positions = L.positions /\ M.rebalance.phase = "BUYING"
      /\ \A x \in Symbols : M.pending[x] = IF x \in good THEN order ELSE L.pending[x]
  BY <1>1 DEF Shape, OpShape
<1>6. /\ Held(M) = Held(L) /\ good \in SUBSET Symbols /\ good \cap Held(L) = {}
      /\ good \cup Held(L) \in SUBSET Claimed(L)
  <2>1. good \subseteq Symbols
    BY <1>3 DEF Claimed
  <2>2. good \cap Held(L) = {}
    BY <1>3 DEF Held
  <2> QED BY <1>3, <1>5, <2>1, <2>2 DEF Held, Claimed
<1>7. Orders(M, "BUY") = good
  BY <1>2, <1>3, <1>5, <1>6 DEF Orders
<1>8. /\ IsFiniteSet(good) /\ Cardinality(good) \in Nat /\ Cardinality(good) <= vacant
      /\ vacant \in Nat /\ Cardinality(good \cup Held(L)) <= Slots
  <2>1. /\ IsFiniteSet(good) /\ IsFiniteSet(Held(L)) /\ Slots \in Nat
        /\ Cardinality(good) \in Nat /\ Cardinality(Held(L)) \in Nat
    BY <1>6, Counts, OfMarkets
  <2>2. /\ Cardinality(good \cup Held(L)) \in Nat /\ Cardinality(Claimed(L)) \in Nat
        /\ Cardinality(good \cup Held(L)) <= Cardinality(Claimed(L))
    <3>1. Claimed(L) \in SUBSET Symbols /\ good \cup Held(L) \in SUBSET Symbols
      BY <1>3, <1>6
    <3> QED BY <1>6, <3>1, Counts
  <2>3. Cardinality(good \cap Held(L)) = 0
    BY <1>6, FS_EmptySet
  <2>4. Cardinality(good \cup Held(L))
          = Cardinality(good) + Cardinality(Held(L)) - Cardinality(good \cap Held(L))
    BY <2>1, FS_Union
  <2> QED BY <1>3, <1>4, <2>1, <2>2, <2>3, <2>4
<1>9. Cardinality(Taken(M)) <= Slots
  <2>1. Taken(M) = good \cup Held(L)
    BY <1>6, <1>7 DEF Taken
  <2> QED BY <1>8, <2>1
<1>10. L.cash \in Nat
  BY <1>3, ReservedWhole DEF Money
<1>11. budget \in Nat /\ Cardinality(good) * budget <= L.cash
  <2> HIDE DEF vacant
  <2>1. Cardinality(good) \in 0..vacant
    BY <1>8
  <2> QED BY <1>4, <1>8, <1>10, <2>1, ShareAtMost
<1> HIDE DEF budget, vacant
<1>12. \A x \in Symbols : Budgets(M)[x] = IF x \in good THEN budget ELSE 0
  <2> TAKE x \in Symbols
  <2>1. CASE x \in good
    <3>1. M.pending[x] = order
      BY <1>5, <2>1
    <3> QED BY <1>2, <2>1, <3>1, BudgetOf
  <2>2. CASE x \notin good
    <3>1. M.pending[x].side # "BUY"
      BY <1>3, <1>5, <2>2, OfMarkets
    <3> QED BY <2>2, <3>1, BudgetOf
  <2> QED BY <2>1, <2>2
<1>13. Reserved(M) = Cardinality(good) * budget
  <2> DEFINE f == Budgets(M)
  <2>1. /\ \A x \in good : f[x] = budget
        /\ \A x \in Symbols : f[x] \in Int
        /\ \A x \in Symbols \ good : f[x] = 0
    BY <1>6, <1>11, <1>12
  <2>2. IsFiniteSet(Symbols)
    BY LedgerAssumption
  <2> HIDE DEF f
  <2>3. SumFunctionOnSet(f, good) = Cardinality(good) * budget
    BY <1>8, <1>11, <2>1, SumConstant
  <2>4. SumFunctionOnSet(f, good) = SumFunctionOnSet(f, Symbols)
    BY <1>6, <2>1, <2>2, SumZeroes
  <2> QED BY <2>3, <2>4 DEF f, Reserved
<1>14. \A x \in Symbols : Budgets(M)[x] \in Nat
  BY <1>11, <1>12
<1>15. /\ \A x \in Held(M) : M.positions[x].cost \in Nat
       /\ Held(M) \cap Orders(M, "BUY") = {}
  BY <1>5, <1>6, <1>7 DEF Money
<1>16. Reserved(M) <= M.cash
  BY <1>5, <1>11, <1>13
<1> QED BY <1>3, <1>5, <1>9, <1>14, <1>15, <1>16 DEF Money, M

\* advance()
LEMMA AdvancedMoney ==
  ASSUME NEW L, NEW t, Shape(L), Money(L)
  PROVE  Money(Advanced(L, t))
<1> DEFINE M == Advanced(L, t)
<1>1. \/ M = L
      \/ M = Finish(L, "DONE") \/ M = Finish(L, "CANCELED")
      \/ /\ L.rebalance.phase = "SELLING" /\ L.rebalance.sells \cap Held(L) = {}
         /\ Affordable(L) /\ M = PlaceTargets(L, t)
  BY DEF Advanced, Rebalancing
<1>2. Money(Finish(L, "DONE")) /\ Money(Finish(L, "CANCELED"))
  BY FinishMoney
<1> HIDE DEF M
<1> QED BY <1>1, <1>2, PlaceTargetsMoney DEF M

-----------------------------------------------------------------------------
\* Of a finite set of numbers that is not empty, one is the greatest.
LEMMA Greatest ==
  ASSUME NEW S \in SUBSET Symbols, S # {}
  PROVE  \E m \in S : \A y \in S : y <= m
<1> DEFINE P == {T \in SUBSET S : T = {} \/ \E m \in T : \A y \in T : y <= m}
<1>1. S \subseteq Nat /\ IsFiniteSet(S)
  BY Counts, LedgerAssumption
<1>2. P \in SUBSET SUBSET S /\ {} \in P
  OBVIOUS
<1>3. ASSUME NEW T \in P, NEW x \in S \ T PROVE T \cup {x} \in P
  <2>1. CASE T = {}
    BY <1>1, <2>1
  <2>2. CASE \E m \in T : \A y \in T : y <= m
    <3>1. PICK m \in T : \A y \in T : y <= m
      BY <2>2
    <3>2. m \in Nat /\ x \in Nat /\ T \subseteq Nat
      BY <1>1
    <3>3. CASE x <= m
      BY <3>1, <3>3
    <3>4. CASE m <= x
      <4>1. \A y \in T \cup {x} : y <= x
        BY <3>1, <3>2, <3>4
      <4> QED BY <4>1
    <3> QED BY <3>2, <3>3, <3>4
  <2> QED BY <2>1, <2>2
<1> HIDE DEF P
<1>4. P = SUBSET S
  BY <1>1, <1>2, <1>3, SubsetInduction
<1>5. S \in P
  BY <1>4
<1> QED BY <1>5 DEF P

\* The first n of a set are no more than n.
LEMMA FirstFew ==
  ASSUME NEW n \in Nat, NEW S \in SUBSET Symbols
  PROVE  /\ FirstOf(n, S) \in SUBSET S
         /\ Cardinality(FirstOf(n, S)) <= n
<1> DEFINE F == FirstOf(n, S)
<1>1. F \in SUBSET S /\ F \in SUBSET Symbols
  BY DEF FirstOf
<1>2. CASE F = {}
  BY <1>2, FS_EmptySet
<1>3. CASE F # {}
  <2> HIDE DEF F
  <2>1. PICK m \in F : \A y \in F : y <= m
    BY <1>1, <1>3, Greatest
  <2> DEFINE B == {y \in S : y < m}
  <2>2. Cardinality(B) < n /\ B \in SUBSET Symbols
    BY <2>1 DEF F, FirstOf
  <2>3. F \in SUBSET (B \cup {m})
    <3>1. \A y \in F : y \in Nat /\ m \in Nat
      BY <1>1, LedgerAssumption
    <3> QED BY <1>1, <2>1, <3>1
  <2>4. m \notin B
    <3>1. m \in Nat
      BY <1>1, <2>1, LedgerAssumption
    <3> QED BY <3>1
  <2> HIDE DEF B
  <2>5. IsFiniteSet(B) /\ Cardinality(B) \in Nat
    BY <2>2, Counts
  <2>6. Cardinality(B \cup {m}) = Cardinality(B) + 1 /\ IsFiniteSet(B \cup {m})
    BY <2>4, <2>5, FS_AddElement
  <2>7. Cardinality(F) <= Cardinality(B \cup {m}) /\ Cardinality(F) \in Nat
    BY <2>3, <2>6, FS_Subset, FS_CardinalityType
  <2> QED BY <1>1, <2>2, <2>5, <2>6, <2>7 DEF F
<1> QED BY <1>1, <1>2, <1>3

\* request(): the targets fit into the slots its exits will leave.
LEMMA RequestedMoney ==
  ASSUME NEW L, NEW t, Shape(L), Money(L), NEW mode, Plannable(L, mode, t)
  PROVE  Money(Requested(L, mode, t)) /\ Shape(Requested(L, mode, t))
<1> DEFINE sells == IF mode = "rebuild" THEN Held(L) ELSE {}
           aims  == Targets(L, mode, t)
           op    == [phase |-> "SELLING", request |-> Cardinality(L.requests) + 1,
                     boundary |-> HourOf(t), targets |-> aims, sells |-> sells,
                     bought |-> {}, canceled |-> {}]
           used  == L.requests \cup {Basis(L, mode, t)}
           base  == [L EXCEPT !.requests = used, !.rebalance = op]
<1>1. Requested(L, mode, t) = ScheduleExit(base, sells, t)
  BY DEF Requested, Shape
<1>2. \A x \in Symbols : L.pending[x] = NoOrder
  BY DEF Plannable
<1>3. /\ Held(L) \in SUBSET Symbols /\ Cardinality(Held(L)) \in Nat /\ Slots \in Nat
      /\ Cardinality(Held(L)) <= Slots /\ IsFiniteSet(Held(L))
  <2>1. /\ Held(L) \in SUBSET Taken(L) /\ Taken(L) \in SUBSET Symbols /\ Held(L) \in SUBSET Symbols
    BY OfMarkets DEF Taken
  <2>2. /\ Cardinality(Held(L)) <= Cardinality(Taken(L)) /\ Cardinality(Taken(L)) <= Slots
        /\ Cardinality(Held(L)) \in Nat /\ Cardinality(Taken(L)) \in Nat /\ Slots \in Nat
        /\ IsFiniteSet(Held(L))
    BY <2>1, Counts DEF Money
  <2> QED BY <2>1, <2>2
<1>4. Candidates(L, t) \in SUBSET Symbols
  BY DEF Candidates, Shape
<1>5. /\ aims \cup (Held(L) \ sells) \in SUBSET Symbols
      /\ Cardinality(aims \cup (Held(L) \ sells)) <= Slots
  <2>1. CASE mode = "rebuild"
    <3>1. aims = FirstOf(Slots, Candidates(L, t)) /\ aims \cup (Held(L) \ sells) = aims
      BY <2>1 DEF Targets
    <3>2. aims \in SUBSET Candidates(L, t) /\ Cardinality(aims) <= Slots
      BY <1>3, <1>4, <3>1, FirstFew
    <3> HIDE DEF aims, sells
    <3> QED BY <1>4, <3>1, <3>2
  <2>2. CASE mode # "rebuild"
    <3> DEFINE n == Slots - Cardinality(Held(L))
               C == Candidates(L, t) \ Held(L)
    <3>1. aims = FirstOf(n, C) /\ aims \cup (Held(L) \ sells) = aims \cup Held(L)
      BY <2>2 DEF Targets
    <3>2. n \in Nat /\ C \in SUBSET Symbols
      BY <1>3, <1>4
    <3> HIDE DEF n, C, aims, sells
    <3>3. aims \in SUBSET Symbols /\ Cardinality(aims) <= n
      BY <3>1, <3>2, FirstFew
    <3>4. IsFiniteSet(aims) /\ Cardinality(aims) \in Nat
      BY <3>3, Counts
    <3>5. Cardinality(aims \cup Held(L)) <= Cardinality(aims) + Cardinality(Held(L))
      <4>1. /\ Cardinality(aims \cup Held(L))
                 = Cardinality(aims) + Cardinality(Held(L)) - Cardinality(aims \cap Held(L))
        BY <1>3, <3>4, FS_Union
      <4>2. Cardinality(aims \cap Held(L)) \in Nat
        BY <3>3, Counts
      <4> QED BY <1>3, <3>4, <4>1, <4>2
    <3>6. Cardinality(aims \cup Held(L)) \in Nat
      BY <1>3, <3>3, Counts
    <3>7. Cardinality(aims \cup Held(L)) <= Slots
      BY <1>3, <3>3, <3>4, <3>5, <3>6 DEF n
    <3> QED BY <1>3, <3>1, <3>3, <3>7
  <2> QED BY <2>1, <2>2
<1>6. OpShape(op) /\ op.targets = aims /\ op.sells = sells
  <2> HIDE DEF sells, aims
  <2> QED BY DEF OpShape
<1> HIDE DEF op, aims, sells
<1>7. /\ Shape(base) /\ base.rebalance = op /\ base.cash = L.cash
      /\ base.positions = L.positions /\ base.pending = L.pending
  <2> DEFINE r == [L EXCEPT !.requests = used]
             m == [r EXCEPT !.rebalance = op]
  <2>1. base = m
    BY DEF Shape
  <2> HIDE DEF used, base
  <2>2. /\ Shape(r) /\ r.cash = L.cash /\ r.positions = L.positions /\ r.pending = L.pending
    BY DEF Shape
  <2> HIDE DEF r
  <2>3. /\ Shape(m) /\ m.rebalance = op /\ m.cash = r.cash
        /\ m.positions = r.positions /\ m.pending = r.pending
    BY <1>6, <2>2 DEF Shape
  <2> HIDE DEF m
  <2> QED BY <2>1, <2>2, <2>3
<1> HIDE DEF base
<1>8. Money(base)
  <2>1. Held(base) = Held(L) /\ Orders(base, "BUY") = Orders(L, "BUY")
    BY <1>7 DEF Held, Orders
  <2>2. \A x \in Symbols : Budgets(base)[x] = Budgets(L)[x]
    BY <1>7 DEF Budgets
  <2>3. Reserved(base) = Reserved(L)
    BY <2>2, ReservedSame
  <2>4. Orders(base, "BUY") = {}
    BY <1>2, <2>1, BudgetOf DEF Orders
  <2>5. Claimed(base) = aims \cup (Held(L) \ sells)
    BY <1>6, <1>7, <2>1 DEF Claimed
  <2> QED BY <1>5, <1>7, <2>1, <2>2, <2>3, <2>4, <2>5 DEF Money, Taken
<1> QED BY <1>1, <1>7, <1>8, ScheduleMoney

\* A sale pays a price that is not negative.
LEMMA SoldMoney ==
  ASSUME NEW L, Shape(L), Money(L), NEW x \in Symbols, NEW bar, NEW worth \in Worths,
         L.positions[x] # None, L.pending[x].side = "SELL"
  PROVE  Money(Sold(L, x, bar, worth))
<1> DEFINE cost     == L.positions[x].cost
           proceeds == (cost * worth) \div 100
           cash     == L.cash + proceeds
           profit   == L.realized + proceeds - cost
           M        == Sold(L, x, bar, worth)
<1>1. M = [L EXCEPT !.cash = cash, !.realized = profit, !.last_exit[x] = bar,
                    !.positions[x] = None, !.pending[x] = NoOrder]
  BY DEF Sold, Shape
<1>2. proceeds \in Nat
  <2>1. cost \in Nat
    BY OfMarkets DEF Money
  <2>2. worth \in Nat
    BY WorkersAssumption
  <2> HIDE DEF cost
  <2>3. cost * worth \in Nat
    BY <2>1, <2>2
  <2> QED BY <2>3
<1>3. cash \in Int /\ cash >= L.cash
  BY <1>2 DEF Money
<1> HIDE DEF cash, profit, M
<1>4. /\ M.cash = cash /\ M.rebalance = L.rebalance
      /\ \A y \in Symbols : M.positions[y] = IF y = x THEN None ELSE L.positions[y]
      /\ \A y \in Symbols : M.pending[y] = IF y = x THEN NoOrder ELSE L.pending[y]
  BY <1>1 DEF Shape, OnSymbols
<1>5. Held(M) = Held(L) \ {x} /\ Orders(M, "BUY") = Orders(L, "BUY")
  BY <1>4 DEF Held, Orders, NoOrder
<1>6. \A y \in Symbols : Budgets(M)[y] = Budgets(L)[y]
  <2> TAKE y \in Symbols
  <2>1. CASE y = x
    BY <1>4, <2>1, BudgetOf
  <2>2. CASE y # x
    BY <1>4, <2>2 DEF Budgets
  <2> QED BY <2>1, <2>2
<1>7. Reserved(M) = Reserved(L) /\ Reserved(L) \in Nat
  BY <1>6, ReservedSame, ReservedWhole DEF Money
<1>8. Cardinality(Taken(M)) <= Slots
  <2>1. Taken(M) \in SUBSET Taken(L)
    BY <1>5 DEF Taken
  <2> QED BY <2>1, Counts, OfMarkets DEF Money
<1>9. M.rebalance.phase = "SELLING" =>
        Claimed(M) \subseteq Symbols /\ Cardinality(Claimed(M)) <= Slots
  <2> SUFFICES ASSUME L.rebalance.phase = "SELLING"
               PROVE  Claimed(M) \subseteq Symbols /\ Cardinality(Claimed(M)) <= Slots
    BY <1>4
  <2>1. Claimed(M) \in SUBSET Claimed(L)
    BY <1>4, <1>5 DEF Claimed
  <2>2. Claimed(L) \in SUBSET Symbols /\ Cardinality(Claimed(L)) <= Slots
    BY DEF Money
  <2> QED BY <2>1, <2>2, Counts
<1>10. \A y \in Held(M) : M.positions[y].cost \in Nat
  BY <1>4, <1>5, OfMarkets DEF Money
<1>11. Reserved(M) <= M.cash
  BY <1>3, <1>4, <1>7 DEF Money
<1> QED BY <1>3, <1>4, <1>5, <1>6, <1>8, <1>9, <1>10, <1>11 DEF Money, M

\* A purchase pays with what was reserved for it.
LEMMA BoughtMoney ==
  ASSUME NEW L, Shape(L), Money(L), NEW x \in Symbols, NEW bar, L.pending[x].side = "BUY"
  PROVE  Money(Bought(L, x, L.pending[x], bar))
<1> DEFINE order == L.pending[x]
           mine  == order.request # 0 /\ order.request = L.rebalance.request
           got   == IF mine THEN L.rebalance.bought \cup {x} ELSE L.rebalance.bought
           lot   == [entry |-> bar, cost |-> order.budget, signal |-> order.signal]
           cash  == L.cash - order.budget
           M     == Bought(L, x, order, bar)
<1>1. M = [L EXCEPT !.cash = cash, !.positions[x] = lot, !.pending[x] = NoOrder,
                    !.rebalance = [L.rebalance EXCEPT !.bought = got]]
  BY DEF Bought, Shape, OpShape
<1>2. /\ Budgets(L)[x] = order.budget /\ order.budget \in Nat
      /\ L.cash \in Int /\ Reserved(L) \in Nat /\ Reserved(L) <= L.cash
      /\ x \in Orders(L, "BUY") /\ x \notin Held(L)
  BY BudgetOf, OfMarkets, ReservedWhole DEF Money
<1>3. lot.cost = order.budget /\ cash \in Int
  BY <1>2
<1> HIDE DEF lot, got, cash, M
<1>4. /\ M.cash = cash /\ M.rebalance.phase = L.rebalance.phase
      /\ \A y \in Symbols : M.positions[y] = IF y = x THEN lot ELSE L.positions[y]
      /\ \A y \in Symbols : M.pending[y] = IF y = x THEN NoOrder ELSE L.pending[y]
  BY <1>1 DEF Shape, OnSymbols, OpShape
<1>5. /\ Held(M) \subseteq Held(L) \cup {x} /\ Orders(M, "BUY") = Orders(L, "BUY") \ {x}
  BY <1>4 DEF Held, Orders, NoOrder
<1>6. \A y \in Symbols : y # x => Budgets(M)[y] = Budgets(L)[y]
  BY <1>4 DEF Budgets
<1>7. Budgets(M)[x] = 0
  BY <1>4, BudgetOf
<1>8. \A y \in Symbols : Budgets(L)[y] \in Nat /\ Budgets(M)[y] \in Nat
  BY <1>6, <1>7 DEF Money
<1>9. Reserved(M) = Reserved(L) - order.budget
  <2>1. Reserved(M) = Reserved(L) - Budgets(L)[x] + Budgets(M)[x]
    BY <1>6, <1>8, ReservedChange
  <2> QED BY <1>2, <1>7, <2>1
<1>10. Cardinality(Taken(M)) <= Slots
  <2>1. Taken(M) \in SUBSET Taken(L)
    BY <1>2, <1>5 DEF Taken
  <2> QED BY <2>1, Counts, OfMarkets DEF Money
<1>11. L.rebalance.phase # "SELLING"
  BY <1>2 DEF Money
<1>12. \A y \in Held(M) : M.positions[y].cost \in Nat
  <2> TAKE y \in Held(M)
  <2>1. CASE y = x
    BY <1>2, <1>3, <1>4, <2>1
  <2>2. CASE y # x
    <3>1. y \in Held(L) /\ y \in Symbols
      BY <1>5, <2>2, OfMarkets
    <3> QED BY <1>4, <2>2, <3>1 DEF Money
  <2> QED BY <2>1, <2>2
<1>13. Held(M) \cap Orders(M, "BUY") = {}
  BY <1>5 DEF Money
<1>14. Reserved(M) <= M.cash
  BY <1>2, <1>4, <1>9 DEF cash
<1> QED BY <1>3, <1>4, <1>8, <1>10, <1>11, <1>12, <1>13, <1>14 DEF Money, M

\* execute() of any order a thread holds.
LEMMA ExecutedMoney ==
  ASSUME NEW L, NEW t \in Int, Good(L, t), Money(L), NEW x \in Symbols, NEW order,
         order # NoOrder, NEW bar, NEW stamp, NEW worth \in Worths, NEW below
  PROVE  Money(Executed(L, x, order, bar, stamp, worth, below))
<1> DEFINE M == Executed(L, x, order, bar, stamp, worth, below)
<1>1. Shape(L)
  BY DEF Good
<1>2. \/ M = L
      \/ /\ L.pending[x] = order /\ L.positions[x] # None /\ order.side = "SELL"
         /\ M = Sold(L, x, bar, worth)
      \/ /\ L.pending[x] = order /\ order.side # "SELL"
         /\ M = Cancel(L, x, order) \/ M = Bought(L, x, order, bar)
  BY DEF Executed
<1>3. L.pending[x] = order => order.side \in {"BUY", "SELL"}
  BY DEF Good, OrdersInv, SellOk, BuyOk
<1> HIDE DEF M
<1>4. CASE /\ L.pending[x] = order /\ L.positions[x] # None /\ order.side = "SELL"
           /\ M = Sold(L, x, bar, worth)
  BY <1>1, <1>4, SoldMoney DEF M
<1>5. CASE /\ L.pending[x] = order /\ order.side # "SELL"
           /\ M = Cancel(L, x, order) \/ M = Bought(L, x, order, bar)
  <2>1. L.pending[x].side = "BUY"
    BY <1>3, <1>5
  <2>2. Money(Cancel(L, x, L.pending[x])) /\ Money(Bought(L, x, L.pending[x], bar))
    BY <1>1, <2>1, CancelMoney, BoughtMoney
  <2> QED BY <1>5, <2>2 DEF M
<1> QED BY <1>2, <1>4, <1>5 DEF M

\* clear(): nothing stays reserved.
LEMMA ClearedMoney ==
  ASSUME NEW L, NEW t, Shape(L), Money(L)
  PROVE  Money(Cleared(L, t))
<1> DEFINE table == [x \in Symbols |-> IF x \in Orders(L, "BUY") THEN NoOrder ELSE L.pending[x]]
           next  == L.generation + 1
           off   == [L EXCEPT !.enabled = FALSE, !.generation = next, !.pending = table]
<1>1. Cleared(L, t) = Advanced(ScheduleExit(off, Held(L), t), t)
  BY DEF Cleared, Shape
<1>2. /\ OnSymbols(table)
      /\ \A x \in Symbols : table[x] = IF x \in Orders(L, "BUY") THEN NoOrder ELSE L.pending[x]
  BY DEF OnSymbols
<1> HIDE DEF table, next
<1>3. /\ Shape(off) /\ off.cash = L.cash
      /\ off.positions = L.positions /\ off.pending = table /\ off.rebalance = L.rebalance
  <2> DEFINE q == [L EXCEPT !.generation = next]
             r == [q EXCEPT !.pending = table]
  <2>1. off = [r EXCEPT !.enabled = FALSE]
    BY DEF Shape
  <2> HIDE DEF off
  <2>2. Shape(q) /\ q.cash = L.cash /\ q.positions = L.positions /\ q.rebalance = L.rebalance
    BY DEF Shape
  <2> HIDE DEF q
  <2>3. /\ Shape(r) /\ r.pending = table
        /\ r.cash = q.cash /\ r.positions = q.positions /\ r.rebalance = q.rebalance
    BY <1>2, <2>2 DEF Shape
  <2> HIDE DEF r
  <2> QED BY <2>1, <2>2, <2>3 DEF Shape
<1> HIDE DEF off
<1>4. \A x \in Symbols : off.pending[x].side # "BUY"
  BY <1>2, <1>3, BudgetOf DEF Orders
<1>5. Held(off) = Held(L) /\ Orders(off, "BUY") = {}
  BY <1>3, <1>4 DEF Held, Orders
<1>6. \A x \in Symbols : Budgets(off)[x] = 0
  BY <1>4, BudgetOf
<1>7. Reserved(off) = 0
  <2> DEFINE f == Budgets(off)
  <2>1. IsFiniteSet(Symbols)
    BY LedgerAssumption
  <2>2. {} \in SUBSET Symbols /\ (\A x \in Symbols : f[x] \in Int)
        /\ (\A x \in Symbols \ {} : f[x] = 0)
    BY <1>6
  <2> HIDE DEF f
  <2>3. SumFunctionOnSet(f, {}) = SumFunctionOnSet(f, Symbols)
    BY <2>1, <2>2, SumZeroes
  <2> QED BY <2>3, SumEmpty DEF f, Reserved
<1>8. Cardinality(Taken(off)) <= Slots
  <2>1. Taken(off) \in SUBSET Taken(L)
    BY <1>5 DEF Taken
  <2> QED BY <2>1, Counts, OfMarkets DEF Money
<1>9. L.cash >= 0
  BY ReservedWhole DEF Money
<1>10. L.rebalance.phase = "SELLING" => Claimed(off) = Claimed(L)
  BY <1>3, <1>5 DEF Claimed
<1>11. Money(off)
  BY <1>3, <1>5, <1>6, <1>7, <1>8, <1>9, <1>10 DEF Money
<1>12. Money(ScheduleExit(off, Held(L), t)) /\ Shape(ScheduleExit(off, Held(L), t))
  BY <1>3, <1>11, ScheduleMoney
<1> QED BY <1>1, <1>12, AdvancedMoney

\* resume() and set_scan() move no money.
LEMMA ResumedMoney ==
  ASSUME NEW L, NEW t, Shape(L), Money(L)
  PROVE  Money(Resumed(L, t)) /\ \A scan : Money([L EXCEPT !.scan = scan])
<1>1. Money(Resumed(L, t))
  <2> DEFINE M == Resumed(L, t)
  <2>1. /\ M.cash = L.cash /\ M.positions = L.positions /\ M.pending = L.pending
        /\ M.rebalance = L.rebalance
    BY DEF Resumed, Shape
  <2> HIDE DEF M
  <2>2. SameEntries(L, M)
    BY <2>1 DEF SameEntries
  <2> QED BY <2>1, <2>2, SameMoney DEF M
<1>2. ASSUME NEW scan PROVE Money([L EXCEPT !.scan = scan])
  <2> DEFINE M == [L EXCEPT !.scan = scan]
  <2>1. /\ M.cash = L.cash /\ M.positions = L.positions /\ M.pending = L.pending
        /\ M.rebalance = L.rebalance
    BY DEF Shape
  <2> HIDE DEF M
  <2>2. SameEntries(L, M)
    BY <2>1 DEF SameEntries
  <2> QED BY <2>1, <2>2, SameMoney DEF M
<1> QED BY <1>1, <1>2

\* The account as opened.
LEMMA InitialMoney == Money(InitialLedger)
<1> DEFINE M == InitialLedger
<1>1. /\ M.cash = InitialCash /\ M.rebalance.phase = "NONE"
      /\ \A x \in Symbols : M.positions[x] = None /\ M.pending[x] = NoOrder
  BY DEF InitialLedger, NoRebalance
<1> HIDE DEF M
<1>2. Held(M) = {} /\ Orders(M, "BUY") = {}
  BY <1>1 DEF Held, Orders, NoOrder
<1>3. \A x \in Symbols : Budgets(M)[x] = 0
  BY <1>1, BudgetOf
<1>4. Reserved(M) = 0
  <2> DEFINE f == Budgets(M)
  <2>1. IsFiniteSet(Symbols)
    BY LedgerAssumption
  <2>2. {} \in SUBSET Symbols /\ (\A x \in Symbols : f[x] \in Int)
        /\ (\A x \in Symbols \ {} : f[x] = 0)
    BY <1>3
  <2> HIDE DEF f
  <2>3. SumFunctionOnSet(f, {}) = SumFunctionOnSet(f, Symbols)
    BY <2>1, <2>2, SumZeroes
  <2> QED BY <2>3, SumEmpty DEF f, Reserved
<1>5. Taken(M) = {} /\ Cardinality({}) = 0
  BY <1>2, FS_EmptySet DEF Taken
<1>6. InitialCash \in Nat /\ Slots \in Nat
  BY LedgerAssumption
<1>7. Cardinality(Taken(M)) <= Slots
  BY <1>5, <1>6
<1> QED BY <1>1, <1>2, <1>3, <1>4, <1>6, <1>7 DEF Money, M

-----------------------------------------------------------------------------
(* The threads *)

WorkerShape ==
  worker = [pc |-> worker.pc, last |-> worker.last, generation |-> worker.generation,
            bootstrap |-> worker.bootstrap, todo |-> worker.todo, ready |-> worker.ready,
            orders |-> worker.orders, hand |-> worker.hand]

RiskShape ==
  risk = [pc |-> risk.pc, expected |-> risk.expected, asked |-> risk.asked,
          orders |-> risk.orders, hand |-> risk.hand]

\* The order a thread holds, pending or not, was taken at a time past.
HandInv(hand, t) ==
  hand # None => /\ hand.market \in Symbols /\ hand.order # NoOrder
                 /\ hand.stamp \in Int /\ hand.stamp <= t

IInv ==
  /\ now \in Nat
  /\ Good(ledger, now)
  /\ WorkerShape /\ worker.last \in Nat /\ worker.todo \subseteq Symbols
  /\ HandInv(worker.hand, now)
  /\ RiskShape /\ HandInv(risk.hand, now)

\* What every step does to the ledger.
LedgerStep == Keeps(ledger, ledger', now)

WorkerKept ==
  /\ WorkerShape' /\ worker'.last \in Nat /\ worker'.todo \subseteq Symbols
  /\ HandInv(worker'.hand, now)

RiskKept == RiskShape' /\ HandInv(risk'.hand, now)

\* A worker that starts afresh holds nothing.
LEMMA IdleWorkerKept ==
  ASSUME NEW last \in Nat, NEW pc,
         \/ worker' = [IdleWorker EXCEPT !.pc = pc, !.last = last]
         \/ worker' = [IdleWorker EXCEPT !.last = last]
         \/ worker' = IdleWorker
  PROVE  WorkerKept
<1>1. CASE worker' = [IdleWorker EXCEPT !.pc = pc, !.last = last]
  BY <1>1 DEF IdleWorker, WorkerKept, WorkerShape, HandInv
<1>2. CASE worker' = [IdleWorker EXCEPT !.last = last]
  BY <1>2 DEF IdleWorker, WorkerKept, WorkerShape, HandInv
<1>3. CASE worker' = IdleWorker
  BY <1>3 DEF IdleWorker, WorkerKept, WorkerShape, HandInv
<1> QED BY <1>1, <1>2, <1>3

LEMMA IdleRiskKept ==
  ASSUME NEW pc, risk' = [IdleRisk EXCEPT !.pc = pc] \/ risk' = IdleRisk
  PROVE  RiskKept
  BY DEF IdleRisk, RiskKept, RiskShape, HandInv

\* A thread that does not step keeps what it has.
LEMMA OthersKept ==
  ASSUME IInv
  PROVE  /\ worker' = worker => WorkerKept
         /\ risk' = risk => RiskKept
         /\ ledger' = ledger => LedgerStep
  BY SameLots DEF IInv, WorkerKept, WorkerShape, RiskKept, RiskShape, LedgerStep, Keeps

-----------------------------------------------------------------------------
\* The hours of a natural clock are naturals.
LEMMA HourIsNat == ASSUME NEW t \in Nat PROVE HourOf(t) \in Nat
<1>1. t \div HOUR \in Nat
  BY Numbers
<1> QED BY <1>1, Numbers DEF HourOf

\* Filling the order of a hand keeps the ledger.
LEMMA FillKeeps ==
  ASSUME IInv, NEW hand, hand # None, HandInv(hand, now), Fill(hand)
  PROVE  LedgerStep
<1>1. CASE \E bar \in hand.order.earliest..hand.stamp, worth \in Worths, below \in BOOLEAN :
             ledger' = Executed(ledger, hand.market, hand.order, bar, hand.stamp, worth, below)
  <2>1. PICK bar \in hand.order.earliest..hand.stamp, worth \in Worths, below \in BOOLEAN :
             ledger' = Executed(ledger, hand.market, hand.order, bar, hand.stamp, worth, below)
    BY <1>1
  <2>2. bar \in Int
    OBVIOUS
  <2>3. /\ hand.market \in Symbols /\ hand.order # NoOrder
        /\ hand.stamp \in Int /\ hand.stamp <= now /\ now \in Int
    BY DEF HandInv, IInv
  <2> QED BY <2>1, <2>2, <2>3, ExecutedGood DEF IInv, LedgerStep
<1>2. CASE UNCHANGED ledger
  BY <1>2, OthersKept
<1> QED BY <1>1, <1>2 DEF Fill

\* Taking an order: what is in the hand was taken now.
LEMMA TakeKept ==
  ASSUME NEW x \in Symbols, NEW order, order # NoOrder, now \in Nat
  PROVE  HandInv([market |-> x, order |-> order, stamp |-> now], now)
  BY DEF HandInv

\* The markets of the next orders have one.
LEMMA NextPending ==
  ASSUME NEW orders, NEW x \in NextOf(orders)
  PROVE  x \in Symbols /\ orders[x] # NoOrder
  BY DEF NextOf

\* Every step of the hourly worker.
LEMMA WorkerKeeps ==
  ASSUME IInv, WorkerStep
  PROVE  now' = now /\ LedgerStep /\ WorkerKept /\ RiskKept
<1> USE DEF IInv
<1>1. CASE StartScan
  <2>1. now' = now /\ risk' = risk
    BY <1>1 DEF StartScan
  <2>2. LedgerStep
    <3>1. PICK scan : ledger' = [ledger EXCEPT !.scan = scan]
      BY <1>1 DEF StartScan, Good, Shape
    <3> QED BY <3>1, ScanGood DEF LedgerStep
  <2>3. WorkerKept
    BY <1>1, HourIsNat DEF StartScan, WorkerKept, WorkerShape, HandInv
  <2> QED BY <2>1, <2>2, <2>3, OthersKept
<1>2. CASE ScanMarket
  <2> DEFINE x == CHOOSE y \in worker.todo : \A z \in worker.todo : y <= z
  <2>1. now' = now /\ risk' = risk
    BY <1>2 DEF ScanMarket
  <2>2. WorkerKept
    BY <1>2 DEF ScanMarket, WorkerKept, WorkerShape, HandInv
  <2>3. LedgerStep
    <3>1. CASE ledger' = ledger
      BY <3>1, OthersKept
    <3>2. CASE ledger' # ledger
      <4>1. PICK point \in [boundary: {worker.last}, qualifies: BOOLEAN, breaks: BOOLEAN] :
              ledger' = Observed(ledger, x, point, now, worker.generation)
        BY <1>2, <3>2 DEF ScanMarket
      <4>2. point # None /\ point.boundary \in Int
        BY LedgerAssumption
      <4>3. x \in Symbols
        <5>1. worker.todo \subseteq Nat /\ worker.todo # {}
          BY <1>2, Numbers DEF ScanMarket
        <5>2. \E y \in worker.todo : \A z \in worker.todo : y <= z
          <6> DEFINE Less == {ss \in Nat \X Nat : ss[1] < ss[2]}
          <6>1. IsWellFoundedOn(Less, Nat)
            BY NatLessThanWellFounded DEF OpToRel
          <6>2. PICK y \in worker.todo : \A z \in worker.todo : ~ (<<z, y>> \in Less)
            <7> HIDE DEF Less
            <7> QED BY <5>1, <6>1, WFMin
          <6>3. \A z \in worker.todo : ~ (z < y)
            BY <5>1, <6>2
          <6> QED BY <5>1, <6>3
        <5> QED BY <5>2
      <4> QED BY <4>1, <4>2, <4>3, ObservedGood DEF LedgerStep
    <3> QED BY <3>1, <3>2
  <2> QED BY <2>1, <2>2, <2>3, OthersKept
<1>3. CASE FinishScan
  <2>1. now' = now /\ risk' = risk
    BY <1>3 DEF FinishScan
  <2>2. LedgerStep
    <3>1. PICK scan : ledger' = [ledger EXCEPT !.scan = scan]
      BY <1>3 DEF FinishScan, Good, Shape
    <3> QED BY <3>1, ScanGood DEF LedgerStep
  <2>3. WorkerKept
    BY <1>3, IdleWorkerKept DEF FinishScan
  <2> QED BY <2>1, <2>2, <2>3, OthersKept
<1>4. CASE AdvanceBefore
  <2>1. now' = now /\ risk' = risk /\ LedgerStep
    BY <1>4, AdvancedGood DEF AdvanceBefore, LedgerStep
  <2>2. WorkerKept
    BY <1>4 DEF AdvanceBefore, WorkerKept, WorkerShape, HandInv
  <2> QED BY <2>1, <2>2, OthersKept
<1>5. CASE ReadPending
  <2>1. now' = now /\ risk' = risk /\ ledger' = ledger
    BY <1>5 DEF ReadPending
  <2>2. WorkerKept
    BY <1>5 DEF ReadPending, WorkerKept, WorkerShape, HandInv
  <2> QED BY <2>1, <2>2, OthersKept
<1>6. CASE TakeOrder
  <2>1. now' = now /\ risk' = risk
    BY <1>6 DEF TakeOrder
  <2>2. PICK x \in NextOf(worker.orders) :
          LET order == worker.orders[x]
              rest  == [worker EXCEPT !.orders[x] = NoOrder]
          IN \/ /\ worker' = rest /\ UNCHANGED ledger
             \/ /\ Stale(order) /\ worker' = rest
                /\ ledger' = IF ledger.pending[x] = order THEN Cancel(ledger, x, order)
                             ELSE ledger
             \/ /\ worker' = [rest EXCEPT !.hand = [market |-> x, order |-> order, stamp |-> now]]
                /\ UNCHANGED ledger
    BY <1>6 DEF TakeOrder
  <2>3. x \in Symbols /\ worker.orders[x] # NoOrder
    BY NextPending
  <2> DEFINE order == worker.orders[x]
             taken == [market |-> x, order |-> order, stamp |-> now]
             left  == [worker.orders EXCEPT ![x] = NoOrder]
             rest  == [worker EXCEPT !.orders = left]
  <2>4. worker' = rest \/ worker' = [rest EXCEPT !.hand = taken]
    BY <2>2
  <2>5. HandInv(taken, now)
    BY <2>3, TakeKept
  <2> HIDE DEF taken, left
  <2>6. WorkerKept
    <3>1. /\ rest = [pc |-> rest.pc, last |-> rest.last, generation |-> rest.generation,
                     bootstrap |-> rest.bootstrap, todo |-> rest.todo, ready |-> rest.ready,
                     orders |-> rest.orders, hand |-> rest.hand]
          /\ rest.last = worker.last /\ rest.todo = worker.todo /\ rest.hand = worker.hand
      BY DEF WorkerShape
    <3> HIDE DEF rest
    <3> QED BY <2>4, <2>5, <3>1 DEF WorkerKept, WorkerShape
  <2>7. LedgerStep
    <3>1. CASE ledger' = ledger
      BY <3>1, OthersKept
    <3>2. CASE ledger' # ledger
      <4>1. /\ Stale(order) /\ ledger.pending[x] = order
            /\ ledger' = Cancel(ledger, x, ledger.pending[x])
        BY <2>2, <3>2
      <4>2. ledger.pending[x].side = "BUY"
        BY <4>1 DEF Stale
      <4> QED BY <2>3, <4>1, <4>2, CancelGood DEF LedgerStep
    <3> QED BY <3>1, <3>2
  <2> QED BY <2>1, <2>6, <2>7, OthersKept
<1>7. CASE FillOrder
  <2>1. now' = now /\ risk' = risk /\ LedgerStep
    BY <1>7, FillKeeps DEF FillOrder
  <2>2. WorkerKept
    BY <1>7 DEF FillOrder, WorkerKept, WorkerShape, HandInv
  <2> QED BY <2>1, <2>2, OthersKept
<1>8. CASE AdvanceAfter
  <2>1. now' = now /\ risk' = risk /\ LedgerStep
    BY <1>8, AdvancedGood DEF AdvanceAfter, LedgerStep
  <2>2. WorkerKept
    BY <1>8 DEF AdvanceAfter, WorkerKept, WorkerShape, HandInv
  <2> QED BY <2>1, <2>2, OthersKept
<1> QED BY <1>1, <1>2, <1>3, <1>4, <1>5, <1>6, <1>7, <1>8 DEF WorkerStep

\* Every step of the risk worker.
LEMMA RiskKeeps ==
  ASSUME IInv, RiskStep
  PROVE  now' = now /\ LedgerStep /\ WorkerKept /\ RiskKept
<1> USE DEF IInv
<1>1. CASE AskQuotes
  <2>1. now' = now /\ worker' = worker /\ ledger' = ledger
    BY <1>1 DEF AskQuotes
  <2>2. RiskKept
    BY <1>1 DEF AskQuotes, RiskKept, RiskShape, HandInv
  <2> QED BY <2>1, <2>2, OthersKept
<1>2. CASE CheckStops
  <2>1. now' = now /\ worker' = worker
    BY <1>2 DEF CheckStops
  <2>2. RiskKept
    BY <1>2, IdleRiskKept DEF CheckStops
  <2>3. PICK quoted \in risk.asked..now,
             hit \in SUBSET {x \in Symbols : risk.expected[x] # None} :
          ledger' = HardStopped(ledger, hit, quoted, now, risk.expected)
    BY <1>2 DEF CheckStops
  <2>4. hit \in SUBSET Symbols
    OBVIOUS
  <2>5. LedgerStep
    BY <2>3, <2>4, HardStoppedGood DEF LedgerStep
  <2> QED BY <2>1, <2>2, <2>5, OthersKept
<1>3. CASE ReadExits
  <2>1. now' = now /\ worker' = worker /\ ledger' = ledger
    BY <1>3 DEF ReadExits
  <2>2. RiskKept
    BY <1>3 DEF ReadExits, RiskKept, RiskShape, HandInv
  <2> QED BY <2>1, <2>2, OthersKept
<1>4. CASE TakeExit
  <2>1. now' = now /\ worker' = worker /\ ledger' = ledger
    BY <1>4 DEF TakeExit
  <2>2. RiskKept
    <3>1. PICK x \in NextOf(risk.orders) :
            LET order == risk.orders[x]
                rest  == [risk EXCEPT !.orders[x] = NoOrder]
            IN \/ worker' = worker /\ risk' = rest
               \/ risk' = [rest EXCEPT !.hand = [market |-> x, order |-> order, stamp |-> now]]
      BY <1>4 DEF TakeExit
    <3>2. x \in Symbols /\ risk.orders[x] # NoOrder
      BY NextPending
    <3> DEFINE taken == [market |-> x, order |-> risk.orders[x], stamp |-> now]
               left  == [risk.orders EXCEPT ![x] = NoOrder]
               rest  == [risk EXCEPT !.orders = left]
    <3>3. risk' = rest \/ risk' = [rest EXCEPT !.hand = taken]
      BY <3>1
    <3>4. HandInv(taken, now)
      BY <3>2, TakeKept
    <3> HIDE DEF taken, left
    <3>5. /\ rest = [pc |-> rest.pc, expected |-> rest.expected, asked |-> rest.asked,
                     orders |-> rest.orders, hand |-> rest.hand]
          /\ rest.hand = risk.hand
      BY DEF RiskShape
    <3> HIDE DEF rest
    <3> QED BY <3>3, <3>4, <3>5 DEF RiskKept, RiskShape
  <2> QED BY <2>1, <2>2, OthersKept
<1>5. CASE FillExit
  <2>1. now' = now /\ worker' = worker /\ LedgerStep
    BY <1>5, FillKeeps DEF FillExit
  <2>2. RiskKept
    BY <1>5 DEF FillExit, RiskKept, RiskShape, HandInv
  <2> QED BY <2>1, <2>2, OthersKept
<1> QED BY <1>1, <1>2, <1>3, <1>4, <1>5 DEF RiskStep

\* A request and the purchases it may reserve at once.
LEMMA RequestKeeps ==
  ASSUME IInv, NEW mode, Request(mode)
  PROVE  LedgerStep
<1> DEFINE N == Requested(ledger, mode, now)
           M == Advanced(N, now)
<1>1. Plannable(ledger, mode, now) /\ ledger' = M
  BY DEF Request, Requestable
<1>2. Keeps(ledger, N, now) /\ N.positions = ledger.positions /\ N.enabled = ledger.enabled
  BY <1>1, RequestedGood DEF IInv
<1> HIDE DEF N
<1>3. Good(M, now) /\ M.positions = N.positions /\ M.enabled = N.enabled
  BY <1>2, AdvancedGood, AdvancedSame DEF Keeps, IInv
<1> QED BY <1>1, <1>2, <1>3, SameLots DEF Keeps, LedgerStep

\* Every step of the console.
LEMMA ConsoleKeeps ==
  ASSUME IInv, Console
  PROVE  now' = now /\ LedgerStep /\ WorkerKept /\ RiskKept
<1>1. now' = now /\ worker' = worker /\ risk' = risk
  BY DEF Console, Clear, Resume, Request
<1>2. LedgerStep
  <2>1. CASE Clear
    BY <2>1, ClearedGood DEF Clear, LedgerStep, IInv
  <2>2. CASE Resume
    BY <2>2, ResumedGood DEF Resume, LedgerStep, IInv
  <2>3. ASSUME NEW mode \in {"rebuild", "refill"}, Request(mode) PROVE LedgerStep
    BY <2>3, RequestKeeps
  <2> QED BY <2>1, <2>2, <2>3 DEF Console
<1> QED BY <1>1, <1>2, OthersKept

\* Every interruption and restart.
LEMMA FaultKeeps ==
  ASSUME IInv, WorkerInterrupted \/ RiskInterrupted \/ Restart
  PROVE  now' = now /\ LedgerStep /\ WorkerKept /\ RiskKept
<1>1. CASE WorkerInterrupted
  <2>1. now' = now /\ risk' = risk
    BY <1>1 DEF WorkerInterrupted
  <2>2. WorkerKept
    BY <1>1, IdleWorkerKept DEF WorkerInterrupted, IInv
  <2>3. PICK scan : ledger' = [ledger EXCEPT !.scan = scan]
    BY <1>1 DEF WorkerInterrupted, IInv, Good, Shape
  <2>4. LedgerStep
    BY <2>3, ScanGood DEF IInv, LedgerStep
  <2> QED BY <2>1, <2>2, <2>4, OthersKept
<1>2. CASE RiskInterrupted
  <2>1. now' = now /\ worker' = worker /\ ledger' = ledger
    BY <1>2 DEF RiskInterrupted
  <2>2. RiskKept
    BY <1>2, IdleRiskKept DEF RiskInterrupted
  <2> QED BY <2>1, <2>2, OthersKept
<1>3. CASE Restart
  <2>1. now' = now /\ worker' = IdleWorker /\ risk' = IdleRisk
    BY <1>3 DEF Restart
  <2>2. WorkerKept /\ RiskKept
    BY <2>1, IdleWorkerKept, IdleRiskKept
  <2>3. CASE ledger' = ledger
    BY <2>1, <2>2, <2>3, OthersKept
  <2>4. CASE ledger' # ledger
    <3>1. PICK mode \in {"rebuild", "refill"} :
            Plannable(ledger, mode, now) /\ ledger' = Requested(ledger, mode, now)
      BY <1>3, <2>4 DEF Restart, Requestable
    <3>2. LedgerStep
      BY <3>1, RequestedGood DEF IInv, LedgerStep
    <3> QED BY <2>1, <2>2, <3>2
  <2> QED BY <2>3, <2>4
<1> QED BY <1>1, <1>2, <1>3

\* What a step of the system keeps, and does to the lots.
LEMMA StepKeeps ==
  ASSUME IInv, [Next]_vars
  PROVE  IInv' /\ Follows(ledger, ledger') /\ Flat(ledger, ledger')
<1>1. CASE Tick
  <2>1. /\ now' = now + 1 /\ ledger' = ledger /\ worker' = worker /\ risk' = risk
    BY <1>1 DEF Tick
  <2>2. Good(ledger, now + 1)
    BY GoodLater DEF IInv
  <2>3. HandInv(worker.hand, now + 1) /\ HandInv(risk.hand, now + 1)
    BY DEF IInv, HandInv
  <2>4. IInv'
    BY <2>1, <2>2, <2>3 DEF IInv, WorkerShape, RiskShape
  <2> QED BY <2>1, <2>4, SameLots
<1>2. CASE UNCHANGED vars
  <2>1. now' = now /\ ledger' = ledger /\ worker' = worker /\ risk' = risk
    BY <1>2 DEF vars
  <2>2. IInv'
    BY <2>1 DEF IInv, WorkerShape, RiskShape
  <2> QED BY <2>1, <2>2, SameLots
<1>3. ASSUME now' = now, LedgerStep, WorkerKept, RiskKept
      PROVE  IInv' /\ Follows(ledger, ledger') /\ Flat(ledger, ledger')
  BY <1>3 DEF IInv, LedgerStep, Keeps, WorkerKept, RiskKept
<1>4. CASE WorkerStep
  BY <1>3, <1>4, WorkerKeeps
<1>5. CASE RiskStep
  BY <1>3, <1>5, RiskKeeps
<1>6. CASE Console
  BY <1>3, <1>6, ConsoleKeeps
<1>7. CASE WorkerInterrupted \/ RiskInterrupted \/ Restart
  BY <1>3, <1>7, FaultKeeps
<1> QED BY <1>1, <1>2, <1>4, <1>5, <1>6, <1>7 DEF Next

-----------------------------------------------------------------------------
(* Theorems *)

\* The strengthened invariant of the account and the hands of its threads.
THEOREM IInvInvariant == Spec => []IInv
<1>1. Init => IInv
  <2> SUFFICES ASSUME Init PROVE IInv
    OBVIOUS
  <2>1. worker = IdleWorker /\ risk = IdleRisk /\ now = StartStamp /\ ledger = InitialLedger
    BY DEF Init
  <2>2. /\ WorkerShape /\ worker.last = 0 /\ worker.todo = {} /\ worker.hand = None
        /\ RiskShape /\ risk.hand = None
    BY <2>1 DEF IdleWorker, IdleRisk, WorkerShape, RiskShape
  <2> QED BY <2>1, <2>2, InitialGood, Numbers DEF IInv, HandInv
<1>2. IInv /\ [Next]_vars => IInv'
  BY StepKeeps
<1> QED BY <1>1, <1>2, PTL DEF Spec

\* Nothing seen before the last resumption is bought after it.
THEOREM FreshEntries == Spec => []EntriesFollowResume
<1>1. IInv => EntriesFollowResume
  <2> SUFFICES ASSUME IInv, NEW x \in Symbols
               PROVE  /\ ledger.positions[x] # None =>
                           ledger.positions[x].signal - HOUR > ledger.resumed
                      /\ x \in Orders(ledger, "BUY") =>
                           ledger.pending[x].signal - HOUR > ledger.resumed
    BY DEF EntriesFollowResume
  <2>1. x \in Orders(ledger, "BUY") => ledger.pending[x] # NoOrder /\ ledger.pending[x].side = "BUY"
    BY DEF Orders, NoOrder
  <2> QED BY <2>1 DEF IInv, Good, LotsInv, OrdersInv, SellOk, BuyOk
<1> QED BY <1>1, IInvInvariant, PTL

\* Every target of a rebalancing is bought, canceled, or still reserved.
THEOREM Accounted == Spec => []TargetsAccounted
<1>1. IInv => TargetsAccounted
  <2> SUFFICES ASSUME IInv PROVE TargetsAccounted
    OBVIOUS
  <2>1. {x \in Orders(ledger, "BUY") : ledger.pending[x].request = ledger.rebalance.request}
          = Open(ledger)
    <3>1. \A x \in Symbols : x \in Orders(ledger, "BUY") <=>
             ledger.pending[x] # NoOrder /\ ledger.pending[x].side = "BUY"
      BY DEF Orders, NoOrder
    <3>2. Orders(ledger, "BUY") \subseteq Symbols
      BY DEF Orders
    <3> QED BY <3>1, <3>2 DEF Open
  <2>2. OpInv(ledger)
    BY DEF IInv, Good
  <2>3. CASE ledger.rebalance.phase = "BUYING"
    BY <2>1, <2>2, <2>3 DEF TargetsAccounted, OpInv
  <2>4. CASE ledger.rebalance.phase \in {"DONE", "CANCELED"}
    BY <2>1, <2>2, <2>4 DEF TargetsAccounted, OpInv
  <2>5. CASE ledger.rebalance.phase \notin {"BUYING", "DONE", "CANCELED"}
    BY <2>5 DEF TargetsAccounted
  <2> QED BY <2>3, <2>4, <2>5
<1> QED BY <1>1, IInvInvariant, PTL

\* Whatever a thread read before, a fill carries out the pending order of
\* its lot, after its decision.
THEOREM FillsFollow == Spec => FillsFollowDecisions
<1>1. IInv /\ [Next]_vars => [Follows(ledger, ledger')]_vars
  BY StepKeeps
<1>2. ASSUME Follows(ledger, ledger')
      PROVE  \A x \in Symbols : ledger'.positions[x] # ledger.positions[x] =>
       /\ ledger.pending[x] # NoOrder /\ ledger'.pending[x] = NoOrder
       /\ IF ledger.positions[x] # None
            THEN /\ ledger.pending[x].side = "SELL" /\ ledger'.positions[x] = None
                 /\ ledger.pending[x].decision >= ledger.positions[x].entry
                 /\ ledger'.last_exit[x] > ledger.pending[x].decision
            ELSE /\ ledger.pending[x].side = "BUY" /\ ledger.enabled
                 /\ ledger.pending[x].generation = ledger.generation
                 /\ ledger'.positions[x].entry > ledger.pending[x].decision
                 /\ ledger'.positions[x].entry > ledger.last_exit[x]
  BY <1>2 DEF Follows
<1> QED BY <1>1, <1>2, IInvInvariant, PTL DEF Spec, FillsFollowDecisions

\* Trading starts again only with an empty account.
THEOREM RestartsFlat == Spec => ResumesFlat
<1>1. IInv /\ [Next]_vars =>
        [ledger'.enabled /\ ~ledger.enabled => Held(ledger) = {} /\ Held(ledger') = {}]_vars
  BY StepKeeps DEF Flat
<1> QED BY <1>1, IInvInvariant, PTL DEF Spec, ResumesFlat

\* Lots change and trading begins only as it was decided, whatever the two
\* threads had read before.
THEOREM DecisionsFollowed == Spec => DecisionsAreFollowed
<1> QED BY FillsFollow, RestartsFlat DEF DecisionsAreFollowed

\* Every step keeps what is reserved covered.
LEMMA MoneyKept ==
  ASSUME IInv, Money(ledger), [Next]_vars
  PROVE  Money(ledger')
<1>1. Good(ledger, now) /\ Shape(ledger) /\ now \in Int
  BY DEF IInv, Good
<1>2. CASE ledger' = ledger
  BY <1>2
<1>3. CASE \E scan : ledger' = [ledger EXCEPT !.scan = scan]
  BY <1>1, <1>3, ResumedMoney
<1>4. ASSUME NEW hand, hand # None, HandInv(hand, now), Fill(hand) PROVE Money(ledger')
  <2>1. CASE ledger' = ledger
    BY <2>1
  <2>2. CASE ledger' # ledger
    <3>1. PICK bar \in hand.order.earliest..hand.stamp, worth \in Worths, below \in BOOLEAN :
            ledger' = Executed(ledger, hand.market, hand.order, bar, hand.stamp, worth, below)
      BY <1>4, <2>2 DEF Fill
    <3>2. hand.market \in Symbols /\ hand.order # NoOrder
      BY <1>4 DEF HandInv
    <3> QED BY <1>1, <3>1, <3>2, ExecutedMoney
  <2> QED BY <2>1, <2>2
<1>5. CASE WorkerStep
  <2>1. CASE StartScan \/ FinishScan
    <3>1. PICK scan : ledger' = [ledger EXCEPT !.scan = scan]
      BY <1>1, <2>1 DEF StartScan, FinishScan, Shape
    <3> QED BY <1>3, <3>1
  <2>2. CASE ScanMarket
    <3>1. \/ ledger' = ledger
          \/ /\ worker.todo # {}
             /\ \E point \in [boundary: {worker.last}, qualifies: BOOLEAN, breaks: BOOLEAN] :
                  LET x == CHOOSE y \in worker.todo : \A z \in worker.todo : y <= z
                  IN ledger' = Observed(ledger, x, point, now, worker.generation)
      BY <2>2 DEF ScanMarket
    <3> DEFINE x == CHOOSE y \in worker.todo : \A z \in worker.todo : y <= z
    <3>2. worker.todo # {} => x \in Symbols
      <4> SUFFICES ASSUME worker.todo # {} PROVE x \in Symbols
        OBVIOUS
      <4>1. worker.todo \in SUBSET Nat
        BY Numbers DEF IInv
      <4>2. PICK y \in worker.todo : \A z \in worker.todo : y <= z
        <5> DEFINE Less == {ss \in Nat \X Nat : ss[1] < ss[2]}
        <5>1. IsWellFoundedOn(Less, Nat)
          BY NatLessThanWellFounded DEF OpToRel
        <5>2. PICK y \in worker.todo : \A z \in worker.todo : ~ (<<z, y>> \in Less)
          <6> HIDE DEF Less
          <6> QED BY <4>1, <5>1, WFMin
        <5>3. \A z \in worker.todo : ~ (z < y)
          BY <4>1, <5>2
        <5> QED BY <4>1, <5>3
      <4> QED BY <4>2 DEF IInv
    <3> HIDE DEF x
    <3> QED BY <1>1, <3>1, <3>2, ObservedMoney DEF x
  <2>3. CASE AdvanceBefore \/ AdvanceAfter
    BY <1>1, <2>3, AdvancedMoney DEF AdvanceBefore, AdvanceAfter
  <2>4. CASE ReadPending
    BY <1>2, <2>4 DEF ReadPending
  <2>5. CASE TakeOrder
    <3>1. PICK x \in NextOf(worker.orders) :
             \/ ledger' = ledger
             \/ /\ Stale(worker.orders[x]) /\ ledger.pending[x] = worker.orders[x]
                /\ ledger' = Cancel(ledger, x, worker.orders[x])
      BY <2>5 DEF TakeOrder
    <3>2. x \in Symbols
      BY NextPending
    <3>3. Stale(worker.orders[x]) => worker.orders[x].side = "BUY"
      BY DEF Stale
    <3> QED BY <1>1, <3>1, <3>2, <3>3, CancelMoney
  <2>6. CASE FillOrder
    <3>1. worker.hand # None /\ HandInv(worker.hand, now) /\ Fill(worker.hand)
      BY <2>6 DEF FillOrder, IInv
    <3> QED BY <1>4, <3>1
  <2> QED BY <1>5, <2>1, <2>2, <2>3, <2>4, <2>5, <2>6 DEF WorkerStep
<1>6. CASE RiskStep
  <2>1. CASE AskQuotes \/ ReadExits \/ TakeExit
    BY <1>2, <2>1 DEF AskQuotes, ReadExits, TakeExit
  <2>2. CASE CheckStops
    <3>1. PICK S : ledger' = ScheduleExit(ledger, S, now)
      BY <2>2 DEF CheckStops, HardStopped
    <3> QED BY <1>1, <3>1, ScheduleMoney
  <2>3. CASE FillExit
    <3>1. risk.hand # None /\ HandInv(risk.hand, now) /\ Fill(risk.hand)
      BY <2>3 DEF FillExit, IInv
    <3> QED BY <1>4, <3>1
  <2> QED BY <1>6, <2>1, <2>2, <2>3 DEF RiskStep
<1>7. ASSUME NEW mode, Plannable(ledger, mode, now)
      PROVE  /\ Money(Requested(ledger, mode, now))
             /\ Money(Advanced(Requested(ledger, mode, now), now))
  <2>1. Money(Requested(ledger, mode, now)) /\ Shape(Requested(ledger, mode, now))
    BY <1>1, <1>7, RequestedMoney
  <2> QED BY <2>1, AdvancedMoney
<1>8. CASE Console
  <2>1. CASE Clear \/ Resume
    BY <1>1, <2>1, ClearedMoney, ResumedMoney DEF Clear, Resume
  <2>2. CASE \E mode \in {"rebuild", "refill"} : Request(mode)
    BY <1>7, <2>2 DEF Request, Requestable
  <2> QED BY <1>8, <2>1, <2>2 DEF Console
<1>9. CASE WorkerInterrupted
  <2>1. PICK scan : ledger' = [ledger EXCEPT !.scan = scan]
    BY <1>1, <1>9 DEF WorkerInterrupted, Shape
  <2> QED BY <1>3, <2>1
<1>10. CASE Restart
  BY <1>2, <1>7, <1>10 DEF Restart, Requestable
<1>11. CASE Tick \/ RiskInterrupted \/ UNCHANGED vars
  BY <1>2, <1>11 DEF Tick, RiskInterrupted, vars
<1> QED BY <1>5, <1>6, <1>8, <1>9, <1>10, <1>11 DEF Next

\* The entries reserved by any threads, scans and rebalancings are covered by
\* the cash and by the slots, and every exit has its lot: CAPITAL_INVARIANT of
\* execute() is never found broken.
THEOREM Covers == Spec => []EntriesCovered
<1>1. Init => Money(ledger)
  BY InitialMoney DEF Init
<1>2. IInv /\ Money(ledger) /\ [Next]_vars => Money(ledger)'
  <2>1. IInv /\ Money(ledger) /\ [Next]_vars => Money(ledger')
    BY MoneyKept
  <2> QED BY <2>1 DEF Money, Held, Budgets, Orders, Taken, Claimed, Reserved
<1>3. IInv /\ Money(ledger) => EntriesCovered
  <2> SUFFICES ASSUME IInv, Money(ledger) PROVE EntriesCovered
    OBVIOUS
  <2> DEFINE H == Held(ledger)
             B == Orders(ledger, "BUY")
  <2>1. /\ IsFiniteSet(H) /\ IsFiniteSet(B) /\ Cardinality(H) \in Nat /\ Cardinality(B) \in Nat
    BY Counts, OfMarkets
  <2>2. Cardinality(H \cap B) = 0 /\ H \cap B = {} /\ Cardinality(H \cup B) <= Slots
    BY FS_EmptySet DEF Money, Taken
  <2>3. Cardinality(H \cup B) = Cardinality(H) + Cardinality(B) - Cardinality(H \cap B)
    <3> HIDE DEF H, B
    <3> QED BY <2>1, FS_Union
  <2>4. Cardinality(H) + Cardinality(B) <= Slots
    <3> HIDE DEF H, B
    <3> QED BY <2>1, <2>2, <2>3
  <2>5. Orders(ledger, "SELL") \subseteq H
    BY DEF Orders, Held, NoOrder, IInv, Good, OrdersInv, SellOk, BuyOk
  <2> QED BY <2>2, <2>4, <2>5 DEF EntriesCovered, Money
<1> QED BY <1>1, <1>2, <1>3, IInvInvariant, PTL DEF Spec

\* What is held or reserved is covered, and rests on new signals and on its
\* rebalancing.
THEOREM EntriesAccounted == Spec => []EntriesAreAccounted
<1>1. EntriesCovered /\ EntriesFollowResume /\ TargetsAccounted => EntriesAreAccounted
  BY DEF EntriesAreAccounted
<1> QED BY <1>1, Covers, FreshEntries, Accounted, PTL

=============================================================================
