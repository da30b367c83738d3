-------------------------- MODULE PaperPortfolioProofs --------------------------
(***************************************************************************)
(* For any coins, prices, thresholds, slots, days and number of deaths:    *)
(* the portfolio stays sound, and a weakened signal is confirmed before it *)
(* sells.                                                                  *)
(*                                                                         *)
(* Both the state on disk and the copy in memory satisfy one invariant of  *)
(* a state; what ties them together is that the copy never loses a lot,    *)
(* has more lots than the disk only once no sale can follow, and keeps     *)
(* every closed lot of the disk.  So a death, which leaves the lines of    *)
(* the copy in the ledger, leaves none for a lot that the disk lacks and   *)
(* none that contradicts a lot the disk has closed.                        *)
(*                                                                         *)
(* At the end: the FAST flow account (FlowPaper) stays sound and buys only *)
(* while it may, for any markets, prices, policy and order of calls.       *)
(***************************************************************************)
EXTENDS PaperPortfolio, FlowPaper, SumFacts

\* The shape of a state, whatever the clock.
Shaped(st) ==
  /\ st = [lots |-> st.lots, cash |-> st.cash, today |-> st.today, lifetime |-> st.lifetime,
           asof |-> st.asof, full |-> st.full, date |-> st.date, slot |-> st.slot,
           slotDay |-> st.slotDay]
  /\ st.lots \subseteq Lot /\ IsFiniteSet(st.lots)
  /\ st.cash \in Nat /\ st.today \in Int /\ st.lifetime \in Int /\ st.slot \in Nat

\* One lot for each purchase, and an older lot of a coin was closed before the
\* next one was bought.
Ordered(st) ==
  /\ \A k, l \in st.lots : k.serial = l.serial => k = l
  /\ \A k, l \in st.lots :
       k.coin = l.coin /\ k.serial < l.serial => k.status = "CLOSED" /\ k.exit <= l.day

\* What is open has no result yet; what is closed was closed after it was bought.
LotOk(l) ==
  IF l.status = "OPEN" THEN l.reason = None /\ l.exit = 0 /\ l.pnl = 0 ELSE l.day <= l.exit

Looked(l) ==
  /\ l.status = "OPEN" /\ l.since # -1 => l.since \in l.seen
  /\ l.reason = "VPD_SIGNAL_DECAY" => \E s, t \in l.seen : t - s >= Grace /\ s # t

Balanced(st) ==
  /\ st.cash + CostOf(Open(st)) = InitialCash + st.lifetime
  /\ st.lifetime = PnlOf(st.lots \ Open(st))

Apart(st) ==
  \A new, old \in st.lots :
    (new.coin = old.coin /\ old.serial < new.serial /\ old.exit = new.day) =>
      /\ new.session # "REQUEST"
      /\ new.session = "REFILL" => old.reason \notin {"TAKE_PROFIT", "HARD_STOP"}

\* A state that a process may load or save on day d, at time t, after n purchases.
Good(st, d, t, n) ==
  /\ Shaped(st) /\ Ordered(st) /\ Balanced(st) /\ Apart(st)
  /\ \A l \in st.lots : LotOk(l) /\ l.serial <= n /\ l.day <= d
  /\ Cardinality(Open(st)) <= TopN
  /\ st.asof \in -1..t /\ st.full \in -1..st.asof

SerialsOf(st) == {l.serial : l \in st.lots}

ClosedLots(st) == {l \in st.lots : l.status = "CLOSED"}

\* The ledger has the lines of a state.
Logged(st, L) ==
  /\ \A l \in ClosedLots(st) : L.sells[l.serial] = l.pnl
  /\ SerialsOf(st) \subseteq L.buys

\* What was sold is a lot of the state.
Known(st, L) == \A s \in Serials : L.sells[s] # None => s \in SerialsOf(st)

DiskInv ==
  /\ Good(disk, Day(now), now, serial) /\ Logged(disk, ledger) /\ Known(disk, ledger)
  /\ \A l \in ClosedLots(disk) : l.exit <= Day(now)

\* The copy of the running process.
MemInv ==
  /\ Good(mem, run.day, now, serial) /\ Logged(mem, ledger)
  /\ \A l \in ClosedLots(mem) :
       l.exit <= run.day \/ (l.exit <= Day(now) /\ l.coin \in run.exited)
  /\ ClosedLots(disk) \subseteq mem.lots /\ SerialsOf(disk) \subseteq SerialsOf(mem)
  /\ run.step # "buy" => SerialsOf(mem) = SerialsOf(disk)

RunInv ==
  /\ run.day = Day(run.asof) /\ run.asof <= now /\ now <= run.asof + 1
  /\ run.step = "check" => mem = disk /\ run.exited = {}
  /\ run.mode = "morning" /\ run.step # "check" => mem.asof < run.asof
  /\ run.mode = "refill" /\ run.step # "check" =>
       /\ run.step = "buy" /\ run.left + Cardinality(Open(mem)) <= TopN
       /\ SameDayCooldown(mem, run.day) \subseteq run.exited
       /\ \A l \in ClosedLots(mem) : l.exit <= run.day

Clocks ==
  /\ now \in 0..Horizon /\ serial \in 0..MaxSerial /\ crashes \in 0..MaxCrashes

LedgerInv ==
  /\ ledger = [buys |-> ledger.buys, sells |-> ledger.sells]
  /\ ledger.buys \subseteq Serials /\ ledger.sells \in [Serials -> Int \cup {None}]

IInv ==
  /\ Clocks /\ LedgerInv /\ DiskInv
  /\ run \in Run \cup {None} /\ (run = None => mem = None)
  /\ run # None => MemInv /\ RunInv

\* Every lot, on disk and in memory, was looked at as its counters say.
Seen == disk.lots \cup (IF run = None THEN {} ELSE mem.lots)

LooksInv == \A l \in Seen : Looked(l)

-----------------------------------------------------------------------------
(* Days and sums                                                           *)

\* A later time is on the same day or on a later one.
LEMMA DayGrows ==
  ASSUME NEW t \in Nat, NEW u \in Nat, t <= u
  PROVE  Day(t) \in Nat /\ Day(u) \in Nat /\ Day(t) <= Day(u)
<1> DEFINE n == DayLength
           p == t \div n
           q == u \div n
<1>1. n \in Nat /\ n > 0
  BY PortfolioAssumption
<1>2. /\ p \in Nat /\ n * p <= t /\ t < n * p + n
      /\ q \in Nat /\ n * q <= u /\ u < n * q + n
  BY <1>1, ShareAtMost
<1> HIDE DEF n, p, q
<1>3. p <= q
  <2> SUFFICES ASSUME q + 1 <= p PROVE FALSE
    BY <1>2
  <2>1. n * (q + 1) <= n * p
    BY <1>1, <1>2
  <2>2. n * (q + 1) = n * q + n
    BY <1>1, <1>2
  <2> QED BY <1>1, <1>2, <2>1, <2>2
<1> QED BY <1>2, <1>3 DEF p, q, n, Day

\* A set of lots whose money may be added up.
Lots(T) == T \subseteq Lot /\ IsFiniteSet(T)

LEMMA SumsOfLots ==
  ASSUME NEW T, Lots(T)
  PROVE  CostOf(T) \in Nat /\ PnlOf(T) \in Int
<1> DEFINE c == [l \in T |-> l.cost]
           p == [l \in T |-> l.pnl]
<1>1. \A l \in T : c[l] \in Nat /\ p[l] \in Int
  BY DEF Lots, Lot
<1> HIDE DEF c, p
<1>2. SumFunctionOnSet(c, T) \in Nat /\ SumFunctionOnSet(p, T) \in Int
  BY <1>1, SumNatural, SumType DEF Lots
<1> QED BY <1>2 DEF CostOf, PnlOf, c, p

\* The sums of two disjoint sets of lots add up.
LEMMA SumsOfBoth ==
  ASSUME NEW T, NEW U, Lots(T), Lots(U), T \cap U = {}
  PROVE  CostOf(T \cup U) = CostOf(T) + CostOf(U) /\ PnlOf(T \cup U) = PnlOf(T) + PnlOf(U)
<1> DEFINE W == T \cup U
           c == [l \in W |-> l.cost]
           p == [l \in W |-> l.pnl]
<1>1. \A l \in W : c[l] \in Int /\ p[l] \in Int
  BY DEF Lots, Lot
<1>2. /\ \A l \in T : c[l] = [k \in T |-> k.cost][l] /\ p[l] = [k \in T |-> k.pnl][l]
      /\ \A l \in U : c[l] = [k \in U |-> k.cost][l] /\ p[l] = [k \in U |-> k.pnl][l]
  OBVIOUS
<1>3. /\ SumFunctionOnSet(c, T) = CostOf(T) /\ SumFunctionOnSet(c, U) = CostOf(U)
      /\ SumFunctionOnSet(p, T) = PnlOf(T) /\ SumFunctionOnSet(p, U) = PnlOf(U)
  <2> HIDE DEF c, p
  <2> QED BY <1>2, SumSame DEF Lots, CostOf, PnlOf
<1>4. /\ SumFunctionOnSet(c, W) = SumFunctionOnSet(c, T) + SumFunctionOnSet(c, U)
      /\ SumFunctionOnSet(p, W) = SumFunctionOnSet(p, T) + SumFunctionOnSet(p, U)
  <2>1. \A l \in T \cup U : c[l] \in Int /\ p[l] \in Int
    BY <1>1
  <2> HIDE DEF c, p
  <2> QED BY <2>1, SumUnion DEF Lots
<1>5. SumFunctionOnSet(c, W) = CostOf(W) /\ SumFunctionOnSet(p, W) = PnlOf(W)
  BY DEF CostOf, PnlOf
<1> HIDE DEF c, p
<1> QED BY <1>3, <1>4, <1>5

\* The sum of a single lot.
LEMMA SumsOfOne ==
  ASSUME NEW l \in Lot
  PROVE  Lots({l}) /\ CostOf({l}) = l.cost /\ PnlOf({l}) = l.pnl
<1> DEFINE c == [k \in {l} |-> k.cost]
           p == [k \in {l} |-> k.pnl]
<1>1. IsFiniteSet({l}) /\ IsFiniteSet({})
  BY FS_EmptySet, FS_Singleton
<1>2. c[l] = l.cost /\ p[l] = l.pnl /\ l.cost \in Int /\ l.pnl \in Int
  BY DEF Lot
<1>3. l \notin {} /\ {} \cup {l} = {l}
  OBVIOUS
<1> HIDE DEF c, p
<1>4. /\ SumFunctionOnSet(c, {} \cup {l}) = c[l] + SumFunctionOnSet(c, {})
      /\ SumFunctionOnSet(p, {} \cup {l}) = p[l] + SumFunctionOnSet(p, {})
  BY <1>1, <1>2, <1>3, SumInsert
<1>5. SumFunctionOnSet(c, {l}) = l.cost /\ SumFunctionOnSet(p, {l}) = l.pnl
  BY <1>2, <1>3, <1>4, SumEmpty
<1> QED BY <1>1, <1>5 DEF Lots, CostOf, PnlOf, c, p

\* One lot more.
LEMMA SumsWith ==
  ASSUME NEW T, Lots(T), NEW l \in Lot, l \notin T
  PROVE  /\ Lots(T \cup {l})
         /\ CostOf(T \cup {l}) = CostOf(T) + l.cost /\ PnlOf(T \cup {l}) = PnlOf(T) + l.pnl
<1>1. Lots({l}) /\ CostOf({l}) = l.cost /\ PnlOf({l}) = l.pnl /\ T \cap {l} = {}
  BY SumsOfOne
<1>2. Lots(T \cup {l})
  BY FS_AddElement DEF Lots
<1> QED BY <1>1, <1>2, SumsOfBoth

\* One lot less.
LEMMA SumsWithout ==
  ASSUME NEW T, Lots(T), NEW l \in T
  PROVE  /\ Lots(T \ {l})
         /\ CostOf(T) = CostOf(T \ {l}) + l.cost /\ PnlOf(T) = PnlOf(T \ {l}) + l.pnl
<1>1. Lots(T \ {l}) /\ l \in Lot
  BY FS_RemoveElement DEF Lots
<1>2. l \notin T \ {l} /\ (T \ {l}) \cup {l} = T
  OBVIOUS
<1>3. /\ CostOf((T \ {l}) \cup {l}) = CostOf(T \ {l}) + l.cost
      /\ PnlOf((T \ {l}) \cup {l}) = PnlOf(T \ {l}) + l.pnl
  BY <1>1, <1>2, SumsWith
<1>4. CostOf((T \ {l}) \cup {l}) = CostOf(T) /\ PnlOf((T \ {l}) \cup {l}) = PnlOf(T)
  BY Zenon, <1>2
<1> QED BY <1>1, <1>3, <1>4

-----------------------------------------------------------------------------
(* States                                                                  *)

\* The lots of a state, open and closed.
LEMMA Divided ==
  ASSUME NEW st, Shaped(st)
  PROVE  /\ Lots(st.lots) /\ Lots(Open(st)) /\ Lots(ClosedLots(st))
         /\ st.lots \ Open(st) = ClosedLots(st) /\ Cardinality(Open(st)) \in Nat
         /\ CostOf(Open(st)) \in Nat
<1>1. Open(st) \subseteq st.lots /\ ClosedLots(st) \subseteq st.lots
  BY DEF Open, ClosedLots
<1>2. Lots(st.lots) /\ Lots(Open(st)) /\ Lots(ClosedLots(st))
  BY <1>1, FS_Subset DEF Shaped, Lots
<1>3. \A l \in st.lots : l.status \in {"OPEN", "CLOSED"}
  BY DEF Shaped, Lot
<1>4. st.lots \ Open(st) = ClosedLots(st)
  BY <1>3 DEF Open, ClosedLots
<1> QED BY <1>2, <1>4, FS_CardinalityType, SumsOfLots DEF Lots

\* What is good stays good on a later day, at a later time, after more purchases.
LEMMA Later ==
  ASSUME NEW st, NEW d \in Int, NEW t \in Int, NEW n \in Int, Good(st, d, t, n),
         NEW e \in Int, NEW u \in Int, NEW m \in Int, d <= e, t <= u, n <= m
  PROVE  Good(st, e, u, m)
<1>1. \A l \in st.lots : l.serial \in Int /\ l.day \in Int
  BY DEF Good, Shaped, Lot, Serials
<1> QED BY <1>1 DEF Good

\* The same purchase.
Same(l, m) == /\ m.serial = l.serial /\ m.coin = l.coin /\ m.session = l.session
              /\ m.day = l.day /\ m.cost = l.cost

\* st with the lot l become m.
Replaced(st, st2, l, m) ==
  /\ l \in Open(st) /\ m \in Lot /\ Same(l, m) /\ LotOk(m)
  /\ Shaped(st2) /\ st2.lots = (st.lots \ {l}) \cup {m}
  /\ st2.asof = st.asof /\ st2.full = st.full

\* What a replaced lot leaves of the others.
LEMMA ReplacedLots ==
  ASSUME NEW st, NEW st2, NEW l, NEW m, Shaped(st), Ordered(st), Replaced(st, st2, l, m)
  PROVE  /\ m \notin st.lots \ {l} /\ SerialsOf(st2) = SerialsOf(st)
         /\ m.status = "OPEN" =>
              Open(st2) = (Open(st) \ {l}) \cup {m} /\ ClosedLots(st2) = ClosedLots(st)
         /\ m.status = "CLOSED" =>
              Open(st2) = Open(st) \ {l} /\ ClosedLots(st2) = ClosedLots(st) \cup {m}
<1>1. l \in st.lots /\ l.status = "OPEN" /\ m.serial = l.serial
  BY DEF Replaced, Open, Same
<1>2. m \notin st.lots \ {l}
  BY <1>1 DEF Ordered
<1>3. st2.lots = (st.lots \ {l}) \cup {m}
  BY DEF Replaced
<1>4. SerialsOf(st2) = SerialsOf(st)
  <2>1. ASSUME NEW s PROVE s \in SerialsOf(st2) <=> s \in SerialsOf(st)
    <3>1. CASE s = l.serial
      BY <1>1, <1>3, <3>1 DEF SerialsOf
    <3>2. CASE s # l.serial
      BY <1>1, <1>3, <3>2 DEF SerialsOf
    <3> QED BY <3>1, <3>2
  <2> QED BY <2>1
<1>5. m.status = "OPEN" =>
        Open(st2) = (Open(st) \ {l}) \cup {m} /\ ClosedLots(st2) = ClosedLots(st)
  BY <1>1, <1>3 DEF Open, ClosedLots
<1>6. m.status = "CLOSED" =>
        Open(st2) = Open(st) \ {l} /\ ClosedLots(st2) = ClosedLots(st) \cup {m}
  BY <1>1, <1>3 DEF Open, ClosedLots
<1> QED BY <1>2, <1>4, <1>5, <1>6

\* An open lot is the newest of its coin, so that one replaced in its place
\* keeps the order and what is said of days.
LEMMA ReplacedGood ==
  ASSUME NEW st, NEW d \in Int, NEW t \in Int, NEW n \in Int, Good(st, d, t, n),
         NEW st2, NEW l, NEW m, Replaced(st, st2, l, m), Balanced(st2)
  PROVE  Good(st2, d, t, n)
<1>1. /\ l \in st.lots /\ l.status = "OPEN" /\ Same(l, m) /\ LotOk(m) /\ l \in Open(st)
      /\ Shaped(st2) /\ st2.lots = (st.lots \ {l}) \cup {m}
      /\ st2.asof = st.asof /\ st2.full = st.full
  BY DEF Replaced, Open
<1>2. Shaped(st) /\ Ordered(st) /\ Apart(st)
  BY DEF Good
<1>3. Ordered(st2)
  <2>1. ASSUME NEW k \in st2.lots, NEW o \in st2.lots, k.serial = o.serial PROVE k = o
    BY <1>1, <1>2, <2>1 DEF Ordered, Same
  <2>2. ASSUME NEW k \in st2.lots, NEW o \in st2.lots, k.coin = o.coin, k.serial < o.serial
        PROVE  k.status = "CLOSED" /\ k.exit <= o.day
    <3>1. CASE k = m
      <4>1. CASE o = m
        BY <2>2, <3>1, <4>1, <1>1, <1>2 DEF Same, Shaped, Lot, Serials
      <4>2. CASE o # m
        BY <1>1, <1>2, <2>2, <3>1, <4>2 DEF Ordered, Same
      <4> QED BY <4>1, <4>2
    <3>2. CASE k # m /\ o = m
      BY <1>1, <1>2, <2>2, <3>2 DEF Ordered, Same
    <3>3. CASE k # m /\ o # m
      BY <1>1, <1>2, <2>2, <3>3 DEF Ordered
    <3> QED BY <3>1, <3>2, <3>3
  <2> QED BY <2>1, <2>2 DEF Ordered
<1>4. Apart(st2)
  <2>1. ASSUME NEW new \in st2.lots, NEW old \in st2.lots,
               new.coin = old.coin, old.serial < new.serial, old.exit = new.day
        PROVE  /\ new.session # "REQUEST"
               /\ new.session = "REFILL" => old.reason \notin {"TAKE_PROFIT", "HARD_STOP"}
    <3>1. old # m
      <4> SUFFICES ASSUME old = m PROVE FALSE
        OBVIOUS
      <4>1. new # m
        BY <2>1, <1>1, <1>2 DEF Same, Shaped, Lot, Serials
      <4>2. new \in st.lots /\ l.coin = new.coin /\ l.serial < new.serial
        BY <1>1, <2>1, <4>1 DEF Same
      <4> QED BY <1>1, <1>2, <4>2 DEF Ordered
    <3>2. CASE new = m
      BY <1>1, <1>2, <2>1, <3>1, <3>2 DEF Apart, Same
    <3>3. CASE new # m
      BY <1>1, <1>2, <2>1, <3>1, <3>3 DEF Apart
    <3> QED BY <3>2, <3>3
  <2> QED BY <2>1 DEF Apart
<1>5. \A k \in st2.lots : LotOk(k) /\ k.serial <= n /\ k.day <= d
  BY <1>1 DEF Good, Same
<1>6. Cardinality(Open(st2)) <= TopN
  <2>1. IsFiniteSet(Open(st)) /\ Cardinality(Open(st)) <= TopN /\ Cardinality(Open(st)) \in Nat
    BY <1>2, Divided DEF Good, Lots
  <2>2. /\ IsFiniteSet(Open(st) \ {l}) /\ Cardinality(Open(st) \ {l}) = Cardinality(Open(st)) - 1
    BY <1>1, <2>1, FS_RemoveElement
  <2>3. CASE m.status = "CLOSED"
    <3>1. Open(st2) = Open(st) \ {l}
      BY <1>2, <2>3, ReplacedLots
    <3> QED BY <2>1, <2>2, <3>1, PortfolioAssumption
  <2>4. CASE m.status = "OPEN"
    <3>1. Open(st2) = (Open(st) \ {l}) \cup {m} /\ m \notin Open(st) \ {l}
      BY <1>2, <2>4, ReplacedLots DEF Open
    <3>2. Cardinality((Open(st) \ {l}) \cup {m}) = Cardinality(Open(st) \ {l}) + 1
      BY <2>2, <3>1, FS_AddElement
    <3> QED BY <2>1, <2>2, <3>1, <3>2
  <2>5. m.status \in {"OPEN", "CLOSED"}
    BY DEF Replaced, Lot
  <2> QED BY <2>3, <2>4, <2>5
<1> QED BY <1>1, <1>3, <1>4, <1>5, <1>6 DEF Good

\* A lot that was looked at keeps its money.
LEMMA KeptBalance ==
  ASSUME NEW st, NEW st2, NEW l, NEW m, Shaped(st), Ordered(st), Balanced(st),
         Replaced(st, st2, l, m), m.status = "OPEN",
         st2.cash = st.cash, st2.lifetime = st.lifetime
  PROVE  Balanced(st2)
<1>1. /\ Open(st2) = (Open(st) \ {l}) \cup {m} /\ ClosedLots(st2) = ClosedLots(st)
      /\ m \notin Open(st) \ {l} /\ l \in Open(st) /\ m \in Lot /\ m.cost = l.cost
  <2>1. /\ Open(st2) = (Open(st) \ {l}) \cup {m} /\ ClosedLots(st2) = ClosedLots(st)
        /\ m \notin st.lots \ {l}
    BY ReplacedLots
  <2>2. m \notin Open(st) \ {l}
    BY <2>1 DEF Open
  <2> QED BY <2>1, <2>2 DEF Replaced, Same
<1>2. Lots(Open(st)) /\ Shaped(st2)
  BY Divided DEF Replaced
<1>3. Lots(Open(st) \ {l}) /\ CostOf(Open(st)) = CostOf(Open(st) \ {l}) + l.cost
  BY <1>1, <1>2, SumsWithout
<1>4. CostOf((Open(st) \ {l}) \cup {m}) = CostOf(Open(st) \ {l}) + m.cost
  BY <1>1, <1>3, SumsWith
<1>5. CostOf(Open(st2)) = CostOf(Open(st))
  BY <1>1, <1>3, <1>4
<1>6. st2.lots \ Open(st2) = st.lots \ Open(st)
  BY <1>1, <1>2, Divided
<1> QED BY <1>5, <1>6 DEF Balanced

\* A sale moves the cost of a lot and its result to the cash.
LEMMA SoldBalance ==
  ASSUME NEW st, NEW st2, NEW l, NEW m, Shaped(st), Ordered(st), Balanced(st),
         Replaced(st, st2, l, m), m.status = "CLOSED",
         st2.cash = st.cash + l.cost + m.pnl, st2.lifetime = st.lifetime + m.pnl
  PROVE  Balanced(st2)
<1>1. /\ Open(st2) = Open(st) \ {l} /\ ClosedLots(st2) = ClosedLots(st) \cup {m}
      /\ m \notin ClosedLots(st) /\ l \in Open(st) /\ m \in Lot
  <2>1. /\ Open(st2) = Open(st) \ {l} /\ ClosedLots(st2) = ClosedLots(st) \cup {m}
        /\ m \notin st.lots \ {l}
    BY ReplacedLots
  <2>2. m \notin ClosedLots(st)
    BY <2>1 DEF Open, ClosedLots, Replaced
  <2> QED BY <2>1, <2>2 DEF Replaced
<1>2. /\ Lots(Open(st)) /\ Lots(ClosedLots(st)) /\ Shaped(st2)
      /\ st.lots \ Open(st) = ClosedLots(st) /\ st2.lots \ Open(st2) = ClosedLots(st2)
  BY Divided DEF Replaced
<1>3. Lots(Open(st) \ {l}) /\ CostOf(Open(st)) = CostOf(Open(st) \ {l}) + l.cost
  BY <1>1, <1>2, SumsWithout
<1>4. PnlOf(ClosedLots(st) \cup {m}) = PnlOf(ClosedLots(st)) + m.pnl
  BY <1>1, <1>2, SumsWith
<1>5. /\ CostOf(Open(st) \ {l}) \in Nat /\ PnlOf(ClosedLots(st)) \in Int
      /\ l.cost \in Nat /\ m.pnl \in Int /\ st.cash \in Int /\ st.lifetime \in Int
  BY <1>1, <1>2, <1>3, SumsOfLots DEF Lots, Lot, Shaped
<1>6. /\ st.cash + CostOf(Open(st)) = InitialCash + st.lifetime
      /\ st.lifetime = PnlOf(ClosedLots(st))
  BY <1>2 DEF Balanced
<1>7. InitialCash \in Int
  BY PortfolioAssumption
<1>8. st2.cash + CostOf(Open(st2)) = InitialCash + st2.lifetime
  BY <1>1, <1>3, <1>5, <1>6, <1>7
<1>9. st2.lifetime = PnlOf(st2.lots \ Open(st2))
  BY <1>1, <1>2, <1>4, <1>5, <1>6
<1> QED BY <1>8, <1>9 DEF Balanced

\* What an observation that does not close a lot leaves.
LEMMA KeptState ==
  ASSUME NEW st, NEW d \in Int, NEW t \in Int, NEW n \in Int, Good(st, d, t, n),
         NEW l \in Open(st), NEW m \in Lot, Same(l, m), LotOk(m), m.status = "OPEN",
         NEW st2, st2 = [st EXCEPT !.lots = (@ \ {l}) \cup {m}]
  PROVE  /\ Good(st2, d, t, n) /\ st2.asof = st.asof
         /\ SerialsOf(st2) = SerialsOf(st) /\ ClosedLots(st2) = ClosedLots(st)
<1>1. Shaped(st) /\ Ordered(st) /\ Balanced(st)
  BY DEF Good
<1>2. /\ st2.lots = (st.lots \ {l}) \cup {m} /\ st2.cash = st.cash
      /\ st2.lifetime = st.lifetime /\ st2.asof = st.asof /\ st2.full = st.full
      /\ st2.today = st.today /\ st2.slot = st.slot
      /\ st2 = [lots |-> st2.lots, cash |-> st2.cash, today |-> st2.today,
                lifetime |-> st2.lifetime, asof |-> st2.asof, full |-> st2.full,
                date |-> st2.date, slot |-> st2.slot, slotDay |-> st2.slotDay]
  BY <1>1 DEF Shaped
<1>3. Shaped(st2)
  <2>1. IsFiniteSet(st2.lots)
    <3>1. IsFiniteSet(st.lots)
      BY <1>1 DEF Shaped
    <3>2. IsFiniteSet(st.lots \ {l})
      BY <3>1, FS_Subset
    <3>3. IsFiniteSet((st.lots \ {l}) \cup {m})
      BY <3>2, FS_AddElement
    <3> QED BY <1>2, <3>3
  <2>2. st2.lots \subseteq Lot
    BY <1>1, <1>2 DEF Shaped
  <2> QED BY <1>1, <1>2, <2>1, <2>2 DEF Shaped
<1>4. Replaced(st, st2, l, m)
  BY <1>2, <1>3 DEF Replaced
<1>5. Balanced(st2)
  <2>1. st2.cash = st.cash /\ st2.lifetime = st.lifetime /\ m.status = "OPEN"
    BY <1>2
  <2> HIDE <1>2
  <2> QED BY <1>1, <1>4, <2>1, KeptBalance
<1>6. Good(st2, d, t, n)
  BY <1>4, <1>5, ReplacedGood
<1>7. SerialsOf(st2) = SerialsOf(st) /\ ClosedLots(st2) = ClosedLots(st)
  BY <1>1, <1>4, ReplacedLots
<1> QED BY <1>2, <1>6, <1>7

\* What a sale leaves; no sale costs more than the lot did.
LEMMA SoldState ==
  ASSUME NEW st, NEW d \in Int, NEW t \in Int, NEW n \in Int, Good(st, d, t, n),
         NEW l \in Open(st), NEW m \in Lot, Same(l, m), LotOk(m), m.status = "CLOSED",
         l.cost + m.pnl >= 0, NEW st2, st2 = AfterClose(st, l, m)
  PROVE  /\ Good(st2, d, t, n) /\ st2.asof = st.asof
         /\ SerialsOf(st2) = SerialsOf(st) /\ ClosedLots(st2) = ClosedLots(st) \cup {m}
<1>1. Shaped(st) /\ Ordered(st) /\ Balanced(st)
  BY DEF Good
<1>2. /\ st2.lots = (st.lots \ {l}) \cup {m} /\ st2.cash = st.cash + l.cost + m.pnl
      /\ st2.lifetime = st.lifetime + m.pnl /\ st2.asof = st.asof /\ st2.full = st.full
      /\ st2.today = st.today + m.pnl /\ st2.slot = st.slot
      /\ st2 = [lots |-> st2.lots, cash |-> st2.cash, today |-> st2.today,
                lifetime |-> st2.lifetime, asof |-> st2.asof, full |-> st2.full,
                date |-> st2.date, slot |-> st2.slot, slotDay |-> st2.slotDay]
  BY <1>1 DEF Shaped, AfterClose
<1>3. Shaped(st2)
  <2>1. IsFiniteSet(st2.lots)
    <3>1. IsFiniteSet(st.lots)
      BY <1>1 DEF Shaped
    <3>2. IsFiniteSet(st.lots \ {l})
      BY <3>1, FS_Subset
    <3>3. IsFiniteSet((st.lots \ {l}) \cup {m})
      BY <3>2, FS_AddElement
    <3> QED BY <1>2, <3>3
  <2>2. st2.lots \subseteq Lot
    BY <1>1, <1>2 DEF Shaped
  <2>3. l \in Lot
    BY <1>1 DEF Shaped, Open
  <2>4. l.cost \in Int /\ m.pnl \in Int
    BY <2>3 DEF Lot
  <2> QED BY <1>1, <1>2, <2>1, <2>2, <2>4 DEF Shaped
<1>4. Replaced(st, st2, l, m)
  BY <1>2, <1>3 DEF Replaced
<1>5. Balanced(st2)
  BY <1>1, <1>2, <1>4, SoldBalance
<1>6. Good(st2, d, t, n)
  BY <1>4, <1>5, ReplacedGood
<1>7. SerialsOf(st2) = SerialsOf(st) /\ ClosedLots(st2) = ClosedLots(st) \cup {m}
  BY <1>1, <1>4, ReplacedLots
<1> QED BY <1>2, <1>6, <1>7

\* A lot that may be bought: a new one, of a coin that is not held, that is
\* paid for, and allowed to follow the lots of its coin.
Allowed(st, lot, d, n) ==
  /\ lot \in Lot /\ lot.serial = n + 1 /\ lot.status = "OPEN" /\ LotOk(lot) /\ lot.day = d
  /\ lot.cost <= st.cash /\ lot.coin \notin OpenCoins(st)
  /\ \A k \in ClosedLots(st) : k.coin = lot.coin =>
       /\ k.exit <= d
       /\ k.exit = d => /\ lot.session # "REQUEST"
                        /\ lot.session = "REFILL" => k.reason \notin {"TAKE_PROFIT", "HARD_STOP"}

LEMMA BoughtState ==
  ASSUME NEW st, NEW d \in Int, NEW t \in Int, NEW n \in Int, Good(st, d, t, n),
         NEW lot, Allowed(st, lot, d, n), Cardinality(Open(st)) < TopN,
         NEW st2, st2 = AfterBuy(st, lot)
  PROVE  /\ Good(st2, d, t, n + 1) /\ st2.asof = st.asof
         /\ SerialsOf(st2) = SerialsOf(st) \cup {n + 1} /\ ClosedLots(st2) = ClosedLots(st)
         /\ Cardinality(Open(st2)) = Cardinality(Open(st)) + 1
<1>1. Shaped(st) /\ Ordered(st) /\ Balanced(st) /\ Apart(st)
  BY DEF Good
<1>2. /\ st2.lots = st.lots \cup {lot} /\ st2.cash = st.cash - lot.cost
      /\ st2.lifetime = st.lifetime /\ st2.asof = st.asof /\ st2.full = st.full
      /\ st2.today = st.today /\ st2.slot = st.slot
      /\ st2 = [lots |-> st2.lots, cash |-> st2.cash, today |-> st2.today,
                lifetime |-> st2.lifetime, asof |-> st2.asof, full |-> st2.full,
                date |-> st2.date, slot |-> st2.slot, slotDay |-> st2.slotDay]
  BY <1>1 DEF Shaped, AfterBuy
<1>3. /\ lot \in Lot /\ lot.serial = n + 1 /\ lot.status = "OPEN" /\ LotOk(lot)
      /\ lot.day = d /\ lot.cost <= st.cash /\ lot.cost \in Nat
  BY DEF Allowed, Lot
<1>4. \A k \in st.lots : /\ k.serial \in Int /\ k.serial <= n /\ k.day \in Int /\ k.day <= d
                         /\ k.status \in {"OPEN", "CLOSED"}
  BY DEF Good, Shaped, Lot, Serials
<1>5. lot \notin st.lots /\ \A k \in st.lots : k.serial < lot.serial
  BY <1>3, <1>4
<1>6. Shaped(st2)
  <2>1. IsFiniteSet(st2.lots) /\ st2.lots \subseteq Lot
    BY <1>1, <1>2, <1>3, FS_AddElement DEF Shaped
  <2>2. st2.cash \in Nat
    BY <1>1, <1>2, <1>3 DEF Shaped
  <2> QED BY <1>1, <1>2, <2>1, <2>2 DEF Shaped
<1>7. Open(st2) = Open(st) \cup {lot} /\ ClosedLots(st2) = ClosedLots(st) /\ lot \notin Open(st)
  BY <1>2, <1>3, <1>5 DEF Open, ClosedLots
<1>8. \A k \in st.lots : k.coin = lot.coin => k \in ClosedLots(st)
  BY <1>4 DEF Allowed, OpenCoins, Open, ClosedLots
<1>9. Ordered(st2)
  <2>1. ASSUME NEW k \in st2.lots, NEW o \in st2.lots, k.serial = o.serial PROVE k = o
    BY <1>1, <1>2, <1>4, <1>5, <2>1 DEF Ordered
  <2>2. ASSUME NEW k \in st2.lots, NEW o \in st2.lots, k.coin = o.coin, k.serial < o.serial
        PROVE  k.status = "CLOSED" /\ k.exit <= o.day
    <3>1. k \in st.lots
      BY <1>2, <1>3, <1>4, <1>5, <2>2
    <3>2. CASE o = lot
      BY <1>3, <1>8, <2>2, <3>1, <3>2 DEF Allowed, ClosedLots
    <3>3. CASE o # lot
      BY <1>1, <1>2, <2>2, <3>1, <3>3 DEF Ordered
    <3> QED BY <3>2, <3>3
  <2> QED BY <2>1, <2>2 DEF Ordered
<1>10. Apart(st2)
  <2>1. ASSUME NEW new \in st2.lots, NEW old \in st2.lots,
               new.coin = old.coin, old.serial < new.serial, old.exit = new.day
        PROVE  /\ new.session # "REQUEST"
               /\ new.session = "REFILL" => old.reason \notin {"TAKE_PROFIT", "HARD_STOP"}
    <3>1. old \in st.lots
      BY <1>2, <1>3, <1>4, <1>5, <2>1
    <3>2. CASE new = lot
      <4>1. old \in ClosedLots(st) /\ old.exit = d /\ old.coin = lot.coin
        BY <1>3, <1>8, <2>1, <3>1, <3>2
      <4> QED BY <3>2, <4>1 DEF Allowed
    <3>3. CASE new # lot
      BY <1>1, <1>2, <2>1, <3>1, <3>3 DEF Apart
    <3> QED BY <3>2, <3>3
  <2> QED BY <2>1 DEF Apart
<1>11. /\ Lots(Open(st)) /\ st.lots \ Open(st) = ClosedLots(st)
       /\ st2.lots \ Open(st2) = ClosedLots(st2)
  BY <1>1, <1>6, Divided
<1>12. Balanced(st2)
  <2>1. CostOf(Open(st) \cup {lot}) = CostOf(Open(st)) + lot.cost /\ CostOf(Open(st)) \in Nat
    BY <1>3, <1>7, <1>11, SumsWith, SumsOfLots
  <2>2. st2.cash + CostOf(Open(st2)) = st.cash + CostOf(Open(st))
    <3>1. st.cash \in Int
      BY <1>1 DEF Shaped
    <3> QED BY <1>2, <1>3, <1>7, <2>1, <3>1
  <2> QED BY <1>1, <1>2, <1>7, <1>11, <2>2 DEF Balanced
<1>13. Cardinality(Open(st2)) = Cardinality(Open(st)) + 1 /\ Cardinality(Open(st)) \in Nat
  BY <1>7, <1>11, FS_AddElement, FS_CardinalityType DEF Lots
<1>14. SerialsOf(st2) = SerialsOf(st) \cup {n + 1}
  BY <1>2, <1>3 DEF SerialsOf
<1>15. \A k \in st2.lots : LotOk(k) /\ k.serial <= n + 1 /\ k.day <= d
  BY <1>2, <1>3, <1>4 DEF Good
<1>16. Cardinality(Open(st2)) <= TopN
  BY <1>13, PortfolioAssumption
<1>17. Good(st2, d, t, n + 1)
  BY <1>2, <1>6, <1>9, <1>10, <1>12, <1>15, <1>16 DEF Good
<1> QED BY <1>2, <1>7, <1>13, <1>14, <1>17

-----------------------------------------------------------------------------
(* The steps                                                               *)

\* A lot after its sale.
LEMMA ClosedLot ==
  ASSUME NEW l \in Lot, LotOk(l), NEW r \in Returns, NEW why \in Reasons, NEW t \in Nat,
         l.day <= Day(t), NEW m, m = Closed(l, r, why, t)
  PROVE  /\ m \in Lot /\ Same(l, m) /\ LotOk(m) /\ m.status = "CLOSED" /\ m.reason = why
         /\ l.cost + m.pnl >= 0 /\ m.exit = Day(t)
<1> DEFINE worth == (l.cost * (100 + r)) \div 100
<1>1. r \in Int /\ r >= -100 /\ l.cost \in Nat
  BY PortfolioAssumption DEF Lot
<1>2. l.cost * (100 + r) \in Nat
  <2>1. 100 + r \in Nat
    BY <1>1
  <2> QED BY <1>1, <2>1
<1>3. worth \in Nat
  <2> DEFINE a == l.cost * (100 + r)
  <2>1. a \in Nat
    BY <1>2
  <2> HIDE DEF a
  <2>2. a \div 100 \in Nat
    BY <2>1
  <2> QED BY <2>2 DEF a
<1>4. Day(t) \in Nat
  BY DayGrows
<1>5. m = [serial |-> l.serial, coin |-> l.coin, session |-> l.session, day |-> l.day,
           cost |-> l.cost, peak |-> 0, weak |-> 0, since |-> -1,
           seen |-> IF why = "VPD_SIGNAL_DECAY" THEN l.seen ELSE {},
           status |-> "CLOSED", reason |-> why, exit |-> Day(t), pnl |-> worth - l.cost]
  BY DEF Closed, Lot
<1> HIDE DEF worth
<1>6. /\ m.serial = l.serial /\ m.coin = l.coin /\ m.session = l.session /\ m.day = l.day
      /\ m.cost = l.cost /\ m.status = "CLOSED" /\ m.reason = why /\ m.exit = Day(t)
      /\ m.pnl = worth - l.cost
  BY <1>5
<1>7. m \in Lot
  BY <1>1, <1>3, <1>4, <1>5 DEF Lot
<1> QED BY <1>1, <1>3, <1>4, <1>6, <1>7 DEF Same, LotOk

\* What the running process has.
LEMMA Running ==
  ASSUME IInv, run # None
  PROVE  /\ run \in Run /\ MemInv /\ RunInv /\ DiskInv /\ LedgerInv /\ Clocks
         /\ Good(mem, run.day, now, serial) /\ Shaped(mem) /\ Ordered(mem)
         /\ run.day \in Nat /\ run.asof \in Nat /\ now \in Nat /\ serial \in Nat
         /\ Day(now) \in Nat /\ run.day <= Day(now) /\ run.asof <= now
         /\ run = [mode |-> run.mode, asof |-> run.asof, day |-> run.day, step |-> run.step,
                   todo |-> run.todo, exited |-> run.exited, slot |-> run.slot,
                   left |-> run.left]
<1>1. run \in Run /\ MemInv /\ RunInv /\ DiskInv /\ LedgerInv /\ Clocks
  BY DEF IInv
<1>2. Good(mem, run.day, now, serial) /\ Shaped(mem) /\ Ordered(mem)
  BY <1>1 DEF MemInv, Good
<1>3. now \in Nat /\ serial \in Nat
  BY <1>1, PortfolioAssumption DEF Clocks
<1>4. run.day \in Nat /\ run.asof \in Nat /\ run.asof <= now /\ run.day = Day(run.asof)
  BY <1>1, PortfolioAssumption DEF Run, RunInv
<1>5. Day(now) \in Nat /\ run.day <= Day(now)
  BY <1>3, <1>4, DayGrows
<1>6. run = [mode |-> run.mode, asof |-> run.asof, day |-> run.day, step |-> run.step,
             todo |-> run.todo, exited |-> run.exited, slot |-> run.slot, left |-> run.left]
  BY <1>1 DEF Run
<1> QED BY <1>1, <1>2, <1>3, <1>4, <1>5, <1>6

\* A sale of l, counted as w: its line is for a lot the disk has not closed, and
\* its coin is not bought again by this run.
Sale(l, w, r, why) ==
  LET closed == Closed(w, r, why, now) IN
  /\ LogSell(closed)
  /\ mem' = AfterClose(mem, l, closed)
  /\ run' = [run EXCEPT !.todo = @ \ {l.coin}, !.exited = @ \cup {l.coin}, !.step = "save"]
  /\ UNCHANGED <<now, disk, serial, crashes>>

LEMMA SaleKeeps ==
  ASSUME IInv, run # None, run.step = "assess", NEW l \in Open(mem), NEW r \in Returns,
         NEW why \in Reasons, NEW w \in Lot, Same(l, w), LotOk(w), w.status = "OPEN",
         Sale(l, w, r, why)
  PROVE  IInv'
<1> DEFINE m == Closed(w, r, why, now)
<1>1. /\ run \in Run /\ MemInv /\ RunInv /\ DiskInv /\ LedgerInv /\ Clocks
      /\ Good(mem, run.day, now, serial) /\ Shaped(mem) /\ Ordered(mem)
      /\ run.day \in Nat /\ run.asof \in Nat /\ now \in Nat /\ serial \in Nat
      /\ Day(now) \in Nat /\ run.day <= Day(now)
      /\ run = [mode |-> run.mode, asof |-> run.asof, day |-> run.day, step |-> run.step,
                todo |-> run.todo, exited |-> run.exited, slot |-> run.slot,
                left |-> run.left]
  BY Running
<1>2. l \in mem.lots /\ l \in Lot /\ l.status = "OPEN" /\ l.day <= run.day /\ l.coin \in Coins
  BY <1>1 DEF Open, Shaped, Good, Lot
<1>3. /\ m \in Lot /\ Same(w, m) /\ LotOk(m) /\ m.status = "CLOSED" /\ m.exit = Day(now)
      /\ w.cost + m.pnl >= 0
  <2>1. w.day <= Day(now)
    BY <1>1, <1>2 DEF Same, Lot
  <2> QED BY <1>1, <2>1, ClosedLot
<1>4. /\ ledger' = [ledger EXCEPT !.sells = [@ EXCEPT ![m.serial] = m.pnl]]
      /\ mem' = AfterClose(mem, l, m)
      /\ run' = [run EXCEPT !.todo = @ \ {l.coin}, !.exited = @ \cup {l.coin}, !.step = "save"]
      /\ UNCHANGED <<now, disk, serial, crashes>>
  BY DEF Sale, LogSell
<1> HIDE DEF m
<1>5. Same(l, m) /\ l.cost + m.pnl >= 0 /\ m.serial = l.serial /\ m.coin = l.coin
      /\ m.serial \in Serials /\ m.pnl \in Int
  BY <1>3 DEF Same, Lot
<1>6. /\ Good(mem', run.day, now, serial) /\ mem'.asof = mem.asof
      /\ SerialsOf(mem') = SerialsOf(mem) /\ ClosedLots(mem') = ClosedLots(mem) \cup {m}
  BY <1>1, <1>3, <1>4, <1>5, SoldState
<1>7. /\ ledger'.buys = ledger.buys /\ ledger'.sells \in [Serials -> Int \cup {None}]
      /\ ledger' = [buys |-> ledger'.buys, sells |-> ledger'.sells]
      /\ ledger'.sells[l.serial] = m.pnl
      /\ \A s \in Serials : s # l.serial => ledger'.sells[s] = ledger.sells[s]
  BY <1>1, <1>4, <1>5 DEF LedgerInv
<1>8. /\ run' \in Run /\ run'.day = run.day /\ run'.asof = run.asof /\ run'.mode = run.mode
      /\ run'.step = "save" /\ run'.exited = run.exited \cup {l.coin}
  BY <1>1, <1>2, <1>4 DEF Run
<1>9. \A k \in mem.lots : k.serial \in Serials /\ (k.serial = l.serial => k = l)
  BY <1>1, <1>2 DEF Ordered, Shaped, Lot
<1>10. /\ ClosedLots(disk) \subseteq mem.lots /\ SerialsOf(mem) = SerialsOf(disk)
       /\ Logged(mem, ledger) /\ Logged(disk, ledger) /\ Known(disk, ledger)
  BY <1>1 DEF MemInv, DiskInv
<1>11. /\ \A k \in ClosedLots(disk) : k \in mem.lots /\ k.serial # l.serial /\ k # l
       /\ \A k \in ClosedLots(mem) : k \in mem.lots /\ k.serial # l.serial
  BY <1>2, <1>9, <1>10 DEF ClosedLots
<1>12. LedgerInv'
  BY <1>1, <1>7 DEF LedgerInv
<1>13. DiskInv'
  <2>1. Logged(disk, ledger')
    BY <1>7, <1>9, <1>10, <1>11 DEF Logged
  <2>2. Known(disk, ledger')
    BY <1>2, <1>7, <1>10 DEF Known, SerialsOf
  <2> QED BY <1>1, <1>4, <2>1, <2>2 DEF DiskInv, Day
<1>14. MemInv'
  <2>1. Logged(mem', ledger')
    BY <1>5, <1>6, <1>7, <1>9, <1>10, <1>11 DEF Logged
  <2>2. \A k \in ClosedLots(mem') :
          k.exit <= run.day \/ (k.exit <= Day(now) /\ k.coin \in run'.exited)
    BY <1>1, <1>3, <1>5, <1>6, <1>8 DEF MemInv
  <2>3. ClosedLots(disk) \subseteq mem'.lots
    BY <1>1, <1>4, <1>11 DEF AfterClose, Shaped
  <2>4. Day(now') = Day(now)
    BY <1>4 DEF Day
  <2> QED BY <1>4, <1>6, <1>8, <1>10, <2>1, <2>2, <2>3, <2>4 DEF MemInv
<1>15. RunInv'
  BY <1>1, <1>4, <1>6, <1>8 DEF RunInv, Day
<1>16. Clocks'
  BY <1>1, <1>4 DEF Clocks
<1>17. run' # None
  BY <1>8, PortfolioAssumption
<1> QED BY <1>8, <1>12, <1>13, <1>14, <1>15, <1>16, <1>17 DEF IInv

\* An observation that does not sell.
LEMMA KeepKeeps ==
  ASSUME IInv, run # None, run.step = "assess", NEW l \in Open(mem), NEW kept \in Lot,
         Same(l, kept), LotOk(kept), kept.status = "OPEN", Keep(l, kept)
  PROVE  IInv'
<1>1. /\ run \in Run /\ MemInv /\ RunInv /\ DiskInv /\ LedgerInv /\ Clocks
      /\ Good(mem, run.day, now, serial) /\ Shaped(mem) /\ Ordered(mem)
      /\ run.day \in Nat /\ now \in Nat /\ serial \in Nat
      /\ run = [mode |-> run.mode, asof |-> run.asof, day |-> run.day, step |-> run.step,
                todo |-> run.todo, exited |-> run.exited, slot |-> run.slot,
                left |-> run.left]
  BY Running
<1>2. /\ mem' = [mem EXCEPT !.lots = (@ \ {l}) \cup {kept}]
      /\ run' = [run EXCEPT !.todo = @ \ {l.coin}]
      /\ UNCHANGED <<now, disk, ledger, serial, crashes>>
  BY DEF Keep
<1>3. /\ Good(mem', run.day, now, serial) /\ mem'.asof = mem.asof
      /\ SerialsOf(mem') = SerialsOf(mem) /\ ClosedLots(mem') = ClosedLots(mem)
  BY <1>1, <1>2, KeptState
<1>4. /\ run' \in Run /\ run'.day = run.day /\ run'.asof = run.asof /\ run'.mode = run.mode
      /\ run'.step = "assess" /\ run'.exited = run.exited
  BY <1>1, <1>2 DEF Run
<1>5. ClosedLots(disk) \subseteq ClosedLots(mem) /\ ClosedLots(mem') \subseteq mem'.lots
  BY <1>1 DEF MemInv, ClosedLots
<1>6. MemInv'
  <2>1. Logged(mem', ledger')
    BY <1>1, <1>2, <1>3 DEF MemInv, Logged
  <2>2. \A k \in ClosedLots(mem') :
          k.exit <= run.day \/ (k.exit <= Day(now) /\ k.coin \in run'.exited)
    BY <1>1, <1>3, <1>4 DEF MemInv
  <2>3. ClosedLots(disk) \subseteq mem'.lots /\ SerialsOf(mem') = SerialsOf(disk)
    BY <1>1, <1>3, <1>5 DEF MemInv
  <2>4. Day(now') = Day(now)
    BY <1>2 DEF Day
  <2> QED BY <1>2, <1>3, <1>4, <2>1, <2>2, <2>3, <2>4 DEF MemInv
<1>7. DiskInv' /\ LedgerInv' /\ Clocks'
  BY <1>1, <1>2 DEF DiskInv, LedgerInv, Clocks, Day
<1>8. RunInv'
  BY <1>1, <1>2, <1>3, <1>4 DEF RunInv, Day
<1>9. run' # None
  BY <1>4, PortfolioAssumption
<1> QED BY <1>4, <1>6, <1>7, <1>8, <1>9 DEF IInv

\* A run that ends without saving leaves only lines of the ledger, and those
\* the disk may bear.
LEMMA QuitKeeps ==
  ASSUME IInv, Quit, UNCHANGED <<now, disk, ledger, serial>>, crashes' \in 0..MaxCrashes
  PROVE  IInv'
<1>1. DiskInv' /\ LedgerInv' /\ Clocks'
  BY DEF IInv, DiskInv, LedgerInv, Clocks, Day
<1> QED BY <1>1 DEF IInv, Quit

LEMMA InitIInv == Init => IInv
<1> SUFFICES ASSUME Init PROVE IInv
  OBVIOUS
<1>1. Lots({}) /\ CostOf({}) = 0 /\ PnlOf({}) = 0
  BY FS_EmptySet, SumEmpty DEF Lots, CostOf, PnlOf
<1>2. Open(disk) = {} /\ ClosedLots(disk) = {} /\ disk.lots = {} /\ SerialsOf(disk) = {}
  BY DEF Init, Empty, Open, ClosedLots, SerialsOf
<1>3. Balanced(disk)
  BY <1>1, <1>2, PortfolioAssumption DEF Init, Empty, Balanced
<1>4. Shaped(disk)
  BY <1>1, PortfolioAssumption DEF Init, Empty, Shaped, Lots
<1>5. Cardinality(Open(disk)) = 0
  BY <1>2, FS_EmptySet
<1>6. Good(disk, Day(now), now, serial)
  BY <1>2, <1>3, <1>4, <1>5, PortfolioAssumption DEF Good, Ordered, Apart, Init, Empty
<1>7. DiskInv
  BY <1>2, <1>6 DEF DiskInv, Logged, Known, Init
<1>8. LedgerInv /\ Clocks
  BY PortfolioAssumption DEF Init, LedgerInv, Clocks
<1> QED BY <1>7, <1>8 DEF IInv, Init

\* The clock turns at most once under a running process.
LEMMA TickKeeps == IInv /\ Tick => IInv'
<1> SUFFICES ASSUME IInv, Tick PROVE IInv'
  OBVIOUS
<1>1. now \in Nat /\ serial \in Nat /\ now' = now + 1 /\ now < Horizon /\ Clocks /\ DiskInv
  BY PortfolioAssumption DEF IInv, Clocks, Tick
<1>2. Day(now) \in Nat /\ Day(now') \in Nat /\ Day(now) <= Day(now')
  BY <1>1, DayGrows
<1>3. UNCHANGED <<disk, ledger, mem, run, serial, crashes>>
  BY DEF Tick
<1>4. Clocks' /\ LedgerInv'
  BY <1>1, <1>3, PortfolioAssumption DEF IInv, Clocks, LedgerInv
<1>5. DiskInv'
  <2>1. Good(disk, Day(now'), now', serial)
    BY <1>1, <1>2, Later DEF DiskInv
  <2>2. \A l \in ClosedLots(disk) : l.exit \in Nat
    BY <1>1 DEF ClosedLots, DiskInv, Good, Shaped, Lot
  <2> QED BY <1>1, <1>2, <1>3, <2>1, <2>2 DEF DiskInv
<1>6. ASSUME run # None PROVE MemInv' /\ RunInv'
  <2>1. /\ run \in Run /\ MemInv /\ RunInv /\ run.day \in Nat /\ run.asof \in Nat
        /\ Good(mem, run.day, now, serial) /\ Shaped(mem)
    BY <1>6, Running
  <2>2. Good(mem, run.day, now', serial)
    BY <1>1, <2>1, Later
  <2>3. \A l \in ClosedLots(mem) : l.exit \in Nat
    BY <2>1 DEF ClosedLots, Shaped, Lot
  <2>4. MemInv'
    BY <1>1, <1>2, <1>3, <2>1, <2>2, <2>3 DEF MemInv
  <2>5. now = run.asof
    BY <1>6 DEF Tick
  <2>6. RunInv'
    BY <1>1, <1>3, <2>1, <2>5 DEF RunInv, Day
  <2> QED BY <2>4, <2>6
<1> QED BY <1>3, <1>4, <1>5, <1>6 DEF IInv

\* A process starts from the disk.
LEMMA BeginKeeps ==
  ASSUME IInv, NEW mode \in {"monitor", "morning", "refill", "rebuild"}, Begin(mode)
  PROVE  IInv'
<1>1. now \in Nat /\ now \in 0..Horizon /\ Day(now) \in Nat /\ DiskInv
  BY DayGrows, PortfolioAssumption DEF IInv, Clocks
<1>2. /\ mem' = disk /\ UNCHANGED <<now, disk, ledger, serial, crashes>>
      /\ run' = [mode |-> mode, asof |-> now, day |-> Day(now),
                 step |-> IF mode = "monitor" THEN "assess" ELSE "check",
                 todo |-> OpenCoins(disk), exited |-> {}, slot |-> 0, left |-> 0]
  BY DEF Begin
<1>3. OpenCoins(disk) \subseteq Coins
  BY <1>1 DEF DiskInv, Good, Shaped, Lot, OpenCoins, Open
<1>4. run' \in Run /\ run' # None
  BY <1>1, <1>2, <1>3, PortfolioAssumption DEF Run
<1>5. /\ run'.day = Day(now) /\ run'.asof = now /\ run'.mode = mode /\ run'.exited = {}
      /\ run'.step = IF mode = "monitor" THEN "assess" ELSE "check"
  BY <1>2
<1>6. DiskInv' /\ LedgerInv' /\ Clocks'
  BY <1>2 DEF IInv, DiskInv, LedgerInv, Clocks, Day
<1>7. MemInv'
  <2>1. Good(mem', run'.day, now', serial') /\ Logged(mem', ledger')
    BY <1>1, <1>2, <1>5 DEF DiskInv
  <2>2. \A l \in ClosedLots(mem') : l.exit <= run'.day
    BY <1>1, <1>2, <1>5 DEF DiskInv
  <2>3. ClosedLots(disk) \subseteq disk.lots
    BY DEF ClosedLots
  <2> QED BY <1>2, <2>1, <2>2, <2>3 DEF MemInv
<1>8. RunInv'
  BY <1>1, <1>2, <1>5 DEF RunInv, Day
<1> QED BY <1>4, <1>6, <1>7, <1>8 DEF IInv

\* The state is saved after a sale.
LEMMA SaveKeeps == IInv /\ SaveAfterSale => IInv'
<1> SUFFICES ASSUME IInv, SaveAfterSale PROVE IInv'
  OBVIOUS
<1>1. /\ run # None /\ run.step = "save" /\ disk' = mem /\ run' = [run EXCEPT !.step = "assess"]
      /\ UNCHANGED <<now, ledger, mem, serial, crashes>>
  BY DEF SaveAfterSale
<1>2. /\ run \in Run /\ MemInv /\ RunInv /\ DiskInv /\ LedgerInv /\ Clocks
      /\ Good(mem, run.day, now, serial) /\ Shaped(mem)
      /\ run.day \in Nat /\ now \in Nat /\ serial \in Nat
      /\ Day(now) \in Nat /\ run.day <= Day(now)
      /\ run = [mode |-> run.mode, asof |-> run.asof, day |-> run.day, step |-> run.step,
                todo |-> run.todo, exited |-> run.exited, slot |-> run.slot,
                left |-> run.left]
  BY <1>1, Running
<1>3. /\ run' \in Run /\ run'.day = run.day /\ run'.asof = run.asof /\ run'.mode = run.mode
      /\ run'.step = "assess" /\ run'.exited = run.exited
  BY <1>1, <1>2 DEF Run
<1>4. SerialsOf(mem) = SerialsOf(disk) /\ Logged(mem, ledger) /\ Known(disk, ledger)
  BY <1>1, <1>2 DEF MemInv, DiskInv
<1>5. DiskInv'
  <2>1. Good(mem, Day(now), now, serial)
    BY <1>2, Later
  <2>2. Known(mem, ledger)
    BY <1>4 DEF Known
  <2>3. \A l \in ClosedLots(mem) : l.exit \in Nat
    BY <1>2 DEF ClosedLots, Shaped, Lot
  <2>4. \A l \in ClosedLots(mem) : l.exit <= Day(now)
    BY <1>2, <2>3 DEF MemInv
  <2> QED BY <1>1, <1>4, <2>1, <2>2, <2>4 DEF DiskInv, Day
<1>6. MemInv'
  <2>1. ClosedLots(mem) \subseteq mem.lots
    BY DEF ClosedLots
  <2> QED BY <1>1, <1>2, <1>3, <2>1 DEF MemInv, Day
<1>7. RunInv'
  BY <1>1, <1>2, <1>3 DEF RunInv, Day
<1>8. LedgerInv' /\ Clocks'
  BY <1>1, <1>2 DEF LedgerInv, Clocks
<1>9. run' # None
  BY <1>3, PortfolioAssumption
<1> QED BY <1>3, <1>5, <1>6, <1>7, <1>8, <1>9 DEF IInv

\* Of a state with the same lots and money, whatever is stamped on it.
LEMMA Restamped ==
  ASSUME NEW st, NEW d \in Int, NEW t \in Int, NEW n \in Int, Good(st, d, t, n),
         NEW st2, Shaped(st2), st2.lots = st.lots, st2.cash = st.cash,
         st2.lifetime = st.lifetime, st2.asof \in -1..t, st2.full \in -1..st2.asof
  PROVE  /\ Good(st2, d, t, n) /\ Open(st2) = Open(st)
         /\ ClosedLots(st2) = ClosedLots(st) /\ SerialsOf(st2) = SerialsOf(st)
<1>1. /\ Open(st2) = Open(st) /\ ClosedLots(st2) = ClosedLots(st)
      /\ SerialsOf(st2) = SerialsOf(st)
  BY DEF Open, ClosedLots, SerialsOf
<1>2. Balanced(st2) /\ Ordered(st2) /\ Apart(st2)
  BY <1>1 DEF Good, Balanced, Ordered, Apart
<1> QED BY <1>1, <1>2 DEF Good

\* A run that saves what it holds, and ends.
LEMMA SavedKeeps ==
  ASSUME IInv, NEW st, Good(st, Day(now), now, serial), Logged(st, ledger),
         SerialsOf(disk) \subseteq SerialsOf(st), \A l \in ClosedLots(st) : l.exit <= Day(now),
         SaveAndQuit(st), UNCHANGED <<now, ledger, serial, crashes>>
  PROVE  IInv'
<1>1. disk' = st /\ mem' = None /\ run' = None
  BY DEF SaveAndQuit, Quit
<1>2. Known(st, ledger)
  BY DEF IInv, DiskInv, Known
<1>3. DiskInv'
  BY <1>1, <1>2 DEF DiskInv, Day
<1>4. LedgerInv' /\ Clocks'
  BY DEF IInv, LedgerInv, Clocks
<1> QED BY <1>1, <1>3, <1>4 DEF IInv

\* What the process holds may be saved.
LEMMA MemorySaved ==
  ASSUME IInv, run # None
  PROVE  /\ Good(mem, Day(now), now, serial) /\ Logged(mem, ledger)
         /\ SerialsOf(disk) \subseteq SerialsOf(mem)
         /\ \A l \in ClosedLots(mem) : l.exit <= Day(now)
<1>1. /\ MemInv /\ Good(mem, run.day, now, serial) /\ Shaped(mem)
      /\ run.day \in Nat /\ now \in Nat /\ serial \in Nat
      /\ Day(now) \in Nat /\ run.day <= Day(now)
  BY Running
<1>2. Good(mem, Day(now), now, serial)
  BY <1>1, Later
<1>3. \A l \in ClosedLots(mem) : l.exit \in Nat
  BY <1>1 DEF ClosedLots, Shaped, Lot
<1> QED BY <1>1, <1>2, <1>3 DEF MemInv

\* A purchase: its line is in the ledger, and no sale follows before the state
\* is saved.
LEMMA BuyKeeps ==
  ASSUME IInv, run # None, run.step = "buy", NEW lot, Allowed(mem, lot, run.day, serial),
         Cardinality(Open(mem)) < TopN, serial < MaxSerial, LogBuy(lot),
         mem' = AfterBuy(mem, lot), serial' = serial + 1, UNCHANGED <<now, disk, crashes>>,
         run' \in Run, run'.day = run.day, run'.exited = run.exited, run'.step = "buy", RunInv'
  PROVE  IInv'
<1>1. /\ MemInv /\ DiskInv /\ LedgerInv /\ Clocks
      /\ Good(mem, run.day, now, serial) /\ Shaped(mem)
      /\ run.day \in Nat /\ now \in Nat /\ serial \in Nat /\ Day(now) \in Nat
  BY Running
<1>2. /\ Good(mem', run.day, now, serial + 1)
      /\ SerialsOf(mem') = SerialsOf(mem) \cup {serial + 1}
      /\ ClosedLots(mem') = ClosedLots(mem)
  BY <1>1, BoughtState
<1>3. lot.serial = serial + 1 /\ lot.serial \in Serials
  BY DEF Allowed, Lot
<1>4. /\ ledger' = [ledger EXCEPT !.buys = @ \cup {lot.serial}]
      /\ ledger'.buys = ledger.buys \cup {serial + 1} /\ ledger'.sells = ledger.sells
  BY <1>1, <1>3 DEF LogBuy, LedgerInv
<1>5. LedgerInv'
  BY <1>1, <1>3, <1>4 DEF LedgerInv
<1>6. Clocks'
  BY <1>1, PortfolioAssumption DEF Clocks
<1>7. DiskInv'
  <2>1. Good(disk, Day(now), now, serial + 1)
    BY <1>1, Later DEF DiskInv
  <2>2. Logged(disk, ledger') /\ Known(disk, ledger')
    BY <1>1, <1>4 DEF DiskInv, Logged, Known
  <2> QED BY <1>1, <2>1, <2>2 DEF DiskInv, Day
<1>8. MemInv'
  <2>1. Logged(mem', ledger')
    BY <1>1, <1>2, <1>4 DEF MemInv, Logged
  <2>2. ClosedLots(disk) \subseteq ClosedLots(mem') /\ ClosedLots(mem') \subseteq mem'.lots
    BY <1>1, <1>2 DEF MemInv, ClosedLots
  <2>3. SerialsOf(disk) \subseteq SerialsOf(mem')
    BY <1>1, <1>2 DEF MemInv
  <2>4. \A k \in ClosedLots(mem') :
          k.exit <= run.day \/ (k.exit <= Day(now) /\ k.coin \in run'.exited)
    BY <1>1, <1>2 DEF MemInv
  <2>5. Day(now') = Day(now)
    BY DEF Day
  <2> QED BY <1>2, <2>1, <2>2, <2>3, <2>4, <2>5 DEF MemInv
<1>9. run' # None
  BY PortfolioAssumption
<1> QED BY <1>5, <1>6, <1>7, <1>8, <1>9 DEF IInv

\* A set of numbers with a bound has a largest one.
LEMMA Newest ==
  ASSUME NEW S \in SUBSET Nat, S # {}, NEW n \in Nat, \A s \in S : s <= n
  PROVE  \E s \in S : \A t \in S : t <= s
<1> DEFINE P == {k \in Nat : (\A s \in S : s <= k) => \E s \in S : \A t \in S : t <= s}
<1>1. 0 \in P
  <2>1. ASSUME \A s \in S : s <= 0 PROVE \E s \in S : \A t \in S : t <= s
    <3>1. PICK s \in S : TRUE
      OBVIOUS
    <3>2. \A t \in S : t <= s
      BY <2>1
    <3> QED BY <3>2
  <2> QED BY <2>1
<1>2. ASSUME NEW k \in P PROVE k + 1 \in P
  <2>1. ASSUME \A s \in S : s <= k + 1 PROVE \E s \in S : \A t \in S : t <= s
    <3>1. CASE k + 1 \in S
      BY <2>1, <3>1
    <3>2. CASE k + 1 \notin S
      <4>1. \A s \in S : s <= k
        BY <1>2, <2>1, <3>2
      <4> QED BY <1>2, <4>1
    <3> QED BY <3>1, <3>2
  <2> QED BY <1>2, <2>1
<1>3. P = Nat
  <2>1. P \in SUBSET Nat
    OBVIOUS
  <2> HIDE DEF P
  <2> QED BY <1>1, <1>2, <2>1, NatSetInduction
<1> QED BY <1>3

\* A coin that may be bought and was sold today would be one whose newest lot
\* was closed today: an older lot is closed no later than the newer was bought.
LEMMA NotToday ==
  ASSUME NEW st, Shaped(st), Ordered(st), NEW d \in Nat, NEW c, c \notin OpenCoins(st),
         c \notin ClosedOn(st, d), NEW k \in ClosedLots(st), k.coin = c,
         \A l \in ClosedLots(st) : LotOk(l) /\ (l.coin = c => l.exit <= d)
  PROVE  k.exit # d
<1> SUFFICES ASSUME k.exit = d PROVE FALSE
  OBVIOUS
<1> DEFINE S == {l.serial : l \in {m \in st.lots : m.coin = c}}
<1>1. \A l \in st.lots : l.serial \in Nat /\ l.serial <= MaxSerial /\ l.exit \in Nat /\ l.day \in Nat
  BY DEF Shaped, Lot, Serials
<1>2. k \in st.lots
  BY DEF ClosedLots
<1>3. S \in SUBSET Nat /\ k.serial \in S /\ (\A s \in S : s <= MaxSerial) /\ MaxSerial \in Nat
  BY <1>1, <1>2, PortfolioAssumption
<1>4. \E s \in S : \A t \in S : t <= s
  <2>1. S # {}
    BY <1>3
  <2> HIDE DEF S
  <2> QED BY <1>3, <2>1, Newest
<1>5. PICK m \in st.lots : m.coin = c /\ \A l \in st.lots : l.coin = c => l.serial <= m.serial
  BY <1>4
<1>6. m \in ClosedLots(st)
  <2>1. m \notin Open(st)
    BY <1>5 DEF OpenCoins
  <2>2. m.status \in {"OPEN", "CLOSED"}
    BY DEF Shaped, Lot
  <2> QED BY <2>1, <2>2 DEF Open, ClosedLots
<1>7. m.status = "CLOSED" /\ m.day <= m.exit /\ m.exit <= d
  BY <1>5, <1>6 DEF LotOk, ClosedLots
<1>8. k.serial <= m.serial
  BY <1>2, <1>5
<1>9. m.exit = d
  <2>1. CASE k.serial = m.serial
    BY <1>2, <2>1 DEF Ordered
  <2>2. CASE k.serial # m.serial
    <3>1. k.serial < m.serial
      BY <1>1, <1>2, <1>8, <2>2
    <3>2. k.exit <= m.day
      BY <1>2, <1>5, <3>1 DEF Ordered
    <3> QED BY <1>1, <1>2, <1>7, <3>2
  <2> QED BY <2>1, <2>2
<1> QED BY <1>5, <1>7, <1>9 DEF ClosedOn

\* What a purchase of a coin may be.
LEMMA NewLotOk ==
  ASSUME NEW c \in Coins, NEW session \in Sessions, NEW d \in Nat, NEW b \in Nat,
         serial \in Nat, serial < MaxSerial
  PROVE  LET lot == NewLot(c, session, d, b) IN
           /\ lot \in Lot /\ lot.serial = serial + 1 /\ lot.status = "OPEN" /\ LotOk(lot)
           /\ lot.day = d /\ lot.cost = b /\ lot.coin = c /\ lot.session = session
           /\ lot.reason = None /\ lot.exit = 0 /\ lot.pnl = 0 /\ lot.since = -1
<1>1. serial + 1 \in Serials
  BY PortfolioAssumption DEF Serials
<1> QED BY <1>1 DEF NewLot, Lot, LotOk

LEMMA MorningStartsKeeps == IInv /\ MorningStarts => IInv'
<1> SUFFICES ASSUME IInv, MorningStarts PROVE IInv'
  OBVIOUS
<1>1. /\ run # None /\ run.mode = "morning" /\ run.step = "check" /\ run.asof > mem.asof
      /\ mem' = IF mem.date = run.day THEN mem ELSE [mem EXCEPT !.today = 0]
      /\ run' = [run EXCEPT !.step = "assess"]
      /\ UNCHANGED <<now, disk, ledger, serial, crashes>>
  BY DEF MorningStarts, At
<1>2. /\ run \in Run /\ MemInv /\ RunInv /\ DiskInv /\ LedgerInv /\ Clocks
      /\ Good(mem, run.day, now, serial) /\ Shaped(mem)
      /\ run.day \in Nat /\ run.asof \in Nat /\ now \in Nat /\ serial \in Nat
      /\ run = [mode |-> run.mode, asof |-> run.asof, day |-> run.day, step |-> run.step,
                todo |-> run.todo, exited |-> run.exited, slot |-> run.slot,
                left |-> run.left]
  BY <1>1, Running
<1>3. /\ run' \in Run /\ run'.day = run.day /\ run'.asof = run.asof /\ run'.mode = run.mode
      /\ run'.step = "assess" /\ run'.exited = run.exited
  BY <1>1, <1>2 DEF Run
<1>4. /\ Shaped(mem') /\ mem'.lots = mem.lots /\ mem'.cash = mem.cash
      /\ mem'.lifetime = mem.lifetime /\ mem'.asof = mem.asof /\ mem'.full = mem.full
  BY <1>1, <1>2 DEF Shaped
<1>5. mem.asof \in -1..now /\ mem.full \in -1..mem.asof
  BY <1>2 DEF Good
<1>6. /\ Good(mem', run.day, now, serial) /\ ClosedLots(mem') = ClosedLots(mem)
      /\ SerialsOf(mem') = SerialsOf(mem)
  BY <1>2, <1>4, <1>5, Restamped
<1>7. MemInv'
  <2>1. Logged(mem', ledger')
    BY <1>1, <1>2, <1>6 DEF MemInv, Logged
  <2>2. Day(now') = Day(now) /\ disk' = disk
    BY <1>1 DEF Day
  <2> QED BY <1>1, <1>2, <1>3, <1>4, <1>6, <2>1, <2>2 DEF MemInv
<1>8. RunInv'
  BY <1>1, <1>2, <1>3, <1>4 DEF RunInv, Day
<1>9. DiskInv' /\ LedgerInv' /\ Clocks' /\ run' # None
  BY <1>1, <1>2, <1>3, PortfolioAssumption DEF DiskInv, LedgerInv, Clocks, Day
<1> QED BY <1>3, <1>7, <1>8, <1>9 DEF IInv

LEMMA MorningAllocatesKeeps == IInv /\ MorningAllocates => IInv'
<1> SUFFICES ASSUME IInv, MorningAllocates PROVE IInv'
  OBVIOUS
<1> DEFINE held == Cardinality(Open(mem))
           vacant == TopN - held
           slot == IF vacant > 0 THEN mem.cash \div vacant ELSE CostOf(Open(mem)) \div held
<1>1. /\ run # None /\ run.mode = "morning" /\ run.step = "assess"
      /\ run' = [run EXCEPT !.step = "buy", !.left = vacant, !.slot = slot]
      /\ UNCHANGED <<now, disk, ledger, mem, serial, crashes>>
  BY DEF MorningAllocates, At
<1>2. /\ run \in Run /\ MemInv /\ RunInv /\ DiskInv /\ LedgerInv /\ Clocks
      /\ Shaped(mem) /\ run.day \in Nat
      /\ run = [mode |-> run.mode, asof |-> run.asof, day |-> run.day, step |-> run.step,
                todo |-> run.todo, exited |-> run.exited, slot |-> run.slot,
                left |-> run.left]
  BY <1>1, Running
<1>3. held \in Nat /\ CostOf(Open(mem)) \in Nat /\ mem.cash \in Nat /\ TopN \in Nat /\ TopN > 0
  BY <1>2, Divided, PortfolioAssumption DEF Shaped
<1>4. vacant \in Int /\ slot \in Nat
  <2>1. ASSUME NEW a \in Nat, NEW b \in Nat, b > 0 PROVE a \div b \in Nat
    BY <2>1
  <2>2. vacant \in Int /\ (vacant > 0 => vacant \in Nat) /\ (~(vacant > 0) => held > 0)
    BY <1>3
  <2> HIDE DEF vacant, held
  <2> QED BY <1>3, <2>1, <2>2
<1> HIDE DEF slot, vacant, held
<1>5. /\ run' \in Run /\ run'.day = run.day /\ run'.asof = run.asof /\ run'.mode = run.mode
      /\ run'.step = "buy" /\ run'.exited = run.exited
  BY <1>1, <1>2, <1>4 DEF Run
<1>6. MemInv'
  BY <1>1, <1>2, <1>5 DEF MemInv, Day
<1>7. RunInv'
  BY <1>1, <1>2, <1>5 DEF RunInv, Day
<1>8. DiskInv' /\ LedgerInv' /\ Clocks' /\ run' # None
  BY <1>1, <1>2, <1>5, PortfolioAssumption DEF DiskInv, LedgerInv, Clocks, Day
<1> QED BY <1>5, <1>6, <1>7, <1>8 DEF IInv

LEMMA MorningBuysKeeps == ASSUME NEW c \in Coins PROVE IInv /\ MorningBuys(c) => IInv'
<1> SUFFICES ASSUME IInv, MorningBuys(c) PROVE IInv'
  OBVIOUS
<1> DEFINE lot == NewLot(c, "REQUEST", run.day, run.slot)
<1>1. /\ run # None /\ run.mode = "morning" /\ run.step = "buy" /\ serial < MaxSerial
      /\ Cardinality(Open(mem)) < TopN
      /\ c \notin OpenCoins(mem) /\ c \notin run.exited /\ c \notin ClosedOn(mem, run.day)
      /\ mem.cash >= run.slot /\ LogBuy(lot) /\ mem' = AfterBuy(mem, lot)
      /\ serial' = serial + 1 /\ UNCHANGED <<now, disk, run, crashes>>
  BY DEF MorningBuys, At
<1>2. /\ run \in Run /\ MemInv /\ RunInv /\ Good(mem, run.day, now, serial) /\ Shaped(mem)
      /\ Ordered(mem) /\ run.day \in Nat /\ now \in Nat /\ serial \in Nat
  BY <1>1, Running
<1>3. /\ lot \in Lot /\ lot.serial = serial + 1 /\ lot.status = "OPEN" /\ LotOk(lot)
      /\ lot.day = run.day /\ lot.cost = run.slot /\ lot.coin = c /\ lot.session = "REQUEST"
  <2>1. run.slot \in Nat /\ "REQUEST" \in Sessions
    BY <1>2 DEF Run, Sessions
  <2> QED BY <1>1, <1>2, <2>1, NewLotOk
<1> HIDE DEF lot
<1>4. \A k \in ClosedLots(mem) : LotOk(k) /\ (k.coin = c => k.exit <= run.day)
  BY <1>1, <1>2 DEF MemInv, Good, ClosedLots
<1>5. \A k \in ClosedLots(mem) : k.coin = c => k.exit # run.day
  BY <1>1, <1>2, <1>4, NotToday
<1>6. Allowed(mem, lot, run.day, serial)
  BY <1>1, <1>3, <1>4, <1>5 DEF Allowed
<1>7. RunInv'
  <2>1. mem'.asof = mem.asof
    BY <1>1, <1>2, <1>6, BoughtState
  <2> QED BY <1>1, <1>2, <2>1 DEF RunInv, Day
<1> QED BY <1>1, <1>2, <1>6, <1>7, BuyKeeps

LEMMA MorningEndsKeeps == IInv /\ MorningEnds => IInv'
<1> SUFFICES ASSUME IInv, MorningEnds PROVE IInv'
  OBVIOUS
<1> DEFINE st == [mem EXCEPT !.asof = run.asof, !.date = run.day,
                             !.slot = run.slot, !.slotDay = run.day]
<1>1. /\ run # None /\ run.mode = "morning" /\ run.step = "buy" /\ SaveAndQuit(st)
      /\ UNCHANGED <<now, ledger, serial, crashes>>
  BY DEF MorningEnds, At
<1>2. /\ run \in Run /\ RunInv /\ Shaped(mem) /\ run.asof \in Nat /\ run.asof <= now
      /\ now \in Nat /\ serial \in Nat /\ Day(now) \in Nat
  BY <1>1, Running
<1>3. /\ Good(mem, Day(now), now, serial) /\ Logged(mem, ledger)
      /\ SerialsOf(disk) \subseteq SerialsOf(mem)
      /\ \A l \in ClosedLots(mem) : l.exit <= Day(now)
  BY <1>1, MemorySaved
<1>4. run.slot \in Nat /\ mem.asof < run.asof
  BY <1>1, <1>2 DEF Run, RunInv
<1>5. /\ Shaped(st) /\ st.lots = mem.lots /\ st.cash = mem.cash
      /\ st.lifetime = mem.lifetime /\ st.asof = run.asof /\ st.full = mem.full
  <2>1. ASSUME NEW x, x = [mem EXCEPT !.asof = run.asof, !.date = run.day,
                                      !.slot = run.slot, !.slotDay = run.day]
        PROVE  /\ Shaped(x) /\ x.lots = mem.lots /\ x.cash = mem.cash
               /\ x.lifetime = mem.lifetime /\ x.asof = run.asof /\ x.full = mem.full
    BY <1>2, <1>4, <2>1 DEF Shaped
  <2> QED BY <2>1
<1>6. st.asof \in -1..now /\ st.full \in -1..st.asof
  <2>1. mem.asof \in -1..now /\ mem.full \in -1..mem.asof
    BY <1>3 DEF Good
  <2> QED BY <1>2, <1>4, <1>5, <2>1
<1> HIDE DEF st
<1>7. /\ Good(st, Day(now), now, serial) /\ ClosedLots(st) = ClosedLots(mem)
      /\ SerialsOf(st) = SerialsOf(mem)
  BY <1>2, <1>3, <1>5, <1>6, Restamped
<1>8. Logged(st, ledger)
  BY <1>3, <1>7 DEF Logged
<1> QED BY <1>1, <1>3, <1>7, <1>8, SavedKeeps

LEMMA RefillStartsKeeps == IInv /\ RefillStarts => IInv'
<1> SUFFICES ASSUME IInv, RefillStarts PROVE IInv'
  OBVIOUS
<1> DEFINE held == Cardinality(Open(mem))
           known == mem.slotDay = run.day /\ mem.slot > 0
           slot == IF known THEN mem.slot ELSE CostOf(Open(mem)) \div held
           left == TopN - held
           share == mem.cash \div slot
           limit == IF share < left THEN share ELSE left
<1>1. /\ run # None /\ run.mode = "refill" /\ run.step = "check"
      /\ (known \/ Open(mem) # {}) /\ slot > 0
      /\ mem' = [mem EXCEPT !.slot = slot, !.slotDay = run.day]
      /\ disk' = IF known THEN disk ELSE mem'
      /\ run' = [run EXCEPT !.step = "buy", !.slot = slot, !.left = limit,
                            !.exited = SameDayCooldown(mem, run.day)]
      /\ UNCHANGED <<now, ledger, serial, crashes>>
  BY DEF RefillStarts, At
<1>2. /\ run \in Run /\ MemInv /\ RunInv /\ DiskInv /\ LedgerInv /\ Clocks
      /\ Good(mem, run.day, now, serial) /\ Shaped(mem) /\ run.day \in Nat /\ now \in Nat
      /\ serial \in Nat /\ run.day <= Day(now) /\ Day(now) \in Nat
      /\ run = [mode |-> run.mode, asof |-> run.asof, day |-> run.day, step |-> run.step,
                todo |-> run.todo, exited |-> run.exited, slot |-> run.slot,
                left |-> run.left]
  BY <1>1, Running
<1>3. /\ held \in Nat /\ CostOf(Open(mem)) \in Nat /\ mem.cash \in Nat /\ mem.slot \in Nat
      /\ TopN \in Nat /\ (Open(mem) # {} => held > 0)
  <2>1. Lots(Open(mem)) /\ held \in Nat /\ CostOf(Open(mem)) \in Nat
    BY <1>2, Divided
  <2>2. Open(mem) # {} => held > 0
    BY <2>1, FS_EmptySet DEF Lots
  <2> QED BY <1>2, <2>1, <2>2, PortfolioAssumption DEF Shaped
<1>4. slot \in Nat /\ limit \in Int /\ limit + held <= TopN
  <2>1. ASSUME NEW a \in Nat, NEW b \in Nat, b > 0 PROVE a \div b \in Nat
    BY <2>1
  <2>2. slot \in Nat
    <3> HIDE DEF held
    <3> QED BY <1>1, <1>3, <2>1
  <2> HIDE DEF slot, held
  <2>3. share \in Nat
    BY <1>1, <1>3, <2>1, <2>2
  <2> HIDE DEF share
  <2> QED BY <1>3, <2>2, <2>3
<1> HIDE DEF slot, limit, known, held
<1>5. SameDayCooldown(mem, run.day) \subseteq Coins
  BY <1>2 DEF SameDayCooldown, Shaped, Lot
<1>6. /\ run' \in Run /\ run'.day = run.day /\ run'.asof = run.asof /\ run'.mode = run.mode
      /\ run'.step = "buy" /\ run'.exited = SameDayCooldown(mem, run.day) /\ run'.left = limit
  BY <1>1, <1>2, <1>4, <1>5 DEF Run
<1>7. /\ Shaped(mem') /\ mem'.lots = mem.lots /\ mem'.cash = mem.cash
      /\ mem'.lifetime = mem.lifetime /\ mem'.asof = mem.asof /\ mem'.full = mem.full
  BY <1>1, <1>2, <1>4 DEF Shaped
<1>8. mem.asof \in -1..now /\ mem.full \in -1..mem.asof
  BY <1>2 DEF Good
<1>9. /\ Good(mem', run.day, now, serial) /\ Open(mem') = Open(mem)
      /\ ClosedLots(mem') = ClosedLots(mem) /\ SerialsOf(mem') = SerialsOf(mem)
  BY <1>2, <1>7, <1>8, Restamped
<1>10. mem = disk /\ run.exited = {} /\ Logged(mem, ledger) /\ Known(disk, ledger)
  BY <1>1, <1>2 DEF RunInv, MemInv, DiskInv
<1>11. \A l \in ClosedLots(mem) : l.exit \in Nat /\ l.exit <= run.day /\ l.exit <= Day(now)
  <2>1. \A l \in ClosedLots(mem) : l.exit \in Nat
    BY <1>2 DEF ClosedLots, Shaped, Lot
  <2>2. \A l \in ClosedLots(mem) : l.exit <= run.day
    BY <1>2, <1>10 DEF MemInv
  <2> QED BY <1>2, <2>1, <2>2
<1>12. Logged(mem', ledger) /\ Known(mem', ledger)
  BY <1>9, <1>10 DEF Logged, Known
<1>13. DiskInv'
  <2>1. Good(mem', Day(now), now, serial)
    BY <1>2, <1>9, Later
  <2>2. CASE disk' = disk
    BY <1>1, <1>2, <2>2 DEF DiskInv, Day
  <2>3. CASE disk' = mem'
    BY <1>1, <1>9, <1>11, <1>12, <2>1, <2>3 DEF DiskInv, Day
  <2> QED BY <1>1, <2>2, <2>3
<1>14. ClosedLots(disk') = ClosedLots(mem') /\ SerialsOf(disk') = SerialsOf(mem')
  BY <1>1, <1>9, <1>10
<1>15. MemInv'
  <2>1. ClosedLots(mem') \subseteq mem'.lots
    BY DEF ClosedLots
  <2> QED BY <1>1, <1>6, <1>9, <1>11, <1>12, <1>14, <2>1 DEF MemInv
<1>16. RunInv'
  <2>1. SameDayCooldown(mem', run.day) = SameDayCooldown(mem, run.day)
    BY <1>7 DEF SameDayCooldown
  <2>2. limit + Cardinality(Open(mem')) <= TopN
    BY <1>4, <1>9 DEF held
  <2> QED BY <1>1, <1>2, <1>6, <1>9, <1>11, <2>1, <2>2 DEF RunInv, Day
<1>17. LedgerInv' /\ Clocks' /\ run' # None
  BY <1>1, <1>2, <1>6, PortfolioAssumption DEF LedgerInv, Clocks
<1> QED BY <1>6, <1>13, <1>15, <1>16, <1>17 DEF IInv

LEMMA RefillBuysKeeps == ASSUME NEW c \in Coins PROVE IInv /\ RefillBuys(c) => IInv'
<1> SUFFICES ASSUME IInv, RefillBuys(c) PROVE IInv'
  OBVIOUS
<1> DEFINE lot == NewLot(c, "REFILL", run.day, run.slot)
<1>1. /\ run # None /\ run.mode = "refill" /\ run.step = "buy" /\ serial < MaxSerial
      /\ run.left > 0 /\ c \notin OpenCoins(mem) /\ c \notin run.exited
      /\ mem.cash >= run.slot /\ LogBuy(lot) /\ mem' = AfterBuy(mem, lot)
      /\ run' = [run EXCEPT !.left = @ - 1]
      /\ serial' = serial + 1 /\ UNCHANGED <<now, disk, crashes>>
  BY DEF RefillBuys, At
<1>2. /\ run \in Run /\ MemInv /\ RunInv /\ Good(mem, run.day, now, serial) /\ Shaped(mem)
      /\ run.day \in Nat /\ now \in Nat /\ serial \in Nat
      /\ run = [mode |-> run.mode, asof |-> run.asof, day |-> run.day, step |-> run.step,
                todo |-> run.todo, exited |-> run.exited, slot |-> run.slot,
                left |-> run.left]
  BY <1>1, Running
<1>3. /\ lot \in Lot /\ lot.serial = serial + 1 /\ lot.status = "OPEN" /\ LotOk(lot)
      /\ lot.day = run.day /\ lot.cost = run.slot /\ lot.coin = c /\ lot.session = "REFILL"
  <2>1. run.slot \in Nat /\ "REFILL" \in Sessions
    BY <1>2 DEF Run, Sessions
  <2> QED BY <1>1, <1>2, <2>1, NewLotOk
<1> HIDE DEF lot
<1>4. /\ run.left + Cardinality(Open(mem)) <= TopN /\ run.left \in Int
      /\ SameDayCooldown(mem, run.day) \subseteq run.exited
      /\ \A l \in ClosedLots(mem) : l.exit <= run.day
  BY <1>1, <1>2 DEF RunInv, Run
<1>5. Cardinality(Open(mem)) \in Nat /\ TopN \in Nat
  BY <1>2, Divided, PortfolioAssumption
<1>6. Cardinality(Open(mem)) < TopN
  BY <1>1, <1>4, <1>5
<1>7. Allowed(mem, lot, run.day, serial)
  <2>1. ASSUME NEW k \in ClosedLots(mem), k.coin = c, k.exit = run.day
        PROVE  k.reason \notin {"TAKE_PROFIT", "HARD_STOP"}
    BY <1>1, <1>4, <2>1 DEF SameDayCooldown, ClosedLots
  <2>2. "REFILL" # "REQUEST"
    OBVIOUS
  <2> QED BY <1>1, <1>3, <1>4, <2>1, <2>2 DEF Allowed
<1>8. /\ run' \in Run /\ run'.day = run.day /\ run'.asof = run.asof /\ run'.mode = run.mode
      /\ run'.step = "buy" /\ run'.exited = run.exited /\ run'.left = run.left - 1
  BY <1>1, <1>2, <1>4 DEF Run
<1>9. RunInv'
  <2>1. /\ mem'.asof = mem.asof /\ ClosedLots(mem') = ClosedLots(mem)
        /\ Cardinality(Open(mem')) = Cardinality(Open(mem)) + 1
    BY <1>1, <1>2, <1>6, <1>7, BoughtState
  <2>2. SameDayCooldown(mem', run.day) = SameDayCooldown(mem, run.day)
    BY <2>1 DEF SameDayCooldown, ClosedLots
  <2>3. run'.left + Cardinality(Open(mem')) <= TopN
    BY <1>4, <1>5, <1>8, <2>1
  <2> QED BY <1>1, <1>2, <1>4, <1>8, <2>1, <2>2, <2>3 DEF RunInv, Day
<1> QED BY <1>1, <1>6, <1>7, <1>8, <1>9, BuyKeeps

-----------------------------------------------------------------------------
(* The full replacement                                                    *)

\* sold has what h makes of each open lot of st, sold on day e.
SellsAll(st, h, sold, e) ==
  /\ sold = {h[l] : l \in Open(st)}
  /\ \A l \in Open(st) : /\ h[l] \in Lot /\ Same(l, h[l]) /\ LotOk(h[l])
                         /\ h[l].status = "CLOSED" /\ h[l].exit = e
                         /\ l.cost + h[l].pnl >= 0

\* Its lots cost what the open ones did; what they bring is no debt.
LEMMA SoldTogether ==
  ASSUME NEW st, Shaped(st), Ordered(st), NEW h, NEW sold, NEW e, SellsAll(st, h, sold, e)
  PROVE  /\ Lots(sold) /\ CostOf(sold) = CostOf(Open(st)) /\ CostOf(sold) + PnlOf(sold) >= 0
         /\ Renames(h, Open(st)) /\ ClosedLots(st) \cap sold = {}
         /\ \A k \in sold : \E l \in Open(st) : k = h[l] /\ k.serial = l.serial
         /\ \A l \in Open(st) : h[l] \in sold /\ h[l].serial = l.serial
<1>1. /\ sold = {h[l] : l \in Open(st)}
      /\ \A l \in Open(st) : /\ h[l] \in Lot /\ h[l].serial = l.serial /\ h[l].cost = l.cost
                             /\ l.cost + h[l].pnl >= 0
  BY DEF SellsAll, Same
<1>2. Lots(Open(st)) /\ Open(st) \subseteq st.lots /\ Open(st) \subseteq Lot
  BY Divided DEF Lots, Open
<1>3. Renames(h, Open(st))
  BY <1>1, <1>2 DEF Renames, Ordered
<1>4. ClosedLots(st) \cap sold = {}
  <2> SUFFICES ASSUME NEW k \in ClosedLots(st), NEW l \in Open(st), k = h[l] PROVE FALSE
    BY <1>1
  <2>1. k \in st.lots /\ l \in st.lots /\ k.serial = l.serial
    BY <1>1, <1>2 DEF ClosedLots
  <2>2. k = l
    BY <2>1 DEF Ordered
  <2> QED BY <2>2 DEF ClosedLots, Open
<1>5. Lots(sold) /\ CostOf(sold) = CostOf(Open(st))
  <2> DEFINE f == [k \in sold |-> k.cost]
             g == [l \in Open(st) |-> l.cost]
  <2>1. Carries(f, g, h, Open(st))
    BY <1>1, <1>2 DEF Lot, Carries
  <2> HIDE DEF f, g
  <2>2. /\ IsFiniteSet({h[l] : l \in Open(st)})
        /\ SumFunctionOnSet(f, {h[l] : l \in Open(st)}) = SumFunctionOnSet(g, Open(st))
    BY <1>2, <1>3, <2>1, SumRenamed DEF Lots
  <2>3. IsFiniteSet(sold) /\ SumFunctionOnSet(f, sold) = SumFunctionOnSet(g, Open(st))
    BY <1>1, <2>2
  <2>4. sold \subseteq Lot
    BY <1>1
  <2> QED BY <2>3, <2>4 DEF CostOf, Lots, f, g
<1>6. CostOf(sold) + PnlOf(sold) >= 0
  <2> DEFINE P == {U \in SUBSET sold : CostOf(U) + PnlOf(U) >= 0}
  <2>1. P \in SUBSET SUBSET sold
    OBVIOUS
  <2>2. {} \in P
    BY SumEmpty DEF CostOf, PnlOf
  <2>3. ASSUME NEW U \in P, NEW k \in sold \ U PROVE U \cup {k} \in P
    <3>1. Lots(U) /\ k \in Lot /\ k \notin U /\ CostOf(U) + PnlOf(U) >= 0
      BY <1>5, FS_Subset DEF Lots
    <3>2. k.cost + k.pnl >= 0
      BY <1>1
    <3>3. /\ CostOf(U \cup {k}) = CostOf(U) + k.cost /\ PnlOf(U \cup {k}) = PnlOf(U) + k.pnl
          /\ CostOf(U) \in Int /\ PnlOf(U) \in Int
      BY <3>1, SumsWith, SumsOfLots
    <3>4. k.cost \in Int /\ k.pnl \in Int
      BY <3>1 DEF Lot
    <3>5. CostOf(U \cup {k}) + PnlOf(U \cup {k}) >= 0
      BY <3>1, <3>2, <3>3, <3>4
    <3> QED BY <3>5
  <2> HIDE DEF P
  <2>4. P = SUBSET sold
    BY <1>5, <2>1, <2>2, <2>3, SubsetInduction DEF Lots
  <2>5. sold \in P
    BY <2>4
  <2> QED BY <2>5 DEF P
<1>7. /\ \A k \in sold : \E l \in Open(st) : k = h[l] /\ k.serial = l.serial
      /\ \A l \in Open(st) : h[l] \in sold /\ h[l].serial = l.serial
  BY <1>1
<1> QED BY <1>3, <1>4, <1>5, <1>6, <1>7

\* lots has one purchase g[i] for slot i of the slots, each of the same money.
BuysAll(g, lots, slot, n, e) ==
  /\ lots = {g[i] : i \in 1..TopN} /\ slot \in Nat
  /\ \A i \in 1..TopN : /\ g[i] \in Lot /\ g[i].serial = n + i /\ g[i].status = "OPEN"
                        /\ LotOk(g[i]) /\ g[i].day = e /\ g[i].cost = slot
                        /\ g[i].session = "FULL_REBUILD"
  /\ \A i, j \in 1..TopN : g[i].coin = g[j].coin => i = j

LEMMA BoughtTogether ==
  ASSUME NEW g, NEW lots, NEW slot, NEW n \in Nat, NEW e, BuysAll(g, lots, slot, n, e)
  PROVE  /\ Lots(lots) /\ Cardinality(lots) = TopN /\ CostOf(lots) = TopN * slot
         /\ \A l \in lots : l.serial > n /\ l.serial <= n + TopN /\ l.status = "OPEN"
         /\ \A k, l \in lots : k.coin = l.coin \/ k.serial = l.serial => k = l
<1>1. /\ lots = {g[i] : i \in 1..TopN} /\ slot \in Nat
      /\ \A i \in 1..TopN : /\ g[i] \in Lot /\ g[i].serial = n + i /\ g[i].status = "OPEN"
                            /\ g[i].cost = slot
      /\ \A i, j \in 1..TopN : g[i].coin = g[j].coin => i = j
  BY DEF BuysAll
<1>2. TopN \in Nat /\ IsFiniteSet(1..TopN) /\ Cardinality(1..TopN) = TopN
  <2>1. TopN \in Nat /\ TopN > 0
    BY PortfolioAssumption
  <2> QED BY <2>1, FS_Interval
<1>3. Renames(g, 1..TopN)
  BY <1>1 DEF Renames
<1> DEFINE f == [l \in lots |-> l.cost]
           c == [i \in 1..TopN |-> slot]
<1>4. \A i \in 1..TopN : c[i] \in Int /\ f[g[i]] = c[i] /\ c[i] = slot
  BY <1>1
<1>5. \A l \in lots : f[l] = slot
  BY <1>1
<1> HIDE DEF f, c
<1>7. IsFiniteSet(lots) /\ Cardinality(lots) = TopN
  <2> DEFINE S == 1..TopN
  <2>0. Carries(f, c, g, S)
    BY <1>4 DEF Carries
  <2>1. IsFiniteSet(S) /\ Cardinality(S) = TopN /\ Renames(g, S)
    BY <1>2, <1>3
  <2>2. lots = {g[i] : i \in S}
    BY <1>1
  <2> HIDE DEF S
  <2>3. /\ IsFiniteSet({g[i] : i \in S}) /\ Cardinality({g[i] : i \in S}) = Cardinality(S)
        /\ SumFunctionOnSet(f, {g[i] : i \in S}) = SumFunctionOnSet(c, S)
    BY <2>0, <2>1, SumRenamed
  <2> QED BY <2>1, <2>2, <2>3
<1>8. SumFunctionOnSet(f, lots) = TopN * slot
  BY <1>1, <1>5, <1>7, SumConstant
<1>9. Lots(lots) /\ CostOf(lots) = TopN * slot
  BY <1>1, <1>7, <1>8 DEF Lots, CostOf, f
<1>10. \A l \in lots : l.serial > n /\ l.serial <= n + TopN /\ l.status = "OPEN"
  BY <1>1, <1>2
<1>11. \A k, l \in lots : k.coin = l.coin \/ k.serial = l.serial => k = l
  BY <1>1
<1> QED BY <1>7, <1>9, <1>10, <1>11

\* st2 has the closed lots of st, those just sold and those just bought, and
\* the money that is left.
Merged(st, st2, sold, lots) ==
  /\ st2.lots = ClosedLots(st) \cup sold \cup lots
  /\ st2.cash = st.cash + CostOf(sold) + PnlOf(sold) - CostOf(lots)
  /\ st2.lifetime = st.lifetime + PnlOf(sold)

LEMMA MergedLots ==
  ASSUME NEW st, Shaped(st), Ordered(st), NEW n \in Nat, \A l \in st.lots : l.serial <= n,
         NEW h, NEW sold, NEW e, SellsAll(st, h, sold, e),
         NEW g, NEW lots, NEW slot, BuysAll(g, lots, slot, n, e),
         NEW st2, Merged(st, st2, sold, lots)
  PROVE  /\ st2.lots \subseteq Lot /\ IsFiniteSet(st2.lots)
         /\ Open(st2) = lots /\ ClosedLots(st2) = ClosedLots(st) \cup sold
         /\ SerialsOf(st2) = SerialsOf(st) \cup {l.serial : l \in lots}
<1>1. Lots(st.lots) /\ Lots(ClosedLots(st)) /\ Lots(sold) /\ Lots(lots)
  BY Divided, SoldTogether, BoughtTogether
<1>2. st2.lots = ClosedLots(st) \cup sold \cup lots
  BY DEF Merged
<1>3. st2.lots \subseteq Lot /\ IsFiniteSet(st2.lots)
  <2>1. IsFiniteSet(ClosedLots(st) \cup sold)
    BY <1>1, FS_Union DEF Lots
  <2>2. IsFiniteSet((ClosedLots(st) \cup sold) \cup lots)
    BY <1>1, <2>1, FS_Union DEF Lots
  <2> QED BY <1>1, <1>2, <2>2 DEF Lots
<1>4. /\ \A l \in lots : l.status = "OPEN"
      /\ \A k \in sold : k.status = "CLOSED"
      /\ \A k \in ClosedLots(st) : k.status = "CLOSED"
  BY DEF SellsAll, BuysAll, ClosedLots
<1>5. Open(st2) = lots /\ ClosedLots(st2) = ClosedLots(st) \cup sold
  BY <1>2, <1>4 DEF Open, ClosedLots
<1>6. SerialsOf(st) = {k.serial : k \in ClosedLots(st)} \cup {k.serial : k \in sold}
  <2>1. /\ \A k \in sold : \E l \in Open(st) : k = h[l] /\ k.serial = l.serial
        /\ \A l \in Open(st) : h[l] \in sold /\ h[l].serial = l.serial
    BY SoldTogether
  <2>2. \A l \in st.lots : l \in Open(st) \/ l \in ClosedLots(st)
    BY DEF Shaped, Lot, Open, ClosedLots
  <2>3. Open(st) \subseteq st.lots /\ ClosedLots(st) \subseteq st.lots
    BY DEF Open, ClosedLots
  <2> QED BY <2>1, <2>2, <2>3 DEF SerialsOf
<1>7. SerialsOf(st2) = SerialsOf(st) \cup {l.serial : l \in lots}
  BY <1>2, <1>6 DEF SerialsOf
<1> QED BY <1>3, <1>5, <1>7

\* Every lot of the new portfolio is new, or stands for one of the old, closed
\* by now, with the serial, coin, session and day it had.
LEMMA MergedFrom ==
  ASSUME NEW st, Shaped(st), Ordered(st), NEW n \in Nat, \A l \in st.lots : l.serial <= n,
         NEW h, NEW sold, NEW e, SellsAll(st, h, sold, e),
         NEW g, NEW lots, NEW slot, BuysAll(g, lots, slot, n, e),
         NEW st2, Merged(st, st2, sold, lots), NEW k \in st2.lots \ lots
  PROVE  /\ k.status = "CLOSED" /\ k.serial <= n
         /\ \E l \in st.lots : /\ k.serial = l.serial /\ k.coin = l.coin /\ k.day = l.day
                               /\ k.session = l.session
                               /\ l.status = "CLOSED" => k = l
                               /\ l.status = "OPEN" => k = h[l]
<1>1. CASE k \in ClosedLots(st)
  BY <1>1 DEF ClosedLots
<1>2. CASE k \in sold
  <2>1. PICK l \in Open(st) : k = h[l]
    BY <1>2 DEF SellsAll
  <2>2. Same(l, k) /\ k.status = "CLOSED" /\ l \in st.lots /\ l.status = "OPEN"
    BY <2>1 DEF SellsAll, Open
  <2> QED BY <2>1, <2>2 DEF Same
<1>3. k \in ClosedLots(st) \/ k \in sold
  BY DEF Merged
<1> QED BY <1>1, <1>2, <1>3

LEMMA MergedOrdered ==
  ASSUME NEW st, Shaped(st), Ordered(st), NEW n \in Nat, \A l \in st.lots : l.serial <= n,
         NEW e \in Nat, \A l \in ClosedLots(st) : l.exit <= e,
         NEW h, NEW sold, SellsAll(st, h, sold, e),
         NEW g, NEW lots, NEW slot, BuysAll(g, lots, slot, n, e),
         NEW st2, Merged(st, st2, sold, lots)
  PROVE  Ordered(st2)
<1>1. /\ Open(st2) = lots /\ ClosedLots(st2) = ClosedLots(st) \cup sold /\ st2.lots \subseteq Lot
      /\ st2.lots = ClosedLots(st) \cup sold \cup lots
  BY MergedLots DEF Merged
<1>2. /\ \A l \in lots : l.serial > n /\ l.serial \in Nat /\ l.day = e
      /\ \A k, l \in lots : k.coin = l.coin \/ k.serial = l.serial => k = l
  <2>1. \A l \in lots : l \in Lot /\ l.day = e
    BY DEF BuysAll
  <2> QED BY <2>1, BoughtTogether DEF Lot, Serials
<1>3. \A k \in st2.lots : k.serial \in Nat
  BY <1>1 DEF Lot, Serials
<1>4. \A k \in st2.lots \ lots : k.exit <= e
  <2>1. \A k \in sold : k.exit = e
    BY DEF SellsAll
  <2> QED BY <1>1, <2>1
<1>5. ASSUME NEW k \in st2.lots, NEW o \in st2.lots, k.serial = o.serial PROVE k = o
  <2>1. CASE k \in lots /\ o \in lots
    BY <1>2, <1>5, <2>1
  <2>2. CASE k \notin lots /\ o \notin lots
    <3>1. PICK a \in st.lots : /\ k.serial = a.serial /\ (a.status = "CLOSED" => k = a)
                               /\ (a.status = "OPEN" => k = h[a])
      BY <2>2, MergedFrom
    <3>2. PICK b \in st.lots : /\ o.serial = b.serial /\ (b.status = "CLOSED" => o = b)
                               /\ (b.status = "OPEN" => o = h[b])
      BY <2>2, MergedFrom
    <3>3. a = b
      BY <1>5, <3>1, <3>2 DEF Ordered
    <3>4. a.status \in {"OPEN", "CLOSED"}
      BY DEF Shaped, Lot
    <3> QED BY <3>1, <3>2, <3>3, <3>4
  <2>3. CASE k \in lots /\ o \notin lots
    <3>1. o.serial <= n
      BY <2>3, MergedFrom
    <3> QED BY <1>2, <1>3, <1>5, <2>3, <3>1
  <2>4. CASE k \notin lots /\ o \in lots
    <3>1. k.serial <= n
      BY <2>4, MergedFrom
    <3> QED BY <1>2, <1>3, <1>5, <2>4, <3>1
  <2> QED BY <2>1, <2>2, <2>3, <2>4
<1>6. ASSUME NEW k \in st2.lots, NEW o \in st2.lots, k.coin = o.coin, k.serial < o.serial
      PROVE  k.status = "CLOSED" /\ k.exit <= o.day
  <2>1. CASE k \in lots
    <3>1. o \in lots
      <4> SUFFICES ASSUME o \notin lots PROVE FALSE
        OBVIOUS
      <4>1. o.serial <= n
        BY MergedFrom
      <4> QED BY <1>2, <1>3, <1>6, <2>1, <4>1
    <3> QED BY <1>2, <1>3, <1>6, <2>1, <3>1
  <2>2. CASE k \notin lots /\ o \in lots
    <3>1. k.status = "CLOSED"
      BY <2>2, MergedFrom
    <3> QED BY <1>2, <1>4, <2>2, <3>1
  <2>3. CASE k \notin lots /\ o \notin lots
    <3>1. PICK a \in st.lots : /\ k.serial = a.serial /\ k.coin = a.coin
                               /\ (a.status = "CLOSED" => k = a)
      BY <2>3, MergedFrom
    <3>2. PICK b \in st.lots : o.serial = b.serial /\ o.coin = b.coin /\ o.day = b.day
      BY <2>3, MergedFrom
    <3>3. a.status = "CLOSED" /\ a.exit <= b.day
      BY <1>6, <3>1, <3>2 DEF Ordered
    <3> QED BY <3>1, <3>2, <3>3
  <2> QED BY <2>1, <2>2, <2>3
<1> QED BY <1>5, <1>6 DEF Ordered

LEMMA MergedApart ==
  ASSUME NEW st, Shaped(st), Ordered(st), Apart(st), NEW n \in Nat,
         \A l \in st.lots : l.serial <= n, NEW e \in Nat,
         NEW h, NEW sold, SellsAll(st, h, sold, e),
         NEW g, NEW lots, NEW slot, BuysAll(g, lots, slot, n, e),
         NEW st2, Merged(st, st2, sold, lots)
  PROVE  Apart(st2)
<1> SUFFICES ASSUME NEW new \in st2.lots, NEW old \in st2.lots,
                    new.coin = old.coin, old.serial < new.serial, old.exit = new.day
             PROVE  /\ new.session # "REQUEST"
                    /\ new.session = "REFILL" => old.reason \notin {"TAKE_PROFIT", "HARD_STOP"}
  BY DEF Apart
<1>1. st2.lots \subseteq Lot
  BY MergedLots
<1>2. CASE new \in lots
  <2>1. new.session = "FULL_REBUILD"
    BY <1>2 DEF BuysAll
  <2> QED BY <2>1
<1>3. CASE new \notin lots
  <2>1. PICK b \in st.lots : /\ new.serial = b.serial /\ new.coin = b.coin /\ new.day = b.day
                             /\ new.session = b.session /\ new.serial <= n
    BY <1>3, MergedFrom
  <2>2. old \notin lots
    <3> SUFFICES ASSUME old \in lots PROVE FALSE
      OBVIOUS
    <3>1. old.serial > n /\ old.serial \in Nat /\ new.serial \in Nat
      BY <1>1, BoughtTogether DEF Lot, Serials
    <3> QED BY <2>1, <3>1
  <2>3. PICK a \in st.lots : /\ old.serial = a.serial /\ old.coin = a.coin
                             /\ (a.status = "CLOSED" => old = a)
    BY <2>2, MergedFrom
  <2>4. a.status = "CLOSED"
    BY <2>1, <2>3 DEF Ordered
  <2> QED BY <2>1, <2>3, <2>4 DEF Apart
<1> QED BY <1>2, <1>3

LEMMA MergedGood ==
  ASSUME NEW st, NEW d \in Int, NEW t \in Int, NEW n \in Nat, Good(st, d, t, n),
         NEW e \in Nat, d <= e, \A l \in ClosedLots(st) : l.exit <= e,
         NEW h, NEW sold, SellsAll(st, h, sold, e),
         NEW g, NEW lots, NEW slot, BuysAll(g, lots, slot, n, e),
         TopN * slot <= st.cash + CostOf(sold) + PnlOf(sold),
         NEW st2, Merged(st, st2, sold, lots), st2.today \in Int, st2.slot \in Nat,
         st2 = [lots |-> st2.lots, cash |-> st2.cash, today |-> st2.today,
                lifetime |-> st2.lifetime, asof |-> st2.asof, full |-> st2.full,
                date |-> st2.date, slot |-> st2.slot, slotDay |-> st2.slotDay],
         st2.asof \in -1..t, st2.full = st2.asof
  PROVE  Good(st2, e, t, n + TopN)
<1>1. /\ Shaped(st) /\ Ordered(st) /\ Balanced(st) /\ Apart(st)
      /\ \A l \in st.lots : LotOk(l) /\ l.serial <= n /\ l.day <= d
  BY DEF Good
<1>2. /\ st2.lots \subseteq Lot /\ IsFiniteSet(st2.lots)
      /\ Open(st2) = lots /\ ClosedLots(st2) = ClosedLots(st) \cup sold
  BY <1>1, MergedLots
<1>3. /\ Lots(sold) /\ CostOf(sold) = CostOf(Open(st)) /\ ClosedLots(st) \cap sold = {}
  BY <1>1, SoldTogether
<1>4. /\ Lots(lots) /\ Cardinality(lots) = TopN /\ CostOf(lots) = TopN * slot
      /\ \A l \in lots : l.serial <= n + TopN
  BY BoughtTogether
<1>5. /\ Lots(ClosedLots(st)) /\ CostOf(Open(st)) \in Nat
      /\ st.lots \ Open(st) = ClosedLots(st)
  BY <1>1, Divided
<1>6. /\ CostOf(sold) \in Int /\ PnlOf(sold) \in Int /\ CostOf(lots) \in Int
      /\ PnlOf(ClosedLots(st)) \in Int /\ TopN \in Nat
  BY <1>3, <1>4, <1>5, SumsOfLots, PortfolioAssumption
<1>7. st.cash \in Int /\ st.lifetime \in Int /\ InitialCash \in Int
  BY <1>1, PortfolioAssumption DEF Shaped
<1>8. /\ st2.cash = st.cash + CostOf(sold) + PnlOf(sold) - CostOf(lots)
      /\ st2.lifetime = st.lifetime + PnlOf(sold)
  BY DEF Merged
<1>9. Shaped(st2)
  <2>1. st2.cash \in Nat /\ st2.lifetime \in Int
    BY <1>4, <1>6, <1>7, <1>8
  <2> QED BY <1>2, <2>1 DEF Shaped
<1>10. Balanced(st2)
  <2>1. PnlOf(ClosedLots(st) \cup sold) = PnlOf(ClosedLots(st)) + PnlOf(sold)
    BY <1>3, <1>5, SumsOfBoth
  <2>2. /\ st.cash + CostOf(Open(st)) = InitialCash + st.lifetime
        /\ st.lifetime = PnlOf(ClosedLots(st))
    BY <1>1, <1>5 DEF Balanced
  <2>3. st2.lots \ Open(st2) = ClosedLots(st2)
    BY <1>9, Divided
  <2>4. st2.cash + CostOf(Open(st2)) = InitialCash + st2.lifetime
    BY <1>2, <1>3, <1>6, <1>7, <1>8, <2>2
  <2>5. st2.lifetime = PnlOf(st2.lots \ Open(st2))
    BY <1>2, <1>6, <1>7, <1>8, <2>1, <2>2, <2>3
  <2> QED BY <2>4, <2>5 DEF Balanced
<1>11. Ordered(st2) /\ Apart(st2)
  BY <1>1, MergedOrdered, MergedApart
<1>12. ASSUME NEW k \in st2.lots PROVE LotOk(k) /\ k.serial <= n + TopN /\ k.day <= e
  <2>1. CASE k \in lots
    <3>1. LotOk(k) /\ k.day = e
      BY <2>1 DEF BuysAll
    <3> QED BY <1>4, <2>1, <3>1
  <2>2. CASE k \notin lots
    <3>1. PICK l \in st.lots : /\ k.serial = l.serial /\ k.day = l.day
                               /\ (l.status = "CLOSED" => k = l)
                               /\ (l.status = "OPEN" => k = h[l])
      BY <1>1, <2>2, MergedFrom
    <3>2. l.serial \in Int /\ l.serial <= n /\ l.day \in Int /\ l.day <= d /\ LotOk(l)
          /\ l.status \in {"OPEN", "CLOSED"}
      BY <1>1 DEF Shaped, Lot, Serials
    <3>3. LotOk(k)
      BY <3>1, <3>2 DEF SellsAll, Open
    <3> QED BY <1>6, <3>1, <3>2, <3>3
  <2> QED BY <2>1, <2>2
<1>13. Cardinality(Open(st2)) <= TopN
  BY <1>2, <1>4, <1>6
<1>14. st2.full \in -1..st2.asof
  OBVIOUS
<1> QED BY <1>9, <1>10, <1>11, <1>12, <1>13, <1>14 DEF Good

\* What the ledger has after a replacement: a line for each lot sold and for
\* each bought.
LEMMA MergedLedger ==
  ASSUME NEW st, Shaped(st), Ordered(st), NEW n \in Nat, \A l \in st.lots : l.serial <= n,
         NEW h, NEW sold, NEW e, SellsAll(st, h, sold, e),
         NEW g, NEW lots, NEW slot, BuysAll(g, lots, slot, n, e),
         NEW st2, Merged(st, st2, sold, lots),
         NEW L, Logged(st, L), Known(st, L), NEW L2,
         L2.buys = L.buys \cup {l.serial : l \in lots},
         L2.sells = [s \in Serials |-> IF \E l \in sold : l.serial = s
                                         THEN (CHOOSE l \in sold : l.serial = s).pnl
                                         ELSE L.sells[s]]
  PROVE  Logged(st2, L2) /\ Known(st2, L2)
<1>1. /\ ClosedLots(st2) = ClosedLots(st) \cup sold
      /\ SerialsOf(st2) = SerialsOf(st) \cup {l.serial : l \in lots}
  BY MergedLots
<1>2. /\ \A k \in sold : \E l \in Open(st) : k = h[l] /\ k.serial = l.serial
      /\ sold \subseteq Lot
  BY SoldTogether DEF Lots
<1>3. /\ \A k \in sold : k.serial \in Serials /\ k.serial \in SerialsOf(st)
      /\ \A k \in ClosedLots(st) : k.serial \in Serials /\ k \in st.lots
  BY <1>2 DEF Lot, Open, SerialsOf, ClosedLots, Shaped
<1>4. \A k, l \in sold : k.serial = l.serial => k = l
  BY <1>2 DEF Open, Ordered
<1>5. \A k \in sold : L2.sells[k.serial] = k.pnl
  <2> SUFFICES ASSUME NEW k \in sold PROVE L2.sells[k.serial] = k.pnl
    OBVIOUS
  <2> DEFINE c == CHOOSE l \in sold : l.serial = k.serial
  <2>1. c \in sold /\ c.serial = k.serial
    OBVIOUS
  <2>2. L2.sells[k.serial] = c.pnl
    BY <1>3
  <2> HIDE DEF c
  <2>3. c = k
    BY <1>4, <2>1
  <2> QED BY <2>2, <2>3
<1>6. \A k \in ClosedLots(st) : \A l \in sold : l.serial # k.serial
  <2> SUFFICES ASSUME NEW k \in ClosedLots(st), NEW l \in Open(st), l.serial = k.serial
               PROVE  FALSE
    BY <1>2
  <2>1. k \in st.lots /\ l \in st.lots /\ k.status = "CLOSED" /\ l.status = "OPEN"
    BY DEF ClosedLots, Open
  <2> QED BY <2>1 DEF Ordered
<1>7. \A k \in ClosedLots(st) : L2.sells[k.serial] = k.pnl
  <2> SUFFICES ASSUME NEW k \in ClosedLots(st) PROVE L2.sells[k.serial] = k.pnl
    OBVIOUS
  <2>1. k.serial \in Serials /\ ~\E l \in sold : l.serial = k.serial
    BY <1>3, <1>6
  <2>2. L2.sells[k.serial] = L.sells[k.serial]
    BY <2>1
  <2> QED BY <2>2 DEF Logged
<1>8. Logged(st2, L2)
  BY <1>1, <1>5, <1>7 DEF Logged
<1>9. Known(st2, L2)
  <2> SUFFICES ASSUME NEW s \in Serials, L2.sells[s] # None PROVE s \in SerialsOf(st)
    BY <1>1 DEF Known
  <2>1. CASE \E l \in sold : l.serial = s
    BY <1>3, <2>1
  <2>2. CASE ~\E l \in sold : l.serial = s
    <3>1. L.sells[s] # None
      BY <2>2
    <3> QED BY <3>1 DEF Known
  <2> QED BY <2>1, <2>2
<1> QED BY <1>8, <1>9

LEMMA RebuildKeeps ==
  ASSUME NEW quote \in [Coins -> Returns], NEW picks \in Rankings
  PROVE  IInv /\ Rebuild(quote, picks) => IInv'
<1> SUFFICES ASSUME IInv, Rebuild(quote, picks) PROVE IInv'
  OBVIOUS
<1> DEFINE sold == SoldAt(quote)
           slot == (mem.cash + CostOf(sold) + PnlOf(sold)) \div TopN
           h == [l \in Open(mem) |-> Closed(l, quote[l.coin], "VPD_FULL_REBUILD", now)]
           g == [i \in 1..TopN |->
                  [NewLot(picks[i], "FULL_REBUILD", Day(now), slot) EXCEPT !.serial = serial + i]]
           lots == {[NewLot(picks[i], "FULL_REBUILD", Day(now), slot) EXCEPT !.serial = serial + i] :
                      i \in 1..TopN}
           st2 == Rebuilt(sold, lots, slot)
<1>1. /\ run # None /\ run.mode = "rebuild" /\ run.step = "check"
      /\ slot > 0 /\ serial + TopN <= MaxSerial
      /\ disk' = st2
      /\ ledger' = [buys  |-> ledger.buys \cup {l.serial : l \in lots},
                    sells |-> [s \in Serials |->
                                IF \E l \in sold : l.serial = s
                                  THEN (CHOOSE l \in sold : l.serial = s).pnl
                                  ELSE ledger.sells[s]]]
      /\ serial' = serial + TopN /\ mem' = None /\ run' = None
      /\ UNCHANGED <<now, crashes>>
  BY DEF Rebuild, At, Quit
<1>2. /\ run \in Run /\ MemInv /\ RunInv /\ DiskInv /\ LedgerInv /\ Clocks
      /\ Good(mem, run.day, now, serial) /\ Shaped(mem) /\ Ordered(mem)
      /\ run.day \in Nat /\ run.asof \in Nat /\ now \in Nat /\ serial \in Nat
      /\ Day(now) \in Nat /\ run.day <= Day(now) /\ run.asof <= now
  BY <1>1, Running
<1>3. /\ mem = disk /\ Logged(mem, ledger) /\ Known(mem, ledger)
      /\ \A l \in ClosedLots(mem) : l.exit <= Day(now)
  BY <1>1, <1>2 DEF RunInv, MemInv, DiskInv
<1>4. \A l \in mem.lots : l \in Lot /\ LotOk(l) /\ l.serial <= serial /\ l.day <= run.day
  BY <1>2 DEF Good, Shaped
<1>5. TopN \in Nat /\ TopN > 0 /\ MaxSerial \in Nat
  BY PortfolioAssumption
<1>6. SellsAll(mem, h, sold, Day(now))
  <2>1. sold = {h[l] : l \in Open(mem)}
    BY DEF SoldAt
  <2>2. ASSUME NEW l \in Open(mem)
        PROVE  /\ h[l] \in Lot /\ Same(l, h[l]) /\ LotOk(h[l]) /\ h[l].status = "CLOSED"
               /\ h[l].exit = Day(now) /\ l.cost + h[l].pnl >= 0
    <3>1. l \in Lot /\ LotOk(l) /\ l.day \in Nat /\ l.day <= run.day
      BY <1>4 DEF Open, Lot
    <3>2. quote[l.coin] \in Returns /\ "VPD_FULL_REBUILD" \in Reasons
      BY <3>1 DEF Lot, Reasons
    <3>3. l.day <= Day(now)
      BY <1>2, <3>1
    <3>4. h[l] = Closed(l, quote[l.coin], "VPD_FULL_REBUILD", now)
      OBVIOUS
    <3> HIDE DEF h
    <3> QED BY <1>2, <3>1, <3>2, <3>3, <3>4, ClosedLot
  <2> HIDE DEF sold, h
  <2> QED BY <2>1, <2>2 DEF SellsAll
<1> HIDE DEF sold, h
<1>7. /\ Lots(sold) /\ CostOf(sold) \in Nat /\ PnlOf(sold) \in Int
      /\ CostOf(sold) + PnlOf(sold) >= 0 /\ mem.cash \in Nat
  BY <1>2, <1>6, SoldTogether, SumsOfLots DEF Shaped
<1>8. slot \in Nat /\ TopN * slot <= mem.cash + CostOf(sold) + PnlOf(sold)
  <2> DEFINE total == mem.cash + CostOf(sold) + PnlOf(sold)
  <2>1. total \in Nat
    BY <1>7
  <2> HIDE DEF total
  <2>2. total \div TopN \in Nat /\ TopN * (total \div TopN) <= total
    BY <1>5, <2>1, ShareAtMost
  <2> QED BY <2>2 DEF total
<1> HIDE DEF slot
<1>9. BuysAll(g, lots, slot, serial, Day(now))
  <2>1. lots = {g[i] : i \in 1..TopN}
    OBVIOUS
  <2>2. ASSUME NEW i \in 1..TopN
        PROVE  /\ g[i] \in Lot /\ g[i].serial = serial + i /\ g[i].status = "OPEN"
               /\ LotOk(g[i]) /\ g[i].day = Day(now) /\ g[i].cost = slot
               /\ g[i].session = "FULL_REBUILD" /\ g[i].coin = picks[i]
    <3>1. picks[i] \in Coins /\ serial + i \in Serials
      BY <1>1, <1>2, <1>5 DEF Rankings, Serials
    <3>2. g[i] = [serial |-> serial + i, coin |-> picks[i], session |-> "FULL_REBUILD",
                  day |-> Day(now), cost |-> slot, peak |-> 0, weak |-> 0, since |-> -1,
                  seen |-> {}, status |-> "OPEN", reason |-> None, exit |-> 0, pnl |-> 0]
      BY DEF NewLot
    <3> HIDE DEF g
    <3> QED BY <1>2, <1>8, <3>1, <3>2 DEF Lot, LotOk, Sessions
  <2>3. \A i, j \in 1..TopN : picks[i] = picks[j] => i = j
    BY DEF Rankings
  <2> HIDE DEF g, lots
  <2> QED BY <1>8, <2>1, <2>2, <2>3 DEF BuysAll
<1> HIDE DEF g, lots
<1>10. {l \in mem.lots : \A k \in sold : k.serial # l.serial} = ClosedLots(mem)
  <2>1. /\ \A k \in sold : \E l \in Open(mem) : k.serial = l.serial
        /\ \A l \in Open(mem) : h[l] \in sold /\ h[l].serial = l.serial
    BY <1>2, <1>6, SoldTogether
  <2>2. ASSUME NEW l \in mem.lots, l.status = "OPEN" PROVE \E k \in sold : k.serial = l.serial
    BY <2>1, <2>2 DEF Open
  <2>3. ASSUME NEW l \in mem.lots, l.status = "CLOSED", NEW k \in sold PROVE k.serial # l.serial
    BY <1>2, <2>1, <2>3 DEF Open, Ordered
  <2>4. \A l \in mem.lots : l.status \in {"OPEN", "CLOSED"}
    BY <1>4 DEF Lot
  <2> QED BY <2>2, <2>3, <2>4 DEF ClosedLots
<1>11. /\ Merged(mem, st2, sold, lots) /\ st2.today \in Int /\ st2.slot = slot
       /\ st2 = [lots |-> st2.lots, cash |-> st2.cash, today |-> st2.today,
                 lifetime |-> st2.lifetime, asof |-> st2.asof, full |-> st2.full,
                 date |-> st2.date, slot |-> st2.slot, slotDay |-> st2.slotDay]
       /\ st2.asof = run.asof /\ st2.full = run.asof
  <2>1. /\ st2.lots = ClosedLots(mem) \cup sold \cup lots
        /\ st2.cash = mem.cash + CostOf(sold) + PnlOf(sold) - CostOf(lots)
        /\ st2.lifetime = mem.lifetime + PnlOf(sold)
        /\ st2.today = (IF mem.date = Day(now) THEN mem.today ELSE 0) + PnlOf(sold)
        /\ st2.asof = run.asof /\ st2.full = run.asof /\ st2.slot = slot
        /\ st2 = [lots |-> st2.lots, cash |-> st2.cash, today |-> st2.today,
                  lifetime |-> st2.lifetime, asof |-> st2.asof, full |-> st2.full,
                  date |-> st2.date, slot |-> st2.slot, slotDay |-> st2.slotDay]
    BY <1>10 DEF Rebuilt
  <2> HIDE DEF st2
  <2>2. Merged(mem, st2, sold, lots)
    BY <2>1 DEF Merged
  <2>3. mem.today \in Int
    BY <1>2 DEF Shaped
  <2> QED BY <1>7, <2>1, <2>2, <2>3
<1> HIDE DEF st2
<1>12. Good(st2, Day(now), now, serial + TopN)
  <2>1. st2.asof \in -1..now /\ st2.full = st2.asof
    BY <1>2, <1>11
  <2> QED BY <1>2, <1>3, <1>6, <1>8, <1>9, <1>11, <2>1, MergedGood
<1>13. Logged(st2, ledger') /\ Known(st2, ledger')
  <2>1. /\ ledger'.buys = ledger.buys \cup {l.serial : l \in lots}
        /\ ledger'.sells = [s \in Serials |->
                              IF \E l \in sold : l.serial = s
                                THEN (CHOOSE l \in sold : l.serial = s).pnl
                                ELSE ledger.sells[s]]
    BY <1>1
  <2> QED BY <1>2, <1>3, <1>4, <1>6, <1>9, <1>11, <2>1, MergedLedger
<1>14. \A l \in ClosedLots(st2) : l.exit <= Day(now)
  <2>1. ClosedLots(st2) = ClosedLots(mem) \cup sold
    BY <1>2, <1>4, <1>6, <1>9, <1>11, MergedLots
  <2>2. \A l \in sold : l.exit <= Day(now)
    BY <1>2, <1>6 DEF SellsAll
  <2> QED BY <1>3, <2>1, <2>2
<1>15. DiskInv'
  BY <1>1, <1>12, <1>13, <1>14 DEF DiskInv, Day
<1>16. LedgerInv'
  <2>1. {l.serial : l \in lots} \subseteq Serials
    <3>1. Lots(lots)
      BY <1>2, <1>9, BoughtTogether
    <3> QED BY <3>1 DEF Lots, Lot
  <2>2. ASSUME NEW s \in Serials, \E l \in sold : l.serial = s
        PROVE  (CHOOSE l \in sold : l.serial = s).pnl \in Int
    <3>1. (CHOOSE l \in sold : l.serial = s) \in sold
      BY <2>2
    <3> QED BY <1>7, <3>1 DEF Lots, Lot
  <2>3. \A s \in Serials : ledger.sells[s] \in Int \cup {None}
    BY <1>2 DEF LedgerInv
  <2>4. ledger.buys \subseteq Serials
    BY <1>2 DEF LedgerInv
  <2>5. /\ ledger'.buys = ledger.buys \cup {l.serial : l \in lots}
        /\ ledger' = [buys |-> ledger'.buys, sells |-> ledger'.sells]
        /\ ledger'.sells = [s \in Serials |->
                              IF \E l \in sold : l.serial = s
                                THEN (CHOOSE l \in sold : l.serial = s).pnl
                                ELSE ledger.sells[s]]
    BY <1>1
  <2>6. ledger'.sells \in [Serials -> Int \cup {None}]
    BY <2>2, <2>3, <2>5
  <2> QED BY <2>1, <2>4, <2>5, <2>6 DEF LedgerInv
<1>17. Clocks'
  BY <1>1, <1>2, <1>5 DEF Clocks
<1> QED BY <1>1, <1>15, <1>16, <1>17 DEF IInv

-----------------------------------------------------------------------------
(* The theorems                                                            *)

\* What a quote makes of an open lot that it does not sell.
HeldAs(l, kept, r, w, s, seen) ==
  kept = [l EXCEPT !.peak = Larger(@, r), !.weak = w, !.since = s, !.seen = seen]

LEMMA HeldLot ==
  ASSUME NEW l \in Lot, LotOk(l), l.status = "OPEN", NEW r \in Int, NEW w \in Nat,
         NEW s \in Int, NEW seen \in SUBSET (0..Horizon), NEW kept,
         HeldAs(l, kept, r, w, s, seen)
  PROVE  /\ kept \in Lot /\ Same(l, kept) /\ LotOk(kept) /\ kept.status = "OPEN"
         /\ kept.since = s /\ kept.seen = seen /\ kept.reason = l.reason
<1>1. Larger(l.peak, r) \in Int
  BY DEF Larger, Lot
<1>2. kept = [serial |-> l.serial, coin |-> l.coin, session |-> l.session, day |-> l.day,
              cost |-> l.cost, peak |-> Larger(l.peak, r), weak |-> w, since |-> s,
              seen |-> seen, status |-> l.status, reason |-> l.reason, exit |-> l.exit,
              pnl |-> l.pnl]
  BY DEF Lot, HeldAs
<1> QED BY <1>1, <1>2 DEF Lot, Same, LotOk

\* An open lot of the running process.
LEMMA OpenLot ==
  ASSUME IInv, run # None, NEW l \in Open(mem)
  PROVE  /\ l \in Lot /\ LotOk(l) /\ l.status = "OPEN" /\ l \in mem.lots
         /\ l.weak \in Nat /\ l.since \in Int /\ l.seen \in SUBSET (0..Horizon)
         /\ l = [l EXCEPT !.peak = @]
<1>1. l \in mem.lots /\ l.status = "OPEN" /\ Good(mem, run.day, now, serial) /\ Shaped(mem)
  BY Running DEF Open
<1>2. l \in Lot /\ LotOk(l)
  BY <1>1 DEF Good, Shaped
<1> QED BY <1>1, <1>2 DEF Lot

\* What a rule sells for is one of the reasons.
LEMMA ProtectionIsReason ==
  ASSUME NEW l, NEW r
  PROVE  Protection(l, r) # None => Protection(l, r) \in Reasons
BY DEF Protection, Reasons

LEMMA MonitorKeeps == IInv /\ Monitor => IInv'
<1>1. ASSUME IInv, NEW l \in Held, MonitorSkips(l) PROVE IInv'
  <2>1. run # None /\ run.step = "assess" /\ l \in Open(mem) /\ Keep(l, l)
    BY <1>1 DEF MonitorSkips, At
  <2>2. l \in Lot /\ LotOk(l) /\ l.status = "OPEN"
    BY <1>1, <2>1, OpenLot
  <2> QED BY <1>1, <2>1, <2>2, KeepKeeps DEF Same
<1>2. ASSUME IInv, NEW l \in Held, NEW r \in Returns, MonitorHolds(l, r) PROVE IInv'
  <2> DEFINE kept == [l EXCEPT !.peak = Larger(@, r)]
  <2>1. run # None /\ run.step = "assess" /\ l \in Open(mem) /\ Keep(l, kept)
    BY <1>2 DEF MonitorHolds, At
  <2>2. /\ l \in Lot /\ LotOk(l) /\ l.status = "OPEN" /\ l.weak \in Nat /\ l.since \in Int
        /\ l.seen \in SUBSET (0..Horizon) /\ r \in Int
    BY <1>2, <2>1, OpenLot, PortfolioAssumption
  <2>3. HeldAs(l, kept, r, l.weak, l.since, l.seen)
    BY <2>2 DEF Lot, HeldAs
  <2> HIDE DEF kept
  <2>4. kept \in Lot /\ Same(l, kept) /\ LotOk(kept) /\ kept.status = "OPEN"
    BY <2>2, <2>3, HeldLot
  <2> QED BY <1>2, <2>1, <2>4, KeepKeeps
<1>3. ASSUME IInv, NEW l \in Held, NEW r \in Returns, MonitorSells(l, r) PROVE IInv'
  <2>1. /\ run # None /\ run.step = "assess" /\ l \in Open(mem)
        /\ Protection(l, r) # None /\ SellInMemory(l, r, Protection(l, r))
    BY <1>3 DEF MonitorSells, At
  <2>2. l \in Lot /\ LotOk(l) /\ l.status = "OPEN" /\ Protection(l, r) \in Reasons
    BY <1>3, <2>1, OpenLot, ProtectionIsReason
  <2>3. Sale(l, l, r, Protection(l, r)) /\ Same(l, l)
    BY <2>1 DEF SellInMemory, Sale, Same
  <2> QED BY <1>3, <2>1, <2>2, <2>3, SaleKeeps
<1>4. ASSUME IInv, MonitorEnds PROVE IInv'
  <2>1. run # None /\ SaveAndQuit(mem) /\ UNCHANGED <<now, ledger, serial, crashes>>
    BY <1>4 DEF MonitorEnds, At
  <2> QED BY <1>4, <2>1, MemorySaved, SavedKeeps
<1> QED BY <1>1, <1>2, <1>3, <1>4 DEF Monitor

LEMMA MorningLooksKeeps ==
  ASSUME IInv, NEW l \in Held, NEW r \in Returns, NEW signal,
         MorningHolds(l, r, signal) \/ MorningWeakens(l, r, signal)
  PROVE  IInv'
<1>1. CASE MorningHolds(l, r, signal)
  <2> DEFINE kept == [l EXCEPT !.peak = Larger(@, r), !.weak = 0, !.since = -1, !.seen = {}]
  <2>1. run # None /\ run.step = "assess" /\ l \in Open(mem) /\ Keep(l, kept)
    BY <1>1 DEF MorningHolds, At
  <2>2. l \in Lot /\ LotOk(l) /\ l.status = "OPEN" /\ r \in Int
    BY <2>1, OpenLot, PortfolioAssumption
  <2>3. 0 \in Nat /\ -1 \in Int /\ {} \in SUBSET (0..Horizon)
    OBVIOUS
  <2>4. HeldAs(l, kept, r, 0, -1, {})
    BY DEF HeldAs
  <2> HIDE DEF kept
  <2>5. kept \in Lot /\ Same(l, kept) /\ LotOk(kept) /\ kept.status = "OPEN"
    BY <2>2, <2>3, <2>4, HeldLot
  <2> QED BY <2>1, <2>5, KeepKeeps
<1>2. CASE MorningWeakens(l, r, signal)
  <2> DEFINE since == IF l.since = -1 THEN run.asof ELSE l.since
             weak  == [l EXCEPT !.peak = Larger(@, r), !.weak = @ + 1, !.since = since,
                                !.seen = @ \cup {run.asof}]
  <2>1. /\ run # None /\ run.step = "assess" /\ l \in Open(mem)
        /\ Sale(l, weak, r, "VPD_SIGNAL_DECAY") \/ Keep(l, weak)
    BY <1>2 DEF MorningWeakens, At, Sale
  <2>2. /\ l \in Lot /\ LotOk(l) /\ l.status = "OPEN" /\ l.weak \in Nat /\ l.since \in Int
        /\ l.seen \in SUBSET (0..Horizon) /\ r \in Int
    BY <2>1, OpenLot, PortfolioAssumption
  <2>3. run.asof \in 0..Horizon
    BY <2>1, Running DEF Run
  <2>4. l.weak + 1 \in Nat /\ since \in Int /\ l.seen \cup {run.asof} \in SUBSET (0..Horizon)
    BY <2>2, <2>3
  <2>5. HeldAs(l, weak, r, l.weak + 1, since, l.seen \cup {run.asof})
    BY DEF HeldAs
  <2> HIDE DEF weak, since
  <2>6. weak \in Lot /\ Same(l, weak) /\ LotOk(weak) /\ weak.status = "OPEN"
    BY <2>2, <2>4, <2>5, HeldLot
  <2>7. "VPD_SIGNAL_DECAY" \in Reasons
    BY DEF Reasons
  <2>8. CASE Keep(l, weak)
    BY <2>1, <2>6, <2>8, KeepKeeps
  <2>9. CASE Sale(l, weak, r, "VPD_SIGNAL_DECAY")
    BY <2>1, <2>6, <2>7, <2>9, SaleKeeps
  <2> QED BY <2>1, <2>8, <2>9
<1> QED BY <1>1, <1>2

LEMMA MorningKeeps == IInv /\ Morning => IInv'
<1>1. ASSUME IInv, MorningWaits PROVE IInv'
  <2>1. Quit /\ UNCHANGED <<now, disk, ledger, serial, crashes>>
    BY <1>1 DEF MorningWaits
  <2>2. crashes' \in 0..MaxCrashes
    BY <1>1, <2>1 DEF IInv, Clocks
  <2> QED BY <1>1, <2>1, <2>2, QuitKeeps
<1>2. ASSUME IInv, NEW l \in Held, NEW r \in Returns, MorningProtects(l, r) PROVE IInv'
  <2>1. /\ run # None /\ run.step = "assess" /\ l \in Open(mem)
        /\ Protection(l, r) # None /\ SellInMemory(l, r, Protection(l, r))
    BY <1>2 DEF MorningProtects, At
  <2>2. l \in Lot /\ LotOk(l) /\ l.status = "OPEN" /\ Protection(l, r) \in Reasons
    BY <1>2, <2>1, OpenLot, ProtectionIsReason
  <2>3. Sale(l, l, r, Protection(l, r)) /\ Same(l, l)
    BY <2>1 DEF SellInMemory, Sale, Same
  <2> QED BY <1>2, <2>1, <2>2, <2>3, SaleKeeps
<1> QED BY <1>1, <1>2, MorningStartsKeeps, MorningAllocatesKeeps, MorningEndsKeeps,
           MorningLooksKeeps, MorningBuysKeeps DEF Morning

LEMMA RefillKeeps == IInv /\ Refill => IInv'
<1>1. ASSUME IInv, RefillRests PROVE IInv'
  <2>1. Quit /\ UNCHANGED <<now, disk, ledger, serial, crashes>>
    BY <1>1 DEF RefillRests
  <2>2. crashes' \in 0..MaxCrashes
    BY <1>1, <2>1 DEF IInv, Clocks
  <2> QED BY <1>1, <2>1, <2>2, QuitKeeps
<1>2. ASSUME IInv, RefillEnds PROVE IInv'
  <2>1. run # None /\ SaveAndQuit(mem) /\ UNCHANGED <<now, ledger, serial, crashes>>
    BY <1>2 DEF RefillEnds, At
  <2> QED BY <1>2, <2>1, MemorySaved, SavedKeeps
<1> QED BY <1>1, <1>2, RefillStartsKeeps, RefillBuysKeeps DEF Refill

LEMMA FullRebalanceKeeps == IInv /\ FullRebalance => IInv'
<1>1. ASSUME IInv, RebuildWaits PROVE IInv'
  <2>1. Quit /\ UNCHANGED <<now, disk, ledger, serial, crashes>>
    BY <1>1 DEF RebuildWaits
  <2>2. crashes' \in 0..MaxCrashes
    BY <1>1, <2>1 DEF IInv, Clocks
  <2> QED BY <1>1, <2>1, <2>2, QuitKeeps
<1> QED BY <1>1, RebuildKeeps DEF FullRebalance

LEMMA NextIInv == IInv /\ [Next]_vars => IInv'
<1>1. ASSUME IInv, Crash PROVE IInv'
  <2>1. Quit /\ UNCHANGED <<now, disk, ledger, serial>> /\ crashes' \in 0..MaxCrashes
    BY <1>1, PortfolioAssumption DEF Crash, IInv, Clocks
  <2> QED BY <1>1, <2>1, QuitKeeps
<1>2. ASSUME IInv, UNCHANGED vars PROVE IInv'
  BY <1>2 DEF vars, IInv, Clocks, LedgerInv, DiskInv, MemInv, RunInv, Day
<1> QED BY <1>1, <1>2, TickKeeps, SaveKeeps, BeginKeeps, MonitorKeeps, MorningKeeps,
           RefillKeeps, FullRebalanceKeeps DEF Next

\* In every reachable state the state on disk and the copy in memory are good
\* ones, tied to each other and to the ledger as a death or a retry needs them.
THEOREM IInvInvariant == Spec => []IInv
<1>1. Init => IInv
  BY InitIInv
<1>2. IInv /\ [Next]_vars => IInv'
  BY NextIInv
<1> QED BY <1>1, <1>2, PTL DEF Spec

\* A good state has the shape the runs check.
LEMMA GoodIsSound ==
  ASSUME NEW st, NEW d \in Int, NEW n \in Int, Good(st, d, now, n)
  PROVE  /\ StateOK(st) /\ Cardinality(Open(st)) <= TopN /\ Balanced(st) /\ Apart(st)
<1>1. Shaped(st) /\ Ordered(st) /\ st.asof \in -1..now /\ st.full \in -1..st.asof
  BY DEF Good
<1>2. ASSUME NEW k \in Open(st), NEW l \in Open(st), k.coin = l.coin PROVE k = l
  <2>1. /\ k \in st.lots /\ l \in st.lots /\ k.status = "OPEN" /\ l.status = "OPEN"
        /\ k.serial \in Int /\ l.serial \in Int
    BY <1>1 DEF Open, Shaped, Lot, Serials
  <2>2. ~(k.serial < l.serial) /\ ~(l.serial < k.serial)
    BY <1>1, <1>2, <2>1 DEF Ordered
  <2> QED BY <1>1, <2>1, <2>2 DEF Ordered
<1>3. StateOK(st)
  BY <1>1, <1>2 DEF StateOK, Shaped, Ordered
<1> QED BY <1>3 DEF Good

\* In any mix of exits, refills, rebalancings, replacements and crashes the
\* slots, the money, the ledger and the day's closed lots agree with the state.
THEOREM Sound == Spec => []PortfolioIsSound
<1>1. IInv => PortfolioIsSound
  <2> SUFFICES ASSUME IInv PROVE PortfolioIsSound
    OBVIOUS
  <2>1. Clocks /\ LedgerInv /\ DiskInv /\ run \in Run \cup {None} /\ (mem # None => run # None)
    BY DEF IInv
  <2>2. now \in Nat /\ serial \in Nat
    BY <2>1, PortfolioAssumption DEF Clocks
  <2>3. Day(now) \in Int
    BY <2>2, DayGrows
  <2>4. ASSUME NEW st \in States
        PROVE  /\ StateOK(st) /\ Cardinality(Open(st)) <= TopN /\ Balanced(st) /\ Apart(st)
    <3>1. CASE st = disk
      BY <2>1, <2>2, <2>3, <3>1, GoodIsSound DEF DiskInv
    <3>2. CASE mem # None /\ st = mem
      <4>1. Good(mem, run.day, now, serial) /\ run.day \in Int
        BY <2>1, <3>2, Running
      <4> QED BY <2>2, <3>2, <4>1, GoodIsSound
    <3> QED BY <3>1, <3>2 DEF States
  <2>5. PTypeOK
    <3>1. StateOK(disk) /\ (mem # None => StateOK(mem))
      BY <2>4 DEF States
    <3> QED BY <2>1, <3>1 DEF PTypeOK, Clocks, LedgerInv
  <2>6. SlotsBounded /\ MoneyConserved /\ NoSameDayReentry
    BY <2>4 DEF SlotsBounded, MoneyConserved, NoSameDayReentry, Balanced, Apart
  <2>7. ResultsReconcile
    <3>1. Logged(disk, ledger) /\ Known(disk, ledger)
      BY <2>1 DEF DiskInv
    <3> QED BY <3>1 DEF ResultsReconcile, Logged, Known, ClosedLots, SerialsOf
  <2> QED BY <2>5, <2>6, <2>7 DEF PortfolioIsSound
<1> QED BY <1>1, IInvInvariant, PTL

-----------------------------------------------------------------------------
(* Two looks before a weakened signal sells                                *)

\* The lots of the next state are those of this one and the new ones N.
Adds(N) == Seen' \subseteq Seen \cup N /\ \A l \in N : Looked(l)

\* A sale and an observation each add one lot, looked at as it says.
LEMMA SaleLooks ==
  ASSUME IInv, run # None, NEW l \in Open(mem), NEW w \in Lot, NEW r, NEW why \in Reasons,
         Sale(l, w, r, why),
         why = "VPD_SIGNAL_DECAY" => \E s, t \in w.seen : t - s >= Grace /\ s # t
  PROVE  Adds({Closed(w, r, why, now)})
<1> DEFINE m == Closed(w, r, why, now)
<1>1. mem' = AfterClose(mem, l, m) /\ disk' = disk /\ Shaped(mem)
  BY Running DEF Sale
<1>2. m.status = "CLOSED" /\ m.reason = why /\ (why = "VPD_SIGNAL_DECAY" => m.seen = w.seen)
  BY DEF Closed, Lot
<1> HIDE DEF m
<1>3. Looked(m)
  BY <1>2 DEF Looked
<1>4. mem'.lots \subseteq mem.lots \cup {m}
  BY <1>1 DEF AfterClose, Shaped
<1>5. Seen' \subseteq Seen \cup {m}
  BY <1>1, <1>4 DEF Seen
<1> QED BY <1>3, <1>5 DEF Adds, m

LEMMA KeepLooks ==
  ASSUME IInv, run # None, NEW l \in Open(mem), NEW kept, Keep(l, kept), Looked(kept)
  PROVE  Adds({kept})
<1>1. mem' = [mem EXCEPT !.lots = (@ \ {l}) \cup {kept}] /\ disk' = disk /\ Shaped(mem)
  BY Running DEF Keep
<1>2. mem'.lots \subseteq mem.lots \cup {kept}
  BY <1>1 DEF Shaped
<1>3. Seen' \subseteq Seen \cup {kept}
  BY <1>1, <1>2 DEF Seen
<1> QED BY <1>3 DEF Adds

LEMMA MonitorLooks ==
  ASSUME IInv, LooksInv, Monitor
  PROVE  \E N : Adds(N)
<1>1. ASSUME NEW l \in Held, MonitorSkips(l) PROVE \E N : Adds(N)
  <2>1. run # None /\ l \in Open(mem) /\ Keep(l, l)
    BY <1>1 DEF MonitorSkips, At
  <2>2. Looked(l)
    BY <2>1, OpenLot DEF LooksInv, Seen
  <2>3. Adds({l})
    BY <2>1, <2>2, KeepLooks
  <2> QED BY <2>3
<1>2. ASSUME NEW l \in Held, NEW r \in Returns, MonitorHolds(l, r) PROVE \E N : Adds(N)
  <2> DEFINE kept == [l EXCEPT !.peak = Larger(@, r)]
  <2>1. run # None /\ l \in Open(mem) /\ Keep(l, kept)
    BY <1>2 DEF MonitorHolds, At
  <2>2. Looked(l) /\ l \in Lot
    BY <2>1, OpenLot DEF LooksInv, Seen
  <2>3. /\ kept.status = l.status /\ kept.since = l.since /\ kept.seen = l.seen
        /\ kept.reason = l.reason
    BY <2>2 DEF Lot
  <2> HIDE DEF kept
  <2>4. Looked(kept)
    BY <2>2, <2>3 DEF Looked
  <2>5. Adds({kept})
    BY <2>1, <2>4, KeepLooks
  <2> QED BY <2>5
<1>3. ASSUME NEW l \in Held, NEW r \in Returns, MonitorSells(l, r) PROVE \E N : Adds(N)
  <2>1. /\ run # None /\ l \in Open(mem)
        /\ Protection(l, r) # None /\ SellInMemory(l, r, Protection(l, r))
    BY <1>3 DEF MonitorSells, At
  <2>2. /\ l \in Lot /\ Protection(l, r) \in Reasons /\ Protection(l, r) # "VPD_SIGNAL_DECAY"
    BY <2>1, OpenLot, ProtectionIsReason DEF Protection
  <2>3. Sale(l, l, r, Protection(l, r))
    BY <2>1 DEF SellInMemory, Sale
  <2>4. Adds({Closed(l, r, Protection(l, r), now)})
    BY <2>1, <2>2, <2>3, SaleLooks
  <2> QED BY <2>4
<1>4. ASSUME MonitorEnds PROVE Adds({})
  BY <1>4 DEF MonitorEnds, At, SaveAndQuit, Quit, Adds, Seen
<1> QED BY <1>1, <1>2, <1>3, <1>4 DEF Monitor

LEMMA MorningLooks ==
  ASSUME Grace > 0, IInv, LooksInv, NEW l \in Held, NEW r \in Returns, NEW signal,
         MorningProtects(l, r) \/ MorningHolds(l, r, signal) \/ MorningWeakens(l, r, signal)
  PROVE  \E N : Adds(N)
<1>1. CASE MorningProtects(l, r)
  <2>1. /\ run # None /\ l \in Open(mem)
        /\ Protection(l, r) # None /\ SellInMemory(l, r, Protection(l, r))
    BY <1>1 DEF MorningProtects, At
  <2>2. /\ l \in Lot /\ Protection(l, r) \in Reasons /\ Protection(l, r) # "VPD_SIGNAL_DECAY"
    BY <2>1, OpenLot, ProtectionIsReason DEF Protection
  <2>3. Sale(l, l, r, Protection(l, r))
    BY <2>1 DEF SellInMemory, Sale
  <2>4. Adds({Closed(l, r, Protection(l, r), now)})
    BY <2>1, <2>2, <2>3, SaleLooks
  <2> QED BY <2>4
<1>2. CASE MorningHolds(l, r, signal)
  <2> DEFINE kept == [l EXCEPT !.peak = Larger(@, r), !.weak = 0, !.since = -1, !.seen = {}]
  <2>1. run # None /\ l \in Open(mem) /\ Keep(l, kept)
    BY <1>2 DEF MorningHolds, At
  <2>2. l \in Lot /\ LotOk(l) /\ l.status = "OPEN" /\ r \in Int
    BY <2>1, OpenLot, PortfolioAssumption
  <2>3. kept.since = -1 /\ kept.reason = l.reason
    BY <2>2 DEF Lot
  <2> HIDE DEF kept
  <2>4. l.reason # "VPD_SIGNAL_DECAY"
    BY <2>2, PortfolioAssumption DEF LotOk, Reasons
  <2>5. Looked(kept)
    BY <2>3, <2>4 DEF Looked
  <2>6. Adds({kept})
    BY <2>1, <2>5, KeepLooks
  <2> QED BY <2>6
<1>3. CASE MorningWeakens(l, r, signal)
  <2> DEFINE since == IF l.since = -1 THEN run.asof ELSE l.since
             weak  == [l EXCEPT !.peak = Larger(@, r), !.weak = @ + 1, !.since = since,
                                !.seen = @ \cup {run.asof}]
  <2>1. /\ run # None /\ l \in Open(mem)
        /\ \/ Sale(l, weak, r, "VPD_SIGNAL_DECAY") /\ run.asof - since >= Grace
           \/ Keep(l, weak)
    BY <1>3 DEF MorningWeakens, At, Sale
  <2>2. /\ l \in Lot /\ LotOk(l) /\ l.status = "OPEN" /\ l.weak \in Nat /\ l.since \in Int
        /\ l.seen \in SUBSET (0..Horizon) /\ r \in Int /\ Looked(l)
    BY <2>1, OpenLot, PortfolioAssumption DEF LooksInv, Seen
  <2>3. run.asof \in 0..Horizon /\ run.asof \in Int
    BY <2>1, Running DEF Run
  <2>4. l.weak + 1 \in Nat /\ since \in Int /\ l.seen \cup {run.asof} \in SUBSET (0..Horizon)
    BY <2>2, <2>3
  <2>5. since \in l.seen \cup {run.asof}
    BY <2>2 DEF Looked
  <2>6. HeldAs(l, weak, r, l.weak + 1, since, l.seen \cup {run.asof})
    BY DEF HeldAs
  <2> HIDE DEF weak, since
  <2>7. /\ weak \in Lot /\ weak.since = since /\ weak.reason = l.reason
        /\ weak.seen = l.seen \cup {run.asof}
    BY <2>2, <2>4, <2>6, HeldLot
  <2>8. CASE Keep(l, weak)
    <3>1. l.reason # "VPD_SIGNAL_DECAY"
      BY <2>2, PortfolioAssumption DEF LotOk, Reasons
    <3>2. Looked(weak)
      BY <2>5, <2>7, <3>1 DEF Looked
    <3>3. Adds({weak})
      BY <2>1, <2>8, <3>2, KeepLooks
    <3> QED BY <3>3
  <2>9. CASE Sale(l, weak, r, "VPD_SIGNAL_DECAY") /\ run.asof - since >= Grace
    <3>1. run.asof # since
      BY <2>3, <2>4, <2>9, PortfolioAssumption
    <3>2. \E s, t \in weak.seen : t - s >= Grace /\ s # t
      BY <2>5, <2>7, <2>9, <3>1
    <3>3. "VPD_SIGNAL_DECAY" \in Reasons
      BY DEF Reasons
    <3>4. Adds({Closed(weak, r, "VPD_SIGNAL_DECAY", now)})
      BY <2>1, <2>7, <2>9, <3>2, <3>3, SaleLooks
    <3> QED BY <3>4
  <2> QED BY <2>1, <2>8, <2>9
<1> QED BY <1>1, <1>2, <1>3

\* A purchase starts without a look.
LEMMA BuyLooks ==
  ASSUME IInv, run # None, NEW lot, lot.since = -1, lot.reason = None,
         mem' = AfterBuy(mem, lot), disk' = disk
  PROVE  Adds({lot})
<1>1. Looked(lot)
  BY PortfolioAssumption DEF Looked, Reasons
<1>2. mem'.lots \subseteq mem.lots \cup {lot}
  BY Running DEF AfterBuy, Shaped
<1>3. Seen' \subseteq Seen \cup {lot}
  BY <1>2 DEF Seen
<1> QED BY <1>1, <1>3 DEF Adds

LEMMA RebuildLooks ==
  ASSUME IInv, NEW quote, NEW picks, Rebuild(quote, picks)
  PROVE  \E N : Adds(N)
<1> DEFINE sold == SoldAt(quote)
           slot == (mem.cash + CostOf(sold) + PnlOf(sold)) \div TopN
           lots == {[NewLot(picks[i], "FULL_REBUILD", Day(now), slot) EXCEPT !.serial = serial + i] :
                      i \in 1..TopN}
<1>1. /\ run # None /\ run' = None /\ disk' = Rebuilt(sold, lots, slot)
  BY DEF Rebuild, At, Quit
<1>2. Shaped(mem)
  BY <1>1, Running
<1>3. \A k \in sold : Looked(k)
  <2> SUFFICES ASSUME NEW l \in Open(mem)
               PROVE  Looked(Closed(l, quote[l.coin], "VPD_FULL_REBUILD", now))
    BY DEF SoldAt
  <2> DEFINE k == Closed(l, quote[l.coin], "VPD_FULL_REBUILD", now)
  <2>1. l \in Lot
    BY <1>2 DEF Open, Shaped
  <2>2. k.status = "CLOSED" /\ k.reason = "VPD_FULL_REBUILD"
    BY <2>1 DEF Closed, Lot
  <2> QED BY <2>2 DEF Looked
<1>4. \A k \in lots : Looked(k)
  <2> SUFFICES ASSUME NEW i \in 1..TopN
               PROVE  Looked([NewLot(picks[i], "FULL_REBUILD", Day(now), slot)
                                EXCEPT !.serial = serial + i])
    OBVIOUS
  <2> DEFINE k == [NewLot(picks[i], "FULL_REBUILD", Day(now), slot) EXCEPT !.serial = serial + i]
  <2> HIDE DEF slot
  <2>1. k.since = -1 /\ k.reason = None
    BY DEF NewLot
  <2> QED BY <2>1, PortfolioAssumption DEF Looked, Reasons
<1> HIDE DEF sold, lots, slot
<1>5. disk'.lots \subseteq mem.lots \cup sold \cup lots
  BY <1>1 DEF Rebuilt
<1>6. Seen' \subseteq Seen \cup (sold \cup lots)
  BY <1>1, <1>5 DEF Seen
<1>7. Adds(sold \cup lots)
  BY <1>3, <1>4, <1>6 DEF Adds
<1> QED BY <1>7

LEMMA OtherLooks ==
  ASSUME IInv, Tick \/ Crash \/ SaveAfterSale \/ MorningWaits \/ MorningStarts
               \/ MorningAllocates \/ MorningEnds \/ RefillStarts \/ RefillRests \/ RefillEnds
               \/ RebuildWaits \/ (\E mode : Begin(mode)) \/ UNCHANGED vars
  PROVE  Adds({})
<1>1. CASE Tick \/ Crash \/ SaveAfterSale \/ MorningWaits \/ MorningAllocates \/ RefillRests
           \/ RefillEnds \/ RebuildWaits \/ UNCHANGED vars
  BY <1>1 DEF Tick, Crash, SaveAfterSale, MorningWaits, MorningAllocates, RefillRests,
              RefillEnds, RebuildWaits, vars, At, Quit, SaveAndQuit, Adds, Seen
<1>2. CASE \E mode : Begin(mode)
  BY <1>2 DEF Begin, Adds, Seen
<1>3. CASE MorningStarts \/ MorningEnds \/ RefillStarts
  <2>1. run # None /\ Shaped(mem)
    BY <1>3, Running DEF MorningStarts, MorningEnds, RefillStarts, At
  <2>2. CASE MorningStarts
    <3>1. mem'.lots = mem.lots /\ disk' = disk
      BY <2>1, <2>2 DEF MorningStarts, Shaped
    <3> QED BY <2>1, <3>1 DEF Adds, Seen
  <2>3. CASE MorningEnds
    <3>1. disk'.lots = mem.lots /\ run' = None
      BY <2>1, <2>3 DEF MorningEnds, SaveAndQuit, Quit, Shaped
    <3> QED BY <2>1, <3>1 DEF Adds, Seen
  <2>4. CASE RefillStarts
    <3>1. mem'.lots = mem.lots /\ (disk' = disk \/ disk' = mem')
      BY <2>1, <2>4 DEF RefillStarts, Shaped
    <3> QED BY <2>1, <3>1 DEF Adds, Seen
  <2> QED BY <1>3, <2>2, <2>3, <2>4
<1> QED BY <1>1, <1>2, <1>3

\* Every lot in every reachable state was looked at as its counters say.
LEMMA NextLooks == Grace > 0 /\ IInv /\ LooksInv /\ [Next]_vars => LooksInv'
<1> SUFFICES ASSUME Grace > 0, IInv, LooksInv, [Next]_vars PROVE LooksInv'
  OBVIOUS
<1>1. ASSUME NEW c \in Coins, MorningBuys(c) PROVE \E N : Adds(N)
  <2> DEFINE lot == NewLot(c, "REQUEST", run.day, run.slot)
  <2>1. run # None /\ mem' = AfterBuy(mem, lot) /\ disk' = disk
    BY <1>1 DEF MorningBuys, At
  <2>2. lot.since = -1 /\ lot.reason = None
    BY DEF NewLot
  <2> HIDE DEF lot
  <2>3. Adds({lot})
    BY <2>1, <2>2, BuyLooks
  <2> QED BY <2>3
<1>2. ASSUME NEW c \in Coins, RefillBuys(c) PROVE \E N : Adds(N)
  <2> DEFINE lot == NewLot(c, "REFILL", run.day, run.slot)
  <2>1. run # None /\ mem' = AfterBuy(mem, lot) /\ disk' = disk
    BY <1>2 DEF RefillBuys, At
  <2>2. lot.since = -1 /\ lot.reason = None
    BY DEF NewLot
  <2> HIDE DEF lot
  <2>3. Adds({lot})
    BY <2>1, <2>2, BuyLooks
  <2> QED BY <2>3
<1>3. \E N : Adds(N)
  <2>1. CASE Morning
    BY <1>1, <2>1, OtherLooks, MorningLooks DEF Morning
  <2>2. CASE Refill \/ FullRebalance
    BY <1>2, <2>2, OtherLooks, RebuildLooks DEF Refill, FullRebalance
  <2>3. CASE ~Morning /\ ~Refill /\ ~FullRebalance
    BY <2>3, OtherLooks, MonitorLooks DEF Next
  <2> QED BY <2>1, <2>2, <2>3
<1>4. PICK N : Adds(N)
  BY <1>3
<1>5. ASSUME NEW l \in Seen' PROVE Looked(l)
  BY <1>4, <1>5 DEF Adds, LooksInv
<1> QED BY <1>5 DEF LooksInv, Looked

\* A weakened signal sells only after two different observations that lie the
\* grace apart, also when a run died after it had saved a count.
THEOREM Confirmed == Spec => []DecayIsConfirmed
<1>1. CASE Grace > 0
  <2>1. Init => LooksInv
    BY DEF Init, Empty, LooksInv, Seen
  <2>2. LooksInv => DecayIsConfirmed
    BY DEF LooksInv, Seen, Looked, DecayIsConfirmed
  <2>3. IInv /\ LooksInv /\ [Next]_vars => LooksInv'
    BY <1>1, NextLooks
  <2> QED BY <2>1, <2>2, <2>3, IInvInvariant, PTL DEF Spec
<1>2. CASE ~(Grace > 0)
  <2>1. DecayIsConfirmed
    BY <1>2 DEF DecayIsConfirmed
  <2> QED BY <2>1, PTL
<1> QED BY <1>1, <1>2

-----------------------------------------------------------------------------
(* FlowPaper: the account of a strategy under the observer.                  *)

Accounts ==
  [kind : {"FLOW", "DAYHOLD"}, cash : Nat, realized : Int, paused : BOOLEAN, resumed : ResumeIds \cup {0},
   positions : [Markets -> Holdings \cup {NoValue}], pending : [Markets -> Orders \cup {NoValue}],
   signals : [Markets -> SignalRows \cup {NoValue}], bought : [Markets -> Nat \cup {NoValue}],
   trades : [Markets -> SeenTrades \cup {NoValue}], regime : [state : Regimes \cup {"UNAVAILABLE"}, ts : Nat]]

\* An order waits beside its row, of a market that is not held.
RowSound(A, s) ==
  LET order == A.pending[s]
      row == A.signals[s]
  IN /\ order # NoValue =>
          /\ A.positions[s] = NoValue /\ order.ref <= order.budget * Parts
          /\ row # NoValue /\ row.status = "PENDING" /\ row.ts = order.ts /\ row.day = order.day
     /\ row # NoValue /\ row.status = "PENDING" => order # NoValue
     /\ row # NoValue /\ row.status = "BOUGHT" => A.bought[s] \in Nat /\ A.bought[s] >= row.ts

SoundAccount(A) ==
  /\ A \in Accounts
  /\ \A s \in Markets : RowSound(A, s)
  /\ Reserved(A) <= A.cash /\ A.cash + Invested(A) = SeedCash + A.realized
  /\ Cardinality(Positions(A)) + Cardinality(Pending(A)) <= Slots

FlowInv ==
  /\ extent \in FlowScopes /\ moment \in Nat /\ faults \in Nat
  /\ gapAt \in [Markets -> Nat] /\ (\A s \in Markets : gapAt[s] <= moment)
  /\ SoundAccount(acct)
  /\ \A s \in Markets : acct.pending[s] # NoValue => acct.pending[s].ts >= gapAt[s]
  /\ FillsAreCausal

-----------------------------------------------------------------------------
(* A call that buys and sells nothing leaves an account no worse: orders may *)
(* be canceled, stops raised, exits decided.                                 *)

\* The same position, as well protected.
Guarded(p, q) ==
  IF p = NoValue THEN q = NoValue
  ELSE /\ q # NoValue /\ q.qty = p.qty /\ q.cost = p.cost /\ q.lastSell = p.lastSell
       /\ q.stop >= p.stop /\ (p.exit # NoValue => q.exit = p.exit)

Milder(A, B) ==
  /\ B \in Accounts /\ B.cash = A.cash /\ B.realized = A.realized /\ B.bought = A.bought /\ B.kind = A.kind
  /\ \A s \in Markets :
       /\ Guarded(A.positions[s], B.positions[s])
       /\ \/ B.pending[s] = A.pending[s] /\ B.signals[s] = A.signals[s]
          \/ /\ A.pending[s] # NoValue /\ B.pending[s] = NoValue
             /\ B.signals[s] = [A.signals[s] EXCEPT !.status = "SKIPPED"]

\* What the assumptions say, fact by fact.
LEMMA FlowConstants ==
  /\ IsFiniteSet(Markets) /\ Slots \in Nat /\ SeedCash \in Nat /\ MinBudget \in Nat /\ FlowDay \in Nat \ {0}
  /\ NoValue \notin Int /\ NoValue \notin Orders /\ NoValue \notin SignalRows
  /\ NoValue \notin Holdings /\ NoValue \notin SeenTrades
BY FlowAssumption

\* The fields of an account and of its rows.
LEMMA Fields ==
  ASSUME NEW A \in Accounts
  PROVE  /\ A.kind \in {"FLOW", "DAYHOLD"} /\ A.cash \in Nat /\ A.realized \in Int /\ A.paused \in BOOLEAN
         /\ A.positions \in [Markets -> Holdings \cup {NoValue}]
         /\ A.pending \in [Markets -> Orders \cup {NoValue}]
         /\ A.signals \in [Markets -> SignalRows \cup {NoValue}]
         /\ A.bought \in [Markets -> Nat \cup {NoValue}]
         /\ A.trades \in [Markets -> SeenTrades \cup {NoValue}]
         /\ A.regime.state \in Regimes \cup {"UNAVAILABLE"} /\ A.regime.ts \in Nat
BY DEF Accounts

\* What is reserved and what is invested are numbers.
Promise(A) == [s \in Markets |-> IF A.pending[s] = NoValue THEN 0 ELSE A.pending[s].budget]
Stake(A) == [s \in Markets |-> IF A.positions[s] = NoValue THEN 0 ELSE A.positions[s].cost]
LEMMA Sums ==
  ASSUME NEW A \in Accounts
  PROVE  /\ Reserved(A) = SumFunctionOnSet(Promise(A), Markets)
         /\ Invested(A) = SumFunctionOnSet(Stake(A), Markets)
         /\ \A s \in Markets : Promise(A)[s] \in Nat /\ Stake(A)[s] \in Nat
         /\ Reserved(A) \in Nat /\ Invested(A) \in Nat
         /\ \A s \in Markets : Promise(A)[s] <= Reserved(A)
<1>1. \A s \in Markets : Promise(A)[s] \in Nat /\ Stake(A)[s] \in Nat
  BY Fields DEF Promise, Stake, Orders, Holdings
<1>2. Reserved(A) = SumFunctionOnSet(Promise(A), Markets) /\ Invested(A) = SumFunctionOnSet(Stake(A), Markets)
  BY DEF Reserved, Invested, Promise, Stake
<1> QED BY <1>1, <1>2, FlowConstants, SumNatural

LEMMA Counts ==
  ASSUME NEW A
  PROVE  /\ Positions(A) \subseteq Markets /\ IsFiniteSet(Positions(A)) /\ Cardinality(Positions(A)) \in Nat
         /\ Pending(A) \subseteq Markets /\ IsFiniteSet(Pending(A)) /\ Cardinality(Pending(A)) \in Nat
<1>1. Positions(A) \subseteq Markets /\ Pending(A) \subseteq Markets
  BY DEF Positions, Pending
<1> QED BY <1>1, FlowConstants, FS_Subset, FS_CardinalityType

LEMMA MilderSound ==
  ASSUME NEW A, NEW B, SoundAccount(A), Milder(A, B)
  PROVE  SoundAccount(B)
<1>1. A \in Accounts /\ B \in Accounts
  BY DEF SoundAccount, Milder
<1>2. Invested(B) = Invested(A)
  <2>1. \A s \in Markets : Stake(A)[s] = Stake(B)[s]
    BY DEF Milder, Guarded, Stake
  <2> QED BY <1>1, <2>1, Sums, FlowConstants, SumSame
<1>3. Reserved(B) <= Reserved(A)
  <2>1. \A s \in Markets : Promise(B)[s] <= Promise(A)[s] /\ Promise(B)[s] \in Int /\ Promise(A)[s] \in Int
    <3> SUFFICES ASSUME NEW s \in Markets PROVE Promise(B)[s] <= Promise(A)[s]
      BY <1>1, Sums
    <3>1. Promise(B)[s] = Promise(A)[s] \/ Promise(B)[s] = 0
      BY DEF Milder, Promise
    <3> QED BY <1>1, <3>1, Sums
  <2> QED BY <1>1, <2>1, Sums, FlowConstants, SumAtMost
<1>4. Positions(B) = Positions(A) /\ Cardinality(Pending(B)) <= Cardinality(Pending(A))
  <2>1. Positions(B) = Positions(A)
    BY DEF Milder, Guarded, Positions
  <2>2. Pending(B) \subseteq Pending(A)
    BY DEF Milder, Pending
  <2> QED BY <2>1, <2>2, Counts, FS_Subset
<1>5. ASSUME NEW s \in Markets PROVE RowSound(B, s)
  <2>1. RowSound(A, s) /\ Guarded(A.positions[s], B.positions[s]) /\ B.bought = A.bought
    BY DEF SoundAccount, Milder
  <2>2. CASE B.pending[s] = A.pending[s] /\ B.signals[s] = A.signals[s]
    BY <2>1, <2>2 DEF RowSound, Guarded
  <2>3. CASE /\ A.pending[s] # NoValue /\ B.pending[s] = NoValue
             /\ B.signals[s] = [A.signals[s] EXCEPT !.status = "SKIPPED"]
    <3>1. A.signals[s] \in SignalRows
      BY <1>1, <2>1, <2>3, Fields DEF RowSound
    <3>2. B.signals[s].status = "SKIPPED"
      BY <2>3, <3>1 DEF SignalRows
    <3> QED BY <2>3, <3>2 DEF RowSound
  <2> QED BY <2>2, <2>3 DEF Milder
<1>6. B.cash = A.cash /\ B.realized = A.realized /\ Reserved(A) <= A.cash /\ A.cash + Invested(A) = SeedCash + A.realized
      /\ Cardinality(Positions(A)) + Cardinality(Pending(A)) <= Slots
  BY DEF SoundAccount, Milder
<1>7. Cardinality(Pending(B)) \in Nat /\ Cardinality(Pending(A)) \in Nat /\ Cardinality(Positions(A)) \in Nat
  BY Counts
<1> QED BY <1>1, <1>2, <1>3, <1>4, <1>5, <1>6, <1>7, Sums, Fields, FlowConstants DEF SoundAccount

LEMMA MilderTwice ==
  ASSUME NEW A, NEW B, NEW C, A \in Accounts, Milder(A, B), Milder(B, C)
  PROVE  Milder(A, C)
<1>0. B \in Accounts /\ C \in Accounts
  BY DEF Milder
<1>1. ASSUME NEW s \in Markets PROVE Guarded(A.positions[s], C.positions[s])
  <2>1. Guarded(A.positions[s], B.positions[s]) /\ Guarded(B.positions[s], C.positions[s])
    BY DEF Milder
  <2>2. A.positions[s] # NoValue => A.positions[s].stop \in Int
    BY Fields DEF Holdings
  <2>3. B.positions[s] # NoValue => B.positions[s].stop \in Int
    BY <1>0, Fields DEF Holdings
  <2>4. C.positions[s] # NoValue => C.positions[s].stop \in Int
    BY <1>0, Fields DEF Holdings
  <2> QED BY <2>1, <2>2, <2>3, <2>4 DEF Guarded
<1>2. ASSUME NEW s \in Markets
      PROVE  \/ C.pending[s] = A.pending[s] /\ C.signals[s] = A.signals[s]
             \/ /\ A.pending[s] # NoValue /\ C.pending[s] = NoValue
                /\ C.signals[s] = [A.signals[s] EXCEPT !.status = "SKIPPED"]
  BY DEF Milder
<1> QED BY <1>1, <1>2 DEF Milder

-----------------------------------------------------------------------------
(* The calls that buy and sell nothing.                                      *)

LEMMA MilderSame == ASSUME NEW A \in Accounts PROVE Milder(A, A)
<1>1. \A s \in Markets : A.positions[s] # NoValue => A.positions[s].stop \in Int
  BY Fields DEF Holdings
<1> QED BY <1>1 DEF Milder, Guarded

\* Another table of positions.
LEMMA Repositioned ==
  ASSUME NEW A \in Accounts, NEW g \in [Markets -> Holdings \cup {NoValue}], NEW B,
         B = [A EXCEPT !.positions = g]
  PROVE  /\ B \in Accounts /\ B.positions = g
         /\ B.kind = A.kind /\ B.cash = A.cash /\ B.realized = A.realized /\ B.paused = A.paused
         /\ B.pending = A.pending /\ B.signals = A.signals /\ B.bought = A.bought /\ B.trades = A.trades
         /\ B.regime = A.regime
BY DEF Accounts

\* Another position in the place of one that is as well protected.
Put(A, s, q) == [A EXCEPT !.positions[s] = q]
LEMMA OneHeld ==
  ASSUME NEW A \in Accounts, NEW s \in Markets, NEW q \in Holdings, Guarded(A.positions[s], q)
  PROVE  /\ Milder(A, Put(A, s, q)) /\ Put(A, s, q).positions[s] = q
         /\ Put(A, s, q).pending = A.pending /\ Put(A, s, q).signals = A.signals
         /\ Put(A, s, q).trades = A.trades
<1> DEFINE B == Put(A, s, q)
           g == [A.positions EXCEPT ![s] = q]
<1>1. g \in [Markets -> Holdings \cup {NoValue}] /\ g[s] = q /\ \A x \in Markets \ {s} : g[x] = A.positions[x]
  BY Fields
<1>2. B = [A EXCEPT !.positions = g]
  BY DEF Put
<1> HIDE DEF g, B
<1>3. /\ B \in Accounts /\ B.positions = g
      /\ B.kind = A.kind /\ B.cash = A.cash /\ B.realized = A.realized /\ B.paused = A.paused
      /\ B.pending = A.pending /\ B.signals = A.signals /\ B.bought = A.bought /\ B.trades = A.trades
      /\ B.regime = A.regime
  BY <1>1, <1>2 DEF Accounts
<1>4. \A x \in Markets : A.positions[x] # NoValue => A.positions[x].stop \in Int
  BY Fields DEF Holdings
<1>5. \A x \in Markets : Guarded(A.positions[x], B.positions[x])
  BY <1>1, <1>3, <1>4 DEF Guarded
<1> QED BY <1>1, <1>3, <1>5 DEF Milder, B

\* B is A after the rules of a book: an exit may be decided now.
Ruled(A, B, s, ts) ==
  /\ Milder(A, B) /\ B.pending = A.pending /\ B.signals = A.signals
  /\ B.positions[s].exit = A.positions[s].exit \/ (A.positions[s].exit = NoValue /\ B.positions[s].exit = ts)

LEMMA RequestExitRules ==
  ASSUME NEW A \in Accounts, NEW s \in Markets, NEW ts \in Nat, A.positions[s] # NoValue
  PROVE  Ruled(A, RequestExit(A, s, ts), s, ts)
<1> DEFINE p == A.positions[s]
           q == [p EXCEPT !.exit = ts]
<1>1. p \in Holdings
  BY Fields
<1>2. CASE p.exit = NoValue
  <2>1. q \in Holdings /\ Guarded(p, q) /\ q.exit = ts
    BY <1>1, <1>2, FlowConstants DEF Holdings, Guarded
  <2>2. RequestExit(A, s, ts) = Put(A, s, q)
    BY <1>2 DEF RequestExit, Put
  <2> DEFINE B == RequestExit(A, s, ts)
  <2> HIDE DEF q, B
  <2>3. B = Put(A, s, q)
    BY <2>2 DEF B
  <2>4. Milder(A, B) /\ B.positions[s] = q /\ B.pending = A.pending /\ B.signals = A.signals
    BY <2>1, <2>3, OneHeld
  <2>5. Ruled(A, B, s, ts)
    BY <1>2, <2>1, <2>4 DEF Ruled
  <2> QED BY <2>5 DEF B
<1>3. CASE p.exit # NoValue
  BY <1>3, MilderSame DEF RequestExit, Ruled
<1> QED BY <1>2, <1>3

LEMMA RuledTwice ==
  ASSUME NEW A \in Accounts, NEW B, NEW C, NEW s \in Markets, NEW ts \in Nat, Ruled(A, B, s, ts), Ruled(B, C, s, ts)
  PROVE  Ruled(A, C, s, ts)
BY MilderTwice, FlowConstants DEF Ruled

LEMMA FlowRulesRule ==
  ASSUME NEW A \in Accounts, NEW s \in Markets, NEW ts \in Nat, A.positions[s] # NoValue, NEW b
  PROVE  Ruled(A, FlowRules(A, s, ts, b), s, ts)
<1>1. FlowRules(A, s, ts, b) = RequestExit(A, s, ts) \/ FlowRules(A, s, ts, b) = A
  BY DEF FlowRules
<1> QED BY <1>1, RequestExitRules, MilderSame DEF Ruled

LEMMA DayHoldRulesRule ==
  ASSUME NEW A \in Accounts, NEW s \in Markets, NEW ts \in Nat, A.positions[s] # NoValue, NEW b, b.stamp \in Int
  PROVE  Ruled(A, DayHoldRules(A, s, ts, b), s, ts)
<1> DEFINE p == A.positions[s]
           r == 12 * Return(p, b)
           near == 4 * r <= -3 * p.sl * p.orig
           recovered == 5 * r > -3 * p.sl * p.orig
           warn == IF near THEN (IF p.warn = NoValue THEN ts ELSE p.warn)
                   ELSE IF recovered THEN NoValue ELSE p.warn
           lost == r <= -p.sl * p.orig
           won == r >= p.tp * p.orig
           covered == b.bids >= p.qty
           calm == covered /\ ~lost /\ ~won
           q == [p EXCEPT !.seen = b.stamp, !.uncertain = FALSE, !.warn = IF calm THEN warn ELSE @]
           seen == [A EXCEPT !.positions[s].seen = b.stamp, !.positions[s].uncertain = FALSE,
                             !.positions[s].warn = IF calm THEN warn ELSE @]
<1>1. p \in Holdings /\ p.warn \in Nat \cup {NoValue}
  BY Fields DEF Holdings
<1>2. warn \in Nat \cup {NoValue}
  BY <1>1
<1>3. DayHoldRules(A, s, ts, b) = RequestExit(seen, s, ts) \/ DayHoldRules(A, s, ts, b) = seen
  BY DEF DayHoldRules
<1> HIDE DEF warn, calm
<1>9. p.warn \in Nat \cup {NoValue} /\ (IF calm THEN warn ELSE p.warn) \in Nat \cup {NoValue}
  BY <1>1, <1>2
<1>4. q \in Holdings /\ Guarded(p, q) /\ q.exit = p.exit
  <2> DEFINE w == IF calm THEN warn ELSE p.warn
  <2>1. q = [p EXCEPT !.seen = b.stamp, !.uncertain = FALSE, !.warn = w]
    OBVIOUS
  <2>2. w \in Nat \cup {NoValue}
    BY <1>9
  <2> HIDE DEF p, q, w
  <2>3. /\ q \in Holdings /\ q.qty = p.qty /\ q.cost = p.cost /\ q.lastSell = p.lastSell
        /\ q.stop = p.stop /\ q.exit = p.exit /\ p.stop \in Int
    BY <1>1, <2>1, <2>2 DEF Holdings
  <2> QED BY <1>1, <2>3, FlowConstants DEF Guarded
<1>5. seen = Put(A, s, q)
  BY Fields DEF Put
<1> HIDE DEF q, seen
<1>6. Ruled(A, seen, s, ts) /\ seen.positions[s] = q
  <2>1. /\ Milder(A, seen) /\ seen.positions[s] = q /\ seen.pending = A.pending
        /\ seen.signals = A.signals
    BY <1>4, <1>5, OneHeld
  <2> QED BY <1>4, <2>1 DEF Ruled
<1>7. seen \in Accounts /\ seen.positions[s] # NoValue
  BY <1>4, <1>6, FlowConstants DEF Ruled, Milder
<1> QED BY <1>3, <1>6, <1>7, RequestExitRules, RuledTwice

LEMMA CancelAllMild ==
  ASSUME NEW A, SoundAccount(A), NEW S
  PROVE  /\ Milder(A, CancelAll(A, S)) /\ CancelAll(A, S).positions = A.positions
         /\ CancelAll(A, S).trades = A.trades
         /\ \A s \in Markets : CancelAll(A, S).pending[s] = IF s \in S THEN NoValue ELSE A.pending[s]
<1> DEFINE B == CancelAll(A, S)
           f == [s \in Markets |-> IF s \in S THEN NoValue ELSE A.pending[s]]
           g == [s \in Markets |-> IF s \in S /\ A.pending[s] # NoValue
                                     THEN [A.signals[s] EXCEPT !.status = "SKIPPED"] ELSE A.signals[s]]
<1>1. A \in Accounts
  BY DEF SoundAccount
<1>2. f \in [Markets -> Orders \cup {NoValue}]
  BY <1>1, Fields
<1>3. g \in [Markets -> SignalRows \cup {NoValue}]
  <2>1. ASSUME NEW s \in Markets, A.pending[s] # NoValue
        PROVE  [A.signals[s] EXCEPT !.status = "SKIPPED"] \in SignalRows
    <3>1. A.signals[s] \in SignalRows
      BY <1>1, <2>1, Fields DEF SoundAccount, RowSound
    <3> QED BY <3>1 DEF SignalRows
  <2> QED BY <1>1, <2>1, Fields
<1>4. B = [A EXCEPT !.pending = f, !.signals = g]
  BY DEF CancelAll
<1> HIDE DEF f, g, B
<1>5. /\ B \in Accounts /\ B.positions = A.positions /\ B.kind = A.kind /\ B.cash = A.cash
      /\ B.realized = A.realized /\ B.pending = f /\ B.signals = g /\ B.bought = A.bought /\ B.trades = A.trades
  BY <1>1, <1>2, <1>3, <1>4 DEF Accounts
<1>6. \A s \in Markets : Guarded(A.positions[s], B.positions[s])
  BY <1>1, <1>5, MilderSame DEF Milder
<1>7. \A s \in Markets : f[s] = IF s \in S THEN NoValue ELSE A.pending[s]
  BY DEF f
<1>8. \A s \in Markets : g[s] = IF s \in S /\ A.pending[s] # NoValue
                                  THEN [A.signals[s] EXCEPT !.status = "SKIPPED"] ELSE A.signals[s]
  BY DEF g
<1>9. Milder(A, B)
  BY <1>5, <1>6, <1>7, <1>8 DEF Milder
<1> QED BY <1>5, <1>7, <1>9 DEF B

LEMMA CancelMild ==
  ASSUME NEW A, SoundAccount(A), NEW s \in Markets
  PROVE  Milder(A, Cancel(A, s)) /\ Cancel(A, s).pending[s] = NoValue /\ Cancel(A, s).positions = A.positions
<1>1. A \in Accounts
  BY DEF SoundAccount
<1>2. CASE A.pending[s] = NoValue
  BY <1>1, <1>2, MilderSame DEF Cancel
<1>3. CASE A.pending[s] # NoValue
  <2> DEFINE B == Cancel(A, s)
             f == [A.pending EXCEPT ![s] = NoValue]
             g == [A.signals EXCEPT ![s] = [A.signals[s] EXCEPT !.status = "SKIPPED"]]
  <2>1. A.signals[s] \in SignalRows
    BY <1>1, <1>3, Fields DEF SoundAccount, RowSound
  <2>2. f \in [Markets -> Orders \cup {NoValue}] /\ g \in [Markets -> SignalRows \cup {NoValue}]
    BY <1>1, <2>1, Fields DEF SignalRows
  <2>3. B = [A EXCEPT !.pending = f, !.signals = g]
    BY <1>3 DEF Cancel
  <2>4. /\ f[s] = NoValue /\ \A x \in Markets \ {s} : f[x] = A.pending[x]
        /\ g[s] = [A.signals[s] EXCEPT !.status = "SKIPPED"] /\ \A x \in Markets \ {s} : g[x] = A.signals[x]
    BY <1>1, Fields
  <2> HIDE DEF f, g, B
  <2>5. /\ B \in Accounts /\ B.positions = A.positions /\ B.kind = A.kind /\ B.cash = A.cash
        /\ B.realized = A.realized /\ B.pending = f /\ B.signals = g /\ B.bought = A.bought
    BY <1>1, <2>2, <2>3 DEF Accounts
  <2>6. \A x \in Markets : Guarded(A.positions[x], B.positions[x])
    BY <1>1, <2>5, MilderSame DEF Milder
  <2>7. Milder(A, B)
    BY <1>3, <2>4, <2>5, <2>6 DEF Milder
  <2> QED BY <2>4, <2>5, <2>7 DEF B
<1> QED BY <1>2, <1>3

\* Other positions, as well protected, beside other things that bear no money.
LEMMA Touched ==
  ASSUME NEW A, NEW B \in Accounts, B.kind = A.kind, B.cash = A.cash, B.realized = A.realized, B.bought = A.bought,
         B.pending = A.pending, B.signals = A.signals,
         \A s \in Markets : Guarded(A.positions[s], B.positions[s])
  PROVE  Milder(A, B)
BY DEF Milder

\* What a position knows of the flow protects it neither more nor less.
Flowed(p, uncertain, neg, weak, at) ==
  [p EXCEPT !.uncertain = uncertain, !.neg = neg, !.weak = weak, !.flowAt = at]
LEMMA FlowedHolds ==
  ASSUME NEW p \in Holdings, NEW u \in BOOLEAN, NEW n \in Int, NEW w \in BOOLEAN, NEW at \in Int
  PROVE  LET q == Flowed(p, u, n, w, at)
         IN /\ q \in Holdings /\ q.qty = p.qty /\ q.cost = p.cost /\ q.lastSell = p.lastSell
            /\ q.stop = p.stop /\ q.exit = p.exit
BY DEF Flowed, Holdings

Felt(p, neg, at, weak) == [p EXCEPT !.neg = neg, !.flowAt = at, !.weak = weak]
LEMMA FeltHolds ==
  ASSUME NEW p \in Holdings, NEW n \in Int, NEW at \in Int, NEW w \in BOOLEAN
  PROVE  LET q == Felt(p, n, at, w)
         IN /\ q \in Holdings /\ q.qty = p.qty /\ q.cost = p.cost /\ q.lastSell = p.lastSell
            /\ q.stop = p.stop /\ q.exit = p.exit
BY DEF Felt, Holdings

LEMMA AfterGapGuards ==
  ASSUME NEW A, NEW p \in Holdings \cup {NoValue}, NEW ts \in Nat
  PROVE  AfterGap(A, p, ts) \in Holdings \cup {NoValue} /\ Guarded(p, AfterGap(A, p, ts))
<1>1. CASE p = NoValue
  BY <1>1 DEF AfterGap, Guarded
<1>2. CASE p # NoValue
  <2>1. p \in Holdings /\ p.stop \in Int /\ (p.exit # NoValue => p.exit \in Nat)
    BY <1>2 DEF Holdings
  <2> DEFINE q == AfterGap(A, p, ts)
  <2>2. /\ q \in Holdings /\ q.qty = p.qty /\ q.cost = p.cost /\ q.lastSell = p.lastSell
        /\ q.stop = p.stop /\ (p.exit # NoValue => q.exit = p.exit)
    <3>1. CASE A.kind = "FLOW"
      <4> DEFINE e == IF p.exit = NoValue THEN ts ELSE p.exit
      <4>1. q = [p EXCEPT !.uncertain = TRUE, !.exit = e]
        BY <1>2, <3>1 DEF AfterGap
      <4>2. e \in Nat \cup {NoValue} /\ (p.exit # NoValue => e = p.exit)
        BY <2>1
      <4> HIDE DEF q, e
      <4> QED BY <2>1, <4>1, <4>2 DEF Holdings
    <3>2. CASE A.kind # "FLOW"
      <4>1. q = Flowed(p, TRUE, 0, FALSE, 0)
        BY <1>2, <3>2 DEF AfterGap, Flowed
      <4>2. 0 \in Int
        OBVIOUS
      <4>3. LET f == Flowed(p, TRUE, 0, FALSE, 0)
            IN /\ f \in Holdings /\ f.qty = p.qty /\ f.cost = p.cost /\ f.lastSell = p.lastSell
               /\ f.stop = p.stop /\ f.exit = p.exit
        BY <2>1, <4>2, FlowedHolds, Zenon
      <4> HIDE DEF q
      <4> QED BY <4>1, <4>3
    <3> QED BY <3>1, <3>2
  <2> HIDE DEF q
  <2>3. q # NoValue
    BY <2>2, FlowConstants
  <2> QED BY <1>2, <2>1, <2>2, <2>3 DEF Guarded, q
<1> QED BY <1>1, <1>2

LEMMA GapMild ==
  ASSUME NEW A, SoundAccount(A), NEW S, NEW ts \in Nat
  PROVE  Milder(A, Gap(A, S, ts)) /\ \A s \in S \cap Markets : Gap(A, S, ts).pending[s] = NoValue
<1> DEFINE C == CancelAll(A, S)
           B == Gap(A, S, ts)
           t == [s \in Markets |-> IF s \in S THEN NoValue ELSE C.trades[s]]
           g == [s \in Markets |-> IF s \in S THEN AfterGap(A, C.positions[s], ts) ELSE C.positions[s]]
<1>1. A \in Accounts
  BY DEF SoundAccount
<1>2. Milder(A, C) /\ \A s \in S \cap Markets : C.pending[s] = NoValue
  BY CancelAllMild
<1>3. C \in Accounts
  BY <1>2 DEF Milder
<1>4. t \in [Markets -> SeenTrades \cup {NoValue}] /\ g \in [Markets -> Holdings \cup {NoValue}]
  BY <1>3, Fields, AfterGapGuards
<1>5. \A s \in Markets : Guarded(C.positions[s], g[s])
  <2>1. \A s \in Markets : Guarded(C.positions[s], C.positions[s])
    BY <1>3, MilderSame DEF Milder
  <2> QED BY <1>3, <2>1, Fields, AfterGapGuards
<1>6. B = [C EXCEPT !.trades = t, !.positions = g]
  BY DEF Gap
<1> HIDE DEF C, B, t, g
<1>7. /\ B \in Accounts /\ B.positions = g /\ B.kind = C.kind /\ B.cash = C.cash /\ B.realized = C.realized
      /\ B.pending = C.pending /\ B.signals = C.signals /\ B.bought = C.bought
  BY <1>3, <1>4, <1>6 DEF Accounts
<1>8. Milder(C, B)
  BY <1>5, <1>7, Touched
<1>9. Milder(A, B)
  BY <1>1, <1>2, <1>8, MilderTwice
<1> QED BY <1>2, <1>7, <1>9 DEF B

LEMMA PauseMild == ASSUME NEW A, SoundAccount(A) PROVE Milder(A, Pause(A))
<1> DEFINE C == CancelAll(A, Markets)
           B == [C EXCEPT !.paused = TRUE]
<1>1. A \in Accounts
  BY DEF SoundAccount
<1>2. Milder(A, C)
  BY CancelAllMild
<1>3. C \in Accounts
  BY <1>2 DEF Milder
<1> HIDE DEF C
<1>4. /\ B \in Accounts /\ B.positions = C.positions /\ B.kind = C.kind /\ B.cash = C.cash /\ B.realized = C.realized
      /\ B.pending = C.pending /\ B.signals = C.signals /\ B.bought = C.bought
  BY <1>3 DEF Accounts
<1>5. \A s \in Markets : Guarded(C.positions[s], B.positions[s])
  BY <1>3, <1>4, MilderSame DEF Milder
<1> HIDE DEF B
<1>6. Milder(A, B)
  BY <1>1, <1>2, <1>4, <1>5, Touched, MilderTwice
<1> QED BY <1>6 DEF Pause, B, C

LEMMA ResumeMild ==
  ASSUME NEW A \in Accounts, NEW request \in ResumeIds
  PROVE  Milder(A, Resume(A, request))
<1> DEFINE B == Resume(A, request)
<1>1. /\ B \in Accounts /\ B.positions = A.positions /\ B.kind = A.kind /\ B.cash = A.cash /\ B.realized = A.realized
      /\ B.pending = A.pending /\ B.signals = A.signals /\ B.bought = A.bought
  BY DEF Accounts, Resume
<1> HIDE DEF B
<1>2. \A s \in Markets : Guarded(A.positions[s], B.positions[s])
  BY <1>1, MilderSame DEF Milder
<1>3. Milder(A, B)
  BY <1>1, <1>2, Touched
<1> QED BY <1>3 DEF B

LEMMA RiskFacts ==
  \A r \in Regimes : Risk[r].sl \in Nat /\ Risk[r].tp \in Nat
BY DEF Risk, Regimes

LEMMA Quotient == ASSUME NEW a \in Int, NEW n \in Nat, n > 0 PROVE a \div n \in Int
OBVIOUS

LEMMA ConfiguredHolds ==
  ASSUME NEW p \in Holdings, NEW r \in Regimes, NEW preserve \in BOOLEAN
  PROVE  /\ Configured(p, r, preserve) \in Holdings
         /\ Configured(p, r, preserve).cost = p.cost /\ Configured(p, r, preserve).qty = p.qty
         /\ preserve => Guarded(p, Configured(p, r, preserve))
<1> DEFINE sl == IF p.sl = NoValue \/ Risk[r].sl < p.sl THEN Risk[r].sl ELSE p.sl
           stop == (p.orig * Parts * (12 - sl)) \div (p.oqty * 12)
           kept == IF preserve /\ p.stop > stop THEN p.stop ELSE stop
           q == Configured(p, r, preserve)
<1>1. sl \in Int /\ p.orig \in Nat /\ p.oqty \in Nat /\ p.oqty > 0 /\ p.stop \in Int /\ Risk[r].tp \in Int
  BY RiskFacts, FlowConstants DEF Holdings
<1> HIDE DEF sl
<1>2. stop \in Int
  <2>1. p.orig * Parts * (12 - sl) \in Int
    BY <1>1 DEF Parts
  <2>2. p.oqty * 12 \in Nat /\ p.oqty * 12 > 0
    BY <1>1
  <2> QED BY <2>1, <2>2, Quotient
<1> HIDE DEF stop
<1>3. kept \in Int /\ (preserve => kept >= p.stop)
  BY <1>1, <1>2
<1>4. q = [p EXCEPT !.sl = sl, !.tp = Risk[r].tp, !.stop = kept]
  BY DEF Configured, sl, stop
<1> HIDE DEF q, kept
<1>5. /\ q \in Holdings /\ q.qty = p.qty /\ q.cost = p.cost /\ q.lastSell = p.lastSell
      /\ q.stop = kept /\ q.exit = p.exit
  BY <1>1, <1>3, <1>4 DEF Holdings
<1>6. preserve => Guarded(p, q)
  BY <1>3, <1>5, FlowConstants DEF Guarded
<1> QED BY <1>5, <1>6 DEF q

LEMMA SetRegimeMild ==
  ASSUME NEW A \in Accounts, NEW state \in Regimes, NEW ts \in Nat
  PROVE  Milder(A, SetRegime(A, state, ts))
<1>1. CASE ts < A.regime.ts
  BY <1>1, MilderSame DEF SetRegime
<1>2. CASE ~(ts < A.regime.ts)
  <2> DEFINE B == SetRegime(A, state, ts)
             g == [s \in Markets |-> IF A.positions[s] = NoValue THEN NoValue ELSE Configured(A.positions[s], state, TRUE)]
             e == [state |-> state, ts |-> ts]
  <2>1. g \in [Markets -> Holdings \cup {NoValue}] /\ \A s \in Markets : Guarded(A.positions[s], g[s])
    <3> SUFFICES ASSUME NEW s \in Markets PROVE g[s] \in Holdings \cup {NoValue} /\ Guarded(A.positions[s], g[s])
      OBVIOUS
    <3>1. CASE A.positions[s] = NoValue
      BY <3>1 DEF Guarded
    <3>2. CASE A.positions[s] # NoValue
      <4>1. A.positions[s] \in Holdings /\ g[s] = Configured(A.positions[s], state, TRUE)
        BY <3>2, Fields
      <4> QED BY <4>1, ConfiguredHolds
    <3> QED BY <3>1, <3>2
  <2>2. B = [A EXCEPT !.regime = e, !.positions = g]
    BY <1>2 DEF SetRegime
  <2>3. e \in [state : Regimes \cup {"UNAVAILABLE"}, ts : Nat]
    OBVIOUS
  <2> HIDE DEF g, e, B
  <2>4. /\ B \in Accounts /\ B.positions = g /\ B.kind = A.kind /\ B.cash = A.cash /\ B.realized = A.realized
        /\ B.pending = A.pending /\ B.signals = A.signals /\ B.bought = A.bought
    BY <2>1, <2>2, <2>3 DEF Accounts
  <2>5. Milder(A, B)
    BY <2>1, <2>4, Touched
  <2> QED BY <2>5 DEF B
<1> QED BY <1>1, <1>2

LEMMA OnTradeMild ==
  ASSUME NEW A \in Accounts, NEW s \in Markets, NEW ts \in Nat, NEW price \in Nat, NEW stamp \in Int
  PROVE  Milder(A, OnTrade(A, s, ts, price, stamp))
<1> DEFINE trade == [ts |-> ts, price |-> price, stamp |-> stamp]
           t == [A.trades EXCEPT ![s] = trade]
           seen == [A EXCEPT !.trades[s] = trade]
           p == A.positions[s]
           q == [p EXCEPT !.peak = price, !.peakAt = ts]
           peaked == IF price > p.peak
                       THEN [seen EXCEPT !.positions[s].peak = price, !.positions[s].peakAt = ts]
                       ELSE seen
           B == OnTrade(A, s, ts, price, stamp)
<1>1. B \in {A, seen, peaked, RequestExit(peaked, s, ts)} /\ (p = NoValue => B \in {A, seen})
  BY DEF OnTrade
<1>2. trade \in SeenTrades
  BY DEF SeenTrades
<1>3. t \in [Markets -> SeenTrades \cup {NoValue}] /\ seen = [A EXCEPT !.trades = t]
  BY <1>2, Fields
<1> HIDE DEF trade, t, B
<1>4. /\ seen \in Accounts /\ seen.positions = A.positions /\ seen.kind = A.kind /\ seen.cash = A.cash
      /\ seen.realized = A.realized /\ seen.pending = A.pending /\ seen.signals = A.signals /\ seen.bought = A.bought
  <2> HIDE DEF seen
  <2> QED BY <1>3 DEF Accounts
<1>5. Milder(A, seen)
  <2> HIDE DEF seen
  <2>1. \A x \in Markets : Guarded(A.positions[x], seen.positions[x])
    BY <1>4, MilderSame DEF Milder
  <2> QED BY <1>4, <2>1, Touched
<1>6. CASE p = NoValue
  BY <1>1, <1>5, <1>6, MilderSame DEF B
<1>7. CASE p # NoValue
  <2>1. p \in Holdings /\ p.stop \in Int
    BY <1>7, Fields DEF Holdings
  <2>2. /\ q \in Holdings /\ q.qty = p.qty /\ q.cost = p.cost /\ q.lastSell = p.lastSell /\ q.stop = p.stop /\ q.exit = p.exit
    <3>1. q = [p EXCEPT !.peak = price, !.peakAt = ts] /\ price \in Int /\ ts \in Int
      OBVIOUS
    <3> HIDE DEF p, q
    <3> QED BY <2>1, <3>1 DEF Holdings
  <2>3. Guarded(p, q)
    <3> HIDE DEF q
    <3> QED BY <1>7, <2>1, <2>2, FlowConstants DEF Guarded
  <2>4. peaked = seen \/ peaked = Put(seen, s, q)
    BY <1>4 DEF Put
  <2> HIDE DEF q, seen, peaked
  <2>5. Milder(seen, peaked) /\ peaked.positions[s] # NoValue
    <3>1. CASE peaked = seen
      BY <1>4, <1>7, <3>1, MilderSame
    <3>2. CASE peaked = Put(seen, s, q)
      BY <1>4, <2>2, <2>3, <3>2, OneHeld, FlowConstants
    <3> QED BY <2>4, <3>1, <3>2
  <2>6. peaked \in Accounts
    BY <2>5 DEF Milder
  <2>7. Milder(peaked, RequestExit(peaked, s, ts))
    BY <2>5, <2>6, RequestExitRules DEF Ruled
  <2> QED BY <1>1, <1>4, <1>5, <2>5, <2>6, <2>7, MilderSame, MilderTwice DEF B
<1> QED BY <1>6, <1>7

LEMMA AfterWindowGuards ==
  ASSUME NEW A \in Accounts, NEW s \in Markets, A.positions[s] # NoValue, NEW end \in Nat, NEW w,
         w.low \in Int, w.below \in BOOLEAN
  PROVE  AfterWindow(A, s, end, w) \in Holdings /\ Guarded(A.positions[s], AfterWindow(A, s, end, w))
<1> DEFINE p == A.positions[s]
           current == w.seen /\ end - WindowLength >= p.entry
           neg == IF current /\ w.negative THEN (IF p.neg = 2 THEN 2 ELSE p.neg + 1) ELSE 0
           trade == A.trades[s]
           weak == neg = 2 /\ w.below
           leaving == current /\ weak /\ trade # NoValue /\ end - trade.ts \in 0 .. QuoteAge
           stop == IF end - WindowLength >= p.entry /\ w.low > p.stop THEN w.low ELSE p.stop
           exit == IF leaving /\ p.exit = NoValue THEN end ELSE p.exit
           q == AfterWindow(A, s, end, w)
<1>1. p \in Holdings /\ p.stop \in Int /\ p.neg \in Int /\ p.exit \in Nat \cup {NoValue}
  BY Fields DEF Holdings
<1>2. /\ A.kind = "DAYHOLD" => q = [p EXCEPT !.neg = neg, !.flowAt = end, !.weak = weak]
      /\ A.kind # "DAYHOLD" => q = [p EXCEPT !.neg = neg, !.stop = stop, !.exit = exit]
  BY DEF AfterWindow
<1>3. stop \in Int /\ stop >= p.stop /\ exit \in Nat \cup {NoValue} /\ (p.exit # NoValue => exit = p.exit)
  BY <1>1
<1>4. neg \in Int
  BY <1>1
<1>5. weak \in BOOLEAN
  <2> HIDE DEF neg
  <2> QED OBVIOUS
<1>6. p # NoValue
  OBVIOUS
<1> HIDE DEF p, current, neg, trade, weak, leaving, stop, exit, q
<1>7. /\ q \in Holdings /\ q.qty = p.qty /\ q.cost = p.cost /\ q.lastSell = p.lastSell
      /\ q.stop >= p.stop /\ (p.exit # NoValue => q.exit = p.exit)
  <2>1. CASE A.kind = "DAYHOLD"
    <3>1. q = [p EXCEPT !.neg = neg, !.flowAt = end, !.weak = weak]
      BY <1>2, <2>1
    <3> DEFINE r == Felt(p, neg, end, weak)
    <3>2. q = r
      BY <3>1 DEF Felt
    <3>3. end \in Int
      OBVIOUS
    <3>4. /\ r \in Holdings /\ r.qty = p.qty /\ r.cost = p.cost /\ r.lastSell = p.lastSell
          /\ r.stop = p.stop /\ r.exit = p.exit
      BY <1>1, <1>4, <1>5, <3>3, FeltHolds, Zenon
    <3> HIDE DEF r
    <3> QED BY <1>1, <3>2, <3>4
  <2>2. CASE A.kind # "DAYHOLD"
    <3>1. q = [p EXCEPT !.neg = neg, !.stop = stop, !.exit = exit]
      BY <1>2, <2>2
    <3> QED BY <1>1, <1>3, <1>4, <3>1 DEF Holdings
  <2> QED BY <2>1, <2>2
<1>8. q # NoValue
  BY <1>7, FlowConstants
<1>9. q \in Holdings /\ Guarded(p, q)
  BY <1>6, <1>7, <1>8 DEF Guarded
<1> QED BY <1>9 DEF p, q

LEMMA WindowedMild ==
  ASSUME NEW A \in Accounts, NEW end \in Nat, NEW w,
         \A s \in Positions(A) : w[s].low \in Int /\ w[s].below \in BOOLEAN
  PROVE  Milder(A, Windowed(A, end, w)) /\ Windowed(A, end, w).pending = A.pending
<1> DEFINE g == [s \in Markets |-> IF A.positions[s] = NoValue THEN NoValue ELSE AfterWindow(A, s, end, w[s])]
           B == Windowed(A, end, w)
<1>1. \A s \in Markets : g[s] \in Holdings \cup {NoValue} /\ Guarded(A.positions[s], g[s])
  <2> SUFFICES ASSUME NEW s \in Markets PROVE g[s] \in Holdings \cup {NoValue} /\ Guarded(A.positions[s], g[s])
    OBVIOUS
  <2>1. CASE A.positions[s] = NoValue
    BY <2>1 DEF Guarded
  <2>2. CASE A.positions[s] # NoValue
    <3>1. w[s].low \in Int /\ w[s].below \in BOOLEAN
      BY <2>2 DEF Positions
    <3>2. g[s] = AfterWindow(A, s, end, w[s])
      BY <2>2
    <3> QED BY <2>2, <3>1, <3>2, AfterWindowGuards
  <2> QED BY <2>1, <2>2
<1>2. g \in [Markets -> Holdings \cup {NoValue}]
  BY <1>1
<1>3. B = [A EXCEPT !.positions = g]
  BY DEF Windowed
<1> HIDE DEF g, B
<1>4. /\ B \in Accounts /\ B.positions = g /\ B.kind = A.kind /\ B.cash = A.cash /\ B.realized = A.realized
      /\ B.pending = A.pending /\ B.signals = A.signals /\ B.bought = A.bought
  BY <1>2, <1>3, Repositioned
<1>5. Milder(A, B)
  BY <1>1, <1>4, Touched
<1> QED BY <1>4, <1>5 DEF B

LEMMA TickMild ==
  ASSUME NEW A, SoundAccount(A), NEW ts \in Nat
  PROVE  Milder(A, TickAccount(A, ts))
<1> DEFINE expired == {s \in Pending(A) : ts > A.pending[s].ts + EntryWait}
           old == {s \in Positions(A) : A.kind = "DAYHOLD" /\ ts - A.positions[s].entry >= FlowDay
                                        /\ A.positions[s].exit = NoValue}
           C == CancelAll(A, expired)
           g == [s \in Markets |-> IF s \in old THEN [C.positions[s] EXCEPT !.exit = ts] ELSE C.positions[s]]
           B == TickAccount(A, ts)
<1>0. A \in Accounts
  BY DEF SoundAccount
<1>1. \A s \in old : A.positions[s] # NoValue /\ A.positions[s].exit = NoValue
  BY DEF Positions
<1>2. B = [C EXCEPT !.positions = g]
  BY DEF TickAccount
<1> HIDE DEF expired, old
<1>3. Milder(A, C) /\ C.positions = A.positions
  BY CancelAllMild
<1>4. C \in Accounts
  BY <1>3 DEF Milder
<1> HIDE DEF C, B
<1>5. \A s \in Markets : g[s] \in Holdings \cup {NoValue} /\ Guarded(C.positions[s], g[s])
  <2> SUFFICES ASSUME NEW s \in Markets PROVE g[s] \in Holdings \cup {NoValue} /\ Guarded(C.positions[s], g[s])
    OBVIOUS
  <2>1. CASE s \in old
    <3> DEFINE p == C.positions[s]
               q == g[s]
    <3>1. p \in Holdings /\ p.exit = NoValue /\ p.stop \in Int /\ p # NoValue
      BY <1>1, <1>3, <1>4, <2>1, Fields DEF Holdings
    <3>2. q = [p EXCEPT !.exit = ts]
      BY <2>1
    <3> HIDE DEF p, q
    <3>3. /\ q \in Holdings /\ q.qty = p.qty /\ q.cost = p.cost /\ q.lastSell = p.lastSell /\ q.stop = p.stop
      BY <3>1, <3>2 DEF Holdings
    <3>4. q \in Holdings /\ Guarded(p, q)
      BY <3>1, <3>3, FlowConstants DEF Guarded
    <3> QED BY <3>4 DEF p, q
  <2>2. CASE s \notin old
    BY <1>4, <2>2, Fields, MilderSame DEF Milder
  <2> QED BY <2>1, <2>2
<1>6. g \in [Markets -> Holdings \cup {NoValue}]
  BY <1>5
<1> HIDE DEF g
<1>7. /\ B \in Accounts /\ B.positions = g /\ B.kind = C.kind /\ B.cash = C.cash /\ B.realized = C.realized
      /\ B.pending = C.pending /\ B.signals = C.signals /\ B.bought = C.bought
  BY <1>2, <1>4, <1>6, Repositioned
<1>8. Milder(C, B)
  BY <1>5, <1>7, Touched
<1>9. Milder(A, B)
  BY <1>0, <1>3, <1>8, MilderTwice
<1> QED BY <1>9 DEF B

LEMMA ReopenedMild ==
  ASSUME NEW A, SoundAccount(A), NEW ts \in Nat, NEW kept
  PROVE  Milder(A, Reopened(A, ts, kept)) /\ \A s \in Markets : Reopened(A, ts, kept).pending[s] = NoValue
<1> DEFINE g == [s \in Markets |->
                   IF A.positions[s] = NoValue \/ s \in kept THEN A.positions[s]
                   ELSE [A.positions[s] EXCEPT !.warn = NoValue, !.seen = -1]]
           t == [s \in Markets |-> NoValue]
           e == [state |-> "UNAVAILABLE", ts |-> 0]
           F == [A EXCEPT !.regime = e, !.trades = t, !.positions = g]
           S == Positions(A) \cup Pending(A)
<1>0. A \in Accounts
  BY DEF SoundAccount
<1>1. \A s \in Markets : g[s] \in Holdings \cup {NoValue} /\ Guarded(A.positions[s], g[s])
  <2> SUFFICES ASSUME NEW s \in Markets PROVE g[s] \in Holdings \cup {NoValue} /\ Guarded(A.positions[s], g[s])
    OBVIOUS
  <2>1. CASE A.positions[s] = NoValue \/ s \in kept
    BY <1>0, <2>1, Fields, MilderSame DEF Milder
  <2>2. CASE ~(A.positions[s] = NoValue \/ s \in kept)
    <3> DEFINE p == A.positions[s]
               q == g[s]
               m == -1
    <3>1. p \in Holdings /\ p.stop \in Int /\ p # NoValue
      BY <1>0, <2>2, Fields DEF Holdings
    <3>2. q = [p EXCEPT !.warn = NoValue, !.seen = m] /\ m \in Int
      BY <2>2
    <3> HIDE DEF p, q, m
    <3>3. /\ q \in Holdings /\ q.qty = p.qty /\ q.cost = p.cost /\ q.lastSell = p.lastSell /\ q.stop = p.stop /\ q.exit = p.exit
      BY <3>1, <3>2 DEF Holdings
    <3>4. q \in Holdings /\ Guarded(p, q)
      BY <3>1, <3>3, FlowConstants DEF Guarded
    <3> QED BY <3>4 DEF p, q
  <2> QED BY <2>1, <2>2
<1>2. /\ g \in [Markets -> Holdings \cup {NoValue}] /\ t \in [Markets -> SeenTrades \cup {NoValue}]
      /\ e \in [state : Regimes \cup {"UNAVAILABLE"}, ts : Nat]
  BY <1>1
<1>3. F = [A EXCEPT !.regime = e, !.trades = t, !.positions = g]
  OBVIOUS
<1>4. Reopened(A, ts, kept) = Gap(F, S, ts)
  BY DEF Reopened
<1> HIDE DEF g, t, e, F
<1>5. /\ F \in Accounts /\ F.positions = g /\ F.kind = A.kind /\ F.cash = A.cash /\ F.realized = A.realized
      /\ F.pending = A.pending /\ F.signals = A.signals /\ F.bought = A.bought
  BY <1>0, <1>2, <1>3 DEF Accounts
<1>6. Milder(A, F)
  BY <1>1, <1>5, Touched
<1>7. SoundAccount(F)
  BY <1>6, MilderSound
<1>8. Milder(F, Gap(F, S, ts)) /\ \A s \in S \cap Markets : Gap(F, S, ts).pending[s] = NoValue
  BY <1>7, GapMild
<1>9. \A s \in Markets \ S : A.pending[s] = NoValue
  BY DEF Pending
<1> DEFINE G == Gap(F, S, ts)
<1> HIDE DEF S, G
<1>10. Milder(F, G) /\ \A s \in S \cap Markets : G.pending[s] = NoValue
  BY <1>8 DEF G
<1>11. \A s \in Markets : G.pending[s] = F.pending[s] \/ G.pending[s] = NoValue
  BY <1>10 DEF Milder
<1>12. \A s \in Markets : G.pending[s] = NoValue
  BY <1>5, <1>9, <1>10, <1>11
<1>13. Milder(A, G)
  BY <1>0, <1>6, <1>10, MilderTwice
<1> QED BY <1>4, <1>12, <1>13 DEF G

-----------------------------------------------------------------------------
(* The calls that promise, spend or earn money.                              *)

\* A market is added to those held or waiting.
LEMMA OneMore ==
  ASSUME NEW S, NEW T, IsFiniteSet(S), NEW x, x \notin S, T = S \cup {x}
  PROVE  Cardinality(T) = Cardinality(S) + 1 /\ Cardinality(S) \in Nat
BY FS_AddElement, FS_CardinalityType

\* A signal that is passed over.
Skip(A, s, row) == [A EXCEPT !.signals[s] = row]
LEMMA SkipSound ==
  ASSUME NEW A, SoundAccount(A), NEW s \in Markets, NEW row \in SignalRows, row.status = "SKIPPED", A.pending[s] = NoValue
  PROVE  /\ SoundAccount(Skip(A, s, row)) /\ Skip(A, s, row).positions = A.positions
         /\ Skip(A, s, row).bought = A.bought /\ Skip(A, s, row).pending = A.pending
<1> DEFINE B == Skip(A, s, row)
           g == [A.signals EXCEPT ![s] = row]
<1>0. A \in Accounts
  BY DEF SoundAccount
<1>1. g \in [Markets -> SignalRows \cup {NoValue}] /\ g[s] = row /\ \A x \in Markets \ {s} : g[x] = A.signals[x]
  BY <1>0, Fields
<1>2. B = [A EXCEPT !.signals = g]
  BY DEF Skip
<1> HIDE DEF B, g
<1>3. /\ B \in Accounts /\ B.positions = A.positions /\ B.cash = A.cash /\ B.realized = A.realized
      /\ B.pending = A.pending /\ B.signals = g /\ B.bought = A.bought
  BY <1>0, <1>1, <1>2 DEF Accounts
<1>4. Reserved(B) = Reserved(A) /\ Invested(B) = Invested(A) /\ Positions(B) = Positions(A) /\ Pending(B) = Pending(A)
  BY <1>3 DEF Reserved, Invested, Positions, Pending
<1>5. ASSUME NEW x \in Markets PROVE RowSound(B, x)
  <2>1. CASE x = s
    BY <1>1, <1>3, <2>1 DEF RowSound
  <2>2. CASE x # s
    <3>1. RowSound(A, x) /\ B.signals[x] = A.signals[x]
      BY <1>1, <1>3, <2>2 DEF SoundAccount
    <3> QED BY <1>3, <3>1 DEF RowSound
  <2> QED BY <2>1, <2>2
<1>6. SoundAccount(B)
  BY <1>3, <1>4, <1>5 DEF SoundAccount
<1> QED BY <1>3, <1>6 DEF B

\* A signal that becomes an order.
Place(A, s, row, order) == [A EXCEPT !.signals[s] = row, !.pending[s] = order]
LEMMA PlaceSound ==
  ASSUME NEW A, SoundAccount(A), NEW s \in Markets, NEW row \in SignalRows, NEW order \in Orders,
         row.status = "PENDING", row.ts = order.ts, row.day = order.day, order.ref <= order.budget * Parts,
         A.pending[s] = NoValue, A.positions[s] = NoValue, Reserved(A) + order.budget <= A.cash,
         Cardinality(Positions(A)) + Cardinality(Pending(A)) + 1 <= Slots
  PROVE  /\ SoundAccount(Place(A, s, row, order)) /\ Place(A, s, row, order).positions = A.positions
         /\ Place(A, s, row, order).bought = A.bought /\ Place(A, s, row, order).pending[s] = order
         /\ \A x \in Markets \ {s} : Place(A, s, row, order).pending[x] = A.pending[x]
<1> DEFINE B == Place(A, s, row, order)
           f == [A.pending EXCEPT ![s] = order]
           g == [A.signals EXCEPT ![s] = row]
<1>0. A \in Accounts
  BY DEF SoundAccount
<1>1. /\ g \in [Markets -> SignalRows \cup {NoValue}] /\ g[s] = row /\ \A x \in Markets \ {s} : g[x] = A.signals[x]
      /\ f \in [Markets -> Orders \cup {NoValue}] /\ f[s] = order /\ \A x \in Markets \ {s} : f[x] = A.pending[x]
  BY <1>0, Fields
<1>2. B = [A EXCEPT !.signals = g, !.pending = f]
  BY DEF Place
<1> HIDE DEF B, f, g
<1>3. /\ B \in Accounts /\ B.positions = A.positions /\ B.cash = A.cash /\ B.realized = A.realized
      /\ B.pending = f /\ B.signals = g /\ B.bought = A.bought
  BY <1>0, <1>1, <1>2 DEF Accounts
<1>4. order # NoValue /\ row # NoValue /\ order.budget \in Nat
  BY FlowConstants DEF Orders
<1>5. Reserved(B) = Reserved(A) + order.budget
  <2>1. Changed(Promise(A), Promise(B), Markets, s)
    <3>1. \A x \in Markets \ {s} : Promise(A)[x] = Promise(B)[x]
      BY <1>1, <1>3 DEF Promise
    <3> QED BY <1>0, <1>3, <3>1, Sums DEF Changed
  <2>2. Promise(A)[s] = 0 /\ Promise(B)[s] = order.budget
    BY <1>1, <1>3, <1>4 DEF Promise
  <2> QED BY <1>0, <1>3, <1>4, <2>1, <2>2, Sums, SumChange, FlowConstants
<1>6. Invested(B) = Invested(A) /\ Positions(B) = Positions(A)
  BY <1>3 DEF Invested, Positions
<1>7. Cardinality(Pending(B)) = Cardinality(Pending(A)) + 1
  <2>1. Pending(B) = Pending(A) \cup {s} /\ s \notin Pending(A)
    BY <1>1, <1>3, <1>4 DEF Pending
  <2> QED BY <2>1, Counts, OneMore
<1>8. ASSUME NEW x \in Markets PROVE RowSound(B, x)
  <2>1. CASE x = s
    BY <1>1, <1>3, <1>4, <2>1 DEF RowSound
  <2>2. CASE x # s
    <3>1. RowSound(A, x) /\ B.signals[x] = A.signals[x] /\ B.pending[x] = A.pending[x]
      BY <1>1, <1>3, <2>2 DEF SoundAccount
    <3> QED BY <1>3, <3>1 DEF RowSound
  <2> QED BY <2>1, <2>2
<1>9. Cardinality(Positions(A)) \in Nat /\ Cardinality(Pending(A)) \in Nat
  BY Counts
<1>10. Reserved(B) <= B.cash /\ B.cash + Invested(B) = SeedCash + B.realized
  BY <1>3, <1>5, <1>6 DEF SoundAccount
<1>11. Cardinality(Positions(B)) + Cardinality(Pending(B)) <= Slots
  BY <1>6, <1>7, <1>9, FlowConstants
<1>12. SoundAccount(B)
  BY <1>3, <1>8, <1>10, <1>11 DEF SoundAccount
<1> QED BY <1>1, <1>3, <1>12 DEF B

\* Part of a position is sold, or all of it.
Sold(A, s, cash, realized, q) == [A EXCEPT !.cash = cash, !.realized = realized, !.positions[s] = q]
LEMMA SoldSound ==
  ASSUME NEW A, SoundAccount(A), NEW s \in Markets, NEW cash \in Nat, NEW realized \in Int, NEW q \in Holdings \cup {NoValue},
         A.positions[s] # NoValue, cash >= A.cash,
         cash + (IF q = NoValue THEN 0 ELSE q.cost) - realized = A.cash + A.positions[s].cost - A.realized
  PROVE  /\ SoundAccount(Sold(A, s, cash, realized, q)) /\ Sold(A, s, cash, realized, q).bought = A.bought
         /\ Sold(A, s, cash, realized, q).pending = A.pending /\ Sold(A, s, cash, realized, q).positions[s] = q
         /\ \A x \in Markets \ {s} : Sold(A, s, cash, realized, q).positions[x] = A.positions[x]
<1> DEFINE B == Sold(A, s, cash, realized, q)
           g == [A.positions EXCEPT ![s] = q]
<1>0. A \in Accounts
  BY DEF SoundAccount
<1>1. g \in [Markets -> Holdings \cup {NoValue}] /\ g[s] = q /\ \A x \in Markets \ {s} : g[x] = A.positions[x]
  BY <1>0, Fields
<1>2. B = [A EXCEPT !.cash = cash, !.realized = realized, !.positions = g]
  BY DEF Sold
<1> HIDE DEF B, g
<1>3. /\ B \in Accounts /\ B.positions = g /\ B.cash = cash /\ B.realized = realized
      /\ B.pending = A.pending /\ B.signals = A.signals /\ B.bought = A.bought
  BY <1>0, <1>1, <1>2 DEF Accounts
<1>4. Reserved(B) = Reserved(A) /\ Pending(B) = Pending(A)
  BY <1>3 DEF Reserved, Pending
<1>5. Invested(B) = Invested(A) - A.positions[s].cost + (IF q = NoValue THEN 0 ELSE q.cost)
  <2>1. Changed(Stake(A), Stake(B), Markets, s)
    <3>1. \A x \in Markets \ {s} : Stake(A)[x] = Stake(B)[x]
      BY <1>1, <1>3 DEF Stake
    <3> QED BY <1>0, <1>3, <3>1, Sums DEF Changed
  <2>2. Stake(A)[s] = A.positions[s].cost /\ Stake(B)[s] = IF q = NoValue THEN 0 ELSE q.cost
    BY <1>1, <1>3 DEF Stake
  <2> QED BY <1>0, <1>3, <2>1, <2>2, Sums, SumChange, FlowConstants
<1>6. Cardinality(Positions(B)) <= Cardinality(Positions(A))
  <2>1. Positions(B) \subseteq Positions(A)
    BY <1>1, <1>3 DEF Positions
  <2> QED BY <2>1, Counts, FS_Subset
<1>7. ASSUME NEW x \in Markets PROVE RowSound(B, x)
  <2>1. RowSound(A, x)
    BY DEF SoundAccount
  <2>2. B.positions[x] = NoValue \/ A.positions[x] # NoValue
    BY <1>1, <1>3
  <2> QED BY <1>3, <2>1, <2>2 DEF RowSound
<1>8. /\ Cardinality(Positions(A)) \in Nat /\ Cardinality(Pending(A)) \in Nat /\ Cardinality(Positions(B)) \in Nat
      /\ Cardinality(Positions(A)) + Cardinality(Pending(A)) <= Slots
  BY Counts DEF SoundAccount
<1>9. /\ A.cash \in Nat /\ A.realized \in Int /\ A.positions[s].cost \in Nat /\ (q # NoValue => q.cost \in Nat)
      /\ Reserved(A) \in Nat /\ Invested(A) \in Nat
  BY <1>0, Fields, Sums DEF Holdings
<1>10. Reserved(A) <= A.cash /\ A.cash + Invested(A) = SeedCash + A.realized
  BY DEF SoundAccount
<1>11. Reserved(B) <= B.cash
  BY <1>3, <1>4, <1>9, <1>10
<1>12. B.cash + Invested(B) = SeedCash + B.realized
  <2> DEFINE c == IF q = NoValue THEN 0 ELSE q.cost
  <2>1. c \in Nat /\ cash + c - realized = A.cash + A.positions[s].cost - A.realized
    BY <1>9
  <2>2. Invested(B) = Invested(A) - A.positions[s].cost + c
    BY <1>5
  <2> HIDE DEF c
  <2> QED BY <1>3, <1>9, <1>10, <2>1, <2>2, FlowConstants
<1>13. Cardinality(Positions(B)) + Cardinality(Pending(B)) <= Slots
  BY <1>4, <1>6, <1>8, FlowConstants
<1>14. SoundAccount(B)
  BY <1>3, <1>7, <1>11, <1>12, <1>13 DEF SoundAccount
<1> QED BY <1>1, <1>3, <1>14 DEF B

\* An order that is filled.
Filled(A, s, row, at, q) ==
  [A EXCEPT !.cash = @ - A.pending[s].budget, !.pending[s] = NoValue, !.bought[s] = at,
            !.signals[s] = row, !.positions[s] = q]
LEMMA FilledSound ==
  ASSUME NEW A, SoundAccount(A), NEW s \in Markets, NEW row \in SignalRows, NEW at \in Nat, NEW q \in Holdings,
         A.pending[s] # NoValue, row.status = "BOUGHT", at >= row.ts, q.cost = A.pending[s].budget
  PROVE  /\ SoundAccount(Filled(A, s, row, at, q)) /\ Filled(A, s, row, at, q).pending[s] = NoValue
         /\ Filled(A, s, row, at, q).positions[s] = q
         /\ \A x \in Markets \ {s} :
              /\ Filled(A, s, row, at, q).bought[x] = A.bought[x] /\ Filled(A, s, row, at, q).pending[x] = A.pending[x]
              /\ Filled(A, s, row, at, q).positions[x] = A.positions[x]
<1> DEFINE B == Filled(A, s, row, at, q)
           budget == A.pending[s].budget
           f == [A.pending EXCEPT ![s] = NoValue]
           g == [A.positions EXCEPT ![s] = q]
           h == [A.signals EXCEPT ![s] = row]
           e == [A.bought EXCEPT ![s] = at]
           cash == A.cash - budget
<1>0. A \in Accounts
  BY DEF SoundAccount
<1>1. /\ f \in [Markets -> Orders \cup {NoValue}] /\ f[s] = NoValue /\ \A x \in Markets \ {s} : f[x] = A.pending[x]
      /\ g \in [Markets -> Holdings \cup {NoValue}] /\ g[s] = q /\ \A x \in Markets \ {s} : g[x] = A.positions[x]
      /\ h \in [Markets -> SignalRows \cup {NoValue}] /\ h[s] = row /\ \A x \in Markets \ {s} : h[x] = A.signals[x]
      /\ e \in [Markets -> Nat \cup {NoValue}] /\ e[s] = at /\ \A x \in Markets \ {s} : e[x] = A.bought[x]
  BY <1>0, Fields
<1>2. B = [A EXCEPT !.cash = cash, !.pending = f, !.bought = e, !.signals = h, !.positions = g]
  BY DEF Filled
<1>3. budget \in Nat /\ budget = Promise(A)[s] /\ budget <= Reserved(A) /\ A.positions[s] = NoValue
  BY <1>0, Fields, Sums DEF Orders, Promise, SoundAccount, RowSound
<1>4. /\ A.cash \in Nat /\ A.realized \in Int /\ Reserved(A) \in Nat /\ Invested(A) \in Nat
      /\ Reserved(A) <= A.cash /\ A.cash + Invested(A) = SeedCash + A.realized
  BY <1>0, Fields, Sums DEF SoundAccount
<1>5. cash \in Nat
  BY <1>3, <1>4
<1>6. q # NoValue /\ row # NoValue /\ at # NoValue /\ q.cost = budget
  BY FlowConstants
<1> HIDE DEF B, f, g, h, e, cash, budget
<1>7. /\ B \in Accounts /\ B.positions = g /\ B.cash = cash /\ B.realized = A.realized
      /\ B.pending = f /\ B.signals = h /\ B.bought = e
  BY <1>0, <1>1, <1>2, <1>5 DEF Accounts
<1>8. Reserved(B) = Reserved(A) - budget
  <2>1. Changed(Promise(A), Promise(B), Markets, s)
    <3>1. \A x \in Markets \ {s} : Promise(A)[x] = Promise(B)[x]
      BY <1>1, <1>7 DEF Promise
    <3> QED BY <1>0, <1>7, <3>1, Sums DEF Changed
  <2>2. Promise(B)[s] = 0
    BY <1>1, <1>7 DEF Promise
  <2> QED BY <1>0, <1>3, <1>4, <1>7, <2>1, <2>2, Sums, SumChange, FlowConstants
<1>9. Invested(B) = Invested(A) + budget
  <2>1. Changed(Stake(A), Stake(B), Markets, s)
    <3>1. \A x \in Markets \ {s} : Stake(A)[x] = Stake(B)[x]
      BY <1>1, <1>7 DEF Stake
    <3> QED BY <1>0, <1>7, <3>1, Sums DEF Changed
  <2>2. Stake(A)[s] = 0 /\ Stake(B)[s] = budget
    BY <1>1, <1>3, <1>6, <1>7 DEF Stake
  <2> QED BY <1>0, <1>3, <1>4, <1>7, <2>1, <2>2, Sums, SumChange, FlowConstants
<1>10. Cardinality(Positions(B)) = Cardinality(Positions(A)) + 1
  <2>1. Positions(B) = Positions(A) \cup {s} /\ s \notin Positions(A)
    BY <1>1, <1>3, <1>6, <1>7 DEF Positions
  <2> QED BY <2>1, Counts, OneMore
<1>11. Cardinality(Pending(A)) = Cardinality(Pending(B)) + 1
  <2>1. Pending(A) = Pending(B) \cup {s} /\ s \notin Pending(B)
    BY <1>1, <1>7 DEF Pending
  <2> QED BY <2>1, Counts, OneMore
<1>12. ASSUME NEW x \in Markets PROVE RowSound(B, x)
  <2>1. CASE x = s
    BY <1>1, <1>6, <1>7, <2>1 DEF RowSound
  <2>2. CASE x # s
    <3>1. /\ RowSound(A, x) /\ B.signals[x] = A.signals[x] /\ B.pending[x] = A.pending[x]
          /\ B.positions[x] = A.positions[x] /\ B.bought[x] = A.bought[x]
      BY <1>1, <1>7, <2>2 DEF SoundAccount
    <3> QED BY <3>1 DEF RowSound
  <2> QED BY <2>1, <2>2
<1>13. Reserved(B) <= B.cash /\ B.cash + Invested(B) = SeedCash + B.realized
  BY <1>3, <1>4, <1>7, <1>8, <1>9, FlowConstants DEF cash
<1>14. Cardinality(Positions(B)) + Cardinality(Pending(B)) <= Slots
  <2>1. Cardinality(Positions(A)) + Cardinality(Pending(A)) <= Slots
    BY DEF SoundAccount
  <2> QED BY <1>10, <1>11, <2>1, Counts, FlowConstants
<1>15. SoundAccount(B)
  BY <1>7, <1>12, <1>13, <1>14 DEF SoundAccount
<1> QED BY <1>1, <1>7, <1>15 DEF B

-----------------------------------------------------------------------------
(* What the observer calls.                                                  *)

\* B is A after a call at ts that fills nothing: bought is as it was, stops
\* only rise, decided exits stay, and an order is one that waited or a new one.
Sober(A, B, ts) ==
  /\ SoundAccount(B) /\ B.bought = A.bought
  /\ \A s \in Markets :
       /\ A.positions[s] # NoValue /\ B.positions[s] # NoValue =>
            /\ B.positions[s].stop >= A.positions[s].stop
            /\ A.positions[s].exit # NoValue => B.positions[s].exit = A.positions[s].exit
       /\ B.pending[s] # NoValue => B.pending[s] = A.pending[s] \/ B.pending[s].ts = ts

LEMMA MilderSober ==
  ASSUME NEW A, SoundAccount(A), NEW B, Milder(A, B), NEW ts
  PROVE  Sober(A, B, ts) /\ \A s \in Markets : B.pending[s] # NoValue => B.pending[s] = A.pending[s]
<1>1. SoundAccount(B)
  BY MilderSound
<1>2. \A s \in Markets : B.pending[s] # NoValue => B.pending[s] = A.pending[s]
  BY DEF Milder
<1> QED BY <1>1, <1>2 DEF Sober, Milder, Guarded

LEMMA UntouchedSober ==
  ASSUME NEW A, SoundAccount(A), NEW B, SoundAccount(B), B.bought = A.bought, B.positions = A.positions, NEW ts,
         \A s \in Markets : B.pending[s] # NoValue => B.pending[s] = A.pending[s] \/ B.pending[s].ts = ts
  PROVE  Sober(A, B, ts)
<1>1. \A s \in Markets : A.positions[s] # NoValue => A.positions[s].stop \in Int
  BY Fields DEF SoundAccount, Holdings
<1> QED BY <1>1 DEF Sober

LEMMA FlowSignalSober ==
  ASSUME NEW A, SoundAccount(A), NEW s \in Markets, NEW ts \in Nat, NEW price \in Nat, price <= MinBudget * Parts,
         NEW low \in Int
  PROVE  Sober(A, FlowSignal(A, s, ts, price, low), ts)
<1> DEFINE held == Cardinality(Positions(A))
           waiting == Cardinality(Pending(A))
           vacant == Slots - held - waiting
           budget == IF vacant > 0 THEN (A.cash - Reserved(A)) \div vacant ELSE 0
           refused == vacant <= 0 \/ budget < MinBudget \/ low = NoValue \/ low >= price
           order == [ts |-> ts, day |-> ts \div FlowDay, ref |-> price, stop |-> low, budget |-> budget]
           skipped == [day |-> ts \div FlowDay, ts |-> ts, status |-> "SKIPPED"]
           waits == [day |-> ts \div FlowDay, ts |-> ts, status |-> "PENDING"]
           B == FlowSignal(A, s, ts, price, low)
<1>0. A \in Accounts
  BY DEF SoundAccount
<1>1. Sober(A, A, ts)
  BY UntouchedSober
<1>2. \/ B = A
      \/ CanSignal(A, s, ts) /\ B = Skip(A, s, skipped)
      \/ CanSignal(A, s, ts) /\ ~refused /\ B = Place(A, s, waits, order)
  BY <1>0 DEF FlowSignal, SignalRow, Skip, Place, Accounts
<1>3. ts \div FlowDay \in Int
  BY FlowConstants, Quotient
<1>4. skipped \in SignalRows /\ waits \in SignalRows /\ skipped.status = "SKIPPED" /\ waits.status = "PENDING"
      /\ waits.ts = ts /\ waits.day = ts \div FlowDay
  <2> DEFINE d == ts \div FlowDay
  <2> HIDE DEF d
  <2>1. d \in Int
    BY <1>3 DEF d
  <2> QED BY <2>1 DEF SignalRows, d
<1>5. CanSignal(A, s, ts) => A.pending[s] = NoValue /\ A.positions[s] = NoValue
  BY DEF CanSignal, Positions, Pending
<1>6. ASSUME CanSignal(A, s, ts), B = Skip(A, s, skipped) PROVE Sober(A, B, ts)
  <2> HIDE DEF skipped, B
  <2> QED BY <1>4, <1>5, <1>6, SkipSound, UntouchedSober
<1>7. ASSUME CanSignal(A, s, ts), ~refused, B = Place(A, s, waits, order) PROVE Sober(A, B, ts)
  <2>1. held \in Nat /\ waiting \in Nat /\ vacant \in Int /\ vacant > 0 /\ held + waiting + 1 <= Slots
    BY <1>7, Counts, FlowConstants
  <2>2. A.cash - Reserved(A) \in Nat /\ A.cash \in Nat /\ Reserved(A) \in Nat
    BY <1>0, Fields, Sums DEF SoundAccount
  <2>3. budget \in Nat /\ budget <= A.cash - Reserved(A) /\ budget >= MinBudget
    <3> DEFINE n == vacant
               a == A.cash - Reserved(A)
    <3>1. n \in Nat /\ n > 0 /\ a \in Nat /\ budget = a \div n /\ ~(budget < MinBudget)
      BY <1>7, <2>1, <2>2
    <3> HIDE DEF n, a, budget
    <3>2. a \div n \in Nat /\ a \div n <= a
      BY <3>1, ShareAtMost
    <3> QED BY <3>1, <3>2, FlowConstants DEF a
  <2> HIDE DEF budget, held, waiting
  <2>4. /\ order \in Orders /\ order.ts = ts /\ order.day = ts \div FlowDay /\ order.ref = price /\ order.budget = budget
    <3> DEFINE d == ts \div FlowDay
    <3>1. d \in Int
      BY <1>3
    <3> HIDE DEF d
    <3> QED BY <2>3, <3>1 DEF Orders, d
  <2>5. price <= budget * Parts
    BY <2>3, FlowConstants DEF Parts
  <2>6. Reserved(A) + budget <= A.cash
    BY <2>2, <2>3
  <2> HIDE DEF order, waits, B
  <2>7. /\ SoundAccount(B) /\ B.positions = A.positions /\ B.bought = A.bought /\ B.pending[s] = order
        /\ \A x \in Markets \ {s} : B.pending[x] = A.pending[x]
    BY <1>4, <1>5, <1>7, <2>1, <2>4, <2>5, <2>6, PlaceSound DEF held, waiting
  <2> QED BY <2>4, <2>7, UntouchedSober
<1> HIDE DEF refused, order, skipped, waits, B
<1>8. Sober(A, B, ts)
  BY <1>1, <1>2, <1>6, <1>7
<1> QED BY <1>8 DEF B

LEMMA SignalSober ==
  ASSUME NEW A, SoundAccount(A), NEW s \in Markets, NEW ts \in Nat, NEW price \in Nat, price <= MinBudget * Parts,
         NEW low \in Int
  PROVE  Sober(A, Signal(A, s, ts, price, low), ts)
<1> DEFINE r == RegimeAt(A, ts)
           cut == (price * (12 - Risk[r].sl)) \div 12
           row == [day |-> ts \div FlowDay, ts |-> ts, status |-> "SKIPPED"]
           B == Signal(A, s, ts, price, low)
<1>0. A \in Accounts
  BY DEF SoundAccount
<1>1. Sober(A, A, ts)
  BY UntouchedSober
<1>2. Sober(A, FlowSignal(A, s, ts, price, low), ts)
  BY FlowSignalSober
<1>3. r \in Regimes \cup {"UNAVAILABLE"}
  BY <1>0, Fields DEF RegimeAt
<1>4. r \notin Unfit => Sober(A, FlowSignal(A, s, ts, price, cut), ts)
  <2> SUFFICES ASSUME r \notin Unfit PROVE Sober(A, FlowSignal(A, s, ts, price, cut), ts)
    OBVIOUS
  <2>1. r \in Regimes
    BY <1>3 DEF Unfit
  <2>2. Risk[r].sl \in Nat
    BY <2>1, RiskFacts
  <2>3. price * (12 - Risk[r].sl) \in Int
    BY <2>2
  <2>4. cut \in Int
    BY <2>3, Quotient
  <2> HIDE DEF cut
  <2> QED BY <2>4, FlowSignalSober
<1>5. CanSignal(A, s, ts) => Sober(A, Skip(A, s, row), ts)
  <2> SUFFICES ASSUME CanSignal(A, s, ts) PROVE Sober(A, Skip(A, s, row), ts)
    OBVIOUS
  <2>1. ts \div FlowDay \in Int
    BY FlowConstants, Quotient
  <2>2. row \in SignalRows /\ row.status = "SKIPPED"
    <3> DEFINE d == ts \div FlowDay
    <3> HIDE DEF d
    <3>1. d \in Int
      BY <2>1 DEF d
    <3> QED BY <3>1 DEF SignalRows, d
  <2>3. A.pending[s] = NoValue
    BY DEF CanSignal, Pending
  <2> HIDE DEF row
  <2> QED BY <2>2, <2>3, SkipSound, UntouchedSober
<1>6. \/ B = FlowSignal(A, s, ts, price, low) \/ B = A
      \/ r \notin Unfit /\ B = FlowSignal(A, s, ts, price, cut)
      \/ CanSignal(A, s, ts) /\ B = Skip(A, s, row)
  BY DEF Signal, DayHoldSignal, SignalRow, Skip
<1> HIDE DEF r, cut, row, B
<1>7. Sober(A, B, ts)
  BY <1>1, <1>2, <1>4, <1>5, <1>6
<1> QED BY <1>7 DEF B

\* A sale takes what the book takes, at most the position, with its part of the cost.
LEMMA SaleAmounts ==
  ASSUME NEW p \in Holdings, NEW b, b.price \in Nat, b.bids \in Nat
  PROVE  LET sold == IF b.bids < p.qty THEN b.bids ELSE p.qty
             cost == (p.cost * sold) \div p.qty
         IN /\ sold \in 0 .. p.qty /\ cost \in 0 .. p.cost /\ (sold = p.qty => cost = p.cost)
            /\ (sold * b.price) \div Parts \in Nat
<1> DEFINE sold == IF b.bids < p.qty THEN b.bids ELSE p.qty
           cost == (p.cost * sold) \div p.qty
<1>1. p.qty \in Nat \ {0} /\ p.cost \in Nat
  BY DEF Holdings
<1>2. sold \in Nat /\ sold <= p.qty
  BY <1>1
<1> HIDE DEF sold
<1>3. cost \in 0 .. p.cost
  BY <1>1, <1>2, AllocationBounds
<1>4. sold = p.qty => cost = p.cost
  BY <1>1, WholeAllocation
<1>5. (sold * b.price) \div Parts \in Nat
  <2> DEFINE m == sold * b.price
  <2>1. m \in Nat
    BY <1>2
  <2>2. Parts \in Nat /\ Parts > 0
    BY DEF Parts
  <2> HIDE DEF m
  <2>3. m \div Parts \in Nat
    BY <2>1, <2>2, ShareAtMost
  <2> QED BY <2>3 DEF m
<1> QED BY <1>1, <1>2, <1>3, <1>4, <1>5 DEF sold

LEMMA ExitCases ==
  ASSUME NEW A, SoundAccount(A), NEW s \in Markets, A.positions[s] # NoValue, NEW ts,
         NEW b, b.stamp \in Int, b.price \in Nat, b.bids \in Nat
  PROVE  LET B == ExecuteExit(A, s, ts, b)
         IN \/ B = A
            \/ /\ A.positions[s].exit # NoValue /\ Sellable(A.positions[s], b)
               /\ SoundAccount(B) /\ B.bought = A.bought /\ B.pending = A.pending
               /\ B.positions[s] # NoValue =>
                    B.positions[s].stop = A.positions[s].stop /\ B.positions[s].exit = A.positions[s].exit
               /\ \A x \in Markets \ {s} : B.positions[x] = A.positions[x]
<1> DEFINE p == A.positions[s]
           sold == IF b.bids < p.qty THEN b.bids ELSE p.qty
           cost == (p.cost * sold) \div p.qty
           proceeds == (sold * b.price) \div Parts
           rest == [p EXCEPT !.qty = @ - sold, !.cost = @ - cost, !.pnl = @ + proceeds - cost, !.lastSell = b.stamp]
           q == IF sold = p.qty THEN NoValue ELSE rest
           cash == A.cash + proceeds
           realized == A.realized + proceeds - cost
           B == ExecuteExit(A, s, ts, b)
<1>0. A \in Accounts
  BY DEF SoundAccount
<1>1. p \in Holdings
  BY <1>0, Fields
<1>2. /\ p.qty \in Nat \ {0} /\ p.cost \in Nat /\ p.pnl \in Int
  BY <1>1 DEF Holdings
<1>3. /\ sold \in 0 .. p.qty /\ cost \in 0 .. p.cost /\ (sold = p.qty => cost = p.cost) /\ proceeds \in Nat
  BY <1>1, SaleAmounts
<1>4. B = A \/ (p.exit # NoValue /\ Sellable(p, b) /\ B = Sold(A, s, cash, realized, q))
  BY DEF ExecuteExit, Sold
<1>5. rest = [p EXCEPT !.qty = p.qty - sold, !.cost = p.cost - cost, !.pnl = p.pnl + proceeds - cost, !.lastSell = b.stamp]
  OBVIOUS
<1> HIDE DEF sold, cost, proceeds
<1>6. sold # p.qty => /\ rest \in Holdings /\ rest.cost = p.cost - cost /\ rest.stop = p.stop /\ rest.exit = p.exit
  <2> DEFINE n == p.qty - sold
             c == p.cost - cost
             g == p.pnl + proceeds - cost
  <2>1. sold # p.qty => n \in Nat \ {0}
    BY <1>2, <1>3
  <2>2. c \in Nat /\ g \in Int
    BY <1>2, <1>3
  <2>3. rest = [p EXCEPT !.qty = n, !.cost = c, !.pnl = g, !.lastSell = b.stamp]
    BY <1>5
  <2> HIDE DEF p, n, c, g, rest
  <2>4. sold # p.qty => /\ rest \in Holdings /\ rest.cost = c /\ rest.stop = p.stop /\ rest.exit = p.exit
    BY <1>1, <2>1, <2>2, <2>3 DEF Holdings
  <2> QED BY <2>4 DEF c
<1> HIDE DEF rest
<1>7. q \in Holdings \cup {NoValue} /\ (q # NoValue => q.stop = p.stop /\ q.exit = p.exit)
  BY <1>6, FlowConstants
<1>8. /\ cash \in Nat /\ realized \in Int /\ cash >= A.cash
      /\ cash + (IF q = NoValue THEN 0 ELSE q.cost) - realized = A.cash + p.cost - A.realized
  <2>1. A.cash \in Nat /\ A.realized \in Int
    BY <1>0, Fields
  <2>2. (IF q = NoValue THEN 0 ELSE q.cost) = p.cost - cost
    <3>1. sold = p.qty => q = NoValue /\ p.cost - cost = 0
      BY <1>2, <1>3
    <3>2. sold # p.qty => q # NoValue /\ q.cost = p.cost - cost
      BY <1>6, FlowConstants
    <3> QED BY <3>1, <3>2
  <2>3. cost \in Int /\ proceeds \in Nat
    BY <1>3
  <2> DEFINE c == IF q = NoValue THEN 0 ELSE q.cost
  <2>4. c = p.cost - cost
    BY <2>2
  <2> HIDE DEF c
  <2> QED BY <1>2, <2>1, <2>3, <2>4 DEF c
<1>9. ASSUME p.exit # NoValue, Sellable(p, b), B = Sold(A, s, cash, realized, q)
      PROVE  /\ SoundAccount(B) /\ B.bought = A.bought /\ B.pending = A.pending /\ B.positions[s] = q
             /\ \A x \in Markets \ {s} : B.positions[x] = A.positions[x]
  <2> HIDE DEF B, cash, realized, q
  <2> QED BY <1>7, <1>8, <1>9, SoldSound
<1> HIDE DEF q, cash, realized
<1> QED BY <1>4, <1>7, <1>9

\* A purchase is of a part of a coin at least.
LEMMA PurchaseAmount ==
  ASSUME NEW budget \in Nat, NEW price \in Nat \ {0}, price <= budget * Parts
  PROVE  (budget * Parts) \div price \in Nat \ {0}
<1> DEFINE m == budget * Parts
           q == m \div price
<1>1. m \in Nat /\ price <= m
  BY DEF Parts
<1> HIDE DEF m
<1>2. q \in Int /\ price * q <= m /\ m < price * q + price
  BY <1>1
<1>3. q >= 0
  BY <1>1, ShareAtMost
<1> HIDE DEF q
<1>4. q # 0
  <2> SUFFICES ASSUME q = 0 PROVE FALSE
    OBVIOUS
  <2>1. price * q = 0
    OBVIOUS
  <2> QED BY <1>1, <1>2, <2>1
<1>5. q \in Nat \ {0}
  BY <1>2, <1>3, <1>4
<1> QED BY <1>5 DEF q, m

LEMMA BoughtSound ==
  ASSUME NEW A, SoundAccount(A), NEW s \in Markets, A.pending[s] # NoValue, NEW ts \in Nat,
         NEW b, b.price \in Nat \ {0}, Usable(A, s, ts, b), Fillable(A, s, b),
         A.kind = "DAYHOLD" => RegimeAt(A, ts) \notin Unfit
  PROVE  LET B == Bought(A, s, ts, b)
         IN /\ SoundAccount(B) /\ B.pending[s] = NoValue /\ B.positions[s] # NoValue
            /\ \A x \in Markets \ {s} :
                 B.bought[x] = A.bought[x] /\ B.pending[x] = A.pending[x] /\ B.positions[x] = A.positions[x]
<1> DEFINE order == A.pending[s]
           qty == (order.budget * Parts) \div b.price
           p == [qty |-> qty, oqty |-> qty, cost |-> order.budget, orig |-> order.budget,
                 entry |-> ts, stop |-> order.stop, peak |-> A.trades[s].price, peakAt |-> ts,
                 exit |-> NoValue, uncertain |-> FALSE, lastSell |-> -1, pnl |-> 0, neg |-> 0,
                 weak |-> FALSE, flowAt |-> 0, warn |-> NoValue, seen |-> -1, sl |-> NoValue, tp |-> 0]
           q == IF A.kind = "FLOW" THEN p ELSE Configured(p, RegimeAt(A, ts), FALSE)
           row == [A.signals[s] EXCEPT !.status = "BOUGHT"]
           B == Bought(A, s, ts, b)
<1>0. A \in Accounts
  BY DEF SoundAccount
<1>1. order \in Orders /\ RowSound(A, s) /\ A.trades[s] \in SeenTrades
  BY <1>0, Fields DEF SoundAccount, Usable
<1>2. /\ order.budget \in Nat /\ order.stop \in Int /\ order.ts \in Nat /\ order.ref \in Nat
      /\ order.ref <= order.budget * Parts /\ A.trades[s].price \in Nat
  BY <1>1 DEF Orders, RowSound, SeenTrades
<1>3. qty \in Nat \ {0}
  <2>1. b.price <= order.budget * Parts
    BY <1>2 DEF Fillable, Parts
  <2> QED BY <1>2, <2>1, PurchaseAmount
<1>4. p \in Holdings /\ p.cost = order.budget
  <2> DEFINE budget == order.budget
             stop == order.stop
             peak == A.trades[s].price
             m == -1
  <2>1. budget \in Nat /\ stop \in Int /\ peak \in Int /\ m \in Int
    BY <1>2
  <2>2. p = [qty |-> qty, oqty |-> qty, cost |-> budget, orig |-> budget,
             entry |-> ts, stop |-> stop, peak |-> peak, peakAt |-> ts,
             exit |-> NoValue, uncertain |-> FALSE, lastSell |-> m, pnl |-> 0, neg |-> 0,
             weak |-> FALSE, flowAt |-> 0, warn |-> NoValue, seen |-> m, sl |-> NoValue, tp |-> 0]
    OBVIOUS
  <2> HIDE DEF p, qty, budget, stop, peak, m
  <2>3. p \in Holdings /\ p.cost = budget
    BY <1>3, <2>1, <2>2 DEF Holdings
  <2> QED BY <2>3 DEF budget
<1>5. q \in Holdings /\ q.cost = order.budget
  <2> HIDE DEF p
  <2>1. CASE A.kind = "FLOW"
    BY <1>4, <2>1
  <2>2. CASE A.kind # "FLOW"
    <3>1. A.kind = "DAYHOLD" /\ RegimeAt(A, ts) \in Regimes \cup {"UNAVAILABLE"}
      BY <1>0, <2>2, Fields DEF RegimeAt
    <3>2. RegimeAt(A, ts) \in Regimes
      BY <3>1 DEF Unfit
    <3>3. q = Configured(p, RegimeAt(A, ts), FALSE)
      BY <2>2
    <3> QED BY <1>4, <3>2, <3>3, ConfiguredHolds
  <2> QED BY <2>1, <2>2
<1>6. row \in SignalRows /\ row.status = "BOUGHT" /\ row.ts <= ts
  <2>1. A.signals[s] \in SignalRows /\ A.signals[s].ts = order.ts
    BY <1>0, <1>1, Fields DEF RowSound
  <2>2. row \in SignalRows /\ row.status = "BOUGHT" /\ row.ts = A.signals[s].ts
    BY <2>1 DEF SignalRows
  <2>3. ts > order.ts
    BY DEF Usable
  <2> QED BY <1>2, <2>1, <2>2, <2>3
<1>7. B = Filled(A, s, row, ts, q)
  BY <1>0, Fields DEF Bought, Filled
<1> HIDE DEF order, qty, p, q, row, B
<1>8. /\ SoundAccount(B) /\ B.pending[s] = NoValue /\ B.positions[s] = q
      /\ \A x \in Markets \ {s} :
           B.bought[x] = A.bought[x] /\ B.pending[x] = A.pending[x] /\ B.positions[x] = A.positions[x]
  BY <1>5, <1>6, <1>7, FilledSound DEF order
<1> QED BY <1>5, <1>8, FlowConstants DEF B

\* What may come of a book.
Purchased(A, B, s, ts, b) ==
  /\ A.pending[s] # NoValue /\ Usable(A, s, ts, b) /\ Fillable(A, s, b) /\ ~Dropped(A, s, ts, b)
  /\ A.kind = "DAYHOLD" => RegimeAt(A, ts) \notin Unfit
  /\ B = Bought(A, s, ts, b)

Exited(A, B, s, ts, b) ==
  /\ A.positions[s] # NoValue
  /\ \E M : /\ Ruled(A, M, s, ts) /\ M.positions[s].exit # NoValue /\ Sellable(M.positions[s], b)
            /\ B = ExecuteExit(M, s, ts, b) /\ B.pending = A.pending
            /\ Sober(A, B, ts)

LEMMA EntryCases ==
  ASSUME NEW A, SoundAccount(A), NEW s \in Markets, NEW ts, NEW b, A.kind = "DAYHOLD" => RegimeAt(A, ts) \notin Unfit
  PROVE  Milder(A, TryEntry(A, s, ts, b)) \/ Purchased(A, TryEntry(A, s, ts, b), s, ts, b)
<1>1. Milder(A, A)
  BY MilderSame DEF SoundAccount
<1> QED BY <1>1, CancelMild DEF TryEntry, Purchased

\* A book of a market that is held.
LEMMA HeldCases ==
  ASSUME NEW A, SoundAccount(A), NEW s \in Markets, A.positions[s] # NoValue, NEW ts \in Nat, NEW M, Ruled(A, M, s, ts),
         NEW b, b.stamp \in Int, b.price \in Nat, b.bids \in Nat
  PROVE  LET B == TryEntry(ExecuteExit(M, s, ts, b), s, ts, b)
         IN Milder(A, B) \/ Exited(A, B, s, ts, b)
<1> DEFINE E == ExecuteExit(M, s, ts, b)
           B == TryEntry(E, s, ts, b)
<1> SUFFICES Milder(A, B) \/ Exited(A, B, s, ts, b)
  OBVIOUS
<1>0. A \in Accounts /\ A.pending[s] = NoValue
  BY DEF SoundAccount, RowSound
<1>1. Milder(A, M) /\ M.pending = A.pending
  BY DEF Ruled
<1>2. SoundAccount(M) /\ M.positions[s] # NoValue
  BY <1>1, MilderSound DEF Milder, Guarded
<1>3. \/ E = M
      \/ /\ M.positions[s].exit # NoValue /\ Sellable(M.positions[s], b)
         /\ SoundAccount(E) /\ E.bought = M.bought /\ E.pending = M.pending
         /\ E.positions[s] # NoValue => E.positions[s].stop = M.positions[s].stop /\ E.positions[s].exit = M.positions[s].exit
         /\ \A x \in Markets \ {s} : E.positions[x] = M.positions[x]
  BY <1>2, ExitCases
<1>4. E.pending[s] = NoValue
  BY <1>0, <1>1, <1>3
<1>5. B = E
  BY <1>4 DEF TryEntry
<1>9. E = ExecuteExit(M, s, ts, b)
  OBVIOUS
<1> HIDE DEF E, B
<1>6. CASE E = M
  BY <1>1, <1>5, <1>6
<1>7. CASE /\ M.positions[s].exit # NoValue /\ Sellable(M.positions[s], b)
           /\ SoundAccount(E) /\ E.bought = M.bought /\ E.pending = M.pending
           /\ E.positions[s] # NoValue => E.positions[s].stop = M.positions[s].stop /\ E.positions[s].exit = M.positions[s].exit
           /\ \A x \in Markets \ {s} : E.positions[x] = M.positions[x]
  <2>1. Sober(A, M, ts) /\ M.bought = A.bought
    BY <1>1, MilderSober DEF Sober
  <2>2. ASSUME NEW x \in Markets, A.positions[x] # NoValue, E.positions[x] # NoValue
        PROVE  /\ E.positions[x].stop >= A.positions[x].stop
               /\ A.positions[x].exit # NoValue => E.positions[x].exit = A.positions[x].exit
    <3>1. /\ M.positions[x] # NoValue /\ M.positions[x].stop >= A.positions[x].stop
          /\ A.positions[x].exit # NoValue => M.positions[x].exit = A.positions[x].exit
      BY <1>1, <2>2 DEF Milder, Guarded
    <3>2. E.positions[x].stop = M.positions[x].stop /\ E.positions[x].exit = M.positions[x].exit
      BY <1>7, <2>2
    <3> QED BY <3>1, <3>2
  <2>3. Sober(A, E, ts)
    BY <1>1, <1>7, <2>1, <2>2 DEF Sober
  <2>4. /\ Ruled(A, M, s, ts) /\ M.positions[s].exit # NoValue /\ Sellable(M.positions[s], b)
        /\ B = ExecuteExit(M, s, ts, b) /\ B.pending = A.pending /\ Sober(A, B, ts)
    BY <1>1, <1>5, <1>7, <1>9, <2>3
  <2> QED BY <2>4 DEF Exited
<1> QED BY <1>3, <1>6, <1>7

LEMMA BookCases ==
  ASSUME NEW A, SoundAccount(A), NEW s \in Markets, NEW ts \in Nat,
         NEW b, b.stamp \in Int, b.price \in Nat, b.bids \in Nat
  PROVE  LET B == OnBook(A, s, ts, b)
         IN Milder(A, B) \/ Exited(A, B, s, ts, b) \/ Purchased(A, B, s, ts, b)
<1> DEFINE B == OnBook(A, s, ts, b)
           fit == IF RegimeAt(A, ts) \in Unfit THEN Cancel(A, s) ELSE A
<1>0. A \in Accounts /\ A.kind \in {"FLOW", "DAYHOLD"}
  BY Fields DEF SoundAccount
<1>1. Milder(A, A)
  BY <1>0, MilderSame
<1>2. CASE ~Timely(ts, b.stamp)
  BY <1>1, <1>2 DEF OnBook
<1>3. CASE Timely(ts, b.stamp) /\ A.kind = "FLOW"
  <2>1. B = FlowBook(A, s, ts, b)
    BY <1>3 DEF OnBook
  <2>2. CASE A.positions[s] = NoValue
    BY <1>3, <2>1, <2>2, EntryCases DEF FlowBook
  <2>3. CASE A.positions[s] # NoValue
    <3>1. Ruled(A, FlowRules(A, s, ts, b), s, ts)
      BY <1>0, <2>3, FlowRulesRule
    <3>2. B = TryEntry(ExecuteExit(FlowRules(A, s, ts, b), s, ts, b), s, ts, b)
      BY <2>1, <2>3 DEF FlowBook
    <3> QED BY <2>3, <3>1, <3>2, HeldCases
  <2> QED BY <2>2, <2>3
<1>4. CASE Timely(ts, b.stamp) /\ A.kind = "DAYHOLD"
  <2>0. B = DayHoldBook(A, s, ts, b) /\ A.kind # "FLOW"
    BY <1>4 DEF OnBook
  <2>1. CASE A.positions[s] = NoValue
    <3>1. Milder(A, fit) /\ SoundAccount(fit) /\ fit.positions[s] = NoValue
      <4>1. Milder(A, fit) /\ fit.positions = A.positions
        BY <1>1, CancelMild
      <4> HIDE DEF fit
      <4> QED BY <2>1, <4>1, MilderSound
    <3>2. B = TryEntry(fit, s, ts, b)
      BY <2>0, <2>1, <3>1 DEF DayHoldBook, FlowBook
    <3>3. CASE RegimeAt(A, ts) \in Unfit
      <4>1. fit.pending[s] = NoValue
        BY <3>3, CancelMild
      <4>2. B = fit
        BY <3>2, <4>1 DEF TryEntry
      <4> QED BY <3>1, <4>2
    <3>4. CASE RegimeAt(A, ts) \notin Unfit
      BY <3>2, <3>4, EntryCases
    <3> QED BY <3>3, <3>4
  <2>2. CASE A.positions[s] # NoValue /\ b.stamp <= A.positions[s].seen
    BY <1>1, <2>0, <2>2 DEF DayHoldBook
  <2>3. CASE A.positions[s] # NoValue /\ ~(b.stamp <= A.positions[s].seen)
    <3> DEFINE R == DayHoldRules(A, s, ts, b)
    <3>1. Ruled(A, R, s, ts)
      BY <1>0, <2>3, DayHoldRulesRule
    <3>2. B = FlowBook(R, s, ts, b)
      BY <2>0, <2>3 DEF DayHoldBook
    <3> HIDE DEF R
    <3>3. R.positions[s] # NoValue /\ Milder(A, R) /\ R \in Accounts
      BY <2>3, <3>1 DEF Ruled, Milder, Guarded
    <3> DEFINE Q == FlowRules(R, s, ts, b)
    <3>4. Ruled(R, Q, s, ts)
      BY <3>3, FlowRulesRule
    <3>5. B = TryEntry(ExecuteExit(Q, s, ts, b), s, ts, b)
      BY <3>2, <3>3 DEF FlowBook
    <3> HIDE DEF Q
    <3>6. Ruled(A, Q, s, ts)
      BY <1>0, <3>1, <3>4, RuledTwice
    <3> QED BY <2>3, <3>5, <3>6, HeldCases
  <2> QED BY <2>1, <2>2, <2>3
<1> QED BY <1>0, <1>2, <1>3, <1>4

-----------------------------------------------------------------------------
(* The steps of FlowPaper.                                                   *)

LEMMA FlowPaperConstants ==
  /\ FlowKinds \subseteq {"FLOW", "DAYHOLD"} /\ BookPrices \subseteq Nat \ {0}
  /\ Ref \in Nat \ {0} /\ Low \in Nat \ {0} /\ Ref <= MinBudget * Parts
  /\ FlowScopes \subseteq [markets : SUBSET Markets, until : Nat]
BY FlowPaperAssumption

LEMMA FlowInitial == PInit => FlowInv
<1> SUFFICES ASSUME PInit PROVE FlowInv
  OBVIOUS
<1>1. PICK kind \in FlowKinds : acct = NewAccount(kind)
  BY DEF PInit
<1>2. acct \in Accounts
  BY <1>1, FlowPaperConstants, FlowConstants DEF NewAccount, Accounts
<1>3. /\ acct.cash = SeedCash /\ acct.realized = 0
      /\ \A s \in Markets : acct.positions[s] = NoValue /\ acct.pending[s] = NoValue /\ acct.signals[s] = NoValue
  BY <1>1 DEF NewAccount
<1>4. Reserved(acct) = 0 /\ Invested(acct) = 0
  <2>1. \A s \in Markets : Promise(acct)[s] = 0 /\ Stake(acct)[s] = 0
    BY <1>3 DEF Promise, Stake
  <2>2. Cardinality(Markets) \in Nat
    BY FlowConstants, FS_CardinalityType
  <2>3. SumFunctionOnSet(Promise(acct), Markets) = Cardinality(Markets) * 0
        /\ SumFunctionOnSet(Stake(acct), Markets) = Cardinality(Markets) * 0
    BY <2>1, FlowConstants, SumConstant
  <2> QED BY <1>2, <2>2, <2>3, Sums
<1>5. Cardinality(Positions(acct)) = 0 /\ Cardinality(Pending(acct)) = 0
  <2>1. Positions(acct) = {} /\ Pending(acct) = {}
    BY <1>3 DEF Positions, Pending
  <2> QED BY <2>1, FS_EmptySet
<1>6. SoundAccount(acct)
  BY <1>2, <1>3, <1>4, <1>5, FlowConstants DEF SoundAccount, RowSound
<1> QED BY <1>3, <1>6 DEF PInit, FlowInv, FillsAreCausal

\* A step that fills nothing.
LEMMA SoberStep ==
  ASSUME FlowInv, Sober(acct, acct', moment), fill' = NoFill, UNCHANGED <<extent, moment, gapAt, faults>>
  PROVE  FlowInv' /\ EntriesAreAllowed /\ ProtectionOnlyTightens
<1>1. \A s \in Markets : acct'.pending[s] # NoValue => acct'.pending[s].ts >= gapAt[s]
  BY DEF FlowInv, Sober
<1>2. FlowInv'
  BY <1>1 DEF FlowInv, Sober, FillsAreCausal
<1>3. EntriesAreAllowed /\ ProtectionOnlyTightens
  BY DEF EntriesAreAllowed, ProtectionOnlyTightens, Sober
<1> QED BY <1>2, <1>3

\* One that decides nothing new, while time may pass or data be interrupted.
LEMMA MilderStep ==
  ASSUME FlowInv, Milder(acct, acct'), fill' = NoFill, extent' = extent, faults' \in Nat,
         moment' \in Nat, moment' >= moment, gapAt' \in [Markets -> Nat],
         \A s \in Markets : gapAt'[s] = gapAt[s] \/ (gapAt'[s] = moment /\ acct'.pending[s] = NoValue)
  PROVE  FlowInv' /\ EntriesAreAllowed /\ ProtectionOnlyTightens
<1>1. Sober(acct, acct', moment) /\ \A s \in Markets : acct'.pending[s] # NoValue => acct'.pending[s] = acct.pending[s]
  BY MilderSober DEF FlowInv
<1>2. \A s \in Markets : acct'.pending[s] # NoValue => acct'.pending[s].ts >= gapAt'[s]
  BY <1>1 DEF FlowInv
<1>3. \A s \in Markets : gapAt'[s] <= moment'
  <2>1. \A s \in Markets : gapAt[s] \in Nat /\ gapAt[s] <= moment /\ moment \in Nat
    BY DEF FlowInv
  <2> QED BY <2>1
<1>4. FlowInv'
  BY <1>1, <1>2, <1>3 DEF FlowInv, Sober, FillsAreCausal
<1>5. EntriesAreAllowed /\ ProtectionOnlyTightens
  BY <1>1 DEF EntriesAreAllowed, ProtectionOnlyTightens, Sober
<1> QED BY <1>4, <1>5

LEMMA ScopeMarkets == ASSUME FlowInv PROVE extent.markets \subseteq Markets /\ moment \in Nat /\ SoundAccount(acct) /\ acct \in Accounts
BY FlowPaperConstants DEF FlowInv, SoundAccount

LEMMA AdvanceClockKeeps == ASSUME FlowInv, AdvanceClock PROVE FlowInv' /\ EntriesAreAllowed /\ ProtectionOnlyTightens
<1>1. PICK w \in [Positions(acct) -> Windows] :
        acct' = TickAccount(IF (moment + 1) % WindowLength = 0 THEN Windowed(acct, moment + 1, w) ELSE acct, moment + 1)
  BY DEF AdvanceClock
<1>2. \A s \in Positions(acct) : w[s].low \in Int /\ w[s].below \in BOOLEAN
  <2>1. \A v \in Windows : v.low \in Int
    BY FlowPaperConstants DEF Windows
  <2>2. \A v \in Windows : v.below = TRUE \/ v.below = FALSE
    BY DEF Windows
  <2>3. \A v \in Windows : v.below \in BOOLEAN
    BY <2>2, Zenon
  <2> QED BY <2>1, <2>3
<1>3. SoundAccount(acct) /\ acct \in Accounts /\ moment + 1 \in Nat
  BY ScopeMarkets
<1> DEFINE C == IF (moment + 1) % WindowLength = 0 THEN Windowed(acct, moment + 1, w) ELSE acct
<1>4. Milder(acct, C)
  BY <1>2, <1>3, WindowedMild, MilderSame
<1> HIDE DEF C
<1>5. Milder(C, TickAccount(C, moment + 1))
  BY <1>3, <1>4, MilderSound, TickMild
<1>6. acct' = TickAccount(C, moment + 1)
  BY <1>1 DEF C
<1>7. Milder(acct, acct')
  BY <1>3, <1>4, <1>5, <1>6, MilderTwice
<1>8. /\ fill' = NoFill /\ extent' = extent /\ faults' \in Nat /\ moment' = moment + 1 /\ gapAt' = gapAt
      /\ gapAt \in [Markets -> Nat] /\ moment \in Nat
  BY DEF AdvanceClock, FlowInv
<1> QED BY <1>7, <1>8, MilderStep

LEMMA SignalsKeep == ASSUME FlowInv, Signals PROVE FlowInv' /\ EntriesAreAllowed /\ ProtectionOnlyTightens
<1>1. PICK s \in extent.markets : Only(Signal(acct, s, moment, Ref, Low))
  BY DEF Signals
<1>2. Sober(acct, Signal(acct, s, moment, Ref, Low), moment)
  BY ScopeMarkets, SignalSober, FlowPaperConstants
<1> QED BY <1>1, <1>2, SoberStep DEF Only

LEMMA TradesKeep == ASSUME FlowInv, Trades PROVE FlowInv' /\ EntriesAreAllowed /\ ProtectionOnlyTightens
<1>1. PICK s \in extent.markets : Only(OnTrade(acct, s, moment, Ref, moment))
  BY DEF Trades
<1>2. Milder(acct, OnTrade(acct, s, moment, Ref, moment))
  BY ScopeMarkets, OnTradeMild, FlowPaperConstants
<1>3. Sober(acct, acct', moment)
  BY <1>1, <1>2, ScopeMarkets, MilderSober DEF Only
<1> QED BY <1>1, <1>3, SoberStep DEF Only

LEMMA GapsKeep == ASSUME FlowInv, Gaps PROVE FlowInv' /\ EntriesAreAllowed /\ ProtectionOnlyTightens
<1>1. PICK S \in SUBSET extent.markets :
        /\ faults' = faults + 1 /\ acct' = Gap(acct, S, moment) /\ Interrupted(S)
        /\ fill' = NoFill /\ UNCHANGED <<extent, moment>>
  BY DEF Gaps
<1>2. Milder(acct, acct') /\ \A s \in S \cap Markets : acct'.pending[s] = NoValue
  BY <1>1, ScopeMarkets, GapMild
<1>3. /\ gapAt' \in [Markets -> Nat] /\ faults' \in Nat /\ moment \in Nat
      /\ \A s \in Markets : gapAt'[s] = gapAt[s] \/ (gapAt'[s] = moment /\ acct'.pending[s] = NoValue)
  BY <1>1, <1>2 DEF Interrupted, FlowInv
<1> QED BY <1>1, <1>2, <1>3, MilderStep

LEMMA StopKeeps == ASSUME FlowInv, Stop PROVE FlowInv' /\ EntriesAreAllowed /\ ProtectionOnlyTightens
<1>1. Only(Pause(acct))
  BY DEF Stop
<1>2. Sober(acct, acct', moment)
  BY <1>1, ScopeMarkets, PauseMild, MilderSober DEF Only
<1> QED BY <1>1, <1>2, SoberStep DEF Only

LEMMA RestartedKeeps == ASSUME FlowInv, Restarted PROVE FlowInv' /\ EntriesAreAllowed /\ ProtectionOnlyTightens
<1>1. PICK request \in ResumeIds : Only(Resume(acct, request))
  BY DEF Restarted
<1>2. Sober(acct, acct', moment)
  BY <1>1, ScopeMarkets, ResumeMild, MilderSober DEF Only
<1> QED BY <1>1, <1>2, SoberStep DEF Only

LEMMA MarketKeeps == ASSUME FlowInv, Market PROVE FlowInv' /\ EntriesAreAllowed /\ ProtectionOnlyTightens
<1>1. PICK state \in Regimes : Only(SetRegime(acct, state, moment))
  BY DEF Market
<1>2. Sober(acct, acct', moment)
  BY <1>1, ScopeMarkets, SetRegimeMild, MilderSober DEF Only
<1> QED BY <1>1, <1>2, SoberStep DEF Only

LEMMA NewProcessKeeps == ASSUME FlowInv, NewProcess PROVE FlowInv' /\ EntriesAreAllowed /\ ProtectionOnlyTightens
<1>1. PICK kept \in SUBSET Positions(acct) : acct' = Reopened(acct, moment, kept)
  BY DEF NewProcess
<1>2. Milder(acct, acct') /\ \A s \in Markets : acct'.pending[s] = NoValue
  BY <1>1, ScopeMarkets, ReopenedMild
<1>3. faults' = faults + 1 /\ Interrupted(Positions(acct) \cup Pending(acct)) /\ fill' = NoFill /\ UNCHANGED <<extent, moment>>
  BY DEF NewProcess
<1>4. /\ gapAt' \in [Markets -> Nat] /\ faults' \in Nat /\ moment \in Nat
      /\ \A s \in Markets : gapAt'[s] = gapAt[s] \/ (gapAt'[s] = moment /\ acct'.pending[s] = NoValue)
  BY <1>2, <1>3 DEF Interrupted, FlowInv
<1> QED BY <1>2, <1>3, <1>4, MilderStep

LEMMA BookFacts ==
  ASSUME FlowInv, NEW b \in Books
  PROVE  b.stamp \in Int /\ b.price \in Nat \ {0} /\ b.bids \in Nat
<1>1. moment \in Nat
  BY DEF FlowInv
<1>2. \/ b \in [stamp : (moment - QuoteAge) .. moment, price : BookPrices, asks : {TRUE}, bids : {100 * Parts}]
      \/ b \in [stamp : {moment}, price : {Low, Ref}, asks : {FALSE}, bids : {Parts}]
  BY DEF Books
<1>3. b.stamp \in Int
  <2>1. b.stamp \in (moment - QuoteAge) .. moment \/ b.stamp = moment
    BY <1>2
  <2> QED BY <1>1, <2>1 DEF QuoteAge
<1>4. b.price \in Nat \ {0}
  <2>1. b.price \in BookPrices \/ b.price = Low \/ b.price = Ref
    BY <1>2
  <2> QED BY <2>1, FlowPaperConstants
<1>5. b.bids \in Nat
  <2>1. b.bids = 100 * Parts \/ b.bids = Parts
    BY <1>2
  <2> QED BY <2>1 DEF Parts
<1> QED BY <1>3, <1>4, <1>5

LEMMA BookKeeps == ASSUME FlowInv, Book PROVE FlowInv' /\ EntriesAreAllowed /\ ProtectionOnlyTightens
<1>1. PICK s \in extent.markets, b \in Books :
        /\ acct' = OnBook(acct, s, moment, b) /\ fill' = FillOf(acct, acct', s, b)
        /\ UNCHANGED <<extent, moment, gapAt, faults>>
  BY DEF Book
<1>2. s \in Markets /\ moment \in Nat /\ SoundAccount(acct) /\ acct \in Accounts
  BY ScopeMarkets
<1>3. b.stamp \in Int /\ b.price \in Nat \ {0} /\ b.bids \in Nat
  BY BookFacts
<1>4. \/ Milder(acct, acct') \/ Exited(acct, acct', s, moment, b) \/ Purchased(acct, acct', s, moment, b)
  BY <1>1, <1>2, <1>3, BookCases
<1>5. CASE Milder(acct, acct')
  <2>1. Sober(acct, acct', moment)
    BY <1>2, <1>5, MilderSober
  <2>2. Guarded(acct.positions[s], acct'.positions[s])
    BY <1>2, <1>5 DEF Milder
  <2>3. fill' = NoFill
    BY <1>1, <2>2 DEF FillOf, Guarded
  <2> QED BY <1>1, <2>1, <2>3, SoberStep
<1>6. CASE Exited(acct, acct', s, moment, b)
  <2>1. PICK M : /\ Ruled(acct, M, s, moment) /\ M.positions[s].exit # NoValue /\ Sellable(M.positions[s], b)
                 /\ acct'.pending = acct.pending /\ Sober(acct, acct', moment) /\ acct.positions[s] # NoValue
    BY <1>6 DEF Exited
  <2>2. /\ M.positions[s].lastSell = acct.positions[s].lastSell
        /\ acct.positions[s].exit # NoValue => M.positions[s].exit = acct.positions[s].exit
        /\ acct.positions[s].exit = NoValue => M.positions[s].exit = moment
    BY <1>2, <2>1 DEF Ruled, Milder, Guarded
  <2> DEFINE decision == IF acct.positions[s].exit = NoValue THEN moment ELSE acct.positions[s].exit
  <2>3. b.stamp > decision /\ b.stamp > acct.positions[s].lastSell
    BY <2>1, <2>2 DEF Sellable
  <2>4. fill' = NoFill \/ fill' = [side |-> "SELL", symbol |-> s, stamp |-> b.stamp, decision |-> decision,
                                   last |-> acct.positions[s].lastSell]
    BY <1>1, <2>1 DEF FillOf
  <2> HIDE DEF decision
  <2>5. FillsAreCausal'
    <3>1. CASE fill' = NoFill
      BY <3>1 DEF FillsAreCausal
    <3>2. CASE fill' = [side |-> "SELL", symbol |-> s, stamp |-> b.stamp, decision |-> decision,
                        last |-> acct.positions[s].lastSell]
      BY <2>3, <3>2 DEF FillsAreCausal
    <3> QED BY <2>4, <3>1, <3>2
  <2>6. \A x \in Markets : acct'.pending[x] # NoValue => acct'.pending[x].ts >= gapAt[x]
    BY <2>1 DEF FlowInv
  <2>7. FlowInv'
    BY <1>1, <2>1, <2>5, <2>6 DEF FlowInv, Sober
  <2>8. EntriesAreAllowed /\ ProtectionOnlyTightens
    BY <2>1 DEF EntriesAreAllowed, ProtectionOnlyTightens, Sober
  <2> QED BY <2>7, <2>8
<1>7. CASE Purchased(acct, acct', s, moment, b)
  <2>1. /\ acct.pending[s] # NoValue /\ Usable(acct, s, moment, b) /\ Fillable(acct, s, b)
        /\ ~Dropped(acct, s, moment, b)
        /\ acct.kind = "DAYHOLD" => RegimeAt(acct, moment) \notin Unfit
        /\ acct' = Bought(acct, s, moment, b)
    BY <1>7 DEF Purchased
  <2>2. /\ SoundAccount(acct') /\ acct'.pending[s] = NoValue /\ acct'.positions[s] # NoValue
        /\ \A x \in Markets \ {s} :
             /\ acct'.bought[x] = acct.bought[x] /\ acct'.pending[x] = acct.pending[x]
             /\ acct'.positions[x] = acct.positions[x]
    BY <1>2, <1>3, <2>1, BoughtSound
  <2>3. acct.positions[s] = NoValue
    BY <1>2, <2>1 DEF SoundAccount, RowSound
  <2>4. fill' = [side |-> "BUY", symbol |-> s, stamp |-> b.stamp, decision |-> acct.pending[s].ts,
                 regime |-> RegimeAt(acct, moment)]
    BY <1>1, <2>2, <2>3 DEF FillOf
  <2>5. b.stamp > acct.pending[s].ts /\ acct.pending[s].ts >= gapAt[s]
    BY <1>2, <2>1 DEF Usable, FlowInv
  <2>6. FillsAreCausal'
    BY <1>1, <2>4, <2>5 DEF FillsAreCausal
  <2>7. \A x \in Markets : acct'.pending[x] # NoValue => acct'.pending[x].ts >= gapAt[x]
    BY <2>2 DEF FlowInv
  <2>8. FlowInv'
    BY <1>1, <2>2, <2>6, <2>7 DEF FlowInv
  <2>9. ProtectionOnlyTightens
    <3>1. \A x \in Markets : acct.positions[x] # NoValue => acct.positions[x].stop \in Int
      BY <1>2, Fields DEF Holdings
    <3> QED BY <2>2, <2>3, <3>1 DEF ProtectionOnlyTightens
  <2>10. EntriesAreAllowed
    <3>1. ~acct.paused /\ ~BoughtToday(acct, s, moment)
      BY <2>1 DEF Dropped
    <3> QED BY <2>1, <2>2, <3>1 DEF EntriesAreAllowed, BoughtToday
  <2> QED BY <2>8, <2>9, <2>10
<1> QED BY <1>4, <1>5, <1>6, <1>7

LEMMA FlowStutters == ASSUME FlowInv, UNCHANGED pvars PROVE FlowInv'
BY DEF FlowInv, SoundAccount, RowSound, FillsAreCausal, pvars

LEMMA FlowStep == FlowInv /\ PNext => FlowInv' /\ EntriesAreAllowed /\ ProtectionOnlyTightens
BY AdvanceClockKeeps, SignalsKeep, TradesKeep, BookKeeps, GapsKeep, StopKeeps, RestartedKeeps, MarketKeeps,
   NewProcessKeeps DEF PNext

\* The inductive invariant: rows and orders belong together, the money is all
\* accounted for, and no order is older than the last interruption.
THEOREM FlowInvInvariant == PSpec => []FlowInv
<1>1. FlowInv /\ [PNext]_pvars => FlowInv'
  BY FlowStep, FlowStutters
<1> QED BY FlowInitial, <1>1, PTL DEF PSpec

LEMMA FlowInvSound == FlowInv => FlowAccountIsSound
<1> SUFFICES ASSUME FlowInv PROVE FlowAccountIsSound
  OBVIOUS
<1>1. SoundAccount(acct) /\ acct \in Accounts /\ FillsAreCausal
  BY DEF FlowInv, SoundAccount
<1>2. SaveAccepts(acct) /\ acct.cash + Invested(acct) = SeedCash + acct.realized
  BY <1>1, Fields DEF SoundAccount, SaveAccepts
<1>3. \A s \in Markets : RowSound(acct, s)
  BY <1>1 DEF SoundAccount
<1>4. AccountAgrees
  BY <1>2, <1>3 DEF AccountAgrees, RowSound
<1> QED BY <1>1, <1>4 DEF FlowAccountIsSound

\* save() never raises, cash and open cost are the capital and what was
\* realized, signals and orders agree, and every fill follows from its
\* decision on data that was not interrupted in between
\* (magi1/fast_paper.py:87, :158, :229 and :277).
THEOREM FlowSound == PSpec => []FlowAccountIsSound
BY FlowInvInvariant, FlowInvSound, PTL

\* A market is bought once a day, only while the account may, and the guard of
\* a position is never lowered (magi1/fast_paper.py:106, magi1/fast_dayhold.py:180).
THEOREM FlowAllowed == PSpec => FlowEntriesAreAllowed
<1>1. FlowInv /\ [PNext]_pvars => [EntriesAreAllowed /\ ProtectionOnlyTightens]_pvars
  BY FlowStep
<1> QED BY FlowInvInvariant, <1>1, PTL DEF PSpec, FlowEntriesAreAllowed

=============================================================================
