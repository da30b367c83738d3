--------------------------- MODULE PaperPortfolio ---------------------------
(***************************************************************************)
(* MAGI2's VPD paper portfolio: slots, cash, holding policy and ledger.    *)
(*                                                                         *)
(* One process at a time loads paper_state.json, works on its copy and     *)
(* saves it; every trade is appended to paper_events.jsonl BEFORE the      *)
(* state is saved, and the process may die between the two.  A full        *)
(* replacement is one step here: RebuildJournal shows why it may be.       *)
(*                                                                         *)
(* A price is known by the net return it gives a lot, in percent; a lot by *)
(* its serial number, in the code its market and entry_at.                 *)
(***************************************************************************)
EXTENDS Integers, FiniteSetsExt

CONSTANTS
  Coins,
  TopN,          \* session.top_n
  Returns,       \* net returns in percent a quote may show
  TakeProfit, HardStop, Activation, Giveback,   \* exit.*
  Grace,         \* hold.weakening_grace_hours, in clock units
  Confirmations, \* hold.weakening_confirmations
  InitialCash,
  DayLength,     \* a calendar day in clock units
  Horizon,       \* bound on the clock
  MaxSerial,     \* bound on purchases
  MaxCrashes,    \* bound on deaths of a process
  None

VARIABLES
  now,
  disk,      \* paper_state.json
  ledger,    \* paper_events.jsonl: the BUY lines, and the last SELL line of each lot
  mem,       \* the state the running process holds, or None
  run,       \* what the process is doing, or None
  serial,    \* purchases so far
  crashes

vars == <<now, disk, ledger, mem, run, serial, crashes>>

Serials  == 1..MaxSerial
Reasons  == {"TAKE_PROFIT", "HARD_STOP", "PROFIT_PROTECTION", "VPD_SIGNAL_DECAY",
             "VPD_FULL_REBUILD"}
Sessions == {"REQUEST", "REFILL", "FULL_REBUILD"}

\* One lot: how it was bought, how it is held, how it was closed.
Lot == [serial: Serials, coin: Coins, session: Sessions, day: Nat, cost: Nat,
        peak: Int, weak: Nat, since: Int, seen: SUBSET (0..Horizon),
        status: {"OPEN", "CLOSED"}, reason: Reasons \cup {None}, exit: Nat, pnl: Int]

\* What a process is doing: slot and left of what it allocates, the coins it
\* has still to assess and those it may not buy.
Run == [mode: {"monitor", "morning", "refill", "rebuild"}, asof: 0..Horizon, day: Nat,
        step: {"check", "assess", "save", "buy"}, todo: SUBSET Coins, exited: SUBSET Coins,
        slot: Nat, left: Int]

\* No price is negative.
ASSUME PortfolioAssumption ==
  /\ TopN \in Nat \ {0} /\ DayLength \in Nat \ {0}
  /\ {Grace, Confirmations, InitialCash, Horizon, MaxSerial, MaxCrashes} \subseteq Nat
  /\ Returns \subseteq Int /\ (\A r \in Returns : r >= -100)
  /\ HardStop < 0 /\ TakeProfit > 0
  /\ Activation \in Int /\ Giveback \in Nat
  /\ None \notin Reasons /\ None \notin Run

\* positions and closed_positions are one set of lots here: a coin's slot
\* holds its newest lot.  asof: last_rebalance_vpd_asof, full:
\* last_full_rebuild_vpd_asof, date: last_rebalance_date.
Empty == [lots |-> {}, cash |-> InitialCash, today |-> 0, lifetime |-> 0, asof |-> -1,
          full |-> -1, date |-> -1, slot |-> 0, slotDay |-> -1]

-----------------------------------------------------------------------------
(* Helpers                                                                 *)

Day(t) == t \div DayLength

Open(st) == {l \in st.lots : l.status = "OPEN"}

OpenCoins(st) == {l.coin : l \in Open(st)}

CostOf(lots) == SumFunctionOnSet([l \in lots |-> l.cost], lots)

PnlOf(lots) == SumFunctionOnSet([l \in lots |-> l.pnl], lots)

Larger(a, b) == IF a >= b THEN a ELSE b

\* hold_policy.protection(): the exit a quote forces, or None.
Protection(l, r) ==
  IF r <= HardStop THEN "HARD_STOP"
  ELSE IF r >= TakeProfit THEN "TAKE_PROFIT"
  ELSE IF Larger(l.peak, r) >= Activation /\ Larger(l.peak, r) - r >= Giveback
    THEN "PROFIT_PROTECTION"
  ELSE None

\* hold_policy.assess_hold() of a lot no exit is forced on: signal is what the
\* snapshot says of momentum and activity.
Holds(l, r, signal) ==
  \/ signal = "strong"
  \/ signal = "rising" /\ r > 0 /\ Larger(l.peak, r) >= Activation

\* close_position(): the lot closed at return r, and the portfolio after it.
\* What nothing reads of a closed lot is forgotten here.
Closed(l, r, why, t) ==
  [l EXCEPT !.status = "CLOSED", !.reason = why, !.exit = Day(t), !.peak = 0, !.weak = 0,
            !.since = -1, !.seen = IF why = "VPD_SIGNAL_DECAY" THEN @ ELSE {},
            !.pnl = (l.cost * (100 + r)) \div 100 - l.cost]

AfterClose(st, l, closed) ==
  [st EXCEPT !.lots = (@ \ {l}) \cup {closed},
             !.cash = @ + l.cost + closed.pnl,
             !.today = @ + closed.pnl, !.lifetime = @ + closed.pnl]

\* buy_position(): a new lot of coin c, paid from cash.
NewLot(c, session, day, budget) ==
  [serial |-> serial + 1, coin |-> c, session |-> session, day |-> day, cost |-> budget,
   peak |-> 0, weak |-> 0, since |-> -1, seen |-> {}, status |-> "OPEN", reason |-> None,
   exit |-> 0, pnl |-> 0]

AfterBuy(st, lot) == [st EXCEPT !.lots = @ \cup {lot}, !.cash = @ - lot.cost]

\* Seeded fault: a lot that already has its line is not logged again.
LogSellOnce(lot) ==
  ledger' = IF ledger.sells[lot.serial] # None THEN ledger
            ELSE [ledger EXCEPT !.sells = [@ EXCEPT ![lot.serial] = lot.pnl]]

LogSell(lot) == ledger' = [ledger EXCEPT !.sells = [@ EXCEPT ![lot.serial] = lot.pnl]]

LogBuy(lot) == ledger' = [ledger EXCEPT !.buys = @ \cup {lot.serial}]

\* Seeded fault: only the reasons the refill looks at.
ClosedByRuleOn(st, day) ==
  {l.coin : l \in {k \in st.lots : /\ k.status = "CLOSED" /\ k.exit = day
                                   /\ k.reason \in {"TAKE_PROFIT", "HARD_STOP"}}}

\* Coins whose newest lot was closed on that day (of whatever reason).
ClosedOn(st, day) ==
  {l.coin : l \in {k \in st.lots : /\ k.status = "CLOSED" /\ k.exit = day
                                   /\ \A m \in st.lots : m.coin = k.coin => m.serial <= k.serial}}

\* same_day_cooldown() of the refill: profits taken and stops only.
SameDayCooldown(st, day) ==
  {l.coin : l \in {k \in st.lots : /\ k.status = "CLOSED" /\ k.exit = day
                                   /\ k.reason \in {"TAKE_PROFIT", "HARD_STOP"}}}

-----------------------------------------------------------------------------
Init ==
  /\ now = 0
  /\ disk = Empty
  /\ ledger = [buys |-> {}, sells |-> [s \in Serials |-> None]]
  /\ mem = None /\ run = None
  /\ serial = 0 /\ crashes = 0

\* A process is killed after 300 s, so it sees at most one turn of the clock.
Tick ==
  /\ now < Horizon /\ now' = now + 1
  /\ run # None => now = run.asof
  /\ UNCHANGED <<disk, ledger, mem, run, serial, crashes>>

\* load_state(); a rebalancing request comes with the snapshot just scanned.
Begin(mode) ==
  /\ run = None
  /\ mem' = disk
  /\ run' = [mode |-> mode, asof |-> now, day |-> Day(now),
             step |-> IF mode = "monitor" THEN "assess" ELSE "check",
             todo |-> OpenCoins(disk), exited |-> {}, slot |-> 0, left |-> 0]
  /\ UNCHANGED <<now, disk, ledger, serial, crashes>>

\* The process ends, having saved what it holds or not.
Quit == mem' = None /\ run' = None

SaveAndQuit(st) ==
  /\ disk' = st
  /\ Quit

At(mode, step) == run # None /\ run.mode = mode /\ run.step = step

\* Every sale is logged first, then the whole state is saved.
SellInMemory(l, r, why) ==
  LET closed == Closed(l, r, why, now) IN
  /\ LogSell(closed)
  /\ mem' = AfterClose(mem, l, closed)
  /\ run' = [run EXCEPT !.todo = @ \ {l.coin}, !.exited = @ \cup {l.coin}, !.step = "save"]
  /\ UNCHANGED <<now, disk, serial, crashes>>

SaveAfterSale ==
  /\ run # None /\ run.step = "save"
  /\ disk' = mem
  /\ run' = [run EXCEPT !.step = "assess"]
  /\ UNCHANGED <<now, ledger, mem, serial, crashes>>

\* The lot after an observation that does not close it.
Keep(l, kept) ==
  /\ mem' = [mem EXCEPT !.lots = (@ \ {l}) \cup {kept}]
  /\ run' = [run EXCEPT !.todo = @ \ {l.coin}]
  /\ UNCHANGED <<now, disk, ledger, serial, crashes>>

-----------------------------------------------------------------------------
(* monitor_once()                                                          *)

\* No quote for this market.
MonitorSkips(l) ==
  /\ At("monitor", "assess") /\ l \in Open(mem) /\ l.coin \in run.todo
  /\ Keep(l, l)

MonitorHolds(l, r) ==
  /\ At("monitor", "assess") /\ l \in Open(mem) /\ l.coin \in run.todo
  /\ Protection(l, r) = None
  /\ Keep(l, [l EXCEPT !.peak = Larger(@, r)])

MonitorSells(l, r) ==
  /\ At("monitor", "assess") /\ l \in Open(mem) /\ l.coin \in run.todo
  /\ Protection(l, r) # None
  /\ SellInMemory(l, r, Protection(l, r))

MonitorEnds ==
  /\ At("monitor", "assess") /\ run.todo = {}
  /\ SaveAndQuit(mem)
  /\ UNCHANGED <<now, ledger, serial, crashes>>

-----------------------------------------------------------------------------
(* morning_rebalance()                                                     *)

\* No snapshot, one already evaluated, or a position without data: nothing
\* is touched and the snapshot is not consumed.
MorningWaits ==
  /\ At("morning", "check")
  /\ Quit
  /\ UNCHANGED <<now, disk, ledger, serial, crashes>>

MorningStarts ==
  /\ At("morning", "check") /\ run.asof > mem.asof
  /\ mem' = IF mem.date = run.day THEN mem ELSE [mem EXCEPT !.today = 0]
  /\ run' = [run EXCEPT !.step = "assess"]
  /\ UNCHANGED <<now, disk, ledger, serial, crashes>>

MorningProtects(l, r) ==
  /\ At("morning", "assess") /\ l \in Open(mem) /\ l.coin \in run.todo
  /\ Protection(l, r) # None
  /\ SellInMemory(l, r, Protection(l, r))

\* Seeded fault: a recovered signal does not end the weakening.
MorningHoldsUncounted(l, r, signal) ==
  /\ At("morning", "assess") /\ l \in Open(mem) /\ l.coin \in run.todo
  /\ Protection(l, r) = None /\ Holds(l, r, signal)
  /\ Keep(l, [l EXCEPT !.peak = Larger(@, r), !.seen = {}])

MorningHolds(l, r, signal) ==
  /\ At("morning", "assess") /\ l \in Open(mem) /\ l.coin \in run.todo
  /\ Protection(l, r) = None /\ Holds(l, r, signal)
  /\ Keep(l, [l EXCEPT !.peak = Larger(@, r), !.weak = 0, !.since = -1, !.seen = {}])

\* The signal has weakened: counted, and sold once confirmed and old enough.
MorningWeakens(l, r, signal) ==
  LET since == IF l.since = -1 THEN run.asof ELSE l.since
      weak  == [l EXCEPT !.peak = Larger(@, r), !.weak = @ + 1, !.since = since,
                         !.seen = @ \cup {run.asof}]
  IN
  /\ At("morning", "assess") /\ l \in Open(mem) /\ l.coin \in run.todo
  /\ Protection(l, r) = None /\ ~Holds(l, r, signal)
  /\ IF weak.weak >= Confirmations /\ run.asof - since >= Grace
       THEN LET closed == Closed(weak, r, "VPD_SIGNAL_DECAY", now) IN
            /\ LogSell(closed)
            /\ mem' = AfterClose(mem, l, closed)
            /\ run' = [run EXCEPT !.todo = @ \ {l.coin}, !.exited = @ \cup {l.coin},
                                  !.step = "save"]
            /\ UNCHANGED <<now, disk, serial, crashes>>
       ELSE Keep(l, weak)

\* All assessed: what is left of the cash is divided among the vacant slots.
MorningAllocates ==
  LET vacant == TopN - Cardinality(Open(mem)) IN
  /\ At("morning", "assess") /\ run.todo = {}
  /\ run' = [run EXCEPT !.step = "buy", !.left = vacant,
               !.slot = IF vacant > 0 THEN mem.cash \div vacant
                        ELSE CostOf(Open(mem)) \div Cardinality(Open(mem))]
  /\ UNCHANGED <<now, disk, ledger, mem, serial, crashes>>

\* The next eligible candidate with a price.
MorningBuys(c) ==
  LET lot == NewLot(c, "REQUEST", run.day, run.slot) IN
  /\ At("morning", "buy") /\ serial < MaxSerial
  /\ Cardinality(Open(mem)) < TopN
  /\ c \notin OpenCoins(mem) \cup run.exited \cup ClosedOn(mem, run.day)
  /\ run.slot > 0 /\ mem.cash >= run.slot
  /\ LogBuy(lot)
  /\ mem' = AfterBuy(mem, lot)
  /\ serial' = serial + 1
  /\ UNCHANGED <<now, disk, run, crashes>>

MorningEnds ==
  /\ At("morning", "buy")
  /\ SaveAndQuit([mem EXCEPT !.asof = run.asof, !.date = run.day,
                             !.slot = run.slot, !.slotDay = run.day])
  /\ UNCHANGED <<now, ledger, serial, crashes>>

-----------------------------------------------------------------------------
(* refill()                                                                *)

\* The allocation of the day: of the last rebalancing, or the average cost of
\* what is held, which is saved at once.
RefillStarts ==
  LET known == mem.slotDay = run.day /\ mem.slot > 0
      slot  == IF known THEN mem.slot ELSE CostOf(Open(mem)) \div Cardinality(Open(mem))
      left  == TopN - Cardinality(Open(mem))
  IN
  /\ At("refill", "check")
  /\ left > 0 /\ (known \/ Open(mem) # {})
  /\ slot > 0
  /\ mem' = [mem EXCEPT !.slot = slot, !.slotDay = run.day]
  /\ disk' = IF known THEN disk ELSE mem'
  /\ run' = [run EXCEPT !.step = "buy", !.slot = slot,
               !.left = IF mem.cash \div slot < left THEN mem.cash \div slot ELSE left,
               !.exited = SameDayCooldown(mem, run.day)]
  /\ UNCHANGED <<now, ledger, serial, crashes>>

\* No snapshot, no vacancy, or no allocation.
RefillRests ==
  /\ At("refill", "check")
  /\ Quit
  /\ UNCHANGED <<now, disk, ledger, serial, crashes>>

\* Seeded fault: a coin that is held is bought again.
RefillBuysHeld(c) ==
  LET lot == NewLot(c, "REFILL", run.day, run.slot) IN
  /\ At("refill", "buy") /\ serial < MaxSerial
  /\ run.left > 0
  /\ c \notin run.exited
  /\ mem.cash >= run.slot
  /\ LogBuy(lot)
  /\ mem' = AfterBuy(mem, lot)
  /\ run' = [run EXCEPT !.left = @ - 1]
  /\ serial' = serial + 1
  /\ UNCHANGED <<now, disk, crashes>>

RefillBuys(c) ==
  LET lot == NewLot(c, "REFILL", run.day, run.slot) IN
  /\ At("refill", "buy") /\ serial < MaxSerial
  /\ run.left > 0
  /\ c \notin OpenCoins(mem) \cup run.exited
  /\ mem.cash >= run.slot
  /\ LogBuy(lot)
  /\ mem' = AfterBuy(mem, lot)
  /\ run' = [run EXCEPT !.left = @ - 1]
  /\ serial' = serial + 1
  /\ UNCHANGED <<now, disk, crashes>>

RefillEnds ==
  /\ At("refill", "buy")
  /\ SaveAndQuit(mem)
  /\ UNCHANGED <<now, ledger, serial, crashes>>

-----------------------------------------------------------------------------
(* full_rebalance(): everything held is sold, the whole of the cash buys   *)
(* TopN candidates in equal parts; state and ledger move together.         *)

Rankings == {f \in [1..TopN -> Coins] : \A i, j \in 1..TopN : f[i] = f[j] => i = j}

\* Seeded fault: what is in profit is kept, as a rebalancing would.
SoldButWinners(quote) ==
  {Closed(l, quote[l.coin], "VPD_FULL_REBUILD", now) : l \in {k \in Open(mem) : quote[k.coin] < 0}}

\* Every open lot, closed at its quote.
SoldAt(quote) == {Closed(l, quote[l.coin], "VPD_FULL_REBUILD", now) : l \in Open(mem)}

\* Seeded fault: the remainder of the division is dropped.
RebuiltSpendingAll(sold, lots, slot) ==
  LET gain == PnlOf(sold) IN
  [lots |-> (mem.lots \ Open(mem)) \cup sold \cup lots, cash |-> 0,
   today |-> (IF mem.date = Day(now) THEN mem.today ELSE 0) + gain,
   lifetime |-> mem.lifetime + gain,
   asof |-> run.asof, full |-> run.asof, date |-> Day(now),
   slot |-> slot, slotDay |-> Day(now)]

\* plan_rebuild(): the portfolio with these lots sold and these bought (a slot
\* of no money stands for the balance it refuses).
Rebuilt(sold, lots, slot) ==
  LET gain == PnlOf(sold) IN
  [lots |-> {l \in mem.lots : \A k \in sold : k.serial # l.serial} \cup sold \cup lots,
   cash |-> mem.cash + CostOf(sold) + gain - CostOf(lots),
   today |-> (IF mem.date = Day(now) THEN mem.today ELSE 0) + gain,
   lifetime |-> mem.lifetime + gain,
   asof |-> run.asof, full |-> run.asof, date |-> Day(now),
   slot |-> slot, slotDay |-> Day(now)]

Rebuild(quote, picks) ==
  LET sold == SoldAt(quote)
      slot == (mem.cash + CostOf(sold) + PnlOf(sold)) \div TopN
      lots == {[NewLot(picks[i], "FULL_REBUILD", Day(now), slot) EXCEPT !.serial = serial + i] :
                 i \in 1..TopN}
  IN
  /\ At("rebuild", "check")
  /\ run.asof > mem.full /\ run.asof >= mem.asof
  /\ slot > 0 /\ serial + TopN <= MaxSerial
  /\ disk' = Rebuilt(sold, lots, slot)
  /\ ledger' = [buys  |-> ledger.buys \cup {l.serial : l \in lots},
                sells |-> [s \in Serials |->
                            IF \E l \in sold : l.serial = s
                              THEN (CHOOSE l \in sold : l.serial = s).pnl
                              ELSE ledger.sells[s]]]
  /\ serial' = serial + TopN
  /\ Quit
  /\ UNCHANGED <<now, crashes>>

RebuildWaits ==
  /\ At("rebuild", "check")
  /\ Quit
  /\ UNCHANGED <<now, disk, ledger, serial, crashes>>

Crash ==
  /\ run # None
  /\ crashes < MaxCrashes /\ crashes' = crashes + 1
  /\ Quit
  /\ UNCHANGED <<now, disk, ledger, serial>>

-----------------------------------------------------------------------------
Held == IF mem = None THEN {} ELSE Open(mem)

Monitor ==
  \/ MonitorEnds
  \/ \E l \in Held : MonitorSkips(l) \/ \E r \in Returns : MonitorHolds(l, r) \/ MonitorSells(l, r)

Morning ==
  \/ MorningWaits \/ MorningStarts \/ MorningAllocates \/ MorningEnds
  \/ \E l \in Held, r \in Returns :
       \/ MorningProtects(l, r)
       \/ \E signal \in {"strong", "rising", "weak"} :
            MorningHolds(l, r, signal) \/ MorningWeakens(l, r, signal)
  \/ \E c \in Coins : MorningBuys(c)

Refill == RefillStarts \/ RefillRests \/ (\E c \in Coins : RefillBuys(c)) \/ RefillEnds

FullRebalance ==
  \/ RebuildWaits
  \/ \E quote \in [Coins -> Returns], picks \in Rankings : Rebuild(quote, picks)

Next ==
  \/ Tick \/ Crash \/ SaveAfterSale
  \/ \E mode \in {"monitor", "morning", "refill", "rebuild"} : Begin(mode)
  \/ Monitor \/ Morning \/ Refill \/ FullRebalance

Spec == Init /\ [][Next]_vars

-----------------------------------------------------------------------------
(* Properties                                                              *)

\* The portfolio on disk has its shape: at most one OPEN lot per coin, one lot
\* per serial, and money that is never negative.
StateOK(st) ==
  /\ st.lots \subseteq Lot
  /\ \A k, l \in st.lots : k.serial = l.serial => k = l
  /\ \A k, l \in Open(st) : k.coin = l.coin => k = l
  /\ st.cash \in Nat /\ st.today \in Int /\ st.lifetime \in Int
  /\ st.asof \in -1..now /\ st.full \in -1..st.asof

PTypeOK ==
  /\ now \in 0..Horizon /\ serial \in 0..MaxSerial /\ crashes \in 0..MaxCrashes
  /\ StateOK(disk) /\ (mem # None => StateOK(mem)) /\ run \in Run \cup {None}
  /\ ledger.buys \subseteq Serials /\ ledger.sells \in [Serials -> Int \cup {None}]

States == {disk} \cup (IF mem = None THEN {} ELSE {mem})

\* Whatever mixes of exits, refills, rebalancings, replacements and crashes
\* came before, no more than TopN coins are held.
SlotsBounded == \A st \in States : Cardinality(Open(st)) <= TopN

\* No money is made or lost: cash and cost of the open lots are the seed and
\* the lifetime result, which is the sum over the closed lots.
MoneyConserved ==
  \A st \in States :
    /\ st.cash + CostOf(Open(st)) = InitialCash + st.lifetime
    /\ st.lifetime = PnlOf(st.lots \ Open(st))

\* The ledger and the portfolio reconcile the way vpd_results() joins them: a
\* closed lot has its SELL line with the same result; a SELL line without its
\* closed lot belongs to a lot that is still OPEN, so the next sale of that lot
\* supersedes it; and no lot lacks its BUY line.
ResultsReconcile ==
  /\ \A l \in disk.lots : l.status = "CLOSED" => ledger.sells[l.serial] = l.pnl
  /\ \A s \in Serials : ledger.sells[s] # None => \E l \in disk.lots : l.serial = s
  /\ {l.serial : l \in disk.lots} \subseteq ledger.buys

\* "A coin closed today is not re-entered": not by a rebalancing whatever the
\* reason was, not by a refill after a profit or a stop, also when a
\* replacement bought and sold it in between or the run crossed midnight.
NoSameDayReentry ==
  \A st \in States : \A new, old \in st.lots :
    (new.coin = old.coin /\ old.serial < new.serial /\ old.exit = new.day) =>
      /\ new.session # "REQUEST"
      /\ new.session = "REFILL" => old.reason \notin {"TAKE_PROFIT", "HARD_STOP"}

\* In any mix of exits, refills, rebalancings, replacements and crashes the
\* slots, the money, the ledger and the day's closed lots agree with the state
\* (magi2/paper_engine.py, magi2/refill_engine.py, magi2/full_rebalance.py).
PortfolioIsSound ==
  PTypeOK /\ SlotsBounded /\ MoneyConserved /\ ResultsReconcile /\ NoSameDayReentry

\* "A weakened signal needs two different observations and 24 hours": also when
\* a run died after it had saved a count and the same snapshot was tried again.
DecayIsConfirmed ==
  Grace > 0 => \A l \in disk.lots :
    l.reason = "VPD_SIGNAL_DECAY" => \E s, t \in l.seen : t - s >= Grace /\ s # t

\* What the report shows as today's realized result is that of the lots closed
\* today (portfolio_status, "today's realized P/L").
TodayIsToday ==
  run = None /\ disk.date = Day(now) =>
    disk.today = PnlOf({l \in disk.lots : l.status = "CLOSED" /\ l.exit = Day(now)})

=============================================================================
