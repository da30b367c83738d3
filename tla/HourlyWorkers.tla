---------------------------- MODULE HourlyWorkers ----------------------------
(***************************************************************************)
(* The threads that share the hourly ledger: HourlyMonitor.worker (hourly  *)
(* scan, then pending orders), HourlyMonitor.risk_worker (hard stops, then *)
(* pending exits), and the console's clear, resume and rebalance requests. *)
(*                                                                         *)
(* Each operation of the ledger is one step under its lock; what a thread  *)
(* read before - control, orders, lots - it keeps while it waits for the   *)
(* exchange, and the others go on meanwhile.                               *)
(***************************************************************************)
EXTENDS HourlyLedger

CONSTANTS
  Worths,         \* what a fill may make of a hundred of a lot's cost
  Horizon,        \* bound on the clock
  MaxGeneration,  \* bound on clear and resume
  MaxRequests,    \* bound on rebalance requests
  MaxFaults       \* bound on interruptions and restarts

VARIABLES
  now,
  ledger,   \* self.s, as committed
  worker,   \* locals of worker()
  risk,     \* locals of risk_cycle()
  faults

vars == <<now, ledger, worker, risk, faults>>

ASSUME WorkersAssumption ==
  /\ Worths \subseteq Nat
  /\ {Horizon, MaxGeneration, MaxRequests, MaxFaults} \subseteq Nat

NoOrders == [x \in Symbols |-> NoOrder]

\* A worker at the head of its loop: nothing scanned since the process began.
IdleWorker == [pc |-> "idle", last |-> 0, generation |-> 0, bootstrap |-> FALSE,
               todo |-> {}, ready |-> FALSE, orders |-> NoOrders, hand |-> None]

IdleRisk == [pc |-> "idle", expected |-> [x \in Symbols |-> None], asked |-> 0,
             orders |-> NoOrders, hand |-> None]

Init ==
  /\ now = StartStamp
  /\ ledger = InitialLedger
  /\ worker = IdleWorker /\ risk = IdleRisk
  /\ faults = 0

Tick ==
  /\ now < Horizon
  /\ now' = now + 1
  /\ UNCHANGED <<ledger, worker, risk, faults>>

-----------------------------------------------------------------------------
(* The hourly scan                                                         *)

ScanDue == ledger.enabled /\ HourOf(now) > worker.last

StartScan ==
  /\ worker.pc = "idle" /\ ScanDue
  /\ LET bootstrap == HourOf(now) <= ledger.resumed
     IN /\ worker' = [worker EXCEPT !.pc = "scan", !.last = HourOf(now),
                                    !.generation = ledger.generation,
                                    !.bootstrap = bootstrap, !.todo = Symbols,
                                    !.ready = FALSE]
        /\ ledger' = [ledger EXCEPT !.scan.status = IF bootstrap THEN "WARMING" ELSE "SCANNING",
                                    !.scan.boundary = HourOf(now)]
  /\ UNCHANGED <<now, risk, faults>>

\* One market: its hour is read, or reading it failed.  A bootstrap scan
\* records nothing.  A stop is there to be broken only where a lot is held.
ScanMarket ==
  /\ worker.pc = "scan" /\ worker.todo # {}
  /\ LET x == CHOOSE y \in worker.todo : \A z \in worker.todo : y <= z
     IN \/ \E point \in [boundary: {worker.last}, qualifies: BOOLEAN, breaks: BOOLEAN] :
             /\ point.breaks => ledger.positions[x] # None
             /\ worker' = [worker EXCEPT !.todo = @ \ {x}, !.ready = TRUE]
             /\ ledger' = IF worker.bootstrap THEN ledger
                          ELSE Observed(ledger, x, point, now, worker.generation)
        \/ /\ worker' = [worker EXCEPT !.todo = @ \ {x}]
           /\ UNCHANGED ledger
  /\ UNCHANGED <<now, risk, faults>>

FinishScan ==
  /\ worker.pc = "scan" /\ worker.todo = {}
  /\ worker' = [IdleWorker EXCEPT !.pc = "advance", !.last = worker.last]
  /\ ledger' = [ledger EXCEPT
       !.scan.status = IF worker.ready THEN "MONITORING" ELSE "DATA_UNAVAILABLE",
       !.scan.bootstrap = worker.bootstrap]
  /\ UNCHANGED <<now, risk, faults>>

-----------------------------------------------------------------------------
(* Pending orders                                                          *)

AdvanceBefore ==
  /\ worker.pc = "advance" \/ (worker.pc = "idle" /\ ~ScanDue)
  /\ ledger' = Advanced(ledger, now)
  /\ worker' = [worker EXCEPT !.pc = "read"]
  /\ UNCHANGED <<now, risk, faults>>

ReadPending ==
  /\ worker.pc = "read"
  /\ worker' = [worker EXCEPT !.pc = "orders", !.orders = ledger.pending]
  /\ UNCHANGED <<now, ledger, risk, faults>>

\* Exits before entries.
NextOf(orders) ==
  LET left == {x \in Symbols : orders[x] # NoOrder}
      sell == {x \in left : orders[x].side = "SELL"}
  IN IF sell # {} THEN sell ELSE left

\* An entry nobody traded for over an hour, or past its expiry, is stale; of
\* one that is as old as twelve bars, the bars do not tell.
Stale(order) ==
  order.side = "BUY" /\ (now - order.decision >= HOUR \/ Expired(order, now))

Fresh(order) ==
  order.side = "BUY" => now - order.decision <= HOUR /\ ~Expired(order, now)

TakeOrder ==
  /\ worker.pc = "orders" /\ worker.hand = None
  /\ \E x \in NextOf(worker.orders) :
       LET order == worker.orders[x]
           rest  == [worker EXCEPT !.orders[x] = NoOrder]
       IN \/ /\ now < order.earliest
             /\ worker' = rest
             /\ UNCHANGED ledger
          \/ /\ now >= order.earliest /\ Stale(order)
             /\ worker' = rest
             /\ ledger' = IF ledger.pending[x] = order THEN Cancel(ledger, x, order) ELSE ledger
          \/ /\ now >= order.earliest /\ Fresh(order)
             /\ worker' = [rest EXCEPT !.hand = [market |-> x, order |-> order, stamp |-> now]]
             /\ UNCHANGED ledger
  /\ UNCHANGED <<now, risk, faults>>

\* The first candle at or after `earliest', if there is one yet.
Fill(hand) ==
  \/ \E bar \in hand.order.earliest..hand.stamp, worth \in Worths, below \in BOOLEAN :
       ledger' = Executed(ledger, hand.market, hand.order, bar, hand.stamp, worth, below)
  \/ UNCHANGED ledger

FillOrder ==
  /\ worker.pc = "orders" /\ worker.hand # None
  /\ Fill(worker.hand)
  /\ worker' = [worker EXCEPT !.hand = None]
  /\ UNCHANGED <<now, risk, faults>>

AdvanceAfter ==
  /\ worker.pc = "orders" /\ worker.hand = None /\ worker.orders = NoOrders
  /\ ledger' = Advanced(ledger, now)
  /\ worker' = [worker EXCEPT !.pc = "idle"]
  /\ UNCHANGED <<now, risk, faults>>

\* The exchange refuses requests (418, 429), or something else is raised: the
\* rest of the cycle is skipped, and so is the rest of this hour's scan.
WorkerInterrupted ==
  /\ faults < MaxFaults
  /\ worker' = [IdleWorker EXCEPT !.last = worker.last]
  /\ \E status \in {"RATE_LIMIT_WAIT", "ERROR"} :
       ledger' = [ledger EXCEPT !.scan.status = status]
  /\ faults' = faults + 1
  /\ UNCHANGED <<now, risk>>

-----------------------------------------------------------------------------
(* The risk worker                                                         *)

\* At the head of the loop, or when the last exit was dealt with.
AskQuotes ==
  /\ risk.pc = "idle" \/ (risk.pc = "orders" /\ risk.hand = None /\ risk.orders = NoOrders)
  /\ risk' = [risk EXCEPT !.pc = "quotes", !.expected = ledger.positions, !.asked = now]
  /\ UNCHANGED <<now, ledger, worker, faults>>

CheckStops ==
  /\ risk.pc = "quotes"
  /\ \E quoted \in risk.asked..now, hit \in SUBSET {x \in Symbols : risk.expected[x] # None} :
       ledger' = HardStopped(ledger, hit, quoted, now, risk.expected)
  /\ risk' = [IdleRisk EXCEPT !.pc = "read"]
  /\ UNCHANGED <<now, worker, faults>>

ReadExits ==
  /\ risk.pc = "read"
  /\ risk' = [risk EXCEPT !.pc = "orders",
       !.orders = [x \in Symbols |->
          IF x \in Orders(ledger, "SELL") THEN ledger.pending[x] ELSE NoOrder]]
  /\ UNCHANGED <<now, ledger, worker, faults>>

TakeExit ==
  /\ risk.pc = "orders" /\ risk.hand = None
  /\ \E x \in NextOf(risk.orders) :
       LET order == risk.orders[x]
           rest  == [risk EXCEPT !.orders[x] = NoOrder]
       IN risk' = IF now < order.earliest THEN rest
                  ELSE [rest EXCEPT !.hand = [market |-> x, order |-> order, stamp |-> now]]
  /\ UNCHANGED <<now, ledger, worker, faults>>

FillExit ==
  /\ risk.pc = "orders" /\ risk.hand # None
  /\ Fill(risk.hand)
  /\ risk' = [risk EXCEPT !.hand = None]
  /\ UNCHANGED <<now, worker, faults>>

RiskInterrupted ==
  /\ risk.pc # "idle" /\ faults < MaxFaults
  /\ risk' = IdleRisk
  /\ faults' = faults + 1
  /\ UNCHANGED <<now, ledger, worker>>

-----------------------------------------------------------------------------
(* The console, and restarts                                               *)

Clear ==
  /\ ledger.generation < MaxGeneration
  /\ ledger' = Cleared(ledger, now)
  /\ UNCHANGED <<now, worker, risk, faults>>

Resume ==
  /\ ledger.generation < MaxGeneration
  /\ ledger' = Resumed(ledger, now)
  /\ UNCHANGED <<now, worker, risk, faults>>

Requestable(mode) ==
  /\ Cardinality(ledger.requests) < MaxRequests
  /\ Plannable(ledger, mode, now)
  /\ Basis(ledger, mode, now) \notin ledger.requests

Request(mode) ==
  /\ Requestable(mode)
  /\ ledger' = Advanced(Requested(ledger, mode, now), now)
  /\ UNCHANGED <<now, worker, risk, faults>>

\* The process dies and is started again on what was committed; in the middle
\* of request() its first commit is on disk and its second is not.
Restart ==
  /\ faults < MaxFaults
  /\ \/ UNCHANGED ledger
     \/ \E mode \in {"rebuild", "refill"} :
          Requestable(mode) /\ ledger' = Requested(ledger, mode, now)
  /\ worker' = IdleWorker /\ risk' = IdleRisk
  /\ faults' = faults + 1
  /\ UNCHANGED now

-----------------------------------------------------------------------------
WorkerStep == StartScan \/ ScanMarket \/ FinishScan \/ AdvanceBefore
              \/ ReadPending \/ TakeOrder \/ FillOrder \/ AdvanceAfter

RiskStep == AskQuotes \/ CheckStops \/ ReadExits \/ TakeExit \/ FillExit

Console == Clear \/ Resume \/ \E mode \in {"rebuild", "refill"} : Request(mode)

Next == Tick \/ WorkerStep \/ RiskStep \/ Console
        \/ WorkerInterrupted \/ RiskInterrupted \/ Restart

Spec == Init /\ [][Next]_vars

-----------------------------------------------------------------------------
(* Properties                                                              *)

\* execute() never finds CAPITAL_INVARIANT broken: lots and reserved entries
\* fit into the slots, the reserved budgets into the cash, and an exit has
\* its lot, whatever was observed, sold, cleared or rebalanced meanwhile.
EntriesCovered ==
  /\ Cardinality(Held(ledger)) + Cardinality(Orders(ledger, "BUY")) <= Slots
  /\ Reserved(ledger) <= ledger.cash
  /\ Orders(ledger, "SELL") \subseteq Held(ledger)
  /\ Orders(ledger, "BUY") \cap Held(ledger) = {}

\* A lot or an entry rests on two hours observed after trading was last
\* started: nothing seen before a clear is bought after it ("buys from new
\* signals on, confirmed twice an hour apart", the console says).
EntriesFollowResume ==
  \A x \in Symbols :
    /\ ledger.positions[x] # None => ledger.positions[x].signal - HOUR > ledger.resumed
    /\ x \in Orders(ledger, "BUY") => ledger.pending[x].signal - HOUR > ledger.resumed

\* While a rebalancing buys, and when it ended, every target is accounted for
\* once: bought, canceled, or still reserved.
TargetsAccounted ==
  LET op == ledger.rebalance
      open == {x \in Orders(ledger, "BUY") : ledger.pending[x].request = op.request}
  IN op.phase \in {"BUYING", "DONE", "CANCELED"} =>
       /\ op.targets = op.bought \cup op.canceled \cup IF op.phase = "BUYING" THEN open ELSE {}
       /\ op.bought \cap op.canceled = {}
       /\ open \cap (op.bought \cup op.canceled) = {}

\* What is held or reserved is covered and has its reasons: new signals, and
\* the rebalancing that chose it.
EntriesAreAccounted == EntriesCovered /\ EntriesFollowResume /\ TargetsAccounted

\* Every sale and purchase carries out the order of that lot and generation,
\* on a bar after its decision, by whichever thread, with whatever it read.
FillsFollowDecisions ==
  [][\A x \in Symbols : ledger'.positions[x] # ledger.positions[x] =>
       /\ ledger.pending[x] # NoOrder /\ ledger'.pending[x] = NoOrder
       /\ IF ledger.positions[x] # None
            THEN /\ ledger.pending[x].side = "SELL" /\ ledger'.positions[x] = None
                 /\ ledger.pending[x].decision >= ledger.positions[x].entry
                 /\ ledger'.last_exit[x] > ledger.pending[x].decision
            ELSE /\ ledger.pending[x].side = "BUY" /\ ledger.enabled
                 /\ ledger.pending[x].generation = ledger.generation
                 /\ ledger'.positions[x].entry > ledger.pending[x].decision
                 /\ ledger'.positions[x].entry > ledger.last_exit[x]]_vars

\* Trading starts again only with an empty account.
ResumesFlat ==
  [][ledger'.enabled /\ ~ledger.enabled => Held(ledger) = {} /\ Held(ledger') = {}]_vars

\* No lot changes, and no trading begins, but by what was decided.
DecisionsAreFollowed == FillsFollowDecisions /\ ResumesFlat

=============================================================================
