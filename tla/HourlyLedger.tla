---------------------------- MODULE HourlyLedger ----------------------------
(***************************************************************************)
(* The ledger of MAGI2's hourly indicator strategy: what each operation of *)
(* HourlyLedger and of the manual rebalancing does to the state L (self.s),*)
(* under the ledger's lock and in one commit.                              *)
(*                                                                         *)
(* Time is counted in five-minute bars.  A stamp is the bar it falls into, *)
(* strictly after the bar's start, so `stamp <= earliest' is stamp <       *)
(* earliest here; boundaries and fills are exact starts of bars.           *)
(***************************************************************************)
EXTENDS Integers, FiniteSets, Functions

CONSTANTS
  Symbols,       \* markets, as numbers in the order of their codes
  Slots,         \* session.top_n
  InitialCash,   \* initial_cash_krw
  MinBudget,     \* 5000 KRW
  HOUR, DAY,     \* in bars
  QuoteAge,      \* QUOTE_MAX_AGE_MS, in bars
  StartStamp,    \* when the account was opened
  None

ASSUME LedgerAssumption ==
  /\ Symbols \subseteq Nat /\ IsFiniteSet(Symbols)
  /\ Slots \in Nat \ {0} /\ InitialCash \in Nat /\ MinBudget \in Nat \ {0}
  /\ HOUR \in Nat \ {0} /\ DAY \in Nat \ {0} /\ DAY % HOUR = 0
  /\ QuoteAge \in Nat /\ StartStamp \in Nat
  /\ None \notin [boundary: Nat, qualifies: BOOLEAN, breaks: BOOLEAN]

Phases == {"NONE", "SELLING", "BUYING", "DONE", "CANCELED"}

\* A market without a pending order.
NoOrder == [side |-> "NONE"]

NoRebalance == [phase |-> "NONE", request |-> 0, boundary |-> 0, targets |-> {},
                sells |-> {}, bought |-> {}, canceled |-> {}]

\* initial_state().  A point is the completed hour of one market: whether it
\* qualifies, and whether its close breaks the stop of a lot held through it.
InitialLedger ==
  [cash |-> InitialCash, realized |-> 0,
   positions |-> [x \in Symbols |-> None], pending |-> [x \in Symbols |-> NoOrder],
   previous |-> [x \in Symbols |-> None], confirmed |-> {},
   used_day |-> [x \in Symbols |-> -1], last_exit |-> [x \in Symbols |-> 0],
   enabled |-> TRUE, generation |-> 1, resumed |-> StartStamp,
   scan |-> [status |-> "NONE", boundary |-> 0, bootstrap |-> FALSE],
   rebalance |-> NoRebalance, requests |-> {}]

-----------------------------------------------------------------------------
(* Reading the ledger                                                      *)

HourOf(stamp) == (stamp \div HOUR) * HOUR

\* The daily candle a boundary belongs to: midnight closes the day before.
DayOf(boundary) == ((boundary - 1) \div DAY) * DAY

Held(L) == {x \in Symbols : L.positions[x] # None}

Orders(L, side) == {x \in Symbols : L.pending[x].side = side}

Budgets(L) == [x \in Symbols |-> IF L.pending[x].side = "BUY" THEN L.pending[x].budget ELSE 0]

Reserved(L) == SumFunctionOnSet(Budgets(L), Symbols)

Vacant(L) == Slots - Cardinality(Held(L)) - Cardinality(Orders(L, "BUY"))

Rebalancing(L) == L.rebalance.phase \in {"SELLING", "BUYING"}

\* protection.update() and exit_reason(), and the daily trend exit: a lot is
\* judged by hours that ended after its entry only.
Breaks(L, x, point) ==
  L.positions[x] # None /\ point.boundary > L.positions[x].entry /\ point.breaks

ScanReady(L, stamp) ==
  L.scan = [status |-> "MONITORING", boundary |-> HourOf(stamp), bootstrap |-> FALSE]

\* candidates(): the points of `confirmed' are those of `previous', whose
\* markets it names.
Candidates(L, stamp) ==
  {x \in L.confirmed :
     /\ ScanReady(L, stamp)
     /\ L.previous[x].boundary = HourOf(stamp)
     /\ DayOf(L.previous[x].boundary) = (stamp \div DAY) * DAY
     /\ L.previous[x].qualifies /\ ~Breaks(L, x, L.previous[x])
     /\ HourOf(stamp) > L.last_exit[x]}

\* The first n of a set of markets, by code.
FirstOf(n, S) == {x \in S : Cardinality({y \in S : y < x}) < n}

-----------------------------------------------------------------------------
(* HourlyLedger                                                            *)

\* schedule_exit() for each of S: a market with a pending order keeps it.
ScheduleExit(L, S, stamp) ==
  [L EXCEPT !.pending = [x \in Symbols |->
     IF x \in S /\ L.pending[x] = NoOrder
       THEN [side |-> "SELL", decision |-> stamp, earliest |-> stamp + 1,
             generation |-> L.generation]
       ELSE L.pending[x]]]

BuyOrder(L, stamp, boundary, budget, request, expires) ==
  [side |-> "BUY", decision |-> stamp, signal |-> boundary, earliest |-> stamp + 1,
   budget |-> budget, generation |-> L.generation, request |-> request,
   expires |-> expires]

Expired(order, stamp) == order.expires # None /\ stamp >= order.expires

\* Seeded fault: cash already promised to other entries is shared out again.
EntryUnreserved(L, x, point, stamp) ==
  LET budget == IF Vacant(L) > 0 THEN L.cash \div Vacant(L) ELSE 0
      accepted == /\ L.positions[x] = None /\ L.pending[x] = NoOrder
                  /\ point.boundary > L.last_exit[x]
                  /\ Vacant(L) > 0 /\ ~Rebalancing(L) /\ budget >= MinBudget
  IN [L EXCEPT !.used_day[x] = DayOf(point.boundary),
               !.pending[x] = IF accepted
                                THEN BuyOrder(L, stamp, point.boundary, budget, 0, None)
                                ELSE @]

\* The ordinary entry of observe(): cash is shared by the vacant slots.
Entry(L, x, point, stamp) ==
  LET budget == IF Vacant(L) > 0 THEN (L.cash - Reserved(L)) \div Vacant(L) ELSE 0
      accepted == /\ L.positions[x] = None /\ L.pending[x] = NoOrder
                  /\ point.boundary > L.last_exit[x]
                  /\ Vacant(L) > 0 /\ ~Rebalancing(L) /\ budget >= MinBudget
  IN [L EXCEPT !.used_day[x] = DayOf(point.boundary),
               !.pending[x] = IF accepted
                                THEN BuyOrder(L, stamp, point.boundary, budget, 0, None)
                                ELSE @]

Confirms(old, point) ==
  /\ old # None /\ old.boundary + HOUR = point.boundary
  /\ DayOf(old.boundary) = DayOf(point.boundary)
  /\ old.qualifies /\ point.qualifies

Observed(L, x, point, stamp, generation) ==
  LET old  == L.previous[x]
      seen == [L EXCEPT !.previous[x] = point,
                        !.confirmed = IF Confirms(old, point) THEN @ \cup {x} ELSE @ \ {x}]
      kept == IF Breaks(L, x, point) THEN ScheduleExit(seen, {x}, stamp) ELSE seen
  IN IF \/ generation # L.generation \/ ~L.enabled \/ point.boundary <= L.resumed
        \/ old # None /\ old.boundary >= point.boundary
       THEN L
     ELSE IF Confirms(old, point) /\ L.used_day[x] # DayOf(point.boundary)
       THEN Entry(kept, x, point, stamp)
     ELSE kept

\* check_hard_stops(): quotes of `quoted' that show a breach for the markets
\* `hit', judged against the lots `expected' to be held.  A quote that is
\* missing, or older than the one stored, is one that shows nothing.
HardStopped(L, hit, quoted, stamp, expected) ==
  ScheduleExit(L, {x \in hit : /\ L.positions[x] # None /\ L.positions[x] = expected[x]
                               /\ L.positions[x].entry <= quoted
                               /\ quoted <= stamp /\ stamp - quoted <= QuoteAge}, stamp)

-----------------------------------------------------------------------------
(* indicator_rebalance                                                     *)

\* Seeded fault: the rebalancing does not hear of it.
CancelSilently(L, x, order) == [L EXCEPT !.pending[x] = NoOrder]

\* cancel_entry()
Cancel(L, x, order) ==
  [L EXCEPT !.pending[x] = NoOrder,
            !.rebalance.canceled =
              IF order.request # 0 /\ order.request = L.rebalance.request THEN @ \cup {x} ELSE @]

\* _finish()
Finish(L, phase) ==
  [L EXCEPT !.rebalance.phase = phase,
            !.rebalance.canceled =
              IF phase = "CANCELED" THEN @ \cup (L.rebalance.targets \ L.rebalance.bought) ELSE @]

\* The purchases of advance(), once everything to sell is sold.  A target
\* whose newest hour is no longer the approved one is dropped.
PlaceTargets(L, stamp) ==
  LET op     == L.rebalance
      vacant == Slots - Cardinality(Held(L))
      good   == {x \in op.targets :
                   /\ L.positions[x] = None /\ L.pending[x] = NoOrder
                   /\ L.previous[x] # None /\ L.previous[x].boundary = op.boundary
                   /\ L.previous[x].qualifies}
  IN [L EXCEPT !.rebalance.phase = "BUYING",
               !.rebalance.canceled = @ \cup (op.targets \ good),
               !.used_day = [x \in Symbols |->
                  IF x \in good THEN DayOf(op.boundary) ELSE L.used_day[x]],
               !.pending = [x \in Symbols |->
                  IF x \in good
                    THEN BuyOrder(L, stamp, op.boundary, L.cash \div vacant, op.request,
                                  op.boundary + HOUR)
                    ELSE L.pending[x]]]

Affordable(L) ==
  LET vacant == Slots - Cardinality(Held(L))
  IN vacant > 0 /\ L.cash \div vacant >= MinBudget

\* advance()
Advanced(L, stamp) ==
  LET op == L.rebalance
  IN IF ~Rebalancing(L) THEN L
     ELSE IF ~L.enabled THEN Finish(L, "CANCELED")
     ELSE IF op.phase = "BUYING"
       THEN IF \E x \in Orders(L, "BUY") : L.pending[x].request = op.request
              THEN L ELSE Finish(L, "DONE")
     ELSE IF op.sells \cap Held(L) # {} THEN L
     ELSE IF \/ HourOf(stamp) # op.boundary
             \/ L.scan.status # "MONITORING" \/ L.scan.boundary # op.boundary
             \/ ~Affordable(L)
       THEN Finish(L, "CANCELED")
     ELSE PlaceTargets(L, stamp)

\* plan(): what a request would do, or that it is refused.
Targets(L, mode, stamp) ==
  IF mode = "rebuild" THEN FirstOf(Slots, Candidates(L, stamp))
  ELSE FirstOf(Slots - Cardinality(Held(L)), Candidates(L, stamp) \ Held(L))

Plannable(L, mode, stamp) ==
  /\ L.enabled /\ ~Rebalancing(L)
  /\ \A x \in Symbols : L.pending[x] = NoOrder
  /\ Targets(L, mode, stamp) # {}
  /\ mode = "refill" => Affordable(L)

\* What the fingerprint of a plan is computed from.
Basis(L, mode, stamp) ==
  [mode |-> mode, boundary |-> HourOf(stamp), pool |-> Candidates(L, stamp),
   positions |-> L.positions, cash |-> L.cash, generation |-> L.generation]

\* request(), up to its first save.  Preview and confirmation have the same
\* fingerprint, so the plan is the one of the confirmation.
Requested(L, mode, stamp) ==
  LET sells == IF mode = "rebuild" THEN Held(L) ELSE {}
  IN ScheduleExit(
       [L EXCEPT !.requests = @ \cup {Basis(L, mode, stamp)},
                 !.rebalance = [phase |-> "SELLING",
                                request |-> Cardinality(L.requests) + 1,
                                boundary |-> HourOf(stamp),
                                targets |-> Targets(L, mode, stamp), sells |-> sells,
                                bought |-> {}, canceled |-> {}]],
       sells, stamp)

-----------------------------------------------------------------------------
(* execute(), clear(), resume()                                            *)

Bought(L, x, order, bar) ==
  [L EXCEPT !.cash = @ - order.budget,
            !.positions[x] = [entry |-> bar, cost |-> order.budget, signal |-> order.signal],
            !.pending[x] = NoOrder,
            !.rebalance.bought =
              IF order.request # 0 /\ order.request = L.rebalance.request THEN @ \cup {x} ELSE @]

Sold(L, x, bar, worth) ==
  LET proceeds == (L.positions[x].cost * worth) \div 100
  IN [L EXCEPT !.cash = @ + proceeds,
               !.realized = @ + proceeds - L.positions[x].cost,
               !.last_exit[x] = bar,
               !.positions[x] = None, !.pending[x] = NoOrder]

\* CAPITAL_INVARIANT
Covered(L, order) == order.budget <= L.cash /\ Cardinality(Held(L)) < Slots

\* Seeded fault: the order is carried out as read, pending or not.
ExecutedBlindly(L, x, order, bar, stamp, worth, below) ==
  IF bar < order.earliest \/ bar > stamp THEN L
  ELSE IF order.side = "SELL"
    THEN IF L.positions[x] # None THEN Sold(L, x, bar, worth) ELSE L
  ELSE IF ~L.enabled \/ order.generation # L.generation THEN L
  ELSE IF Covered(L, order) THEN Bought(L, x, order, bar)
  ELSE L

\* An order is filled at the open of `bar', read at `stamp', if it is still
\* the pending one; `worth' is what the bar's price makes of a hundred of a
\* lot's cost, `below' whether it is under the initial stop.
Executed(L, x, order, bar, stamp, worth, below) ==
  IF L.pending[x] # order \/ bar < order.earliest \/ bar > stamp THEN L
  ELSE IF order.side = "SELL"
    THEN IF L.positions[x] # None THEN Sold(L, x, bar, worth) ELSE L
  ELSE IF ~L.enabled \/ order.generation # L.generation THEN L
  ELSE IF order.request # 0 /\ (Expired(order, stamp) \/ below) THEN Cancel(L, x, order)
  ELSE IF Covered(L, order) THEN Bought(L, x, order, bar)
  ELSE L

Cleared(L, stamp) ==
  LET off == [L EXCEPT !.enabled = FALSE, !.generation = @ + 1,
                       !.pending = [x \in Symbols |->
                          IF x \in Orders(L, "BUY") THEN NoOrder ELSE L.pending[x]]]
  IN Advanced(ScheduleExit(off, Held(L), stamp), stamp)

\* Seeded faults: the hours seen before survive; exits need not be over.
ResumedWithHistory(L, stamp) ==
  IF Orders(L, "SELL") # {} \/ L.enabled THEN L
  ELSE [L EXCEPT !.enabled = TRUE, !.generation = @ + 1, !.resumed = stamp]

ResumedAnytime(L, stamp) ==
  IF L.enabled THEN L
  ELSE [L EXCEPT !.enabled = TRUE, !.generation = @ + 1, !.resumed = stamp,
                 !.previous = [x \in Symbols |-> None], !.confirmed = {}]

Resumed(L, stamp) ==
  IF Orders(L, "SELL") # {} \/ L.enabled THEN L
  ELSE [L EXCEPT !.enabled = TRUE, !.generation = @ + 1, !.resumed = stamp,
                 !.previous = [x \in Symbols |-> None], !.confirmed = {}]

=============================================================================
