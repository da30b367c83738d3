----------------------------- MODULE FlowAccount -----------------------------
(***************************************************************************)
(* The paper account of MAGI1's FAST observer: what each call of Paper     *)
(* ("FLOW": magi1/fast_paper.py) and of DayHoldPaper ("DAYHOLD":           *)
(* magi1/fast_dayhold.py) does to the account A.  A call ends in one       *)
(* commit.  Reports, diagnostics and the reviews after an exit, which only *)
(* write events, are left out.                                             *)
(*                                                                         *)
(* One unit of time is QuoteAge, two seconds; the longer periods of the    *)
(* policies are scaled down in proportion to each other.  Money is whole;  *)
(* a coin has so many Parts.  Fees, slippage and the spread are zero.      *)
(***************************************************************************)
EXTENDS Integers, FiniteSetsExt

CONSTANTS
  Markets,
  Slots, SeedCash, MinBudget,   \* policy: slots, initial, min_budget
  FlowDay,                      \* a UTC day, and the longest day-hold
  NoValue

Parts == 12

QuoteAge  == 1     \* quote_age_ms, and the age of the trade beside a book
WindowLength == 2     \* a window
EntryWait == 2     \* entry_wait_ms
NoNewHigh == 3     \* no_new_high_ms
RegimeAge == 2     \* REGIME_AGE
WarnWait  == 2     \* 20 s of an approached stop
FlowAge   == 3     \* 12 s

Regimes == {"UP", "DOWN", "SHOCK"}

\* RISK, in twelfths of the cost: NEUTRAL stands with UP, whose loss it shares.
Risk == [UP |-> [tp |-> 4, sl |-> 4], DOWN |-> [tp |-> 2, sl |-> 2],
         SHOCK |-> [tp |-> 2, sl |-> 2]]

\* The rows of an account: the order that waits, the signal of a day, the
\* position, the last trade seen.
Orders == [ts : Nat, day : Int, ref : Nat, stop : Int, budget : Nat]
SignalRows == [ts : Nat, day : Int, status : {"PENDING", "BOUGHT", "SKIPPED"}]
Holdings ==
  [qty : Nat \ {0}, oqty : Nat \ {0}, cost : Nat, orig : Nat, entry : Nat, stop : Int,
   peak : Int, peakAt : Int, exit : Nat \cup {NoValue}, uncertain : BOOLEAN, lastSell : Int,
   pnl : Int, neg : Int, weak : BOOLEAN, flowAt : Int, warn : Nat \cup {NoValue}, seen : Int,
   sl : Int \cup {NoValue}, tp : Int]
SeenTrades == [ts : Nat, price : Nat, stamp : Int]

ASSUME FlowAssumption ==
  /\ IsFiniteSet(Markets) /\ Slots \in Nat /\ SeedCash \in Nat /\ MinBudget \in Nat
  /\ FlowDay \in Nat \ {0}
  /\ NoValue \notin Int /\ NoValue \notin Orders /\ NoValue \notin SignalRows
  /\ NoValue \notin Holdings /\ NoValue \notin SeenTrades

\* A strategy starts with an empty account; regime is kept by DAYHOLD only.
NewAccount(kind) ==
  [kind |-> kind, cash |-> SeedCash, realized |-> 0, paused |-> FALSE, resumed |-> 0,
   positions |-> [s \in Markets |-> NoValue], pending |-> [s \in Markets |-> NoValue],
   signals |-> [s \in Markets |-> NoValue], bought |-> [s \in Markets |-> NoValue],
   trades |-> [s \in Markets |-> NoValue], regime |-> [state |-> "UNAVAILABLE", ts |-> 0]]

Positions(A) == {s \in Markets : A.positions[s] # NoValue}
Pending(A)   == {s \in Markets : A.pending[s] # NoValue}

\* Seeded fault: the cash of waiting orders is still there to be promised.
NothingReserved(A) == 0

Reserved(A) ==
  SumFunctionOnSet([s \in Markets |-> IF A.pending[s] = NoValue THEN 0 ELSE A.pending[s].budget], Markets)
Invested(A) ==
  SumFunctionOnSet([s \in Markets |-> IF A.positions[s] = NoValue THEN 0 ELSE A.positions[s].cost], Markets)

\* What save() insists on, and raises a RuntimeError otherwise.
SaveAccepts(A) ==
  /\ A.cash >= 0 /\ Reserved(A) <= A.cash
  /\ Cardinality(Positions(A)) + Cardinality(Pending(A)) <= Slots

Timely(ts, stamp) == ts - stamp \in 0 .. QuoteAge

\* Seeded fault: only a purchase of the same instant counts.
BoughtNow(A, s, ts) == A.bought[s] = ts

BoughtToday(A, s, ts) == A.bought[s] # NoValue /\ A.bought[s] \div FlowDay = ts \div FlowDay

CanSignal(A, s, ts) ==
  /\ ~A.paused /\ s \notin Positions(A) \cup Pending(A)
  /\ ~BoughtToday(A, s, ts)

RegimeAt(A, ts) == IF ts - A.regime.ts \in 0 .. RegimeAge THEN A.regime.state ELSE "UNAVAILABLE"

Unfit == {"UNAVAILABLE", "SHOCK"}

-----------------------------------------------------------------------------
(* Orders and decisions                                                    *)

SignalRow(A, s, ts, status) ==
  [A EXCEPT !.signals[s] = [day |-> ts \div FlowDay, ts |-> ts, status |-> status]]

FlowSignal(A, s, ts, price, low) ==
  LET vacant == Slots - Cardinality(Positions(A)) - Cardinality(Pending(A))
      budget == IF vacant > 0 THEN (A.cash - Reserved(A)) \div vacant ELSE 0
      refused == vacant <= 0 \/ budget < MinBudget \/ low = NoValue \/ low >= price
      old == A.signals[s]
      known == old # NoValue /\ old.day = ts \div FlowDay /\ old.ts >= ts
      order == [ts |-> ts, day |-> ts \div FlowDay, ref |-> price, stop |-> low, budget |-> budget]
  IN IF ~CanSignal(A, s, ts) \/ known THEN A
     ELSE IF refused THEN SignalRow(A, s, ts, "SKIPPED")
     ELSE [SignalRow(A, s, ts, "PENDING") EXCEPT !.pending[s] = order]

\* The stop of a day-hold comes from the market's regime, not from the low.
DayHoldSignal(A, s, ts, price) ==
  LET regime == RegimeAt(A, ts)
  IN IF regime \in Unfit
       THEN IF CanSignal(A, s, ts) THEN SignalRow(A, s, ts, "SKIPPED") ELSE A
       ELSE FlowSignal(A, s, ts, price, (price * (12 - Risk[regime].sl)) \div 12)

Signal(A, s, ts, price, low) ==
  IF A.kind = "FLOW" THEN FlowSignal(A, s, ts, price, low) ELSE DayHoldSignal(A, s, ts, price)

\* The row of the order is that of the day it was decided on.
Cancel(A, s) ==
  IF A.pending[s] = NoValue THEN A
  ELSE [A EXCEPT !.pending[s] = NoValue, !.signals[s].status = "SKIPPED"]

RequestExit(A, s, ts) ==
  IF A.positions[s] # NoValue /\ A.positions[s].exit = NoValue
    THEN [A EXCEPT !.positions[s].exit = ts] ELSE A

\* Seeded fault: the rows of the orders stay as they were.
CancelAllQuietly(A, S) ==
  [A EXCEPT !.pending = [s \in Markets |-> IF s \in S THEN NoValue ELSE @[s]]]

CancelAll(A, S) ==
  [A EXCEPT !.pending = [s \in Markets |-> IF s \in S THEN NoValue ELSE @[s]],
            !.signals = [s \in Markets |-> IF s \in S /\ A.pending[s] # NoValue
                                             THEN [@[s] EXCEPT !.status = "SKIPPED"] ELSE @[s]]]

\* A FLOW position is sold on the first book after a gap; a DAYHOLD position
\* is only marked, and forgets what it knew of the flow.
AfterGap(A, p, ts) ==
  IF p = NoValue THEN NoValue
  ELSE IF A.kind = "FLOW"
         THEN [p EXCEPT !.uncertain = TRUE, !.exit = IF @ = NoValue THEN ts ELSE @]
         ELSE [p EXCEPT !.uncertain = TRUE, !.neg = 0, !.weak = FALSE, !.flowAt = 0]

Gap(A, S, ts) ==
  [CancelAll(A, S) EXCEPT
     !.trades = [s \in Markets |-> IF s \in S THEN NoValue ELSE @[s]],
     !.positions = [s \in Markets |-> IF s \in S THEN AfterGap(A, @[s], ts) ELSE @[s]]]

Pause(A) == [CancelAll(A, Markets) EXCEPT !.paused = TRUE]

CanResume(A) == Positions(A) = {} /\ Pending(A) = {} /\ A.cash > 0

Resume(A, request) == [A EXCEPT !.paused = FALSE, !.resumed = request]

-----------------------------------------------------------------------------
(* Risk of a day-hold: a change of regime may tighten it, never loosen it  *)

\* Seeded fault: a better market gives the position its wider stop back.
ConfiguredAfresh(p, regime, preserve) ==
  [p EXCEPT !.sl = Risk[regime].sl, !.tp = Risk[regime].tp,
            !.stop = (p.orig * Parts * (12 - Risk[regime].sl)) \div (p.oqty * 12)]

Configured(p, regime, preserve) ==
  LET sl == IF p.sl = NoValue \/ Risk[regime].sl < p.sl THEN Risk[regime].sl ELSE p.sl
      stop == (p.orig * Parts * (12 - sl)) \div (p.oqty * 12)
  IN [p EXCEPT !.sl = sl, !.tp = Risk[regime].tp,
               !.stop = IF preserve /\ @ > stop THEN @ ELSE stop]

SetRegime(A, state, ts) ==
  IF ts < A.regime.ts THEN A
  ELSE [A EXCEPT !.regime = [state |-> state, ts |-> ts],
                 !.positions = [s \in Markets |->
                    IF @[s] = NoValue THEN NoValue ELSE Configured(@[s], state, TRUE)]]

-----------------------------------------------------------------------------
(* Market data.  A book: stamp, price, whether its asks cover a budget,    *)
(* and how many parts of a coin its bids take.                             *)

OnTrade(A, s, ts, price, stamp) ==
  LET old == A.trades[s]
      seen == [A EXCEPT !.trades[s] = [ts |-> ts, price |-> price, stamp |-> stamp]]
      p == A.positions[s]
      peaked == IF price > p.peak
                  THEN [seen EXCEPT !.positions[s].peak = price, !.positions[s].peakAt = ts]
                  ELSE seen
  IN IF ~Timely(ts, stamp) \/ (old # NoValue /\ stamp < old.stamp) THEN A
     ELSE IF p = NoValue THEN seen
     ELSE IF stamp < p.entry THEN seen
     ELSE IF price <= p.stop THEN RequestExit(peaked, s, ts) ELSE peaked

\* Seeded fault: a book the exchange stamped before the decision is sold into.
AnyUnused(p, b) == b.stamp > p.lastSell

\* Several sales may be needed; no book is sold into twice.
Sellable(p, b) == b.stamp > p.exit /\ b.stamp > p.lastSell

ExecuteExit(A, s, ts, b) ==
  LET p == A.positions[s]
      sold == IF b.bids < p.qty THEN b.bids ELSE p.qty
      cost == (p.cost * sold) \div p.qty
      proceeds == (sold * b.price) \div Parts
      rest == [p EXCEPT !.qty = @ - sold, !.cost = @ - cost, !.pnl = @ + proceeds - cost,
                        !.lastSell = b.stamp]
  IN IF p.exit = NoValue THEN A
     ELSE IF ~Sellable(p, b) \/ sold = 0 THEN A
     ELSE [A EXCEPT !.cash = @ + proceeds, !.realized = @ + proceeds - cost,
                    !.positions[s] = IF sold = p.qty THEN NoValue ELSE rest]

\* The exit rules of a book, in the order of the code: the first one that
\* applies is the decision.
FlowRules(A, s, ts, b) ==
  LET p == A.positions[s]
      tired == A.kind = "FLOW" /\ ts - p.peakAt >= NoNewHigh /\ p.qty * b.price <= p.cost * Parts
  IN IF b.price <= p.stop \/ tired THEN RequestExit(A, s, ts) ELSE A

\* What a day-hold would return if this book took all of it.
Return(p, b) == p.pnl + (p.qty * b.price) \div Parts - p.cost

DayHoldRules(A, s, ts, b) ==
  LET p == A.positions[s]
      r == 12 * Return(p, b)
      near == 4 * r <= -3 * p.sl * p.orig            \* .75 of the stop
      recovered == 5 * r > -3 * p.sl * p.orig        \* .60
      warn == IF near THEN (IF p.warn = NoValue THEN ts ELSE p.warn)
              ELSE IF recovered THEN NoValue ELSE p.warn
      lost == r <= -p.sl * p.orig
      won == r >= p.tp * p.orig
      fading == near /\ ts - warn >= WarnWait /\ p.weak /\ ts - p.flowAt \in 0 .. FlowAge
      covered == b.bids >= p.qty
      seen == [A EXCEPT !.positions[s].seen = b.stamp, !.positions[s].uncertain = FALSE,
                        !.positions[s].warn = IF covered /\ ~lost /\ ~won THEN warn ELSE @]
  IN IF (covered /\ (lost \/ won \/ fading)) \/ ts - p.entry >= FlowDay
       THEN RequestExit(seen, s, ts) ELSE seen

\* The quote a purchase may rest on: received and stamped after the decision,
\* beside a trade that is as recent.
Usable(A, s, ts, b) ==
  LET order == A.pending[s]
      trade == A.trades[s]
  IN ts > order.ts /\ b.stamp > order.ts /\ trade # NoValue /\ ts - trade.ts \in 0 .. QuoteAge

Fillable(A, s, b) == b.asks /\ b.price <= A.pending[s].ref      \* depth and entry_cap

Dropped(A, s, ts, b) ==
  \/ A.paused
  \/ ts > A.pending[s].ts + EntryWait
  \/ /\ Usable(A, s, ts, b)
     /\ \/ b.price <= A.pending[s].stop \/ BoughtToday(A, s, ts)
        \/ Fillable(A, s, b) /\ A.kind = "DAYHOLD" /\ A.regime.state \in Unfit

Bought(A, s, ts, b) ==
  LET order == A.pending[s]
      qty == (order.budget * Parts) \div b.price
      p == [qty |-> qty, oqty |-> qty, cost |-> order.budget, orig |-> order.budget,
            entry |-> ts, stop |-> order.stop, peak |-> A.trades[s].price, peakAt |-> ts,
            exit |-> NoValue, uncertain |-> FALSE, lastSell |-> -1, pnl |-> 0, neg |-> 0,
            weak |-> FALSE, flowAt |-> 0, warn |-> NoValue, seen |-> -1, sl |-> NoValue, tp |-> 0]
  IN [A EXCEPT !.cash = @ - order.budget, !.pending[s] = NoValue, !.bought[s] = ts,
               !.signals[s].status = "BOUGHT",
               !.positions[s] = IF A.kind = "FLOW" THEN p
                                ELSE Configured(p, RegimeAt(A, ts), FALSE)]

TryEntry(A, s, ts, b) ==
  IF A.pending[s] = NoValue THEN A
  ELSE IF Dropped(A, s, ts, b) THEN Cancel(A, s)
  ELSE IF Usable(A, s, ts, b) /\ Fillable(A, s, b) THEN Bought(A, s, ts, b) ELSE A

FlowBook(A, s, ts, b) ==
  TryEntry(IF A.positions[s] = NoValue THEN A ELSE ExecuteExit(FlowRules(A, s, ts, b), s, ts, b),
           s, ts, b)

DayHoldBook(A, s, ts, b) ==
  LET fit == IF RegimeAt(A, ts) \in Unfit THEN Cancel(A, s) ELSE A
      p == A.positions[s]
  IN IF p = NoValue THEN FlowBook(fit, s, ts, b)
     ELSE IF b.stamp <= p.seen THEN A
     ELSE FlowBook(DayHoldRules(A, s, ts, b), s, ts, b)

OnBook(A, s, ts, b) ==
  IF ~Timely(ts, b.stamp) THEN A
  ELSE IF A.kind = "FLOW" THEN FlowBook(A, s, ts, b) ELSE DayHoldBook(A, s, ts, b)

\* A closed window: whether its flow is negative and its last price below the
\* average since the entry, and the lowest of the last three minutes, when a
\* third one is complete.
AfterWindow(A, s, end, w) ==
  LET p == A.positions[s]
      current == w.seen /\ end - WindowLength >= p.entry
      neg == IF current /\ w.negative THEN (IF p.neg = 2 THEN 2 ELSE p.neg + 1) ELSE 0
      trade == A.trades[s]
      weak == neg = 2 /\ w.below
      leaving == current /\ weak /\ trade # NoValue /\ end - trade.ts \in 0 .. QuoteAge
  IN IF A.kind = "DAYHOLD" THEN [p EXCEPT !.neg = neg, !.flowAt = end, !.weak = weak]
     ELSE [p EXCEPT !.neg = neg,
                    !.stop = IF end - WindowLength >= p.entry /\ w.low > @ THEN w.low ELSE @,
                    !.exit = IF leaving /\ @ = NoValue THEN end ELSE @]

\* Each position is shown the window w of its market that ends.
Windowed(A, end, w) ==
  [A EXCEPT !.positions =
     [s \in Markets |-> IF @[s] = NoValue THEN NoValue ELSE AfterWindow(A, s, end, w[s])]]

TickAccount(A, ts) ==
  LET expired == {s \in Pending(A) : ts > A.pending[s].ts + EntryWait}
      old == {s \in Positions(A) : A.kind = "DAYHOLD" /\ ts - A.positions[s].entry >= FlowDay
                                   /\ A.positions[s].exit = NoValue}
  IN [CancelAll(A, expired) EXCEPT
        !.positions = [s \in Markets |-> IF s \in old THEN [@[s] EXCEPT !.exit = ts] ELSE @[s]]]

\* What a new process finds: the market's regime is unknown, what was in
\* memory only is gone, and the interval in between is a gap.  A warning may
\* or may not have been saved.
Reopened(A, ts, kept) ==
  LET fresh == [A EXCEPT !.regime = [state |-> "UNAVAILABLE", ts |-> 0],
                         !.trades = [s \in Markets |-> NoValue],
                         !.positions = [s \in Markets |->
                            IF @[s] = NoValue \/ s \in kept THEN @[s]
                            ELSE [@[s] EXCEPT !.warn = NoValue, !.seen = -1]]]
  IN Gap(fresh, Positions(A) \cup Pending(A), ts)

=============================================================================
