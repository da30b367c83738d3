---------------------------- MODULE ShadowEngine ----------------------------
(***************************************************************************)
(* MAGI3's SHADOW execution worker: the runner's cycle, the ShadowEngine   *)
(* and the rows of its SQLite store.                                       *)
(*                                                                         *)
(* Durable state (the store): signals, positions, fills, cash.  In-memory  *)
(* state (lost when the process dies): config, at, due, inbox, work,       *)
(* began.  One process holds runtime.lock, so there is one thread of       *)
(* control; what interleaves with it are the clock, the feed, the books,   *)
(* failures of a cycle and the death of the process between any two        *)
(* transactions.                                                           *)
(***************************************************************************)
EXTENDS Integers, Sequences, FiniteSetsExt

CONSTANTS
  Ids,            \* intent identifiers
  Intents,        \* the intents a feed may carry, several per identifier
  NoIntent,       \* "no row in the signals table"
  NoWork,         \* "no ingest in progress"
  Asks, Bids,     \* what sweeping one side of a fresh book may meet
  Configs,        \* the environments the process may be started in
  MaxLife,        \* 120000 ms between creation and expiry
  Skew,           \* 5000 ms of tolerated clock difference
  MaxHold,        \* 86400 s
  InitialCash, MaxOrder, MaxExposure, MaxDailyLoss, FeeBps,
  DayLength, DayOffset,  \* the KST day, in clock units
  Horizon,        \* bound on the clock
  MaxFaults       \* bound on crashes and failed cycles

VARIABLES
  now,        \* stamp()
  signals,    \* table signals: Ids -> row
  positions,  \* table positions, in insertion order
  fills,      \* tables orders and fills, joined one to one
  cash,       \* meta['cash']
  config,     \* the frozen Config of this process
  at,         \* where the runner's cycle is
  due,        \* positions exit_due still has to visit
  inbox,      \* intents recover_pending or the feed loop still has to visit
  work,       \* the ingest in progress
  began,      \* the `now` exit_due took when it started
  faults      \* crashes and failed cycles so far

store  == <<signals, positions, fills, cash>>
memory == <<config, at, due, inbox, work, began>>
vars   == <<now, store, memory, faults>>

Row == [status: {"NONE", "PENDING", "FILLED", "REJECTED"},
        reason: {"NONE", "EXPIRED", "DRY_RUN", "KILL_SWITCH", "MAX_ORDER",
                 "EXPOSURE_LIMIT", "DAILY_REALIZED_LOSS",
                 "INSUFFICIENT_VIRTUAL_CASH", "NO_LIQUIDITY"},
        intent: Intents \cup {NoIntent}]

Absent == [status |-> "NONE", reason |-> "NONE", intent |-> NoIntent]

Position == [id: Ids, qty: Nat, cost: Nat, opened: Nat, deadline: Nat]

Fill == [position: Nat, side: {"BUY", "SELL"}, net: Int, realized: Int, ts: Nat]

Work == [id: Ids, since: Nat, step: {"recorded", "book"}]

ASSUME IntentsAssumption ==
  /\ Intents \subseteq [id: Ids, created: Nat, expires: Nat,
                        notional: Nat, hold: Nat]
  /\ NoIntent \notin Intents

ASSUME BooksAssumption ==
  /\ Asks \subseteq [price: Nat \ {0}, size: Nat]
  /\ Bids \subseteq [price: Nat \ {0}, size: Nat]

ASSUME ConfigsAssumption ==
  Configs \subseteq [mode: {"SHADOW", "DRY_RUN"}, kill: BOOLEAN]

ASSUME NumbersAssumption ==
  /\ MaxLife \in Nat /\ Skew \in Nat /\ MaxHold \in Nat
  /\ InitialCash \in Nat /\ MaxOrder \in Nat /\ MaxExposure \in Nat
  /\ MaxDailyLoss \in Nat /\ FeeBps \in 0..100
  /\ DayLength \in Nat \ {0} /\ DayOffset \in Nat
  /\ Horizon \in Nat /\ MaxFaults \in Nat

ASSUME NoWorkAssumption == NoWork \notin Work

-----------------------------------------------------------------------------
(* Helpers                                                                 *)

Least(a, b) == IF a <= b THEN a ELSE b

Fee(notional) == (notional * FeeBps) \div 10000

\* Seeded fault: the life of an intent is not bounded.
ValidForAnyLife(s, t) ==
  /\ s.created <= t + Skew
  /\ t < s.expires
  /\ s.notional > 0
  /\ s.hold \in 1..MaxHold

\* validate(): the clauses about time and size; the format clauses do not
\* tell any two intents apart here.
ValidAt(s, t) ==
  /\ s.created <= t + Skew
  /\ t < s.expires
  /\ s.created < s.expires
  /\ s.expires - s.created <= MaxLife
  /\ s.notional > 0
  /\ s.hold \in 1..MaxHold

\* Start of the KST day that holds t.
DayStart(t) == ((t + DayOffset) \div DayLength) * DayLength - DayOffset

Costs    == [p \in DOMAIN positions |-> positions[p].cost]
Realized == [k \in DOMAIN fills |-> fills[k].realized]

Exposure == SumFunctionOnSet(Costs, {p \in DOMAIN positions : positions[p].qty > 0})

RealizedSince(t) == SumFunctionOnSet(Realized, {k \in DOMAIN fills : fills[k].ts >= t})

\* Seeded faults: the new cost is left out of the exposure; a loss of exactly
\* the limit passes.
RefusalOfOldExposure(s, qty, cost) ==
  IF config.kill THEN "KILL_SWITCH"
  ELSE IF s.notional > MaxOrder THEN "MAX_ORDER"
  ELSE IF Exposure > MaxExposure THEN "EXPOSURE_LIMIT"
  ELSE IF RealizedSince(DayStart(now)) <= -MaxDailyLoss THEN "DAILY_REALIZED_LOSS"
  ELSE IF cost > cash THEN "INSUFFICIENT_VIRTUAL_CASH"
  ELSE IF qty = 0 THEN "NO_LIQUIDITY" ELSE "NONE"

RefusalBeyondLoss(s, qty, cost) ==
  IF config.kill THEN "KILL_SWITCH"
  ELSE IF s.notional > MaxOrder THEN "MAX_ORDER"
  ELSE IF Exposure + cost > MaxExposure THEN "EXPOSURE_LIMIT"
  ELSE IF RealizedSince(DayStart(now)) < -MaxDailyLoss THEN "DAILY_REALIZED_LOSS"
  ELSE IF cost > cash THEN "INSUFFICIENT_VIRTUAL_CASH"
  ELSE IF qty = 0 THEN "NO_LIQUIDITY" ELSE "NONE"

\* The chain of refusals inside the second transaction of ingest(), in order.
Refusal(s, qty, cost) ==
  IF config.kill THEN "KILL_SWITCH"
  ELSE IF s.notional > MaxOrder THEN "MAX_ORDER"
  ELSE IF Exposure + cost > MaxExposure THEN "EXPOSURE_LIMIT"
  ELSE IF RealizedSince(DayStart(now)) <= -MaxDailyLoss THEN "DAILY_REALIZED_LOSS"
  ELSE IF cost > cash THEN "INSUFFICIENT_VIRTUAL_CASH"
  ELSE IF qty = 0 THEN "NO_LIQUIDITY"
  ELSE "NONE"

\* Seeded fault: a purchase leaves its row PENDING.
SettleRefusalsOnly(id, status, reason) ==
  IF status = "FILLED" THEN signals
  ELSE [signals EXCEPT ![id] = [status |-> status, reason |-> reason,
                                intent |-> signals[id].intent]]

\* UPDATE signals SET status, reason: the payload stays.
Settle(id, status, reason) ==
  [signals EXCEPT ![id] = [status |-> status, reason |-> reason,
                           intent |-> signals[id].intent]]

\* reject(): an UPDATE ... WHERE status='PENDING'.
Rejected(id, why) ==
  IF signals[id].status = "PENDING" THEN Settle(id, "REJECTED", why) ELSE signals

-----------------------------------------------------------------------------
Init ==
  /\ now = 0
  /\ signals = [i \in Ids |-> Absent]
  /\ positions = <<>>
  /\ fills = <<>>
  /\ cash = InitialCash
  /\ config \in Configs
  /\ at = "sleep"
  /\ due = {} /\ inbox = {} /\ work = NoWork /\ began = 0
  /\ faults = 0

Tick ==
  /\ now < Horizon
  /\ now' = now + 1
  /\ UNCHANGED <<store, memory, faults>>

-----------------------------------------------------------------------------
(* exit_due(): runs first in every cycle, whatever the configuration.      *)

\* Seeded fault: the kill switch also stops the exits.
BeginCycleUnlessKilled ==
  /\ at = "sleep"
  /\ at' = "exits"
  /\ began' = now
  /\ due' = {p \in DOMAIN positions :
              ~config.kill /\ positions[p].qty > 0 /\ positions[p].deadline <= now}
  /\ UNCHANGED <<now, store, config, inbox, work, faults>>

BeginCycle ==
  /\ at = "sleep"
  /\ at' = "exits"
  /\ began' = now
  /\ due' = {p \in DOMAIN positions :
              positions[p].qty > 0 /\ positions[p].deadline <= now}
  /\ UNCHANGED <<now, store, config, inbox, work, faults>>

\* No fresh book: EXIT_PENDING_BOOK, the position waits for the next cycle.
ExitWithoutBook(p) ==
  /\ at = "exits" /\ p \in due
  /\ due' = due \ {p}
  /\ UNCHANGED <<now, store, config, at, inbox, work, began, faults>>

\* Seeded fault: a partial exit keeps the whole cost basis.
RemainingAtFullCost(held, sold, allocated) ==
  [id |-> held.id, qty |-> held.qty - sold,
   cost |-> IF sold < held.qty THEN held.cost ELSE 0,
   opened |-> held.opened, deadline |-> held.deadline]

\* UPDATE positions SET qty, cost.
Remaining(held, sold, allocated) ==
  [id |-> held.id, qty |-> held.qty - sold,
   cost |-> IF sold < held.qty THEN held.cost - allocated ELSE 0,
   opened |-> held.opened, deadline |-> held.deadline]

\* A book was read: sell what the bids take, allocate cost in proportion.
ExitSell(p, bid) ==
  LET held      == positions[p]
      sold      == Least(bid.size, held.qty)
      proceeds  == sold * bid.price - Fee(sold * bid.price)
      allocated == (held.cost * sold) \div held.qty
  IN
  /\ at = "exits" /\ p \in due
  /\ held.qty > 0 /\ sold > 0
  /\ positions' = [positions EXCEPT ![p] = Remaining(held, sold, allocated)]
  /\ fills' = Append(fills, [position |-> p, side |-> "SELL", net |-> proceeds,
                            realized |-> proceeds - allocated, ts |-> began])
  /\ cash' = cash + proceeds
  /\ due' = due \ {p}
  /\ UNCHANGED <<now, signals, config, at, inbox, work, began, faults>>

-----------------------------------------------------------------------------
(* recover_pending(): what an earlier cycle or process left PENDING.       *)

\* Seeded fault: only what can still be bought is recovered.
BeginRecoverUnexpired ==
  /\ at = "exits" /\ due = {}
  /\ at' = "recover"
  /\ inbox' = {s \in {signals[i].intent : i \in {j \in Ids : signals[j].status = "PENDING"}} :
                 now < s.expires}
  /\ began' = 0
  /\ UNCHANGED <<now, store, config, due, work, faults>>

BeginRecover ==
  /\ at = "exits" /\ due = {}
  /\ at' = "recover"
  /\ inbox' = {signals[i].intent : i \in {j \in Ids : signals[j].status = "PENDING"}}
  /\ began' = 0
  /\ UNCHANGED <<now, store, config, due, work, faults>>

RecoverExpired(s) ==
  /\ at = "recover" /\ work = NoWork /\ s \in inbox
  /\ now >= s.expires
  /\ signals' = Rejected(s.id, "EXPIRED")
  /\ inbox' = inbox \ {s}
  /\ UNCHANGED <<now, positions, fills, cash, config, at, due, work, began, faults>>

-----------------------------------------------------------------------------
(* ingest(), in the steps a crash can separate: the first transaction, the *)
(* re-validation of the stored payload, the wait for a book, the second    *)
(* transaction.                                                            *)

\* INVALID_OR_EXPIRED: nothing is recorded.
IngestInvalid(s) ==
  /\ ~ValidAt(s, now)
  /\ UNCHANGED <<signals, work>>

\* Seeded fault: INSERT OR REPLACE.
IngestReplaces(s) ==
  /\ ValidAt(s, now)
  /\ signals' = [signals EXCEPT ![s.id] =
                   [status |-> "PENDING", reason |-> "NONE", intent |-> s]]
  /\ work' = [id |-> s.id, since |-> now, step |-> "recorded"]

\* INSERT OR IGNORE; a row that is no longer PENDING ends the call.
IngestRecord(s) ==
  LET row == IF signals[s.id].status = "NONE"
               THEN [status |-> "PENDING", reason |-> "NONE", intent |-> s]
               ELSE signals[s.id]
  IN
  /\ ValidAt(s, now)
  /\ signals' = [signals EXCEPT ![s.id] = row]
  /\ work' = IF row.status = "PENDING"
               THEN [id |-> s.id, since |-> now, step |-> "recorded"]
               ELSE NoWork

Ingest(s) ==
  /\ at \in {"recover", "feed"} /\ work = NoWork /\ s \in inbox
  /\ at = "recover" => now < s.expires
  /\ inbox' = inbox \ {s}
  /\ IngestInvalid(s) \/ IngestRecord(s)
  /\ UNCHANGED <<now, positions, fills, cash, config, at, due, began, faults>>

\* Seeded fault: the mode of the process is not looked at.
CheckStoredAnyMode ==
  /\ work # NoWork /\ work.step = "recorded"
  /\ IF ValidAt(signals[work.id].intent, work.since)
       THEN /\ work' = [id |-> work.id, since |-> work.since, step |-> "book"]
            /\ UNCHANGED signals
       ELSE /\ work' = NoWork
            /\ signals' = Rejected(work.id, "EXPIRED")
  /\ UNCHANGED <<now, positions, fills, cash, config, at, due, inbox, began, faults>>

\* The stored payload decides, not the one just received.
CheckStored ==
  LET s    == signals[work.id].intent
      live == ValidAt(s, work.since)
  IN
  /\ work # NoWork /\ work.step = "recorded"
  /\ signals' = IF live /\ config.mode = "SHADOW" THEN signals
                ELSE Rejected(work.id, IF live THEN "DRY_RUN" ELSE "EXPIRED")
  /\ work' = IF live /\ config.mode = "SHADOW" THEN [id |-> work.id, since |-> work.since, step |-> "book"]
             ELSE NoWork
  /\ UNCHANGED <<now, positions, fills, cash, config, at, due, inbox, began, faults>>

\* PENDING_BOOK: the row stays PENDING for recover_pending or the next feed.
BuyWithoutBook ==
  /\ work # NoWork /\ work.step = "book"
  /\ work' = NoWork
  /\ UNCHANGED <<now, store, config, at, due, inbox, began, faults>>

\* The book took too long.
BuyTooLate ==
  /\ work # NoWork /\ work.step = "book"
  /\ now >= signals[work.id].intent.expires
  /\ signals' = Rejected(work.id, "EXPIRED")
  /\ work' = NoWork
  /\ UNCHANGED <<now, positions, fills, cash, config, at, due, inbox, began, faults>>

Buy(ask) ==
  LET id   == work.id
      s    == signals[id].intent
      qty  == Least(ask.size, s.notional \div ask.price)
      cost == qty * ask.price + Fee(qty * ask.price)
      why  == Refusal(s, qty, cost)
  IN
  /\ work # NoWork /\ work.step = "book"
  /\ now < s.expires
  /\ signals[id].status = "PENDING"
  /\ IF why # "NONE"
       THEN /\ signals' = Settle(id, "REJECTED", why)
            /\ UNCHANGED <<positions, fills, cash>>
       ELSE /\ signals' = Settle(id, "FILLED", "NONE")
            /\ positions' = Append(positions,
                 [id |-> id, qty |-> qty, cost |-> cost, opened |-> now,
                  deadline |-> now + s.hold])
            /\ fills' = Append(fills,
                 [position |-> Len(positions) + 1, side |-> "BUY", net |-> -cost,
                  realized |-> 0, ts |-> now])
            /\ cash' = cash - cost
  /\ work' = NoWork
  /\ UNCHANGED <<now, config, at, due, inbox, began, faults>>

-----------------------------------------------------------------------------
(* The feed                                                                *)

EndRecover ==
  /\ at = "recover" /\ work = NoWork /\ inbox = {}
  /\ at' = "pull"
  /\ UNCHANGED <<now, store, config, due, inbox, work, began, faults>>

Pull(body) ==
  /\ at = "pull"
  /\ at' = "feed"
  /\ inbox' = body
  /\ UNCHANGED <<now, store, config, due, work, began, faults>>

\* Unreachable, stale or malformed feed: the cycle ends, exits are unaffected.
PullFails ==
  /\ at = "pull"
  /\ at' = "sleep"
  /\ UNCHANGED <<now, store, config, due, inbox, work, began, faults>>

EndCycle ==
  /\ at = "feed" /\ work = NoWork /\ inbox = {}
  /\ at' = "sleep"
  /\ UNCHANGED <<now, store, config, due, inbox, work, began, faults>>

-----------------------------------------------------------------------------
(* Failures                                                                *)

Forget ==
  /\ due' = {} /\ inbox' = {} /\ work' = NoWork /\ began' = 0

\* An exception anywhere in the cycle (a failed transaction rolls back).
CycleError ==
  /\ at \notin {"down", "sleep"}
  /\ faults < MaxFaults /\ faults' = faults + 1
  /\ at' = "sleep"
  /\ Forget
  /\ UNCHANGED <<now, store, config>>

Crash ==
  /\ at # "down"
  /\ faults < MaxFaults /\ faults' = faults + 1
  /\ at' = "down"
  /\ Forget
  /\ UNCHANGED <<now, store, config>>

\* A new process reads its environment again; INSERT OR IGNORE keeps the cash.
Start ==
  /\ at = "down"
  /\ at' = "sleep"
  /\ config' \in Configs
  /\ UNCHANGED <<now, store, due, inbox, work, began, faults>>

-----------------------------------------------------------------------------
SellSome == \E p \in due, bid \in Bids : ExitSell(p, bid)

\* The steps of the cycle, except the pull of a feed.
CycleStep ==
  \/ BeginCycle
  \/ \E p \in due : ExitWithoutBook(p)
  \/ SellSome
  \/ BeginRecover
  \/ \E s \in inbox : RecoverExpired(s)
  \/ \E s \in inbox : Ingest(s)
  \/ CheckStored
  \/ BuyWithoutBook
  \/ BuyTooLate
  \/ \E ask \in Asks : Buy(ask)
  \/ EndRecover
  \/ PullFails
  \/ EndCycle

Fault == CycleError \/ Crash

\* Any feed at all: stale, repeated, or one identifier with two payloads.
PullAny == \E body \in SUBSET Intents : Pull(body)

Next == Tick \/ CycleStep \/ PullAny \/ Fault \/ Start

Spec == Init /\ [][Next]_vars

\* The loop runs for ever, a dead process is restarted, time passes, and a
\* book that is wanted again and again is at some point delivered.
Fairness ==
  /\ WF_vars(Tick)
  /\ WF_vars(CycleStep)
  /\ WF_vars(Start)
  /\ SF_vars(SellSome)

FairSpec == Spec /\ Fairness

-----------------------------------------------------------------------------
(* Properties                                                              *)

\* Every row and every local of the worker has the shape the code gives it,
\* and what the cycle still has to visit exists.
TypeOK ==
  /\ now \in 0..Horizon
  /\ signals \in [Ids -> Row]
  /\ positions \in Seq(Position)
  /\ fills \in Seq(Fill)
  /\ cash \in Nat
  /\ config \in Configs
  /\ at \in {"down", "sleep", "exits", "recover", "pull", "feed"}
  /\ due \subseteq DOMAIN positions
  /\ inbox \subseteq Intents
  /\ work \in Work \cup {NoWork}
  /\ began \in 0..now
  /\ faults \in 0..MaxFaults

\* An intent is executed at most once, whatever is repeated, recovered or cut
\* by a crash, and it is FILLED exactly when it has its position (the ingest
\* docs: "restart dedupe"; UNIQUE client id of docs/MAGI_ARCHITECTURE.md).
OnePositionPerIntent ==
  /\ \A p, q \in DOMAIN positions :
       positions[p].id = positions[q].id => p = q
  /\ \A i \in Ids :
       signals[i].status = "FILLED" <=> \E p \in DOMAIN positions : positions[p].id = i

\* The signals table: a row is absent, or holds a well-formed intent under its
\* own identifier.
RowsSound ==
  \A i \in Ids :
    LET s == signals[i].intent IN
    IF signals[i].status = "NONE" THEN s = NoIntent
    ELSE s \in Intents /\ s.id = i /\ s.expires <= s.created + MaxLife

\* The ingest in progress still owns a PENDING row, so the check of line 75
\* (DUPLICATE) never answers in a single process.
WorkOwnsRow ==
  work # NoWork =>
    /\ signals[work.id].status = "PENDING"
    /\ work.since <= now
    /\ work.step = "book" => signals[work.id].intent.created <= work.since + Skew

\* Nothing is bought on an intent that has expired: the position was opened
\* before the expiry of the payload stored FIRST, and no more than MaxLife
\* (and the tolerated skew) away from its creation.
NeverBoughtLate ==
  \A p \in DOMAIN positions :
    LET s == signals[positions[p].id].intent
    IN /\ s \in Intents
       /\ positions[p].opened < s.expires
       /\ positions[p].opened < s.created + MaxLife
       /\ s.created <= positions[p].opened + Skew
       /\ positions[p].deadline = positions[p].opened + s.hold

\* The inductive invariant behind the safety theorems of ShadowEngineProofs.
IInv ==
  /\ TypeOK /\ RowsSound /\ WorkOwnsRow
  /\ OnePositionPerIntent /\ NeverBoughtLate

\* A repeated identifier can never change the recorded intent, and a decided
\* intent is never reopened (shadow_runtime.py, the comment on line 59).
IntentNeverChanges ==
  [][\A i \in Ids :
       /\ signals[i].status # "NONE" => signals'[i].intent = signals[i].intent
       /\ signals[i].status \in {"FILLED", "REJECTED"} => signals'[i] = signals[i]]_vars

\* A process started under the kill switch or in DRY_RUN only ever reduces
\* exposure: positions recorded as PENDING by an earlier process included.
HaltedProcessOnlyReduces ==
  [][config.kill \/ config.mode # "SHADOW" =>
       /\ Len(positions') = Len(positions)
       /\ Exposure' <= Exposure]_vars

\* The cost basis of the open positions never exceeds the configured total.
ExposureCapped == Exposure <= MaxExposure

\* Virtual money is neither made nor lost: cash and cost basis always add up
\* to the seed and the realized results, partial exits included.
LedgerBalances ==
  /\ cash + Exposure = InitialCash + RealizedSince(-DayOffset)
  /\ cash = InitialCash + SumFunction([k \in DOMAIN fills |-> fills[k].net])

\* Once the realized loss of a KST day reaches the limit nothing more is
\* bought that day, in whatever order exits and entries were committed.
DailyLossStopsBuying ==
  \A k \in DOMAIN fills :
    fills[k].side = "BUY" =>
      -MaxDailyLoss <
        SumFunctionOnSet(Realized, {j \in 1..(k - 1) : fills[j].ts >= DayStart(fills[k].ts)})

\* What the ingest docs promise of an intent, and what the limits and the books
\* of account promise of the money (the three before this one).
IntentsAreHonoured == OnePositionPerIntent /\ NeverBoughtLate

MoneyIsSafe == ExposureCapped /\ LedgerBalances /\ DailyLossStopsBuying

\* What the money rests on besides IInv: a sold-out position keeps no cost, and
\* only a process in SHADOW mode ever gets as far as asking for a book.
SoldOutIsFree == \A p \in DOMAIN positions : positions[p].qty = 0 => positions[p].cost = 0

BuyerIsLive ==
  work # NoWork => /\ at \in {"recover", "feed"}
                   /\ work.step = "book" => config.mode = "SHADOW"

MInv == IInv /\ SoldOutIsFree /\ BuyerIsLive /\ MoneyIsSafe

\* Every position is closed in the end, under the kill switch, in DRY_RUN,
\* through partial exits, missing books, dead feeds and restarts.
EveryPositionCloses ==
  \A p \in 1..Cardinality(Ids) :
    (p \in DOMAIN positions /\ positions[p].qty > 0)
      ~> (p \in DOMAIN positions /\ positions[p].qty = 0)

\* No intent stays PENDING for ever: it is bought, refused, or expires.
PendingIsDecided ==
  \A i \in Ids :
    signals[i].status = "PENDING" ~> signals[i].status \in {"FILLED", "REJECTED"}

\* Nothing is left open: neither a position nor a decision.
NothingIsLeftOpen == EveryPositionCloses /\ PendingIsDecided

-----------------------------------------------------------------------------
\* The worker seen as the life of its intents.
Life == INSTANCE IntentLife WITH
  clock  <- now,
  life   <- [i \in Ids |-> signals[i].status],
  terms  <- [i \in Ids |-> signals[i].intent],
  trades <- [p \in DOMAIN positions |-> positions[p].id]

\* Record, execute once before the expiry, or refuse: every step of the
\* worker, crashes included, is one of these or changes none of it.
IntentRefinement == Life!Spec

=============================================================================
