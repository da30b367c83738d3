------------------------------ MODULE RankLedger ------------------------------
(***************************************************************************)
(* The TOP5 rotation account of MAGI2: a ledger inherited through five     *)
(* classes (magi2/fast_paper.py, fast_tick_paper.py, fast_target_paper.py, *)
(* fast_entry_limit.py, fast_rank_paper.py), the ranking thread that       *)
(* offers entries, the worker of a venue that fills and exits on public    *)
(* books, the user's stop and start, and the timer of the first start.     *)
(* Every ledger method is one transaction under one lock; the threads      *)
(* interleave between them and while they wait for the exchange.           *)
(*                                                                         *)
(* One venue; prices are the three that the rules tell apart, quantities   *)
(* are lots.  Rounding, fees and slippage are left out.                    *)
(***************************************************************************)
EXTENDS Integers, FiniteSets, Sequences, FiniteSetsExt, SequencesExt

CONSTANTS
  Symbols,
  Seed, Slot,            \* cash at the start and the most one entry may spend
  MaxPositions,
  Entry, Target, StopPrice,   \* prices: of the entry limit, of the profit order, of the stop
  INTERVAL,              \* of the ranking
  TTL, LATENCY, AGE,     \* of an entry; of a new order; of a book
  Scopes,                \* the bounds: how long, and how many stops and starts
  Nil

VARIABLES
  moment,
  control,       \* the fast_control row
  launch,        \* the rank_launch row
  cash, funded,
  trade,         \* of each symbol: its last trade, Nil before the first
  rank,          \* the last committed ranking
  scan,          \* the ranking thread's: Nil, or slot and generation of a ranking under way
  worker,        \* the worker's: the trade in hand, its status when taken, its book
  realized,
  \* history variables
  stopped,       \* the user stopped entries and has not started them again
  away,          \* symbols that a committed ranking left out since their last entry
  left           \* of the scope

\* A trade as its row holds it; id is the start and the episode it was bought in.
Trades ==
  [id : Nat \X Nat, status : {"ENTRY_PENDING", "OPEN", "EXIT_PENDING", "SKIPPED", "CLOSED"},
   signal : Nat, session : Nat, qty : Nat, cost : Nat, profitFrom : Nat \cup {Nil}, exitReady : Nat \cup {Nil},
   lastBook : (Nat \X Nat) \cup {Nil}, profitBook : (Nat \X Nat) \cup {Nil}, checked : Nat \cup {Nil}]

\* A ranking as it is saved.
Rankings ==
  [slot : Nat, generation : Nat, saved : Nat,
   members : UNION {[ranked -> [entry : Nat, consumed : BOOLEAN]] : ranked \in SUBSET Symbols}]

ASSUME RankAssumption ==
  /\ IsFiniteSet(Symbols) /\ Seed \in Nat /\ Slot \in Nat /\ MaxPositions \in Nat
  /\ {Entry, Target, StopPrice, INTERVAL} \subseteq Nat \ {0}
  /\ {TTL, LATENCY, AGE} \subseteq Nat
  /\ Nil \notin Trades /\ Nil \notin Rankings

rankvars == <<moment, control, launch, cash, funded, trade, rank, scan, worker, realized, stopped, away, left>>

Bids == {StopPrice, Target}
Asks == {Entry, Entry + 1}
Idle == [item |-> Nil, asked |-> Nil, seen |-> Nil, book |-> Nil]

Has(s, states) == trade[s] # Nil /\ trade[s].status \in states
Pending == {s \in Symbols : Has(s, {"ENTRY_PENDING"})}
Holding == {s \in Symbols : Has(s, {"OPEN", "EXIT_PENDING"})}
Active == Pending \cup Holding

\* The launch time is configured before the start; entries are off until then.
RankInit ==
  /\ moment = 0 /\ cash = 0 /\ funded = FALSE /\ realized = 0
  /\ control = [enabled |-> FALSE, resumed |-> 0, generation |-> 1]
  /\ launch = [at |-> 0, pending |-> TRUE, generation |-> 1]
  /\ trade = [s \in Symbols |-> Nil]
  /\ rank = Nil /\ scan = Nil /\ worker = Idle
  /\ stopped = FALSE /\ away = {} /\ left \in Scopes

Elapse == /\ moment < left.until /\ moment' = moment + 1
        /\ UNCHANGED <<control, launch, cash, funded, trade, rank, scan, worker, realized, stopped, away, left>>

-----------------------------------------------------------------------------
\* Control.

Set(enabled, at) ==
  control' = [enabled |-> enabled, generation |-> control.generation + 1,
              resumed |-> IF enabled THEN at ELSE control.resumed]

\* Seeded fault: the timer starts entries whatever happened since.
Anyway(l) == TRUE

StillWanted(l) == control.generation = l.generation

ActivateDue ==
  /\ launch.pending /\ moment >= launch.at
  /\ launch' = [launch EXCEPT !.pending = FALSE]
  /\ IF StillWanted(launch) THEN Set(TRUE, launch.at) ELSE UNCHANGED control
  /\ UNCHANGED <<moment, cash, funded, trade, rank, scan, worker, realized, stopped, away, left>>

Blank == [id |-> Nil, status |-> Nil, signal |-> 0, session |-> 0, qty |-> 0, cost |-> 0, profitFrom |-> Nil,
          exitReady |-> Nil, lastBook |-> Nil, profitBook |-> Nil, checked |-> Nil]

\* Of a trade that is over nothing is read but that it was there.
Ended(t, status) == [Blank EXCEPT !.id = t.id, !.status = status]

ExitRequested(t, ts) ==
  IF t.qty > 0 THEN [t EXCEPT !.status = "EXIT_PENDING", !.exitReady = ts, !.profitFrom = Nil]
               ELSE Ended(t, "SKIPPED")

\* Seeded fault: a stop leaves the entries that wait for a book.
HeldExits(s) == IF Has(s, {"OPEN"}) THEN ExitRequested(trade[s], moment) ELSE trade[s]

Cleared(s) == IF Has(s, {"ENTRY_PENDING", "OPEN"}) THEN ExitRequested(trade[s], moment) ELSE trade[s]

PauseAndClear ==
  /\ left.commands > 0 /\ left' = [left EXCEPT !.commands = @ - 1]
  /\ Set(FALSE, moment) /\ stopped' = TRUE
  /\ trade' = [s \in Symbols |-> Cleared(s)]
  /\ UNCHANGED <<moment, launch, cash, funded, rank, scan, worker, realized, away>>

Resume ==
  /\ left.commands > 0 /\ left' = [left EXCEPT !.commands = @ - 1]
  /\ ~ \E s \in Symbols : Has(s, {"EXIT_PENDING"})
  /\ IF control.enabled THEN UNCHANGED control ELSE Set(TRUE, moment)
  /\ stopped' = FALSE
  /\ UNCHANGED <<moment, launch, cash, funded, trade, rank, scan, worker, realized, away>>

-----------------------------------------------------------------------------
\* The ranking thread: every slot, prices are asked for, the ranking is
\* committed, then its new members are offered.

SlotOf(ts) == (ts \div INTERVAL) * INTERVAL

ScanStart ==
  /\ scan = Nil /\ control.enabled /\ SlotOf(moment) >= control.resumed
  /\ scan' = [slot |-> SlotOf(moment), generation |-> control.generation, rows |-> Nil]
  /\ UNCHANGED <<moment, control, launch, cash, funded, trade, rank, worker, realized, stopped, away, left>>

Saveable ==
  /\ control.enabled /\ scan.generation = control.generation /\ scan.slot >= control.resumed
  /\ SlotOf(moment) = scan.slot
  /\ \A r \in {rank} \ {Nil} : r.slot < scan.slot

\* Seeded fault: every ranking starts an episode.
NewMember(s) == [entry |-> scan.slot, consumed |-> FALSE]

Member(s) == IF rank # Nil /\ rank.generation = scan.generation /\ s \in DOMAIN rank.members
               THEN rank.members[s] ELSE [entry |-> scan.slot, consumed |-> FALSE]

SaveRank ==
  /\ scan # Nil /\ scan.rows = Nil
  /\ \E rows \in {q \in UNION {[1 .. n -> Symbols] : n \in 1 .. Cardinality(Symbols)} : IsInjective(q)} :
       IF Saveable
         THEN /\ rank' = [slot |-> scan.slot, generation |-> scan.generation, saved |-> moment,
                          members |-> [s \in Range(rows) |-> Member(s)]]
              /\ scan' = [scan EXCEPT !.rows = rows] /\ away' = away \cup (Symbols \ Range(rows))
         ELSE scan' = Nil /\ UNCHANGED <<rank, away>>
  /\ UNCHANGED <<moment, control, launch, cash, funded, trade, worker, realized, stopped, left>>

Claim(t) == IF t # Nil /\ t.status \in {"ENTRY_PENDING", "OPEN", "EXIT_PENDING"} THEN t.session ELSE 0
Spoken(tr) == SumFunctionOnSet([s \in Symbols |-> Claim(tr[s])], Symbols)

\* Seeded fault: an entry that waits has no claim on the cash.
SpokenOpen(tr) ==
  SumFunctionOnSet([s \in Symbols |-> IF tr[s] # Nil /\ tr[s].status = "OPEN" THEN tr[s].session ELSE 0], Symbols)

Promised(tr) == Spoken(tr)

NewTrade(s, budget) ==
  [Blank EXCEPT !.id = <<control.generation, rank.members[s].entry>>, !.status = "ENTRY_PENDING",
                !.signal = moment, !.session = budget]

\* offer_rank(): the rows in order, until no slot or no cash is left.
OfferRow(acc, s) ==
  LET t == acc.trade[s]
      active == {x \in Symbols : acc.trade[x] # Nil /\ acc.trade[x].status \in {"ENTRY_PENDING", "OPEN", "EXIT_PENDING"}}
      unclaimed == cash - Promised(acc.trade)
      spent == [acc EXCEPT !.members[s].consumed = TRUE]
  IN IF acc.done \/ acc.members[s].consumed THEN acc
     ELSE IF s \in active THEN spent
     ELSE IF Cardinality(active) >= MaxPositions \/ ~ funded \/ unclaimed <= 0 THEN [acc EXCEPT !.done = TRUE]
     ELSE IF t # Nil /\ t.id = <<control.generation, rank.members[s].entry>> THEN spent
     ELSE [spent EXCEPT !.trade[s] = NewTrade(s, IF unclaimed < Slot THEN unclaimed ELSE Slot)]

OfferRank ==
  /\ scan # Nil /\ scan.rows # Nil /\ scan' = Nil
  /\ IF control.enabled /\ rank.generation = control.generation /\ moment - rank.saved <= LATENCY
       THEN LET end == FoldLeft(OfferRow, [trade |-> trade, members |-> rank.members, done |-> FALSE], scan.rows)
            IN /\ trade' = end.trade /\ rank' = [rank EXCEPT !.members = end.members]
               /\ away' = away \ {s \in Symbols : end.trade[s] # trade[s]}
       ELSE UNCHANGED <<trade, rank, away>>
  /\ UNCHANGED <<moment, control, launch, cash, funded, worker, realized, stopped, left>>

-----------------------------------------------------------------------------
\* The worker of the venue.

Fund ==
  /\ worker = Idle /\ ~ funded /\ funded' = TRUE /\ cash' = Seed
  /\ UNCHANGED <<moment, control, launch, trade, rank, scan, worker, realized, stopped, away, left>>

Expired(s) == Has(s, {"ENTRY_PENDING"}) /\ moment > trade[s].signal + TTL

Advance ==
  /\ worker = Idle /\ \E s \in Symbols : Expired(s)
  /\ trade' = [s \in Symbols |-> IF Expired(s) THEN Ended(trade[s], "SKIPPED") ELSE trade[s]]
  /\ UNCHANGED <<moment, control, launch, cash, funded, rank, scan, worker, realized, stopped, away, left>>

\* The next trade of a pass, in any order: its book is asked for.
Take(s) ==
  /\ worker = Idle /\ s \in Active
  /\ Has(s, {"ENTRY_PENDING"}) => moment >= trade[s].signal + LATENCY
  /\ worker' = [Idle EXCEPT !.item = <<s, trade[s].id>>, !.asked = moment, !.seen = trade[s].status]
  /\ UNCHANGED <<moment, control, launch, cash, funded, trade, rank, scan, realized, stopped, away, left>>

Fresh(b, from) == b.requested >= from /\ b.received - b.requested <= AGE /\ moment - b.received <= AGE

\* capped_buy(): displayed lots at or below the limit, within the budget.
LotsFor(b, t) == IF b.top > Entry THEN 0 ELSE Min({b.size, t.session \div Entry})

Enter(s, b) ==
  LET t == trade[s]  qty == LotsFor(b, t) IN
  IF ~ control.enabled \/ t.status # "ENTRY_PENDING" THEN UNCHANGED <<trade, cash>>
  ELSE IF Expired(s) THEN trade' = [trade EXCEPT ![s] = Ended(t, "SKIPPED")] /\ UNCHANGED cash
  ELSE IF ~ Fresh(b, t.signal + LATENCY) \/ qty = 0 \/ qty * Entry > cash THEN UNCHANGED <<trade, cash>>
  ELSE /\ cash' = cash - qty * Entry
       /\ trade' = [trade EXCEPT ![s] = [t EXCEPT !.status = "OPEN", !.qty = qty, !.cost = qty * Entry, !.session = 0,
                                                  !.signal = 0, !.profitFrom = moment + LATENCY]]

\* A sale keeps its proceeds claimed until the trade is closed.
Sold(t, qty, price) ==
  LET rest == [t EXCEPT !.qty = @ - qty, !.cost = @ - qty * Entry, !.session = @ + qty * price]
  IN IF rest.qty = 0 THEN Ended(t, "CLOSED") ELSE rest

Proceed(s, qty, price) ==
  cash' = cash + qty * price /\ realized' = realized + qty * (price - Entry)

Bidding(b) == <<b.top, b.size>>

\* check_stop(): the profit order on displayed bids, or out of the ranking and at the stop.
Outside(s, b) ==
  /\ rank # Nil /\ control.enabled /\ rank.generation = control.generation
  /\ moment - rank.saved <= AGE /\ b.requested >= rank.saved
  /\ trade[s].checked # rank.slot

CheckStop(s, b) ==
  LET t == trade[s] IN
  IF t.status # "OPEN" \/ ~ Fresh(b, 0) THEN UNCHANGED <<trade, cash, realized>>
  ELSE IF moment >= t.profitFrom /\ b.top >= Target
    THEN IF Bidding(b) = t.profitBook THEN UNCHANGED <<trade, cash, realized>>
         ELSE LET qty == Min({t.qty, b.size})
              IN /\ trade' = [trade EXCEPT ![s] = Sold([t EXCEPT !.profitBook = Bidding(b)], qty, Target)]
                 /\ Proceed(s, qty, Target)
  ELSE IF Outside(s, b)
    THEN LET c == [t EXCEPT !.checked = rank.slot] IN
         /\ trade' = [trade EXCEPT ![s] = IF s \notin DOMAIN rank.members /\ b.top <= StopPrice
                                            THEN ExitRequested(c, b.requested) ELSE c]
         /\ UNCHANGED <<cash, realized>>
  ELSE UNCHANGED <<trade, cash, realized>>

\* exit(): the displayed bids of a book that was asked for after the request.
Exit(s, b) ==
  LET t == trade[s]  qty == Min({t.qty, b.size}) IN
  IF t.status # "EXIT_PENDING" \/ ~ Fresh(b, t.exitReady) \/ Bidding(b) = t.lastBook
    THEN UNCHANGED <<trade, cash, realized>>
    ELSE /\ trade' = [trade EXCEPT ![s] = Sold([t EXCEPT !.lastBook = Bidding(b)], qty, b.top)]
         /\ Proceed(s, qty, b.top)

\* A book arrives: the side that matters, its best price and size.
Arrive ==
  /\ worker.item # Nil /\ worker.book = Nil
  /\ \E top \in IF worker.seen = "ENTRY_PENDING" THEN Asks ELSE Bids, size \in 1 .. 2 :
       LET b == [requested |-> worker.asked, received |-> moment, top |-> top, size |-> size]
           s == worker.item[1]
           same == trade[s].id = worker.item[2]
       IN /\ IF ~ same THEN UNCHANGED <<trade, cash, realized>> /\ worker' = Idle
             ELSE IF worker.seen = "ENTRY_PENDING" THEN Enter(s, b) /\ UNCHANGED realized /\ worker' = Idle
             ELSE IF worker.seen = "AGAIN" THEN Exit(s, b) /\ worker' = Idle
             ELSE /\ worker' = [worker EXCEPT !.book = b]
                  /\ IF worker.seen = "OPEN" THEN CheckStop(s, b) ELSE UNCHANGED <<trade, cash, realized>>
  /\ UNCHANGED <<moment, control, launch, funded, rank, scan, stopped, away, left>>

Unanswered ==
  /\ worker.item # Nil /\ worker.book = Nil /\ worker' = Idle
  /\ UNCHANGED <<moment, control, launch, cash, funded, trade, rank, scan, realized, stopped, away, left>>

\* The status is read again: another thread may have requested the exit.
Recheck ==
  /\ worker.book # Nil
  /\ LET s == worker.item[1]
         due == trade[s].id = worker.item[2] /\ trade[s].status = "EXIT_PENDING"
     IN IF due /\ worker.book.requested < trade[s].exitReady
          THEN /\ worker' = [worker EXCEPT !.asked = moment, !.seen = "AGAIN", !.book = Nil]
               /\ UNCHANGED <<trade, cash, realized>>
          ELSE /\ worker' = Idle
               /\ IF due THEN Exit(s, worker.book) ELSE UNCHANGED <<trade, cash, realized>>
  /\ UNCHANGED <<moment, control, launch, funded, rank, scan, stopped, away, left>>

Restart ==
  /\ scan' = Nil /\ worker' = Idle
  /\ UNCHANGED <<moment, control, launch, cash, funded, trade, rank, realized, stopped, away, left>>

RankNext ==
  \/ Elapse \/ ActivateDue \/ PauseAndClear \/ Resume
  \/ ScanStart \/ SaveRank \/ OfferRank
  \/ Fund \/ Advance \/ Arrive \/ Unanswered \/ Recheck \/ Restart
  \/ \E s \in Symbols : Take(s)

RankSpec == RankInit /\ [][RankNext]_rankvars

-----------------------------------------------------------------------------

\* What the holdings cost; the code has no such figure but by adding it up.
Tied(t) == IF t # Nil /\ t.status \in {"OPEN", "EXIT_PENDING"} THEN t.cost ELSE 0
Invested(tr) == SumFunctionOnSet([s \in Symbols |-> Tied(tr[s])], Symbols)

\* Cash and cost of the holdings are the seed and what sales realized, and
\* what entries and partial sales have claimed is there to spend: two entries
\* offered by one ranking never share a budget, whatever was sold, stopped or
\* expired since (fast_tick_paper.py:64-74, :135, fast_rank_paper.py:119).
ClaimsAreFunded ==
  /\ cash + Invested(trade) = (IF funded THEN Seed ELSE 0) + realized
  /\ Spoken(trade) <= cash
  /\ Cardinality(Active) <= MaxPositions

\* After a stop nothing buys and nothing waits to buy until the user starts
\* again, not the timer and not a ranking or a book that was on its way
\* (fast_rank_paper.py:61, :86, fast_target_paper.py:52-56).
StopHolds == stopped => ~ control.enabled /\ Pending = {}

\* What a ranking promises can be paid, and a stop holds.
RankIsFundedAndStops == ClaimsAreFunded /\ StopHolds

\* What is bought was offered in time by a ranking of this start and within
\* its budget, and a symbol that stays in the ranking is not bought again
\* (fast_rank_paper.py:83-137, fast_entry_limit.py:59-132).
EntryIsRanked ==
  \A s \in Symbols :
    /\ (trade'[s] # Nil /\ trade'[s].status = "OPEN" /\ (trade[s] = Nil \/ trade[s].status # "OPEN"))
         => /\ trade[s].status = "ENTRY_PENDING" /\ trade'[s].id[1] = control.generation
            /\ control.enabled /\ moment <= trade[s].signal + TTL
            /\ trade'[s].cost <= trade[s].session
    /\ (trade[s] # Nil /\ trade'[s].id # trade[s].id /\ trade'[s].id[1] = trade[s].id[1])
         => s \in away

\* So it is of every step of the account.
EntriesAreRanked == [][EntryIsRanked]_rankvars
=============================================================================
