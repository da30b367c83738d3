--------------------------- MODULE DeadlineLedger ---------------------------
(* The first paper accounts of MAGI2 (magi2/fast_paper.py) and the worker    *)
(* that trades them on public books (magi2/fast_paper_service.py), which the *)
(* later ledgers inherit: a slot is reserved when a signal is offered, filled *)
(* within a few seconds or not at all, and sold after a fixed time.          *)
(*                                                                           *)
(* One account; offers come from the thread of the scanner while the worker  *)
(* waits for a book.  A slot buys Lots lots at LotCost each.                 *)
EXTENDS Integers, Sequences, FiniteSets, FiniteSetsExt, SequencesExt

CONSTANTS
  RowIds, Coins,
  STALE, ENTRY_TTL, HOLD, DEADLINE, DELAY, COOLDOWN, SLOW,    \* in units of time
  MAX_POSITIONS, SEED, Lots, LotCost,
  SellPrices,      \* what a lot may bring
  Views,           \* the books that are shown, told apart by their hash
  LastInstant,     \* bound on time
  Void

VARIABLES
  instant,
  endowed, money,
  trades,          \* the table, by ident
  pass,            \* what the worker has read and not yet handled
  request          \* the book it waits for: ident and time, or Void

\* A book that is waited for, and for what.
Requests == [ident : RowIds, at : Nat, side : {"ENTRY_PENDING", "OPEN", "EXIT_PENDING", "SKIPPED", "CLOSED"}]

ASSUME DeadlineAssumption ==
  /\ RowIds \subseteq Nat
  /\ {ENTRY_TTL, HOLD, DEADLINE, DELAY, COOLDOWN, STALE, SLOW} \subseteq Nat
  /\ {MAX_POSITIONS, SEED, Lots, LotCost, LastInstant} \subseteq Nat /\ SellPrices \subseteq Nat
  /\ Void \notin Requests

lvars == <<instant, endowed, money, trades, pass, request>>

SLOT == Lots * LotCost
LiveStates == {"ENTRY_PENDING", "OPEN", "EXIT_PENDING"}
Taken(f) == {i \in DOMAIN f : f[i].status \in LiveStates}
Bought(f) == {i \in Taken(f) : f[i].status # "ENTRY_PENDING"}
Waiting(f) == Taken(f) \ Bought(f)

LInit == /\ instant = 0 /\ endowed \in BOOLEAN /\ money = (IF endowed THEN SEED ELSE 0)
         /\ trades = [i \in {} |-> Void]
         /\ pass = <<>> /\ request = Void

Later == instant < LastInstant /\ instant' = instant + 1 /\ UNCHANGED <<endowed, money, trades, pass, request>>

-----------------------------------------------------------------------------
(* offer(): a slot is reserved before the notification goes out             *)

\* Seeded fault: what is promised to other signals is not set aside.
Unpromised == 0
SetAside == SLOT * Cardinality(Waiting(trades))

Refused(s, signal) ==
  \/ instant > signal + ENTRY_TTL
  \/ ~endowed
  \/ \E i \in Taken(trades) : trades[i].symbol = s
  \/ \E i \in Taken(trades) : instant >= trades[i].deadline
  \/ Cardinality(Taken(trades)) >= MAX_POSITIONS
  \/ \E i \in DOMAIN trades : /\ trades[i].symbol = s /\ trades[i].status = "CLOSED"
                              /\ trades[i].close > instant - COOLDOWN
  \/ money - SetAside < SLOT

Offer ==
  \E i \in RowIds \ DOMAIN trades, s \in Coins, signal \in {instant, instant - STALE} :
    /\ \A j \in DOMAIN trades : j < i
    /\ trades' = [j \in DOMAIN trades \cup {i} |-> IF j # i THEN trades[j]
         ELSE [symbol |-> s, signal |-> signal, deadline |-> signal + DEADLINE, ready |-> instant + DELAY,
               status |-> IF Refused(s, signal) THEN "SKIPPED" ELSE "ENTRY_PENDING",
               lots |-> 0, cost |-> 0, due |-> 0, exitReady |-> LastInstant, hash |-> Void, got |-> 0, close |-> 0]]
    /\ UNCHANGED <<instant, endowed, money, pass, request>>

-----------------------------------------------------------------------------
(* The worker                                                               *)

\* advance(): a signal expires, a hold ends, a deadline passes.
Advanced(f) ==
  [i \in DOMAIN f |->
     CASE i \in Waiting(f) /\ instant > f[i].signal + ENTRY_TTL -> [f[i] EXCEPT !.status = "SKIPPED"]
       [] i \in Bought(f) /\ instant >= f[i].deadline ->
            [f[i] EXCEPT !.status = "EXIT_PENDING", !.exitReady = Min({@, instant})]
       [] f[i].status = "OPEN" /\ instant < f[i].deadline /\ instant >= f[i].due ->
            [f[i] EXCEPT !.status = "EXIT_PENDING", !.exitReady = instant + DELAY]
       [] OTHER -> f[i]]

Before(f, i, j) == f[i].deadline < f[j].deadline \/ (f[i].deadline = f[j].deadline /\ i < j)
Queue(f, S) ==
  CHOOSE q \in [1 .. Cardinality(S) -> S] : \A k, l \in DOMAIN q : k < l => Before(f, q[k], q[l])
Exits(f) == {i \in Taken(f) : f[i].status = "EXIT_PENDING"}

\* Seeded fault: new purchases are served before what has to be sold.
EntriesFirst(f) == Queue(f, Waiting(f)) \o Queue(f, Exits(f))
Plan(f) == Queue(f, Exits(f)) \o Queue(f, Waiting(f))

\* Exit recovery runs whether or not anything new was found; the account is
\* funded at the first rate that is known.
Begin ==
  /\ pass = <<>> /\ request = Void
  /\ trades' = Advanced(trades)
  /\ \/ endowed /\ UNCHANGED <<endowed, money>>
     \/ ~endowed /\ endowed' = TRUE /\ money' = SEED
  /\ pass' = Plan(trades')
  /\ UNCHANGED <<instant, request>>

Ready(t) == IF t.status = "EXIT_PENDING" THEN t.exitReady ELSE t.ready

\* What is not ready yet is left for another pass.
Ask ==
  /\ pass # <<>> /\ request = Void
  /\ LET i == Head(pass)
     IN IF instant < Ready(trades[i])
          THEN pass' = Tail(pass) /\ UNCHANGED request
          ELSE /\ request' = [ident |-> i, at |-> instant, side |-> trades[i].status]
               /\ UNCHANGED pass
  /\ UNCHANGED <<instant, endowed, money, trades>>

Timely(ready) == ready <= request.at /\ instant - request.at <= SLOW

Overdue(f) == \E i \in Bought(f) : instant >= f[i].deadline

Skip(f, i) == trades' = [f EXCEPT ![i].status = "SKIPPED"] /\ UNCHANGED money

\* enter(): too late, an exit overdue, too wide or too thin; or bought, on a
\* book that was asked for after the signal.
Purchase(f, i) ==
  \/ (instant > f[i].signal + ENTRY_TTL \/ Overdue(f)) /\ Skip(f, i)
  \/ /\ ~(instant > f[i].signal + ENTRY_TTL) /\ ~Overdue(f) /\ Timely(f[i].ready)
     /\ \/ Skip(f, i)
        \/ /\ SLOT <= money /\ money' = money - SLOT
           /\ trades' = [f EXCEPT ![i] = [f[i] EXCEPT !.status = "OPEN", !.lots = Lots, !.cost = SLOT,
                                                      !.due = Min({instant + HOLD, f[i].deadline})]]

\* exit(): what is displayed is sold once; the rest waits for another book.
Sale(f, i) ==
  /\ Timely(f[i].exitReady)
  /\ \E v \in Views \ {f[i].hash}, q \in 1 .. f[i].lots, price \in SellPrices :
       /\ money' = money + q * price
       /\ trades' = [f EXCEPT ![i] =
                       [f[i] EXCEPT !.lots = @ - q, !.cost = @ - q * LotCost, !.hash = v,
                                    !.got = @ + q * price - q * LotCost,
                                    !.status = IF q = f[i].lots THEN "CLOSED" ELSE @, !.close = instant]]

\* The answer, handled by what the trade was when it was read and checked
\* against what it is now.
Answer ==
  /\ request # Void
  /\ LET i == request.ident
         f == Advanced(trades)
     IN /\ \/ f[i].status = request.side /\ request.side = "ENTRY_PENDING" /\ Purchase(f, i)
           \/ f[i].status = request.side /\ request.side = "EXIT_PENDING" /\ Sale(f, i)
           \/ trades' = f /\ UNCHANGED money          \* no answer, stale, changed or seen before
  /\ request' = Void /\ pass' = Tail(pass)
  /\ UNCHANGED <<instant, endowed>>

\* A restart keeps the table and forgets the pass.
Reopen == /\ request # Void /\ request' = Void /\ pass' = <<>>
          /\ UNCHANGED <<instant, endowed, money, trades>>

LNext == Later \/ Offer \/ Begin \/ Ask \/ Answer \/ Reopen
LSpec == LInit /\ [][LNext]_lvars

-----------------------------------------------------------------------------
\* What every trade brought and cost; the code adds it up nowhere.
Balance(f) == SumFunctionOnSet([i \in DOMAIN f |-> f[i].got - f[i].cost], DOMAIN f)

\* The account can pay for every signal it accepted, whatever was bought and
\* sold since, so the check of the purchase itself never fails; and no money
\* appears or vanishes (magi2/fast_paper.py:213 and :288).
PromisesAreFunded ==
  /\ money >= SLOT * Cardinality(Waiting(trades))
  /\ endowed => money = SEED + Balance(trades)

\* A purchase is never made while a position is overdue, nor before every sale
\* the pass found was tried, and within the time its signal allows
\* (magi2/fast_paper.py:276, magi2/fast_paper_service.py:89).
SaleComesFirst ==
  \A i \in DOMAIN trades : trades[i].status = "ENTRY_PENDING" /\ trades'[i].status = "OPEN" =>
    /\ instant <= trades[i].signal + ENTRY_TTL
    /\ \A j \in Bought(trades) : instant < trades[j].deadline
    /\ \A j \in Range(pass) : trades[j].status # "EXIT_PENDING"

\* So it is of every step of the account.
SalesComeFirst == [][SaleComesFirst]_lvars
=============================================================================
