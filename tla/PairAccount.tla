----------------------------- MODULE PairAccount -----------------------------
(* The research account that pairs a spot purchase with a short perpetual    *)
(* contract, or shorts alone, on wallets funded once and never netted        *)
(* (magi2/fast_models/derivatives.py, fed by market.py and run by            *)
(* runtime.py).                                                              *)
(*                                                                           *)
(* A round polls the public books and, now and then, the funding rates; then *)
(* one tick settles funding, closes, opens and reserves, and commits all of  *)
(* it.  Time is counted in rounds, money in tenths of a wallet.              *)
EXTENDS Integers, FiniteSets, FiniteSetsExt, Functions

CONSTANTS
  Assets, Pairs, Shorts,  \* assets that may be bought against a short, or only sold short
  Venues,            \* "binance" settles at fixed times, "kraken" accrues by the hour
  CASH, SLOT,        \* of a wallet; most that one position may tie up
  MAX_POSITIONS, MAX_SHORTS,
  DAY, EXPIRES, FRESH, FEED,   \* in rounds
  PERIOD,            \* of a settlement, or of a rate
  Worth, Losses,     \* what a leg may bring when it is closed, and what it may lose beyond its margin
  Start, Until,      \* bounds on time
  Absent

Times == 0 .. Until

Holdings == [entered : Nat, cursor : Nat, next : Nat, settled : BOOLEAN, behind : BOOLEAN,
             exit : Nat \cup {Absent}, paid : [Times -> Nat]]

PairConstants ==
  /\ PERIOD \in Nat \ {0} /\ DAY \in Nat \ {0}
  /\ {CASH, SLOT, EXPIRES, FRESH, FEED, Start, Until} \subseteq Nat /\ Start <= Until
  /\ Venues \subseteq {"binance", "kraken"} /\ Absent \notin Nat
  /\ IsFiniteSet(Pairs) /\ IsFiniteSet(Shorts) /\ Pairs \cup Shorts \subseteq Assets
  /\ Worth \subseteq Nat /\ Losses \subseteq Nat /\ Absent \notin Holdings

ASSUME PairAssumption == PairConstants

Values == Worth \cup {-x : x \in Losses}
Wallets == {"spot", "perp"}
Idents == ({"BASIS"} \X Pairs) \cup ({"SHORT"} \X Shorts)
Kind(i) == i[1]
Asset(i) == i[2]
Legs(i) == IF Kind(i) = "BASIS" THEN Wallets ELSE {"perp"}

VARIABLES
  round, venue,
  cash, debt,        \* by wallet
  waiting, positions,  \* by ident, or Absent
  days,              \* the day each asset was last entered
  rates,             \* hours whose rate is kept in the state
  books, feed,       \* of the collector: time of each book, last funding answer
  published,         \* settlements the exchange has published
  last               \* history: the trade closed last
pvars == <<round, venue, cash, debt, waiting, positions, days, rates, books, feed, published, last>>

PInit == /\ round = Start /\ venue \in Venues
         /\ cash = [w \in Wallets |-> CASH] /\ debt = [w \in Wallets |-> 0]
         /\ waiting = [i \in Idents |-> Absent] /\ positions = waiting
         /\ days = [a \in Assets |-> Absent] /\ rates = {} /\ books = [w \in Wallets |-> 0]
         /\ feed = Absent /\ published = {} /\ last = Absent

\* The part of the state that a tick changes and commits.
State == [cash |-> cash, debt |-> debt, pending |-> waiting, positions |-> positions,
          days |-> days, rates |-> rates, last |-> last]
Present(f) == {i \in Idents : f[i] # Absent}
Active(s) == Present(s.pending) \cup Present(s.positions)

-----------------------------------------------------------------------------
(* The public feeds                                                         *)

Hour(t) == t \div PERIOD
Hours == {Hour(t) : t \in Times}
Settlements == {t \in Times : t > 0 /\ t % PERIOD = 0}
NextAfter(t) == (Hour(t) + 1) * PERIOD

\* premiumIndex and fundingRate are two requests: at a settlement the first may
\* answer before it and the second after it, and the history may come late.
\* Kraken tells the rate of this hour; the earlier ones are asked only once.
Fetched(seen) ==
  IF venue = "binance"
    THEN {[ts |-> round, next |-> n, known |-> seen] :
             n \in {NextAfter(round)} \cup ({round} \cap Settlements)}
  ELSE {[ts |-> round, next |-> NextAfter(round),
         known |-> IF feed = Absent THEN 0 .. Hour(round) ELSE feed.known \cup {Hour(round)}]}

Valid(b, w) == round - b[w] <= FRESH
AfterOf(b, i, t) == \A w \in Legs(i) : b[w] > t

-----------------------------------------------------------------------------
(* Funding: each settlement, or each part of an hour, once                  *)

\* Seeded fault: an expected settlement that is not published yet is not
\* waited for.
NotAwaited(p, f) == FALSE
Awaited(p, f) == round >= p.next /\ ~\E e \in f.known : e >= p.next

\* A settlement after the one that is waited for is due as well: that it is
\* published is not asked.
Overrun(p) == venue = "binance" /\ \E e \in Settlements : p.next < e /\ p.cursor < e /\ e <= round

Due(p, f) == IF venue = "binance" THEN {e \in f.known : p.cursor < e /\ e <= round}
             ELSE p.cursor .. round - 1
Settled(p, f, kept) ==
  /\ round - f.ts < FEED
  /\ IF venue = "binance" THEN ~Awaited(p, f) ELSE \A t \in Due(p, f) : Hour(t) \in kept

Funded(s, i, fs) ==
  LET p == s.positions[i]
      f == CHOOSE f \in fs : TRUE
      kept == IF fs # {} /\ venue = "kraken" /\ round - f.ts < FEED THEN s.rates \cup f.known ELSE s.rates
      fine == fs # {} /\ Settled(p, f, kept)
  IN [s EXCEPT !.rates = kept,
       !.positions[i] = IF fine
         THEN [p EXCEPT !.paid = [t \in Times |-> @[t] + IF t \in Due(p, f) THEN 1 ELSE 0],
                        !.behind = @ \/ Overrun(p), !.cursor = round, !.next = f.next, !.settled = TRUE]
         ELSE [p EXCEPT !.settled = FALSE]]

-----------------------------------------------------------------------------
(* exits(): the intent is kept first and filled from a later observation     *)

Intent(s, i) == [s EXCEPT !.positions[i].exit = IF @ = Absent THEN round ELSE @]

\* Losses beyond the margin become a debt, never negative cash.
Unwound(s, i, value) ==
  [s EXCEPT !.cash = [w \in Wallets |-> @[w] + IF w \in Legs(i) THEN Max({0, value[w]}) ELSE 0],
            !.debt = [w \in Wallets |-> @[w] + IF w \in Legs(i) THEN Max({0, -value[w]}) ELSE 0],
            !.last = [ident |-> i, entered |-> s.positions[i].entered, at |-> round,
                      behind |-> s.positions[i].behind, paid |-> s.positions[i].paid,
                      exit |-> s.positions[i].exit],
            !.positions[i] = Absent]

Exited(s, b, i, fs) ==
  LET t == Funded(s, i, fs)
      p == t.positions[i]
  IN {t} \cup (IF \A w \in Legs(i) : Valid(b, w) THEN {Intent(t, i)} ELSE {})
         \cup (IF /\ p.exit # Absent /\ p.settled
                  /\ \A w \in Legs(i) : Valid(b, w) /\ b[w] > p.exit
                 THEN {Unwound(t, i, v) : v \in [Legs(i) -> Values]} ELSE {})

-----------------------------------------------------------------------------
(* enter_pending(): on books later than the decision, within what the other  *)
(* reservations leave                                                        *)

Claims(s, w) == [j \in Idents |-> IF s.pending[j] # Absent /\ w \in Legs(j) THEN s.pending[j].reserves[w] ELSE 0]
ReservedBy(s, w, others) == SumFunctionOnSet(Claims(s, w), others)

\* Seeded fault: a purchase may spend what other signals have reserved.
OwnOnly(s, i, w) == s.cash[w]
Free(s, i, w) == s.cash[w] - ReservedBy(s, w, Idents \ {i})

Total(f) == MapThenSumSet(LAMBDA w : f[w], DOMAIN f)

\* The size is what a slot affords at the quoted prices; the fill may cost a
\* little more, within the slot.
Quoted(i) == [w \in Legs(i) |-> SLOT \div Cardinality(Legs(i))]
Costs(i) == {c \in [Legs(i) -> 1 .. SLOT] : Total(c) <= SLOT /\ \A w \in Legs(i) : c[w] - Quoted(i)[w] \in {0, 1}}

Dropped(s, i) == [s EXCEPT !.pending[i] = Absent]
Opened(s, i, cost, next) ==
  [s EXCEPT !.pending[i] = Absent, !.days[Asset(i)] = round \div DAY,
            !.cash = [w \in Wallets |-> @[w] - IF w \in Legs(i) THEN cost[w] ELSE 0],
            !.positions[i] = [entered |-> round, cursor |-> round, next |-> next, settled |-> TRUE,
                              behind |-> FALSE, exit |-> Absent, paid |-> [t \in Times |-> 0]]]

Entered(s, b, i, fs) ==
  LET p == s.pending[i]
      due == /\ round > p.decided
             /\ \A w \in Legs(i) : Valid(b, w) /\ b[w] > p.decided
             /\ \E f \in fs : round - f.ts <= FEED
  IN IF round > p.decided + EXPIRES THEN {Dropped(s, i)}
     ELSE {s, Dropped(s, i)}        \* waits, or is refused by the market, the day or the price
            \cup (IF ~due THEN {}
                  ELSE {Opened(s, i, c, f.next) :
                          c \in {c \in Costs(i) : \A w \in Legs(i) : c[w] <= Free(s, i, w)},
                          f \in fs})

-----------------------------------------------------------------------------
(* scan() and reserve()                                                     *)

Reservable(s, i) ==
  /\ i \notin Active(s)
  /\ Cardinality(Active(s)) < MAX_POSITIONS
  /\ s.days[Asset(i)] # round \div DAY
  /\ \A j \in Active(s) : Asset(j) # Asset(i)
  /\ \A w \in Wallets : s.debt[w] = 0
  /\ Kind(i) = "SHORT" => Cardinality({j \in Active(s) : Kind(j) = "SHORT"}) < MAX_SHORTS

ReservedFor(s, b, i) ==
  IF /\ Reservable(s, i)
     /\ \A w \in Legs(i) : Valid(b, w) /\ s.cash[w] - ReservedBy(s, w, Idents) >= Quoted(i)[w]
    THEN {[s EXCEPT !.pending[i] = [decided |-> round, reserves |-> Quoted(i)]]}
    ELSE {}

\* Candidates in any order: the best comes first.
AnyOf(s, b) == UNION {ReservedFor(s, b, i) : i \in Idents}
Scanned(s, b) == {s} \cup AnyOf(s, b) \cup UNION {AnyOf(t, b) : t \in AnyOf(s, b)}

-----------------------------------------------------------------------------
\* Of each state that the idents before it lead to, in any order.
Stage(name, b, fs, i, states) ==
  UNION {IF name = "exit" THEN Exited(t, b, i, fs) ELSE Entered(t, b, i, fs) : t \in states}

Each(name, b, fs, ids, s) == FoldSet(LAMBDA i, states : Stage(name, b, fs, i, states), {s}, ids)

Ticked(b, fs) ==
  UNION {UNION {Scanned(u, b) : u \in Each("enter", b, fs, Present(t.pending), t)} :
           t \in Each("exit", b, fs, Present(positions), State)}

\* poll() and tick().  A tick that raises is undone and leaves what was read.
Round ==
  /\ round < Until /\ round' = round + 1
  /\ \E fresh \in SUBSET Wallets, late \in SUBSET {s \in Settlements : s <= round} :
       /\ published' = IF venue = "binance" THEN published \cup late ELSE published
       /\ books' = [w \in Wallets |-> IF w \in fresh THEN round ELSE books[w]]
       /\ \E f \in {feed} \cup Fetched(published') :
            /\ feed' = f
            /\ \E s \in {State} \cup Ticked(books', {f} \ {Absent}) :
                 /\ cash' = s.cash /\ debt' = s.debt /\ waiting' = s.pending
                 /\ positions' = s.positions /\ days' = s.days
                 /\ rates' = s.rates /\ last' = s.last
  /\ UNCHANGED venue

\* The process starts again: what was pending is forgotten.
Reopen == /\ waiting' = [i \in Idents |-> Absent] /\ feed' = Absent
           /\ books' = [w \in Wallets |-> 0]
           /\ UNCHANGED <<round, venue, cash, debt, positions, days, rates, published, last>>

PNext == Round \/ Reopen
PSpec == PInit /\ [][PNext]_pvars

-----------------------------------------------------------------------------
\* What a position that is held between two times is charged at a time.
Owed(v, from, to, u) ==
  IF IF v = "binance" THEN u \in Settlements /\ from < u /\ u <= to ELSE from <= u /\ u < to
    THEN 1 ELSE 0

\* A trade was charged every settlement, or every part of an hour, of the time
\* it was held, once: answers that are late, repeated or stale, and restarts,
\* neither lose nor repeat one.  Only when the feeds were away until a further
\* settlement was due may that one be lost, never charged twice: its rate is not
\* waited for.  The trade was closed on books seen after the decision to close
\* (magi2/fast_models/derivatives.py:88 and :270).
FundingIsExact ==
  \A t \in {last} \ {Absent} :
    /\ \A u \in Times :
         t.paid[u] <= Owed(venue, t.entered, t.at, u) /\ (t.behind \/ t.paid[u] = Owed(venue, t.entered, t.at, u))
    /\ t.behind => venue = "binance" /\ \E e, g \in Settlements : t.entered - FEED <= e /\ e < g /\ g <= t.at
    /\ t.entered <= t.exit /\ t.exit < t.at

\* Each wallet alone covers what is reserved on it, whatever was filled, closed
\* or lost since; and an asset is not entered again on the day of its last
\* entry (magi2/fast_models/derivatives.py:80, :132 and :207).
WalletsCoverReserves ==
  /\ \A w \in Wallets : cash[w] >= ReservedBy(State, w, Idents)
  /\ \A t \in {last} \ {Absent}, i \in Present(positions) :
       Asset(i) = Asset(t.ident) => positions[i].entered \div DAY # t.entered \div DAY

\* What a pair is charged, and what it may spend (FundingIsExact,
\* WalletsCoverReserves: magi2/fast_models/derivatives.py:88 and :207).
PairsAreSound == FundingIsExact /\ WalletsCoverReserves
=============================================================================
