--------------------------- MODULE AccountsReport ---------------------------
(* The report MAGI3 makes of the real accounts (magi3/accounts.py) with the  *)
(* quotes of magi3/market_data.py: venue after venue is asked for its        *)
(* balances and each holding is priced, a foreign one through a rate of      *)
(* exchange of its own age.  Any request may fail, and takes up to LAG; the  *)
(* collection as a whole may take longer than its first answers stay true.   *)
(* Won need no price and are left out.                                       *)
EXTENDS Integers, Sequences, FiniteSets, FiniteSetsExt

CONSTANTS
  Usdt, Usd,         \* the cash that has a rate of exchange
  Holdings,          \* what each venue may hold: coins and cash
  LAG,               \* the longest a request takes
  CACHE,             \* the age up to which a quote is used again
  PRICE_AGE,         \* ... that a price may have
  REPORT,            \* ... that a report allows
  LastReport, NoReport   \* bound; none

VENUES == <<"upbit", "binance", "kraken", "bithumb">>
Home == {"upbit", "bithumb"}   \* they quote in won, the others in dollars

ASSUME AccountsAssumption ==
  /\ {LAG, PRICE_AGE, REPORT, LastReport} \subseteq Nat /\ CACHE \in Nat \ {0}
  /\ Usdt # Usd

VARIABLES
  present,
  cache,             \* the quotes of MarketData, by venue and asset
  row,               \* the venue being collected
  collected,         \* those that are done
  report             \* the last report kept
avars == <<present, cache, row, collected, report>>

AccInit == /\ present = 0 /\ cache = [k \in {} |-> NoReport]
           /\ row = NoReport /\ collected = <<>> /\ report = NoReport

ClockMoves == /\ present < LastReport /\ present' = present + 1
              /\ UNCHANGED <<cache, row, collected, report>>

-----------------------------------------------------------------------------
(* Quotes.  "at" is the time the code stamps on one, "oldest" (history) the  *)
(* time of the oldest answer that it may have been computed from.            *)

\* Seeded fault: a quote once cached is used for ever.
KeptQuotes(key, s) == IF key \in DOMAIN cache THEN {cache[key]} ELSE {}
\* book(): what the cache holds is used again while it is young enough.
Cached(key, s) == {q \in IF key \in DOMAIN cache THEN {cache[key]} ELSE {} : s - q.at < CACHE}

\* An answer that came at this time.
Got(s) == [at |-> s, oldest |-> s - LAG]

\* The times at which a request made on the way may have been answered.
Moments(delay) == {s \in present - delay .. present : \A k \in DOMAIN cache : cache[k].at <= s}

\* currency_rate() looks at the cache at that time, or asks.
Rate == <<"upbit", Usdt>>
Rates(s) == IF Cached(Rate, s) = {} THEN {Got(s)} ELSE Cached(Rate, s)

\* Each outcome of mark() is a price and the quotes that it leaves in the cache.
Outcome(price, keys, q) == [price |-> price, keep |-> [k \in keys |-> IF k = Rate THEN q ELSE price]]

\* Tether, on whatever venue: the rate, stamped now however old it is.
TetherMarks == {Outcome([r EXCEPT !.at = present], {Rate}, r) : r \in Rates(present)}

\* Dollars: the rate, then Kraken's book of tether, whose name may have to be
\* asked for first.
DollarMarks ==
  UNION {{Outcome([at |-> present, oldest |-> Min({r.oldest, present - LAG})], {Rate}, r) : r \in Rates(s)} :
           s \in Moments(2 * LAG)}

\* A coin abroad: its book is asked for, then the rate, at Kraken with the book
\* of tether at last; it is stamped after all of them.
Delay(v) == IF v = "kraken" THEN LAG ELSE 0
ForeignMarks(v, a) ==
  UNION {{Outcome([at |-> present,
                   oldest |-> Min({r.oldest, s - IF Cached(Rate, s) = {} THEN 2 * LAG ELSE LAG})],
                  {<<v, a>>, Rate}, r) : r \in Rates(s)} :
           s \in Moments(Delay(v))}

Marks(v, a) ==
  IF a = Usdt THEN TetherMarks
  ELSE IF a = Usd THEN DollarMarks
  ELSE IF Cached(<<v, a>>, present) # {} THEN {Outcome(q, {}, q) : q \in Cached(<<v, a>>, present)}
  ELSE IF v \in Home THEN {Outcome(Got(present), {<<v, a>>}, Got(present))}
  ELSE ForeignMarks(v, a)

Stored(keep, keys) == [k \in keys \cup DOMAIN cache |-> IF k \in keys THEN keep[k] ELSE cache[k]]

-----------------------------------------------------------------------------
(* collect_accounts(): one thread, in the order of the venues               *)

Venue == VENUES[Len(collected) + 1]

\* The balances are read, or a venue has no key, refuses or answers nonsense.
\* Kraken is asked for the names of its assets before the time is taken.
Queries(v) == IF v = "kraken" THEN 2 ELSE 1
Balances == /\ row = NoReport /\ Len(collected) < Len(VENUES)
            /\ \E held \in SUBSET Holdings[Venue], ok \in BOOLEAN :
                 row' = [observed |-> present, oldest |-> present - Queries(Venue) * LAG,
                         held |-> IF ok THEN held ELSE {},
                         todo |-> IF ok THEN held ELSE {}, prices |-> [a \in {} |-> NoReport],
                         status |-> IF ok THEN "OK" ELSE "UNAVAILABLE"]
            /\ UNCHANGED <<present, cache, collected, report>>

\* The next holding is priced, or left without a price: what was asked for
\* before a failure stays in the cache.
Mark == /\ row # NoReport
        /\ \E a \in row.todo : \E o \in Marks(Venue, a) :
             \/ /\ present - o.price.at <= PRICE_AGE
                /\ cache' = Stored(o.keep, DOMAIN o.keep)
                /\ row' = [row EXCEPT !.todo = @ \ {a},
                             !.prices = [x \in DOMAIN @ \cup {a} |-> IF x = a THEN o.price ELSE @[x]]]
             \/ /\ row' = [row EXCEPT !.todo = @ \ {a}, !.status = "PARTIAL_VALUATION"]
                /\ \E keys \in {{}, DOMAIN o.keep \cap {Rate}, DOMAIN o.keep} : cache' = Stored(o.keep, keys)
        /\ UNCHANGED <<present, collected, report>>

NextVenue == /\ row # NoReport /\ row.todo = {} /\ collected' = Append(collected, row) /\ row' = NoReport
             /\ UNCHANGED <<present, cache, report>>

\* Seeded fault: only the prices are asked for their age.
OutdatedPrices(r, t) == \E a \in DOMAIN r.prices : t - r.prices[a].at > REPORT
Outdated(r, t) == t - r.observed > REPORT \/ \E a \in DOMAIN r.prices : t - r.prices[a].at > REPORT

\* The statuses are settled when all venues are done, and the report is kept.
Finish == /\ row = NoReport /\ Len(collected) = Len(VENUES)
          /\ LET final == [i \in DOMAIN collected |->
                             IF collected[i].status = "OK" /\ Outdated(collected[i], present)
                             THEN [collected[i] EXCEPT !.status = "STALE_VALUATION"] ELSE collected[i]]
                 complete == \A i \in DOMAIN final : final[i].status = "OK"
             IN report' = [at |-> present, complete |-> complete, rows |-> IF complete THEN final ELSE <<>>]
          /\ collected' = <<>>
          /\ UNCHANGED <<present, cache, row>>

AccNext == ClockMoves \/ Balances \/ Mark \/ NextVenue \/ Finish
AccSpec == AccInit /\ [][AccNext]_avars

-----------------------------------------------------------------------------
\* How much older than its stamp a price may be: the time of the requests
\* behind it, and the age of a rate that was used again.
BookBehind(v) == IF v \in Home THEN LAG ELSE LAG + Delay(v) + Max({LAG, CACHE - 1})
Behind(v, a) == IF a = Usdt THEN LAG + CACHE - 1
                ELSE IF a = Usd THEN 3 * LAG + CACHE - 1
                ELSE BookBehind(v)

\* The total that a complete report states is that of every venue and of every
\* holding, and no answer it rests on is older than the report allows, but for
\* the time the requests took and the age of the rate of exchange -- the code
\* stamps a price with the time its book was complete, and cash with the time
\* its rate was looked up (magi3/accounts.py:72 and magi3/market_data.py:102).
TotalIsRecent ==
  report # NoReport /\ report.complete =>
    \A i \in DOMAIN VENUES :
      LET r == report.rows[i]
      IN /\ r.held = DOMAIN r.prices /\ report.at - r.oldest <= REPORT + Queries(VENUES[i]) * LAG
         /\ \A a \in DOMAIN r.prices : report.at - r.prices[a].oldest <= REPORT + Behind(VENUES[i], a)
=============================================================================
