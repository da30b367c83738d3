---------------------------- MODULE CandleRepair ----------------------------
(* The five-minute history of one market in the database of the FAST         *)
(* observer: live sums written when a bar closes (magi1/fast_observe.py),    *)
(* native candles that a REST repair fetches page by page beside it          *)
(* (magi1/fast_repair.py, magi1/fast_bootstrap.py), the packed store of the  *)
(* days (magi1/fast_candle_store.py) and the retention of all three.         *)
(*                                                                           *)
(* Time is counted in bars.  A value is kept as where it came from: "native" *)
(* (archive or REST), "quiet" (a zero that a page proved) or "live".         *)
EXTENDS Integers, FiniteSets, FiniteSetsExt

CONSTANTS
  DayBars, DAYS,   \* bars of a day, days of history (288 and 10)
  PAGE, MaxPages,  \* candles of a page (200), pages of a repair (32)
  BATCH,           \* rows moved by one compaction (4096)
  Until,           \* bound on time
  Listings, Quiet, \* when the market may be listed; the bars that may be quiet
  NoBar

ASSUME RepairAssumption ==
  /\ DayBars \in Nat \ {0} /\ DAYS \in Nat \ {0}
  /\ PAGE \in Nat \ {0} /\ MaxPages \in Nat \ {0} /\ BATCH \in Nat \ {0}
  /\ Until \in Nat /\ Until > DAYS * DayBars /\ Listings \subseteq Nat
  /\ NoBar \notin {"native", "quiet", "live"}

Bars == 0 .. Until
Oldest(cutoff) == cutoff - 1 - DAYS * DayBars     \* bounds()[0]
Begins == 1 + DAYS * DayBars                      \* the first cutoff with a full window

VARIABLES
  traded,          \* bars in which the exchange has trades
  present, reached, \* the clock, and how far the observer is
  base, packed,    \* tables baseline and turnover_days
  recent5m,        \* table recent5m, of the last day
  repair,          \* of the repair: step, cutoff, missing bars, pages
  verdict,         \* its word on the market: [word, cutoff]
  once             \* history: bars that had a value
repairvars == <<traded, present, reached, base, packed, recent5m, repair, verdict, once>>
tables == <<base, packed, recent5m>>

Kept(f) == {b \in Bars : f[b] # NoBar}
Blank == [b \in Bars |-> NoBar]
Recorded == Kept(base) \cup Kept(packed)
Idle == [step |-> "idle", cutoff |-> 0, missing |-> {}, pages |-> 0]

\* An archive of native candles imported before the observer starts: what it
\* lacks stays unknown.
RepairInit ==
  /\ \E from \in Listings, quiet \in Quiet : traded = (from .. Until) \ quiet
  /\ present = Begins /\ reached = present
  /\ \E until \in {0, Begins - 1} :
       base = [b \in Bars |-> IF b \in traded /\ b < until THEN "native" ELSE NoBar]
  /\ recent5m = [b \in Bars |-> IF b >= present - DayBars THEN base[b] ELSE NoBar]
  /\ packed = Blank /\ repair = Idle /\ once = Kept(base)
  /\ verdict = [word |-> "UNKNOWN", cutoff |-> 0]

-----------------------------------------------------------------------------
(* Writing: each operator gives the tables [base, packed, recent] after it  *)

Tables == [base |-> base, packed |-> packed, recent |-> recent5m]

\* Seeded fault: the oldest reference of the bar just closed is dropped with
\* the day before it.
FloorOfTheDay(cutoff) == cutoff - DAYS * DayBars
Floor(cutoff) == Oldest(cutoff)

Pruned(d, end) ==
  [d EXCEPT !.base = [b \in Bars |-> IF b < Floor(end) THEN NoBar ELSE @[b]],
            !.recent = [b \in Bars |-> IF b < end - DayBars THEN NoBar ELSE @[b]]]

\* The oldest rows move to the blob of their day, and replace what it had;
\* whole days expire.
Packed(d, cutoff) ==
  LET rows == Kept(d.base)
      batch == {b \in rows : Cardinality({o \in rows : o < b}) < BATCH}
      floor == (Oldest(cutoff) \div DayBars) * DayBars
  IN [d EXCEPT !.base = [b \in Bars |-> IF b \in batch THEN NoBar ELSE @[b]],
               !.packed = [b \in Bars |-> IF b < floor THEN NoBar
                                          ELSE IF b \in batch THEN d.base[b] ELSE @[b]]]

\* A proved value is never replaced by a sum of received trades.
Unwritten(d, b) == d.base[b] = NoBar /\ d.packed[b] = NoBar

Live(d, b) ==
  [d EXCEPT !.base = IF Unwritten(d, b) THEN [@ EXCEPT ![b] = "live"] ELSE @,
            !.recent = IF @[b] = NoBar THEN [@ EXCEPT ![b] = "live"] ELSE @]

\* The observer closes a bar; whole tells whether it saw all of it.
Evaluated(d, whole) ==
  LET e == IF whole THEN Live(d, present - 1) ELSE d
  IN Packed(Pruned(e, present), present)

\* advance() of the observer.  A process that stalled decides nothing of what
\* it missed.
Advanced(d) ==
  IF reached = present THEN {d}
  ELSE {d} \cup (IF present = reached + 1 THEN {Evaluated(d, whole) : whole \in BOOLEAN} ELSE {})

Write(d) == /\ base' = d.base /\ packed' = d.packed /\ recent5m' = d.recent
            /\ once' = once \cup Kept(d.base)

BarPasses ==
  /\ present < Until /\ present' = present + 1 /\ present - reached < 2
  /\ UNCHANGED <<traded, reached, tables, repair, verdict, once>>

ObserverAdvances ==
  /\ reached < present /\ reached' = present
  /\ \E d \in Advanced(Tables) : Write(d)
  /\ UNCHANGED <<traded, present, repair, verdict>>

-----------------------------------------------------------------------------
(* The repair: only the request leaves the thread of the observer           *)

Span(cutoff) == Oldest(cutoff) .. cutoff - 1
Detailed(cutoff) == cutoff - DayBars .. cutoff - 1

\* Seeded fault: what a live sum filled needs no candle.
HolesOnly(cutoff) == (Span(cutoff) \ Recorded) \cup (Detailed(cutoff) \ Kept(recent5m))
MissingPlan(cutoff) ==
  {b \in Span(cutoff) : b \notin Recorded \/ recent5m[b] = "live"}
    \cup (Detailed(cutoff) \ Kept(recent5m))

BeginRepair ==
  /\ repair.step = "idle"
  /\ LET missing == MissingPlan(present)
     IN IF missing = {}
          THEN verdict' = [word |-> "COMPLETE", cutoff |-> present] /\ UNCHANGED repair
          ELSE /\ repair' = [step |-> "fetch", cutoff |-> present, missing |-> missing, pages |-> 0]
               /\ verdict' = [word |-> "REPAIRING", cutoff |-> present]
  /\ UNCHANGED <<traded, present, reached, tables, once>>

Cursor == Max(repair.missing) + 1

\* The last candles before the cursor; the exchange has none for a bar without
\* trades, and serves a bar once it is closed.
Page == {b \in traded : b < Cursor /\ Cardinality({o \in traded : b < o /\ o < Cursor}) < PAGE}

\* Seeded fault: silence before the first candle of a page is taken for no trades.
WholeWindow(rows) == Oldest(repair.cutoff)
Lower(rows) == Max({Oldest(repair.cutoff), Min(rows)})

Covered(rows) == repair.missing \cap (Lower(rows) .. Cursor - 1)

PageApplied(d, rows) ==
  LET kind(b) == IF b \in rows THEN "native" ELSE "quiet"
      covered == Covered(rows)
  IN Packed(
       [d EXCEPT !.base = [b \in Bars |-> IF b \in covered THEN kind(b) ELSE @[b]],
                 !.recent = [b \in Bars |-> IF b \in covered /\ b >= repair.cutoff - DayBars
                                              THEN kind(b) ELSE @[b]]],
       repair.cutoff)

Finished(left) ==
  /\ repair' = Idle
  /\ verdict' = [word |-> IF left = {} THEN "COMPLETE" ELSE "INCOMPLETE_HISTORY",
                  cutoff |-> repair.cutoff]

\* The answer: the observer is advanced first, then the page applied to it.
PageAnswer ==
  /\ repair.step = "fetch" /\ Page # {}
  /\ \E d \in Advanced(Tables) : Write(PageApplied(d, Page))
  /\ reached' = present
  /\ LET left == repair.missing \ Covered(Page)
     IN IF left # {} /\ repair.pages + 1 < MaxPages
          THEN repair' = [repair EXCEPT !.missing = left, !.pages = @ + 1] /\ UNCHANGED verdict
          ELSE Finished(left)
  /\ UNCHANGED <<traded, present>>

\* Before its listing a market has no candles: nothing is invented.
Nothing == /\ repair.step = "fetch" /\ Page = {} /\ Finished(repair.missing)
           /\ UNCHANGED <<traded, present, reached, tables, once>>

Fail == /\ repair.step = "fetch" /\ repair' = Idle
        /\ verdict' = [word |-> "RETRY_WAIT", cutoff |-> repair.cutoff]
        /\ UNCHANGED <<traded, present, reached, tables, once>>

RepairNext == BarPasses \/ ObserverAdvances \/ BeginRepair \/ PageAnswer \/ Nothing \/ Fail
RepairSpec == RepairInit /\ [][RepairNext]_repairvars

-----------------------------------------------------------------------------
\* A zero stands only for a bar in which the listed market really had no
\* trades (magi1/fast_bootstrap.py:132).
ZeroIsProved == \A b \in Bars : "quiet" \in {base[b], packed[b], recent5m[b]} =>
                                   b \notin traded /\ \E o \in traded : o < b

\* A bar that had a value keeps one for as long as a decision may refer to it,
\* through compaction and expiry.  A repair that reported the market complete
\* left no hole in it, and no sum of received trades where the exchange has a
\* candle (magi1/fast_reference.py:10, magi1/fast_bootstrap.py:123).
ReferencesAreKept ==
  /\ \A b \in once : b >= Oldest(reached) => b \in Recorded
  /\ verdict.word = "COMPLETE" =>
       /\ \A b \in Span(verdict.cutoff) : b >= Oldest(reached) => b \in Recorded
       /\ \A b \in Detailed(verdict.cutoff) : recent5m[b] # "live"

\* Repairing the history of a market invents no zero and loses no value.
HistoryIsReal == ZeroIsProved /\ ReferencesAreKept
=============================================================================
