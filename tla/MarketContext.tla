--------------------------- MODULE MarketContext ---------------------------
(* The market context MAGI1 publishes every few minutes                      *)
(* (magi1/market_context.py) and MAGI2 shows                                 *)
(* (magi2/market_context_view.py): two venues observed one after the other,  *)
(* a state confirmed by a second observation, a file replaced as a whole.    *)
(* An observation takes time, during which a day may end and the view may    *)
(* look; the process may die and start again at any moment.                  *)
EXTENDS Integers, Sequences, FiniteSets, FiniteSetsExt

CONSTANTS
  Majors, Alts,      \* assets quoted
  ByDay,             \* the venue whose rows name the day they are of
  Directions, Breadths,
  MIN_ALTS,
  NEAR, LIFETIME,    \* the observations a confirmation may join; the life of a context
  EVERY, CalendarDay,
  LastMinute, NoContext

VARIABLES
  minute,
  next,              \* when the next observation is due
  observing,         \* the observation under way
  file,              \* market_context_latest.json
  before             \* history: the context published before it
mvars == <<minute, next, observing, file, before>>

\* What is known of a venue, what an observation has gathered, what was told.
VenueStates == Directions \X (Breadths \cup {"UNAVAILABLE"})
VenueRows == [state : VenueStates, count : Nat, days : SUBSET Int]
Observations == [ts : Nat, rows : Seq(VenueRows \cup {NoContext})]
Publications == [ts : Nat, states : [1 .. 2 -> VenueStates \cup {NoContext}]]

ASSUME ContextAssumption ==
  /\ {NEAR, LIFETIME, EVERY} \subseteq Nat /\ CalendarDay \in Nat \ {0}
  /\ NoContext \notin VenueStates \cup VenueRows /\ NoContext \notin Observations
  /\ NoContext \notin Publications

MInit == minute = 0 /\ next = 0 /\ observing = NoContext /\ file = NoContext /\ before = NoContext

Exchanges == <<"upbit", "binance">>
DayOf(t) == t \div CalendarDay
Basket == Majors \cup Alts

-----------------------------------------------------------------------------
(* One venue                                                                *)

\* Seeded fault: the period a row is of is not compared with today.
UsableAnyDay(v, day, t) == day # NoContext
Usable(v, day, t) == day # NoContext /\ (v = ByDay => day = DayOf(t))

\* classify_venue(): without the majors nothing, with few quotes no breadth.
Wide(valid) == /\ 5 * Cardinality(valid) >= 4 * Cardinality(Basket)
               /\ Cardinality(valid \ Majors) >= MIN_ALTS
Classified(v, days, valid) ==
  IF ~(Majors \subseteq valid) THEN {NoContext}
  ELSE {[state |-> <<d, b>>, count |-> 0,
         days |-> IF v = ByDay THEN {days[a] : a \in valid} ELSE {}] :
          d \in Directions, b \in IF Wide(valid) THEN Breadths ELSE {"UNAVAILABLE"}}

\* series_metrics(): every completed candle of a major is there, once, and none
\* is of the future -- for both, or there is nothing to say of the venue.
WholeSeries(series) == \A a \in Majors : series[a] = "whole"

\* What a venue may answer now to an observation begun at t: for each asset a
\* row of today or of the day before, or none that is usable, and the candles of
\* the majors; or nothing at all.
Answers(v, t) ==
  {NoContext} \cup UNION {IF WholeSeries(series)
                       THEN Classified(v, days, {a \in Basket : Usable(v, days[a], t)}) ELSE {NoContext} :
                       days \in [Basket -> {NoContext, DayOf(minute), DayOf(minute) - 1}],
                       series \in [Majors -> {"whole", "broken"}]}

-----------------------------------------------------------------------------
(* run(): observe, confirm against the file, publish                         *)

Observe == /\ observing = NoContext /\ minute >= next
           /\ observing' = [ts |-> minute, rows |-> <<>>]
           /\ next' = minute + EVERY
           /\ UNCHANGED <<minute, file, before>>

\* The venues are asked in turn.
Ask == /\ observing # NoContext /\ Len(observing.rows) < Len(Exchanges)
       /\ \E row \in Answers(Exchanges[Len(observing.rows) + 1], observing.ts) :
            observing' = [observing EXCEPT !.rows = Append(@, row)]
       /\ UNCHANGED <<minute, next, file, before>>

\* Seeded fault: the last context counts, however old.
JoinedAtAll(previous, t) == previous # NoContext
Joined(previous, t) == previous # NoContext /\ t - previous.ts \in NEAR .. LIFETIME

Streak(w, v) ==
  LET prior == IF Joined(file, w.ts) THEN file.rows[v] ELSE NoContext
  IN IF prior # NoContext /\ prior.state = w.rows[v].state THEN Min({prior.count + 1, 2}) ELSE 1
Confirmed(w) ==
  [v \in DOMAIN w.rows |-> IF w.rows[v] = NoContext THEN NoContext ELSE [w.rows[v] EXCEPT !.count = Streak(w, v)]]

\* What a reader of the file was told of each venue, and when.
Told == IF file = NoContext THEN NoContext
        ELSE [ts |-> file.ts, states |-> [v \in DOMAIN file.rows |->
                IF file.rows[v] = NoContext THEN NoContext ELSE file.rows[v].state]]
Publish == /\ observing # NoContext /\ Len(observing.rows) = Len(Exchanges)
           /\ file' = [ts |-> observing.ts, rows |-> Confirmed(observing)]
           /\ before' = Told /\ observing' = NoContext
           /\ UNCHANGED <<minute, next>>

\* The collection fails, or the process dies and the next one observes at once.
Fail == observing # NoContext /\ observing' = NoContext /\ UNCHANGED <<minute, next, file, before>>
Relaunch == observing' = NoContext /\ next' = minute /\ UNCHANGED <<minute, file, before>>

MinutePasses == minute < LastMinute /\ minute' = minute + 1 /\ UNCHANGED <<next, observing, file, before>>

MNext == Observe \/ Ask \/ Publish \/ Fail \/ Relaunch \/ MinutePasses
MSpec == MInit /\ [][MNext]_mvars

-----------------------------------------------------------------------------
\* validate(): what the view shows at this moment.
OnView == IF /\ file # NoContext /\ file.ts <= minute /\ minute < file.ts + LIFETIME
             /\ DayOf(file.ts) = DayOf(minute)
          THEN file.rows ELSE <<>>

\* A state shown as confirmed was published twice running for that venue, some
\* minutes apart and not long ago: an outage of the venue or of the process, a
\* failed collection or a hasty restart between them starts the count again.
\* The figures of the venue whose rows name their day are all of today, even
\* when the day ended while it was being asked (magi1/market_context.py:127
\* and :216).
ContextIsConfirmed ==
  \A v \in DOMAIN OnView :
    OnView[v] # NoContext =>
      /\ OnView[v].days \subseteq {DayOf(minute)}
      /\ OnView[v].count = 2 =>
           /\ before # NoContext /\ before.states[v] = OnView[v].state
           /\ file.ts - before.ts >= NEAR
           /\ minute - before.ts < 2 * LIFETIME
=============================================================================
