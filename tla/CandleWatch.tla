----------------------------- MODULE CandleWatch -----------------------------
(***************************************************************************)
(* The five-minute candles of the two accounts that trade on closed bars:  *)
(* BollingerPaper (magi1/bollinger_paper.py) and BearPaper                 *)
(* (magi2/fast_models/bear.py).  History comes from REST, new bars from    *)
(* the feed; only a bar that was observed from its start to its end may    *)
(* lead to a signal.  One market; it trades in every bar unless the bar is *)
(* quiet.                                                                  *)
(*                                                                         *)
(* A bar has FIVE units of time; one unit is the SETTLE of late trades,    *)
(* also the age of a trade and the longest delay of an assessment.  Bars   *)
(* are named by their start.  Indicators are whatever they may be.         *)
(***************************************************************************)
EXTENDS Integers, FiniteSets, FiniteSetsExt

CONSTANTS
  Kinds,         \* "BOLLINGER", "BEAR"
  HISTORY,       \* bars an indicator needs
  WatchBars,     \* watch_bars of BOLLINGER
  WatchScopes,   \* how far an instance runs, which bars are without a trade
  Bars0,         \* bars of the history at the start of the account
  MaxBreaks,
  NoCandle

ASSUME WatchAssumption ==
  /\ Kinds \subseteq {"BOLLINGER", "BEAR"} /\ HISTORY \in Nat \ {0} /\ WatchBars \in Nat \ {0}
  /\ \A s \in WatchScopes : s.until \in Nat
  /\ MaxBreaks \in Nat /\ Bars0 \subseteq Nat /\ NoCandle \notin Int

FIVE == 3

VARIABLES
  kind, reach, time, polled,
  storedBars, noTrade,       \* stored bars; bars known to be empty
  live, activeSince, ready,  \* bars being built; active_since; ready_since
  loaded, needs, audited, watch,
  processed,                 \* last_processed, also last_cycle
  fetch,                     \* the REST worker: NoCandle, or what it set out to do
  order,                     \* "flat", "pending", "held"
  leaving, lastExit, bearish,
  brokeAt,                   \* history: when the candles were last invalidated
  signalled,                 \* history: the signal of the last step
  ruptures

candleFeed == <<live, activeSince, ready, loaded, needs, watch>>
account == <<order, leaving, lastExit>>
watchvars == <<kind, reach, time, polled, storedBars, noTrade, candleFeed, audited,
               processed, fetch, account, bearish, brokeAt, signalled, ruptures>>

Bar(t) == (t \div FIVE) * FIVE
NextBar(t) == Bar(t + FIVE - 1)
BarsOf(a, b) == {t \in a .. b : t % FIVE = 0}
Window(bar) == BarsOf(bar - (HISTORY - 1) * FIVE, bar)

\* features() needs an unbroken sequence that ends with the bar.
Complete(bars, bar) == Window(bar) \subseteq bars

\* What the indicators of a bar may say of it: that it qualifies for an entry,
\* that it arms a watch, that it ends a position.
Indicators == [enters : BOOLEAN, arms : BOOLEAN, ends : BOOLEAN]

Missing(bars, bar) == Window(bar) \ bars

WatchInit ==
  /\ kind \in Kinds /\ reach \in WatchScopes /\ time = FIVE * HISTORY /\ polled = time
  /\ storedBars = Bars0 /\ noTrade = {}
  /\ live = {} /\ activeSince = NoCandle /\ ready = NoCandle /\ loaded = FALSE /\ needs = FALSE
  /\ audited = FALSE /\ watch = NoCandle /\ processed = -1 /\ fetch = NoCandle
  /\ order = "flat" /\ leaving = FALSE /\ lastExit = 0 /\ bearish = TRUE
  /\ brokeAt = time /\ signalled = NoCandle /\ ruptures = 0

Pass ==
  /\ time < reach.until /\ time' = time + 1 /\ signalled' = NoCandle
  /\ UNCHANGED <<kind, reach, polled, storedBars, noTrade, candleFeed, audited,
                 processed, fetch, account, bearish, brokeAt, ruptures>>

\* invalidate_candles(): the next bar is the first that can be whole.
Invalidated ==
  /\ live' = {} /\ activeSince' = NextBar(time) /\ ready' = NoCandle
  /\ loaded' = FALSE /\ needs' = TRUE /\ watch' = NoCandle /\ brokeAt' = time

\* The gap of the account itself: no order survives it, a position is sold.
AccountGap ==
  /\ order' = IF order = "pending" THEN "flat" ELSE order
  /\ leaving' = (order = "held")
  /\ UNCHANGED lastExit

CandlesConnected ==
  /\ activeSince = NoCandle /\ signalled' = NoCandle /\ Invalidated
  /\ UNCHANGED <<kind, reach, time, polled, storedBars, noTrade, audited, processed,
                 fetch, account, bearish, ruptures>>

\* gap(), a stale or an invalid message, a reconnection.
Break ==
  /\ activeSince # NoCandle /\ ruptures < MaxBreaks /\ ruptures' = ruptures + 1
  /\ Invalidated /\ AccountGap /\ signalled' = NoCandle
  /\ UNCHANGED <<kind, reach, time, polled, storedBars, noTrade, audited, processed,
                 fetch, bearish>>

\* candle_trade(): trades of a bar that was not whole, or is closed already,
\* are left to REST.
CandleTrade ==
  \E stamp \in {time - 1, time} :
    /\ activeSince # NoCandle /\ Bar(stamp) >= activeSince /\ Bar(stamp) > processed
    /\ Bar(stamp) \notin reach.quiet \cup live
    /\ live' = live \cup {Bar(stamp)} /\ signalled' = NoCandle
    /\ UNCHANGED <<kind, reach, time, polled, storedBars, noTrade, activeSince, ready,
                   loaded, needs, audited, watch, processed, fetch, account, bearish,
                   brokeAt, ruptures>>

-----------------------------------------------------------------------------
(* tick(): the bar that ended SETTLE ago is stored and assessed            *)

DueBar == Bar(time - 1) - FIVE

Watching(bar) ==
  /\ watch # NoCandle
  /\ IF kind = "BEAR" THEN bar = watch + FIVE ELSE bar - watch \in 1 .. WatchBars * FIVE

\* Seeded fault: a squeeze seen while the last position was still held counts.
RearmedAnytime(bar, f) ==
  IF f.arms THEN bar ELSE IF Watching(bar) THEN watch ELSE NoCandle

\* The whole squeeze candle has to start after the last exit; a BEAR watch is
\* confirmed by the very next bar or dropped.
Rearmed(bar, f) ==
  IF kind = "BEAR" THEN (IF bearish /\ f.arms THEN bar ELSE NoCandle)
  ELSE IF f.arms /\ bar >= lastExit THEN bar
  ELSE IF Watching(bar) THEN watch ELSE NoCandle

\* assess() of a bar whose window is complete.
Assessed(bar) ==
  \E f \in Indicators :
    IF order = "held"
      THEN /\ watch' = (IF kind = "BEAR" THEN watch ELSE NoCandle)
           /\ leaving' = (leaving \/ f.ends) /\ signalled' = NoCandle
           /\ UNCHANGED <<order, needs>>
      ELSE LET enters == f.enters /\ Watching(bar) /\ order = "flat" /\ (kind = "BEAR" => bearish)
           IN /\ watch' = IF order = "pending" /\ ~(kind = "BEAR") THEN watch
                          ELSE IF enters THEN NoCandle ELSE Rearmed(bar, f)
              /\ order' = IF enters THEN "pending" ELSE order
              /\ signalled' = IF enters THEN [bar |-> bar, armed |-> watch, at |-> time] ELSE NoCandle
              /\ UNCHANGED <<leaving, needs>>

\* Seeded fault: one empty bar explains the others that are missing.
SomeEmpty(bars, empty, bar) == Missing(bars, bar) \cap empty # {}

AllEmpty(bars, empty, bar) == Missing(bars, bar) \subseteq empty

\* incomplete(): what is missing and not known to be empty is asked for.
Incomplete(bars, empty, bar) ==
  /\ watch' = NoCandle /\ signalled' = NoCandle
  /\ needs' = (needs \/ ~AllEmpty(bars, empty, bar))
  /\ UNCHANGED <<order, leaving>>

Retained(bars) == bars \cap BarsOf(time - (HISTORY + 2) * FIVE, time)

\* One call of advance(): a stall of the process is a gap of every market and
\* leaves no bar to close; otherwise the bar that is due is closed.
Poll ==
  /\ polled < time /\ polled' = time
  /\ IF time - polled > 1 /\ activeSince # NoCandle
       THEN /\ Invalidated /\ AccountGap /\ signalled' = NoCandle
            /\ processed' = IF DueBar > processed THEN DueBar ELSE processed
            /\ UNCHANGED storedBars
     ELSE IF DueBar <= processed \/ activeSince = NoCandle
       THEN signalled' = NoCandle /\ UNCHANGED <<storedBars, candleFeed, processed,
                                                 account, brokeAt>>
     ELSE /\ processed' = DueBar
          /\ IF DueBar \in live
               THEN /\ storedBars' = Retained(storedBars \cup {DueBar})
                    /\ IF ~loaded \/ ready >= DueBar + FIVE \/ time - (DueBar + FIVE) > 1
                         THEN signalled' = NoCandle /\ UNCHANGED <<watch, order,
                                                                   leaving, needs>>
                       ELSE IF Complete(storedBars', DueBar) THEN Assessed(DueBar)
                       ELSE Incomplete(storedBars', noTrade, DueBar)
             ELSE IF DueBar >= activeSince
               THEN UNCHANGED storedBars /\ Incomplete(storedBars, noTrade, DueBar)
             ELSE signalled' = NoCandle /\ UNCHANGED <<storedBars, watch, order,
                                                       leaving, needs>>
          /\ live' = {b \in live : b > DueBar}
          /\ UNCHANGED <<activeSince, ready, loaded, lastExit, brokeAt>>
  /\ UNCHANGED <<kind, reach, time, noTrade, audited, fetch, bearish, ruptures>>

-----------------------------------------------------------------------------
(* warm_history(): a request in a thread, applied when it is back          *)

\* After the partial bar of the break has closed; the whole window once, then
\* from the oldest hole.
Ask ==
  /\ needs /\ fetch = NoCandle /\ time >= activeSince + 1
  /\ LET cutoff == Bar(time)
         unknown == Missing(storedBars, cutoff - FIVE) \ noTrade
         floor == IF ~audited THEN cutoff - HISTORY * FIVE
                  ELSE IF unknown = {} THEN cutoff - FIVE ELSE Min(unknown)
     IN fetch' = [generation |-> activeSince, cutoff |-> cutoff, floor |-> floor]
  /\ signalled' = NoCandle
  /\ UNCHANGED <<kind, reach, time, polled, storedBars, noTrade, candleFeed, audited,
                 processed, account, bearish, brokeAt, ruptures>>

\* The feed was not interrupted since the request.
SameGeneration == fetch # NoCandle /\ activeSince = fetch.generation

\* seed(): never arms a watch, never decides.
HistoryAnswer ==
  /\ SameGeneration
  /\ LET span == BarsOf(fetch.floor, fetch.cutoff - FIVE)
         bars == Retained(storedBars \cup (span \ reach.quiet))
         empty == (noTrade \cup (span \cap reach.quiet)) \ bars
         unknown == Missing(bars, fetch.cutoff - FIVE) \ empty
     IN /\ storedBars' = bars /\ noTrade' = empty
        /\ needs' = (unknown # {})
  /\ loaded' = TRUE /\ watch' = NoCandle /\ ready' = time /\ audited' = TRUE
  /\ fetch' = NoCandle /\ signalled' = NoCandle
  /\ UNCHANGED <<kind, reach, time, polled, live, activeSince, processed, account,
                 bearish, brokeAt, ruptures>>

\* An error, or an answer to an older generation: asked for again later.
AnswerDropped ==
  /\ fetch # NoCandle /\ fetch' = NoCandle /\ signalled' = NoCandle
  /\ UNCHANGED <<kind, reach, time, polled, storedBars, noTrade, candleFeed, audited,
                 processed, account, bearish, brokeAt, ruptures>>

-----------------------------------------------------------------------------
(* The account, and the process                                            *)

Still == UNCHANGED <<kind, reach, time, polled, storedBars, noTrade, live, activeSince,
                     ready, loaded, needs, audited, processed, fetch, brokeAt,
                     ruptures>>

BuyOrDrop ==
  /\ order = "pending" /\ order' \in {"held", "flat"}
  /\ order' = "held" => kind = "BOLLINGER" \/ bearish
  /\ signalled' = NoCandle /\ UNCHANGED <<leaving, lastExit, bearish, watch>> /\ Still

\* Protection, time limits and gaps ask for an exit at any time.
Protect ==
  /\ order = "held" /\ ~leaving /\ leaving' = TRUE
  /\ signalled' = NoCandle /\ UNCHANGED <<order, lastExit, bearish, watch>> /\ Still

Sell ==
  /\ order = "held" /\ leaving
  /\ order' = "flat" /\ leaving' = FALSE /\ lastExit' = time /\ watch' = NoCandle
  /\ signalled' = NoCandle /\ UNCHANGED bearish /\ Still

Regime ==
  /\ kind = "BEAR" /\ bearish' = ~bearish /\ signalled' = NoCandle
  /\ UNCHANGED <<account, watch>> /\ Still

\* Stored bars and the account survive; the pending order and the position
\* are gaps of the new process.
ProcessRestarts ==
  /\ ruptures < MaxBreaks /\ ruptures' = ruptures + 1
  /\ live' = {} /\ activeSince' = NoCandle /\ ready' = NoCandle /\ loaded' = FALSE /\ needs' = FALSE
  /\ watch' = NoCandle /\ fetch' = NoCandle /\ audited' = FALSE /\ noTrade' = {}
  /\ processed' = -1 /\ polled' = time /\ brokeAt' = time /\ signalled' = NoCandle
  /\ AccountGap
  /\ UNCHANGED <<kind, reach, time, storedBars, bearish>>

WatchNext ==
  \/ Pass \/ CandlesConnected \/ Break \/ CandleTrade \/ Poll
  \/ Ask \/ HistoryAnswer \/ AnswerDropped
  \/ BuyOrDrop \/ Protect \/ Sell \/ Regime \/ ProcessRestarts

WatchSpec == WatchInit /\ [][WatchNext]_watchvars

-----------------------------------------------------------------------------

\* A signal rests on two bars that were observed whole since the last break of
\* the candles, of which the first began after the last exit (BOLLINGER) or
\* came right before the second (BEAR), on a complete window, and at once
\* (magi1/bollinger_paper.py:203, :235 and :265).
SignalsRestOnWholeBars ==
  signalled # NoCandle =>
    /\ brokeAt <= signalled.armed /\ signalled.armed < signalled.bar
    /\ kind = "BOLLINGER" => signalled.armed >= lastExit
    /\ kind = "BEAR" => signalled.bar = signalled.armed + FIVE
    /\ Complete(storedBars, signalled.bar)
    /\ signalled.at - (signalled.bar + FIVE) \in 0 .. 1

\* No hole stays silent beyond the next bar: once a bar was closed after the
\* history was loaded, every bar of its window is there, known to be empty, or
\* asked for (magi1/bollinger_paper.py:162, :190 and :332).
HolesAreAsked ==
  loaded /\ ~needs /\ fetch = NoCandle /\ processed >= activeSince /\ ready < processed + FIVE =>
    Missing(storedBars, processed) \subseteq noTrade

\* Candle signals rest on whole bars, and no hole in them stays silent.
SignalsAreWhole == SignalsRestOnWholeBars /\ HolesAreAsked
=============================================================================
