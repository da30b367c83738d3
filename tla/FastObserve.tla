----------------------------- MODULE FastObserve -----------------------------
(***************************************************************************)
(* The FAST observer of MAGI1 (magi1/fast_observe.py): closed windows,     *)
(* captures and their outcomes, breaks in the data, a persistent stop and  *)
(* a named restart, with a process that stalls, dies and is started again. *)
(*                                                                         *)
(* The observer and its paper account commit to databases of their own.    *)
(* Of the account only the stop and the name of the last restart are kept  *)
(* here; FlowPaper has the rest.  The numbers of a window are abstracted   *)
(* to whether the market qualifies.  Messages come from one feed group.    *)
(***************************************************************************)
EXTENDS Integers, FiniteSets, FiniteSetsExt

CONSTANTS
  Symbols,
  TopN,            \* top_n
  TEN,             \* a window, also outcome_grace_ms
  Horizon,         \* horizons_seconds, of which one is kept
  DAY,
  Requests,        \* resume_fast_id
  Scopes,          \* until when, and how many deaths and breaks
  NoWindow

ASSUME ObserverAssumption ==
  /\ IsFiniteSet(Symbols) /\ TopN \in Nat /\ TEN \in Nat \ {0} /\ Horizon \in Nat
  /\ DAY \in Nat \ {0}
  /\ NoWindow \notin [end : Nat, q : BOOLEAN]

Warm == TEN                            \* seven windows in the code
Life == Horizon + TEN                  \* 910 s: how long a capture is tracked

VARIABLES
  scope, now,
  phase,           \* "down", "boot", "idle", "advance", "advanced"
  received, current,
  group,           \* is the feed connected
  since,           \* of each market: max(groups[g], symbol_since[s])
  previous,        \* of each market: [end, q], or NoWindow
  armed,           \* paper_retry_armed
  blocked,         \* repair_blocked
  captures, outcomes, active,
  disk,            \* what of captures, outcomes and meta is committed
  disabled,        \* fast_disabled
  paper,           \* paused and resume_request_id of the account
  boot,            \* what is left to do of a start, and its arguments
  broke,           \* history: when the data of a market last broke
  signal,          \* history: the signals of the last window
  word,            \* history: the last command, "trade", "stopping" (recorded), "stopped"
  deaths, breaks

feed == <<group, since, previous, armed, blocked, broke>>
records == <<captures, outcomes, active, disk>>
control == <<disabled, paper, boot, word>>
ovars == <<scope, now, phase, received, current, feed, records, control, signal, deaths, breaks>>

Cleared(f) == [x \in DOMAIN f |-> NoWindow]

Advancing == phase \in {"advance", "advanced"}

Running == phase = "idle" \/ Advancing

Row(c, status, ts) == [capture |-> c, status |-> status, ts |-> ts]

Settled(c) == \E o \in outcomes : o.capture = c

OInit ==
  /\ scope \in Scopes /\ now = TEN /\ phase = "boot" /\ received = now /\ current = now
  /\ group = FALSE /\ since = [s \in Symbols |-> now]
  /\ previous = [s \in Symbols |-> NoWindow] /\ armed = {} /\ blocked = {}
  /\ captures = {} /\ outcomes = {} /\ active = {}
  /\ disk = [captures |-> {}, outcomes |-> {}, disabled |-> FALSE, consumed |-> "none"]
  /\ disabled = FALSE /\ paper = [paused |-> FALSE, resumed |-> "none"]
  /\ boot = [step |-> "command", arg |-> "none"]
  /\ broke = [s \in Symbols |-> now] /\ signal = {} /\ word = "trade"
  /\ deaths = 0 /\ breaks = 0

TimePasses ==
  /\ now < scope.until /\ now' = now + 1
  /\ ~Advancing
  /\ UNCHANGED <<scope, phase, received, current, feed, records, control, signal, deaths, breaks>>

-----------------------------------------------------------------------------
(* advance(): called five times a second and before every message          *)

\* Seeded fault: the window before a break still counts.
BrokenQuietly(S) ==
  /\ UNCHANGED previous
  /\ broke' = [s \in Symbols |-> IF s \in S THEN now ELSE broke[s]]

Broken(S) ==
  /\ previous' = [s \in Symbols |-> IF s \in S THEN NoWindow ELSE previous[s]]
  /\ broke' = [s \in Symbols |-> IF s \in S THEN now ELSE broke[s]]

\* A stalled process starts over instead of deciding in retrospect.
Advance ==
  /\ phase = "idle" /\ received < now
  /\ received' = now /\ phase' = "advance" /\ signal' = {}
  /\ IF now - current > 2 * TEN
       THEN /\ current' = (now \div TEN) * TEN
            /\ Broken(Symbols) /\ since' = [s \in Symbols |-> now]
            /\ UNCHANGED <<group, armed, blocked>>
       ELSE UNCHANGED <<current, feed>>
  /\ UNCHANGED <<scope, now, records, control, deaths, breaks>>

End == current + TEN

Eligible(s, gate) == group /\ since[s] <= End - Warm /\ s \notin gate

\* A change of the reference gate breaks the sequence of windows.
Earlier(s, gate) == IF (s \in gate) = (s \in blocked) THEN previous[s] ELSE NoWindow

\* Seeded fault: only a capture of this very window counts.
CapturedNow(s) == \E c \in captures : c.symbol = s /\ c.ts = End

Captured(s) == \E c \in captures : c.symbol = s /\ c.day = End \div DAY

\* The window of every connected market is judged; the second qualifying one
\* in a row is a candidate, the best candidates become captures while a track
\* is free, and a market captured earlier that day may be tried again.
Evaluate ==
  /\ Advancing /\ End <= received /\ ~disabled
  /\ \E gate \in SUBSET Symbols, qualifies \in SUBSET Symbols :
     LET candidates == {s \in qualifies : Earlier(s, gate) = [end |-> current, q |-> TRUE]}
         fresh == {s \in candidates : ~Captured(s)}
         free == TopN - Cardinality(active)
     IN /\ \A s \in qualifies : Eligible(s, gate)
        /\ group \/ gate = blocked
        /\ blocked' = gate
        /\ broke' = [s \in Symbols |-> IF (s \in gate) = (s \in blocked) THEN broke[s] ELSE End]
        /\ previous' = [s \in Symbols |-> IF group THEN [end |-> End, q |-> s \in qualifies]
                                                   ELSE previous[s]]
        /\ \E chosen \in SUBSET fresh, retried \in SUBSET ((candidates \ fresh) \cap armed) :
           LET new == {[symbol |-> s, day |-> End \div DAY, ts |-> End] : s \in chosen}
           IN /\ Cardinality(chosen) = (IF Cardinality(fresh) < free THEN Cardinality(fresh) ELSE free)
              /\ paper.paused => retried = {}              \* can_signal
              /\ captures' = captures \cup new /\ active' = active \cup new
              /\ signal' = {[end |-> End, received |-> received, broke |-> broke'[s], since |-> since[s]] :
                              s \in chosen \cup retried}
              /\ armed' = (armed \ (chosen \cup retried)) \cup (IF group THEN Symbols \ qualifies ELSE {})
  /\ current' = End /\ phase' = "advanced"
  /\ UNCHANGED <<scope, now, received, group, since, outcomes, disk, control, deaths, breaks>>

\* A stopped observer still closes its windows, for the exits.
EvaluateStopped ==
  /\ Advancing /\ End <= received /\ disabled
  /\ current' = End /\ phase' = "advanced"
  /\ UNCHANGED <<scope, now, received, feed, records, control, signal, deaths, breaks>>

\* Outcomes that are overdue are missing; old captures are let go.  Windows
\* that were closed are committed with what they brought.
Settle ==
  /\ Advancing /\ End > received /\ phase' = "idle"
  /\ outcomes' = outcomes \cup
       {Row(c, "MISSING", received) : c \in {x \in active : received > x.ts + Life /\ ~Settled(x)}}
  /\ active' = {c \in active : received <= c.ts + Life}
  /\ disk' = IF phase = "advanced"
               THEN [disk EXCEPT !.captures = captures, !.outcomes = outcomes'] ELSE disk
  /\ UNCHANGED <<scope, now, received, current, feed, captures, control, signal, deaths, breaks>>

-----------------------------------------------------------------------------
(* Messages, after advance() at the same instant                           *)

Ready == phase = "idle" /\ received = now

\* A trade in the grace after the horizon gives its price to the outcome.
Trade(s) ==
  /\ Ready /\ group
  /\ outcomes' = outcomes \cup
       {Row(c, "OBSERVED", now) : c \in {x \in active :
          x.symbol = s /\ now \in (x.ts + Horizon) .. (x.ts + Life) /\ ~Settled(x)}}
  /\ outcomes' # outcomes
  /\ UNCHANGED <<scope, now, phase, received, current, feed, captures, active, disk, control, signal, deaths, breaks>>

StaleMessage(s) ==
  /\ Ready /\ group /\ breaks < scope.breaks /\ breaks' = breaks + 1
  /\ Broken({s})
  /\ UNCHANGED <<scope, now, phase, received, current, group, since, armed, blocked, records, control, signal, deaths>>

InvalidSymbol(s) ==
  /\ Ready /\ group /\ breaks < scope.breaks /\ breaks' = breaks + 1
  /\ Broken({s}) /\ since' = [since EXCEPT ![s] = now]
  /\ UNCHANGED <<scope, now, phase, received, current, group, armed, blocked, records, control, signal, deaths>>

\* A lost connection commits what the observer has.
GroupGap ==
  /\ phase = "idle" /\ group /\ breaks < scope.breaks /\ breaks' = breaks + 1
  /\ group' = FALSE /\ Broken(Symbols)
  /\ disk' = [disk EXCEPT !.captures = captures, !.outcomes = outcomes]
  /\ UNCHANGED <<scope, now, phase, received, current, since, armed, blocked, captures, outcomes, active,
                 control, signal, deaths>>

Connected ==
  /\ phase = "idle" /\ ~group /\ group' = TRUE
  /\ Broken(Symbols) /\ since' = [s \in Symbols |-> now]
  /\ UNCHANGED <<scope, now, phase, received, current, armed, blocked, records, control, signal, deaths, breaks>>

-----------------------------------------------------------------------------
(* Start, stop and restart.  The service is started with --disable-fast,   *)
(* with --resume-fast-id, or with neither.                                 *)

Killed ==
  /\ phase # "down" /\ deaths < scope.crashes /\ deaths' = deaths + 1
  /\ phase' = "down" /\ signal' = {}
  /\ UNCHANGED <<scope, now, received, current, feed, records, control, breaks>>

\* Seeded fault: captures that went out of tracking while it was down are forgotten.
NoneOverdue(C, O) == {}

Overdue(C, O) == {c \in C : c.ts + Life < now /\ ~\E o \in O : o.capture = c}

\* Overdue outcomes are settled before anything else, also of captures too
\* old to be tracked again.
StartProcess ==
  /\ phase = "down" /\ phase' = "boot" /\ received' = now /\ current' = (now \div TEN) * TEN
  /\ \E arg \in {"none", "disable"} \cup Requests :
       boot' = [step |-> "command", arg |-> arg]
  /\ captures' = disk.captures /\ disabled' = disk.disabled
  /\ outcomes' = disk.outcomes \cup
       {Row(c, "MISSING", now) : c \in Overdue(disk.captures, disk.outcomes)}
  /\ active' = {c \in disk.captures : c.ts + Life >= now}
  /\ disk' = [disk EXCEPT !.outcomes = outcomes']
  /\ group' = FALSE /\ armed' = {} /\ blocked' = {} /\ Broken(Symbols)
  /\ since' = [s \in Symbols |-> now]
  /\ UNCHANGED <<scope, now, paper, word, signal, deaths, breaks>>

Rest == <<scope, now, received, current, group, since, blocked, broke, captures, outcomes, active,
          signal, deaths, breaks>>

\* Seeded fault: only the observer's own record of the request counts.
ResumableAgain == boot.arg \in Requests /\ boot.arg # disk.consumed

Resumable == /\ boot.arg \in Requests /\ boot.arg # disk.consumed
             /\ ~(paper.resumed = boot.arg /\ paper.paused)

\* The account is resumed in its own database first; one that is not flat
\* refuses, which fails the start unless FAST is stopped anyway.
ResumePaper ==
  /\ phase = "boot" /\ boot.step = "command" /\ Resumable
  /\ \/ paper' = [paused |-> FALSE, resumed |-> boot.arg]
        /\ boot' = [boot EXCEPT !.step = "resume"] /\ phase' = phase
     \/ /\ paper.resumed # boot.arg /\ UNCHANGED paper
        /\ IF disabled THEN boot' = [boot EXCEPT !.step = "stop"] /\ phase' = phase
                       ELSE boot' = boot /\ phase' = "down"
  /\ word' = IF paper'.resumed = paper.resumed THEN word ELSE "trade"
  /\ UNCHANGED <<Rest, previous, armed, disk, disabled>>

Forgotten == previous' = Cleared(previous) /\ armed' = {}

ResumeObserver ==
  /\ phase = "boot" /\ boot.step = "resume"
  /\ disabled' = FALSE /\ Forgotten
  /\ disk' = [disk EXCEPT !.disabled = FALSE, !.consumed = boot.arg]
  /\ boot' = [boot EXCEPT !.step = "stop"]
  /\ UNCHANGED <<Rest, phase, paper, word>>

SkipResume ==
  /\ phase = "boot" /\ boot.step = "command" /\ ~Resumable
  /\ boot' = [boot EXCEPT !.step = "stop"]
  /\ UNCHANGED <<Rest, phase, previous, armed, disk, disabled, paper, word>>

\* disable_fast(): the observer's database first, then the account.
DisableObserver ==
  /\ phase = "boot" /\ boot.step = "stop" /\ (boot.arg = "disable" \/ disabled)
  /\ disabled' = TRUE /\ Forgotten
  /\ disk' = [disk EXCEPT !.disabled = TRUE]
  /\ boot' = [boot EXCEPT !.step = "pause"]
  /\ word' = IF word = "stopped" THEN word ELSE "stopping"
  /\ UNCHANGED <<Rest, phase, paper>>

PausePaper ==
  /\ phase = "boot" /\ boot.step = "pause"
  /\ paper' = [paper EXCEPT !.paused = TRUE]
  /\ boot' = [boot EXCEPT !.step = "run"] /\ phase' = "idle"
  /\ word' = "stopped"
  /\ UNCHANGED <<Rest, previous, armed, disk, disabled>>

Run ==
  /\ phase = "boot" /\ boot.step = "stop" /\ boot.arg # "disable" /\ ~disabled
  /\ boot' = [boot EXCEPT !.step = "run"] /\ phase' = "idle"
  /\ UNCHANGED <<Rest, previous, armed, disk, disabled, paper, word>>

ONext ==
  \/ TimePasses \/ Advance \/ Evaluate \/ EvaluateStopped \/ Settle
  \/ \E s \in Symbols : Trade(s) \/ StaleMessage(s) \/ InvalidSymbol(s)
  \/ GroupGap \/ Connected
  \/ Killed \/ StartProcess \/ ResumePaper \/ ResumeObserver \/ SkipResume
  \/ DisableObserver \/ PausePaper \/ Run

OSpec == OInit /\ [][ONext]_ovars

-----------------------------------------------------------------------------

\* A signal rests on two windows in a row whose market did not break in
\* between - no gap, no stale or invalid message, no change of its reference -
\* and is given while its second window is at most one window old
\* (magi1/fast_observe.py:266, :360 and :379).
SignalsAreConfirmed ==
  \A x \in signal : /\ x.broke <= x.end - TEN /\ x.since <= x.end - Warm
                    /\ x.received - x.end \in 0 .. TEN

\* A market is captured once a day, and no more than TopN captures are tracked
\* (magi1/fast_observe.py:56 and :395).
CapturesAreBounded ==
  /\ \A c, d \in captures : c.symbol = d.symbol /\ c.day = d.day => c = d
  /\ Cardinality(active) <= TopN

\* Every capture has one outcome at the latest when its grace is over, through
\* stalls, deaths and outages longer than the tracking; an observed one was
\* observed in its grace (magi1/fast_observe.py:86, :257 and :283).
OutcomesAreSettled ==
  phase = "idle" =>
    \A c \in captures :
      /\ received > c.ts + Life => Settled(c)
      /\ \A o, p \in outcomes : o.capture = c /\ p.capture = c => o = p
      /\ \A o \in outcomes : o.capture = c =>
           o.status = IF o.ts <= c.ts + Life THEN "OBSERVED" ELSE "MISSING"

\* What the observer signals, captures and concludes was observed.
ObservationsAreHonest == SignalsAreConfirmed /\ CapturesAreBounded /\ OutcomesAreSettled

\* A stop that was carried out holds in both databases until a new request
\* name, over any number of starts, also of starts that died half-way
\* (magi1/fast_observe.py:116).
ObserverStopHolds ==
  Running /\ word = "stopped" => disabled /\ paper.paused

\* What the observer says was observed, and a stop of it holds.
ObserverIsSound == ObservationsAreHonest /\ ObserverStopHolds

\* "a later stop must win even across a partial startup"
\* (magi1/fast_observe.py:123): so must one that is recorded only.
ObserverStopWins ==
  Running /\ word \in {"stopping", "stopped"} => disabled /\ paper.paused

=============================================================================
