-------------------------- MODULE PerformanceView --------------------------
(* The results of the VPD paper portfolio as a view reads them from its      *)
(* files while the trading processes write them                              *)
(* (magi2/paper_performance.py): the win rate from the state and the event   *)
(* log, the daily returns from one valuation kept per day.                   *)
(*                                                                           *)
(* A position is known by its entry, 1, 2, ...; money is counted from the    *)
(* initial cash, each position costing COST.  Time is counted in fractions   *)
(* of a day; whatever a view reads happened before its clock.                *)
EXTENDS Integers, FiniteSets, Functions

CONSTANTS
  Profits,           \* what a position may bring
  COST,
  DAY, TOLERANCE, MARK_AGE,
  MaxEntries, MaxKills, LastMoment,   \* bounds
  NoFigure

Purchases == 1 .. MaxEntries
Nobody == [i \in Purchases |-> NoFigure]
Days == 0 .. LastMoment \div DAY

\* Accounts, and what is kept of one for a day.
Results == [Purchases -> Profits \cup {NoFigure}]
PaperAccounts == [open : SUBSET Purchases, closed : Results]
DailyMarks == [ts : Nat, valid : BOOLEAN, identity : [cash : Int, active : SUBSET Purchases]]

ASSUME FiguresAssumption ==
  /\ Profits \subseteq Int /\ DAY \in Nat \ {0}
  /\ {COST, TOLERANCE, MARK_AGE, MaxEntries, MaxKills, LastMoment} \subseteq Nat
  /\ NoFigure \notin Int /\ NoFigure \notin DailyMarks

VARIABLES
  time, kills,
  stored,        \* paper_state.json: [open, closed] of the positions
  mem,           \* the portfolio the trading process is about to save
  step,          \* how far it is
  events,        \* the result in the last SELL line of each position
  daily,         \* the valuation kept for each day
  reading, same, \* the view: next read, is the file of the first stat unchanged
  state, sold,   \* the state and the events it has read
  view           \* what it shows
account == <<stored, mem, step, events>>
reader == <<reading, same, state, sold, view>>
vvars == <<time, kills, account, daily, reader>>

VInit == /\ time = 1 /\ kills = 0 /\ step = "idle"
         /\ stored = [open |-> {}, closed |-> Nobody] /\ mem = stored /\ events = Nobody
         /\ daily = [d \in Days |-> NoFigure]
         /\ reading = "check" /\ same = FALSE /\ state = stored /\ sold = Nobody /\ view = NoFigure

Recorded(f) == {i \in Purchases : f[i] # NoFigure}
Sum(f) == SumFunctionOnSet(f, Recorded(f))
Cash(a) == Sum(a.closed) - COST * Cardinality(a.open)
Identity(a) == [cash |-> Cash(a), active |-> a.open]
Lifetime(a) == Sum(a.closed)
Made(a) == Cardinality(a.open \cup Recorded(a.closed))

-----------------------------------------------------------------------------
(* The trading processes, one at a time                                     *)

Saved(a) == stored' = a /\ same' = FALSE
Rebuilding == step \in {"journal", "state", "events"}     \* paper_rebuild_pending.json

Buy == /\ step = "idle" /\ Made(stored) < MaxEntries
       /\ mem' = [stored EXCEPT !.open = @ \cup {Made(stored) + 1}] /\ Saved(mem')
       /\ UNCHANGED <<step, events>>

\* close_position() appends the event before the state is saved.
CloseLogs == /\ step = "idle" /\ step' = "logged"
             /\ \E i \in stored.open, p \in Profits :
                  /\ mem' = [open |-> stored.open \ {i}, closed |-> [stored.closed EXCEPT ![i] = p]]
                  /\ events' = [events EXCEPT ![i] = p]
             /\ UNCHANGED <<stored, same>>
CloseSaves == /\ step = "logged" /\ step' = "idle" /\ Saved(mem) /\ UNCHANGED <<mem, events>>

\* A full replacement: journal, state, events, end.  Whoever loads the state
\* next completes one that was interrupted.
Replace == /\ step = "idle" /\ Made(stored) < MaxEntries /\ stored.open # {} /\ step' = "journal"
           /\ \E p \in Profits :
                mem' = [open |-> {Made(stored) + 1},
                        closed |-> [i \in Purchases |-> IF i \in stored.open THEN p ELSE stored.closed[i]]]
           /\ UNCHANGED <<stored, events, same>>
ReplaceState == step = "journal" /\ step' = "state" /\ Saved(mem) /\ UNCHANGED <<mem, events>>
ReplaceEvents == /\ step = "state" /\ step' = "events"
                 /\ events' = [i \in Purchases |-> IF i \in Recorded(mem.closed) /\ events[i] = NoFigure
                                                 THEN mem.closed[i] ELSE events[i]]
                 /\ UNCHANGED <<stored, mem, same>>
ReplaceEnds == step = "events" /\ step' = "idle" /\ UNCHANGED <<stored, mem, events, same>>

Trade == /\ \/ Buy \/ CloseLogs \/ CloseSaves
            \/ Replace \/ ReplaceState \/ ReplaceEvents \/ ReplaceEnds
         /\ UNCHANGED <<time, kills, daily, reading, state, sold, view>>

\* Killed between the event and the state: the position is open again.
Crash == /\ step = "logged" /\ kills < MaxKills
         /\ step' = "idle" /\ mem' = stored /\ kills' = kills + 1
         /\ UNCHANGED <<time, stored, events, daily, reader>>

-----------------------------------------------------------------------------
(* record_vpd_mark(), after each monitoring round                           *)

Newer(old, m) == IF old = NoFigure \/ m.ts >= old.ts THEN m ELSE old
Valuate == /\ step = "idle"
           /\ \E quoted \in {TRUE} \cup {stored.open = {}} :
                daily' = [daily EXCEPT ![time \div DAY] =
                            Newer(@, [ts |-> time, valid |-> quoted, identity |-> Identity(stored)])]
           /\ UNCHANGED <<time, kills, account, reader>>

-----------------------------------------------------------------------------
(* vpd_results()                                                            *)

\* A saved state supersedes the event of the same position.
Counted(s, e) == [i \in Purchases |-> IF s.closed[i] # NoFigure THEN s.closed[i] ELSE e[i]]

\* Seeded fault: results are not compared with those the account has summed up.
AllCountedUnchecked(s, e) == TRUE
AllCounted(s, e) == Sum(Counted(s, e)) = Lifetime(s)

Latest(marks) == LET held == {d \in Days : marks[d] # NoFigure}
                 IN IF held = {} THEN NoFigure ELSE marks[CHOOSE d \in held : \A x \in held : x <= d]

\* The last valuation is the current one if it is of the account just read.
Current(s, marks) ==
  LET m == Latest(marks)
  IN IF m # NoFigure /\ m.identity = Identity(s)
     THEN [m EXCEPT !.valid = @ /\ time - m.ts <= MARK_AGE] ELSE NoFigure

\* daily_rows(): the days whose return is shown, with the two valuations.
EndOf(c, marks, d) == IF c # NoFigure /\ d = time \div DAY /\ c.ts \div DAY = d THEN c ELSE marks[d]
\* Seeded fault: any valuation of the day before will do.
ClosesAtAll(m, d) == m # NoFigure /\ m.valid
Closes(m, d) == m # NoFigure /\ m.valid /\ (d + 1) * DAY - m.ts <= TOLERANCE
Returns(c, marks) ==
  {[day |-> d, base |-> marks[d - 1], end |-> EndOf(c, marks, d)] :
     d \in {d \in Days \ {0} :
              LET m == EndOf(c, marks, d)
              IN /\ d <= time \div DAY /\ Closes(marks[d - 1], d - 1)
                 /\ IF d < time \div DAY THEN Closes(m, d) ELSE m # NoFigure /\ m.valid}}

Check == /\ reading = "check" /\ ~Rebuilding /\ reading' = "stat" /\ view' = NoFigure
         /\ UNCHANGED <<same, state, sold>>
Stat == reading = "stat" /\ reading' = "read" /\ same' = TRUE /\ UNCHANGED <<state, sold, view>>
ReadState == reading = "read" /\ reading' = "log" /\ state' = stored /\ UNCHANGED <<same, sold, view>>
Log == reading = "log" /\ reading' = "finish" /\ sold' = events /\ UNCHANGED <<same, state, view>>

\* Seeded fault: the files are not looked at again.
Whatever == TRUE
Unchanged == same /\ ~Rebuilding

Show == /\ reading = "finish" /\ reading' = "check"
        /\ IF ~Unchanged THEN UNCHANGED view
           ELSE view' = [counted |-> Recorded(Counted(state, sold)), complete |-> AllCounted(state, sold),
                         rows |-> Returns(Current(state, daily), daily)]
        /\ same' = FALSE /\ state' = [open |-> {}, closed |-> Nobody] /\ sold' = Nobody

ViewReads == (Check \/ Stat \/ ReadState \/ Log \/ Show) /\ UNCHANGED <<time, kills, account, daily>>

MomentPasses == /\ time < LastMoment /\ time' = time + 1 /\ UNCHANGED <<kills, account, daily, reader>>

VNext == Trade \/ Crash \/ Valuate \/ ViewReads \/ MomentPasses
VSpec == VInit /\ [][VNext]_vvars

-----------------------------------------------------------------------------
\* A win rate shown as complete counts every position that is closed on disk at
\* that moment, and besides them only sales that a crash took back, and then
\* their results cancel (magi2/paper_performance.py:156, :174 and :178).
WinRateIsCurrent ==
  reading = "finish" /\ view' # view /\ view'.complete =>
    /\ Recorded(stored.closed) \subseteq view'.counted
    /\ SumFunctionOnSet(sold, view'.counted \ Recorded(stored.closed)) = 0

\* A return shown for a day compares two complete valuations, at the end of the
\* day before and of that day, or the last of today: a hole of any length, a
\* missing quote or a restart never makes a longer move look like one day's
\* (magi2/paper_performance.py:356).
ReturnsAreDaily ==
  view # NoFigure =>
    \A r \in view.rows :
      /\ r.base.valid /\ r.end.valid
      /\ r.end.ts - r.base.ts <= DAY + TOLERANCE - 1 /\ r.base.ts < r.day * DAY
      /\ r.day * DAY <= r.end.ts

\* What a step shows is current: the win rate and the daily returns.
FiguresAreCurrent == [][WinRateIsCurrent /\ ReturnsAreDaily']_vvars
=============================================================================
