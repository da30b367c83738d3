-------------------------- MODULE TelegramConsole --------------------------
(* The Telegram console of MAGI2 (magi2/server_runner.py): long polling,     *)
(* commands, buttons, and the two views prepared by workers of their own.    *)
(*                                                                           *)
(* Telegram keeps the updates and numbers them 1, 2, ...; it forgets those   *)
(* below the offset of a request that reached it, whether or not the answer  *)
(* comes back.  The process may be killed between two updates; its offset,   *)
(* buttons and jobs are lost, the account is not.  Whether a scan, an engine *)
(* job or a clearing is in the way is the subject of PaperDispatch and       *)
(* HourlyWorkers: here it may be or not.                                     *)
EXTENDS Integers, Sequences, FiniteSetsExt

CONSTANTS
  Users, Executors,   \* of the allowed chat; those allowed to execute
  Messages,           \* what may be written, [user, cmd]; also by others than Users
  LIFE,               \* of a button, 60 s
  MaxUpdates, MaxButtons, MaxChanges, MaxLives, Until,   \* bounds
  NoButton

ASSUME ConsoleAssumption == LIFE \in Nat /\ MaxUpdates \in Nat /\ MaxButtons \in Nat

UpdateIds == 1 .. MaxUpdates
Buttons == 1 .. MaxButtons
Views == {"regime", "system"}
Orders == {"vpd", "plan", "account"}   \* morning, refill, rebuild; of the hourly account: its rebuild and refill; clear, start

VARIABLES
  clock, updates, kept,   \* the updates; the first that Telegram still has
  loop, offset, last,   \* of the loop; its offset; the last update of the batch
  pending,            \* Confirmations.pending
  jobs,               \* the views being prepared
  account,            \* the hourly account: how often it has changed
  flushed, blind,     \* history: updates discarded at a start; starts that could not
  times, shown, runs, \* history: handlings of an update, buttons shown and executed
  lives
process == <<loop, offset, last, pending, jobs>>
history == <<flushed, blind, times, shown, runs, lives>>
tvars == <<clock, updates, kept, process, account, history>>

TInit == /\ clock = 0 /\ updates = <<>> /\ kept = 1
         /\ loop = "down" /\ offset = 0 /\ last = 0 /\ pending = {}
         /\ jobs = {} /\ account = 0
         /\ flushed = {} /\ blind = 0 /\ times = [i \in UpdateIds |-> 0]
         /\ shown = <<>> /\ runs = [b \in Buttons |-> 0] /\ lives = 0

-----------------------------------------------------------------------------
(* The people, and the rest of the service                                  *)

\* What is sent at another moment waits for the next poll or start.
Write == /\ Len(updates) < MaxUpdates /\ loop = "poll"
        /\ \/ \E m \in Messages : updates' = Append(updates, [user |-> m.user, cmd |-> m.cmd, button |-> NoButton])
           \/ \E u \in Users, b \in DOMAIN shown, c \in {"confirm", "cancel"} :
                updates' = Append(updates, [user |-> u, cmd |-> c, button |-> b])
        /\ UNCHANGED <<clock, kept, process, account, history>>

AccountMoves == /\ loop = "poll" /\ account < MaxChanges /\ account' = account + 1
                /\ UNCHANGED <<clock, updates, kept, process, history>>

ClockTick == /\ loop = "poll" /\ clock < Until /\ clock' = clock + 1
        /\ UNCHANGED <<updates, kept, process, account, history>>

-----------------------------------------------------------------------------
(* main()                                                                   *)

Waiting == kept .. Len(updates)

\* discard_pending_updates(): asks for what waits, then confirms it.  The first
\* request may fail, and the second; the offset is kept in the second case.
Flush == /\ loop = "down" /\ lives < MaxLives /\ lives' = lives + 1 /\ loop' = "poll"
         /\ \/ /\ offset' = (IF Waiting = {} THEN 0 ELSE Len(updates) + 1)
               /\ kept' \in {kept, Len(updates) + 1} /\ flushed' = flushed \cup Waiting
               /\ UNCHANGED blind
            \/ /\ offset' = 0 /\ blind' = blind + 1 /\ UNCHANGED <<kept, flushed>>
         /\ UNCHANGED <<clock, updates, last, pending, jobs, account, times, shown, runs>>

First == Max({offset, kept})
\* finish_regime_job() and finish_system_job() come before each poll: those of
\* the views that are still being prepared stay.
Unfinished == SUBSET jobs
GetUpdates == /\ loop = "poll" /\ jobs' \in Unfinished
        /\ \/ kept' = First /\ last' = Len(updates) /\ loop' = "batch"
           \/ kept' \in {kept, First} /\ UNCHANGED <<last, loop>>            \* an error
        /\ UNCHANGED <<clock, updates, offset, pending, account, history>>

Die == /\ loop # "down" /\ loop' = "down" /\ offset' = 0 /\ last' = 0 /\ pending' = {}
       /\ jobs' = {}
       /\ UNCHANGED <<clock, updates, kept, account, history>>

-----------------------------------------------------------------------------
(* Confirmations                                                            *)

Others(u) == {p \in pending : p.user # u}
\* issue(): the last button of a user is the only one that works.
Issue(u, action, basis) ==
  LET b == Len(shown) + 1
  IN IF b > MaxButtons THEN UNCHANGED <<pending, shown>>
     ELSE LET p == [button |-> b, user |-> u, action |-> action, basis |-> basis, until |-> clock + LIFE]
          IN /\ pending' = {q \in Others(u) : clock < q.until} \cup {p}
             /\ shown' = Append(shown, p)

\* Seeded fault: a button that is too old still works.
WorksAnytime(p) == p.until > 0
Works(p) == clock < p.until
Taken(b, u) == {p \in pending : p.button = b /\ p.user = u}

-----------------------------------------------------------------------------
(* handle_command()                                                         *)

\* may_execute() for those in the allowed chat.
May(u) == u \in Executors

\* start_regime_job(), start_system_job(): one of each at a time.
Preparing(c) == jobs \cup ({c} \cap Views)

Commanded(c, u) ==
  /\ \/ c \in Orders /\ May(u) /\ Issue(u, c, account)
     \/ c = "drop" /\ pending' = Others(u) /\ UNCHANGED shown
     \/ c # "drop" /\ UNCHANGED <<pending, shown>>      \* a view, or something is in the way
  /\ jobs' = Preparing(c)
  /\ UNCHANGED <<account, runs>>

-----------------------------------------------------------------------------
(* handle_callback(): the other buttons are commands or views               *)

\* A plan is made again and has to be the one that was shown.
StillPlanned(p) == p.action = "plan" => p.basis = account
\* start_engine(), clear(), resume(), request(): all but the first change the account.
Execute(p) == /\ runs' = [runs EXCEPT ![p.button] = @ + 1]
              /\ account' = IF p.action = "vpd" THEN account ELSE account + 1

Pressed(up) ==
  LET taken == IF May(up.user) THEN Taken(up.button, up.user) ELSE {}
  IN /\ pending' = pending \ taken
     /\ \/ \E p \in taken : up.cmd = "confirm" /\ Works(p) /\ StillPlanned(p) /\ Execute(p)
        \/ UNCHANGED <<account, runs>>
     /\ UNCHANGED <<jobs, shown>>

-----------------------------------------------------------------------------
(* poll_updates()                                                           *)

\* Seeded fault: the offset moves on only when the handler has succeeded.
AfterSuccess(i, ok) == IF ok THEN i + 1 ELSE offset
After(i, ok) == i + 1

Handle == /\ loop = "batch" /\ First <= last
          /\ LET up == updates[First]
             IN /\ offset' = After(First, TRUE) /\ times' = [times EXCEPT ![First] = @ + 1]
                /\ IF up.user \notin Users THEN UNCHANGED <<pending, shown, jobs, account, runs>>
                   ELSE IF up.button = NoButton THEN Commanded(up.cmd, up.user) ELSE Pressed(up)
          /\ UNCHANGED <<clock, updates, kept, loop, last, flushed, blind, lives>>

\* An exception of a button's handler ends the batch; the button is used up.
Raise == /\ loop = "batch" /\ First <= last /\ updates[First].button # NoButton /\ updates[First].user \in Users
         /\ LET up == updates[First]
            IN /\ offset' = After(First, FALSE) /\ times' = [times EXCEPT ![First] = @ + 1]
               /\ pending' = pending \ (IF May(up.user) THEN Taken(up.button, up.user) ELSE {})
         /\ loop' = "poll"
         /\ UNCHANGED <<clock, updates, kept, last, jobs, account, flushed, blind, shown, runs, lives>>

Drained == /\ loop = "batch" /\ First > last /\ loop' = "poll"
           /\ UNCHANGED <<clock, updates, kept, offset, last, pending, jobs, account, history>>

TNext == Write \/ AccountMoves \/ ClockTick \/ Flush \/ GetUpdates \/ Die \/ Handle \/ Raise \/ Drained
TSpec == TInit /\ [][TNext]_tvars

-----------------------------------------------------------------------------
\* Telegram forgets no update that was neither handled nor discarded by a start,
\* and none is handled a second time unless a start could not discard what the
\* process before it had already done (magi2/server_runner.py:833 and :824).
UpdatesAreHandledOnce ==
  \A i \in 1 .. Len(updates) :
    /\ i < kept => times[i] > 0 \/ i \in flushed
    /\ times[i] <= 1 + blind

\* An action is executed once, by the person its button was shown to, who may
\* execute, within its life, and a plan only on the account it was made for:
\* whatever is pressed twice, late, by others, delivered again after a restart,
\* or overtaken by another button (magi2/server_runner.py:756 and
\* magi2/indicator_rebalance.py:98).
ExecutedAsShown ==
  \A b \in Buttons : runs'[b] # runs[b] =>
    LET p == shown[b]
        up == updates[First]
    IN /\ runs[b] = 0
       /\ up.button = b /\ up.cmd = "confirm" /\ up.user = p.user /\ p.user \in Executors
       /\ clock < p.until
       /\ p.action = "plan" => account = p.basis
       /\ \A q \in b + 1 .. Len(shown) : shown[q].user # p.user

ButtonsDoAsShown == [][ExecutedAsShown]_tvars
=============================================================================
