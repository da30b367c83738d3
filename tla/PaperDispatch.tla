---------------------------- MODULE PaperDispatch ----------------------------
(***************************************************************************)
(* The main loop of MAGI2's server_runner: it turns the operator's one-shot *)
(* request, the daily 07:30 schedule and confirmed Telegram buttons into   *)
(* VPD scans and PAPER engine jobs.                                        *)
(*                                                                         *)
(* The loop is one thread; the scan and the engine job run on workers and  *)
(* end between any two of its steps, and the service may be restarted at   *)
(* any step.  rebalance_requests.json, vpd_schedule.sqlite3 and            *)
(* vpd_rebalance.json survive a restart, jobs and buttons do not.          *)
(***************************************************************************)
EXTENDS Integers, FiniteSets

CONSTANTS
  OneShots,      \* ids MAGI2_REBALANCE_ONCE may carry
  ShotMode,      \* [OneShots -> {"morning", "refill"}]
  ShotExpires,   \* [OneShots -> Nat]
  MaxAhead,      \* a deadline further off is refused (86400 s)
  Days,          \* dates of the daily schedule
  Window,        \* [Days -> SUBSET Nat]: 07:30 <= now < 07:45
  Tokens,        \* confirmation buttons
  Users,
  Actions,       \* what buttons are shown for
  TokenLife,     \* 60 s
  MaxAge,        \* MAX_AGE_SECONDS of a scan
  Horizon,       \* bound on the clock
  MaxReports,    \* bound on /report commands
  MaxCrashes,    \* bound on restarts
  None

Owners  == OneShots \cup Days \cup Tokens
Trading == {"morning", "rebuild", "refill"}
Modes   == Trading \cup {"rescan", "report", "monitor"}

Statuses == {"none", "claimed", "scan_failed", "scan_expired", "executing",
             "completed", "execution_failed"}
Ends     == {"running", "ok", "failed"}

EngineJobs == [mode: Trading \cup {"report", "monitor"}, owner: Owners \cup {None}, end: Ends]
ScanJobs   == [mode: Trading \cup {"rescan"}, owner: Owners \cup {None},
               asof: 0..Horizon, end: Ends]
Buttons    == [token: Tokens, user: Users, action: Trading, until: Nat]

ASSUME DispatchAssumption ==
  /\ ShotMode \in [OneShots -> {"morning", "refill"}]
  /\ ShotExpires \in [OneShots -> Nat]
  /\ Window \in [Days -> SUBSET Nat]
  /\ \A d, e \in Days : d # e => Window[d] \cap Window[e] = {}
  /\ {MaxAhead, TokenLife, MaxAge, Horizon, MaxReports, MaxCrashes} \subseteq Nat
  /\ OneShots \cap Days = {} /\ OneShots \cap Tokens = {} /\ Days \cap Tokens = {}
  /\ Actions \subseteq Trading
  /\ None \notin Owners /\ None \notin Modes
  /\ None \notin EngineJobs /\ None \notin ScanJobs

VARIABLES
  now,
  requests,   \* rebalance_requests.json: status of each request id
  claims,     \* vpd_schedule.sqlite3: the dates claimed
  file,       \* vpd_rebalance.json: the time the snapshot is of, or -1
  pc,         \* where the loop is
  arg,        \* the id being claimed, or the mode being started there
  engineJob,  \* ENGINE_JOB and what runs in it
  engineMode, \* ENGINE_MODE
  engineReq,  \* ENGINE_REQUEST_ID
  scanJob,    \* SCAN_JOB with SCAN_CONTEXT
  pending,    \* Confirmations.pending
  issued,     \* history: what each button shown was to do
  starts,     \* history: engine jobs started for each request or button
  outcome,    \* history: how the engine job of each one ended
  reports, crashes

durable == <<requests, claims, file>>
jobs    == <<engineJob, engineMode, engineReq, scanJob>>
history == <<issued, starts, outcome>>
bounds  == <<reports, crashes>>
vars    == <<now, durable, pc, arg, jobs, pending, history, bounds>>

Busy(job) == job # None /\ job.end = "running"
Done(job) == job # None /\ job.end # "running"

-----------------------------------------------------------------------------
Init ==
  /\ now = 0
  /\ requests = [o \in OneShots \cup Days |-> "none"] /\ claims = {} /\ file = -1
  /\ pc = "down" /\ arg = None
  /\ engineJob = None /\ engineMode = None /\ engineReq = None /\ scanJob = None
  /\ pending = {}
  /\ issued = [t \in Tokens |-> None]
  /\ starts = [o \in Owners |-> 0] /\ outcome = [o \in Owners |-> "none"]
  /\ reports = 0 /\ crashes = 0

\* record_request(): silently nothing without an id.
Record(id, status) ==
  requests' = IF id \in DOMAIN requests THEN [requests EXCEPT ![id] = status] ELSE requests

\* finish_engine_job(): the result goes to the id in ENGINE_REQUEST_ID.
Collected ==
  IF Done(engineJob) /\ engineReq \in DOMAIN requests
    THEN [requests EXCEPT ![engineReq] =
            IF engineJob.end = "ok" THEN "completed" ELSE "execution_failed"]
    ELSE requests

\* Seeded fault: ENGINE_REQUEST_ID outlives its job.
FinishKeepsRequest ==
  IF Done(engineJob)
    THEN requests' = Collected /\ engineJob' = None /\ engineMode' = None /\ UNCHANGED engineReq
    ELSE UNCHANGED <<requests, engineJob, engineMode, engineReq>>

FinishEngineJob ==
  IF Done(engineJob)
    THEN /\ requests' = Collected
         /\ engineJob' = None /\ engineMode' = None /\ engineReq' = None
    ELSE UNCHANGED <<requests, engineJob, engineMode, engineReq>>

\* Seeded fault: a scan is started beside a job that trades.
CanScanAlways == scanJob = None

\* start_engine() of a mode that needs a scan first.
CanScan == scanJob = None /\ ~(Busy(engineJob) /\ engineMode \in Trading)

\* Seeded fault: every scan is followed by a morning rebalancing.
StartMorningScan(mode, owner) ==
  /\ CanScan
  /\ scanJob' = [mode |-> IF mode = "rescan" THEN mode ELSE "morning", owner |-> owner,
                 asof |-> now, end |-> "running"]
  /\ FinishEngineJob

StartScan(mode, owner) ==
  /\ CanScan
  /\ scanJob' = [mode |-> mode, owner |-> owner, asof |-> now, end |-> "running"]
  /\ FinishEngineJob

-----------------------------------------------------------------------------
(* Start-up: consume_startup_rebalance().                                  *)

BootIgnores ==
  /\ pc = "down"
  /\ pc' = "engine"
  /\ UNCHANGED <<now, durable, arg, jobs, pending, history, bounds>>

\* Seeded fault: a request seen before is claimed again.
BootReclaims(s) ==
  /\ pc = "down"
  /\ now < ShotExpires[s] /\ ShotExpires[s] - now <= MaxAhead
  /\ Record(s, "claimed")
  /\ pc' = "boot" /\ arg' = s
  /\ UNCHANGED <<now, claims, file, jobs, pending, history, bounds>>

BootClaims(s) ==
  /\ pc = "down"
  /\ now < ShotExpires[s] /\ ShotExpires[s] - now <= MaxAhead
  /\ requests[s] = "none"
  /\ Record(s, "claimed")
  /\ pc' = "boot" /\ arg' = s
  /\ UNCHANGED <<now, claims, file, jobs, pending, history, bounds>>

BootStarts ==
  /\ pc = "boot"
  /\ StartScan(ShotMode[arg], arg)
  /\ pc' = "engine" /\ arg' = None
  /\ UNCHANGED <<now, claims, file, pending, history, bounds>>

-----------------------------------------------------------------------------
(* One round of the loop: finish_engine_job(), finish_scan_job(),          *)
(* consume_scheduled_rebalance(), the monitor, poll_updates().             *)

LoopEngine ==
  /\ pc = "engine" /\ pc' = "scan"
  /\ FinishEngineJob
  /\ UNCHANGED <<now, claims, file, arg, scanJob, pending, history, bounds>>

\* No result yet, or a result that has to wait for the engine.
ScanWaits ==
  /\ pc = "scan"
  /\ Done(scanJob) => scanJob.end = "ok" /\ Busy(engineJob)
  /\ pc' = "schedule"
  /\ UNCHANGED <<now, durable, arg, jobs, pending, history, bounds>>

\* Seeded fault: SCAN_JOB is not cleared after a failure.
ScanFailedKept ==
  /\ pc = "scan" /\ Done(scanJob) /\ scanJob.end = "failed"
  /\ Record(scanJob.owner, "scan_failed")
  /\ pc' = "schedule"
  /\ UNCHANGED <<now, claims, file, arg, jobs, pending, history, bounds>>

ScanFailed ==
  /\ pc = "scan" /\ Done(scanJob) /\ scanJob.end = "failed"
  /\ Record(scanJob.owner, "scan_failed")
  /\ scanJob' = None
  /\ pc' = "schedule"
  /\ UNCHANGED <<now, claims, file, arg, engineJob, engineMode, engineReq, pending,
                 history, bounds>>

\* read_snapshot() of the file, for the time the scan was requested for.
Readable == file = scanJob.asof /\ now - scanJob.asof <= MaxAge

\* A rescan is only shown; the snapshot of another request may have expired
\* while it waited.
ScanShown ==
  /\ pc = "scan" /\ Done(scanJob) /\ scanJob.end = "ok" /\ ~Busy(engineJob)
  /\ scanJob.mode = "rescan" \/ ~Readable
  /\ requests' = IF scanJob.mode # "rescan" /\ scanJob.owner \in DOMAIN requests
                   THEN [Collected EXCEPT ![scanJob.owner] = "scan_expired"]
                   ELSE Collected
  /\ engineJob' = None /\ engineMode' = None /\ engineReq' = None
  /\ scanJob' = None
  /\ pc' = "schedule"
  /\ UNCHANGED <<now, claims, file, arg, pending, history, bounds>>

ScanDispatched ==
  /\ pc = "scan" /\ Done(scanJob) /\ scanJob.end = "ok" /\ ~Busy(engineJob)
  /\ scanJob.mode # "rescan" /\ Readable
  /\ requests' = IF scanJob.owner \in DOMAIN requests
                   THEN [Collected EXCEPT ![scanJob.owner] = "executing"]
                   ELSE Collected
  /\ engineMode' = scanJob.mode
  /\ engineReq' = IF scanJob.owner \in DOMAIN requests THEN scanJob.owner ELSE None
  /\ engineJob' = [mode |-> scanJob.mode, owner |-> scanJob.owner, end |-> "running"]
  /\ starts' = [starts EXCEPT ![scanJob.owner] = @ + 1]
  /\ outcome' = [outcome EXCEPT ![scanJob.owner] = "running"]
  /\ scanJob' = None
  /\ pc' = "schedule"
  /\ UNCHANGED <<now, claims, file, arg, pending, issued, bounds>>

\* claim(): INSERT OR IGNORE of the date, committed before anything else.
ScheduleClaims(d) ==
  /\ pc = "schedule"
  /\ now \in Window[d] /\ scanJob = None /\ ~Busy(engineJob)
  /\ d \notin claims
  /\ claims' = claims \cup {d}
  /\ pc' = "claimed" /\ arg' = d
  /\ UNCHANGED <<now, requests, file, jobs, pending, history, bounds>>

ScheduleRecords ==
  /\ pc = "claimed"
  /\ Record(arg, "claimed")
  /\ pc' = "daily"
  /\ UNCHANGED <<now, claims, file, arg, jobs, pending, history, bounds>>

ScheduleStarts ==
  /\ pc = "daily"
  /\ StartScan("morning", arg)
  /\ pc' = "collect" /\ arg' = "monitor"
  /\ UNCHANGED <<now, claims, file, pending, history, bounds>>

ScheduleRests ==
  /\ pc = "schedule"
  /\ scanJob # None \/ Busy(engineJob) \/ \A d \in Days : now \in Window[d] => d \in claims
  /\ \/ pc' = "collect" /\ arg' = "monitor"     \* the monitor is due
     \/ pc' = "poll" /\ UNCHANGED arg
  /\ UNCHANGED <<now, durable, jobs, pending, history, bounds>>

\* start_engine() of a monitor or report: the job is asked twice whether it is
\* done, and a worker may end it in between.
StartCollects ==
  /\ pc = "collect" /\ pc' = "start"
  /\ FinishEngineJob
  /\ UNCHANGED <<now, claims, file, arg, scanJob, pending, history, bounds>>

StartRefused ==
  /\ pc = "start" /\ Busy(engineJob)
  /\ pc' = "poll" /\ arg' = None
  /\ UNCHANGED <<now, durable, jobs, pending, history, bounds>>

\* Seeded fault: the second look at the job is left out.
StartSubmitsAnyway ==
  /\ pc = "start"
  /\ engineMode' = arg
  /\ engineJob' = [mode |-> arg, owner |-> None, end |-> "running"]
  /\ pc' = "poll" /\ arg' = None
  /\ UNCHANGED <<now, durable, engineReq, scanJob, pending, history, bounds>>

StartSubmits ==
  /\ pc = "start" /\ ~Busy(engineJob)
  /\ engineMode' = arg
  /\ engineJob' = [mode |-> arg, owner |-> None, end |-> "running"]
  /\ pc' = "poll" /\ arg' = None
  /\ UNCHANGED <<now, durable, engineReq, scanJob, pending, history, bounds>>

PollEnds ==
  /\ pc = "poll" /\ pc' = "engine"
  /\ UNCHANGED <<now, durable, arg, jobs, pending, history, bounds>>

-----------------------------------------------------------------------------
(* Telegram updates, handled one by one inside poll_updates().             *)

Idle == scanJob = None /\ ~Busy(engineJob)

\* A command that trades shows a button; it replaces the user's last one.
Issue(t, u, action) ==
  /\ pc = "poll" /\ Idle /\ issued[t] = None
  /\ pending' = {b \in pending : b.user # u /\ now < b.until}
                  \cup {[token |-> t, user |-> u, action |-> action, until |-> now + TokenLife]}
  /\ issued' = [issued EXCEPT ![t] = action]
  /\ UNCHANGED <<now, durable, pc, arg, jobs, starts, outcome, bounds>>

\* The confirm button: used up whatever follows, void after its minute, and
\* refused while other work is on.
Confirm(b) ==
  /\ pc = "poll" /\ b \in pending
  /\ pending' = pending \ {b}
  /\ IF now < b.until /\ CanScan
       THEN StartScan(b.action, b.token)
       ELSE IF now < b.until
         THEN FinishEngineJob /\ UNCHANGED scanJob
         ELSE UNCHANGED <<requests, jobs>>
  /\ UNCHANGED <<now, claims, file, pc, arg, history, bounds>>

\* The cancel button of a message, or the /cancel command.
Cancel(u) ==
  /\ pc = "poll"
  /\ pending' = {b \in pending : b.user # u} /\ pending' # pending
  /\ UNCHANGED <<now, durable, pc, arg, jobs, history, bounds>>

Rescan ==
  /\ pc = "poll" /\ Idle
  /\ StartScan("rescan", None)
  /\ UNCHANGED <<now, claims, file, pc, arg, pending, history, bounds>>

AskReport ==
  /\ pc = "poll" /\ reports < MaxReports
  /\ reports' = reports + 1
  /\ pc' = "collect" /\ arg' = "report"
  /\ UNCHANGED <<now, durable, jobs, pending, history, crashes>>

-----------------------------------------------------------------------------
(* The workers, the clock and restarts.                                    *)

\* run_engine(): the child process ended, failed, or was killed after 300 s.
EngineEnds(end) ==
  /\ Busy(engineJob)
  /\ engineJob' = [engineJob EXCEPT !.end = end]
  /\ outcome' = IF engineJob.owner = None THEN outcome
                ELSE [outcome EXCEPT ![engineJob.owner] = end]
  /\ UNCHANGED <<now, durable, pc, arg, engineMode, engineReq, scanJob, pending, issued,
                 starts, bounds>>

\* build_snapshot(): publishes nothing older than MaxAge.
ScanEnds(end) ==
  /\ Busy(scanJob)
  /\ end = "ok" => now - scanJob.asof <= MaxAge
  /\ scanJob' = [scanJob EXCEPT !.end = end]
  /\ file' = IF end = "ok" THEN scanJob.asof ELSE file
  /\ UNCHANGED <<now, requests, claims, pc, arg, engineJob, engineMode, engineReq, pending,
                 history, bounds>>

Tick ==
  /\ now < Horizon /\ now' = now + 1
  /\ UNCHANGED <<durable, pc, arg, jobs, pending, history, bounds>>

\* The service stops: both workers die with it, and the updates that wait at
\* the next start are discarded.
Restart ==
  /\ pc # "down" /\ crashes < MaxCrashes /\ crashes' = crashes + 1
  /\ pc' = "down" /\ arg' = None
  /\ engineJob' = None /\ engineMode' = None /\ engineReq' = None /\ scanJob' = None
  /\ pending' = {}
  /\ UNCHANGED <<now, durable, history, reports>>

-----------------------------------------------------------------------------
Boot == BootIgnores \/ (\E s \in OneShots : BootClaims(s)) \/ BootStarts

Loop ==
  \/ LoopEngine
  \/ ScanWaits \/ ScanFailed \/ ScanShown \/ ScanDispatched
  \/ \E d \in Days : ScheduleClaims(d)
  \/ ScheduleRecords \/ ScheduleStarts \/ ScheduleRests
  \/ StartCollects \/ StartRefused \/ StartSubmits
  \/ PollEnds

Telegram ==
  \/ \E t \in Tokens, u \in Users, a \in Actions : Issue(t, u, a)
  \/ \E b \in pending : Confirm(b)
  \/ \E u \in Users : Cancel(u)
  \/ Rescan \/ AskReport

SomeEngineEnds == \E end \in {"ok", "failed"} : EngineEnds(end)
SomeScanEnds   == \E end \in {"ok", "failed"} : ScanEnds(end)

Next == Boot \/ Loop \/ Telegram \/ SomeEngineEnds \/ SomeScanEnds \/ Tick \/ Restart

Spec == Init /\ [][Next]_vars

\* The loop goes round; a scan gives up after 480 s and an engine job after
\* 300 s; and jobs do not for ever end in the instant between the loop's look
\* at the scan and its start of the next monitor, for nearly all of a round is
\* spent polling.
Fairness ==
  /\ WF_vars(Boot \/ Loop)
  /\ WF_vars(SomeScanEnds)
  /\ SF_vars(pc = "poll" /\ SomeEngineEnds)

FairSpec == Spec /\ Fairness

-----------------------------------------------------------------------------
(* Properties                                                              *)

TypeOK ==
  /\ now \in 0..Horizon
  /\ requests \in [OneShots \cup Days -> Statuses]
  /\ claims \subseteq Days
  /\ file \in -1..Horizon
  /\ pc \in {"down", "boot", "engine", "scan", "schedule", "claimed", "daily", "collect",
             "start", "poll"}
  /\ arg \in OneShots \cup Days \cup {None, "monitor", "report"}
  /\ engineJob \in EngineJobs \cup {None}
  /\ engineMode \in Modes \cup {None}
  /\ engineReq \in OneShots \cup Days \cup {None}
  /\ scanJob \in ScanJobs \cup {None}
  /\ pending \subseteq Buttons
  /\ issued \in [Tokens -> Trading \cup {None}]
  /\ starts \in [Owners -> Nat] /\ outcome \in [Owners -> Ends \cup {"none"}]
  /\ reports \in 0..MaxReports /\ crashes \in 0..MaxCrashes

\* A one-shot request, a daily date and a confirmed button start at most one
\* engine job each, however often the service restarts.
StartedAtMostOnce == \A o \in Owners : starts[o] <= 1

\* What a job is for: it does what its button, request or schedule asked.
Asked(o) == IF o \in OneShots THEN ShotMode[o]
            ELSE IF o \in Days THEN "morning" ELSE issued[o]

\* A job that trades has an owner and runs the mode that owner asked for, also
\* when other commands came while its scan was running; a rescan runs no job.
TradesOnlyWhatWasAsked ==
  engineJob # None /\ engineJob.mode \in Trading =>
    /\ engineJob.owner # None
    /\ engineJob.mode = Asked(engineJob.owner)
    /\ starts[engineJob.owner] = 1

\* The single worker is never handed a job while another one is on it: a
\* running job leaves ENGINE_JOB only by ending, or with the process.
NoJobIsOverrun ==
  [][Busy(engineJob) /\ pc' # "down" =>
       /\ engineJob' # None
       /\ engineJob'.owner = engineJob.owner /\ engineJob'.mode = engineJob.mode]_vars

\* Monitors go on during a scan, but never a second replacement of the
\* portfolio: scan and trading job of different requests do not overlap.
OneRequestAtATime ==
  scanJob # None /\ Busy(engineJob) => engineJob.mode \notin Trading

\* A request moves only forward: an outcome once recorded is final, and one is
\* recorded only for a request that was started.
StatusOrder ==
  [][\A o \in DOMAIN requests : requests'[o] # requests[o] =>
       \/ requests[o] = "none" /\ requests'[o] = "claimed"
       \/ requests[o] = "claimed" /\ requests'[o] \in {"scan_failed", "scan_expired", "executing"}
       \/ requests[o] = "executing" /\ requests'[o] \in {"completed", "execution_failed"}]_vars

\* What the three say together: each request is carried out at most once, as it
\* was asked, and never beside another.
RequestsAreKept ==
  StartedAtMostOnce /\ TradesOnlyWhatWasAsked /\ OneRequestAtATime

\* Neither a job that is on nor a request that was claimed is set back.
WorkOnlyAdvances == NoJobIsOverrun /\ StatusOrder

\* docs: "request records track claimed, executing, completed or failed
\* outcomes": the outcome recorded is the outcome of that request's job.
OutcomeIsOwn ==
  \A o \in OneShots \cup Days :
    /\ requests[o] = "completed" => outcome[o] = "ok"
    /\ requests[o] = "execution_failed" => outcome[o] = "failed"

\* A scan that was started is shown, carried out or given up.
ScanIsSettled == (scanJob # None) ~> (scanJob = None)

-----------------------------------------------------------------------------
(* The inductive invariant behind the theorems of PaperDispatchProofs.     *)

Ids == OneShots \cup Days

NotYet(o) == starts[o] = 0 /\ (scanJob # None => scanJob.owner # o)

\* What was never claimed or shown has started nothing.
UnusedSound ==
  /\ \A s \in OneShots : requests[s] = "none" => NotYet(s)
  /\ \A d \in Days : d \notin claims => NotYet(d) /\ requests[d] = "none"
  /\ \A t \in Tokens : issued[t] = None => NotYet(t)

\* A live button is the only one with its token, and has started nothing.
ButtonsSound ==
  \A b \in pending :
    /\ issued[b.token] = b.action /\ NotYet(b.token)
    /\ \A c \in pending : c.token = b.token => c = b

\* The id being claimed.
ClaimSound ==
  /\ pc \in {"down", "boot", "daily"} => scanJob = None
  /\ pc = "boot" => arg \in OneShots /\ requests[arg] = "claimed" /\ NotYet(arg)
  /\ pc \in {"claimed", "daily"} => arg \in claims /\ NotYet(arg) /\ ~Busy(engineJob)
  /\ pc = "claimed" => scanJob = None /\ requests[arg] = "none"
  /\ pc = "daily" => requests[arg] = "claimed"
  /\ pc \in {"down", "boot"} => engineJob = None
  /\ pc \in {"collect", "start"} => arg \in {"monitor", "report"}

ScanSound ==
  scanJob # None =>
    /\ scanJob.mode = "rescan" <=> scanJob.owner = None
    /\ scanJob.owner # None => /\ scanJob.mode = Asked(scanJob.owner)
                               /\ starts[scanJob.owner] = 0
    /\ scanJob.owner \in Ids => requests[scanJob.owner] = "claimed"
    /\ scanJob.owner \in Days => scanJob.owner \in claims
    /\ scanJob.owner \in Tokens => issued[scanJob.owner] # None

EngineSound ==
  /\ engineJob = None => engineReq = None
  /\ engineJob # None => engineMode = engineJob.mode
  /\ engineReq # None => requests[engineReq] = "executing"

DInv ==
  /\ TypeOK /\ StartedAtMostOnce /\ TradesOnlyWhatWasAsked /\ OneRequestAtATime
  /\ UnusedSound /\ ButtonsSound /\ ClaimSound /\ ScanSound /\ EngineSound

=============================================================================
