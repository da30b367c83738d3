------------------------- MODULE PaperDispatchProofs -------------------------
(***************************************************************************)
(* Theorems about the dispatcher, for every set of requests, dates,        *)
(* buttons and users, every window and deadline, and any number of         *)
(* restarts; and about the pair account, for all wallets, assets, periods  *)
(* of funding and answers of the feeds.                                    *)
(***************************************************************************)
EXTENDS PaperDispatch, PairAccount, SumFacts, TLAPS

\* Ids, buttons and None are told apart.
LEMMA OwnerFacts ==
  /\ Ids \cap Tokens = {} /\ OneShots \cap Days = {} /\ None \notin Owners
  /\ Owners = Ids \cup Tokens /\ Ids = OneShots \cup Days /\ None \notin Ids
  /\ None \notin Modes
BY DispatchAssumption DEF Owners, Ids

\* The fields of a scan job and of an engine job.
LEMMA JobFacts ==
  ASSUME TypeOK
  PROVE  /\ scanJob # None => /\ scanJob \in ScanJobs
                              /\ scanJob.mode \in Trading \cup {"rescan"}
                              /\ scanJob.owner \in Owners \cup {None}
                              /\ scanJob.asof \in 0..Horizon /\ scanJob.end \in Ends
         /\ engineJob # None => /\ engineJob \in EngineJobs
                                /\ engineJob.mode \in Trading \cup {"report", "monitor"}
                                /\ engineJob.owner \in Owners \cup {None}
                                /\ engineJob.end \in Ends
<1>1. scanJob # None => scanJob \in ScanJobs
  BY DEF TypeOK
<1>2. engineJob # None => engineJob \in EngineJobs
  BY DEF TypeOK
<1> QED BY <1>1, <1>2 DEF ScanJobs, EngineJobs

\* finish_engine_job() records an outcome of the request in ENGINE_REQUEST_ID,
\* which was executing, and of no other.
LEMMA FinishFacts ==
  ASSUME DInv, FinishEngineJob
  PROVE  /\ requests' \in [Ids -> Statuses]
         /\ \A o \in Ids :
              \/ requests'[o] = requests[o]
              \/ requests[o] = "executing" /\ requests'[o] \in {"completed", "execution_failed"}
         /\ \/ UNCHANGED <<requests, engineJob, engineMode, engineReq>>
            \/ engineJob' = None /\ engineMode' = None /\ engineReq' = None
         /\ engineJob' \in EngineJobs \cup {None}
         /\ engineMode' \in Modes \cup {None}
         /\ engineReq' \in Ids \cup {None}
<1>1. requests \in [Ids -> Statuses] /\ DOMAIN requests = Ids
  BY DEF DInv, TypeOK, Ids
<1>2. CASE Done(engineJob)
  <2>1. requests' = Collected /\ engineJob' = None /\ engineMode' = None /\ engineReq' = None
    BY <1>2 DEF FinishEngineJob
  <2>2. engineReq \in Ids => requests[engineReq] = "executing"
    BY OwnerFacts DEF DInv, EngineSound
  <2>3. Collected \in [Ids -> Statuses]
    BY <1>1 DEF Collected, Statuses
  <2>4. \A o \in Ids :
          \/ Collected[o] = requests[o]
          \/ requests[o] = "executing" /\ Collected[o] \in {"completed", "execution_failed"}
    BY <1>1, <2>2 DEF Collected
  <2> QED BY <2>1, <2>3, <2>4
<1>3. CASE ~Done(engineJob)
  BY <1>1, <1>3 DEF FinishEngineJob, DInv, TypeOK, Ids
<1> QED BY <1>2, <1>3

\* Steps that start nothing, show nothing and claim nothing leave what is known
\* of requests and buttons as it was.
LEMMA QuietFacts ==
  ASSUME DInv, UNCHANGED <<starts, issued, claims>>,
         \A o \in Ids : \/ requests'[o] = requests[o]
                        \/ requests[o] = "executing" /\ requests'[o] # "none",
         pending' \subseteq pending,
         scanJob' # None => scanJob # None /\ scanJob'.owner = scanJob.owner
  PROVE  /\ StartedAtMostOnce' /\ UnusedSound' /\ ButtonsSound'
         /\ \A o \in Owners : NotYet(o) => NotYet(o)'
<1>1. \A o \in Owners : NotYet(o) => NotYet(o)'
  BY DEF NotYet
<1>2. StartedAtMostOnce'
  BY DEF DInv, StartedAtMostOnce
<1>3. UnusedSound'
  <2>1. \A o \in Ids : requests'[o] = "none" => requests[o] = "none"
    OBVIOUS
  <2>2. \A o \in Ids : requests[o] = "none" => requests'[o] = "none"
    OBVIOUS
  <2> QED BY <1>1, <2>1, <2>2, OwnerFacts DEF DInv, UnusedSound
<1>4. ButtonsSound'
  <2>1. \A b \in pending : b.token \in Owners
    BY DEF DInv, TypeOK, Buttons, Owners
  <2> QED BY <1>1, <2>1 DEF DInv, ButtonsSound
<1> QED BY <1>1, <1>2, <1>3, <1>4

-----------------------------------------------------------------------------
(* The inductive invariant, one lemma per group of actions.                *)

\* A service that never ran satisfies the invariant.
LEMMA InitDInv == Init => DInv
<1> SUFFICES ASSUME Init PROVE DInv
  OBVIOUS
<1>1. TypeOK
  BY DispatchAssumption DEF Init, TypeOK, Statuses, Ends
<1>2. UnusedSound
  BY DEF Init, UnusedSound, NotYet, Owners
<1> QED
  BY <1>1, <1>2 DEF Init, DInv, StartedAtMostOnce, TradesOnlyWhatWasAsked, OneRequestAtATime,
     ButtonsSound, ClaimSound, ScanSound, EngineSound, Owners

\* Steps of the loop that only move it on, refusals, ticks, cancelled buttons and
\* restarts.
LEMMA IdleSteps ==
  ASSUME DInv,
         \/ BootIgnores \/ ScanWaits \/ ScheduleRests \/ StartRefused \/ PollEnds
         \/ AskReport \/ Tick \/ Restart \/ (\E u \in Users : Cancel(u))
         \/ UNCHANGED vars
  PROVE  DInv'
<1> USE DEF durable, jobs, history, bounds
<1>1. UNCHANGED <<requests, claims, file, issued, starts, outcome>> /\ pending' \subseteq pending
  BY DEF BootIgnores, ScanWaits, ScheduleRests, StartRefused, PollEnds, AskReport, Tick,
         Restart, Cancel, vars
<1>2. \/ UNCHANGED <<engineJob, engineMode, engineReq, scanJob>>
      \/ /\ engineJob' = None /\ engineMode' = None /\ engineReq' = None /\ scanJob' = None
         /\ pc' = "down"
  BY DEF BootIgnores, ScanWaits, ScheduleRests, StartRefused, PollEnds, AskReport, Tick,
         Restart, Cancel, vars
<1>3. TypeOK'
  BY <1>1, DispatchAssumption
     DEF DInv, TypeOK, BootIgnores, ScanWaits, ScheduleRests, StartRefused, PollEnds,
         AskReport, Tick, Restart, Cancel, vars
<1>4. StartedAtMostOnce' /\ UnusedSound' /\ ButtonsSound'
      /\ \A o \in Owners : NotYet(o) => NotYet(o)'
  BY <1>1, <1>2, QuietFacts
<1>5. TradesOnlyWhatWasAsked' /\ OneRequestAtATime' /\ ScanSound' /\ EngineSound'
  BY <1>1, <1>2
     DEF DInv, TradesOnlyWhatWasAsked, OneRequestAtATime, ScanSound, EngineSound, Asked, Busy
<1>6. ClaimSound'
  <2>1. CASE UNCHANGED <<pc, arg, engineJob, scanJob>>
    BY <1>1, <2>1 DEF DInv, ClaimSound, NotYet, Busy
  <2>2. CASE pc' \in {"engine", "schedule", "poll"}
    BY <2>2 DEF ClaimSound
  <2>3. CASE pc' = "collect" /\ arg' \in {"monitor", "report"}
    BY <2>3 DEF ClaimSound
  <2>4. CASE pc' = "down" /\ engineJob' = None /\ scanJob' = None
    BY <2>4 DEF ClaimSound
  <2> QED
    BY <2>1, <2>2, <2>3, <2>4
       DEF BootIgnores, ScanWaits, ScheduleRests, StartRefused, PollEnds, AskReport, Tick,
           Restart, Cancel, vars
<1> QED BY <1>3, <1>4, <1>5, <1>6 DEF DInv

\* The loop collects a job that has ended.
LEMMA CollectSteps ==
  ASSUME DInv, LoopEngine \/ StartCollects
  PROVE  DInv'
<1> USE DEF durable, jobs, history, bounds
<1>1. /\ FinishEngineJob
      /\ UNCHANGED <<now, claims, file, scanJob, pending, issued, starts, outcome, reports,
                     crashes, arg>>
      /\ pc' \in {"scan", "start"} /\ (pc' = "start" => pc = "collect")
  BY DEF LoopEngine, StartCollects
<1>2. TypeOK'
  BY <1>1, FinishFacts DEF DInv, TypeOK, Ids
<1>3. StartedAtMostOnce' /\ UnusedSound' /\ ButtonsSound'
  BY <1>1, FinishFacts, QuietFacts
<1>4. TradesOnlyWhatWasAsked' /\ OneRequestAtATime'
  BY <1>1, FinishFacts DEF DInv, TradesOnlyWhatWasAsked, OneRequestAtATime, Asked, Busy
<1>5. ScanSound' /\ EngineSound'
  BY <1>1, FinishFacts DEF DInv, ScanSound, EngineSound, Asked
<1>6. ClaimSound'
  BY <1>1 DEF DInv, ClaimSound
<1> QED BY <1>2, <1>3, <1>4, <1>5, <1>6 DEF DInv

\* A worker ends.
LEMMA WorkerSteps ==
  ASSUME DInv, SomeEngineEnds \/ SomeScanEnds
  PROVE  DInv'
<1> USE DEF durable, jobs, history, bounds
<1>1. UNCHANGED <<now, requests, claims, pc, arg, engineMode, engineReq, pending, issued,
                  starts, reports, crashes>>
  BY DEF SomeEngineEnds, SomeScanEnds, EngineEnds, ScanEnds
<1>2. CASE SomeEngineEnds
  <2>1. PICK end \in {"ok", "failed"} : EngineEnds(end)
    BY <1>2 DEF SomeEngineEnds
  <2>2. engineJob \in EngineJobs
    BY <2>1, JobFacts DEF EngineEnds, Busy, DInv
  <2>3. /\ engineJob' = [mode |-> engineJob.mode, owner |-> engineJob.owner, end |-> end]
        /\ UNCHANGED <<scanJob, file>> /\ engineJob # None
    BY <2>1, <2>2 DEF EngineEnds, EngineJobs, Busy
  <2>4. engineJob' \in EngineJobs
    BY <2>2, <2>3 DEF EngineJobs, Ends
  <2>5. outcome' \in [Owners -> Ends \cup {"none"}]
    BY <2>1 DEF EngineEnds, DInv, TypeOK, Ends
  <2>6. TypeOK'
    BY <1>1, <2>3, <2>4, <2>5 DEF DInv, TypeOK
  <2>7. StartedAtMostOnce' /\ UnusedSound' /\ ButtonsSound'
        /\ \A o \in Owners : NotYet(o) => NotYet(o)'
    BY <1>1, <2>3, QuietFacts
  <2>8. engineJob' # None
    BY <2>4, DispatchAssumption
  <2>9. engineJob'.mode = engineJob.mode /\ engineJob'.owner = engineJob.owner
        /\ engineJob'.end = end
    BY <2>3
  <2>10. TradesOnlyWhatWasAsked' /\ OneRequestAtATime' /\ ScanSound' /\ EngineSound'
    BY <1>1, <2>3, <2>8, <2>9
       DEF DInv, TradesOnlyWhatWasAsked, OneRequestAtATime, ScanSound, EngineSound, Asked, Busy
  <2>11. ClaimSound'
    BY <1>1, <2>1, <2>3, <2>9 DEF DInv, ClaimSound, Busy, NotYet
  <2> QED BY <2>6, <2>7, <2>10, <2>11 DEF DInv
<1>3. CASE SomeScanEnds
  <2>1. PICK end \in {"ok", "failed"} : ScanEnds(end)
    BY <1>3 DEF SomeScanEnds
  <2>2. scanJob \in ScanJobs /\ scanJob # None /\ scanJob.asof \in 0..Horizon
    BY <2>1, JobFacts DEF ScanEnds, Busy, DInv
  <2>3. /\ scanJob' = [mode |-> scanJob.mode, owner |-> scanJob.owner,
                       asof |-> scanJob.asof, end |-> end]
        /\ UNCHANGED <<engineJob, outcome>>
    BY <2>1, <2>2 DEF ScanEnds, ScanJobs
  <2>4. scanJob' \in ScanJobs
    BY <2>2, <2>3 DEF ScanJobs, Ends
  <2>5. file' \in -1..Horizon
    BY <2>1, <2>2, DispatchAssumption DEF ScanEnds, DInv, TypeOK
  <2>6. TypeOK'
    BY <1>1, <2>3, <2>4, <2>5 DEF DInv, TypeOK
  <2>7. scanJob'.mode = scanJob.mode /\ scanJob'.owner = scanJob.owner
    BY <2>3
  <2>8. StartedAtMostOnce' /\ UnusedSound' /\ ButtonsSound'
        /\ \A o \in Owners : NotYet(o) => NotYet(o)'
    BY <1>1, <2>2, <2>7, QuietFacts
  <2>9. TradesOnlyWhatWasAsked' /\ OneRequestAtATime' /\ ScanSound' /\ EngineSound'
    BY <1>1, <2>2, <2>3, <2>7
       DEF DInv, TradesOnlyWhatWasAsked, OneRequestAtATime, ScanSound, EngineSound, Asked, Busy
  <2>10. ClaimSound'
    BY <1>1, <2>2, <2>3, <2>7 DEF DInv, ClaimSound, NotYet, Busy
  <2> QED BY <2>6, <2>8, <2>9, <2>10 DEF DInv
<1> QED BY <1>2, <1>3

\* A scan is given up or only shown.
LEMMA ScanOverSteps ==
  ASSUME DInv, ScanFailed \/ ScanShown
  PROVE  DInv'
<1> USE DEF durable, jobs, history, bounds
<1>1. /\ scanJob # None /\ scanJob' = None /\ pc' = "schedule"
      /\ UNCHANGED <<now, claims, file, arg, pending, issued, starts, outcome, reports, crashes>>
  BY DEF ScanFailed, ScanShown, Done
<1>2. /\ requests \in [Ids -> Statuses] /\ DOMAIN requests = Ids
      /\ scanJob.owner \in Ids => requests[scanJob.owner] = "claimed"
      /\ engineReq \in Ids => requests[engineReq] = "executing"
  BY <1>1, OwnerFacts DEF DInv, TypeOK, Ids, ScanSound, EngineSound
<1>3. \/ UNCHANGED <<engineJob, engineMode, engineReq>>
      \/ engineJob' = None /\ engineMode' = None /\ engineReq' = None
  BY DEF ScanFailed, ScanShown
<1>4. /\ requests' \in [Ids -> Statuses]
      /\ \A o \in Ids : requests'[o] # requests[o] =>
           \/ requests[o] = "claimed" /\ requests'[o] \in {"scan_failed", "scan_expired"}
           \/ /\ requests[o] = "executing"
              /\ requests'[o] \in {"completed", "execution_failed"}
              /\ engineReq' = None
  <2>1. CASE ScanFailed
    BY <2>1, <1>2 DEF ScanFailed, Record, Statuses
  <2>2. CASE ScanShown
    <3>1. /\ Collected \in [Ids -> Statuses]
          /\ \A o \in Ids : Collected[o] # requests[o] =>
               requests[o] = "executing" /\ Collected[o] \in {"completed", "execution_failed"}
      BY <1>2 DEF Collected, Statuses
    <3>2. engineReq' = None
      BY <2>2 DEF ScanShown
    <3>3. CASE requests' = Collected
      BY <3>1, <3>2, <3>3
    <3>4. CASE /\ scanJob.owner \in Ids
               /\ requests' = [Collected EXCEPT ![scanJob.owner] = "scan_expired"]
      <4>1. requests' \in [Ids -> Statuses]
        BY <3>1, <3>4 DEF Statuses
      <4>2. \A o \in Ids : IF o = scanJob.owner THEN requests'[o] = "scan_expired"
                           ELSE requests'[o] = Collected[o]
        BY <3>1, <3>4
      <4> QED BY <1>2, <3>1, <3>2, <3>4, <4>1, <4>2
    <3> QED BY <2>2, <1>2, <3>3, <3>4 DEF ScanShown
  <2> QED BY <2>1, <2>2
<1>5. TypeOK'
  BY <1>1, <1>3, <1>4 DEF DInv, TypeOK, Ids
<1>6. \A o \in Owners : NotYet(o) => NotYet(o)'
  BY <1>1 DEF NotYet
<1>7. StartedAtMostOnce' /\ UnusedSound' /\ ButtonsSound'
  <2>1. \A o \in Ids : requests[o] = "none" <=> requests'[o] = "none"
    BY <1>4
  <2>2. \A b \in pending : b.token \in Owners
    BY DEF DInv, TypeOK, Buttons, Owners
  <2> QED BY <1>1, <1>6, <2>1, <2>2, OwnerFacts
          DEF DInv, StartedAtMostOnce, UnusedSound, ButtonsSound
<1>8. EngineSound'
  BY <1>3, <1>4, OwnerFacts DEF DInv, TypeOK, Ids, EngineSound
<1>9. TradesOnlyWhatWasAsked' /\ OneRequestAtATime' /\ ScanSound' /\ ClaimSound'
  BY <1>1, <1>3
     DEF DInv, TradesOnlyWhatWasAsked, OneRequestAtATime, ScanSound, ClaimSound, Asked, Busy
<1> QED BY <1>5, <1>7, <1>8, <1>9 DEF DInv

\* A finished scan is handed to the engine.
LEMMA DispatchStep ==
  ASSUME DInv, ScanDispatched
  PROVE  DInv'
<1> USE DEF durable, jobs, history, bounds
<1> DEFINE o == scanJob.owner
<1>1. /\ scanJob # None /\ scanJob' = None /\ pc' = "schedule" /\ scanJob.mode # "rescan"
      /\ UNCHANGED <<now, claims, file, arg, pending, issued, reports, crashes>>
      /\ engineMode' = scanJob.mode
      /\ engineJob' = [mode |-> scanJob.mode, owner |-> o, end |-> "running"]
      /\ starts' = [starts EXCEPT ![o] = @ + 1]
      /\ outcome' = [outcome EXCEPT ![o] = "running"]
  BY DEF ScanDispatched, Done
<1>2. /\ o \in Owners /\ scanJob.mode \in Trading /\ starts[o] = 0
      /\ scanJob.mode = Asked(o)
      /\ o \in Ids => requests[o] = "claimed"
      /\ o \in Days => o \in claims
      /\ o \in Tokens => issued[o] # None
  BY <1>1, JobFacts DEF DInv, ScanSound
<1>3. /\ requests \in [Ids -> Statuses] /\ DOMAIN requests = Ids
      /\ engineReq \in Ids => requests[engineReq] = "executing"
  BY OwnerFacts DEF DInv, TypeOK, Ids, EngineSound
<1>4. /\ Collected \in [Ids -> Statuses]
      /\ \A i \in Ids : Collected[i] # requests[i] =>
           requests[i] = "executing" /\ Collected[i] \in {"completed", "execution_failed"}
  BY <1>3 DEF Collected, Statuses
<1>5. /\ requests' \in [Ids -> Statuses]
      /\ \A i \in Ids : IF i = o THEN requests'[i] = "executing"
                         ELSE requests'[i] = Collected[i]
      /\ engineReq' = IF o \in Ids THEN o ELSE None
  BY <1>3, <1>4 DEF ScanDispatched, Statuses
<1>6. /\ engineJob' \in EngineJobs /\ engineJob' # None
      /\ engineJob'.mode = scanJob.mode /\ engineJob'.owner = o
  BY <1>1, <1>2, DispatchAssumption DEF EngineJobs, Ends
<1>7. /\ starts' \in [Owners -> Nat] /\ starts'[o] = 1
      /\ \A i \in Owners : i # o => starts'[i] = starts[i]
  BY <1>1, <1>2 DEF DInv, TypeOK
<1>8. TypeOK'
  <2>1. outcome' \in [Owners -> Ends \cup {"none"}]
    BY <1>1, <1>2 DEF DInv, TypeOK, Ends
  <2>2. engineMode' \in Modes /\ engineReq' \in Ids \cup {None}
    BY <1>1, <1>2, <1>5 DEF Modes
  <2> QED BY <1>1, <1>5, <1>6, <1>7, <2>1, <2>2 DEF DInv, TypeOK, Ids
<1>9. \A i \in Owners : i # o /\ NotYet(i) => NotYet(i)'
  BY <1>1, <1>7 DEF NotYet
<1>10. \A i \in Owners : NotYet(i) => i # o
  BY <1>1 DEF NotYet
<1>11. StartedAtMostOnce' /\ UnusedSound' /\ ButtonsSound'
  <2>1. \A i \in Ids : requests[i] = "none" <=> requests'[i] = "none"
    BY <1>2, <1>3, <1>4, <1>5
  <2>2. \A b \in pending : b.token \in Owners
    BY DEF DInv, TypeOK, Buttons, Owners
  <2>3. StartedAtMostOnce'
    BY <1>7 DEF DInv, StartedAtMostOnce
  <2>4. UnusedSound'
    BY <1>1, <1>9, <1>10, <2>1, OwnerFacts DEF DInv, UnusedSound
  <2>5. ButtonsSound'
    BY <1>1, <1>9, <1>10, <2>2 DEF DInv, ButtonsSound
  <2> QED BY <2>3, <2>4, <2>5
<1>12. TradesOnlyWhatWasAsked' /\ OneRequestAtATime' /\ ScanSound' /\ ClaimSound'
  <2>1. PICK i \in Owners : i = o /\ i # None
    BY <1>2, OwnerFacts
  <2>2. TradesOnlyWhatWasAsked'
    BY <1>1, <1>2, <1>6, <1>7, <2>1 DEF TradesOnlyWhatWasAsked, Asked
  <2>3. OneRequestAtATime' /\ ScanSound' /\ ClaimSound'
    BY <1>1 DEF OneRequestAtATime, ScanSound, ClaimSound
  <2> QED BY <2>2, <2>3
<1>13. EngineSound'
  BY <1>1, <1>5, <1>6, OwnerFacts DEF EngineSound
<1> QED BY <1>8, <1>11, <1>12, <1>13 DEF DInv

\* A one-shot id, a date or its record is claimed.
LEMMA ClaimSteps ==
  ASSUME DInv,
         \/ \E i \in OneShots : BootClaims(i)
         \/ \E d \in Days : ScheduleClaims(d)
         \/ ScheduleRecords
  PROVE  DInv'
<1> USE DEF durable, jobs, history, bounds
<1>1. UNCHANGED <<now, file, engineJob, engineMode, engineReq, scanJob, pending, issued,
                  starts, outcome, reports, crashes>>
  BY DEF BootClaims, ScheduleClaims, ScheduleRecords
<1>2. requests \in [Ids -> Statuses] /\ DOMAIN requests = Ids
  BY DEF DInv, TypeOK, Ids
<1>3. \A o \in Owners : NotYet(o) <=> NotYet(o)'
  BY <1>1 DEF NotYet
<1>4. PICK k \in Ids :
        /\ arg' = k /\ k \in Owners /\ NotYet(k)
        /\ requests[k] = "none" /\ scanJob = None
        /\ requests' \in [Ids -> Statuses] /\ \A i \in Ids : i # k => requests'[i] = requests[i]
        /\ claims' \subseteq Days /\ \A d \in Days : d # k => (d \in claims' <=> d \in claims)
        /\ \/ /\ pc' = "boot" /\ k \in OneShots /\ k \notin Days
              /\ requests'[k] = "claimed" /\ engineJob = None
           \/ /\ pc' = "claimed" /\ k \in Days /\ k \in claims' /\ k \notin OneShots
              /\ requests'[k] = "none" /\ ~Busy(engineJob)
           \/ /\ pc' = "daily" /\ k \in Days /\ k \in claims' /\ k \notin OneShots
              /\ requests'[k] = "claimed" /\ ~Busy(engineJob)
  <2>1. ASSUME NEW i \in OneShots, BootClaims(i)
        PROVE  /\ i \in Ids /\ i \in Owners /\ i \notin Days
               /\ arg' = i /\ NotYet(i) /\ requests[i] = "none" /\ scanJob = None
               /\ requests' = [requests EXCEPT ![i] = "claimed"] /\ claims' = claims
               /\ pc' = "boot" /\ engineJob = None
    BY <1>2, <2>1, OwnerFacts DEF BootClaims, Record, DInv, UnusedSound, ClaimSound
  <2>2. ASSUME NEW d \in Days, ScheduleClaims(d)
        PROVE  /\ d \in Ids /\ d \in Owners /\ d \notin OneShots
               /\ arg' = d /\ NotYet(d) /\ requests[d] = "none" /\ scanJob = None
               /\ requests' = requests /\ claims' = claims \cup {d}
               /\ pc' = "claimed" /\ ~Busy(engineJob)
    BY <1>2, <2>2, OwnerFacts DEF ScheduleClaims, DInv, UnusedSound
  <2>3. ASSUME ScheduleRecords
        PROVE  /\ arg \in Days /\ arg \in claims /\ arg \in Ids /\ arg \in Owners /\ arg \notin OneShots
               /\ arg' = arg /\ NotYet(arg) /\ requests[arg] = "none" /\ scanJob = None
               /\ requests' = [requests EXCEPT ![arg] = "claimed"] /\ claims' = claims
               /\ pc' = "daily" /\ ~Busy(engineJob)
    BY <1>2, <2>3, OwnerFacts DEF ScheduleRecords, Record, DInv, TypeOK, ClaimSound
  <2>4. claims \subseteq Days /\ "claimed" \in Statuses
    BY DEF DInv, TypeOK, Statuses
  <2>5. CASE \E i \in OneShots : BootClaims(i)
    BY <1>2, <2>1, <2>4, <2>5
  <2>6. CASE \E d \in Days : ScheduleClaims(d)
    BY <1>2, <2>2, <2>4, <2>6
  <2>7. CASE ScheduleRecords
    <3>1. PICK k \in Ids : k = arg
      BY <2>3, <2>7
    <3> QED BY <1>2, <2>3, <2>4, <2>7, <3>1
  <2> QED BY <2>5, <2>6, <2>7
<1>5. TypeOK'
  BY <1>1, <1>4 DEF DInv, TypeOK, Ids
<1>6. UnusedSound'
  BY <1>1, <1>3, <1>4, OwnerFacts DEF DInv, UnusedSound
<1>7. ButtonsSound'
  <2>1. \A b \in pending : b.token \in Owners
    BY DEF DInv, TypeOK, Buttons, Owners
  <2> QED BY <1>1, <1>3, <2>1 DEF DInv, ButtonsSound
<1>8. StartedAtMostOnce' /\ TradesOnlyWhatWasAsked' /\ OneRequestAtATime' /\ ScanSound'
  BY <1>1, <1>4
     DEF DInv, StartedAtMostOnce, TradesOnlyWhatWasAsked, OneRequestAtATime, ScanSound, Asked, Busy
<1>9. EngineSound'
  BY <1>1, <1>4, OwnerFacts DEF DInv, TypeOK, Ids, EngineSound
<1>10. ClaimSound'
  BY <1>1, <1>3, <1>4 DEF ClaimSound, Busy
<1> QED BY <1>5, <1>6, <1>7, <1>8, <1>9, <1>10 DEF DInv

\* A scan is started for the owner of a request, date or button that has
\* started nothing yet, or for nobody.
LEMMA StartScanFacts ==
  ASSUME DInv, NEW m, NEW o \in Owners \cup {None}, StartScan(m, o),
         m \in Trading \cup {"rescan"}, m = "rescan" <=> o = None,
         o # None => /\ m = Asked(o) /\ starts[o] = 0
                     /\ o \in Ids => requests[o] = "claimed"
                     /\ o \in Days => o \in claims
                     /\ o \in Tokens => issued[o] # None,
         UNCHANGED <<now, claims, file, issued, starts, outcome, reports, crashes>>,
         pending' \subseteq pending,
         \A b \in pending' : b.token # o,
         pc' \in {"engine", "collect", "poll"},
         arg' \in Ids \cup {None, "monitor", "report"},
         pc' = "collect" => arg' = "monitor"
  PROVE  DInv'
<1>1. /\ scanJob = None /\ FinishEngineJob
      /\ ~(Busy(engineJob) /\ engineMode \in Trading)
      /\ scanJob' = [mode |-> m, owner |-> o, asof |-> now, end |-> "running"]
  BY DEF StartScan, CanScan
<1>2. scanJob' \in ScanJobs /\ scanJob'.mode = m /\ scanJob'.owner = o
  BY <1>1 DEF ScanJobs, Ends, DInv, TypeOK
<1>3. TypeOK'
  BY <1>2, <1>1, FinishFacts DEF DInv, TypeOK, Ids
<1>4. \A i \in Owners : i # o /\ NotYet(i) => NotYet(i)'
  BY <1>2 DEF NotYet
<1>5. \A i \in Ids : \/ requests'[i] = requests[i]
                     \/ requests[i] = "executing" /\ requests'[i] \in {"completed", "execution_failed"}
  BY <1>1, FinishFacts
<1>6. UnusedSound'
  BY <1>4, <1>5, OwnerFacts DEF DInv, UnusedSound
<1>7. ButtonsSound'
  <2>1. \A b \in pending : b.token \in Owners
    BY DEF DInv, TypeOK, Buttons, Owners
  <2> QED BY <1>4, <2>1 DEF DInv, ButtonsSound
<1>8. ScanSound'
  <2>1. o # None => Asked(o)' = Asked(o)
    BY DEF Asked
  <2>2. None \notin Ids /\ None \notin Days /\ None \notin Tokens
    BY OwnerFacts
  <2>3. o \in Ids => requests'[o] = "claimed"
    BY <1>5, <2>2
  <2> QED BY <1>2, <2>1, <2>2, <2>3 DEF ScanSound, Asked
<1>9. StartedAtMostOnce' /\ TradesOnlyWhatWasAsked'
  BY <1>1, FinishFacts DEF DInv, StartedAtMostOnce, TradesOnlyWhatWasAsked, Asked
<1>10. OneRequestAtATime' /\ EngineSound'
  BY <1>1, FinishFacts DEF DInv, OneRequestAtATime, EngineSound, Busy
<1>11. ClaimSound'
  BY DEF ClaimSound
<1> QED BY <1>3, <1>6, <1>7, <1>8, <1>9, <1>10, <1>11 DEF DInv

\* The four ways to start a scan.
LEMMA StartScanSteps ==
  ASSUME DInv, BootStarts \/ ScheduleStarts \/ Rescan
  PROVE  DInv'
<1> USE DEF durable, jobs, history, bounds
<1>1. \A b \in pending : b.token \in Tokens /\ b.token \in Owners
  BY DEF DInv, TypeOK, Buttons, Owners
<1>2. CASE BootStarts
  <2>1. /\ arg \in OneShots /\ arg \in Owners /\ arg \in Ids /\ arg \notin Days /\ arg \notin Tokens
        /\ requests[arg] = "claimed" /\ starts[arg] = 0 /\ arg # None
        /\ ShotMode[arg] \in Trading /\ ShotMode[arg] # "rescan" /\ Asked(arg) = ShotMode[arg]
    BY <1>2, OwnerFacts, DispatchAssumption
       DEF BootStarts, DInv, ClaimSound, NotYet, Trading, Asked
  <2>2. PICK o \in Owners : o = arg
    BY <2>1
  <2> QED BY <1>1, <1>2, <2>1, <2>2, StartScanFacts DEF BootStarts
<1>3. CASE ScheduleStarts
  <2>1. /\ arg \in claims /\ arg \in Days /\ arg \in Owners /\ arg \in Ids
        /\ arg \notin OneShots /\ arg \notin Tokens
        /\ requests[arg] = "claimed" /\ starts[arg] = 0 /\ arg # None
        /\ Asked(arg) = "morning"
    BY <1>3, OwnerFacts DEF ScheduleStarts, DInv, TypeOK, ClaimSound, NotYet, Asked
  <2>2. PICK o \in Owners : o = arg
    BY <2>1
  <2> QED BY <1>1, <1>3, <2>1, <2>2, StartScanFacts DEF ScheduleStarts, Trading
<1>4. CASE Rescan
  <2>1. /\ StartScan("rescan", None) /\ pc' = "poll" /\ arg' = arg
        /\ UNCHANGED <<now, claims, file, issued, starts, outcome, reports, crashes, pending>>
    BY <1>4 DEF Rescan
  <2>2. arg \in Ids \cup {None, "monitor", "report"}
    BY DEF DInv, TypeOK, Ids
  <2>3. \A b \in pending : b.token # None
    BY <1>1, OwnerFacts
  <2> QED BY <2>1, <2>2, <2>3, StartScanFacts
<1> QED BY <1>2, <1>3, <1>4

\* A confirmed button starts the scan it was shown for, or nothing.
LEMMA ConfirmStep ==
  ASSUME DInv, NEW b \in pending, Confirm(b)
  PROVE  DInv'
<1> USE DEF durable, jobs, history, bounds
<1>1. /\ b.token \in Tokens /\ b.token \in Owners /\ b.action \in Trading
      /\ b.token \notin Ids /\ b.token \notin OneShots /\ b.token \notin Days
      /\ b.token # None /\ b.action # "rescan"
      /\ issued[b.token] = b.action /\ NotYet(b.token)
      /\ \A c \in pending : c.token = b.token => c = b
  BY OwnerFacts, DispatchAssumption
     DEF DInv, TypeOK, Buttons, Owners, ButtonsSound, Trading, Ids
<1>2. /\ pc = "poll" /\ pc' = "poll" /\ arg' = arg /\ pending' = pending \ {b}
      /\ UNCHANGED <<now, claims, file, issued, starts, outcome, reports, crashes>>
  BY DEF Confirm
<1>3. arg \in Ids \cup {None, "monitor", "report"}
  BY DEF DInv, TypeOK, Ids
<1>4. CASE StartScan(b.action, b.token)
  <2>1. Asked(b.token) = b.action
    BY <1>1 DEF Asked
  <2>2. issued[b.token] # None
    BY <1>1, DispatchAssumption DEF Modes
  <2>3. \A c \in pending' : c.token # b.token
    BY <1>1, <1>2
  <2> QED BY <1>1, <1>2, <1>3, <1>4, <2>1, <2>2, <2>3, StartScanFacts DEF NotYet
<1>5. CASE /\ UNCHANGED scanJob
           /\ FinishEngineJob \/ UNCHANGED <<requests, engineJob, engineMode, engineReq>>
  <2>1. FinishEngineJob \/ UNCHANGED <<requests, engineJob, engineMode, engineReq>>
    BY <1>5
  <2>2. /\ requests' \in [Ids -> Statuses]
        /\ \A o \in Ids :
              \/ requests'[o] = requests[o]
              \/ requests[o] = "executing" /\ requests'[o] \in {"completed", "execution_failed"}
        /\ \/ UNCHANGED <<requests, engineJob, engineMode, engineReq>>
           \/ engineJob' = None /\ engineMode' = None /\ engineReq' = None
        /\ engineJob' \in EngineJobs \cup {None} /\ engineMode' \in Modes \cup {None}
        /\ engineReq' \in Ids \cup {None}
    <3>1. CASE FinishEngineJob
      BY <3>1, FinishFacts
    <3>2. CASE UNCHANGED <<requests, engineJob, engineMode, engineReq>>
      BY <3>2 DEF DInv, TypeOK, Ids
    <3> QED BY <2>1, <3>1, <3>2
  <2>3. TypeOK'
    BY <1>2, <1>5, <2>2 DEF DInv, TypeOK, Ids
  <2>4. StartedAtMostOnce' /\ UnusedSound' /\ ButtonsSound'
    BY <1>2, <1>5, <2>2, QuietFacts
  <2>5. TradesOnlyWhatWasAsked' /\ OneRequestAtATime'
    BY <1>2, <1>5, <2>2 DEF DInv, TradesOnlyWhatWasAsked, OneRequestAtATime, Asked, Busy
  <2>6. ScanSound' /\ EngineSound'
    BY <1>2, <1>5, <2>2 DEF DInv, ScanSound, EngineSound, Asked
  <2>7. ClaimSound'
    BY <1>2 DEF ClaimSound
  <2> QED BY <2>3, <2>4, <2>5, <2>6, <2>7 DEF DInv
<1> QED BY <1>4, <1>5 DEF Confirm

\* A monitor or report is submitted; a job that ended in between is dropped.
LEMMA SubmitStep ==
  ASSUME DInv, StartSubmits
  PROVE  DInv'
<1> USE DEF durable, jobs, history, bounds
<1>1. /\ pc' = "poll" /\ arg' = None /\ arg \in {"monitor", "report"}
      /\ engineMode' = arg /\ engineJob' = [mode |-> arg, owner |-> None, end |-> "running"]
      /\ UNCHANGED <<now, requests, claims, file, engineReq, scanJob, pending, issued, starts,
                     outcome, reports, crashes>>
  BY DEF StartSubmits, DInv, ClaimSound
<1>2. /\ engineJob' \in EngineJobs /\ engineJob' # None /\ engineJob'.mode = arg
      /\ arg \notin Trading
  BY <1>1, DispatchAssumption DEF EngineJobs, Ends, Trading
<1>3. TypeOK'
  BY <1>1, <1>2 DEF DInv, TypeOK, Modes
<1>4. StartedAtMostOnce' /\ UnusedSound' /\ ButtonsSound'
  BY <1>1, QuietFacts
<1>5. TradesOnlyWhatWasAsked' /\ OneRequestAtATime' /\ ScanSound' /\ EngineSound' /\ ClaimSound'
  BY <1>1, <1>2
     DEF DInv, TradesOnlyWhatWasAsked, OneRequestAtATime, ScanSound, EngineSound, ClaimSound, Asked
<1> QED BY <1>3, <1>4, <1>5 DEF DInv

\* A button is shown under a token that was never used.
LEMMA IssueStep ==
  ASSUME DInv, NEW t \in Tokens, NEW u \in Users, NEW a \in Actions, Issue(t, u, a)
  PROVE  DInv'
<1> USE DEF durable, jobs, history, bounds
<1> DEFINE new == [token |-> t, user |-> u, action |-> a, until |-> now + TokenLife]
<1>1. /\ pc = "poll" /\ issued[t] = None /\ pending' \subseteq pending \cup {new}
      /\ issued' = [issued EXCEPT ![t] = a]
      /\ UNCHANGED <<now, requests, claims, file, pc, arg, engineJob, engineMode, engineReq,
                     scanJob, starts, outcome, reports, crashes>>
  BY DEF Issue
<1>2. a \in Trading /\ t \in Owners /\ t \notin OneShots /\ t \notin Days /\ a # None
  BY DispatchAssumption DEF Owners, Modes
<1>3. new \in Buttons /\ new.token = t /\ new.action = a
  BY <1>2, DispatchAssumption DEF Buttons, DInv, TypeOK
<1>4. issued' \in [Tokens -> Trading \cup {None}] /\ issued'[t] = a
      /\ \A x \in Tokens : x # t => issued'[x] = issued[x]
  BY <1>1, <1>2 DEF DInv, TypeOK
<1>5. TypeOK'
  <2>1. pending' \subseteq Buttons
    BY <1>1, <1>3 DEF DInv, TypeOK
  <2> HIDE DEF new
  <2> QED BY <1>1, <1>4, <2>1 DEF DInv, TypeOK
<1>6. \A o \in Owners : NotYet(o) <=> NotYet(o)'
  BY <1>1 DEF NotYet
<1>7. NotYet(t)
  BY <1>1 DEF DInv, UnusedSound
<1>8. UnusedSound'
  BY <1>1, <1>2, <1>4, <1>6, OwnerFacts DEF DInv, UnusedSound
<1>9. ButtonsSound'
  <2>1. \A b \in pending : b.token \in Tokens /\ b.token \in Owners /\ b.action \in Trading
    BY DEF DInv, TypeOK, Buttons, Owners
  <2>2. \A b \in pending : issued[b.token] = b.action /\ b.action # None
    BY <2>1, DispatchAssumption DEF DInv, ButtonsSound, Modes
  <2>3. \A b \in pending : b.token # t
    BY <1>1, <2>2
  <2> HIDE DEF new
  <2> QED
    BY <1>1, <1>2, <1>3, <1>4, <1>6, <1>7, <2>1, <2>3 DEF DInv, ButtonsSound
<1>10. StartedAtMostOnce' /\ OneRequestAtATime' /\ EngineSound' /\ ClaimSound'
  BY <1>1 DEF DInv, StartedAtMostOnce, OneRequestAtATime, EngineSound, ClaimSound
<1>11. \A o \in Owners : starts[o] # 0 \/ (scanJob # None /\ scanJob.owner = o) => o # t
  BY <1>7 DEF NotYet
<1>12. \A o \in Owners : o # t => Asked(o)' = Asked(o)
  BY <1>1, <1>4, OwnerFacts DEF Asked
<1>13. TradesOnlyWhatWasAsked'
  <2>1. CASE engineJob # None /\ engineJob.mode \in Trading
    <3>1. /\ engineJob.owner \in Owners /\ starts[engineJob.owner] = 1
          /\ engineJob.mode = Asked(engineJob.owner) /\ engineJob.owner # None
      BY <2>1, JobFacts DEF DInv, TradesOnlyWhatWasAsked
    <3>2. PICK o \in Owners : o = engineJob.owner
      BY <3>1
    <3>3. Asked(o)' = Asked(o)
      BY <3>1, <3>2, <1>11, <1>12
    <3> QED BY <1>1, <3>1, <3>2, <3>3 DEF TradesOnlyWhatWasAsked, Asked
  <2>2. CASE ~(engineJob # None /\ engineJob.mode \in Trading)
    BY <1>1, <2>2 DEF TradesOnlyWhatWasAsked
  <2> QED BY <2>1, <2>2
<1>14. ScanSound'
  <2>1. CASE scanJob # None /\ scanJob.owner # None
    <3>1. scanJob.owner \in Owners
      BY <2>1, JobFacts DEF DInv
    <3>2. PICK o \in Owners : o = scanJob.owner
      BY <3>1
    <3>3. o # t /\ Asked(o)' = Asked(o)
      BY <2>1, <3>2, <1>11, <1>12
    <3> QED BY <1>1, <1>4, <2>1, <3>2, <3>3 DEF DInv, ScanSound, Asked
  <2>2. CASE scanJob # None /\ scanJob.owner = None
    <3>1. None \notin Tokens
      BY OwnerFacts
    <3> QED BY <1>1, <2>2, <3>1 DEF DInv, ScanSound
  <2>3. CASE scanJob = None
    BY <1>1, <2>3 DEF ScanSound
  <2> QED BY <2>1, <2>2, <2>3
<1> QED BY <1>5, <1>8, <1>9, <1>10, <1>13, <1>14 DEF DInv

\* Every step keeps the invariant.
LEMMA NextDInv == DInv /\ [Next]_vars => DInv'
<1> SUFFICES ASSUME DInv, [Next]_vars PROVE DInv'
  OBVIOUS
<1>1. CASE Boot
  BY <1>1, IdleSteps, ClaimSteps, StartScanSteps DEF Boot
<1>2. CASE Loop
  BY <1>2, IdleSteps, CollectSteps, ScanOverSteps, DispatchStep, ClaimSteps, StartScanSteps,
     SubmitStep DEF Loop
<1>3. CASE Telegram
  BY <1>3, IdleSteps, IssueStep, ConfirmStep, StartScanSteps DEF Telegram
<1>4. CASE SomeEngineEnds \/ SomeScanEnds
  BY <1>4, WorkerSteps
<1>5. CASE Tick \/ Restart \/ UNCHANGED vars
  BY <1>5, IdleSteps
<1> QED BY <1>1, <1>2, <1>3, <1>4, <1>5 DEF Next

\* Requests, buttons, the scan and the engine job agree at every step.
THEOREM DInvInvariant == Spec => []DInv
<1>1. Init => DInv
  BY InitDInv
<1>2. DInv /\ [Next]_vars => DInv'
  BY NextDInv
<1> QED BY <1>1, <1>2, PTL DEF Spec

\* A one-shot request, a scheduled date or a confirmation starts at most one
\* PAPER job, whatever restarts come between its claim and its job.
THEOREM AtMostOnce == Spec => []StartedAtMostOnce
<1>1. DInv => StartedAtMostOnce
  BY DEF DInv
<1> QED BY <1>1, DInvInvariant, PTL

\* A trading job does what its request, date or button asked for.
THEOREM OnlyWhatWasAsked == Spec => []TradesOnlyWhatWasAsked
<1>1. DInv => TradesOnlyWhatWasAsked
  BY DEF DInv
<1> QED BY <1>1, DInvInvariant, PTL

\* No scan for one request runs beside the trading job of another.
THEOREM OneAtATime == Spec => []OneRequestAtATime
<1>1. DInv => OneRequestAtATime
  BY DEF DInv
<1> QED BY <1>1, DInvInvariant, PTL

\* Requests, dates and buttons are carried out at most once, as asked, and one
\* at a time, over restarts and overlapping scans.
THEOREM Kept == Spec => []RequestsAreKept
<1>1. StartedAtMostOnce /\ TradesOnlyWhatWasAsked /\ OneRequestAtATime => RequestsAreKept
  BY DEF RequestsAreKept
<1> QED BY <1>1, AtMostOnce, OnlyWhatWasAsked, OneAtATime, PTL

-----------------------------------------------------------------------------
(* What a step does to a request and to a running job.                     *)

\* The moves a request may make.
Forward(old, new) ==
  \/ new = old
  \/ old = "none" /\ new = "claimed"
  \/ old = "claimed" /\ new \in {"scan_failed", "scan_expired", "executing"}
  \/ old = "executing" /\ new \in {"completed", "execution_failed"}

\* A recorded claim is the first thing said of its request.
LEMMA RecordAdvances ==
  ASSUME DInv, NEW id, NEW status, Record(id, status),
         id \in Ids => Forward(requests[id], status)
  PROVE  \A o \in Ids : Forward(requests[o], requests'[o])
<1>1. requests \in [Ids -> Statuses] /\ DOMAIN requests = Ids
  BY DEF DInv, TypeOK, Ids
<1>2. CASE id \in Ids
  <2>1. requests' = [requests EXCEPT ![id] = status]
    BY <1>1, <1>2 DEF Record
  <2>2. \A o \in Ids : IF o = id THEN requests'[o] = status ELSE requests'[o] = requests[o]
    BY <1>1, <2>1
  <2>3. ASSUME NEW o \in Ids PROVE Forward(requests[o], requests'[o])
    <3>1. CASE o = id
      <4>1. requests'[o] = status
        BY <2>2, <3>1
      <4> QED BY <1>2, <3>1, <4>1
    <3>2. CASE o # id
      BY <2>2, <3>2 DEF Forward
    <3> QED BY <3>1, <3>2
  <2> QED BY <2>3
<1>3. CASE id \notin Ids
  BY <1>1, <1>3 DEF Record, Forward
<1> QED BY <1>2, <1>3

\* finish_engine_job() moves only the request it was working for.
LEMMA CollectedAdvances ==
  ASSUME DInv
  PROVE  /\ Collected \in [Ids -> Statuses]
         /\ \A o \in Ids : Forward(requests[o], Collected[o])
         /\ \A o \in Ids : requests[o] = "claimed" => Collected[o] = "claimed"
<1>1. requests \in [Ids -> Statuses] /\ DOMAIN requests = Ids
  BY DEF DInv, TypeOK, Ids
<1>2. engineReq \in Ids => requests[engineReq] = "executing"
  BY OwnerFacts DEF DInv, EngineSound
<1>3. Collected \in [Ids -> Statuses]
  BY <1>1 DEF Collected, Statuses
<1>4. \A o \in Ids : \/ Collected[o] = requests[o]
                     \/ /\ requests[o] = "executing"
                        /\ Collected[o] \in {"completed", "execution_failed"}
  BY <1>1, <1>2 DEF Collected
<1> QED BY <1>3, <1>4 DEF Forward

\* The two ways a finished scan leaves the loop for good: shown or dispatched.
LEMMA ScanAdvances ==
  ASSUME DInv, ScanShown \/ ScanDispatched
  PROVE  \A o \in Ids : Forward(requests[o], requests'[o])
<1>1. requests \in [Ids -> Statuses] /\ DOMAIN requests = Ids
  BY DEF DInv, TypeOK, Ids
<1>2. scanJob # None
  BY DEF ScanShown, ScanDispatched, Done
<1>3. scanJob.owner \in Ids => requests[scanJob.owner] = "claimed"
  BY <1>2 DEF DInv, ScanSound
<1>4. CASE requests' = Collected
  BY <1>4, CollectedAdvances
<1>5. ASSUME NEW status \in {"scan_expired", "executing"}, scanJob.owner \in Ids,
             requests' = [Collected EXCEPT ![scanJob.owner] = status]
      PROVE  \A o \in Ids : Forward(requests[o], requests'[o])
  <2>1. \A o \in Ids : IF o = scanJob.owner THEN requests'[o] = status
                       ELSE requests'[o] = Collected[o]
    BY <1>5, CollectedAdvances
  <2>2. Forward(requests[scanJob.owner], status)
    BY <1>3, <1>5 DEF Forward
  <2>3. ASSUME NEW o \in Ids PROVE Forward(requests[o], requests'[o])
    <3>1. CASE o = scanJob.owner
      <4>1. requests'[o] = status
        BY <2>1, <3>1
      <4> QED BY <2>2, <3>1, <4>1
    <3>2. CASE o # scanJob.owner
      <4>1. requests'[o] = Collected[o]
        BY <2>1, <3>2
      <4> QED BY <4>1, CollectedAdvances
    <3> QED BY <3>1, <3>2
  <2> QED BY <2>3
<1> QED BY <1>1, <1>4, <1>5 DEF ScanShown, ScanDispatched

\* Every step moves every request forward or leaves it.
LEMMA StatusSteps ==
  ASSUME DInv, [Next]_vars
  PROVE  \A o \in Ids : Forward(requests[o], requests'[o])
<1> USE DEF durable, jobs, history, bounds
<1>1. CASE UNCHANGED requests
  BY <1>1 DEF Forward
<1>2. CASE FinishEngineJob
  <2>1. \A o \in Ids : \/ requests'[o] = requests[o]
                       \/ /\ requests[o] = "executing"
                          /\ requests'[o] \in {"completed", "execution_failed"}
    BY <1>2, FinishFacts
  <2> QED BY <2>1 DEF Forward
<1>3. CASE \E s \in OneShots : BootClaims(s)
  <2>1. PICK s \in OneShots : BootClaims(s)
    BY <1>3
  <2>2. Record(s, "claimed") /\ Forward(requests[s], "claimed")
    BY <2>1 DEF BootClaims, Forward
  <2> QED BY <2>2, RecordAdvances
<1>4. CASE ScheduleRecords
  <2>1. Record(arg, "claimed") /\ Forward(requests[arg], "claimed")
    BY <1>4 DEF ScheduleRecords, DInv, ClaimSound, Forward
  <2> QED BY <2>1, RecordAdvances
<1>5. CASE ScanFailed
  <2>1. Record(scanJob.owner, "scan_failed") /\ scanJob # None
    BY <1>5 DEF ScanFailed, Done
  <2>2. scanJob.owner \in Ids => Forward(requests[scanJob.owner], "scan_failed")
    BY <2>1 DEF DInv, ScanSound, Forward
  <2> QED BY <2>1, <2>2, RecordAdvances
<1>6. CASE ScanShown \/ ScanDispatched
  BY <1>6, ScanAdvances
<1>7. Boot => FinishEngineJob \/ UNCHANGED requests \/ (\E s \in OneShots : BootClaims(s))
  BY DEF Boot, BootIgnores, BootStarts, StartScan
<1>8. Loop => \/ FinishEngineJob \/ UNCHANGED requests \/ ScheduleRecords
              \/ ScanFailed \/ ScanShown \/ ScanDispatched
  BY DEF Loop, LoopEngine, ScanWaits, ScheduleClaims, ScheduleStarts, ScheduleRests, StartScan,
         StartCollects, StartRefused, StartSubmits, PollEnds
<1>9. Telegram => FinishEngineJob \/ UNCHANGED requests
  BY DEF Telegram, Issue, Confirm, Cancel, Rescan, AskReport, StartScan
<1>10. SomeEngineEnds \/ SomeScanEnds \/ Tick \/ Restart \/ UNCHANGED vars => UNCHANGED requests
  BY DEF SomeEngineEnds, SomeScanEnds, EngineEnds, ScanEnds, Tick, Restart, vars
<1> QED BY <1>1, <1>2, <1>3, <1>4, <1>5, <1>6, <1>7, <1>8, <1>9, <1>10 DEF Next

\* A job that is on stays on the worker, as it was asked for, until it ends or
\* the process does.
LEMMA JobSteps ==
  ASSUME DInv, [Next]_vars, Busy(engineJob), pc' # "down"
  PROVE  /\ engineJob' # None
         /\ engineJob'.owner = engineJob.owner /\ engineJob'.mode = engineJob.mode
<1> USE DEF durable, jobs, history, bounds
<1>1. engineJob # None /\ ~Done(engineJob)
  BY DEF Busy, Done
<1>2. CASE UNCHANGED engineJob
  BY <1>1, <1>2
<1>3. FinishEngineJob => UNCHANGED engineJob
  BY <1>1 DEF FinishEngineJob
<1>4. CASE SomeEngineEnds
  <2>1. PICK end \in {"ok", "failed"} : engineJob' = [engineJob EXCEPT !.end = end]
    BY <1>4 DEF SomeEngineEnds, EngineEnds
  <2>2. engineJob \in EngineJobs
    BY <1>1, JobFacts DEF DInv
  <2>3. engineJob' = [mode |-> engineJob.mode, owner |-> engineJob.owner, end |-> end]
    BY <2>1, <2>2 DEF EngineJobs
  <2>4. engineJob' \in EngineJobs
    BY <2>2, <2>3 DEF EngineJobs, Ends
  <2> QED BY <2>3, <2>4, DispatchAssumption
<1>5. Boot => UNCHANGED engineJob
  BY <1>3 DEF Boot, BootIgnores, BootClaims, BootStarts, StartScan
<1>6. Loop => UNCHANGED engineJob
  BY <1>3 DEF Loop, LoopEngine, ScanWaits, ScanFailed, ScanShown, ScanDispatched,
              ScheduleClaims, ScheduleRecords, ScheduleStarts, ScheduleRests, StartScan,
              StartCollects, StartRefused, StartSubmits, PollEnds
<1>7. Telegram => UNCHANGED engineJob
  BY <1>3 DEF Telegram, Issue, Confirm, Cancel, Rescan, AskReport, StartScan
<1>8. SomeScanEnds \/ Tick \/ UNCHANGED vars => UNCHANGED engineJob
  BY DEF SomeScanEnds, ScanEnds, Tick, vars
<1>9. ~Restart
  BY DEF Restart
<1> QED BY <1>2, <1>4, <1>5, <1>6, <1>7, <1>8, <1>9 DEF Next

\* The worker is never handed a second job while one is on, and the status of a
\* request only moves forward: no restart, late result or second command sets
\* back what was recorded.
THEOREM OnlyAdvances == Spec => WorkOnlyAdvances
<1>1. DInv /\ [Next]_vars =>
        [Busy(engineJob) /\ pc' # "down" =>
           /\ engineJob' # None
           /\ engineJob'.owner = engineJob.owner /\ engineJob'.mode = engineJob.mode]_vars
  BY JobSteps
<1>2. DInv /\ [Next]_vars =>
        [\A o \in DOMAIN requests : requests'[o] # requests[o] =>
           \/ requests[o] = "none" /\ requests'[o] = "claimed"
           \/ requests[o] = "claimed" /\ requests'[o] \in {"scan_failed", "scan_expired", "executing"}
           \/ requests[o] = "executing" /\ requests'[o] \in {"completed", "execution_failed"}]_vars
  <2>1. DInv => DOMAIN requests = Ids
    BY DEF DInv, TypeOK, Ids
  <2> QED BY <2>1, StatusSteps DEF Forward
<1> QED BY <1>1, <1>2, DInvInvariant, PTL DEF Spec, WorkOnlyAdvances, NoJobIsOverrun, StatusOrder

-----------------------------------------------------------------------------
(* The pair account                                                        *)

\* Settlements and days.
LEMMA PeriodFacts ==
  ASSUME PairConstants, NEW t \in Nat
  PROVE  /\ t < NextAfter(t) /\ NextAfter(t) \in Nat \ {0} /\ NextAfter(t) % PERIOD = 0
         /\ \A u \in Nat : u % PERIOD = 0 /\ u > t => NextAfter(t) <= u
         /\ \A u \in Nat : t <= u => NextAfter(t) <= NextAfter(u)
<1> DEFINE n == PERIOD
           q == t \div n
<1>0. n \in Nat /\ n > 0
  BY DEF PairConstants
<1>1. q \in Nat /\ n * q <= t /\ t < n * q + n
  BY <1>0, ShareAtMost
<1>2. NextAfter(t) = (q + 1) * n
  BY DEF NextAfter, Hour
<1>3. (q + 1) * n = n * q + n /\ n * q \in Nat
  BY <1>0, <1>1
<1>4. ((q + 1) * n) % n = 0
  BY <1>0, <1>1
<1>5. ASSUME NEW u \in Nat, u % n = 0, u > t PROVE n * q + n <= u
  <2> DEFINE r == u \div n
  <2>1. r \in Nat /\ u = n * r + (u % n)
    BY <1>0
  <2>2. u = n * r
    BY <1>5, <2>1, <1>0
  <2>3. SUFFICES ASSUME r <= q PROVE FALSE
    <3>1. r >= q + 1 => n * r >= n * (q + 1)
      <4> HIDE DEF r, q
      <4> QED BY <1>0, <1>1, <2>1
    <3>2. n * (q + 1) = n * q + n
      BY <1>0, <1>1
    <3> QED BY <1>1, <2>1, <2>2, <2>3, <3>1, <3>2
  <2>4. n * r <= n * q
    <3> HIDE DEF r, q
    <3> QED BY <1>0, <1>1, <2>1, <2>3
  <2> QED BY <1>0, <1>1, <1>5, <2>2, <2>4
<1>6. ASSUME NEW u \in Nat, t <= u PROVE NextAfter(t) <= NextAfter(u)
  <2> DEFINE r == u \div n
  <2>1. r \in Nat /\ n * r <= u /\ u < n * r + n
    BY <1>0, ShareAtMost
  <2>2. NextAfter(u) = (r + 1) * n
    BY DEF NextAfter, Hour
  <2>3. (r + 1) * n = n * r + n /\ n * r \in Nat
    BY <1>0, <2>1
  <2>4. q <= r
    <3> HIDE DEF r, q
    <3>1. SUFFICES ASSUME r + 1 <= q PROVE FALSE
      BY <1>1, <2>1
    <3>2. n * (r + 1) <= n * q
      BY <1>0, <1>1, <2>1, <3>1
    <3>3. n * (r + 1) = n * r + n
      BY <1>0, <2>1
    <3> QED BY <1>0, <1>1, <1>6, <2>1, <3>2, <3>3
  <2>5. n * q <= n * r
    <3> HIDE DEF r, q
    <3> QED BY <1>0, <1>1, <2>1, <2>4
  <2> QED BY <1>0, <1>1, <1>2, <1>3, <2>1, <2>2, <2>3, <2>5
<1> QED BY <1>0, <1>1, <1>2, <1>3, <1>4, <1>5, <1>6

LEMMA DayOrder ==
  ASSUME PairConstants, NEW t \in Nat, NEW u \in Nat, t <= u
  PROVE  t \div DAY \in Nat /\ u \div DAY \in Nat /\ t \div DAY <= u \div DAY
<1> DEFINE n == DAY
           q == t \div n
           r == u \div n
<1>0. n \in Nat /\ n > 0
  BY DEF PairConstants
<1>1. q \in Nat /\ n * q <= t /\ t < n * q + n
  BY <1>0, ShareAtMost
<1>2. r \in Nat /\ n * r <= u /\ u < n * r + n
  BY <1>0, ShareAtMost
<1>3. q <= r
  <2> HIDE DEF r, q
  <2>1. SUFFICES ASSUME r + 1 <= q PROVE FALSE
    BY <1>1, <1>2
  <2>2. n * (r + 1) <= n * q
    BY <1>0, <1>1, <1>2, <2>1
  <2>3. n * (r + 1) = n * r + n
    BY <1>0, <1>2
  <2> QED BY <1>0, <1>1, <1>2, <2>2, <2>3
<1> QED BY <1>1, <1>2, <1>3

LEMMA IdentFacts ==
  ASSUME PairConstants
  PROVE  /\ IsFiniteSet(Idents)
         /\ \A i \in Idents : Asset(i) \in Assets /\ Legs(i) \subseteq Wallets /\ "perp" \in Legs(i)
<1>1. IsFiniteSet({"BASIS"} \X Pairs) /\ IsFiniteSet({"SHORT"} \X Shorts)
  BY FS_Product, FS_Singleton DEF PairConstants
<1>2. IsFiniteSet(Idents)
  BY <1>1, FS_Union DEF Idents
<1> QED BY <1>2 DEF PairConstants, Idents, Asset, Legs, Wallets

-----------------------------------------------------------------------------
\* What holds of every state that a tick goes through, at time n.

Lapsed(v, from, to) ==
  v = "binance" /\ \E e, g \in Settlements : from - FEED <= e /\ e < g /\ g <= to

Charged(v, paid, behind, from, to) ==
  /\ \A u \in Times : paid[u] <= Owed(v, from, to, u) /\ (behind \/ paid[u] = Owed(v, from, to, u))
  /\ behind => Lapsed(v, from, to)

Position(v, p, n) ==
  /\ p \in Holdings /\ p.entered <= p.cursor /\ p.cursor <= n
  /\ p.exit # Absent => p.entered <= p.exit /\ p.exit <= n
  /\ p.next # 0 /\ p.next % PERIOD = 0 /\ p.entered - FEED <= p.next /\ p.next <= NextAfter(p.cursor)
  /\ Charged(v, p.paid, p.behind, p.entered, p.cursor)

Signal(p, i, n) ==
  p \in [decided : Nat, reserves : [Legs(i) -> Nat]] /\ p.decided <= n

Deal(v, t, n) ==
  /\ t \in [ident : Idents, entered : Nat, at : Nat, behind : BOOLEAN, paid : [Times -> Nat], exit : Nat]
  /\ t.entered <= t.exit /\ t.exit < t.at /\ t.at <= n
  /\ Charged(v, t.paid, t.behind, t.entered, t.at)

Shape(s) ==
  /\ s \in [cash : [Wallets -> Nat], debt : [Wallets -> Nat], pending : {s.pending},
            positions : {s.positions}, days : {s.days}, rates : {s.rates}, last : {s.last}]
  /\ s.pending = [i \in Idents |-> s.pending[i]] /\ s.positions = [i \in Idents |-> s.positions[i]]
  /\ s.days \in [Assets -> Nat \cup {Absent}]

Recorded(v, s, n) ==
  /\ \A i \in Idents : s.pending[i] # Absent => Signal(s.pending[i], i, n)
  /\ \A i \in Idents : s.positions[i] # Absent => Position(v, s.positions[i], n)
  /\ s.last # Absent => Deal(v, s.last, n)

\* One ident of each asset, in one place; a day is entered once.
Apart(s) ==
  /\ \A i, j \in Active(s) : Asset(i) = Asset(j) => i = j
  /\ \A i \in Idents : s.pending[i] = Absent \/ s.positions[i] = Absent

Dated(s, n) ==
  /\ \A a \in Assets : s.days[a] # Absent => s.days[a] <= n \div DAY
  /\ \A i \in Idents : s.pending[i] # Absent /\ s.days[Asset(i)] # Absent =>
       s.days[Asset(i)] < s.pending[i].decided \div DAY
  /\ \A i \in Idents : s.positions[i] # Absent => s.days[Asset(i)] = s.positions[i].entered \div DAY
  /\ s.last # Absent =>
       /\ s.days[Asset(s.last.ident)] # Absent
       /\ s.last.entered \div DAY <= s.days[Asset(s.last.ident)]
       /\ \A i \in Idents : s.positions[i] # Absent /\ Asset(i) = Asset(s.last.ident) =>
            s.last.entered \div DAY < s.days[Asset(i)]

Backed(s) == \A w \in Wallets : s.cash[w] >= ReservedBy(s, w, Idents)

Sound(v, s, n) == Shape(s) /\ Recorded(v, s, n) /\ Apart(s) /\ Dated(s, n) /\ Backed(s)

Answer(v, f, n) ==
  /\ f.ts \in Nat /\ f.ts <= n /\ f.next \in Nat \ {0} /\ f.next % PERIOD = 0
  /\ f.ts <= f.next /\ f.next <= NextAfter(f.ts)
  /\ v = "binance" => \A e \in f.known : e \in Settlements /\ e <= n

Seen(b, n) == b \in [Wallets -> Nat] /\ \A w \in Wallets : b[w] <= n

-----------------------------------------------------------------------------
\* A position that changes in place.
Moved(s, t, i, p, r) == t = [s EXCEPT !.rates = r, !.positions[i] = p]

LEMMA PositionMoved ==
  ASSUME PairConstants, NEW n, NEW s, Sound(venue, s, n), NEW i \in Idents, s.positions[i] # Absent,
         NEW p, Position(venue, p, n), p.entered = s.positions[i].entered, NEW r,
         NEW t, Moved(s, t, i, p, r)
  PROVE  /\ Sound(venue, t, n) /\ t.positions[i] = p /\ p # Absent /\ t.pending = s.pending /\ t.rates = r
         /\ \A j \in Idents \ {i} : t.positions[j] = s.positions[j]
<1>1. /\ t.cash = s.cash /\ t.debt = s.debt /\ t.pending = s.pending /\ t.days = s.days /\ t.last = s.last
      /\ t.rates = r /\ t.positions = [j \in Idents |-> IF j = i THEN p ELSE s.positions[j]]
  BY DEF Sound, Shape, Moved
<1>2. Shape(t)
  BY DEF Sound, Shape, Moved
<1>3. p # Absent
  BY DEF Position, PairConstants
<1>4. Recorded(venue, t, n)
  BY <1>1 DEF Sound, Recorded
<1>5. Active(t) = Active(s)
  BY <1>1, <1>3 DEF Active, Present
<1>6. Apart(t)
  BY <1>1, <1>3, <1>5 DEF Sound, Apart
<1>7. Dated(t, n)
  BY <1>1, <1>3 DEF Sound, Dated
<1>8. Backed(t)
  BY <1>1 DEF Sound, Backed, ReservedBy, Claims
<1>9. Sound(venue, t, n)
  BY <1>2, <1>4, <1>6, <1>7, <1>8 DEF Sound
<1> QED BY <1>1, <1>3, <1>9

\* The settlement after the last charge was waited for, unless a later one hid it.
LEMMA AllIsDue ==
  ASSUME PairConstants, NEW p, NEW f, Position(venue, p, round), round \in Times, Answer(venue, f, round),
         venue = "binance", ~ Awaited(p, f), ~ Overrun(p),
         NEW u \in Settlements, p.cursor < u, u <= round
  PROVE  u \in f.known
<1>1. u \in Nat /\ u % PERIOD = 0 /\ p.cursor \in Nat /\ p.next \in Nat /\ round \in Nat
  BY DEF Settlements, Times, Position, Holdings, PairConstants
<1>2. NextAfter(p.cursor) <= u /\ NextAfter(p.cursor) \in Nat
  BY <1>1, PeriodFacts
<1>3. p.next <= u
  BY <1>1, <1>2 DEF Position
<1>4. ~ (p.next < u)
  BY DEF Overrun
<1>5. p.next = u
  BY <1>1, <1>3, <1>4
<1>6. PICK e \in f.known : e >= p.next
  BY <1>1, <1>5 DEF Awaited
<1>7. e \in Settlements /\ e <= round /\ e \in Nat
  BY DEF Answer, Settlements, Times
<1>8. ~ (p.next < e)
  BY <1>1, <1>5, <1>7 DEF Overrun
<1> QED BY <1>1, <1>5, <1>6, <1>7, <1>8

LEMMA FundedKeeps ==
  ASSUME PairConstants, round \in Times, NEW s, Sound(venue, s, round), NEW i \in Idents, s.positions[i] # Absent,
         NEW fs, \A f \in fs : Answer(venue, f, round)
  PROVE  LET t == Funded(s, i, fs) IN
         /\ Sound(venue, t, round) /\ t.positions[i] # Absent /\ t.pending = s.pending
         /\ t.positions[i].settled => t.positions[i].cursor = round
         /\ \A j \in Idents \ {i} : t.positions[j] = s.positions[j]
<1> DEFINE w == Funded(s, i, fs)
           p == s.positions[i]
           f == CHOOSE f \in fs : TRUE
           kept == IF fs # {} /\ venue = "kraken" /\ round - f.ts < FEED THEN s.rates \cup f.known ELSE s.rates
           fine == fs # {} /\ Settled(p, f, kept)
           paid == [t \in Times |-> p.paid[t] + IF t \in Due(p, f) THEN 1 ELSE 0]
           behind == p.behind \/ Overrun(p)
           q == IF fine THEN [p EXCEPT !.paid = paid, !.behind = behind, !.cursor = round, !.next = f.next, !.settled = TRUE]
                ELSE [p EXCEPT !.settled = FALSE]
<1>1. Position(venue, p, round)
  BY DEF Sound, Recorded
<1>2. Moved(s, w, i, q, kept)
  BY DEF Moved, Funded, Sound, Shape
<1>9. FEED \in Nat
  BY DEF PairConstants
<1>3. /\ round \in Nat /\ FEED \in Nat /\ p \in Holdings /\ p.entered \in Nat /\ p.cursor \in Nat /\ p.next \in Nat
      /\ p.paid \in [Times -> Nat]
  <2>1. p \in Holdings /\ round \in Nat
    BY <1>1 DEF Position, Times
  <2> HIDE DEF p
  <2> QED BY <1>9, <2>1 DEF Holdings
<1>4. CASE fine
  <2>1. f \in fs /\ Answer(venue, f, round) /\ round - f.ts < FEED
    BY <1>4 DEF Settled
  <2>2. f.ts \in Nat /\ f.ts <= round /\ f.next \in Nat /\ f.next # 0 /\ f.next % PERIOD = 0 /\ f.ts <= f.next
        /\ f.next <= NextAfter(f.ts)
    BY <2>1 DEF Answer
  <2>3. NextAfter(f.ts) <= NextAfter(round) /\ NextAfter(f.ts) \in Nat /\ NextAfter(round) \in Nat
    BY <1>3, <2>2, PeriodFacts
  <2>4. Overrun(p) \in BOOLEAN /\ p.behind \in BOOLEAN
    BY <1>3 DEF Overrun, Holdings
  <2>5. /\ q = [p EXCEPT !.paid = paid, !.behind = behind, !.cursor = round, !.next = f.next, !.settled = TRUE]
        /\ q.paid = paid /\ q.behind = behind /\ q.cursor = round /\ q.next = f.next /\ q.settled
        /\ q.entered = p.entered /\ q.exit = p.exit
    BY <1>3, <1>4 DEF Holdings
  <2>6. paid \in [Times -> Nat]
    BY <1>3 DEF Holdings
  <2>7. q \in Holdings
    BY <1>3, <2>2, <2>4, <2>5, <2>6 DEF Holdings
  <2>8. ASSUME Overrun(p) PROVE Lapsed(venue, p.entered, round)
    <3>1. PICK g \in Settlements : p.next < g /\ p.cursor < g /\ g <= round
      BY <2>8 DEF Overrun
    <3>2. p.next \in Settlements
      <4> DEFINE n == p.next
      <4>1. n \in Nat /\ n # 0 /\ n % PERIOD = 0
        BY <1>1, <1>3 DEF Position
      <4>2. g \in Times /\ n < g
        BY <3>1 DEF Settlements
      <4> HIDE DEF n
      <4>3. n \in Times /\ n > 0
        BY <4>1, <4>2 DEF Times, PairConstants
      <4> QED BY <4>1, <4>3 DEF Settlements, n
    <3>3. venue = "binance" /\ p.entered - FEED <= p.next
      BY <1>1, <2>8 DEF Overrun, Position
    <3> QED BY <3>1, <3>2, <3>3 DEF Lapsed
  <2>9. ASSUME p.behind PROVE Lapsed(venue, p.entered, round)
    <3>1. PICK e, g \in Settlements : p.entered - FEED <= e /\ e < g /\ g <= p.cursor
      BY <1>1, <2>9 DEF Position, Charged, Lapsed
    <3>2. g \in Nat /\ g <= round /\ venue = "binance"
      BY <1>1, <1>3, <2>9, <3>1 DEF Settlements, Times, Position, Charged, Lapsed
    <3> QED BY <3>1, <3>2 DEF Lapsed
  <2>10. ASSUME NEW u \in Times
         PROVE  paid[u] <= Owed(venue, p.entered, round, u) /\ (behind \/ paid[u] = Owed(venue, p.entered, round, u))
    <3>1. p.paid[u] <= Owed(venue, p.entered, p.cursor, u) /\ (p.behind \/ p.paid[u] = Owed(venue, p.entered, p.cursor, u))
      BY <1>1 DEF Position, Charged
    <3>2. u \in Nat /\ p.paid[u] \in Nat /\ p.entered <= p.cursor /\ p.cursor <= round
      <4>1. p.entered <= p.cursor /\ p.cursor <= round
        BY <1>1 DEF Position
      <4> HIDE DEF p
      <4>2. p.paid[u] \in Nat
        BY <1>3
      <4>3. u \in Nat
        BY DEF Times
      <4> QED BY <4>1, <4>2, <4>3
    <3>3. paid[u] = p.paid[u] + IF u \in Due(p, f) THEN 1 ELSE 0
      OBVIOUS
    <3>6. venue # "binance" => ~ p.behind
      BY <1>1 DEF Position, Charged, Lapsed
    <3>7. venue = "binance" /\ ~ behind => (u \in Settlements /\ p.cursor < u /\ u <= round => u \in f.known)
      BY <1>1, <1>4, <2>1, AllIsDue DEF Settled
    <3>8. behind = (p.behind \/ Overrun(p)) /\ p.behind \in BOOLEAN
      BY <1>3 DEF Holdings
    <3> HIDE DEF paid, behind, f, q, kept, fine, p
    <3>4. CASE venue = "binance"
      <4>1. u \in Due(p, f) <=> u \in f.known /\ p.cursor < u /\ u <= round
        BY <3>4 DEF Due
      <4>2. u \in f.known => u \in Settlements
        BY <2>1, <3>4 DEF Answer
      <4>4. /\ Owed(venue, p.entered, p.cursor, u) = IF u \in Settlements /\ p.entered < u /\ u <= p.cursor THEN 1 ELSE 0
            /\ Owed(venue, p.entered, round, u) = IF u \in Settlements /\ p.entered < u /\ u <= round THEN 1 ELSE 0
        BY <3>4 DEF Owed
      <4> QED BY <1>3, <3>1, <3>2, <3>3, <3>4, <3>7, <3>8, <4>1, <4>2, <4>4
    <3>5. CASE venue # "binance"
      <4>1. u \in Due(p, f) <=> p.cursor <= u /\ u <= round - 1
        BY <1>3, <3>2, <3>5 DEF Due
      <4>2. ~ p.behind
        BY <3>5, <3>6
      <4>3. /\ Owed(venue, p.entered, p.cursor, u) = IF p.entered <= u /\ u < p.cursor THEN 1 ELSE 0
            /\ Owed(venue, p.entered, round, u) = IF p.entered <= u /\ u < round THEN 1 ELSE 0
        BY <3>5 DEF Owed
      <4> QED BY <1>3, <3>1, <3>2, <3>3, <4>1, <4>2, <4>3
    <3> QED BY <3>4, <3>5
  <2>11. Charged(venue, q.paid, q.behind, q.entered, q.cursor)
    BY <2>5, <2>8, <2>9, <2>10 DEF Charged
  <2>12. q.entered <= q.cursor /\ p.entered - FEED <= f.next
    BY <1>1, <1>3, <2>1, <2>2, <2>5 DEF Position
  <2>13. f.next <= NextAfter(round)
    BY <2>2, <2>3
  <2> HIDE DEF q, f, paid, behind, kept, fine, w
  <2>14. Position(venue, q, round)
    BY <1>1, <1>3, <2>2, <2>5, <2>7, <2>11, <2>12, <2>13 DEF Position
  <2>15. q.entered = p.entered /\ q.cursor = round
    BY <2>5
  <2> HIDE DEF p
  <2>16. /\ Sound(venue, w, round) /\ w.positions[i] = q /\ q # Absent /\ w.pending = s.pending /\ w.rates = kept
         /\ \A j \in Idents \ {i} : w.positions[j] = s.positions[j]
    BY <1>2, <2>14, <2>15, PositionMoved DEF p
  <2> QED BY <2>15, <2>16 DEF w
<1>5. CASE ~ fine
  <2>1. /\ q = [p EXCEPT !.settled = FALSE] /\ q.paid = p.paid /\ q.behind = p.behind /\ q.cursor = p.cursor
        /\ q.next = p.next /\ q.entered = p.entered /\ q.exit = p.exit /\ ~ q.settled /\ q \in Holdings
    BY <1>3, <1>5 DEF Holdings
  <2> HIDE DEF q, f, kept, fine, w
  <2>2. Position(venue, q, round)
    BY <1>1, <2>1 DEF Position
  <2>3. q.entered = p.entered
    BY <2>1
  <2> HIDE DEF p
  <2>4. /\ Sound(venue, w, round) /\ w.positions[i] = q /\ q # Absent /\ w.pending = s.pending /\ w.rates = kept
        /\ \A j \in Idents \ {i} : w.positions[j] = s.positions[j]
    BY <1>2, <2>3, <2>2, PositionMoved DEF p
  <2> QED BY <2>1, <2>4 DEF w
<1> QED BY <1>4, <1>5

\* The decision to close is kept with the position.
LEMMA IntentKeeps ==
  ASSUME PairConstants, round \in Times, NEW s, Sound(venue, s, round), NEW i \in Idents, s.positions[i] # Absent
  PROVE  LET t == Intent(s, i) IN
         /\ Sound(venue, t, round) /\ t.pending = s.pending
         /\ \A j \in Idents \ {i} : t.positions[j] = s.positions[j]
<1> DEFINE w == Intent(s, i)
           p == s.positions[i]
           q == [p EXCEPT !.exit = IF p.exit = Absent THEN round ELSE p.exit]
<1>1. Position(venue, p, round)
  BY DEF Sound, Recorded
<1>2. round \in Nat /\ p \in Holdings /\ p.entered \in Nat /\ p.cursor \in Nat
  BY <1>1 DEF Times, Position, Holdings
<1>3. Moved(s, w, i, q, s.rates)
  BY <1>2 DEF Moved, Intent, Sound, Shape, Holdings
<1>4. /\ q \in Holdings /\ q.paid = p.paid /\ q.behind = p.behind /\ q.cursor = p.cursor /\ q.next = p.next
      /\ q.entered = p.entered /\ q.exit = IF p.exit = Absent THEN round ELSE p.exit
  BY <1>2 DEF Holdings
<1> HIDE DEF q
<1>5. Position(venue, q, round)
  BY <1>1, <1>2, <1>4 DEF Position
<1> HIDE DEF w
<1>6. /\ Sound(venue, w, round) /\ w.positions[i] = q /\ q # Absent /\ w.pending = s.pending /\ w.rates = s.rates
      /\ \A j \in Idents \ {i} : w.positions[j] = s.positions[j]
  BY <1>3, <1>4, <1>5, PositionMoved
<1> QED BY <1>6 DEF w

LEMMA MaxOfZero ==
  ASSUME NEW x \in Int
  PROVE  Max({0, x}) = IF x >= 0 THEN x ELSE 0
BY DEF Max

\* The trade is booked; what the legs lose beyond their margin is owed.
LEMMA ClosedKeeps ==
  ASSUME PairConstants, round \in Times, NEW s, Sound(venue, s, round), NEW i \in Idents, s.positions[i] # Absent,
         s.positions[i].cursor = round, s.positions[i].exit # Absent, s.positions[i].exit < round,
         NEW v \in [Legs(i) -> Values]
  PROVE  LET t == Unwound(s, i, v) IN
         /\ Sound(venue, t, round) /\ t.pending = s.pending
         /\ \A j \in Idents \ {i} : t.positions[j] = s.positions[j]
<1> DEFINE t == Unwound(s, i, v)
           p == s.positions[i]
           cs == [w \in Wallets |-> s.cash[w] + IF w \in Legs(i) THEN Max({0, v[w]}) ELSE 0]
           ds == [w \in Wallets |-> s.debt[w] + IF w \in Legs(i) THEN Max({0, -v[w]}) ELSE 0]
           deal == [ident |-> i, entered |-> p.entered, at |-> round, behind |-> p.behind, paid |-> p.paid,
                    exit |-> p.exit]
           ps == [j \in Idents |-> IF j = i THEN Absent ELSE s.positions[j]]
<1>0. Position(venue, p, round) /\ p \in Holdings /\ round \in Nat
  BY DEF Sound, Recorded, Position, Times
<1>1. /\ t.cash = cs /\ t.debt = ds /\ t.pending = s.pending /\ t.days = s.days /\ t.rates = s.rates
      /\ t.last = deal /\ t.positions = ps
  BY DEF Unwound, Sound, Shape
<1>2. \A w \in Legs(i) : Max({0, v[w]}) \in Nat /\ Max({0, -v[w]}) \in Nat
  <2> SUFFICES ASSUME NEW w \in Legs(i) PROVE Max({0, v[w]}) \in Nat /\ Max({0, -v[w]}) \in Nat
    OBVIOUS
  <2> DEFINE x == v[w]
  <2>1. x \in Values
    OBVIOUS
  <2> HIDE DEF x
  <2>2. x \in Worth \/ \E y \in Losses : x = -y
    BY <2>1 DEF Values
  <2>3. x \in Int /\ -x \in Int
    <3>1. CASE x \in Worth
      <4>1. x \in Nat
        BY <3>1 DEF PairConstants
      <4> QED BY <4>1
    <3>2. CASE x \notin Worth
      <4>1. PICK y \in Losses : x = -y
        BY <2>2, <3>2
      <4>2. y \in Nat
        BY DEF PairConstants
      <4> QED BY <4>1, <4>2
    <3> QED BY <3>1, <3>2
  <2>4. Max({0, x}) \in Nat /\ Max({0, -x}) \in Nat
    BY <2>3, MaxOfZero
  <2> QED BY <2>4 DEF x
<1>3. s.cash \in [Wallets -> Nat] /\ s.debt \in [Wallets -> Nat]
  BY DEF Sound, Shape
<1>4. cs \in [Wallets -> Nat] /\ ds \in [Wallets -> Nat] /\ \A w \in Wallets : cs[w] >= s.cash[w]
  <2>1. \A w \in Wallets : s.cash[w] \in Nat /\ s.debt[w] \in Nat
    BY <1>3
  <2>2. \A w \in Wallets : cs[w] \in Nat /\ ds[w] \in Nat /\ cs[w] >= s.cash[w]
    <3> SUFFICES ASSUME NEW w \in Wallets PROVE cs[w] \in Nat /\ ds[w] \in Nat /\ cs[w] >= s.cash[w]
      OBVIOUS
    <3> DEFINE more == Max({0, v[w]})
               owe == Max({0, -v[w]})
    <3>1. cs[w] = s.cash[w] + (IF w \in Legs(i) THEN more ELSE 0) /\ ds[w] = s.debt[w] + (IF w \in Legs(i) THEN owe ELSE 0)
      OBVIOUS
    <3>2. w \in Legs(i) => more \in Nat /\ owe \in Nat
      BY <1>2
    <3> HIDE DEF more, owe, cs, ds
    <3> QED BY <2>1, <3>1, <3>2
  <2> QED BY <2>2
<1>5. Shape(t)
  <2>1. t \in [cash : {cs}, debt : {ds}, pending : {s.pending}, positions : {ps}, days : {s.days}, rates : {s.rates},
               last : {deal}]
    BY DEF Unwound, Sound, Shape
  <2> HIDE DEF t, cs, ds, deal
  <2> QED BY <1>1, <1>4, <2>1 DEF Sound, Shape
<1>6. Deal(venue, deal, round)
  <2>1. deal \in [ident : Idents, entered : Nat, at : Nat, behind : BOOLEAN, paid : [Times -> Nat], exit : Nat]
    BY <1>0 DEF Holdings
  <2>2. p.entered <= p.exit /\ p.exit < round /\ Charged(venue, p.paid, p.behind, p.entered, round)
    BY <1>0 DEF Position
  <2> QED BY <1>0, <2>1, <2>2 DEF Deal
<1>7. \A j \in Idents \ {i} : t.positions[j] = s.positions[j]
  BY <1>1
<1>8. i \in Active(s) /\ Active(t) \subseteq Active(s) \ {i}
  <2>1. s.pending[i] = Absent
    BY DEF Sound, Apart
  <2> QED BY <1>1, <2>1 DEF Active, Present
<1>9. deal.ident = i /\ deal.entered = p.entered
  OBVIOUS
<1> HIDE DEF t, deal, cs, ds
<1>10. Recorded(venue, t, round)
  BY <1>1, <1>6 DEF Sound, Recorded
<1>11. Apart(t)
  BY <1>1, <1>8 DEF Sound, Apart
<1>12. Dated(t, round)
  <2>1. \A j \in Idents : ps[j] # Absent => Asset(j) # Asset(i)
    BY <1>8 DEF Sound, Apart, Active, Present
  <2>2. s.days[Asset(i)] = p.entered \div DAY /\ p.entered \div DAY \in Nat
    BY <1>0, DayOrder DEF Sound, Dated, Holdings
  <2>3. s.days[Asset(i)] # Absent
    BY <2>2 DEF PairConstants
  <2> QED BY <1>1, <1>9, <2>1, <2>2, <2>3 DEF Sound, Dated
<1>13. Backed(t)
  <2>1. \A w \in Wallets : ReservedBy(t, w, Idents) = ReservedBy(s, w, Idents)
    BY <1>1 DEF ReservedBy, Claims
  <2>2. \A w \in Wallets : ReservedBy(s, w, Idents) \in Int
    <3> SUFFICES ASSUME NEW w \in Wallets PROVE ReservedBy(s, w, Idents) \in Int
      OBVIOUS
    <3>1. \A j \in Idents : Claims(s, w)[j] \in Int
      BY DEF Claims, Sound, Recorded, Signal
    <3> QED BY <3>1, IdentFacts, SumType DEF ReservedBy
  <2> QED BY <1>1, <1>3, <1>4, <2>1, <2>2 DEF Sound, Backed
<1>14. Sound(venue, t, round)
  BY <1>5, <1>10, <1>11, <1>12, <1>13 DEF Sound
<1> QED BY <1>1, <1>7, <1>14 DEF t

LEMMA ExitedKeeps ==
  ASSUME PairConstants, round \in Times, NEW s, Sound(venue, s, round), NEW i \in Idents, s.positions[i] # Absent,
         NEW fs, \A f \in fs : Answer(venue, f, round), NEW b, Seen(b, round), NEW u \in Exited(s, b, i, fs)
  PROVE  /\ Sound(venue, u, round) /\ u.pending = s.pending
         /\ \A j \in Idents \ {i} : u.positions[j] = s.positions[j]
<1> DEFINE t == Funded(s, i, fs)
           p == t.positions[i]
<1>1. /\ Sound(venue, t, round) /\ t.positions[i] # Absent /\ t.pending = s.pending
      /\ t.positions[i].settled => t.positions[i].cursor = round
      /\ \A j \in Idents \ {i} : t.positions[j] = s.positions[j]
  BY FundedKeeps
<1>2. \/ u = t \/ u = Intent(t, i)
      \/ /\ p.exit # Absent /\ p.settled /\ \A w \in Legs(i) : b[w] > p.exit
         /\ \E v \in [Legs(i) -> Values] : u = Unwound(t, i, v)
  BY DEF Exited
<1> HIDE DEF t
<1>3. CASE u = t
  BY <1>1, <1>3
<1>4. CASE u = Intent(t, i)
  BY <1>1, <1>4, IntentKeeps
<1>5. CASE /\ p.exit # Absent /\ p.settled /\ \A w \in Legs(i) : b[w] > p.exit
           /\ \E v \in [Legs(i) -> Values] : u = Unwound(t, i, v)
  <2>1. p.exit < round
    <3>1. b["perp"] > p.exit /\ b["perp"] <= round /\ b["perp"] \in Nat /\ round \in Nat
      BY <1>5, IdentFacts DEF Seen, Wallets, Times
    <3>2. p.exit \in Nat
      BY <1>1, <1>5 DEF Sound, Recorded, Position, Holdings
    <3> QED BY <3>1, <3>2
  <2> QED BY <1>1, <1>5, <2>1, ClosedKeeps
<1> QED BY <1>2, <1>3, <1>4, <1>5

\* What is claimed of a wallet, and what leaving one ident out does to it.
LEMMA ClaimFacts ==
  ASSUME PairConstants, NEW n, NEW s, Recorded(venue, s, n), NEW w \in Wallets
  PROVE  /\ \A j \in Idents : Claims(s, w)[j] \in Nat
         /\ \A S \in SUBSET Idents : ReservedBy(s, w, S) \in Nat
         /\ \A i \in Idents : ReservedBy(s, w, Idents \ {i}) + Claims(s, w)[i] = ReservedBy(s, w, Idents)
<1>1. \A j \in Idents : Claims(s, w)[j] \in Nat
  BY DEF Claims, Recorded, Signal
<1>2. IsFiniteSet(Idents) /\ \A S \in SUBSET Idents : IsFiniteSet(S)
  BY IdentFacts, FS_Subset
<1> DEFINE c == Claims(s, w)
<1> HIDE DEF c
<1>3. \A j \in Idents : c[j] \in Nat /\ c[j] \in Int
  BY <1>1 DEF c
<1>4. \A S \in SUBSET Idents : SumFunctionOnSet(c, S) \in Nat
  BY <1>2, <1>3, SumNatural
<1>5. \A i \in Idents : SumFunctionOnSet(c, Idents) = c[i] + SumFunctionOnSet(c, Idents \ {i})
  BY <1>2, <1>3, SumRemove
<1>6. \A i \in Idents : SumFunctionOnSet(c, Idents \ {i}) \in Nat /\ c[i] \in Nat
  BY <1>3, <1>4
<1> QED BY <1>1, <1>4, <1>5, <1>6 DEF ReservedBy, c

\* Only the claim of one ident differs.
LEMMA ClaimsOfOthers ==
  ASSUME PairConstants, NEW s, NEW t, NEW i \in Idents, NEW w \in Wallets,
         \A j \in Idents \ {i} : t.pending[j] = s.pending[j]
  PROVE  ReservedBy(t, w, Idents \ {i}) = ReservedBy(s, w, Idents \ {i})
<1>1. IsFiniteSet(Idents \ {i})
  BY IdentFacts, FS_Subset
<1>2. \A j \in Idents \ {i} : Claims(t, w)[j] = Claims(s, w)[j]
  BY DEF Claims
<1> QED BY <1>1, <1>2, SumSame DEF ReservedBy

LEMMA DroppedKeeps ==
  ASSUME PairConstants, NEW n, NEW s, Sound(venue, s, n), NEW i \in Idents
  PROVE  LET t == Dropped(s, i) IN
         Sound(venue, t, n) /\ \A j \in Idents \ {i} : t.pending[j] = s.pending[j]
<1> DEFINE t == Dropped(s, i)
           gs == [j \in Idents |-> IF j = i THEN Absent ELSE s.pending[j]]
<1>1. /\ t.cash = s.cash /\ t.debt = s.debt /\ t.positions = s.positions /\ t.days = s.days /\ t.rates = s.rates
      /\ t.last = s.last /\ t.pending = gs
  BY DEF Dropped, Sound, Shape
<1>2. Shape(t)
  BY DEF Dropped, Sound, Shape
<1> HIDE DEF t
<1>3. \A j \in Idents \ {i} : t.pending[j] = s.pending[j]
  BY <1>1
<1>4. Recorded(venue, t, n)
  BY <1>1 DEF Sound, Recorded
<1>5. Apart(t)
  BY <1>1 DEF Sound, Apart, Active, Present
<1>6. Dated(t, n)
  BY <1>1 DEF Sound, Dated
<1>7. ASSUME NEW w \in Wallets PROVE t.cash[w] >= ReservedBy(t, w, Idents)
  <2>1. ReservedBy(t, w, Idents \ {i}) = ReservedBy(s, w, Idents \ {i})
    BY <1>3, ClaimsOfOthers
  <2>2. Claims(t, w)[i] = 0
    BY <1>1 DEF Claims
  <2>3. /\ ReservedBy(t, w, Idents \ {i}) + Claims(t, w)[i] = ReservedBy(t, w, Idents)
        /\ ReservedBy(t, w, Idents \ {i}) \in Nat
    BY <1>4, ClaimFacts
  <2>4. /\ ReservedBy(s, w, Idents \ {i}) + Claims(s, w)[i] = ReservedBy(s, w, Idents)
        /\ Claims(s, w)[i] \in Nat /\ ReservedBy(s, w, Idents) \in Nat
    BY ClaimFacts DEF Sound
  <2>5. s.cash[w] \in Nat /\ s.cash[w] >= ReservedBy(s, w, Idents)
    BY DEF Sound, Shape, Backed
  <2> QED BY <1>1, <2>1, <2>2, <2>3, <2>4, <2>5
<1>8. Sound(venue, t, n)
  BY <1>2, <1>4, <1>5, <1>6, <1>7 DEF Sound, Backed
<1> QED BY <1>3, <1>8 DEF t

\* A signal that is filled becomes a position, within what the others leave.
LEMMA OpenedKeeps ==
  ASSUME PairConstants, round \in Times, NEW s, Sound(venue, s, round), NEW i \in Idents, s.pending[i] # Absent,
         NEW f, Answer(venue, f, round), round - f.ts <= FEED,
         NEW c \in Costs(i), \A w \in Legs(i) : c[w] <= Free(s, i, w)
  PROVE  LET t == Opened(s, i, c, f.next) IN
         Sound(venue, t, round) /\ \A j \in Idents \ {i} : t.pending[j] = s.pending[j]
<1> DEFINE t == Opened(s, i, c, f.next)
           day == round \div DAY
           p == [entered |-> round, cursor |-> round, next |-> f.next, settled |-> TRUE,
                 behind |-> FALSE, exit |-> Absent, paid |-> [u \in Times |-> 0]]
           gs == [j \in Idents |-> IF j = i THEN Absent ELSE s.pending[j]]
           ps == [j \in Idents |-> IF j = i THEN p ELSE s.positions[j]]
           cs == [w \in Wallets |-> s.cash[w] - IF w \in Legs(i) THEN c[w] ELSE 0]
           ds == [a \in Assets |-> IF a = Asset(i) THEN day ELSE s.days[a]]
<1>0. round \in Nat /\ FEED \in Nat /\ Asset(i) \in Assets
  BY IdentFacts DEF Times, PairConstants
<1>1. /\ t.cash = cs /\ t.debt = s.debt /\ t.positions = ps /\ t.days = ds /\ t.rates = s.rates
      /\ t.last = s.last /\ t.pending = gs
  BY DEF Opened, Sound, Shape
<1>2. c \in [Legs(i) -> Nat] /\ \A w \in Legs(i) : w \in Wallets
  <2>1. c \in [Legs(i) -> 1 .. SLOT] /\ SLOT \in Nat
    BY DEF Costs, PairConstants
  <2> QED BY <2>1, IdentFacts
<1>3. \A w \in Wallets :
        /\ s.cash[w] \in Nat /\ ReservedBy(s, w, Idents \ {i}) \in Nat
        /\ ReservedBy(s, w, Idents \ {i}) <= s.cash[w]
  <2> SUFFICES ASSUME NEW w \in Wallets
               PROVE  /\ s.cash[w] \in Nat /\ ReservedBy(s, w, Idents \ {i}) \in Nat
                      /\ ReservedBy(s, w, Idents \ {i}) <= s.cash[w]
    OBVIOUS
  <2>1. s.cash[w] \in Nat /\ s.cash[w] >= ReservedBy(s, w, Idents)
    BY DEF Sound, Shape, Backed
  <2>2. /\ ReservedBy(s, w, Idents \ {i}) + Claims(s, w)[i] = ReservedBy(s, w, Idents)
        /\ Claims(s, w)[i] \in Nat /\ ReservedBy(s, w, Idents \ {i}) \in Nat
    BY ClaimFacts DEF Sound
  <2> QED BY <2>1, <2>2
<1>4. \A w \in Wallets : cs[w] \in Nat /\ cs[w] >= ReservedBy(s, w, Idents \ {i})
  <2> SUFFICES ASSUME NEW w \in Wallets PROVE cs[w] \in Nat /\ cs[w] >= ReservedBy(s, w, Idents \ {i})
    OBVIOUS
  <2> DEFINE others == ReservedBy(s, w, Idents \ {i})
             paid == c[w]
  <2> SUFFICES cs[w] \in Nat /\ cs[w] >= others
    OBVIOUS
  <2>1. CASE w \in Legs(i)
    <3>1. paid \in Nat /\ paid <= s.cash[w] - others /\ cs[w] = s.cash[w] - paid
      BY <1>2, <2>1 DEF Free
    <3>2. s.cash[w] \in Nat /\ others \in Nat
      BY <1>3
    <3> HIDE DEF others, paid, cs
    <3> QED BY <3>1, <3>2
  <2>2. CASE w \notin Legs(i)
    <3>1. cs[w] = s.cash[w] - 0
      BY <2>2
    <3>2. s.cash[w] \in Nat /\ s.cash[w] >= others
      BY <1>3
    <3> HIDE DEF cs, others
    <3> QED BY <3>1, <3>2
  <2> QED BY <2>1, <2>2
<1>5. day \in Nat /\ ds \in [Assets -> Nat \cup {Absent}]
  BY <1>0, DayOrder DEF Sound, Shape
<1>6. Shape(t)
  <2>1. t \in [cash : {cs}, debt : {s.debt}, pending : {gs}, positions : {ps}, days : {ds}, rates : {s.rates},
               last : {s.last}]
    BY DEF Opened, Sound, Shape
  <2>2. cs \in [Wallets -> Nat]
    BY <1>4
  <2> HIDE DEF t, cs, ds, p
  <2> QED BY <1>1, <1>5, <2>1, <2>2 DEF Sound, Shape
<1>7. p \in Holdings /\ p # Absent
  <2>1. f.next \in Nat
    BY DEF Answer
  <2>2. p \in Holdings
    BY <1>0, <2>1 DEF Holdings
  <2> QED BY <2>2 DEF PairConstants
<1>8. Position(venue, p, round)
  <2>1. f.ts \in Nat /\ f.ts <= round /\ f.next \in Nat /\ f.next # 0 /\ f.next % PERIOD = 0 /\ f.ts <= f.next
        /\ f.next <= NextAfter(f.ts)
    BY DEF Answer
  <2>2. NextAfter(f.ts) <= NextAfter(round) /\ NextAfter(f.ts) \in Nat /\ NextAfter(round) \in Nat
    BY <1>0, <2>1, PeriodFacts
  <2>3. \A u \in Times : Owed(venue, round, round, u) = 0
    <3> SUFFICES ASSUME NEW u \in Times PROVE Owed(venue, round, round, u) = 0
      OBVIOUS
    <3>1. u \in Nat
      BY DEF Times
    <3> QED BY <1>0, <3>1 DEF Owed
  <2>4. Charged(venue, [u \in Times |-> 0], FALSE, round, round)
    BY <2>3 DEF Charged
  <2>5. /\ p.entered = round /\ p.cursor = round /\ p.next = f.next /\ p.exit = Absent
        /\ Charged(venue, p.paid, p.behind, p.entered, p.cursor)
    BY <2>4
  <2>6. round - FEED <= f.next /\ f.next <= NextAfter(round)
    BY <1>0, <2>1, <2>2
  <2> HIDE DEF p
  <2> QED BY <1>0, <1>7, <2>1, <2>5, <2>6 DEF Position
<1>9. \A j \in Idents \ {i} : t.pending[j] = s.pending[j] /\ t.positions[j] = s.positions[j]
  BY <1>1
<1>10. p.entered = round
  OBVIOUS
<1> HIDE DEF t, p, cs
<1>11. Recorded(venue, t, round)
  BY <1>1, <1>8 DEF Sound, Recorded
<1>12. /\ i \in Active(s) /\ s.positions[i] = Absent /\ Active(t) \subseteq Active(s)
       /\ \A j \in Active(s) : Asset(j) = Asset(i) => j = i
  BY <1>1, <1>9 DEF Sound, Apart, Active, Present
<1>13. Apart(t)
  BY <1>1, <1>12 DEF Sound, Apart
<1>14. Dated(t, round)
  <2>1. s.pending[i].decided \in Nat /\ s.pending[i].decided <= round
    BY DEF Sound, Recorded, Signal
  <2>2. s.pending[i].decided \div DAY \in Nat /\ s.pending[i].decided \div DAY <= day
    BY <1>0, <2>1, DayOrder
  <2>3. s.days[Asset(i)] # Absent => s.days[Asset(i)] \in Nat /\ s.days[Asset(i)] < day
    BY <1>0, <1>5, <2>2 DEF Sound, Shape, Dated
  <2>4. day # Absent
    BY <1>5 DEF PairConstants
  <2>5. \A j \in Idents \ {i} : gs[j] # Absent \/ ps[j] # Absent => Asset(j) # Asset(i) /\ Asset(j) \in Assets
    BY <1>12, IdentFacts DEF Active, Present
  <2>6. gs[i] = Absent /\ ps[i] = p
    OBVIOUS
  <2>7. s.last # Absent => s.last.entered \div DAY \in Nat /\ Asset(s.last.ident) \in Assets
    <3> SUFFICES ASSUME s.last # Absent PROVE s.last.entered \div DAY \in Nat /\ Asset(s.last.ident) \in Assets
      OBVIOUS
    <3>1. s.last.entered \in Nat /\ s.last.ident \in Idents
      BY DEF Sound, Recorded, Deal
    <3> QED BY <3>1, DayOrder, IdentFacts
  <2>8. \A a \in Assets : ds[a] # Absent => ds[a] <= day
    BY <1>5 DEF Sound, Dated
  <2>9. \A j \in Idents : gs[j] # Absent /\ ds[Asset(j)] # Absent => ds[Asset(j)] < gs[j].decided \div DAY
    BY <2>5, <2>6 DEF Sound, Dated
  <2>10. \A j \in Idents : ps[j] # Absent => ds[Asset(j)] = ps[j].entered \div DAY
    BY <1>0, <1>10, <2>5, <2>6 DEF Sound, Dated
  <2>11. ASSUME s.last # Absent
         PROVE  /\ ds[Asset(s.last.ident)] # Absent
                /\ s.last.entered \div DAY <= ds[Asset(s.last.ident)]
                /\ \A j \in Idents : ps[j] # Absent /\ Asset(j) = Asset(s.last.ident) =>
                     s.last.entered \div DAY < ds[Asset(j)]
    <3>1. CASE Asset(s.last.ident) = Asset(i)
      <4>1. ds[Asset(s.last.ident)] = day /\ s.last.entered \div DAY <= s.days[Asset(i)] /\ s.days[Asset(i)] # Absent
        BY <1>0, <2>11, <3>1 DEF Sound, Dated
      <4>2. s.last.entered \div DAY < day
        BY <1>5, <2>3, <2>7, <2>11, <4>1
      <4> QED BY <1>5, <2>4, <2>7, <2>11, <3>1, <4>1, <4>2
    <3>2. CASE Asset(s.last.ident) # Asset(i)
      BY <2>5, <2>7, <2>11, <3>2 DEF Sound, Dated
    <3> QED BY <3>1, <3>2
  <2> HIDE DEF day, gs, ps, ds
  <2> QED BY <1>1, <2>8, <2>9, <2>10, <2>11 DEF Dated, day
<1>15. ASSUME NEW w \in Wallets PROVE t.cash[w] >= ReservedBy(t, w, Idents)
  <2>1. ReservedBy(t, w, Idents \ {i}) = ReservedBy(s, w, Idents \ {i})
    BY <1>9, ClaimsOfOthers
  <2>2. Claims(t, w)[i] = 0
    BY <1>1 DEF Claims
  <2>3. /\ ReservedBy(t, w, Idents \ {i}) + Claims(t, w)[i] = ReservedBy(t, w, Idents)
        /\ ReservedBy(t, w, Idents \ {i}) \in Nat
    BY <1>11, ClaimFacts
  <2> QED BY <1>1, <1>4, <2>1, <2>2, <2>3
<1>16. Sound(venue, t, round)
  BY <1>6, <1>11, <1>13, <1>14, <1>15 DEF Sound, Backed
<1> QED BY <1>9, <1>16 DEF t

LEMMA EnteredKeeps ==
  ASSUME PairConstants, round \in Times, NEW s, Sound(venue, s, round), NEW i \in Idents, s.pending[i] # Absent,
         NEW fs, \A f \in fs : Answer(venue, f, round), \A f, g \in fs : f = g, NEW b, NEW u \in Entered(s, b, i, fs)
  PROVE  Sound(venue, u, round) /\ \A j \in Idents \ {i} : u.pending[j] = s.pending[j]
<1>1. \/ u = s \/ u = Dropped(s, i)
      \/ \E c \in Costs(i), f \in fs :
           /\ \A w \in Legs(i) : c[w] <= Free(s, i, w)
           /\ round - f.ts <= FEED /\ u = Opened(s, i, c, f.next)
  BY DEF Entered
<1>2. CASE u = s
  BY <1>2
<1>3. CASE u = Dropped(s, i)
  BY <1>3, DroppedKeeps
<1>4. ASSUME NEW c \in Costs(i), NEW f \in fs, \A w \in Legs(i) : c[w] <= Free(s, i, w),
             round - f.ts <= FEED, u = Opened(s, i, c, f.next)
      PROVE  Sound(venue, u, round) /\ \A j \in Idents \ {i} : u.pending[j] = s.pending[j]
  BY <1>4, OpenedKeeps
<1> QED BY <1>1, <1>2, <1>3, <1>4

\* A signal is reserved when no other holds its asset and the wallets allow it.
LEMMA ReservedKeeps ==
  ASSUME PairConstants, round \in Times, NEW s, Sound(venue, s, round), NEW b, NEW i \in Idents,
         NEW t \in ReservedFor(s, b, i)
  PROVE  Sound(venue, t, round)
<1> DEFINE new == [decided |-> round, reserves |-> Quoted(i)]
           gs == [j \in Idents |-> IF j = i THEN new ELSE s.pending[j]]
<1>0. /\ t = [s EXCEPT !.pending[i] = new] /\ Reservable(s, i)
      /\ \A w \in Legs(i) : s.cash[w] - ReservedBy(s, w, Idents) >= Quoted(i)[w]
  BY DEF ReservedFor
<1>1. /\ t.cash = s.cash /\ t.debt = s.debt /\ t.positions = s.positions /\ t.days = s.days /\ t.rates = s.rates
      /\ t.last = s.last /\ t.pending = gs
  BY <1>0 DEF Sound, Shape
<1>2. Shape(t)
  BY <1>0 DEF Sound, Shape
<1>3. round \in Nat /\ Asset(i) \in Assets
  BY IdentFacts DEF Times
<1>4. Quoted(i) \in [Legs(i) -> Nat]
  <2>1. IsFiniteSet(Legs(i)) /\ Legs(i) # {}
    <3>1. IsFiniteSet(Wallets)
      <4>1. Wallets = {"spot"} \cup {"perp"} /\ IsFiniteSet({"spot"}) /\ IsFiniteSet({"perp"})
        BY FS_Singleton DEF Wallets
      <4> QED BY <4>1, FS_Union
    <3> QED BY <3>1, IdentFacts, FS_Subset
  <2>2. Cardinality(Legs(i)) \in Nat /\ Cardinality(Legs(i)) # 0
    BY <2>1, FS_CardinalityType, FS_EmptySet
  <2>3. SLOT \div Cardinality(Legs(i)) \in Nat
    BY <2>2, ShareAtMost DEF PairConstants
  <2> QED BY <2>3 DEF Quoted
<1>5. Signal(new, i, round)
  BY <1>3, <1>4 DEF Signal
<1>6. i \notin Active(s) /\ s.days[Asset(i)] # round \div DAY /\ \A j \in Active(s) : Asset(j) # Asset(i)
  BY <1>0 DEF Reservable
<1>7. \A j \in Idents \ {i} : t.pending[j] = s.pending[j]
  BY <1>1
<1>8. new.reserves = Quoted(i) /\ new.decided = round
  OBVIOUS
<1> HIDE DEF new
<1>9. Recorded(venue, t, round)
  BY <1>1, <1>5 DEF Sound, Recorded
<1>10. s.pending[i] = Absent /\ s.positions[i] = Absent /\ Active(t) \subseteq Active(s) \cup {i}
  BY <1>1, <1>6 DEF Active, Present
<1>11. Apart(t)
  BY <1>1, <1>6, <1>10 DEF Sound, Apart
<1>12. Dated(t, round)
  <2>1. s.days[Asset(i)] # Absent => s.days[Asset(i)] < round \div DAY
    <3>1. s.days[Asset(i)] # Absent => s.days[Asset(i)] \in Nat /\ s.days[Asset(i)] <= round \div DAY
      BY <1>3 DEF Sound, Shape, Dated
    <3>2. round \div DAY \in Nat
      BY <1>3, DayOrder
    <3> QED BY <1>6, <3>1, <3>2
  <2> QED BY <1>1, <1>8, <2>1 DEF Sound, Dated
<1>13. ASSUME NEW w \in Wallets PROVE t.cash[w] >= ReservedBy(t, w, Idents)
  <2>1. ReservedBy(t, w, Idents \ {i}) = ReservedBy(s, w, Idents \ {i})
    BY <1>7, ClaimsOfOthers
  <2>2. Claims(s, w)[i] = 0
    BY <1>10 DEF Claims
  <2>3. /\ ReservedBy(t, w, Idents \ {i}) + Claims(t, w)[i] = ReservedBy(t, w, Idents)
        /\ ReservedBy(t, w, Idents \ {i}) \in Nat /\ Claims(t, w)[i] \in Nat
    BY <1>9, ClaimFacts
  <2>4. /\ ReservedBy(s, w, Idents \ {i}) + Claims(s, w)[i] = ReservedBy(s, w, Idents)
        /\ ReservedBy(s, w, Idents) \in Nat
    BY ClaimFacts DEF Sound
  <2>5. s.cash[w] \in Nat /\ s.cash[w] >= ReservedBy(s, w, Idents)
    BY DEF Sound, Shape, Backed
  <2>6. Claims(t, w)[i] = 0 \/ (w \in Legs(i) /\ Claims(t, w)[i] = Quoted(i)[w])
    BY <1>1, <1>8 DEF Claims
  <2>7. w \in Legs(i) => Quoted(i)[w] \in Nat
    BY <1>4
  <2> QED BY <1>0, <1>1, <2>1, <2>2, <2>3, <2>4, <2>5, <2>6, <2>7
<1>14. Sound(venue, t, round)
  BY <1>2, <1>9, <1>11, <1>12, <1>13 DEF Sound, Backed
<1> QED BY <1>14

LEMMA ScannedKeeps ==
  ASSUME PairConstants, round \in Times, NEW s, Sound(venue, s, round), NEW b, NEW t \in Scanned(s, b)
  PROVE  Sound(venue, t, round)
<1>1. \A v : Sound(venue, v, round) => \A u \in AnyOf(v, b) : Sound(venue, u, round)
  BY ReservedKeeps DEF AnyOf
<1> QED BY <1>1 DEF Scanned

-----------------------------------------------------------------------------
\* The idents of a stage, one after the other: h holds, for every set of them,
\* the states that those of the set lead to.

Stages(h, name, b, fs, ids, s) ==
  h = [q \in SUBSET ids |-> IF q = {} THEN {s} ELSE Stage(name, b, fs, Pick(q), h[q \ {Pick(q)}])]

LEMMA EachByRun ==
  ASSUME NEW name, NEW b, NEW fs, NEW ids, NEW s
  PROVE  Each(name, b, fs, ids, s) = (CHOOSE h : Stages(h, name, b, fs, ids, s))[ids]
BY DEF Each, FoldSet, MapThenFoldSet, Stages, Pick

LEMMA StagesExist ==
  ASSUME NEW name, NEW b, NEW fs, NEW S, IsFiniteSet(S), NEW s0
  PROVE  \E h : Stages(h, name, b, fs, S, s0)
<1> DEFINE Upto(n) == {s \in SUBSET S : Cardinality(s) <= n}
           Runner(h, n) == \A s \in Upto(n) :
             h[s] = IF s = {} THEN {s0} ELSE Stage(name, b, fs, Pick(s), h[s \ {Pick(s)}])
           P == {n \in Nat : \E h : Runner(h, n)}
<1>1. 0 \in P
  <2>1. \A s \in Upto(0) : s = {}
    <3> SUFFICES ASSUME NEW s \in SUBSET S, Cardinality(s) <= 0 PROVE s = {}
      OBVIOUS
    <3> QED BY FS_Subset, FS_CardinalityType, FS_EmptySet
  <2>2. Runner([s \in {{}} |-> {s0}], 0)
    BY <2>1
  <2> QED BY <2>2
<1>2. ASSUME NEW n \in P PROVE n + 1 \in P
  <2>1. PICK h : Runner(h, n)
    OBVIOUS
  <2> DEFINE next == [s \in Upto(n + 1) |->
                        IF s = {} THEN {s0} ELSE Stage(name, b, fs, Pick(s), h[s \ {Pick(s)}])]
  <2>2. \A s \in Upto(n + 1) : s # {} => s \ {Pick(s)} \in Upto(n)
    <3> SUFFICES ASSUME NEW s \in SUBSET S, Cardinality(s) <= n + 1, s # {}
                 PROVE  s \ {Pick(s)} \in Upto(n)
      OBVIOUS
    <3>1. n \in Nat
      OBVIOUS
    <3>2. /\ s \ {Pick(s)} \in SUBSET S /\ Cardinality(s) \in Nat
          /\ Cardinality(s \ {Pick(s)}) = Cardinality(s) - 1
      BY PickLess
    <3> QED BY <3>1, <3>2
  <2>3. \A s \in Upto(n) : Cardinality(s) \in Int
    BY FS_Subset, FS_CardinalityType
  <2>4. \A s \in Upto(n) : s \in Upto(n + 1)
    BY <2>3
  <2>5. \A s \in Upto(n) : next[s] = h[s]
    BY <2>1, <2>4
  <2>6. Runner(next, n + 1)
    BY <2>2, <2>5
  <2> HIDE DEF next
  <2>7. n + 1 \in Nat
    OBVIOUS
  <2> QED BY <2>6, <2>7
<1>3. P = Nat
  <2> HIDE DEF P
  <2> QED BY <1>1, <1>2, NatSetInduction DEF P
<1>4. Cardinality(S) \in Nat
  BY FS_CardinalityType
<1>5. PICK h : Runner(h, Cardinality(S))
  BY <1>3, <1>4
<1>6. Upto(Cardinality(S)) = SUBSET S
  BY FS_Subset
<1> DEFINE g == [s \in SUBSET S |-> h[s]]
<1>7. \A s \in SUBSET S : g[s] = IF s = {} THEN {s0} ELSE Stage(name, b, fs, Pick(s), g[s \ {Pick(s)}])
  BY <1>5, <1>6, PickLess
<1>8. Stages(g, name, b, fs, S, s0)
  <2>1. g = [s \in SUBSET S |-> g[s]]
    OBVIOUS
  <2> HIDE DEF g
  <2> QED BY <1>7, <2>1 DEF Stages
<1> QED BY <1>8

\* What a stage keeps of the states it goes through, and of the idents to come.
Staged(name, s, q, t) ==
  /\ Sound(venue, t, round)
  /\ name = "exit" => \A j \in Idents \ q : t.positions[j] = s.positions[j]
  /\ name # "exit" => \A j \in Idents \ q : t.pending[j] = s.pending[j]

LEMMA EachKeeps ==
  ASSUME PairConstants, round \in Times, NEW name, NEW s, Sound(venue, s, round), NEW ids \in SUBSET Idents,
         \A i \in ids : (IF name = "exit" THEN s.positions[i] ELSE s.pending[i]) # Absent,
         NEW b, Seen(b, round), NEW fs, \A f \in fs : Answer(venue, f, round), \A f, g \in fs : f = g
  PROVE  \A t \in Each(name, b, fs, ids, s) : Sound(venue, t, round)
<1> DEFINE h == CHOOSE h : Stages(h, name, b, fs, ids, s)
           P == {n \in Nat : \A q \in SUBSET ids : Cardinality(q) = n => \A t \in h[q] : Staged(name, s, q, t)}
<1>1. IsFiniteSet(ids) /\ Cardinality(ids) \in Nat
  BY IdentFacts, FS_Subset, FS_CardinalityType
<1>2. Stages(h, name, b, fs, ids, s)
  BY <1>1, StagesExist
<1>3. Each(name, b, fs, ids, s) = h[ids]
  BY EachByRun
<1> HIDE DEF h
<1>4. 0 \in P
  <2>1. \A q \in SUBSET ids : Cardinality(q) = 0 => q = {}
    BY <1>1, FS_Subset, FS_EmptySet
  <2>2. h[{}] = {s}
    BY <1>2 DEF Stages
  <2> QED BY <2>1, <2>2 DEF Staged
<1>5. ASSUME NEW n \in P PROVE n + 1 \in P
  <2>1. ASSUME NEW q \in SUBSET ids, Cardinality(q) = n + 1, NEW t \in h[q] PROVE Staged(name, s, q, t)
    <3>1. q # {}
      BY <2>1, FS_EmptySet
    <3> DEFINE i == Pick(q)
               o == q \ {i}
    <3>2. i \in q /\ i \in Idents /\ o \in SUBSET ids /\ Cardinality(o) = n
      BY <1>1, <2>1, <3>1, PickLess
    <3>3. \A u \in h[o] : Staged(name, s, o, u)
      BY <3>2
    <3>4. h[q] = Stage(name, b, fs, i, h[o])
      BY <1>2, <3>1 DEF Stages
    <3> HIDE DEF i, P
    <3>5. PICK u \in h[o] : t \in (IF name = "exit" THEN Exited(u, b, i, fs) ELSE Entered(u, b, i, fs))
      BY <2>1, <3>4 DEF Stage
    <3>6. Staged(name, s, o, u) /\ Sound(venue, u, round)
      BY <3>3, <3>5 DEF Staged
    <3>7. CASE name = "exit"
      <4>1. u.positions[i] # Absent
        BY <3>2, <3>6, <3>7 DEF Staged
      <4>2. i \in Idents /\ t \in Exited(u, b, i, fs) /\ Sound(venue, u, round)
        BY <3>2, <3>5, <3>6, <3>7
      <4>3. Sound(venue, t, round) /\ \A j \in Idents \ {i} : t.positions[j] = u.positions[j]
        BY <4>1, <4>2, ExitedKeeps
      <4> QED BY <3>2, <3>6, <3>7, <4>3 DEF Staged
    <3>8. CASE name # "exit"
      <4>1. u.pending[i] # Absent
        BY <3>2, <3>6, <3>8 DEF Staged
      <4>2. i \in Idents /\ t \in Entered(u, b, i, fs) /\ Sound(venue, u, round)
        BY <3>2, <3>5, <3>6, <3>8
      <4>3. Sound(venue, t, round) /\ \A j \in Idents \ {i} : t.pending[j] = u.pending[j]
        BY <4>1, <4>2, EnteredKeeps
      <4> QED BY <3>2, <3>6, <3>8, <4>3 DEF Staged
    <3> QED BY <3>7, <3>8
  <2>2. n \in Nat /\ n + 1 \in Nat
    OBVIOUS
  <2> QED BY <2>1, <2>2
<1>6. P = Nat
  <2> HIDE DEF P
  <2> QED BY <1>4, <1>5, NatSetInduction DEF P
<1>7. \A t \in h[ids] : Staged(name, s, ids, t)
  BY <1>1, <1>6
<1> QED BY <1>3, <1>7 DEF Staged

\* Whatever a tick settles, closes, opens and reserves, its result is sound.
LEMMA TickedKeeps ==
  ASSUME PairConstants, round \in Times, Sound(venue, State, round), NEW b, Seen(b, round),
         NEW fs, \A f \in fs : Answer(venue, f, round), \A f, g \in fs : f = g, NEW s \in Ticked(b, fs)
  PROVE  Sound(venue, s, round)
<1>1. PICK t \in Each("exit", b, fs, Present(positions), State) :
        \E u \in Each("enter", b, fs, Present(t.pending), t) : s \in Scanned(u, b)
  BY DEF Ticked
<1>2. State.positions = positions
  BY DEF State
<1>3. Sound(venue, t, round)
  <2>1. Present(positions) \in SUBSET Idents /\ \A i \in Present(positions) : State.positions[i] # Absent
    BY <1>2 DEF Present
  <2> QED BY <1>1, <2>1, EachKeeps
<1>4. PICK u \in Each("enter", b, fs, Present(t.pending), t) : s \in Scanned(u, b)
  BY <1>1
<1>5. Sound(venue, u, round)
  <2>1. Present(t.pending) \in SUBSET Idents /\ \A i \in Present(t.pending) : t.pending[i] # Absent
    BY DEF Present
  <2> QED BY <1>3, <1>4, <2>1, EachKeeps
<1> QED BY <1>4, <1>5, ScannedKeeps

-----------------------------------------------------------------------------
\* The invariant of the account.
PairInv ==
  /\ PairConstants /\ round \in Times /\ Sound(venue, State, round) /\ Seen(books, round)
  /\ feed # Absent => Answer(venue, feed, round)
  /\ published \subseteq {e \in Settlements : e <= round}

LEMMA SoundLater ==
  ASSUME PairConstants, NEW n \in Nat, NEW s, Sound(venue, s, n)
  PROVE  Sound(venue, s, n + 1)
<1>1. n \div DAY \in Nat /\ (n + 1) \div DAY \in Nat /\ n \div DAY <= (n + 1) \div DAY
  BY DayOrder
<1>2. \A a \in Assets : s.days[a] # Absent => s.days[a] \in Nat
  BY DEF Sound, Shape
<1>3. Dated(s, n + 1)
  BY <1>1, <1>2 DEF Sound, Dated
<1>4. ASSUME NEW p, Position(venue, p, n) PROVE Position(venue, p, n + 1)
  <2>1. p.cursor \in Nat /\ (p.exit # Absent => p.exit \in Nat)
    BY <1>4 DEF Position, Holdings
  <2> QED BY <1>4, <2>1 DEF Position
<1>5. ASSUME NEW p, NEW i, Signal(p, i, n) PROVE Signal(p, i, n + 1)
  BY <1>5 DEF Signal
<1>6. ASSUME NEW t, Deal(venue, t, n) PROVE Deal(venue, t, n + 1)
  BY <1>6 DEF Deal
<1> QED BY <1>3, <1>4, <1>5, <1>6 DEF Sound, Recorded

LEMMA AnswerLater == ASSUME NEW n \in Nat, NEW f, Answer(venue, f, n) PROVE Answer(venue, f, n + 1)
BY DEF Answer, Settlements, Times

LEMMA PairInit == PairConstants /\ PInit => PairInv
<1> SUFFICES ASSUME PairConstants, PInit PROVE PairInv
  OBVIOUS
<1>1. round \in Times
  BY DEF PInit, PairConstants, Times
<1>2. State = [cash |-> [w \in Wallets |-> CASH], debt |-> [w \in Wallets |-> 0],
               pending |-> [i \in Idents |-> Absent], positions |-> [i \in Idents |-> Absent],
               days |-> [a \in Assets |-> Absent], rates |-> {}, last |-> Absent]
  BY DEF PInit, State
<1>3. CASH \in Nat
  BY DEF PairConstants
<1> DEFINE s == State
<1>4. /\ s.cash = [w \in Wallets |-> CASH] /\ s.pending = [i \in Idents |-> Absent]
      /\ s.positions = [i \in Idents |-> Absent] /\ s.days = [a \in Assets |-> Absent] /\ s.last = Absent
  BY <1>2
<1>5. Shape(s)
  BY <1>2, <1>3 DEF Shape
<1> HIDE DEF s
<1>6. Recorded(venue, s, round) /\ Apart(s) /\ Dated(s, round)
  BY <1>4, IdentFacts DEF Recorded, Apart, Dated, Active, Present
<1>7. Backed(s)
  <2> SUFFICES ASSUME NEW w \in Wallets PROVE s.cash[w] >= ReservedBy(s, w, Idents)
    BY DEF Backed
  <2>1. \A j \in Idents : Claims(s, w)[j] = 0
    BY <1>4 DEF Claims
  <2>2. SumFunctionOnSet(Claims(s, w), Idents) = Cardinality(Idents) * 0
    BY <2>1, IdentFacts, SumConstant
  <2>3. Cardinality(Idents) * 0 = 0
    BY IdentFacts, FS_CardinalityType
  <2> QED BY <1>3, <1>4, <2>2, <2>3 DEF ReservedBy
<1>8. Seen(books, round)
  BY <1>1 DEF PInit, Seen, Times
<1> QED BY <1>1, <1>5, <1>6, <1>7, <1>8 DEF PairInv, Sound, PInit, s

LEMMA RoundKeeps ==
  ASSUME PairInv, Round PROVE PairInv'
<1> USE DEF PairInv
<1>1. PICK fresh \in SUBSET Wallets, late \in SUBSET {s \in Settlements : s <= round} :
        /\ published' = IF venue = "binance" THEN published \cup late ELSE published
        /\ books' = [w \in Wallets |-> IF w \in fresh THEN round ELSE books[w]]
        /\ feed' \in {feed} \cup Fetched(published')
        /\ \E s \in {State} \cup Ticked(books', {feed'} \ {Absent}) :
             /\ cash' = s.cash /\ debt' = s.debt /\ waiting' = s.pending /\ positions' = s.positions
             /\ days' = s.days /\ rates' = s.rates /\ last' = s.last
  BY DEF Round
<1>2. round' = round + 1 /\ round \in Nat /\ round' \in Times /\ venue' = venue
  BY DEF Round, Times, PairConstants
<1>3. published' \subseteq {e \in Settlements : e <= round}
  BY <1>1
<1>4. Seen(books', round)
  BY <1>1, <1>2 DEF Seen
<1>5. ASSUME feed' # Absent PROVE Answer(venue, feed', round)
  <2>1. CASE feed' = feed
    BY <1>5, <2>1
  <2>2. CASE feed' \in Fetched(published')
    <3>1. round < NextAfter(round) /\ NextAfter(round) \in Nat \ {0} /\ NextAfter(round) % PERIOD = 0
      BY <1>2, PeriodFacts
    <3>2. CASE venue = "binance"
      <4>1. PICK n \in {NextAfter(round)} \cup ({round} \cap Settlements) :
              feed' = [ts |-> round, next |-> n, known |-> published']
        BY <2>2, <3>2 DEF Fetched
      <4>2. n \in Nat /\ n # 0 /\ n % PERIOD = 0 /\ round <= n /\ n <= NextAfter(round)
        BY <1>2, <3>1 DEF Settlements
      <4> QED BY <1>2, <1>3, <3>1, <4>1, <4>2 DEF Answer
    <3>3. CASE venue # "binance"
      <4>1. feed'.ts = round /\ feed'.next = NextAfter(round)
        BY <2>2, <3>3 DEF Fetched
      <4> QED BY <1>2, <3>1, <3>3, <4>1 DEF Answer
    <3> QED BY <3>2, <3>3
  <2> QED BY <1>1, <2>1, <2>2
<1>6. PICK s \in {State} \cup Ticked(books', {feed'} \ {Absent}) :
             /\ cash' = s.cash /\ debt' = s.debt /\ waiting' = s.pending /\ positions' = s.positions
             /\ days' = s.days /\ rates' = s.rates /\ last' = s.last
  BY <1>1
<1>7. Sound(venue, s, round)
  <2> DEFINE fs == {feed'} \ {Absent}
  <2>1. (\A f \in fs : Answer(venue, f, round)) /\ \A f, g \in fs : f = g
    BY <1>5
  <2> HIDE DEF fs
  <2> QED BY <1>4, <1>6, <2>1, TickedKeeps DEF fs
<1>8. Sound(venue, s, round + 1)
  BY <1>2, <1>7, SoundLater
<1>9. State' = s
  <2>1. s = [cash |-> s.cash, debt |-> s.debt, pending |-> s.pending, positions |-> s.positions,
             days |-> s.days, rates |-> s.rates, last |-> s.last]
    BY <1>7 DEF Sound, Shape
  <2> QED BY <1>6, <2>1 DEF State
<1>10. Sound(venue, State, round)'
  BY <1>2, <1>8, <1>9
<1>11. (feed # Absent => Answer(venue, feed, round))'
  BY <1>2, <1>5, AnswerLater
<1>12. Seen(books, round)' /\ (published \subseteq {e \in Settlements : e <= round})'
  <2>1. \A e \in Settlements : e \in Nat
    BY DEF Settlements, Times
  <2> QED BY <1>2, <1>3, <1>4, <2>1 DEF Seen
<1> QED BY <1>2, <1>10, <1>11, <1>12

LEMMA ReopenKeeps ==
  ASSUME PairInv, Reopen PROVE PairInv'
<1> USE DEF PairInv
<1> DEFINE s == State
           t == State'
<1>1. /\ t.cash = s.cash /\ t.debt = s.debt /\ t.positions = s.positions /\ t.days = s.days /\ t.rates = s.rates
      /\ t.last = s.last /\ t.pending = [i \in Idents |-> Absent]
  BY DEF State, Reopen
<1>2. round' = round /\ venue' = venue /\ published' = published /\ feed' = Absent /\ books' = [w \in Wallets |-> 0]
      /\ round \in Nat
  BY DEF Reopen, Times
<1>3. Shape(t)
  <2>1. t = [cash |-> s.cash, debt |-> s.debt, pending |-> [i \in Idents |-> Absent], positions |-> s.positions,
             days |-> s.days, rates |-> s.rates, last |-> s.last]
    BY DEF State, Reopen
  <2> HIDE DEF t, s
  <2> QED BY <2>1 DEF Sound, Shape, s
<1>10. State' = t
  OBVIOUS
<1> HIDE DEF s, t
<1>0. Sound(venue, s, round)
  BY DEF s
<1>4. Recorded(venue, t, round)
  BY <1>0, <1>1 DEF Sound, Recorded
<1>5. Apart(t)
  BY <1>0, <1>1 DEF Sound, Apart, Active, Present
<1>6. Dated(t, round)
  BY <1>0, <1>1 DEF Sound, Dated
<1>7. ASSUME NEW w \in Wallets PROVE t.cash[w] >= ReservedBy(t, w, Idents)
  <2>1. \A j \in Idents : Claims(t, w)[j] = 0
    BY <1>1 DEF Claims
  <2>2. SumFunctionOnSet(Claims(t, w), Idents) = Cardinality(Idents) * 0
    BY <2>1, IdentFacts, SumConstant
  <2>3. Cardinality(Idents) * 0 = 0
    BY IdentFacts, FS_CardinalityType
  <2>4. s.cash[w] \in Nat
    BY <1>0 DEF Sound, Shape
  <2> QED BY <1>1, <2>2, <2>3, <2>4 DEF ReservedBy
<1>8. Sound(venue, t, round)
  BY <1>3, <1>4, <1>5, <1>6, <1>7 DEF Sound, Backed
<1>9. Sound(venue, State, round)'
  BY <1>2, <1>8, <1>10
<1> QED BY <1>2, <1>9 DEF Seen

LEMMA PairStep == PairInv /\ [PNext]_pvars => PairInv'
<1> SUFFICES ASSUME PairInv, [PNext]_pvars PROVE PairInv'
  OBVIOUS
<1>1. CASE Round
  BY <1>1, RoundKeeps
<1>2. CASE Reopen
  BY <1>2, ReopenKeeps
<1>3. CASE UNCHANGED pvars
  BY <1>3 DEF PairInv, pvars, State
<1> QED BY <1>1, <1>2, <1>3 DEF PNext

\* What was charged is exact, but for a settlement that an outage hid.
LEMMA ExactFunding == PairInv => FundingIsExact
BY DEF PairInv, Sound, Recorded, Deal, Charged, Lapsed, FundingIsExact, State

\* A reserve can be paid, and an asset is entered once a day.
LEMMA CoveredReserves == PairInv => WalletsCoverReserves
<1> SUFFICES ASSUME PairInv PROVE WalletsCoverReserves
  OBVIOUS
<1>1. Backed(State) /\ Dated(State, round) /\ Recorded(venue, State, round)
  BY DEF PairInv, Sound
<1>2. State.cash = cash /\ State.positions = positions /\ State.last = last
  BY DEF State
<1>3. ASSUME last # Absent, NEW i \in Present(positions), Asset(i) = Asset(last.ident)
      PROVE  positions[i].entered \div DAY # last.entered \div DAY
  <2>1. last.entered \in Nat /\ positions[i].entered \in Nat
    BY <1>1, <1>2, <1>3 DEF Recorded, Deal, Position, Holdings, Present
  <2>2. PairConstants
    BY DEF PairInv
  <2>3. last.entered \div DAY \in Nat /\ positions[i].entered \div DAY \in Nat
    BY <2>1, <2>2, DayOrder
  <2> QED BY <1>1, <1>2, <1>3, <2>3 DEF Dated, Present
<1> QED BY <1>1, <1>2, <1>3 DEF WalletsCoverReserves, Backed

\* The pair account charges every settlement that it could know of once, holds no
\* settlement charged twice, and can always pay what it reserved
\* (magi2/fast_models/derivatives.py:88 and :207).
THEOREM PairsSound == PSpec => []PairsAreSound
<1>1. PairInv => PairsAreSound
  BY ExactFunding, CoveredReserves DEF PairsAreSound
<1>2. PInit => PairInv
  BY PairInit, PairAssumption
<1> QED BY <1>1, <1>2, PairStep, PTL DEF PSpec

=============================================================================
