---------------------------- MODULE IntentOutbox ----------------------------
(***************************************************************************)
(* MAGI2's shadow bridge: every minute it fetches the published VPD states,*)
(* turns the picks of the newest one into intents, and keeps each intent   *)
(* under the identifier of its snapshot and asset in a durable outbox that *)
(* MAGI3 reads over HTTP.                                                  *)
(***************************************************************************)
EXTENDS Integers

CONSTANTS
  Assets, Periods,   \* Periods: the morning and the evening state file
  ScanTimes,         \* bound: the times scans are made at
  NoSnapshot, NoIntent,
  MaxSourceAge,      \* 12 hours
  MaxLife,              \* 120000 ms
  Notional, Hold,    \* 10000 KRW, 300 s
  Horizon            \* bound on the clock

VARIABLES
  now,      \* the clock both services read
  states,   \* the files in the repository, Periods -> snapshot
  outbox,   \* table signals of the bridge
  source    \* meta['source_status'].status

outboxVars == <<outbox, source>>

\* A snapshot is its time and the assets that scored 75..100.
Snapshot == [asof: ScanTimes, picks: SUBSET Assets]

OutboxIds == ScanTimes \X Assets

OutboxIntents ==
  [id: OutboxIds, created: 0..Horizon, expires: 0..(Horizon + MaxLife),
   notional: {Notional}, hold: {Hold}]

-----------------------------------------------------------------------------
Init ==
  /\ states = [d \in Periods |-> NoSnapshot]
  /\ outbox = [i \in OutboxIds |-> NoIntent]
  /\ source = "NONE"

\* candidates(): one intent per pick, under hash(asof:asset), valid from now.
Candidates(snapshot) ==
  {[id |-> <<snapshot.asof, a>>, created |-> now, expires |-> now + MaxLife,
    notional |-> Notional, hold |-> Hold] : a \in snapshot.picks}

\* fetch_latest(): the newest of the files that could be fetched.
Newest(got) ==
  {states[d] : d \in {e \in got : \A f \in got : states[f].asof <= states[e].asof}}

\* publish_bundle(): a scan of some earlier moment replaces the state file of
\* its period, unless something newer was published while it ran.
Publish(d, snapshot) ==
  /\ snapshot.asof <= now
  /\ \A e \in Periods : states[e] # NoSnapshot => states[e].asof < snapshot.asof
  /\ states' = [states EXCEPT ![d] = snapshot]
  /\ UNCHANGED <<now, outboxVars>>

\* Seeded faults of the insertion: INSERT OR REPLACE; expired rows are purged
\* first; any age is accepted.
UpdateReplaces(got) ==
  /\ got # {} /\ \A d \in got : states[d] # NoSnapshot
  /\ \E snapshot \in Newest(got) :
       /\ now - snapshot.asof \in 0..MaxSourceAge
       /\ outbox' = [i \in OutboxIds |->
            IF \E s \in Candidates(snapshot) : s.id = i
              THEN CHOOSE s \in Candidates(snapshot) : s.id = i ELSE outbox[i]]
  /\ source' = "OK"
  /\ UNCHANGED <<now, states>>

UpdatePurges(got) ==
  /\ got # {} /\ \A d \in got : states[d] # NoSnapshot
  /\ \E snapshot \in Newest(got) :
       outbox' = [i \in OutboxIds |->
         IF outbox[i] # NoIntent THEN IF outbox[i].expires <= now THEN NoIntent ELSE outbox[i]
         ELSE IF \E s \in Candidates(snapshot) : s.id = i
           THEN CHOOSE s \in Candidates(snapshot) : s.id = i ELSE NoIntent]
  /\ source' = "OK"
  /\ UNCHANGED <<now, states>>

UpdateAnyAge(got) ==
  /\ got # {} /\ \A d \in got : states[d] # NoSnapshot
  /\ \E snapshot \in Newest(got) :
       outbox' = [i \in OutboxIds |->
         IF outbox[i] = NoIntent /\ \E s \in Candidates(snapshot) : s.id = i
           THEN CHOOSE s \in Candidates(snapshot) : s.id = i ELSE outbox[i]]
  /\ source' = "OK"
  /\ UNCHANGED <<now, states>>

\* Outbox.update(): INSERT OR IGNORE each candidate, then the source status.
Update(got) ==
  /\ got # {} /\ \A d \in got : states[d] # NoSnapshot
  /\ \E snapshot \in Newest(got) :
       /\ now - snapshot.asof \in 0..MaxSourceAge
       /\ outbox' = [i \in OutboxIds |->
            IF outbox[i] = NoIntent /\ \E s \in Candidates(snapshot) : s.id = i
              THEN CHOOSE s \in Candidates(snapshot) : s.id = i
              ELSE outbox[i]]
  /\ source' = "OK"
  /\ UNCHANGED <<now, states>>

\* No file could be fetched, or the newest one is too old.
UpdateFails(got) ==
  /\ \A d \in got : states[d] # NoSnapshot
  /\ \A snapshot \in Newest(got) : now - snapshot.asof \notin 0..MaxSourceAge
  /\ source' = "SOURCE_UNAVAILABLE_OR_STALE"
  /\ UNCHANGED <<now, states, outbox>>

\* Outbox.report(), the body of GET /signals.
Report ==
  {outbox[i] : i \in {j \in OutboxIds :
     outbox[j] # NoIntent /\ outbox[j].created >= now - MaxLife /\ outbox[j].expires > now}}

BridgeStep == \E got \in SUBSET Periods : Update(got) \/ UpdateFails(got)

=============================================================================
