------------------------------ MODULE Archive ------------------------------
(***************************************************************************)
(* MAGI1's archiver: raw hours are uploaded to Drive and then removed from *)
(* the disk, the research database is uploaded once a day and then pruned, *)
(* snapshots that a newer one contains are deleted, and so are raw hours   *)
(* whose analysis is in a snapshot.  Meanwhile the collector writes both.  *)
(*                                                                         *)
(* Time counts hours; what happens at n happens inside hour n.  A record   *)
(* of research stands for the analysis of one hour.                        *)
(***************************************************************************)
EXTENDS Integers, FiniteSetsExt

CONSTANTS
  Busy,           \* the hours in which something is traded
  DAY,            \* hours of a day
  Batch,          \* uploads of a cycle (12)
  KeepRecords,    \* how long the database keeps them (30 days)
  KeepRaw,        \* how long Drive keeps raw hours (7 days)
  CompactRemote, DeleteRemote,   \* the two opt-in switches
  None,
  Horizon,        \* bound on the clock
  MaxFaults       \* bound on late lines, failed cycles and restarts

ASSUME ArchiveAssumption ==
  /\ Busy \subseteq Nat /\ DAY \in Nat \ {0}
  /\ {Batch, KeepRecords, KeepRaw, Horizon, MaxFaults} \subseteq Nat
  /\ {CompactRemote, DeleteRemote} \subseteq BOOLEAN
  /\ None \notin Nat

VARIABLES
  now,
  raw,         \* the lines of each local file; no lines, no file
  touched,     \* closed files written within this hour
  db,          \* records, as committed
  started,     \* when the process began
  coverage,    \* analysis_coverage_v1
  state,       \* drive_archive_v1
  objects,     \* raw files on Drive
  snapshots,   \* research snapshots on Drive
  job,         \* locals of cycle()
  faults,
  history      \* lines written, records committed, lines expired, snapshots issued

local  == <<raw, touched, db, started, coverage>>
remote == <<objects, snapshots>>
avars   == <<now, local, state, remote, job, faults, history>>

IdleJob == [pc |-> "idle", now |-> 0, coverage |-> [start |-> 0, through |-> 0],
            candidates |-> {}, pending |-> {}, rows |-> {}, proof |-> None,
            left |-> {}, old |-> None, key |-> {}]

AInit ==
  /\ now = 0
  /\ raw = [h \in Busy |-> {}] /\ touched = {}
  /\ db = {} /\ started = 0 /\ coverage = [start |-> 0, through |-> 0]
  /\ state = [files |-> [h \in Busy |-> None], day |-> None, proof |-> None,
              coverage |-> [start |-> 0, through |-> 0]]
  /\ objects = {} /\ snapshots = {}
  /\ job = IdleJob /\ faults = 0
  /\ history = [written |-> {}, recorded |-> {}, expired |-> {}, issued |-> 0]

Tick ==
  /\ now < Horizon
  /\ now' = now + 1 /\ touched' = {}
  /\ UNCHANGED <<raw, db, started, coverage, state, remote, job, faults, history>>

-----------------------------------------------------------------------------
(* The collector                                                           *)

\* An hour that has been over for an hour.
Closed(h) == h + 2 <= now

\* flush(): lines are appended to the file of the hour they were received in.
\* Lines received before the process was held up are written when it goes on.
WriteRaw ==
  /\ \E h \in Busy :
       LET line == IF h = now THEN 1 ELSE 2
       IN /\ h <= now /\ <<h, line>> \notin history.written
          /\ faults' = faults + (line - 1) /\ faults' <= MaxFaults
          /\ raw' = [raw EXCEPT ![h] = @ \cup {line}]
          /\ touched' = IF Closed(h) THEN touched \cup {h} ELSE touched
          /\ history' = [history EXCEPT !.written = @ \cup {<<h, line>>}]
  /\ UNCHANGED <<now, db, started, coverage, state, remote, job>>

\* The analysis of closed hours is committed, and then the claim to it: the
\* outcomes of an hour are known some time after its end.
Checkpoint ==
  /\ coverage # [start |-> started, through |-> now]
  /\ coverage' = [start |-> started, through |-> now]
  /\ LET rows == {h \in Busy : started < h /\ Closed(h)} \ history.recorded
     IN /\ db' = db \cup rows
        /\ history' = [history EXCEPT !.recorded = @ \cup rows]
  /\ UNCHANGED <<now, raw, touched, started, state, remote, job, faults>>

-----------------------------------------------------------------------------
(* cycle()                                                                 *)

FirstOf(n, S) == {x \in S : Cardinality({y \in S : y < x}) < n}

\* The file the loop has come to.
Least(S) == CHOOSE x \in S : \A y \in S : x <= y

\* What was analysed from start to end, one hour beyond included.
Covers(c, h) == c.start < h /\ h + 2 <= c.through

Saved(h) == state.files[h] # None

NewDay == now \div DAY # state.day \/ state.proof = None

\* Seeded fault: a cycle removes only the files it uploaded itself.
BeginUploads ==
  /\ job.pc = "idle"
  /\ \E recent \in SUBSET touched :
       LET found == {h \in Busy : raw[h] # {} /\ Closed(h)} \ recent
       IN job' = [IdleJob EXCEPT
            !.pc = IF NewDay THEN "send" ELSE "digest",
            !.now = now, !.coverage = IF NewDay THEN coverage ELSE @, !.candidates = FirstOf(Batch, {h \in found : ~Saved(h)}),
            !.pending = FirstOf(Batch, {h \in found : ~Saved(h)})]
  /\ UNCHANGED <<now, local, state, remote, faults, history>>

\* Closed for an hour, and not written for a while.
BeginCycle ==
  /\ job.pc = "idle"
  /\ \E recent \in SUBSET touched :
       LET found == {h \in Busy : raw[h] # {} /\ Closed(h)} \ recent
       IN job' = [IdleJob EXCEPT
            !.pc = IF NewDay THEN "send" ELSE "digest",
            !.now = now, !.coverage = IF NewDay THEN coverage ELSE @, !.candidates = found,
            !.pending = FirstOf(Batch, {h \in found : ~Saved(h)})]
  /\ UNCHANGED <<now, local, state, remote, faults, history>>

\* The database is copied, and the copy sent.
NewSnapshot == [id |-> history.issued + 1, rows |-> db]

StoreSnapshot ==
  /\ snapshots' = snapshots \cup {NewSnapshot}
  /\ history' = [history EXCEPT !.issued = @ + 1]

SendSnapshot ==
  /\ job.pc = "send"
  /\ StoreSnapshot
  /\ job' = [job EXCEPT !.pc = IF CompactRemote THEN "compact" ELSE "adopt", !.rows = db,
                        !.proof = NewSnapshot.id, !.left = snapshots]
  /\ UNCHANGED <<now, local, state, objects, faults>>

\* Seeded fault: an older snapshot is superseded.
Older(s) == s.id < job.proof

\* compact_backups(): a snapshot without a row of its own is superseded.
Superseded(s) == s.rows \subseteq job.rows

Compare ==
  /\ job.pc = "compact" /\ job.old = None
  /\ \E s \in job.left :
       job' = [job EXCEPT !.left = @ \ {s}, !.old = IF Superseded(s) THEN s.id ELSE None]
  /\ UNCHANGED <<now, local, state, remote, faults, history>>

\* Seeded fault: only objects that may expire need their proof.
LinkedVerified(id) == {o \in objects : o.proof = id /\ o.verified}

Linked(id) == {o \in objects : o.proof = id}

Relink ==
  /\ job.pc = "compact" /\ job.old # None
  /\ \E o \in Linked(job.old) :
       objects' = (objects \ {o}) \cup {[o EXCEPT !.proof = job.proof]}
  /\ UNCHANGED <<now, local, state, snapshots, job, faults, history>>

DeleteSnapshot ==
  /\ job.pc = "compact" /\ job.old # None /\ Linked(job.old) = {}
  /\ \E s \in snapshots : s.id = job.proof
  /\ snapshots' = {s \in snapshots : s.id # job.old}
  /\ job' = [job EXCEPT !.old = None]
  /\ UNCHANGED <<now, local, state, objects, faults, history>>

Compacted ==
  /\ job.pc = "compact" /\ job.old = None /\ job.left = {}
  /\ job' = [job EXCEPT !.pc = "adopt"]
  /\ UNCHANGED <<now, local, state, remote, faults, history>>

Adopt ==
  /\ job.pc = "adopt"
  /\ state' = [state EXCEPT !.day = job.now \div DAY, !.proof = job.proof,
                            !.coverage = job.coverage]
  /\ job' = [job EXCEPT !.pc = "prune"]
  /\ UNCHANGED <<now, local, remote, faults, history>>

\* Rows up to the last one of the snapshot, if they are old.
Prunable == {h \in job.rows : h + 1 <= job.now - KeepRecords}

Prune ==
  /\ job.pc = "prune"
  /\ db' = db \ Prunable
  /\ job' = [job EXCEPT !.pc = "digest", !.rows = {}, !.proof = None,
                        !.coverage = IdleJob.coverage]
  /\ UNCHANGED <<now, raw, touched, started, coverage, state, remote, faults, history>>

Digest ==
  /\ job.pc = "digest" /\ job.pending # {}
  /\ job' = [job EXCEPT !.pc = "put", !.key = raw[Least(job.pending)]]
  /\ UNCHANGED <<now, local, state, remote, faults, history>>

\* Seeded fault: the analysis done by now counts.
AnalysedByNow(h) == Covers(coverage, h)

\* analysis_verified: only what the snapshot covers may ever expire.
Verified(h) == Covers(state.coverage, h)

Object(h) == [hour |-> h, key |-> job.key, content |-> raw[h],
              verified |-> Verified(h), proof |-> state.proof]

\* What the next upload finds on Drive already.
Known(h) ==
  \E o \in objects : o.hour = h /\ o.key = job.key /\ o.content = job.key

\* upload(): a file written to since the digest fails the verification, and
\* leaves an object that no entry names.
Put ==
  /\ job.pc = "put"
  /\ LET h == Least(job.pending)
     IN /\ objects' = IF Known(h) THEN objects ELSE objects \cup {Object(h)}
        /\ IF Known(h) \/ raw[h] = job.key
             THEN /\ state' = [state EXCEPT !.files[h] = job.key]
                  /\ job' = [job EXCEPT !.pc = "digest", !.key = {}, !.pending = @ \ {h}]
             ELSE /\ job' = IdleJob
                  /\ UNCHANGED state
  /\ UNCHANGED <<now, local, snapshots, faults, history>>

Uploaded ==
  /\ job.pc = "digest" /\ job.pending = {}
  /\ job' = [job EXCEPT !.pc = "clear"]
  /\ UNCHANGED <<now, local, state, remote, faults, history>>

\* The object of the entry, verified once more.
Stored(h) == \E o \in objects : o.hour = h /\ o.content = state.files[h]

\* Seeded fault: a file is removed once it was uploaded.
UploadedOnce(h) == Saved(h)

\* What Drive holds is what the file is now.
Held(h) == Saved(h) /\ raw[h] = state.files[h]

\* Only a file that Drive holds as it is now is removed.  An object that is
\* gone ends the cycle.
Clear ==
  /\ job.pc = "clear" /\ job.candidates # {}
  /\ LET h == Least(job.candidates)
     IN IF Saved(h) /\ ~Stored(h)
          THEN /\ job' = IdleJob
               /\ UNCHANGED raw
          ELSE /\ raw' = IF Held(h) THEN [raw EXCEPT ![h] = {}]
                         ELSE raw
               /\ job' = [job EXCEPT !.candidates = @ \ {h}]
  /\ UNCHANGED <<now, touched, db, started, coverage, state, remote, faults, history>>

Cleared ==
  /\ job.pc = "clear" /\ job.candidates = {}
  /\ job' = [job EXCEPT !.pc = "expire", !.left = IF DeleteRemote THEN objects ELSE {}]
  /\ UNCHANGED <<now, local, state, remote, faults, history>>

Due(o) == o.verified /\ o.hour + 1 + KeepRaw <= job.now

HasProof(o) == \E s \in snapshots : s.id = o.proof

\* A raw object that is due is deleted while its proof is there; a proof that
\* is gone ends the cycle.
Expire ==
  /\ job.pc = "expire"
  /\ \E o \in job.left :
       IF Due(o)
         THEN IF HasProof(o)
                THEN /\ objects' = objects \ {o}
                     /\ history' = [history EXCEPT
                          !.expired = @ \cup {<<o.hour, l>> : l \in o.content}]
                     /\ job' = [job EXCEPT !.left = @ \ {o}]
                ELSE /\ job' = IdleJob
                     /\ UNCHANGED <<objects, history>>
         ELSE /\ job' = [job EXCEPT !.left = @ \ {o}]
              /\ UNCHANGED <<objects, history>>
  /\ UNCHANGED <<now, local, state, snapshots, faults>>

FinishCycle ==
  /\ job.pc = "expire" /\ job.left = {}
  /\ state' = [state EXCEPT !.files = [h \in Busy |-> IF raw[h] = {} THEN None ELSE @[h]]]
  /\ job' = IdleJob
  /\ UNCHANGED <<now, local, remote, faults, history>>

-----------------------------------------------------------------------------
(* Failures                                                                *)

\* Any request or file operation may fail; of an upload, also after it was
\* stored.  The state kept in memory is the one of the last checkpoint.
CycleFails ==
  /\ job.pc # "idle" /\ faults < MaxFaults
  /\ faults' = faults + 1
  /\ job' = IdleJob
  /\ \/ UNCHANGED <<remote, history>>
     \/ job.pc = "send" /\ StoreSnapshot /\ UNCHANGED objects
     \/ /\ job.pc = "put"
        /\ objects' = objects \cup {Object(Least(job.pending))}
        /\ UNCHANGED <<snapshots, history>>
  /\ UNCHANGED <<now, local, state>>

\* The process dies and starts again: analysis begins anew.
Restart ==
  /\ faults < MaxFaults
  /\ faults' = faults + 1
  /\ started' = now
  /\ job' = IdleJob
  /\ UNCHANGED <<now, raw, touched, db, coverage, state, remote, history>>

-----------------------------------------------------------------------------
Cycle == BeginCycle \/ SendSnapshot \/ Compare \/ Relink \/ DeleteSnapshot \/ Compacted
         \/ Adopt \/ Prune \/ Digest \/ Put \/ Uploaded \/ Clear \/ Cleared \/ Expire \/ FinishCycle

ANext == Tick \/ WriteRaw \/ Checkpoint \/ Cycle \/ CycleFails \/ Restart

ASpec == AInit /\ [][ANext]_avars /\ WF_avars(Cycle) /\ WF_avars(Tick)

-----------------------------------------------------------------------------
(* Properties                                                              *)

\* A line once written is on the disk or on Drive until it expires there
\* ("failures retain local data"; a local copy is removed after verifying
\* the remote one).
NothingLost ==
  \A l \in history.written :
    \/ l[2] \in raw[l[1]]
    \/ \E o \in objects : o.hour = l[1] /\ l[2] \in o.content
    \/ l \in history.expired

\* A record once committed is in the database or in a snapshot, whichever
\* snapshots were compacted and whatever was pruned.
AnalysisKept ==
  \A h \in history.recorded : h \in db \/ \E s \in snapshots : h \in s.rows

\* Compaction preserves the references of the raw files: each names a
\* snapshot that is there.
ProofsResolve == \A o \in objects : HasProof(o)

\* Lines expire only when the analysis of their hour is on Drive.
ExpiredWasAnalysed ==
  \A l \in history.expired : \E s \in snapshots : l[1] \in s.rows

\* The four together: what is removed anywhere is kept elsewhere until it
\* expires, and it expires behind a stored analysis only.
ArchiveKeeps ==
  NothingLost /\ AnalysisKept /\ ProofsResolve /\ ExpiredWasAnalysed

\* A closed file leaves the disk, unless lines were written late.
FilesLeave ==
  \A h \in Busy :
    (h + 2 <= Horizon /\ raw[h] # {})
      ~> (raw[h] = {} \/ \E l \in history.written : l[2] = 2)

=============================================================================
