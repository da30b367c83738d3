----------------------------- MODULE CaptureAudit -----------------------------
(***************************************************************************)
(* The daily capture audit of MAGI2 (magi2/capture_audit.py): decisions of *)
(* a strategy are copied from its ledger into an archive, a closed session *)
(* is judged from the archive and the ledger, and the report is filed and  *)
(* delivered once.  The worker may die between any two of its commits, its *)
(* ledgers may be unreadable, and Telegram may swallow an answer.          *)
(*                                                                         *)
(* One market is followed.  The observer beside it writes decisions and    *)
(* purchases, prunes old rows, and its ledger may be replaced by a new one *)
(* (with identities that start again) before it holds as many rows.        *)
(***************************************************************************)
EXTENDS Integers, FiniteSets, FiniteSetsExt

CONSTANTS
  Strategies,      \* of NAMES: which one is followed
  Kinds,           \* of its events: ASSESSMENT, CAPTURE, CANCELED, SIGNAL, WINDOW
  Outgrows,        \* may a replaced ledger reach the old cursor unseen?
  LastTime, MaxRows, MaxResets, MaxDeaths,
  Unknown

SESSION == 3
Opening == 1       \* ten minutes after the session's end
Retry == 1         \* fifteen minutes between attempts

VARIABLES
  strategy, instant,
  src, lastId,               \* events of the strategy's ledger, its last identity
  buys,                      \* its purchases
  cursor, evidence,          \* meta and evidence of the archive
  task, roundAt,             \* the worker; when its round roundAt
  report, lastAttempt, errors,
  files,                     \* v2-<start>.json by session
  deliveries,                \* claimed sessions and their status
  accepted,                  \* history: what Telegram accepted
  captured,                  \* history: when it captured the market
  resets, restarts

ledger == <<src, lastId, buys, captured, resets>>
archive == <<cursor, evidence>>
avars == <<strategy, instant, ledger, archive, task, roundAt, report, lastAttempt, errors,
           files, deliveries, accepted, restarts>>

\* Windows are too many to be archived.
Archived == Kinds \ {"WINDOW"}

\* The session that closed last, once its opening minutes are over.
ClosedSession(t) ==
  LET end == (t \div SESSION) * SESSION
  IN IF t - end < Opening THEN [start |-> end - 2 * SESSION, end |-> end - SESSION]
                          ELSE [start |-> end - SESSION, end |-> end]

In(rows, session) == {r \in rows : r.ts >= session.start /\ r.ts < session.end}
Of(rows, kind) == {r \in rows : r.kind = kind}

\* The day before was reported.
AInit ==
  /\ strategy \in Strategies /\ instant = SESSION + 1
  /\ src = {} /\ lastId = 0 /\ buys = {}
  /\ cursor = 0 /\ evidence = {}
  /\ task = "sync" /\ roundAt = instant /\ report = Unknown /\ lastAttempt = -Retry /\ errors = FALSE
  /\ files = {[session |-> ClosedSession(instant), errors |-> FALSE, verdict |-> "UNKNOWN"]}
  /\ deliveries = {[start |-> ClosedSession(instant).start, status |-> "SENT"]} /\ accepted = {}
  /\ captured = {} /\ resets = 0 /\ restarts = 0

Worker == <<archive, task, roundAt, report, lastAttempt, errors, files, deliveries, accepted, restarts>>

-----------------------------------------------------------------------------
(* The strategy beside it                                                  *)

\* Rows other than captures are pruned after a day.  Only requests take time.
TimeGoesOn ==
  /\ instant < LastTime /\ instant' = instant + 1 /\ task \in {"sync", "build", "send"}
  /\ src' = {r \in src : r.kind = "CAPTURE" \/ r.ts >= instant + 1 - SESSION}
  /\ UNCHANGED <<strategy, lastId, buys, captured, resets, Worker>>

Decide ==
  /\ lastId < MaxRows /\ task \in {"sync", "build", "send"}
  /\ lastId < cursor /\ ~Outgrows => lastId + 1 < cursor
  /\ \E kind \in Kinds :
       LET row == [id |-> lastId + 1, ts |-> instant, kind |-> kind]
       IN src' = src \cup {row} /\ captured' = IF kind = "CAPTURE" THEN captured \cup {instant} ELSE captured
  /\ lastId' = lastId + 1
  /\ UNCHANGED <<strategy, instant, buys, resets, Worker>>

Purchase == /\ buys = {} /\ buys' = {instant}
       /\ UNCHANGED <<strategy, instant, src, lastId, captured, resets, Worker>>

Replace ==
  /\ resets < MaxResets /\ resets' = resets + 1 /\ cursor = lastId
  /\ src' = {} /\ lastId' = 0
  /\ UNCHANGED <<strategy, instant, buys, captured, Worker>>

-----------------------------------------------------------------------------
(* One round of the worker                                                 *)

\* Seeded fault: the cursor is trusted whatever the ledger holds.
FromCursor(maximum) == cursor

\* The archived rows after the cursor; a replaced ledger is read from its
\* start.
From(maximum) == IF maximum < cursor THEN 0 ELSE cursor

Fresh == {r \in src : r.id > From(lastId) /\ r.ts >= instant - 3 * SESSION /\ r.kind \in Archived}

Stored(rows) == {[ts |-> r.ts, id |-> r.id, kind |-> r.kind] : r \in rows}

Kept(rows) == {r \in rows : r.ts >= instant - 3 * SESSION}

\* Either all fresh rows are added, or a row cannot be read and the cursor
\* stays behind the rows before it, or the ledger cannot be opened.
Sync ==
  /\ task = "sync" /\ task' = "plan" /\ roundAt' = instant
  /\ \E read \in {r.id : r \in Fresh} \cup {lastId, 0}, ok \in BOOLEAN :
       LET rows == IF ok THEN Fresh ELSE {r \in Fresh : r.id < read}
       IN /\ ok => read = lastId
          /\ evidence' = Kept(evidence \cup Stored(rows))
          /\ cursor' = IF ok /\ rows # {} THEN Max({r.id : r \in rows}) ELSE cursor
          /\ errors' = ~ok
  /\ UNCHANGED <<strategy, instant, ledger, report, lastAttempt, files, deliveries, accepted, restarts>>

Filed(session) == {r \in files : r.session = session}

\* The report of the last closed session is built, or the one on disk is taken.
Plan ==
  /\ task = "plan"
  /\ LET session == ClosedSession(roundAt)
     IN \/ /\ Filed(session) = {} /\ roundAt - lastAttempt >= Retry
           /\ lastAttempt' = roundAt /\ task' = "build" /\ report' = session
        \/ /\ Filed(session) = {} /\ roundAt - lastAttempt < Retry
           /\ task' = "sync" /\ UNCHANGED <<lastAttempt, report>>
        \/ /\ Filed(session) # {} /\ report' \in Filed(session)
           /\ task' = "claim" /\ UNCHANGED lastAttempt
  /\ UNCHANGED <<strategy, instant, roundAt, ledger, archive, errors, files, deliveries, accepted, restarts>>

\* What is said of the strategy: a purchase first, then the reason it did not
\* buy, and "unknown" where the record is too short to say.
Verdict(session, crossing, stopped) ==
  LET rows == In(evidence, session)
      near == {r \in rows : r.kind = "ASSESSMENT" /\ crossing # Unknown /\ r.ts \in crossing - 1 .. crossing}
  IN IF {t \in buys : t >= session.start /\ t < session.end} # {} THEN "BOUGHT"
     ELSE IF strategy = "fast" /\ stopped THEN "STOPPED"
     ELSE IF strategy = "fast" /\ Of(rows, "CANCELED") # {} THEN "CAPTURED"
     ELSE IF strategy = "fast" /\ Of(rows, "CAPTURE") # {} THEN "CAPTURED"
     ELSE IF strategy = "fast" /\ near # {} THEN "NOT_CAPTURED"
     ELSE IF Of(rows, "SIGNAL") # {} THEN "CAPTURED"
     ELSE IF strategy = "bollinger" /\ near # {} THEN "ASSESSED"
     ELSE "UNKNOWN"

\* The hour the market crossed its mark is asked for, and may not be known, as
\* may be whether the account was stopped then;
\* a day without any market is tried again, a ledger that cannot be read is
\* said to be so.
Build ==
  /\ task = "build"
  /\ \/ task' = "sync" /\ UNCHANGED report
     \/ /\ task' = "file"
        /\ \E crossing \in {Unknown} \cup (report.start .. report.end - 1), readable, stopped \in BOOLEAN :
             report' = [session |-> report, errors |-> errors,
                        verdict |-> IF readable THEN Verdict(report, crossing, stopped) ELSE "PENDING"]
  /\ UNCHANGED <<strategy, instant, roundAt, ledger, archive, lastAttempt, errors, files, deliveries,
                 accepted, restarts>>

File ==
  /\ task = "file" /\ task' = "claim"
  /\ files' = (files \ Filed(report.session)) \cup {report}
  /\ UNCHANGED <<strategy, instant, roundAt, ledger, archive, report, lastAttempt, errors, deliveries,
                 accepted, restarts>>

Status(session) == {d \in deliveries : d.start = session.start}

\* Seeded fault: a report whose answer was lost is offered once more.
Unsettled(session) == \A d \in Status(session) : d.status # "SENT"

Undelivered(session) == Status(session) = {}

\* deliver(): claimed before it is sent.
ClaimReport ==
  /\ task = "claim"
  /\ IF Undelivered(report.session)
       THEN /\ deliveries' = deliveries \cup {[start |-> report.session.start, status |-> "CLAIMED"]}
            /\ task' = "send"
       ELSE task' = "sync" /\ UNCHANGED deliveries
  /\ UNCHANGED <<strategy, instant, roundAt, ledger, archive, report, lastAttempt, errors, files,
                 accepted, restarts>>

\* Telegram may take the message and not say so.
SendReport ==
  /\ task = "send"
  /\ \E taken \in BOOLEAN, answered \in BOOLEAN :
       /\ answered => taken
       /\ accepted' = IF taken THEN accepted \cup {[report |-> report, at |-> instant, n |-> Cardinality(accepted)]}
                               ELSE accepted
       /\ task' = IF answered THEN "sent" ELSE "uncertain"
  /\ UNCHANGED <<strategy, instant, roundAt, ledger, archive, report, lastAttempt, errors, files,
                 deliveries, restarts>>

MarkReport ==
  /\ task \in {"sent", "uncertain"} /\ task' = "sync"
  /\ deliveries' = (deliveries \ Status(report.session)) \cup
       {[start |-> report.session.start, status |-> IF task = "sent" THEN "SENT" ELSE "SEND_UNCERTAIN"]}
  /\ UNCHANGED <<strategy, instant, roundAt, ledger, archive, report, lastAttempt, errors, files,
                 accepted, restarts>>

StartAgain ==
  /\ restarts < MaxDeaths /\ restarts' = restarts + 1
  /\ task' = "sync" /\ report' = Unknown /\ lastAttempt' = -Retry /\ errors' = FALSE
  /\ roundAt' = instant
  /\ UNCHANGED <<strategy, instant, ledger, archive, files, deliveries, accepted>>

ANext ==
  \/ TimeGoesOn \/ Decide \/ Purchase \/ Replace
  \/ Sync \/ Plan \/ Build \/ File \/ ClaimReport \/ SendReport \/ MarkReport
  \/ StartAgain

ASpec == AInit /\ [][ANext]_avars

-----------------------------------------------------------------------------

\* A session's report reaches the chat at most once, over lost answers and
\* deaths between claim, sending and mark, and it is the one on disk, about a
\* session that was over (magi2/capture_audit.py:440 and :471).
ReportedOnce ==
  /\ \A x, y \in accepted : x.report.session.start = y.report.session.start => x = y
  /\ \A x \in accepted : x.report \in files /\ x.at >= x.report.session.end + Opening

\* A report never says "not captured" of a session in which the strategy
\* captured the market, nor "unknown" of one whose purchase stands in the
\* ledger, unless it says that its sources failed: no failed copy, replaced
\* ledger, pruning or restart leaves a decision out of the archive
\* (magi2/capture_audit.py:163, :166 and :319).
VerdictsAreHonest ==
  \A r \in files :
    /\ r.verdict = "NOT_CAPTURED" /\ ~r.errors =>
         \A t \in captured : t < r.session.start \/ t >= r.session.end
    /\ r.verdict = "UNKNOWN" => \A t \in buys : t < r.session.start \/ t >= r.session.end

\* The audit reports a day once and says of a capture only what the records say.
AuditIsHonest == ReportedOnce /\ VerdictsAreHonest

=============================================================================
