------------------------------ MODULE Research ------------------------------
(* The baselines MAGI1 records after a VPD snapshot and what became of them  *)
(* (magi1/research.py, quality.py, vpd_join.py, in the process of            *)
(* magi1/runner.py), for one asset.                                          *)
(*                                                                           *)
(* One consumer takes books, trades, ticks and snapshots from a queue, in    *)
(* the order they were put; what waited to be put carries an earlier time.   *)
(* Records are in a transaction that a flush or a checkpoint commits.  The   *)
(* process may be stopped, or killed with its transaction.                   *)
EXTENDS Integers, Sequences, FiniteSets, FiniteSetsExt

CONSTANTS
  FRESH, GAP,        \* how old a quote may be; the hole samples may have
  HORIZONS, MAXAGE,
  MaxSnapshots, MaxStarts, Until, Nothing

ASSUME ResearchAssumption ==
  FRESH \in Nat /\ GAP \in Nat \ {0} /\ HORIZONS \subseteq Nat /\ Nothing \notin Int

VARIABLES
  clock, snapshots,    \* what the scanner has published: [ts, high]
  disk,              \* committed: [known, entries, evaluations], checkpoint of vpd_seen
  db, life,            \* the transaction; what the process does
  last, rows,        \* the snapshot fetched last; those known, [ts, available]
  seen, candidate,
  quote, samples, ticked,    \* QuoteCoverage: latest, samples; the last tick
  pending,
  heard, starts      \* history: the books of this process
memory == <<db, last, rows, seen, candidate, quote, samples, ticked, pending, heard>>
rvars == <<clock, snapshots, disk, life, memory, starts>>

Empty == [known |-> {}, entries |-> {}, evaluations |-> {}]
RInit == /\ clock = 0 /\ snapshots = <<>> /\ disk = [records |-> Empty, seen |-> {}]
         /\ life = "down" /\ db = Empty /\ last = Nothing /\ rows = {} /\ seen = {} /\ candidate = Nothing
         /\ quote = Nothing /\ samples = {} /\ ticked = 0 /\ pending = {} /\ heard = {} /\ starts = 0

Tock == clock < Until /\ clock' = clock + 1 /\ UNCHANGED <<snapshots, disk, life, memory, starts>>

Put == {clock, clock - 1} \cap Nat

-----------------------------------------------------------------------------
(* ingest()                                                                 *)

At(t) == quote # Nothing /\ t - quote \in 0 .. FRESH

\* What an outcome can still look at; the 650 samples kept cover every horizon.
Recent(xs, ago) == LET begun == {p.ts : p \in pending} \cup {clock}
                   IN {x \in xs : x >= Min(begun) - ago}

Book(t) == /\ heard' = Recent(heard \cup {t}, FRESH + GAP)
           /\ quote' = IF quote # Nothing /\ t < quote THEN quote ELSE t
           /\ UNCHANGED <<db, last, rows, seen, candidate, samples, ticked, pending>>

\* join(): the newest snapshot there is at that time.
Joined(t) == LET xs == {r \in rows : r.ts <= t /\ r.available <= t /\ t - r.ts <= MAXAGE}
             IN IF xs = {} THEN Nothing ELSE Max({r.ts : r \in xs})

\* vpd_entry() and entry(): the first trade after the snapshot is its baseline.
Baseline(t) == /\ candidate # Nothing /\ t >= candidate.available /\ t - candidate.ts <= MAXAGE /\ At(t)
               /\ seen' = seen \cup {candidate.ts} /\ candidate' = Nothing
               /\ pending' = pending \cup {[snapshot |-> candidate.ts, ts |-> t, done |-> {}]}
               /\ db' = [db EXCEPT !.entries = @ \cup {[snapshot |-> candidate.ts, ts |-> t,
                                                        available |-> candidate.available, vpd |-> Joined(t)]}]
               /\ UNCHANGED <<last, rows, quote, samples, ticked, heard>>

-----------------------------------------------------------------------------
(* add_vpd(), after vpd_loop() has found another commit                     *)

\* Seeded fault: the snapshots of earlier runs are not looked at.
KnownHere(s) == last = s.ts
Known(s) == \E r \in rows : r.ts = s.ts

Add(s) == /\ last # s.ts /\ last' = s.ts
          /\ IF Known(s) THEN UNCHANGED <<db, rows, candidate>>
             ELSE /\ rows' = rows \cup {[ts |-> s.ts, available |-> clock]}
                  /\ db' = [db EXCEPT !.known = rows']
                  /\ candidate' = IF s.high /\ s.ts \notin seen
                                  THEN [ts |-> s.ts, available |-> clock] ELSE candidate
          /\ UNCHANGED <<seen, quote, samples, ticked, pending, heard>>

\* The last commit there is: one published meanwhile, or one fetched before.
Fetch == \/ /\ Len(snapshots) < MaxSnapshots
            /\ \E t \in Put, high \in BOOLEAN :
                 /\ \A i \in DOMAIN snapshots : snapshots[i].ts < t
                 /\ snapshots' = Append(snapshots, [ts |-> t, high |-> high])
                 /\ Add([ts |-> t, high |-> high])
         \/ snapshots # <<>> /\ Add(snapshots[Len(snapshots)]) /\ UNCHANGED snapshots

-----------------------------------------------------------------------------
(* tick()                                                                   *)

Sampled(t) == Recent(IF At(t) THEN samples \cup {t} ELSE samples, 0)

\* Seeded fault: only the distance between samples is looked at.
CoveredBetween(xs, end) == \A a \in xs : (\E b \in xs : b > a) => (\E b \in xs : b > a /\ b - a <= GAP)
\* outcome(): a sample at least so often from the entry to the horizon.
Covered(xs, end) == /\ Cardinality(xs) > 1 /\ end - Max(xs) <= GAP
                    /\ \A a \in xs : a # Max(xs) => \E b \in xs : b > a /\ b - a <= GAP

Due(p, t) == {h \in HORIZONS \ p.done : t >= p.ts + h}
Complete(p, t) == {h \in Due(p, t) :
                     Covered({p.ts} \cup {x \in Sampled(t) : x \in p.ts + 1 .. p.ts + h}, p.ts + h)}

Tick(t) == /\ t > ticked /\ ticked' = t /\ samples' = Sampled(t)
           /\ db' = [db EXCEPT !.evaluations = @ \cup
                       UNION {{[snapshot |-> p.snapshot, ts |-> p.ts, horizon |-> h, at |-> t] :
                                 h \in Complete(p, t)} : p \in pending}]
           /\ pending' = {q \in {[p EXCEPT !.done = @ \cup Due(p, t)] : p \in pending} : q.done # HORIZONS}
           /\ UNCHANGED <<last, rows, seen, candidate, quote, heard>>

-----------------------------------------------------------------------------
(* process(), and the life of the process                                   *)

Process == /\ life = "run"
           /\ \/ (\E t \in Put : Book(t) \/ Baseline(t)) /\ UNCHANGED snapshots
              \/ Tick(clock) /\ UNCHANGED snapshots
              \/ Fetch
           /\ UNCHANGED <<clock, disk, life, starts>>

\* Every few ticks; a checkpoint commits as well, its vpd_seen comes last.
Flush == /\ life = "run" /\ (db # disk.records \/ seen # disk.seen) /\ disk' = [disk EXCEPT !.records = db] /\ life' \in {"run", "seen"}
         /\ UNCHANGED <<clock, snapshots, memory, starts>>
Checkpoint == /\ life = "seen" /\ disk' = [disk EXCEPT !.seen = seen] /\ life' = "run"
              /\ UNCHANGED <<clock, snapshots, memory, starts>>

Start == /\ life = "down" /\ starts < MaxStarts /\ starts' = starts + 1 /\ life' = "run"
         /\ db' = disk.records /\ rows' = disk.records.known /\ seen' = disk.seen
         /\ UNCHANGED <<clock, snapshots, disk, last, candidate, quote, samples, ticked, pending, heard>>

Gone == /\ db' = Empty /\ last' = Nothing /\ rows' = {} /\ seen' = {} /\ candidate' = Nothing
        /\ quote' = Nothing /\ samples' = {} /\ ticked' = 0 /\ pending' = {} /\ heard' = {}
Stop == /\ life = "run" /\ life' = "down" /\ disk' = [records |-> db, seen |-> seen] /\ Gone
        /\ UNCHANGED <<clock, snapshots, starts>>
Kill == life # "down" /\ life' = "down" /\ Gone /\ UNCHANGED <<clock, snapshots, disk, starts>>

RNext == Tock \/ Process \/ Flush \/ Checkpoint \/ Start \/ Stop \/ Kill
RSpec == RInit /\ [][RNext]_rvars

-----------------------------------------------------------------------------
\* A snapshot gets one baseline for an asset, after it was available here, and
\* each of its outcomes is recorded once, however often the process is stopped
\* or killed between a record and what it remembers of it (magi1/research.py:72).
BaselineOnce ==
  LET all == db.entries \cup disk.records.entries
      ends == db.evaluations \cup disk.records.evaluations
  IN /\ \A d, e \in all : d.snapshot = e.snapshot => d = e
     /\ \A e \in all : e.available <= e.ts /\ e.vpd # Nothing /\ e.vpd >= e.snapshot
     /\ \A d, e \in ends : d.snapshot = e.snapshot /\ d.horizon = e.horizon => d = e
     /\ \A e \in ends : \E b \in all : b.snapshot = e.snapshot /\ b.ts = e.ts

\* The outcomes a step records are of a time in which this very process heard the
\* venue all along.
OutcomesWereSeen ==
  \A e \in db'.evaluations \ (db.evaluations \cup disk.records.evaluations) :
    \A t \in e.ts .. e.ts + e.horizon :
      \E q \in heard : t - q \in 0 .. FRESH + GAP

\* An outcome rests on quotes from its baseline to its horizon, although quotes
\* come late and older ones are forgotten (magi1/research.py:27 and
\* magi1/quality.py:47).
OutcomesRestOnQuotes == [][OutcomesWereSeen]_rvars

\* The record as a whole: one baseline and one of each outcome, and outcomes
\* that were seen (BaselineOnce, OutcomesRestOnQuotes: magi1/research.py:72 and :27).
ResearchIsHonest == []BaselineOnce /\ OutcomesRestOnQuotes
=============================================================================
