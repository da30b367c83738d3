--------------------------- MODULE RebuildJournal ---------------------------
(***************************************************************************)
(* The files of the VPD paper portfolio and the processes that write them, *)
(* one at a time: paper_state.json, paper_events.jsonl and the journal     *)
(* paper_rebuild_pending.json of a full replacement.                       *)
(*                                                                         *)
(* A process may die between any two file operations (the child of         *)
(* run_engine is killed after 300 s; the container may restart).  A file   *)
(* replaced through a temporary file changes in one step; save_state()     *)
(* truncates its file first and fills it afterwards.                       *)
(***************************************************************************)
EXTENDS Integers

CONSTANTS
  Asofs,        \* snapshot times, positive
  Size,         \* events of one replacement
  MaxVersion,   \* bound on the portfolios ever produced
  MaxCrashes,   \* bound on the deaths of a process
  Torn,         \* a state file cut off by a crash
  NoJournal, NoState,
  Plain         \* any ledger line without event_id

VARIABLES
  disk,      \* paper_state.json
  ledger,    \* paper_events.jsonl: how often each line stands in it
  journal,   \* paper_rebuild_pending.json
  pc,        \* what the running process does next
  mode,      \* its argument: an ordinary run or a replacement
  target,    \* the snapshot a replacement asks for
  mem,       \* the portfolio it loaded
  text,      \* the ledger as recover_rebuild() read it
  version,   \* the last portfolio produced
  crashes

files  == <<disk, ledger, journal>>
locals == <<mode, target, mem, text>>
vars   == <<files, pc, locals, version, crashes>>

EventIds    == Asofs \X (1..Size)
Lines       == EventIds \cup {Plain}
EventsOf(a) == {a} \X (1..Size)

\* A portfolio is known by its fingerprint (ver) and by the snapshots of its
\* last full replacement and of its last rebalancing of either kind.
Portfolio == [ver: 0..MaxVersion, full: Asofs \cup {0}, any: Asofs \cup {0}]

Journal == [before: Portfolio, after: Portfolio, events: SUBSET EventIds]

ASSUME JournalAssumption ==
  /\ Asofs \subseteq Nat \ {0}
  /\ Size \in Nat /\ MaxVersion \in Nat /\ MaxCrashes \in Nat
  /\ Torn \notin Portfolio /\ NoState \notin Portfolio
  /\ NoJournal \notin Journal
  /\ Plain \notin EventIds

-----------------------------------------------------------------------------
Init ==
  /\ disk = [ver |-> 0, full |-> 0, any |-> 0]
  /\ ledger = [e \in Lines |-> 0]
  /\ journal = NoJournal
  /\ pc = "idle"
  /\ mode = "update" /\ target = 0 /\ mem = NoState /\ text = ledger
  /\ version = 0
  /\ crashes = 0

\* The process ends: normally, by an exception or killed.
Quit ==
  /\ pc' = "idle"
  /\ mode' = "update" /\ target' = 0 /\ mem' = NoState
  /\ text' = [e \in Lines |-> 0]

Begin(m, a) ==
  /\ pc = "idle"
  /\ pc' = "load" /\ mode' = m /\ target' = a
  /\ UNCHANGED <<files, mem, text, version, crashes>>

-----------------------------------------------------------------------------
(* load_state(): complete a pending journal, then read the state file.     *)

\* Seeded fault: the journal is not completed first.
LoadIgnoresJournal ==
  /\ pc = "load" /\ disk # Torn
  /\ mem' = disk
  /\ pc' = "ready"
  /\ UNCHANGED <<files, mode, target, text, version, crashes>>

Load ==
  /\ pc = "load" /\ journal = NoJournal /\ disk # Torn
  /\ mem' = disk
  /\ pc' = "ready"
  /\ UNCHANGED <<files, mode, target, text, version, crashes>>

LoadFails ==
  /\ pc = "load" /\ journal = NoJournal /\ disk = Torn
  /\ Quit
  /\ UNCHANGED <<files, version, crashes>>

\* Seeded fault: a state already written is taken for a conflict.
RecoverReadsBefore ==
  /\ pc \in {"load", "recover"} /\ journal # NoJournal
  /\ disk = journal.before
  /\ text' = ledger
  /\ pc' = "state"
  /\ UNCHANGED <<files, mode, target, mem, version, crashes>>

\* recover_rebuild() up to its first write: the state must be the one before
\* or the one after, or the journal is left for a human.
RecoverReads ==
  /\ pc \in {"load", "recover"} /\ journal # NoJournal
  /\ disk \in {journal.before, journal.after}
  /\ text' = ledger
  /\ pc' = "state"
  /\ UNCHANGED <<files, mode, target, mem, version, crashes>>

\* Seeded faults: the state is not written before the ledger; a state already
\* written is taken for a finished replacement.
RecoverSkipsState ==
  /\ pc = "state"
  /\ pc' = IF \E e \in journal.events : text[e] = 0 THEN "ledger" ELSE "unlink"
  /\ UNCHANGED <<files, locals, version, crashes>>

RecoverTrustsState ==
  /\ pc = "state"
  /\ disk' = journal.after
  /\ pc' = IF disk = journal.after THEN "unlink" ELSE "ledger"
  /\ UNCHANGED <<ledger, journal, locals, version, crashes>>

RecoverWritesState ==
  /\ pc = "state"
  /\ disk' = journal.after
  /\ pc' = IF \E e \in journal.events : text[e] = 0 THEN "ledger" ELSE "unlink"
  /\ UNCHANGED <<ledger, journal, locals, version, crashes>>

\* Seeded faults: events are appended one by one; the text read is dropped.
RecoverAppends ==
  /\ pc = "ledger"
  /\ \E e \in journal.events :
       /\ ledger[e] = 0
       /\ ledger' = [ledger EXCEPT ![e] = 1]
  /\ pc' = IF \E e \in journal.events : ledger'[e] = 0 THEN "ledger" ELSE "unlink"
  /\ UNCHANGED <<disk, journal, locals, version, crashes>>

RecoverTruncates ==
  /\ pc = "ledger"
  /\ ledger' = [e \in Lines |-> IF e \in journal.events /\ text[e] = 0 THEN 1 ELSE 0]
  /\ pc' = "unlink"
  /\ UNCHANGED <<disk, journal, locals, version, crashes>>

\* The whole file is rewritten: the text read, and the missing events.
RecoverWritesLedger ==
  /\ pc = "ledger"
  /\ ledger' = [e \in Lines |->
       IF e \in journal.events /\ text[e] = 0 THEN 1 ELSE text[e]]
  /\ pc' = "unlink"
  /\ UNCHANGED <<disk, journal, locals, version, crashes>>

\* Back to load_state(), or out of commit_rebuild().
RecoverUnlinks ==
  /\ pc = "unlink"
  /\ journal' = NoJournal
  /\ IF mem = NoState
       THEN pc' = "load" /\ UNCHANGED locals
       ELSE Quit
  /\ UNCHANGED <<disk, ledger, version, crashes>>

-----------------------------------------------------------------------------
(* Ordinary runs: monitor, morning, refill.                                *)

\* A line is logged, the portfolio in memory moves on; a rebalancing of
\* snapshot a also stamps the portfolio with it.
Trade ==
  /\ pc = "ready" /\ mode = "update" /\ version < MaxVersion
  /\ version' = version + 1
  /\ \E a \in Asofs \cup {mem.any} :
       /\ a >= mem.any
       /\ mem' = [ver |-> version + 1, full |-> mem.full, any |-> a]
  /\ ledger' = [ledger EXCEPT ![Plain] = @ + 1]
  /\ pc' = "save"
  /\ UNCHANGED <<disk, journal, mode, target, text, crashes>>

SaveTruncates ==
  /\ pc = "save"
  /\ disk' = Torn
  /\ pc' = "fill"
  /\ UNCHANGED <<ledger, journal, locals, version, crashes>>

SaveFills ==
  /\ pc = "fill"
  /\ disk' = mem
  /\ pc' = "ready"
  /\ UNCHANGED <<ledger, journal, locals, version, crashes>>

\* The run is over, or refuses for want of data or of a new snapshot.
Finish ==
  /\ pc = "ready"
  /\ Quit
  /\ UNCHANGED <<files, version, crashes>>

-----------------------------------------------------------------------------
\* full_rebalance() up to the durable journal: the snapshot must be newer
\* than the last replacement, and the files what the plan was made from.
CommitJournal ==
  /\ pc = "ready" /\ mode = "rebuild" /\ version < MaxVersion
  /\ target > mem.full /\ target >= mem.any
  /\ journal = NoJournal /\ disk = mem
  /\ version' = version + 1
  /\ journal' = [before |-> mem,
                 after  |-> [ver |-> version + 1, full |-> target, any |-> target],
                 events |-> EventsOf(target)]
  /\ pc' = "recover"
  /\ UNCHANGED <<disk, ledger, locals, crashes>>

Crash ==
  /\ pc # "idle"
  /\ crashes < MaxCrashes /\ crashes' = crashes + 1
  /\ Quit
  /\ UNCHANGED <<files, version>>

-----------------------------------------------------------------------------
BeginSome ==
  \/ Begin("update", 0)
  \/ \E a \in Asofs : Begin("rebuild", a)

Step ==
  \/ Load \/ LoadFails
  \/ RecoverReads \/ RecoverWritesState \/ RecoverWritesLedger \/ RecoverUnlinks
  \/ Trade \/ SaveTruncates \/ SaveFills \/ Finish
  \/ CommitJournal

Next == BeginSome \/ Step \/ Crash

Spec == Init /\ [][Next]_vars

\* The monitor starts a run every interval, and a run that is alive goes on.
Fairness == WF_vars(BeginSome) /\ WF_vars(Step)

FairSpec == Spec /\ Fairness

-----------------------------------------------------------------------------
(* Properties                                                              *)

JournalTypeOK ==
  /\ disk \in Portfolio \cup {Torn}
  /\ ledger \in [Lines -> Nat] /\ text \in [Lines -> Nat]
  /\ journal \in Journal \cup {NoJournal}
  /\ pc \in {"idle", "load", "recover", "state", "ledger", "unlink", "ready",
             "save", "fill"}
  /\ mode \in {"update", "rebuild"}
  /\ target \in Asofs \cup {0}
  /\ mem \in Portfolio \cup {NoState}
  /\ version \in 0..MaxVersion
  /\ crashes \in 0..MaxCrashes

\* While a journal is pending the state file is whole and is the portfolio
\* before or after it, so "refusing to overwrite newer state" never strikes
\* and a recovery can always go through.
RecoveryNeverConflicts ==
  journal # NoJournal => disk \in {journal.before, journal.after}

\* Whatever died when, no event of a replacement is ever written twice, and
\* all or none of the events of one replacement stand in the ledger.
EventsExactlyOnce ==
  /\ \A e \in EventIds : ledger[e] <= 1
  /\ \A a \in Asofs : \A e, f \in EventsOf(a) : ledger[e] = ledger[f]

\* The ledger and the portfolio agree on which snapshots were replaced: a
\* recorded replacement is in the portfolio read by the next run, so a retry of
\* the same request after a crash is refused.
RecordedMeansApplied ==
  \A e \in EventIds :
    ledger[e] > 0 =>
      \/ disk = Torn
      \/ disk.full >= e[1]

\* The three together: whatever died when, the files can be brought back into
\* step and each replacement stands in both or in neither.
JournalIsSound ==
  RecoveryNeverConflicts /\ EventsExactlyOnce /\ RecordedMeansApplied

\* What a pending journal says, and what is left to do of it.
JournalSound ==
  journal # NoJournal =>
    \E a \in Asofs :
      /\ journal.events = EventsOf(a)
      /\ journal.after.full = a /\ journal.after.any = a
      /\ a > journal.before.full /\ a >= journal.before.any
      /\ disk = journal.before => \A e \in EventsOf(a) : ledger[e] = 0

\* What the running process knows at each of its steps.
ProcessSound ==
  /\ pc \in {"recover", "state", "ledger", "unlink"} => journal # NoJournal
  /\ pc \in {"state", "ledger"} => text = ledger
  /\ pc \in {"ledger", "unlink"} => disk = journal.after
  /\ pc = "unlink" => \A e \in journal.events : ledger[e] = 1
  /\ pc \in {"ready", "save", "fill"} => journal = NoJournal /\ mem # NoState
  /\ pc = "ready" => disk = mem
  /\ pc = "save" => disk # Torn /\ mem.full = disk.full /\ mem.any >= disk.any
  /\ pc = "fill" => disk = Torn /\ \A e \in EventIds : ledger[e] > 0 => mem.full >= e[1]

\* The inductive invariant behind the theorems of StoresProofs about the journal.
JInv ==
  /\ JournalTypeOK /\ RecoveryNeverConflicts /\ EventsExactlyOnce
  /\ RecordedMeansApplied /\ JournalSound /\ ProcessSound

\* Recovery rewrites the whole ledger file and still never drops a line.
LedgerOnlyGrows == [][\A e \in Lines : ledger[e] <= ledger'[e]]_vars

\* A pending journal does not stay: some later run completes it.
JournalIsCompleted == (journal # NoJournal) ~> (journal = NoJournal)

-----------------------------------------------------------------------------
\* The portfolio and the ledger as the next run will find them.
Atomic == INSTANCE AtomicRebuild WITH
  Portfolios <- Portfolio,
  Lost   <- Torn,
  book   <- IF journal # NoJournal THEN journal.after
            ELSE IF pc = "fill" THEN mem ELSE disk,
  record <- [e \in Lines |->
              IF journal # NoJournal /\ e \in journal.events THEN 1 ELSE ledger[e]]

\* A replacement spread over three files and any number of crashes is one
\* atomic step.
RebuildIsAtomic == Atomic!Spec

=============================================================================
