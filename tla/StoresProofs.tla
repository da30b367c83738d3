----------------------------- MODULE StoresProofs -----------------------------
(***************************************************************************)
(* Theorems about the two stores that MCStores runs: the journal of a full *)
(* replacement, for every set of snapshots, size of a replacement and      *)
(* number of crashes, and the archive of the collector, for every set of   *)
(* hours, batch, retention and number of faults.  And about the candles    *)
(* that MCFast runs: the history of a market, for every window and page,   *)
(* and the signals on it, for every history and number of breaks.          *)
(***************************************************************************)
EXTENDS RebuildJournal, Archive, CandleRepair, CandleWatch, SumFacts

\* An event id names the snapshot it belongs to, and no ordinary line is one.
LEMMA EventFacts ==
  /\ \A a \in Asofs : EventsOf(a) \subseteq EventIds
  /\ \A a \in Asofs : \A e \in EventsOf(a) : e[1] = a
  /\ \A e \in EventIds : e[1] \in Asofs /\ e \in EventsOf(e[1])
  /\ EventIds \subseteq Lines /\ Plain \in Lines /\ Plain \notin EventIds
BY JournalAssumption DEF EventsOf, EventIds, Lines

\* Snapshot times are positive, and a portfolio's stamps are snapshot times or 0.
LEMMA PortfolioFacts ==
  ASSUME NEW b \in Portfolio
  PROVE  b.full \in Nat /\ b.any \in Nat /\ b # Torn /\ b # NoState
<1>1. b # Torn /\ b # NoState
  BY JournalAssumption
<1>2. \A a \in Asofs \cup {0} : a \in Nat
  BY JournalAssumption
<1>3. b.full \in Asofs \cup {0} /\ b.any \in Asofs \cup {0}
  BY DEF Portfolio
<1>4. b.full \in Nat /\ b.any \in Nat
  BY <1>2, <1>3
<1> QED BY <1>1, <1>4

\* A journal names two portfolios and events of snapshots.
LEMMA JournalFacts ==
  ASSUME NEW j \in Journal
  PROVE  /\ j # NoJournal /\ j.before \in Portfolio /\ j.after \in Portfolio
         /\ j.events \subseteq EventIds
BY JournalAssumption DEF Journal

-----------------------------------------------------------------------------
(* The inductive invariant.                                                *)

\* The empty portfolio, ledger and journal satisfy the invariant.
LEMMA InitJInv == Init => JInv
<1> SUFFICES ASSUME Init PROVE JInv
  OBVIOUS
<1>1. JournalTypeOK
  BY JournalAssumption DEF Init, JournalTypeOK, Portfolio
<1>2. EventsExactlyOnce
  BY EventFacts DEF Init, EventsExactlyOnce
<1>3. RecordedMeansApplied
  BY EventFacts DEF Init, RecordedMeansApplied
<1> QED BY <1>1, <1>2, <1>3 DEF Init, JInv, RecoveryNeverConflicts, JournalSound, ProcessSound

\* Steps that write no file: the start, the end and the death of a process,
\* load_state(), and the reading half of recover_rebuild().
LEMMA ReadingSteps ==
  ASSUME JInv,
         BeginSome \/ Load \/ LoadFails \/ RecoverReads \/ Finish \/ Crash
         \/ UNCHANGED vars
  PROVE  JInv'
<1> USE DEF files, locals
<1>1. UNCHANGED <<disk, ledger, journal, version>>
  BY DEF BeginSome, Begin, Load, LoadFails, RecoverReads, Finish, Crash, vars
<1>2. JournalTypeOK'
  BY JournalAssumption
     DEF JInv, JournalTypeOK, BeginSome, Begin, Load, LoadFails, RecoverReads, Finish,
         Crash, Quit, vars
<1>3. /\ RecoveryNeverConflicts' /\ EventsExactlyOnce' /\ RecordedMeansApplied'
      /\ JournalSound'
  BY <1>1 DEF JInv, RecoveryNeverConflicts, EventsExactlyOnce, RecordedMeansApplied, JournalSound
<1>4. ProcessSound'
  <2>1. CASE UNCHANGED vars
    BY <2>1 DEF JInv, ProcessSound, vars
  <2>2. CASE BeginSome
    BY <2>2 DEF BeginSome, Begin, ProcessSound
  <2>3. CASE Load
    BY <2>3, JournalAssumption, PortfolioFacts DEF Load, JInv, JournalTypeOK, ProcessSound
  <2>4. CASE LoadFails \/ Finish \/ Crash
    BY <2>4 DEF LoadFails, Finish, Crash, Quit, ProcessSound
  <2>5. CASE RecoverReads
    BY <2>5 DEF RecoverReads, ProcessSound
  <2> QED BY <2>1, <2>2, <2>3, <2>4, <2>5
<1> QED BY <1>2, <1>3, <1>4 DEF JInv

\* recover_rebuild() installs the portfolio after the replacement.
LEMMA StateStep ==
  ASSUME JInv, RecoverWritesState
  PROVE  JInv'
<1> USE DEF locals
<1>1. /\ journal # NoJournal /\ text = ledger /\ disk' = journal.after
      /\ disk \in {journal.before, journal.after}
      /\ UNCHANGED <<journal, ledger, text, mem, mode, target, version, crashes>>
  BY DEF RecoverWritesState, JInv, ProcessSound, RecoveryNeverConflicts
<1>2. /\ journal \in Journal /\ journal.before \in Portfolio /\ journal.after \in Portfolio
      /\ journal.events \subseteq EventIds
  BY <1>1, JournalFacts DEF JInv, JournalTypeOK
<1>3. PICK a \in Asofs :
        /\ journal.events = EventsOf(a)
        /\ journal.after.full = a /\ journal.after.any = a
        /\ a > journal.before.full /\ a >= journal.before.any
        /\ disk = journal.before => \A e \in EventsOf(a) : ledger[e] = 0
  BY <1>1 DEF JInv, JournalSound
<1>4. JournalTypeOK'
  BY <1>1, <1>2 DEF JInv, JournalTypeOK, RecoverWritesState
<1>5. RecoveryNeverConflicts' /\ EventsExactlyOnce'
  BY <1>1 DEF JInv, RecoveryNeverConflicts, EventsExactlyOnce
<1>6. RecordedMeansApplied'
  <2>1. \A e \in EventIds : ledger[e] > 0 => disk.full >= e[1]
    BY <1>1, <1>2, PortfolioFacts DEF JInv, RecordedMeansApplied
  <2>2. \A e \in EventIds : e[1] \in Nat
    BY EventFacts, JournalAssumption
  <2>3. journal.before.full \in Nat /\ journal.after.full \in Nat /\ disk.full \in Nat
    BY <1>1, <1>2, PortfolioFacts
  <2>4. disk.full <= disk'.full
    BY <1>1, <1>3, <2>3
  <2> QED BY <1>1, <2>1, <2>2, <2>3, <2>4 DEF RecordedMeansApplied
<1>7. JournalSound'
  <2>1. journal.after # journal.before
    BY <1>2, <1>3, PortfolioFacts
  <2> QED BY <1>1, <1>3, <2>1 DEF JournalSound
<1>8. ProcessSound'
  <2>1. \A e \in journal.events : ledger[e] \in Nat /\ ledger[e] <= 1
    BY <1>2, EventFacts DEF JInv, JournalTypeOK, EventsExactlyOnce
  <2>2. pc' = "unlink" => \A e \in journal.events : ledger[e] = 1
    BY <1>1, <2>1 DEF RecoverWritesState
  <2> QED BY <1>1, <2>2 DEF RecoverWritesState, ProcessSound
<1> QED BY <1>4, <1>5, <1>6, <1>7, <1>8 DEF JInv

\* What the rewritten ledger holds: each event of the journal once, and every
\* other line as often as before.
LEMMA RewrittenLedger ==
  ASSUME JInv, RecoverWritesLedger
  PROVE  /\ journal # NoJournal /\ disk = journal.after
         /\ ledger' \in [Lines -> Nat]
         /\ \A e \in journal.events : ledger'[e] = 1
         /\ \A e \in Lines \ journal.events : ledger'[e] = ledger[e]
         /\ \A e \in Lines : ledger[e] <= ledger'[e]
<1>1. journal # NoJournal /\ text = ledger /\ disk = journal.after
  BY DEF RecoverWritesLedger, JInv, ProcessSound
<1>2. journal.events \subseteq EventIds
  BY <1>1, JournalFacts DEF JInv, JournalTypeOK
<1>3. \A e \in journal.events : ledger[e] \in Nat /\ ledger[e] <= 1
  BY <1>2, EventFacts DEF JInv, JournalTypeOK, EventsExactlyOnce
<1>4. ledger \in [Lines -> Nat] /\ journal.events \subseteq Lines
  BY <1>2, EventFacts DEF JInv, JournalTypeOK
<1>5. ledger' = [e \in Lines |->
        IF e \in journal.events /\ ledger[e] = 0 THEN 1 ELSE ledger[e]]
  BY <1>1 DEF RecoverWritesLedger
<1> QED BY <1>1, <1>3, <1>4, <1>5

\* recover_rebuild() adds the missing events.
LEMMA LedgerStep ==
  ASSUME JInv, RecoverWritesLedger
  PROVE  JInv'
<1> USE DEF locals
<1>1. UNCHANGED <<disk, journal, mode, target, mem, text, version, crashes>> /\ pc' = "unlink"
  BY DEF RecoverWritesLedger
<1>2. /\ journal \in Journal /\ journal.after \in Portfolio /\ journal.before \in Portfolio
      /\ journal.events \subseteq EventIds
  BY RewrittenLedger, JournalFacts DEF JInv, JournalTypeOK
<1>3. PICK a \in Asofs :
        /\ journal.events = EventsOf(a)
        /\ journal.after.full = a /\ journal.after.any = a
        /\ a > journal.before.full /\ a >= journal.before.any
  BY RewrittenLedger DEF JInv, JournalSound
<1>4. JournalTypeOK'
  BY <1>1, RewrittenLedger DEF JInv, JournalTypeOK
<1>5. RecoveryNeverConflicts'
  BY <1>1 DEF JInv, RecoveryNeverConflicts
<1>6. EventsExactlyOnce'
  <2>1. \A e \in EventIds : ledger'[e] <= 1
    BY <1>2, RewrittenLedger, EventFacts DEF JInv, EventsExactlyOnce
  <2>2. ASSUME NEW b \in Asofs, NEW e \in EventsOf(b), NEW f \in EventsOf(b)
        PROVE  ledger'[e] = ledger'[f]
    <3>1. CASE a = b
      BY <3>1, <1>3, RewrittenLedger
    <3>2. CASE a # b
      BY <3>2, <1>3, RewrittenLedger, EventFacts DEF JInv, EventsExactlyOnce
    <3> QED BY <3>1, <3>2
  <2> QED BY <2>1, <2>2 DEF EventsExactlyOnce
<1>7. RecordedMeansApplied'
  <2>1. ASSUME NEW e \in EventIds, ledger'[e] > 0
        PROVE  disk.full >= e[1]
    <3>1. CASE e \in journal.events
      BY <3>1, <1>3, RewrittenLedger, EventFacts, JournalAssumption
    <3>2. CASE e \notin journal.events
      BY <2>1, <3>2, <1>2, RewrittenLedger, EventFacts, PortfolioFacts
         DEF JInv, RecordedMeansApplied
    <3> QED BY <3>1, <3>2
  <2> QED BY <1>1, <2>1 DEF RecordedMeansApplied
<1>8. JournalSound'
  <2>1. disk # journal.before
    BY <1>2, <1>3, RewrittenLedger, PortfolioFacts
  <2> QED BY <1>1, <1>3, <2>1 DEF JournalSound
<1>9. ProcessSound'
  BY <1>1, RewrittenLedger DEF ProcessSound
<1> QED BY <1>4, <1>5, <1>6, <1>7, <1>8, <1>9 DEF JInv

\* The journal is removed once the portfolio and all events are in place.
LEMMA UnlinkStep ==
  ASSUME JInv, RecoverUnlinks
  PROVE  JInv'
<1> USE DEF locals
<1>1. UNCHANGED <<disk, ledger, version, crashes>> /\ journal' = NoJournal
      /\ pc' \in {"load", "idle"}
  BY DEF RecoverUnlinks, Quit
<1>2. JournalTypeOK'
  BY <1>1, JournalAssumption DEF JInv, JournalTypeOK, RecoverUnlinks, Quit
<1>3. /\ RecoveryNeverConflicts' /\ EventsExactlyOnce' /\ RecordedMeansApplied'
      /\ JournalSound' /\ ProcessSound'
  BY <1>1 DEF JInv, RecoveryNeverConflicts, EventsExactlyOnce, RecordedMeansApplied,
              JournalSound, ProcessSound
<1> QED BY <1>2, <1>3 DEF JInv

\* An ordinary run logs a line and then saves its portfolio in place.
LEMMA UpdateSteps ==
  ASSUME JInv, Trade \/ SaveTruncates \/ SaveFills
  PROVE  JInv'
<1> USE DEF locals
<1>1. journal = NoJournal /\ journal' = NoJournal /\ mem \in Portfolio
  BY DEF Trade, SaveTruncates, SaveFills, JInv, ProcessSound, JournalTypeOK
<1>2. /\ \A e \in EventIds : ledger'[e] = ledger[e]
      /\ ledger' \in [Lines -> Nat]
  BY EventFacts DEF Trade, SaveTruncates, SaveFills, JInv, JournalTypeOK
<1>3. Trade => version' \in 0..MaxVersion /\ mem' \in Portfolio
  <2> SUFFICES ASSUME Trade PROVE version' \in 0..MaxVersion /\ mem' \in Portfolio
    OBVIOUS
  <2>1. version + 1 \in 0..MaxVersion
    BY JournalAssumption DEF Trade, JInv, JournalTypeOK
  <2>2. mem' \in Portfolio
    BY <1>1, <2>1 DEF Trade, Portfolio
  <2> QED BY <2>1, <2>2 DEF Trade
<1>4. JournalTypeOK'
  <2>1. CASE Trade
    BY <2>1, <1>2, <1>3 DEF Trade, JInv, JournalTypeOK
  <2>2. CASE SaveTruncates \/ SaveFills
    BY <2>2, <1>1, <1>2 DEF SaveTruncates, SaveFills, JInv, JournalTypeOK
  <2> QED BY <2>1, <2>2
<1>5. RecoveryNeverConflicts' /\ JournalSound'
  BY <1>1 DEF RecoveryNeverConflicts, JournalSound
<1>6. EventsExactlyOnce'
  BY <1>2, EventFacts DEF JInv, EventsExactlyOnce
<1>7. RecordedMeansApplied' /\ ProcessSound'
  <2>1. CASE Trade
    <3>1. disk = mem /\ disk' = disk /\ mem # Torn /\ pc' = "save"
      BY <2>1, <1>1, PortfolioFacts DEF Trade, JInv, ProcessSound
    <3>2. mem'.full = mem.full /\ mem'.any >= mem.any /\ mem' # NoState
      <4>1. PICK a \in Asofs \cup {mem.any} :
              a >= mem.any /\ mem' = [ver |-> version + 1, full |-> mem.full, any |-> a]
        BY <2>1 DEF Trade
      <4> QED BY <4>1, <2>1, <1>3, PortfolioFacts
    <3>3. RecordedMeansApplied'
      BY <3>1, <1>2 DEF JInv, RecordedMeansApplied
    <3> QED BY <3>1, <3>2, <3>3, <1>1 DEF ProcessSound
  <2>2. CASE SaveTruncates
    <3>1. disk # Torn /\ mem.full = disk.full /\ disk' = Torn
      BY <2>2 DEF SaveTruncates, JInv, ProcessSound
    <3>2. \A e \in EventIds : ledger[e] > 0 => mem.full >= e[1]
      BY <3>1 DEF JInv, RecordedMeansApplied
    <3> QED
      BY <2>2, <3>1, <3>2, <1>1, <1>2, JournalAssumption
         DEF SaveTruncates, RecordedMeansApplied, ProcessSound
  <2>3. CASE SaveFills
    <3>1. \A e \in EventIds : ledger[e] > 0 => mem.full >= e[1]
      BY <2>3 DEF SaveFills, JInv, ProcessSound
    <3>2. disk' = mem /\ mem' = mem /\ mem # NoState /\ pc' = "ready"
      BY <2>3, <1>1, PortfolioFacts DEF SaveFills
    <3> QED
      BY <3>1, <3>2, <1>1, <1>2 DEF RecordedMeansApplied, ProcessSound
  <2> QED BY <2>1, <2>2, <2>3
<1> QED BY <1>4, <1>5, <1>6, <1>7 DEF JInv

\* commit_rebuild() makes the journal of a snapshot newer than any replaced one.
LEMMA CommitStep ==
  ASSUME JInv, CommitJournal
  PROVE  /\ JInv'
         /\ target \in Asofs /\ journal'.events = EventsOf(target)
         /\ \A e \in EventsOf(target) : ledger[e] = 0
<1> USE DEF locals
<1>1. /\ mem \in Portfolio /\ disk = mem /\ mem.full \in Nat
      /\ UNCHANGED <<disk, ledger, mode, target, mem, text, crashes>>
  BY PortfolioFacts DEF CommitJournal, JInv, ProcessSound, JournalTypeOK
<1>2. target \in Asofs
  BY <1>1 DEF CommitJournal, JInv, JournalTypeOK
<1>3. EventsOf(target) \subseteq EventIds
  BY <1>2, EventFacts
<1>4. journal' \in Journal /\ version' \in 0..MaxVersion
  <2>1. version + 1 \in 0..MaxVersion
    BY JournalAssumption DEF CommitJournal, JInv, JournalTypeOK
  <2>2. [ver |-> version + 1, full |-> target, any |-> target] \in Portfolio
    BY <1>2, <2>1 DEF Portfolio
  <2> QED BY <1>1, <1>3, <2>1, <2>2 DEF CommitJournal, Journal
<1>5. JournalTypeOK'
  BY <1>1, <1>4 DEF CommitJournal, JInv, JournalTypeOK
<1>6. \A e \in EventsOf(target) : ledger[e] = 0
  <2>1. ASSUME NEW e \in EventsOf(target), ledger[e] # 0
        PROVE  FALSE
    <3>1. e \in EventIds /\ e[1] = target /\ ledger[e] > 0
      BY <2>1, <1>2, <1>3, EventFacts DEF JInv, JournalTypeOK
    <3>2. disk.full >= target
      BY <3>1, <1>1, PortfolioFacts DEF JInv, RecordedMeansApplied
    <3> QED BY <1>1, <1>2, <3>2, JournalAssumption DEF CommitJournal
  <2> QED BY <2>1
<1>7. RecoveryNeverConflicts' /\ EventsExactlyOnce' /\ RecordedMeansApplied'
  BY <1>1 DEF CommitJournal, JInv, RecoveryNeverConflicts, EventsExactlyOnce, RecordedMeansApplied
<1>8. JournalSound'
  BY <1>1, <1>2, <1>6 DEF CommitJournal, JournalSound
<1>9. ProcessSound'
  BY <1>4, JournalFacts DEF CommitJournal, ProcessSound
<1>10. journal'.events = EventsOf(target)
  BY DEF CommitJournal
<1> QED BY <1>2, <1>5, <1>6, <1>7, <1>8, <1>9, <1>10 DEF JInv

\* Every step keeps the invariant.
LEMMA NextJInv == JInv /\ [Next]_vars => JInv'
<1> SUFFICES ASSUME JInv, [Next]_vars PROVE JInv'
  OBVIOUS
<1>1. CASE BeginSome \/ Load \/ LoadFails \/ RecoverReads \/ Finish \/ Crash \/ UNCHANGED vars
  BY <1>1, ReadingSteps
<1>2. CASE RecoverWritesState
  BY <1>2, StateStep
<1>3. CASE RecoverWritesLedger
  BY <1>3, LedgerStep
<1>4. CASE RecoverUnlinks
  BY <1>4, UnlinkStep
<1>5. CASE Trade \/ SaveTruncates \/ SaveFills
  BY <1>5, UpdateSteps
<1>6. CASE CommitJournal
  BY <1>6, CommitStep
<1> QED BY <1>1, <1>2, <1>3, <1>4, <1>5, <1>6 DEF Next, Step

\* The journal, the two files and the process agree at every file operation.
THEOREM JInvInvariant == Spec => []JInv
<1>1. Init => JInv
  BY InitJInv
<1>2. JInv /\ [Next]_vars => JInv'
  BY NextJInv
<1> QED BY <1>1, <1>2, PTL DEF Spec

\* The refusal "paper state changed after rebuild plan" of recover_rebuild()
\* never meets a journal that a crash left behind.
THEOREM NeverConflicts == Spec => []RecoveryNeverConflicts
<1>1. JInv => RecoveryNeverConflicts
  BY DEF JInv
<1> QED BY <1>1, JInvInvariant, PTL

\* However often a replacement is interrupted and completed, each of its events
\* is in the ledger at most once, and all of them or none.
THEOREM ExactlyOnce == Spec => []EventsExactlyOnce
<1>1. JInv => EventsExactlyOnce
  BY DEF JInv
<1> QED BY <1>1, JInvInvariant, PTL

\* A replacement the ledger records is in the portfolio file, so it is not
\* carried out again.
THEOREM Applied == Spec => []RecordedMeansApplied
<1>1. JInv => RecordedMeansApplied
  BY DEF JInv
<1> QED BY <1>1, JInvInvariant, PTL

\* Whatever died when, files, journal and ledger can be brought into step.
THEOREM Sound == Spec => []JournalIsSound
<1>1. RecoveryNeverConflicts /\ EventsExactlyOnce /\ RecordedMeansApplied => JournalIsSound
  BY DEF JournalIsSound
<1> QED BY <1>1, NeverConflicts, ExactlyOnce, Applied, PTL

\* Rewriting the ledger from the text read before never drops a line.
THEOREM NothingDropped == Spec => LedgerOnlyGrows
<1>1. JInv /\ [Next]_vars => [\A e \in Lines : ledger[e] <= ledger'[e]]_vars
  <2> SUFFICES ASSUME JInv, Next PROVE \A e \in Lines : ledger[e] <= ledger'[e]
    OBVIOUS
  <2> USE DEF files, locals
  <2>1. ledger \in [Lines -> Nat]
    BY DEF JInv, JournalTypeOK
  <2>2. CASE RecoverWritesLedger
    BY <2>2, RewrittenLedger
  <2>3. CASE Trade
    BY <2>1, <2>3 DEF Trade
  <2>4. CASE UNCHANGED ledger
    BY <2>1, <2>4
  <2> QED
    BY <2>2, <2>3, <2>4
       DEF Next, Step, BeginSome, Begin, Load, LoadFails, RecoverReads, RecoverWritesState,
           RecoverUnlinks, SaveTruncates, SaveFills, Finish, CommitJournal, Crash
<1> QED BY <1>1, JInvInvariant, PTL DEF Spec, LedgerOnlyGrows

-----------------------------------------------------------------------------
(* The three files implement the atomic replacement.                       *)

\* A process that reads, or starts, or ends, or recovers changes nothing that
\* the next run sees, except that a death during save_state() loses the file.
LEMMA AtomicSteps ==
  ASSUME JInv, JInv', Next
  PROVE  Atomic!Next \/ UNCHANGED Atomic!vars
<1> USE DEF files, locals, Atomic!vars, Atomic!Next
<1>1. CASE Begin("update", 0) \/ (\E a \in Asofs : Begin("rebuild", a))
           \/ Load \/ LoadFails \/ RecoverReads \/ Finish
  <2>1. UNCHANGED files /\ pc # "fill" /\ pc' # "fill"
    BY <1>1 DEF Begin, Load, LoadFails, RecoverReads, Finish, Quit
  <2> QED BY <2>1
<1>2. CASE RecoverWritesState
  <2>1. UNCHANGED <<ledger, journal>> /\ journal # NoJournal
    BY <1>2 DEF RecoverWritesState, JInv, ProcessSound
  <2> QED BY <2>1
<1>3. CASE RecoverWritesLedger
  <2>1. UNCHANGED journal /\ journal # NoJournal
    BY <1>3, RewrittenLedger DEF RecoverWritesLedger
  <2>2. \A e \in Lines \ journal.events : ledger'[e] = ledger[e]
    BY <1>3, RewrittenLedger
  <2> QED BY <2>1, <2>2
<1>4. CASE RecoverUnlinks
  <2>1. /\ journal # NoJournal /\ journal' = NoJournal
        /\ disk = journal.after /\ UNCHANGED <<disk, ledger>> /\ pc' # "fill"
        /\ \A e \in journal.events : ledger[e] = 1
    BY <1>4 DEF RecoverUnlinks, Quit, JInv, ProcessSound
  <2> QED BY <2>1
<1>5. CASE Trade
  <2>1. /\ journal = NoJournal /\ journal' = NoJournal /\ disk' = disk
        /\ pc # "fill" /\ pc' # "fill"
        /\ ledger' = [ledger EXCEPT ![Plain] = @ + 1] /\ ledger \in [Lines -> Nat]
    BY <1>5 DEF Trade, JInv, ProcessSound, JournalTypeOK
  <2>2. Atomic!Append
    BY <2>1, EventFacts DEF Atomic!Append
  <2> QED BY <2>2
<1>6. CASE SaveTruncates
  <2>1. /\ journal = NoJournal /\ journal' = NoJournal /\ UNCHANGED ledger
        /\ pc = "save" /\ pc' = "fill" /\ mem' = mem /\ mem \in Portfolio
        /\ disk # Torn /\ mem.full = disk.full /\ mem.any >= disk.any
    BY <1>6 DEF SaveTruncates, JInv, ProcessSound, JournalTypeOK
  <2>2. Atomic!Save
    BY <2>1 DEF Atomic!Save
  <2> QED BY <2>2
<1>7. CASE SaveFills
  <2>1. /\ journal = NoJournal /\ journal' = NoJournal /\ UNCHANGED ledger
        /\ pc = "fill" /\ pc' = "ready" /\ disk' = mem
    BY <1>7 DEF SaveFills, JInv, ProcessSound
  <2> QED BY <2>1
<1>8. CASE CommitJournal
  <2>1. /\ journal = NoJournal /\ journal' \in Journal /\ journal' # NoJournal
        /\ UNCHANGED <<disk, ledger>> /\ disk = mem /\ mem \in Portfolio
        /\ disk # Torn /\ pc # "fill"
        /\ target > mem.full /\ target >= mem.any
        /\ journal'.after.full = target /\ journal'.after.any = target
    BY <1>8, PortfolioFacts, JournalFacts
       DEF CommitJournal, JInv, ProcessSound, JournalTypeOK
  <2>2. /\ target \in Asofs /\ journal'.events = EventsOf(target)
        /\ \A e \in EventsOf(target) : ledger[e] = 0
        /\ journal'.after \in Portfolio
    BY <1>8, <2>1, CommitStep, JournalFacts
  <2>3. PICK a \in Asofs : a = target
    BY <2>2
  <2>4. Atomic!Rebuild(a)
    <3>1. \A e \in EventsOf(a) : ledger[e] = 0
      BY <2>2, <2>3
    <3>2. [e \in Lines |-> IF e \in EventsOf(a) THEN 1 ELSE ledger[e]]
          = [e \in Lines |-> IF e \in journal'.events THEN 1 ELSE ledger'[e]]
      BY <2>1, <2>2, <2>3
    <3> QED BY <2>1, <2>2, <2>3, <3>1, <3>2, EventFacts DEF Atomic!Rebuild
  <2> QED BY <2>4
<1>9. CASE Crash
  <2>1. UNCHANGED files /\ pc' # "fill" /\ (pc = "fill" => disk = Torn)
    BY <1>9 DEF Crash, Quit, JInv, ProcessSound
  <2>2. CASE pc = "fill" /\ journal = NoJournal
    <3>1. Atomic!Lose
      BY <2>1, <2>2 DEF Atomic!Lose
    <3> QED BY <3>1
  <2>3. CASE pc # "fill" \/ journal # NoJournal
    BY <2>1, <2>3
  <2> QED BY <2>2, <2>3
<1> QED
  BY <1>1, <1>2, <1>3, <1>4, <1>5, <1>6, <1>7, <1>8, <1>9 DEF Next, BeginSome, Step

\* A replacement of the portfolio is atomic and happens at most once per
\* snapshot, whatever dies in between.
THEOREM Implementation == Spec => RebuildIsAtomic
<1>1. Init => Atomic!Init
  BY JournalAssumption DEF Init, Atomic!Init, Portfolio
<1>2. JInv /\ JInv' /\ [Next]_vars => [Atomic!Next]_(Atomic!vars)
  <2>1. ASSUME JInv, JInv', Next PROVE Atomic!Next \/ UNCHANGED Atomic!vars
    BY <2>1, AtomicSteps
  <2>2. UNCHANGED vars => UNCHANGED Atomic!vars
    BY DEF vars, files, locals, Atomic!vars
  <2> QED BY <2>1, <2>2
<1> QED BY <1>1, <1>2, JInvInvariant, PTL DEF Spec, RebuildIsAtomic, Atomic!Spec

-----------------------------------------------------------------------------
(* The archive.  What is deleted anywhere is kept elsewhere: a line of a     *)
(* raw hour, a record of the analysis, the snapshot an object names.  Two    *)
(* facts carry it.  The hours found in some snapshot never become fewer,     *)
(* since a snapshot is deleted only behind one that has its rows and is      *)
(* there; and a state that names a snapshot deleted by a cycle that failed   *)
(* is one of an earlier day, so that the next cycle sends a new one first.   *)

SnapshotIds == {s.id : s \in snapshots}
Analysed == UNION {s.rows : s \in snapshots}

\* A job has these fields and no others.
JobShape(j) ==
  j = [pc |-> j.pc, now |-> j.now, coverage |-> j.coverage, candidates |-> j.candidates,
       pending |-> j.pending, rows |-> j.rows, proof |-> j.proof, left |-> j.left,
       old |-> j.old, key |-> j.key]

\* The shapes of what is kept.
Shapes ==
  /\ now \in Nat /\ raw = [h \in Busy |-> raw[h]]
  /\ state = [files |-> state.files, day |-> state.day, proof |-> state.proof,
              coverage |-> state.coverage]
  /\ history = [written |-> history.written, recorded |-> history.recorded,
                expired |-> history.expired, issued |-> history.issued]
  /\ history.issued \in Nat /\ history.written \subseteq Busy \X Nat
  /\ \A o \in objects : o = [hour |-> o.hour, key |-> o.key, content |-> o.content,
                             verified |-> o.verified, proof |-> o.proof]
  /\ JobShape(job)
  /\ job.now \in Nat /\ job.now <= now /\ job.pending \subseteq Busy

\* Snapshots are numbered as they are issued.
SnapshotsInv ==
  /\ \A s \in snapshots : s.id \in Nat /\ s.id <= history.issued
  /\ \A s, t \in snapshots : s.id = t.id => s = t

\* What was analysed was recorded, and what the state claims is in a snapshot,
\* as is what may expire.
CoverageInv ==
  /\ \A h \in Busy : Covers(coverage, h) => h \in history.recorded
  /\ \A h \in Busy : Covers(state.coverage, h) => h \in Analysed
  /\ \A o \in objects : o.verified => o.hour \in Analysed

\* A new snapshot will be sent before anything else.
Overdue == state.proof = None \/ state.day < now \div DAY

StateInv ==
  /\ state.proof # None => state.day \in Int /\ state.day <= now \div DAY
  /\ state.proof \in SnapshotIds \/ Overdue

\* The snapshot a cycle has sent.
Sent == \E s \in snapshots : s.id = job.proof /\ s.rows = job.rows

SendInv ==
  Overdue /\ job.old = None /\ \A h \in Busy : Covers(job.coverage, h) => h \in history.recorded

CompactInv ==
  /\ job.left \subseteq snapshots
  /\ \A s \in job.left : s.id # job.proof /\ s.id # job.old
  /\ job.old # job.proof
  /\ \A s \in snapshots : s.id = job.old => s.rows \subseteq job.rows

AdoptInv ==
  Overdue /\ Sent /\ job.proof \in Nat /\ \A h \in Busy : Covers(job.coverage, h) => h \in Analysed

ExpireInv == \A o \in job.left : o.verified => o.hour \in Analysed

\* Where the cycle is, and what it knows there.
JobInv ==
  \/ job.pc \in {"idle", "clear"}
  \/ job.pc = "send" /\ SendInv
  \/ job.pc = "compact" /\ AdoptInv /\ CompactInv
  \/ job.pc = "adopt" /\ AdoptInv
  \/ job.pc = "prune" /\ Sent /\ state.proof \in SnapshotIds
  \/ job.pc \in {"digest", "put"} /\ state.proof \in SnapshotIds
       /\ (job.pc = "put" => job.pending # {})
  \/ job.pc = "expire" /\ ExpireInv

KInv ==
  /\ Shapes /\ SnapshotsInv /\ CoverageInv /\ StateInv /\ JobInv
  /\ NothingLost /\ AnalysisKept /\ ProofsResolve /\ ExpiredWasAnalysed

\* A later hour is on the same day or on a later one.
LEMMA DayLater ==
  ASSUME NEW t \in Nat, NEW u \in Nat, t <= u
  PROVE  t \div DAY \in Int /\ u \div DAY \in Int /\ t \div DAY <= u \div DAY
<1> DEFINE n == DAY
           p == t \div n
           q == u \div n
<1>1. n \in Nat /\ n > 0
  BY ArchiveAssumption
<1>2. /\ p \in Nat /\ n * p <= t /\ t < n * p + n
      /\ q \in Nat /\ n * q <= u /\ u < n * q + n
  BY <1>1, ShareAtMost
<1> HIDE DEF n, p, q
<1>3. p <= q
  <2> SUFFICES ASSUME q + 1 <= p PROVE FALSE
    BY <1>2
  <2>1. n * (q + 1) <= n * p
    BY <1>1, <1>2
  <2>2. n * (q + 1) = n * q + n
    BY <1>1, <1>2
  <2> QED BY <1>1, <1>2, <2>1, <2>2
<1> QED BY <1>2, <1>3 DEF p, q, n

\* The loop comes to a file of its list.
LEMMA LeastIsOne ==
  ASSUME NEW S \in SUBSET Busy, S # {}
  PROVE  Least(S) \in S
<1>1. S \in SUBSET Nat
  BY ArchiveAssumption
<1>2. \E m \in S : \A k \in S : m <= k
  <2> SUFFICES ASSUME ~\E m \in S : \A k \in S : m <= k PROVE FALSE
    OBVIOUS
  <2> DEFINE P == {n \in Nat : \A k \in S : n < k}
  <2>1. \A k \in S : k \in Nat /\ ~(\A j \in S : k <= j)
    BY <1>1
  <2>2. 0 \in P
    BY <2>1
  <2>3. ASSUME NEW n \in P PROVE n + 1 \in P
    BY <2>1
  <2> HIDE DEF P
  <2>4. P \in SUBSET Nat
    BY DEF P
  <2>5. P = Nat
    BY <2>2, <2>3, <2>4, NatSetInduction
  <2>6. PICK k \in S : TRUE
    OBVIOUS
  <2>7. k \in P /\ k \in Nat
    BY <1>1, <2>5, <2>6
  <2> QED BY <2>6, <2>7 DEF P
<1> QED BY <1>2 DEF Least

StoreInv ==
  /\ SnapshotsInv /\ CoverageInv
  /\ NothingLost /\ AnalysisKept /\ ProofsResolve /\ ExpiredWasAnalysed

\* What is stored and recorded is as it was.
StoresStay == UNCHANGED <<raw, db, coverage, state, remote, history>>

LEMMA StayKeeps == StoreInv /\ StoresStay => StoreInv'
BY DEF StoreInv, StoresStay, remote, SnapshotsInv, CoverageInv, NothingLost, AnalysisKept,
       ProofsResolve, ExpiredWasAnalysed, HasProof, Covers, Analysed

LEMMA KInvParts == KInv <=> Shapes /\ StoreInv /\ StateInv /\ JobInv
BY DEF KInv, StoreInv

\* The state's claim to its snapshot, while neither changes.
LEMMA StateStays == StateInv /\ UNCHANGED <<now, state, snapshots>> => StateInv'
BY DEF StateInv, Overdue, SnapshotIds

\* A cycle that ends claims nothing.
LEMMA IdleKeeps == Shapes /\ job' = IdleJob /\ UNCHANGED <<now, raw, state, objects>>
                     /\ (UNCHANGED history \/ StoreSnapshot) => Shapes' /\ JobInv'
<1> SUFFICES ASSUME Shapes, job' = IdleJob, UNCHANGED <<now, raw, state, objects>>,
                    UNCHANGED history \/ StoreSnapshot
             PROVE  Shapes' /\ JobInv'
  OBVIOUS
<1>1. job'.pc = "idle" /\ job'.now = 0 /\ job'.pending = {}
  BY DEF IdleJob
<1>2. history' = [written |-> history'.written, recorded |-> history'.recorded,
                  expired |-> history'.expired, issued |-> history'.issued]
      /\ history'.issued \in Nat /\ history'.written = history.written
  BY DEF Shapes, JobShape, StoreSnapshot
<1>3. JobShape(job')
  BY DEF IdleJob, JobShape
<1>4. Shapes'
  BY <1>1, <1>2, <1>3 DEF Shapes, JobShape
<1>5. JobInv'
  BY <1>1 DEF JobInv
<1> QED BY <1>4, <1>5

LEMMA InitKInv == AInit => KInv
<1> SUFFICES ASSUME AInit PROVE KInv
  OBVIOUS
<1>1. Shapes
  BY DEF AInit, IdleJob, Shapes, JobShape
<1>2. SnapshotsInv /\ StateInv /\ JobInv
  BY DEF AInit, IdleJob, SnapshotsInv, StateInv, Overdue, JobInv
<1>3. \A h \in Busy : ~Covers(coverage, h) /\ ~Covers(state.coverage, h)
  BY ArchiveAssumption DEF AInit, Covers
<1>4. CoverageInv
  BY <1>3 DEF CoverageInv, AInit
<1>5. NothingLost /\ AnalysisKept /\ ProofsResolve /\ ExpiredWasAnalysed
  BY DEF AInit, NothingLost, AnalysisKept, ProofsResolve, ExpiredWasAnalysed
<1> QED BY <1>1, <1>2, <1>4, <1>5 DEF KInv

LEMMA TickKeeps == KInv /\ Tick => KInv'
<1> SUFFICES ASSUME KInv, Tick PROVE KInv'
  OBVIOUS
<1>1. /\ now \in Nat /\ now' = now + 1
      /\ UNCHANGED <<raw, db, started, coverage, state, remote, job, faults, history>>
  BY DEF KInv, Shapes, JobShape, Tick
<1>2. StoreInv'
  BY <1>1, KInvParts, StayKeeps DEF StoresStay
<1>3. Shapes'
  BY <1>1 DEF KInv, Shapes, JobShape, remote
<1>4. now' \in Nat /\ now \div DAY \in Int /\ now' \div DAY \in Int /\ now \div DAY <= now' \div DAY
  BY <1>1, DayLater
<1>5. StateInv' /\ (Overdue => Overdue')
  BY <1>1, <1>4 DEF KInv, StateInv, Overdue, SnapshotIds, remote
<1>6. /\ SendInv => SendInv'
      /\ AdoptInv => AdoptInv'
      /\ CompactInv => CompactInv'
      /\ Sent => Sent'
      /\ ExpireInv => ExpireInv'
      /\ UNCHANGED SnapshotIds
  BY <1>1, <1>5 DEF SendInv, AdoptInv, CompactInv, Sent, ExpireInv, Analysed, SnapshotIds, remote
<1>7. JobInv'
  BY <1>1, <1>6 DEF KInv, JobInv
<1> QED BY <1>2, <1>3, <1>5, <1>7 DEF KInv, StoreInv

LEMMA WriteRawKeeps == KInv /\ WriteRaw => KInv'
<1> SUFFICES ASSUME KInv, WriteRaw PROVE KInv'
  OBVIOUS
<1>1. PICK h \in Busy, line \in {1, 2} :
        /\ raw' = [raw EXCEPT ![h] = @ \cup {line}]
        /\ history' = [history EXCEPT !.written = @ \cup {<<h, line>>}]
        /\ UNCHANGED <<now, db, started, coverage, state, remote, job>>
  BY DEF WriteRaw
<1>2. /\ \A k \in Busy : raw'[k] = IF k = h THEN raw[k] \cup {line} ELSE raw[k]
      /\ raw' = [k \in Busy |-> raw'[k]]
      /\ history' = [written |-> history.written \cup {<<h, line>>},
                     recorded |-> history.recorded, expired |-> history.expired,
                     issued |-> history.issued]
      /\ history.issued \in Nat /\ history.written \subseteq Busy \X Nat
  BY <1>1 DEF KInv, Shapes, JobShape
<1>3. /\ history'.written = history.written \cup {<<h, line>>}
      /\ history'.recorded = history.recorded /\ history'.expired = history.expired
      /\ history'.issued = history.issued /\ <<h, line>> \in Busy \X Nat
  BY <1>2
<1>4. Shapes'
  BY <1>1, <1>2, <1>3 DEF KInv, Shapes, JobShape, remote
<1>5. SnapshotsInv' /\ CoverageInv' /\ AnalysisKept' /\ ProofsResolve' /\ ExpiredWasAnalysed'
  BY <1>1, <1>3 DEF KInv, SnapshotsInv, CoverageInv, AnalysisKept, ProofsResolve,
     ExpiredWasAnalysed, HasProof, Covers, Analysed, remote
<1>6. NothingLost'
  <2> SUFFICES ASSUME NEW l \in history'.written
               PROVE  \/ l[2] \in raw'[l[1]]
                      \/ \E o \in objects' : o.hour = l[1] /\ l[2] \in o.content
                      \/ l \in history'.expired
    BY DEF NothingLost
  <2>1. CASE l = <<h, line>>
    BY <1>2, <2>1
  <2>2. CASE l \in history.written
    <3>1. l[1] \in Busy
      BY <1>2, <2>2
    <3>2. l[2] \in raw[l[1]] => l[2] \in raw'[l[1]]
      BY <1>2, <3>1
    <3> QED BY <1>1, <1>3, <2>2, <3>2 DEF KInv, NothingLost, remote
  <2> QED BY <1>3, <2>1, <2>2
<1>7. StateInv'
  BY <1>1, StateStays DEF KInv, remote
<1>8. JobInv'
  BY <1>1, <1>3 DEF KInv, JobInv, SendInv, AdoptInv, CompactInv, Sent, ExpireInv, Analysed, SnapshotIds,
     Overdue, Covers, remote
<1> QED BY <1>4, <1>5, <1>6, <1>7, <1>8 DEF KInv

LEMMA CheckpointKeeps == KInv /\ Checkpoint => KInv'
<1> SUFFICES ASSUME KInv, Checkpoint PROVE KInv'
  OBVIOUS
<1> DEFINE rows == {h \in Busy : started < h /\ Closed(h)} \ history.recorded
<1>1. /\ coverage' = [start |-> started, through |-> now]
      /\ db' = db \cup rows /\ history' = [history EXCEPT !.recorded = @ \cup rows]
      /\ UNCHANGED <<now, raw, touched, started, state, remote, job>>
  BY DEF Checkpoint
<1>2. /\ history' = [written |-> history.written, recorded |-> history.recorded \cup rows,
                     expired |-> history.expired, issued |-> history.issued]
  BY <1>1 DEF KInv, Shapes, JobShape
<1>3. /\ history'.recorded = history.recorded \cup rows /\ history'.written = history.written
      /\ history'.expired = history.expired /\ history'.issued = history.issued
  BY <1>2
<1>4. \A h \in Busy : Covers(coverage, h)' => h \in history'.recorded
  BY <1>1, <1>3 DEF Covers, Closed
<1> HIDE DEF rows
<1>5. Shapes'
  BY <1>1, <1>2, <1>3 DEF KInv, Shapes, JobShape, remote
<1>6. SnapshotsInv' /\ CoverageInv'
  BY <1>1, <1>3, <1>4 DEF KInv, SnapshotsInv, CoverageInv, Covers, Analysed, remote
<1>7. NothingLost' /\ AnalysisKept' /\ ProofsResolve' /\ ExpiredWasAnalysed'
  BY <1>1, <1>3 DEF KInv, NothingLost, AnalysisKept, ProofsResolve, ExpiredWasAnalysed,
     HasProof, remote
<1>8. StateInv'
  BY <1>1, StateStays DEF KInv, remote
<1>9. JobInv'
  BY <1>1, <1>3 DEF KInv, JobInv, SendInv, AdoptInv, CompactInv, Sent, ExpireInv, Analysed, SnapshotIds,
     Overdue, Covers, remote
<1> QED BY <1>5, <1>6, <1>7, <1>8, <1>9 DEF KInv

LEMMA BeginKeeps == KInv /\ BeginCycle => KInv'
<1> SUFFICES ASSUME KInv, BeginCycle PROVE KInv'
  OBVIOUS
<1> DEFINE Found(r) == {h \in Busy : raw[h] # {} /\ Closed(h)} \ r
<1>1. PICK recent \in SUBSET touched :
        /\ job' = [IdleJob EXCEPT
             !.pc = IF NewDay THEN "send" ELSE "digest",
             !.now = now, !.coverage = IF NewDay THEN coverage ELSE @,
             !.candidates = Found(recent),
             !.pending = FirstOf(Batch, {h \in Found(recent) : ~Saved(h)})]
        /\ UNCHANGED <<now, local, state, remote, faults, history>>
  BY DEF BeginCycle
<1>2. /\ job'.pc = IF NewDay THEN "send" ELSE "digest"
      /\ job'.now = now /\ (NewDay => job'.coverage = coverage)
      /\ job'.pending \subseteq Busy /\ job'.old = None
      /\ JobShape(job')
  BY <1>1 DEF IdleJob, FirstOf, JobShape
<1>3. StoreInv'
  BY <1>1, StayKeeps DEF KInv, StoreInv, StoresStay, local
<1>4. Shapes'
  BY <1>1, <1>2 DEF KInv, Shapes, JobShape, local, remote
<1>5. StateInv'
  BY <1>1, StateStays DEF KInv, remote
<1>6. JobInv'
  <2>1. now \div DAY \in Int
    BY DayLater DEF KInv, Shapes, JobShape
  <2>2. CASE NewDay
    <3>1. Overdue
      BY <2>1, <2>2 DEF KInv, NewDay, StateInv, Overdue
    <3>2. SendInv'
      BY <1>1, <1>2, <2>2, <3>1 DEF KInv, CoverageInv, SendInv, Overdue, Covers, local
    <3> QED BY <1>2, <2>2, <3>2 DEF JobInv
  <2>3. CASE ~NewDay
    <3>1. state.proof \in SnapshotIds
      BY <2>1, <2>3 DEF KInv, NewDay, StateInv, Overdue
    <3> QED BY <1>1, <1>2, <2>3, <3>1 DEF JobInv, SnapshotIds, remote
  <2> QED BY <2>2, <2>3
<1> QED BY <1>3, <1>4, <1>5, <1>6 DEF KInv, StoreInv

\* One more snapshot takes nothing away.
LEMMA StoreKeeps ==
  ASSUME KInv, StoreSnapshot, UNCHANGED <<now, raw, db, coverage, state, objects>>
  PROVE  /\ StoreInv' /\ StateInv' /\ (Overdue => Overdue')
         /\ snapshots' = snapshots \cup {NewSnapshot}
         /\ NewSnapshot.rows = db /\ NewSnapshot.id \in Nat
         /\ \A s \in snapshots : s.id # NewSnapshot.id
         /\ Analysed' = Analysed \cup db /\ history'.recorded = history.recorded
<1> DEFINE new == NewSnapshot
<1>1. /\ new.rows = db /\ new.id = history.issued + 1 /\ snapshots' = snapshots \cup {new}
  BY DEF StoreSnapshot, NewSnapshot
<1>2. /\ history.issued \in Nat /\ history'.issued = history.issued + 1
      /\ history'.recorded = history.recorded /\ history'.written = history.written
      /\ history'.expired = history.expired
  BY DEF KInv, Shapes, JobShape, StoreSnapshot
<1> HIDE DEF new
<1>3. SnapshotsInv'
  BY <1>1, <1>2 DEF KInv, SnapshotsInv
<1>4. \A s \in snapshots : s.id # new.id
  BY <1>1, <1>2 DEF KInv, SnapshotsInv
<1>5. Analysed' = Analysed \cup db
  BY <1>1 DEF Analysed
<1>6. CoverageInv'
  BY <1>2, <1>5 DEF KInv, CoverageInv, Covers
<1>7. NothingLost' /\ AnalysisKept' /\ ProofsResolve' /\ ExpiredWasAnalysed'
  BY <1>1, <1>2 DEF KInv, NothingLost, AnalysisKept, ProofsResolve, ExpiredWasAnalysed, HasProof
<1>8. StateInv' /\ (Overdue => Overdue')
  BY <1>1 DEF KInv, StateInv, Overdue, SnapshotIds
<1> QED BY <1>1, <1>2, <1>3, <1>4, <1>5, <1>6, <1>7, <1>8 DEF StoreInv, new

LEMMA SendKeeps == KInv /\ SendSnapshot => KInv'
<1> SUFFICES ASSUME KInv, SendSnapshot PROVE KInv'
  OBVIOUS
<1>1. /\ job.pc = "send" /\ StoreSnapshot
      /\ UNCHANGED <<now, raw, db, coverage, state, objects>>
      /\ job' = [job EXCEPT !.pc = IF CompactRemote THEN "compact" ELSE "adopt", !.rows = db,
                            !.proof = NewSnapshot.id, !.left = snapshots]
  BY DEF SendSnapshot, local
<1>2. /\ job'.pc \in {"compact", "adopt"} /\ job'.rows = db /\ job'.proof = NewSnapshot.id
      /\ job'.left = snapshots /\ job'.coverage = job.coverage /\ job'.pending = job.pending
      /\ job'.now = job.now /\ job'.old = job.old
      /\ JobShape(job')
  BY <1>1 DEF KInv, Shapes, JobShape
<1>3. history' = [written |-> history'.written, recorded |-> history'.recorded,
                  expired |-> history'.expired, issued |-> history'.issued]
      /\ history'.issued \in Nat /\ history'.written = history.written
  BY <1>1 DEF KInv, Shapes, JobShape, StoreSnapshot
<1>4. Shapes'
  BY <1>1, <1>2, <1>3 DEF KInv, Shapes, JobShape
<1>5. /\ StoreInv' /\ StateInv' /\ (Overdue => Overdue')
      /\ snapshots' = snapshots \cup {NewSnapshot}
      /\ NewSnapshot.rows = db /\ NewSnapshot.id \in Nat
      /\ \A s \in snapshots : s.id # NewSnapshot.id
      /\ Analysed' = Analysed \cup db
  BY <1>1, StoreKeeps
<1>6. SendInv /\ job.old = None
  BY <1>1 DEF KInv, JobInv, SendInv
<1>7. \A h \in Busy : Covers(job.coverage, h) => h \in Analysed'
  BY <1>5, <1>6 DEF KInv, SendInv, AnalysisKept, Analysed
<1>8. Sent'
  BY <1>2, <1>5 DEF Sent
<1>9. AdoptInv'
  BY <1>2, <1>5, <1>6, <1>7, <1>8 DEF SendInv, AdoptInv, Covers
<1>10. CompactInv'
  <2>1. None \notin Nat /\ \A s \in snapshots' : s.id \in Nat
    BY <1>5, ArchiveAssumption DEF StoreInv, SnapshotsInv
  <2> QED BY <1>2, <1>5, <1>6, <2>1 DEF CompactInv
<1>11. JobInv'
  BY <1>2, <1>9, <1>10 DEF JobInv
<1> QED BY <1>4, <1>5, <1>11 DEF KInv, StoreInv

\* A step of the cycle that changes neither the stores nor what the state says
\* has to account for the job alone.
LEMMA JobStep ==
  ASSUME KInv, StoresStay, UNCHANGED now, JobInv',
         JobShape(job'),
         job'.now = job.now, job'.pending \subseteq job.pending
  PROVE  KInv'
<1>1. StoreInv' /\ StateInv'
  BY StayKeeps, StateStays DEF KInv, StoreInv, StoresStay, remote
<1>2. Shapes'
  BY DEF KInv, Shapes, JobShape, StoresStay, remote
<1> QED BY <1>1, <1>2 DEF KInv, StoreInv

\* Where it is, nothing else being different.
LEMMA SameClaims ==
  ASSUME StoresStay, UNCHANGED now, job'.proof = job.proof, job'.rows = job.rows,
         job'.coverage = job.coverage
  PROVE  /\ SnapshotIds' = SnapshotIds /\ snapshots' = snapshots
         /\ (AdoptInv => AdoptInv') /\ (Sent => Sent') /\ state' = state
BY DEF StoresStay, remote, SnapshotIds, AdoptInv, Sent, Overdue, Analysed, Covers

LEMMA CompareKeeps == KInv /\ Compare => KInv'
<1> SUFFICES ASSUME KInv, Compare PROVE KInv'
  OBVIOUS
<1>1. PICK s \in job.left :
        job' = [job EXCEPT !.left = @ \ {s}, !.old = IF Superseded(s) THEN s.id ELSE None]
  BY DEF Compare
<1>2. job.pc = "compact" /\ UNCHANGED now /\ StoresStay
  BY DEF Compare, StoresStay, local
<1>3. /\ job'.pc = job.pc /\ job'.left = job.left \ {s} /\ job'.rows = job.rows
      /\ job'.proof = job.proof /\ job'.now = job.now /\ job'.pending = job.pending
      /\ job'.coverage = job.coverage
      /\ job'.old = IF s.rows \subseteq job.rows THEN s.id ELSE None
      /\ JobShape(job')
  BY <1>1 DEF KInv, Shapes, JobShape, Superseded
<1>4. AdoptInv /\ CompactInv
  BY <1>2 DEF KInv, JobInv
<1>5. AdoptInv' /\ snapshots' = snapshots
  BY <1>2, <1>3, <1>4, SameClaims
<1>6. /\ None \notin Nat /\ job.proof \in Nat
      /\ \A t \in snapshots : t.id \in Nat /\ (t.id = s.id => t = s)
      /\ s \in snapshots
  BY <1>4, ArchiveAssumption DEF KInv, SnapshotsInv, AdoptInv, CompactInv
<1>7. CompactInv'
  BY <1>3, <1>4, <1>5, <1>6 DEF CompactInv
<1>8. JobInv'
  BY <1>2, <1>3, <1>5, <1>7 DEF JobInv
<1> QED BY <1>2, <1>3, <1>8, JobStep

LEMMA RelinkKeeps == KInv /\ Relink => KInv'
<1> SUFFICES ASSUME KInv, Relink PROVE KInv'
  OBVIOUS
<1>1. PICK o \in Linked(job.old) :
        objects' = (objects \ {o}) \cup {[o EXCEPT !.proof = job.proof]}
  BY DEF Relink
<1>2. /\ job.pc = "compact" /\ o \in objects
      /\ UNCHANGED <<now, raw, db, coverage, state, snapshots, job, history>>
  BY <1>1 DEF Relink, Linked, local
<1> DEFINE p == [o EXCEPT !.proof = job.proof]
<1>3. /\ p.hour = o.hour /\ p.content = o.content /\ p.verified = o.verified
      /\ p.proof = job.proof
      /\ p = [hour |-> p.hour, key |-> p.key, content |-> p.content, verified |-> p.verified,
              proof |-> p.proof]
  BY <1>2 DEF KInv, Shapes, JobShape
<1> HIDE DEF p
<1>4. objects' = (objects \ {o}) \cup {p}
  BY <1>1 DEF p
<1>5. AdoptInv /\ CompactInv
  BY <1>2 DEF KInv, JobInv
<1>6. Shapes'
  BY <1>2, <1>3, <1>4 DEF KInv, Shapes, JobShape
<1>7. SnapshotsInv' /\ AnalysisKept' /\ ExpiredWasAnalysed' /\ StateInv' /\ Analysed' = Analysed
  BY <1>2, StateStays DEF KInv, SnapshotsInv, AnalysisKept, ExpiredWasAnalysed, Analysed
<1>8. CoverageInv'
  BY <1>2, <1>3, <1>4, <1>7 DEF KInv, CoverageInv, Covers
<1>9. ProofsResolve'
  BY <1>2, <1>3, <1>4, <1>5 DEF KInv, ProofsResolve, HasProof, AdoptInv, Sent
<1>10. NothingLost'
  BY <1>2, <1>3, <1>4 DEF KInv, NothingLost
<1>11. AdoptInv' /\ CompactInv'
  BY <1>2, <1>5, <1>7 DEF AdoptInv, CompactInv, Overdue, Sent, Covers
<1>12. JobInv'
  BY <1>2, <1>11 DEF JobInv
<1> QED BY <1>6, <1>7, <1>8, <1>9, <1>10, <1>12 DEF KInv

LEMMA DeleteKeeps == KInv /\ DeleteSnapshot => KInv'
<1> SUFFICES ASSUME KInv, DeleteSnapshot PROVE KInv'
  OBVIOUS
<1>1. /\ job.pc = "compact" /\ job.old # None /\ Linked(job.old) = {}
      /\ snapshots' = {s \in snapshots : s.id # job.old}
      /\ job' = [job EXCEPT !.old = None]
      /\ UNCHANGED <<now, raw, db, coverage, state, objects, history>>
  BY DEF DeleteSnapshot, local
<1>2. /\ job'.pc = job.pc /\ job'.left = job.left /\ job'.rows = job.rows
      /\ job'.proof = job.proof /\ job'.now = job.now /\ job'.pending = job.pending
      /\ job'.coverage = job.coverage /\ job'.old = None
      /\ JobShape(job')
  BY <1>1 DEF KInv, Shapes, JobShape
<1>3. AdoptInv /\ CompactInv
  BY <1>1 DEF KInv, JobInv
<1>4. Sent'
  BY <1>1, <1>2, <1>3 DEF AdoptInv, CompactInv, Sent
<1>5. Analysed' = Analysed
  <2>1. \A s \in snapshots : s.id = job.old => s.rows \subseteq job.rows
    BY <1>3 DEF CompactInv
  <2>2. PICK t \in snapshots' : t.rows = job.rows
    BY <1>2, <1>4 DEF Sent
  <2> QED BY <1>1, <2>1, <2>2 DEF Analysed
<1>6. Shapes'
  BY <1>1, <1>2 DEF KInv, Shapes, JobShape
<1>7. SnapshotsInv' /\ NothingLost'
  BY <1>1 DEF KInv, SnapshotsInv, NothingLost
<1>8. CoverageInv'
  BY <1>1, <1>5 DEF KInv, CoverageInv, Covers
<1>9. AnalysisKept' /\ ExpiredWasAnalysed'
  <2>1. \A h : (\E s \in snapshots : h \in s.rows) => \E s \in snapshots' : h \in s.rows
    BY <1>5 DEF Analysed
  <2> QED BY <1>1, <2>1 DEF KInv, AnalysisKept, ExpiredWasAnalysed
<1>10. ProofsResolve'
  BY <1>1 DEF KInv, ProofsResolve, HasProof, Linked
<1>11. Overdue /\ Overdue'
  BY <1>1, <1>3 DEF AdoptInv, Overdue
<1>12. StateInv'
  BY <1>1, <1>11 DEF KInv, StateInv
<1>13. AdoptInv'
  BY <1>1, <1>2, <1>3, <1>4, <1>5, <1>11 DEF AdoptInv, Covers
<1>14. CompactInv'
  <2>1. None \notin Nat /\ \A s \in snapshots : s.id \in Nat
    BY ArchiveAssumption DEF KInv, SnapshotsInv
  <2> QED BY <1>1, <1>2, <1>3, <2>1 DEF AdoptInv, CompactInv
<1>15. JobInv'
  BY <1>1, <1>2, <1>13, <1>14 DEF JobInv
<1> QED BY <1>6, <1>7, <1>8, <1>9, <1>10, <1>12, <1>15 DEF KInv

LEMMA CompactedKeeps == KInv /\ Compacted => KInv'
<1> SUFFICES ASSUME KInv, Compacted PROVE KInv'
  OBVIOUS
<1>1. /\ job.pc = "compact" /\ job' = [job EXCEPT !.pc = "adopt"]
      /\ UNCHANGED now /\ StoresStay
  BY DEF Compacted, StoresStay, local
<1>2. /\ job'.pc = "adopt" /\ job'.rows = job.rows /\ job'.proof = job.proof
      /\ job'.now = job.now /\ job'.pending = job.pending /\ job'.coverage = job.coverage
      /\ JobShape(job')
  BY <1>1 DEF KInv, Shapes, JobShape
<1>3. AdoptInv'
  BY <1>1, <1>2, SameClaims DEF KInv, JobInv
<1>4. JobInv'
  BY <1>2, <1>3 DEF JobInv
<1> QED BY <1>1, <1>2, <1>4, JobStep

LEMMA AdoptKeeps == KInv /\ Adopt => KInv'
<1> SUFFICES ASSUME KInv, Adopt PROVE KInv'
  OBVIOUS
<1>1. /\ job.pc = "adopt"
      /\ state' = [state EXCEPT !.day = job.now \div DAY, !.proof = job.proof,
                                !.coverage = job.coverage]
      /\ job' = [job EXCEPT !.pc = "prune"]
      /\ UNCHANGED <<now, raw, db, coverage, objects, snapshots, history>>
  BY DEF Adopt, local, remote
<1>2. /\ job'.pc = "prune" /\ job'.rows = job.rows /\ job'.proof = job.proof
      /\ job'.now = job.now /\ job'.pending = job.pending /\ job'.coverage = job.coverage
      /\ JobShape(job')
      /\ state'.day = job.now \div DAY /\ state'.proof = job.proof
      /\ state'.coverage = job.coverage
      /\ state' = [files |-> state'.files, day |-> state'.day, proof |-> state'.proof,
                   coverage |-> state'.coverage]
  BY <1>1 DEF KInv, Shapes, JobShape
<1>3. AdoptInv
  BY <1>1 DEF KInv, JobInv
<1>4. Shapes'
  BY <1>1, <1>2 DEF KInv, Shapes
<1>5. Analysed' = Analysed /\ SnapshotIds' = SnapshotIds /\ job.proof \in SnapshotIds
  BY <1>1, <1>3 DEF Analysed, SnapshotIds, AdoptInv, Sent
<1>6. CoverageInv'
  BY <1>1, <1>2, <1>3, <1>5 DEF KInv, CoverageInv, AdoptInv, Covers
<1>7. SnapshotsInv' /\ NothingLost' /\ AnalysisKept' /\ ProofsResolve' /\ ExpiredWasAnalysed'
  BY <1>1 DEF KInv, SnapshotsInv, NothingLost, AnalysisKept, ProofsResolve, ExpiredWasAnalysed,
     HasProof
<1>8. StateInv'
  <2>1. job.now \div DAY \in Int /\ job.now \div DAY <= now \div DAY
    BY DayLater DEF KInv, Shapes
  <2> QED BY <1>1, <1>2, <1>5, <2>1 DEF StateInv
<1>9. JobInv'
  BY <1>1, <1>2, <1>3, <1>5 DEF JobInv, AdoptInv, Sent
<1> QED BY <1>4, <1>6, <1>7, <1>8, <1>9 DEF KInv

LEMMA PruneKeeps == KInv /\ Prune => KInv'
<1> SUFFICES ASSUME KInv, Prune PROVE KInv'
  OBVIOUS
<1>1. /\ job.pc = "prune" /\ db' = db \ Prunable
      /\ job' = [job EXCEPT !.pc = "digest", !.rows = {}, !.proof = None,
                            !.coverage = IdleJob.coverage]
      /\ UNCHANGED <<now, raw, coverage, state, objects, snapshots, history>>
  BY DEF Prune, remote
<1>2. /\ job'.pc = "digest" /\ job'.now = job.now /\ job'.pending = job.pending
      /\ JobShape(job')
  BY <1>1 DEF KInv, Shapes, JobShape
<1>3. Sent /\ state.proof \in SnapshotIds
  BY <1>1 DEF KInv, JobInv
<1>4. Shapes'
  BY <1>1, <1>2 DEF KInv, Shapes
<1>5. AnalysisKept'
  <2>1. Prunable \subseteq job.rows
    BY DEF Prunable
  <2>2. PICK s \in snapshots : s.rows = job.rows
    BY <1>3 DEF Sent
  <2> QED BY <1>1, <2>1, <2>2 DEF KInv, AnalysisKept
<1>6. SnapshotsInv' /\ CoverageInv' /\ NothingLost' /\ ProofsResolve' /\ ExpiredWasAnalysed'
  BY <1>1 DEF KInv, SnapshotsInv, CoverageInv, NothingLost, ProofsResolve, ExpiredWasAnalysed,
     HasProof, Covers, Analysed
<1>7. StateInv'
  BY <1>1, StateStays DEF KInv
<1>8. JobInv'
  BY <1>1, <1>2, <1>3 DEF JobInv, SnapshotIds
<1> QED BY <1>4, <1>5, <1>6, <1>7, <1>8 DEF KInv

LEMMA DigestKeeps == KInv /\ Digest => KInv'
<1> SUFFICES ASSUME KInv, Digest PROVE KInv'
  OBVIOUS
<1>1. /\ job.pc = "digest" /\ job.pending # {}
      /\ job' = [job EXCEPT !.pc = "put", !.key = raw[Least(job.pending)]]
      /\ UNCHANGED now /\ StoresStay
  BY DEF Digest, StoresStay, local
<1>2. /\ job'.pc = "put" /\ job'.now = job.now /\ job'.pending = job.pending /\ JobShape(job')
  BY <1>1 DEF KInv, Shapes, JobShape
<1>3. state.proof \in SnapshotIds
  BY <1>1 DEF KInv, JobInv
<1>4. JobInv'
  BY <1>1, <1>2, <1>3 DEF JobInv, SnapshotIds, StoresStay, remote
<1> QED BY <1>1, <1>2, <1>4, JobStep

LEMMA UploadedKeeps == KInv /\ Uploaded => KInv'
<1> SUFFICES ASSUME KInv, Uploaded PROVE KInv'
  OBVIOUS
<1>1. /\ job' = [job EXCEPT !.pc = "clear"] /\ UNCHANGED now /\ StoresStay
  BY DEF Uploaded, StoresStay, local
<1>2. /\ job'.pc = "clear" /\ job'.now = job.now /\ job'.pending = job.pending /\ JobShape(job')
  BY <1>1 DEF KInv, Shapes, JobShape
<1>3. JobInv'
  BY <1>2 DEF JobInv
<1> QED BY <1>1, <1>2, <1>3, JobStep

LEMMA ClearedKeeps == KInv /\ Cleared => KInv'
<1> SUFFICES ASSUME KInv, Cleared PROVE KInv'
  OBVIOUS
<1>1. /\ job' = [job EXCEPT !.pc = "expire", !.left = IF DeleteRemote THEN objects ELSE {}]
      /\ UNCHANGED now /\ StoresStay
  BY DEF Cleared, StoresStay, local
<1>2. /\ job'.pc = "expire" /\ job'.now = job.now /\ job'.pending = job.pending /\ JobShape(job')
      /\ job'.left \subseteq objects
  BY <1>1 DEF KInv, Shapes, JobShape
<1>3. ExpireInv'
  BY <1>1, <1>2 DEF KInv, CoverageInv, ExpireInv, Analysed, StoresStay, remote
<1>4. JobInv'
  BY <1>2, <1>3 DEF JobInv
<1> QED BY <1>1, <1>2, <1>4, JobStep

\* An object of an upload names the snapshot of the state, and is marked as
\* analysed only if it is.
LEMMA ObjectAdded ==
  ASSUME KInv, job.pc = "put", NEW h, h = Least(job.pending),
         objects' \in {objects, objects \cup {Object(h)}},
         UNCHANGED <<raw, db, coverage, snapshots, history>>, state'.coverage = state.coverage
  PROVE  /\ StoreInv'
         /\ \A o \in objects' : o = [hour |-> o.hour, key |-> o.key, content |-> o.content,
                                     verified |-> o.verified, proof |-> o.proof]
<1> DEFINE new == Object(h)
<1>1. job.pending # {} /\ job.pending \in SUBSET Busy /\ state.proof \in SnapshotIds
  BY DEF KInv, JobInv, Shapes
<1>2. h \in Busy
  BY <1>1, LeastIsOne
<1>3. /\ new = [hour |-> new.hour, key |-> new.key, content |-> new.content,
                verified |-> new.verified, proof |-> new.proof]
      /\ new.hour = h /\ new.proof = state.proof /\ (new.verified <=> Covers(state.coverage, h))
  BY DEF Object, Verified
<1> HIDE DEF new
<1>4. \A o \in objects' : o \in objects \/ o = new
  BY DEF new
<1>5. objects \subseteq objects'
  OBVIOUS
<1>6. new.verified => new.hour \in Analysed
  BY <1>2, <1>3 DEF KInv, CoverageInv
<1>7. CoverageInv'
  BY <1>4, <1>6 DEF KInv, CoverageInv, Covers, Analysed
<1>8. ProofsResolve'
  BY <1>1, <1>3, <1>4 DEF KInv, ProofsResolve, HasProof, SnapshotIds
<1>9. NothingLost'
  BY <1>5 DEF KInv, NothingLost
<1>10. SnapshotsInv' /\ AnalysisKept' /\ ExpiredWasAnalysed'
  BY DEF KInv, SnapshotsInv, AnalysisKept, ExpiredWasAnalysed
<1>11. \A o \in objects' : o = [hour |-> o.hour, key |-> o.key, content |-> o.content,
                                verified |-> o.verified, proof |-> o.proof]
  BY <1>3, <1>4 DEF KInv, Shapes
<1> QED BY <1>7, <1>8, <1>9, <1>10, <1>11 DEF StoreInv

LEMMA PutKeeps == KInv /\ Put => KInv'
<1> SUFFICES ASSUME KInv, Put PROVE KInv'
  OBVIOUS
<1> DEFINE h == Least(job.pending)
<1>1. /\ job.pc = "put" /\ objects' \in {objects, objects \cup {Object(h)}}
      /\ \/ /\ state' = [state EXCEPT !.files[h] = job.key]
            /\ job' = [job EXCEPT !.pc = "digest", !.key = {}, !.pending = @ \ {h}]
         \/ job' = IdleJob /\ UNCHANGED state
      /\ UNCHANGED <<now, raw, db, coverage, snapshots, history>>
  BY DEF Put, local
<1> HIDE DEF h
<1>2. /\ state'.day = state.day /\ state'.proof = state.proof
      /\ state'.coverage = state.coverage
      /\ state' = [files |-> state'.files, day |-> state'.day, proof |-> state'.proof,
                   coverage |-> state'.coverage]
  BY <1>1 DEF KInv, Shapes
<1>3. /\ StoreInv'
      /\ \A o \in objects' : o = [hour |-> o.hour, key |-> o.key, content |-> o.content,
                                  verified |-> o.verified, proof |-> o.proof]
  BY <1>1, <1>2, ObjectAdded DEF h
<1>4. StateInv'
  BY <1>1, <1>2 DEF KInv, StateInv, Overdue, SnapshotIds
<1>5. state.proof \in SnapshotIds
  BY <1>1 DEF KInv, JobInv
<1>6. /\ JobShape(job') /\ job'.now \in Nat /\ job'.now <= now /\ job'.pending \subseteq Busy
      /\ job'.pc \in {"digest", "idle"}
  <2>1. CASE job' = IdleJob
    BY <2>1 DEF KInv, Shapes, JobShape, IdleJob
  <2>2. CASE job' = [job EXCEPT !.pc = "digest", !.key = {}, !.pending = @ \ {h}]
    <3>1. /\ job'.pc = "digest" /\ job'.now = job.now /\ job'.pending = job.pending \ {h}
          /\ JobShape(job')
      BY <2>2 DEF KInv, Shapes, JobShape
    <3> QED BY <3>1 DEF KInv, Shapes
  <2> QED BY <1>1, <2>1, <2>2
<1>7. Shapes'
  BY <1>1, <1>2, <1>3, <1>6 DEF KInv, Shapes
<1>8. JobInv'
  BY <1>1, <1>2, <1>5, <1>6 DEF JobInv, SnapshotIds
<1> QED BY <1>3, <1>4, <1>7, <1>8 DEF KInv, StoreInv

LEMMA ClearKeeps == KInv /\ Clear => KInv'
<1> SUFFICES ASSUME KInv, Clear PROVE KInv'
  OBVIOUS
<1> DEFINE h == Least(job.candidates)
<1>1. /\ job.pc = "clear"
      /\ \/ job' = IdleJob /\ UNCHANGED raw
         \/ /\ ~(Saved(h) /\ ~Stored(h))
            /\ raw' = IF Held(h) THEN [raw EXCEPT ![h] = {}] ELSE raw
            /\ job' = [job EXCEPT !.candidates = @ \ {h}]
      /\ UNCHANGED <<now, db, coverage, state, objects, snapshots, history>>
  BY DEF Clear, remote
<1> HIDE DEF h
<1>2. CASE job' = IdleJob /\ UNCHANGED raw
  <2>1. StoreInv' /\ StateInv'
    BY <1>1, <1>2, StayKeeps, StateStays DEF KInv, StoreInv, StoresStay, remote
  <2>2. Shapes' /\ JobInv'
    BY <1>1, <1>2, IdleKeeps DEF KInv
  <2> QED BY <2>1, <2>2 DEF KInv, StoreInv
<1>3. CASE /\ ~(Saved(h) /\ ~Stored(h))
           /\ raw' = IF Held(h) THEN [raw EXCEPT ![h] = {}] ELSE raw
           /\ job' = [job EXCEPT !.candidates = @ \ {h}]
  <2>1. /\ job'.pc = "clear" /\ job'.now = job.now /\ job'.pending = job.pending
        /\ JobShape(job')
    BY <1>1, <1>3 DEF KInv, Shapes, JobShape
  <2>2. /\ raw' = [k \in Busy |-> raw'[k]]
        /\ \A k \in Busy : raw'[k] = raw[k] \/ (k = h /\ Held(h))
    BY <1>3 DEF KInv, Shapes
  <2>3. Shapes'
    BY <1>1, <2>1, <2>2 DEF KInv, Shapes
  <2>4. NothingLost'
    <3> SUFFICES ASSUME NEW l \in history.written
                 PROVE  \/ l[2] \in raw'[l[1]]
                        \/ \E o \in objects : o.hour = l[1] /\ l[2] \in o.content
                        \/ l \in history.expired
      BY <1>1 DEF NothingLost
    <3>1. l[1] \in Busy
      BY DEF KInv, Shapes
    <3>2. CASE raw'[l[1]] = raw[l[1]]
      BY <3>2 DEF KInv, NothingLost
    <3>3. CASE l[1] = h /\ Held(h)
      <4>1. PICK o \in objects : o.hour = h /\ o.content = raw[h]
        BY <1>3, <3>3 DEF Held, Stored
      <4> QED BY <3>3, <4>1 DEF KInv, NothingLost
    <3> QED BY <2>2, <3>1, <3>2, <3>3
  <2>5. SnapshotsInv' /\ CoverageInv' /\ AnalysisKept' /\ ProofsResolve' /\ ExpiredWasAnalysed'
    BY <1>1 DEF KInv, SnapshotsInv, CoverageInv, AnalysisKept, ProofsResolve,
       ExpiredWasAnalysed, HasProof, Covers, Analysed
  <2>6. StateInv'
    BY <1>1, StateStays DEF KInv
  <2>7. JobInv'
    BY <2>1 DEF JobInv
  <2> QED BY <2>3, <2>4, <2>5, <2>6, <2>7 DEF KInv
<1> QED BY <1>1, <1>2, <1>3

LEMMA ExpireKeeps == KInv /\ Expire => KInv'
<1> SUFFICES ASSUME KInv, Expire PROVE KInv'
  OBVIOUS
<1>1. PICK o \in job.left :
        \/ /\ Due(o) /\ objects' = objects \ {o}
           /\ history' = [history EXCEPT
                !.expired = @ \cup {<<o.hour, l>> : l \in o.content}]
           /\ job' = [job EXCEPT !.left = @ \ {o}]
        \/ job' = IdleJob /\ UNCHANGED <<objects, history>>
        \/ job' = [job EXCEPT !.left = @ \ {o}] /\ UNCHANGED <<objects, history>>
  BY DEF Expire
<1>2. job.pc = "expire" /\ UNCHANGED <<now, raw, db, coverage, state, snapshots>>
  BY DEF Expire, local
<1>3. ExpireInv
  BY <1>2 DEF KInv, JobInv
<1>4. StateInv'
  BY <1>2, StateStays DEF KInv
<1>5. ASSUME job' = [job EXCEPT !.left = @ \ {o}]
      PROVE  /\ JobShape(job') /\ job'.now = job.now /\ job'.pending = job.pending
             /\ JobInv'
  <2>1. /\ job'.pc = "expire" /\ job'.now = job.now /\ job'.pending = job.pending
        /\ job'.left = job.left \ {o} /\ JobShape(job')
    BY <1>2, <1>5 DEF KInv, Shapes, JobShape
  <2>2. ExpireInv'
    BY <1>2, <1>3, <2>1 DEF ExpireInv, Analysed
  <2> QED BY <2>1, <2>2 DEF JobInv
<1>6. CASE /\ Due(o) /\ objects' = objects \ {o}
           /\ history' = [history EXCEPT
                !.expired = @ \cup {<<o.hour, l>> : l \in o.content}]
           /\ job' = [job EXCEPT !.left = @ \ {o}]
  <2>1. /\ history'.written = history.written /\ history'.recorded = history.recorded
        /\ history'.issued = history.issued
        /\ history'.expired = history.expired \cup {<<o.hour, l>> : l \in o.content}
        /\ history' = [written |-> history'.written, recorded |-> history'.recorded,
                       expired |-> history'.expired, issued |-> history'.issued]
    BY <1>6 DEF KInv, Shapes
  <2>2. Shapes'
    BY <1>2, <1>5, <1>6, <2>1 DEF KInv, Shapes
  <2>3. SnapshotsInv' /\ CoverageInv' /\ AnalysisKept' /\ ProofsResolve'
    BY <1>2, <1>6, <2>1 DEF KInv, SnapshotsInv, CoverageInv, AnalysisKept, ProofsResolve,
       HasProof, Covers, Analysed
  <2>4. NothingLost'
    <3> SUFFICES ASSUME NEW l \in history.written
                 PROVE  \/ l[2] \in raw[l[1]]
                        \/ \E p \in objects' : p.hour = l[1] /\ l[2] \in p.content
                        \/ l \in history'.expired
      BY <1>2, <2>1 DEF NothingLost
    <3>1. l = <<l[1], l[2]>>
      BY DEF KInv, Shapes
    <3>2. l[1] = o.hour /\ l[2] \in o.content => l \in history'.expired
      BY <2>1, <3>1
    <3> QED BY <1>6, <2>1, <3>2 DEF KInv, NothingLost
  <2>5. ExpiredWasAnalysed'
    <3> SUFFICES ASSUME NEW l \in history'.expired
                 PROVE  \E s \in snapshots : l[1] \in s.rows
      BY <1>2 DEF ExpiredWasAnalysed
    <3>1. o.hour \in Analysed
      BY <1>3, <1>6 DEF Due, ExpireInv
    <3>2. CASE l \in history.expired
      BY <3>2 DEF KInv, ExpiredWasAnalysed
    <3>3. CASE l[1] = o.hour
      BY <3>1, <3>3 DEF Analysed
    <3> QED BY <2>1, <3>2, <3>3
  <2> QED BY <1>4, <1>5, <1>6, <2>2, <2>3, <2>4, <2>5 DEF KInv
<1>7. CASE job' = IdleJob /\ UNCHANGED <<objects, history>>
  <2>1. StoreInv'
    BY <1>2, <1>7, StayKeeps DEF KInv, StoreInv, StoresStay, remote
  <2>2. Shapes' /\ JobInv'
    BY <1>2, <1>7, IdleKeeps DEF KInv
  <2> QED BY <1>4, <2>1, <2>2 DEF KInv, StoreInv
<1>8. CASE job' = [job EXCEPT !.left = @ \ {o}] /\ UNCHANGED <<objects, history>>
  BY <1>2, <1>5, <1>8, JobStep DEF StoresStay, remote
<1> QED BY <1>1, <1>6, <1>7, <1>8

LEMMA FinishKeeps == KInv /\ FinishCycle => KInv'
<1> SUFFICES ASSUME KInv, FinishCycle PROVE KInv'
  OBVIOUS
<1>1. /\ state' = [state EXCEPT
           !.files = [h \in Busy |-> IF raw[h] = {} THEN None ELSE @[h]]]
      /\ job' = IdleJob
      /\ UNCHANGED <<now, raw, db, coverage, objects, snapshots, history>>
  BY DEF FinishCycle, local, remote
<1>2. /\ state'.day = state.day /\ state'.proof = state.proof
      /\ state'.coverage = state.coverage
      /\ state' = [files |-> state'.files, day |-> state'.day, proof |-> state'.proof,
                   coverage |-> state'.coverage]
  BY <1>1 DEF KInv, Shapes
<1>3. /\ job'.pc = "idle" /\ job'.now = 0 /\ job'.pending = {} /\ JobShape(job')
  BY <1>1 DEF IdleJob, JobShape
<1>4. Shapes'
  BY <1>1, <1>2, <1>3 DEF KInv, Shapes
<1>5. SnapshotsInv' /\ CoverageInv' /\ NothingLost' /\ AnalysisKept' /\ ProofsResolve'
      /\ ExpiredWasAnalysed'
  BY <1>1, <1>2 DEF KInv, SnapshotsInv, CoverageInv, NothingLost, AnalysisKept, ProofsResolve,
     ExpiredWasAnalysed, HasProof, Covers, Analysed
<1>6. StateInv'
  BY <1>1, <1>2 DEF KInv, StateInv, Overdue, SnapshotIds
<1>7. JobInv'
  BY <1>3 DEF JobInv
<1> QED BY <1>4, <1>5, <1>6, <1>7 DEF KInv

\* What a request that failed may have stored is stored as by one that did not.
LEMMA CycleFailsKeeps == KInv /\ CycleFails => KInv'
<1> SUFFICES ASSUME KInv, CycleFails PROVE KInv'
  OBVIOUS
<1>1. job' = IdleJob /\ UNCHANGED <<now, raw, db, coverage, state>>
  BY DEF CycleFails, local
<1>2. CASE UNCHANGED <<remote, history>>
  <2>1. StoreInv' /\ StateInv'
    BY <1>1, <1>2, StayKeeps, StateStays DEF KInv, StoreInv, StoresStay, remote
  <2>2. Shapes' /\ JobInv'
    BY <1>1, <1>2, IdleKeeps DEF KInv, remote
  <2> QED BY <2>1, <2>2 DEF KInv, StoreInv
<1>3. CASE job.pc = "send" /\ StoreSnapshot /\ UNCHANGED objects
  <2>1. StoreInv' /\ StateInv'
    BY <1>1, <1>3, StoreKeeps DEF KInv, StoreInv
  <2>2. Shapes' /\ JobInv'
    BY <1>1, <1>3, IdleKeeps DEF KInv
  <2> QED BY <2>1, <2>2 DEF KInv, StoreInv
<1>4. CASE /\ job.pc = "put"
           /\ objects' = objects \cup {Object(Least(job.pending))}
           /\ UNCHANGED <<snapshots, history>>
  <2>1. /\ StoreInv'
        /\ \A o \in objects' : o = [hour |-> o.hour, key |-> o.key, content |-> o.content,
                                    verified |-> o.verified, proof |-> o.proof]
    BY <1>1, <1>4, ObjectAdded
  <2>2. /\ job'.pc = "idle" /\ job'.now = 0 /\ job'.pending = {} /\ JobShape(job')
    BY <1>1 DEF IdleJob, JobShape
  <2>3. Shapes'
    BY <1>1, <1>4, <2>1, <2>2 DEF KInv, Shapes
  <2>4. StateInv'
    BY <1>1, <1>4, StateStays DEF KInv
  <2>5. JobInv'
    BY <2>2 DEF JobInv
  <2> QED BY <2>1, <2>3, <2>4, <2>5 DEF KInv, StoreInv
<1> QED BY <1>2, <1>3, <1>4 DEF CycleFails

LEMMA RestartKeeps == KInv /\ Restart => KInv'
<1> SUFFICES ASSUME KInv, Restart PROVE KInv'
  OBVIOUS
<1>1. job' = IdleJob /\ UNCHANGED <<now, raw, db, coverage, state, remote, history>>
  BY DEF Restart
<1>2. StoreInv' /\ StateInv'
  BY <1>1, StayKeeps, StateStays DEF KInv, StoreInv, StoresStay, remote
<1>3. Shapes' /\ JobInv'
  BY <1>1, IdleKeeps DEF KInv, remote
<1> QED BY <1>2, <1>3 DEF KInv, StoreInv

LEMMA NextKInv == KInv /\ [ANext]_avars => KInv'
<1> SUFFICES ASSUME KInv, [ANext]_avars PROVE KInv'
  OBVIOUS
<1>1. CASE UNCHANGED avars
  BY <1>1 DEF avars, local, remote, KInv, Shapes, SnapshotsInv, CoverageInv, StateInv, JobInv,
     NothingLost, AnalysisKept, ProofsResolve, ExpiredWasAnalysed, HasProof, Covers, Analysed,
     SnapshotIds, Overdue, Sent, SendInv, AdoptInv, CompactInv, ExpireInv
<1>2. CASE Cycle
  BY <1>2, BeginKeeps, SendKeeps, CompareKeeps, RelinkKeeps, DeleteKeeps, CompactedKeeps,
     AdoptKeeps, PruneKeeps, DigestKeeps, PutKeeps, UploadedKeeps, ClearKeeps, ClearedKeeps,
     ExpireKeeps, FinishKeeps DEF Cycle
<1> QED BY <1>1, <1>2, TickKeeps, WriteRawKeeps, CheckpointKeeps, CycleFailsKeeps,
           RestartKeeps DEF ANext

\* Every state of the archive satisfies the invariant.
THEOREM KInvInvariant == ASpec => []KInv
<1>1. AInit => KInv
  BY InitKInv
<1>2. KInv /\ [ANext]_avars => KInv'
  BY NextKInv
<1> QED BY <1>1, <1>2, PTL DEF ASpec

\* The archive keeps what it removes: no line of a raw hour is lost before it
\* expires, no record of the analysis is lost by pruning or compaction, every
\* object names a snapshot that is there, and what expired was analysed.
THEOREM ArchiveIsKept == ASpec => []ArchiveKeeps
<1>1. KInv => ArchiveKeeps
  BY DEF KInv, ArchiveKeeps
<1> QED BY <1>1, KInvInvariant, PTL

-----------------------------------------------------------------------------
(* The history of a market and its repair                                  *)

\* Where a value may come from.
Bar5 == {NoBar, "native", "quiet", "live"}
CandleTables == [base : [Bars -> Bar5], packed : [Bars -> Bar5], recent : [Bars -> Bar5]]

RepairTypes ==
  /\ traded \subseteq Bars
  /\ present \in Begins .. Until /\ reached \in Begins .. present
  /\ Tables \in CandleTables /\ once \subseteq Bars
  /\ repair \in [step : {"idle", "fetch"}, cutoff : Nat, missing : SUBSET Bars, pages : Nat]
  /\ verdict.cutoff \in Nat

\* A repair asks only for bars of its window, and says nothing before it ends.
RepairRuns ==
  repair.step = "fetch" =>
    /\ repair.missing # {} /\ repair.missing \subseteq Span(repair.cutoff)
    /\ repair.cutoff \in Begins .. present /\ verdict.word = "REPAIRING"

\* A bar that had a value keeps one while a decision may refer to it.
ValuesAreKept == \A b \in once : b >= Oldest(reached) => b \in Recorded

\* What a repair of the window before a cutoff owes the tables d, but for the
\* bars that it still misses, when the observer is at the bar at.
WholeAt(d, at, cutoff, missing) ==
  /\ \A b \in Span(cutoff) \ missing : b >= Oldest(at) => ~Unwritten(d, b)
  /\ \A b \in Detailed(cutoff) \ missing :
       d.recent[b] # "live" /\ (b >= at - DayBars => d.recent[b] # NoBar)
Whole(cutoff, missing) == WholeAt(Tables, reached, cutoff, missing)

RepairsAreWhole ==
  /\ repair.step = "fetch" => Whole(repair.cutoff, repair.missing)
  /\ verdict.word = "COMPLETE" => verdict.cutoff \in Begins .. present /\ Whole(verdict.cutoff, {})

RepairInv == RepairTypes /\ RepairRuns /\ ZeroIsProved /\ ValuesAreKept /\ RepairsAreWhole

-----------------------------------------------------------------------------
\* The window of a repair lies within the bars that are told apart.
LEMMA WindowFacts ==
  /\ Begins \in Nat /\ Begins <= Until
  /\ \A c \in Nat : c >= Begins => Oldest(c) \in Nat
  /\ \A c, d \in Nat : c <= d => Oldest(c) <= Oldest(d)
  /\ \A c \in Begins .. Until : Span(c) \subseteq Bars /\ Detailed(c) \subseteq Span(c)
<1> DEFINE H == DAYS * DayBars
<1>1. H \in Nat /\ H >= DayBars /\ DayBars \in Nat
  BY RepairAssumption
<1>2. Begins = H + 1 /\ \A c \in Int : Oldest(c) = c - 1 - H
  <2>1. Begins = 1 + H /\ \A c \in Int : Oldest(c) = c - 1 - H
    BY DEF Begins, Oldest
  <2> HIDE DEF H
  <2> QED BY <1>1, <2>1
<1>3. Until \in Nat /\ Until >= H + 1
  BY RepairAssumption, <1>1
<1> HIDE DEF H
<1>4. \A c \in Nat : c >= Begins => Oldest(c) \in Nat
  BY <1>1, <1>2
<1>5. \A c, d \in Nat : c <= d => Oldest(c) <= Oldest(d)
  BY <1>1, <1>2
<1>6. ASSUME NEW c \in Begins .. Until PROVE Span(c) \subseteq Bars /\ Detailed(c) \subseteq Span(c)
  BY <1>1, <1>2, <1>3 DEF Span, Detailed, Bars
<1> QED BY <1>1, <1>2, <1>3, <1>4, <1>5, <1>6

\* A day begins no later than any of its bars.
LEMMA DayFloor ==
  ASSUME NEW x \in Nat
  PROVE  (x \div DayBars) * DayBars \in Nat /\ (x \div DayBars) * DayBars <= x
<1> DEFINE n == DayBars
           q == x \div n
<1>1. n \in Nat /\ n > 0 /\ q \in Nat
  BY RepairAssumption
<1>2. x = n * q + (x % n) /\ x % n \in Nat
  BY <1>1
<1>3. n * q = q * n /\ n * q \in Nat
  BY <1>1
<1> HIDE DEF n, q
<1> QED BY <1>2, <1>3 DEF n, q

\* Compaction keeps every value that a decision may still refer to, and
\* invents none.
LEMMA PackedFacts ==
  ASSUME NEW d \in CandleTables, NEW c \in Begins .. Until
  PROVE  /\ Packed(d, c) \in CandleTables /\ Packed(d, c).recent = d.recent
         /\ \A b \in Bars : /\ Packed(d, c).base[b] \in {NoBar, d.base[b]}
                            /\ Packed(d, c).packed[b] \in {NoBar, d.base[b], d.packed[b]}
                            /\ b >= Oldest(c) /\ ~Unwritten(d, b) => ~Unwritten(Packed(d, c), b)
<1> DEFINE rows == Kept(d.base)
           batch == {b \in rows : Cardinality({o \in rows : o < b}) < BATCH}
           floor == (Oldest(c) \div DayBars) * DayBars
           e == Packed(d, c)
           bs == [b \in Bars |-> IF b \in batch THEN NoBar ELSE d.base[b]]
           ps == [b \in Bars |-> IF b < floor THEN NoBar ELSE IF b \in batch THEN d.base[b] ELSE d.packed[b]]
<1>1. e = [d EXCEPT !.base = bs, !.packed = ps]
  BY DEF Packed
<1>2. Oldest(c) \in Nat /\ floor \in Nat /\ floor <= Oldest(c)
  BY WindowFacts, DayFloor
<1>3. batch \subseteq Bars /\ \A b \in batch : d.base[b] # NoBar
  BY DEF Kept
<1> HIDE DEF batch, floor
<1>4. bs \in [Bars -> Bar5] /\ ps \in [Bars -> Bar5]
  BY DEF CandleTables, Bar5
<1>5. /\ \A b \in Bars : bs[b] = IF b \in batch THEN NoBar ELSE d.base[b]
      /\ \A b \in Bars : ps[b] = IF b < floor THEN NoBar ELSE IF b \in batch THEN d.base[b] ELSE d.packed[b]
  OBVIOUS
<1> HIDE DEF bs, ps
<1>6. e \in CandleTables /\ e.base = bs /\ e.packed = ps /\ e.recent = d.recent
  BY <1>1, <1>4 DEF CandleTables
<1> HIDE DEF e
<1>7. ASSUME NEW b \in Bars, b >= Oldest(c), ~Unwritten(d, b) PROVE ~Unwritten(e, b)
  <2>1. ~(b < floor)
    BY <1>2, <1>7 DEF Bars
  <2>2. ps[b] = IF b \in batch THEN d.base[b] ELSE d.packed[b]
    BY <1>5, <2>1
  <2> QED BY <1>3, <1>5, <1>6, <1>7, <2>2 DEF Unwritten
<1>8. ASSUME NEW b \in Bars
      PROVE  e.base[b] \in {NoBar, d.base[b]} /\ e.packed[b] \in {NoBar, d.base[b], d.packed[b]}
  BY <1>5, <1>6
<1> QED BY <1>6, <1>7, <1>8 DEF e

\* The observer advances: nothing is invented but the live sum of the bar just
\* closed, where it had no value, and nothing is lost that a decision may
\* refer to.
LEMMA AdvancedFacts ==
  ASSUME RepairTypes, NEW e \in Advanced(Tables)
  PROVE  /\ e \in CandleTables
         /\ \A b \in Bars :
              /\ "quiet" \in {e.base[b], e.packed[b], e.recent[b]} =>
                   "quiet" \in {base[b], packed[b], recent5m[b]}
              /\ b >= Oldest(present) /\ b \in Recorded => ~Unwritten(e, b)
              /\ b >= present - DayBars /\ recent5m[b] # NoBar => e.recent[b] = recent5m[b]
              /\ recent5m[b] # "live" /\ e.recent[b] = "live" => recent5m[b] = NoBar /\ b = reached
<1>1. /\ Tables \in CandleTables /\ Tables.base = base /\ Tables.packed = packed /\ Tables.recent = recent5m
      /\ present \in Begins .. Until /\ reached \in Nat
  BY WindowFacts DEF RepairTypes, Tables
<1>2. CASE e = Tables
  BY <1>1, <1>2 DEF Unwritten, Recorded, Kept
<1>3. CASE e # Tables
  <2>1. PICK whole \in BOOLEAN : e = Evaluated(Tables, whole) /\ present = reached + 1
    BY <1>3 DEF Advanced
  <2> DEFINE f == IF whole THEN Live(Tables, present - 1) ELSE Tables
             g == Pruned(f, present)
  <2>2. present - 1 = reached /\ reached \in Bars
    <3>1. Begins \in Nat /\ Until \in Nat
      BY WindowFacts, RepairAssumption
    <3> QED BY <1>1, <2>1, <3>1 DEF Bars
  <2>3. /\ f \in CandleTables
        /\ \A b \in Bars : /\ f.base[b] = base[b] \/ f.base[b] = "live"
                           /\ base[b] # NoBar => f.base[b] # NoBar
                           /\ f.packed[b] = packed[b]
                           /\ f.recent[b] = IF whole /\ b = reached /\ recent5m[b] = NoBar
                                             THEN "live" ELSE recent5m[b]
    <3>1. CASE ~whole
      BY <1>1, <3>1
    <3>2. CASE whole
      <4> DEFINE bs == IF Unwritten(Tables, reached) THEN [base EXCEPT ![reached] = "live"] ELSE base
                 rs == IF recent5m[reached] = NoBar THEN [recent5m EXCEPT ![reached] = "live"] ELSE recent5m
      <4>1. f = [Tables EXCEPT !.base = bs, !.recent = rs]
        BY <1>1, <2>2, <3>2 DEF Live
      <4>2. base \in [Bars -> Bar5] /\ recent5m \in [Bars -> Bar5] /\ packed \in [Bars -> Bar5]
        BY <1>1 DEF CandleTables
      <4>3. /\ bs \in [Bars -> Bar5]
            /\ \A b \in Bars : bs[b] = base[b] \/ bs[b] = "live"
            /\ \A b \in Bars : base[b] # NoBar => bs[b] # NoBar
        <5>1. "live" \in Bar5 /\ NoBar # "live"
          BY RepairAssumption DEF Bar5
        <5> QED BY <2>2, <4>2, <5>1
      <4>4. /\ rs \in [Bars -> Bar5]
            /\ \A b \in Bars : rs[b] = IF b = reached /\ recent5m[b] = NoBar THEN "live" ELSE recent5m[b]
        BY <2>2, <4>2 DEF Bar5
      <4> HIDE DEF bs, rs
      <4>5. f \in CandleTables /\ f.base = bs /\ f.packed = packed /\ f.recent = rs
        BY <1>1, <4>1, <4>2, <4>3, <4>4 DEF CandleTables
      <4> HIDE DEF f
      <4>6. \A b \in Bars : f.recent[b] = IF whole /\ b = reached /\ recent5m[b] = NoBar
                                          THEN "live" ELSE recent5m[b]
        BY <3>2, <4>4, <4>5
      <4> QED BY <4>3, <4>5, <4>6
    <3> QED BY <3>1, <3>2
  <2> HIDE DEF f
  <2>4. /\ g \in CandleTables
        /\ \A b \in Bars : /\ g.base[b] = IF b < Oldest(present) THEN NoBar ELSE f.base[b]
                           /\ g.packed[b] = f.packed[b]
                           /\ g.recent[b] = IF b < present - DayBars THEN NoBar ELSE f.recent[b]
    <3> DEFINE bs == [b \in Bars |-> IF b < Floor(present) THEN NoBar ELSE f.base[b]]
               rs == [b \in Bars |-> IF b < present - DayBars THEN NoBar ELSE f.recent[b]]
    <3>1. g = [f EXCEPT !.base = bs, !.recent = rs]
      BY DEF Pruned
    <3>2. bs \in [Bars -> Bar5] /\ rs \in [Bars -> Bar5]
      BY <2>3 DEF CandleTables, Bar5
    <3>3. /\ \A b \in Bars : bs[b] = IF b < Oldest(present) THEN NoBar ELSE f.base[b]
          /\ \A b \in Bars : rs[b] = IF b < present - DayBars THEN NoBar ELSE f.recent[b]
      BY DEF Floor
    <3> HIDE DEF bs, rs
    <3>4. g \in CandleTables /\ g.base = bs /\ g.packed = f.packed /\ g.recent = rs
      BY <2>3, <3>1, <3>2 DEF CandleTables
    <3> HIDE DEF g
    <3> QED BY <3>3, <3>4
  <2> HIDE DEF g
  <2>5. e = Packed(g, present)
    BY <2>1 DEF Evaluated, f, g
  <2>6. /\ e \in CandleTables /\ e.recent = g.recent
        /\ \A b \in Bars : /\ e.base[b] \in {NoBar, g.base[b]}
                           /\ e.packed[b] \in {NoBar, g.base[b], g.packed[b]}
                           /\ b >= Oldest(present) /\ ~Unwritten(g, b) => ~Unwritten(e, b)
    BY <1>1, <2>4, <2>5, PackedFacts
  <2>7. ASSUME NEW b \in Bars PROVE "quiet" \in {e.base[b], e.packed[b], e.recent[b]} =>
                   "quiet" \in {base[b], packed[b], recent5m[b]}
    <3>1. NoBar # "quiet"
      BY RepairAssumption
    <3> QED BY <2>3, <2>4, <2>6, <3>1
  <2>8. ASSUME NEW b \in Bars, b >= Oldest(present), b \in Recorded PROVE ~Unwritten(e, b)
    <3>1. Oldest(present) \in Nat /\ b \in Nat
      BY <1>1, WindowFacts DEF Bars
    <3>2. g.base[b] = f.base[b] /\ g.packed[b] = packed[b]
      BY <2>3, <2>4, <2>8, <3>1
    <3>3. ~Unwritten(g, b)
      BY <2>3, <2>8, <3>2 DEF Unwritten, Recorded, Kept
    <3> QED BY <2>6, <2>8, <3>3
  <2>9. ASSUME NEW b \in Bars
        PROVE  /\ b >= present - DayBars /\ recent5m[b] # NoBar => e.recent[b] = recent5m[b]
               /\ recent5m[b] # "live" /\ e.recent[b] = "live" => recent5m[b] = NoBar /\ b = reached
    <3>1. b \in Int /\ present - DayBars \in Int /\ NoBar # "live"
      BY <1>1, WindowFacts, RepairAssumption DEF Bars
    <3>2. e.recent[b] = IF b < present - DayBars THEN NoBar
                        ELSE IF whole /\ b = reached /\ recent5m[b] = NoBar THEN "live" ELSE recent5m[b]
      BY <2>3, <2>4, <2>6
    <3> QED BY <3>1, <3>2
  <2> QED BY <2>6, <2>7, <2>8, <2>9
<1> QED BY <1>2, <1>3

\* What is whole stays whole when the observer advances.
LEMMA AdvancedKeepsWhole ==
  ASSUME RepairTypes, NEW e \in Advanced(Tables), NEW c \in Begins .. present,
         NEW missing, Whole(c, missing)
  PROVE  WholeAt(e, present, c, missing)
<1>1. /\ Tables.base = base /\ Tables.packed = packed /\ Tables.recent = recent5m
      /\ present \in Nat /\ reached \in Nat /\ reached <= present /\ DayBars \in Nat
      /\ c \in Begins .. Until
  <2>1. Begins \in Nat /\ Until \in Nat /\ DayBars \in Nat
    BY WindowFacts, RepairAssumption
  <2> QED BY <2>1 DEF RepairTypes, Tables
<1>2. Oldest(reached) \in Int /\ Oldest(present) \in Int /\ Oldest(reached) <= Oldest(present)
  <2>1. DAYS * DayBars \in Int
    BY RepairAssumption
  <2> DEFINE H == DAYS * DayBars
  <2>2. \A x \in Int : Oldest(x) = x - 1 - H
    BY DEF Oldest
  <2> HIDE DEF H
  <2> QED BY <1>1, <2>1, <2>2, WindowFacts DEF H
<1>3. Span(c) \subseteq Bars /\ Detailed(c) \subseteq Span(c) /\ \A b \in Bars : b \in Int
  BY <1>1, WindowFacts DEF Bars
<1>4. ASSUME NEW b \in Span(c) \ missing, b >= Oldest(present) PROVE ~Unwritten(e, b)
  <2>1. b \in Bars /\ b >= Oldest(reached)
    BY <1>2, <1>3, <1>4
  <2>2. b \in Recorded
    BY <1>1, <2>1 DEF Whole, WholeAt, Unwritten, Recorded, Kept
  <2> QED BY <1>4, <2>1, <2>2, AdvancedFacts
<1>5. ASSUME NEW b \in Detailed(c) \ missing
      PROVE  e.recent[b] # "live" /\ (b >= present - DayBars => e.recent[b] # NoBar)
  <2>1. b \in Bars /\ b \in Int
    BY <1>3
  <2>2. recent5m[b] # "live" /\ (b >= reached - DayBars => recent5m[b] # NoBar)
    BY <1>1, <1>5 DEF Whole, WholeAt
  <2>3. /\ b >= present - DayBars /\ recent5m[b] # NoBar => e.recent[b] = recent5m[b]
        /\ recent5m[b] # "live" /\ e.recent[b] = "live" => recent5m[b] = NoBar /\ b = reached
    BY <2>1, AdvancedFacts
  <2> QED BY <1>1, <2>1, <2>2, <2>3
<1> QED BY <1>4, <1>5 DEF WholeAt

\* A bar before the first candle of the page is left alone, so a bar without a
\* candle that the page covers is one without trades.
LEMMA PageFacts ==
  ASSUME RepairTypes, RepairRuns, repair.step = "fetch", Page # {}
  PROVE  /\ Page \subseteq traded /\ Covered(Page) \subseteq repair.missing
         /\ \A b \in Covered(Page) \ Page : b \notin traded /\ \E o \in traded : o < b
<1>1. /\ repair.missing # {} /\ repair.missing \subseteq Bars /\ Bars \subseteq Nat /\ Until \in Nat
      /\ traded \subseteq Bars /\ repair.cutoff \in Begins .. Until
  <2>1. Begins \in Nat /\ Until \in Nat
    BY WindowFacts, RepairAssumption
  <2> QED BY <2>1 DEF RepairTypes, RepairRuns, Bars
<1>2. Cursor \in Nat
  <2> DEFINE S == repair.missing
  <2>1. S \in SUBSET Nat /\ S # {} /\ \A x \in S : x <= Until
    BY <1>1 DEF Bars
  <2>2. Cursor = Max(S) + 1
    BY DEF Cursor
  <2> HIDE DEF S
  <2>3. Max(S) \in S
    BY <1>1, <2>1, MaxIsOne
  <2>4. Max(S) \in Nat
    BY <2>1, <2>3
  <2> QED BY <2>2, <2>4
<1>3. Page \subseteq traded
  BY DEF Page
<1>4. PICK m \in Page : m = Min(Page) /\ \A x \in Page : m <= x
  <2>1. Page \in SUBSET Nat
    BY <1>1, <1>3
  <2> HIDE DEF Page
  <2> QED BY <2>1, MinIsOne
<1>5. Oldest(repair.cutoff) \in Nat
  <2>1. Begins \in Nat /\ Until \in Nat
    BY WindowFacts, RepairAssumption
  <2> QED BY <1>1, <2>1, WindowFacts
<1>6. m \in Nat /\ Lower(Page) \in Nat /\ m <= Lower(Page)
  <2> DEFINE S == {Oldest(repair.cutoff), m}
  <2>1. S \in SUBSET Nat /\ m \in S /\ \A x \in S : x <= m \/ x <= Oldest(repair.cutoff)
    BY <1>1, <1>3, <1>5
  <2>2. Lower(Page) = Max(S)
    BY <1>4 DEF Lower
  <2>3. PICK n \in Nat : \A x \in S : x <= n
    BY <1>1, <1>3, <1>5
  <2> HIDE DEF S
  <2>4. Max(S) \in S /\ Max(S) >= m
    BY <2>1, <2>3, MaxIsOne
  <2> QED BY <2>1, <2>2, <2>4
<1>7. ASSUME NEW b \in Covered(Page) \ Page PROVE b \notin traded /\ m < b
  <2>1. b \in repair.missing /\ b \in Nat /\ b >= m /\ b < Cursor /\ b # m
    <3> HIDE DEF Page
    <3>1. b \in repair.missing /\ b \in Lower(Page) .. Cursor - 1 /\ b \notin Page
      BY DEF Covered
    <3> QED BY <1>1, <1>2, <1>4, <1>6, <3>1
  <2>2. ASSUME b \in traded PROVE FALSE
    <3> DEFINE After(x) == {o \in traded : x < o /\ o < Cursor}
    <3>1. IsFiniteSet(traded)
      <4>1. IsFiniteSet(0 .. Until) /\ traded \in SUBSET (0 .. Until)
        BY <1>1, FS_Interval DEF Bars
      <4> QED BY <4>1, FS_Subset
    <3>2. After(b) \subseteq After(m) /\ After(m) \subseteq traded
      <4>1. b \in Int /\ m \in Int /\ m <= b /\ \A o \in traded : o \in Int
        BY <1>1, <1>6, <2>1
      <4>2. ASSUME NEW o \in traded, b < o PROVE m < o
        BY <4>1, <4>2
      <4> QED BY <4>2
    <3>3. Cardinality(After(m)) < PAGE
      BY <1>4 DEF Page
    <3>4. ~(Cardinality(After(b)) < PAGE)
      BY <2>1, <2>2 DEF Page
    <3> HIDE DEF After
    <3>5. IsFiniteSet(After(m)) /\ Cardinality(After(b)) <= Cardinality(After(m))
      BY <3>1, <3>2, FS_Subset
    <3>6. Cardinality(After(m)) \in Nat /\ Cardinality(After(b)) \in Nat /\ PAGE \in Nat
      BY <3>2, <3>5, FS_Subset, FS_CardinalityType, RepairAssumption
    <3> QED BY <3>3, <3>4, <3>5, <3>6
  <2> QED BY <1>6, <2>1, <2>2
<1>8. Covered(Page) \subseteq repair.missing
  BY DEF Covered
<1> QED BY <1>3, <1>7, <1>8

\* The page writes what it covers and nothing else.
LEMMA AppliedFacts ==
  ASSUME RepairTypes, RepairRuns, repair.step = "fetch",
         NEW d \in CandleTables, NEW rows \in SUBSET Bars
  PROVE  /\ PageApplied(d, rows) \in CandleTables
         /\ \A b \in Bars :
              LET e == PageApplied(d, rows)
                  origin == IF b \in rows THEN "native" ELSE "quiet"
              IN /\ "quiet" \in {e.base[b], e.packed[b], e.recent[b]} =>
                      "quiet" \in {d.base[b], d.packed[b], d.recent[b]} \/ b \in Covered(rows) \ rows
                 /\ b >= Oldest(repair.cutoff) /\ (b \in Covered(rows) \/ ~Unwritten(d, b)) => ~Unwritten(e, b)
                 /\ e.recent[b] = IF b \in Covered(rows) /\ b >= repair.cutoff - DayBars
                                    THEN origin ELSE d.recent[b]
<1> DEFINE origin == [b \in Bars |-> IF b \in rows THEN "native" ELSE "quiet"]
           bs == [b \in Bars |-> IF b \in Covered(rows) THEN origin[b] ELSE d.base[b]]
           rs == [b \in Bars |-> IF b \in Covered(rows) /\ b >= repair.cutoff - DayBars
                                   THEN origin[b] ELSE d.recent[b]]
           f == [d EXCEPT !.base = bs, !.recent = rs]
           e == PageApplied(d, rows)
<1>1. e = Packed(f, repair.cutoff)
  <2>1. /\ bs = [b \in Bars |-> IF b \in Covered(rows)
                                  THEN IF b \in rows THEN "native" ELSE "quiet" ELSE d.base[b]]
        /\ rs = [b \in Bars |-> IF b \in Covered(rows) /\ b >= repair.cutoff - DayBars
                                  THEN IF b \in rows THEN "native" ELSE "quiet" ELSE d.recent[b]]
    OBVIOUS
  <2> HIDE DEF bs, rs
  <2> QED BY <2>1 DEF PageApplied
<1>2. NoBar \notin {"native", "quiet", "live"} /\ repair.cutoff \in Begins .. Until
  <2>1. Begins \in Nat /\ Until \in Nat
    BY WindowFacts, RepairAssumption
  <2> QED BY <2>1, RepairAssumption DEF RepairTypes, RepairRuns
<1>3. /\ bs \in [Bars -> Bar5] /\ rs \in [Bars -> Bar5]
      /\ \A b \in Bars : /\ origin[b] = IF b \in rows THEN "native" ELSE "quiet"
                         /\ bs[b] = IF b \in Covered(rows) THEN origin[b] ELSE d.base[b]
                         /\ rs[b] = IF b \in Covered(rows) /\ b >= repair.cutoff - DayBars
                                    THEN origin[b] ELSE d.recent[b]
  BY DEF CandleTables, Bar5
<1> HIDE DEF bs, rs
<1>4. f \in CandleTables /\ f.base = bs /\ f.packed = d.packed /\ f.recent = rs
  BY <1>3 DEF CandleTables
<1> HIDE DEF f, origin
<1>5. /\ e \in CandleTables /\ e.recent = rs
      /\ \A b \in Bars : /\ e.base[b] \in {NoBar, bs[b]}
                         /\ e.packed[b] \in {NoBar, bs[b], d.packed[b]}
                         /\ b >= Oldest(repair.cutoff) /\ ~Unwritten(f, b) => ~Unwritten(e, b)
  BY <1>1, <1>2, <1>4, PackedFacts
<1> HIDE DEF e
<1>6. ASSUME NEW b \in Bars, "quiet" \in {e.base[b], e.packed[b], e.recent[b]}
      PROVE  "quiet" \in {d.base[b], d.packed[b], d.recent[b]} \/ b \in Covered(rows) \ rows
  <2>1. "quiet" \in {bs[b], d.packed[b], rs[b]}
    BY <1>2, <1>5, <1>6
  <2> QED BY <1>3, <2>1
<1>7. ASSUME NEW b \in Bars, b >= Oldest(repair.cutoff), b \in Covered(rows) \/ ~Unwritten(d, b)
      PROVE  ~Unwritten(e, b)
  <2>1. ~Unwritten(f, b)
    BY <1>2, <1>3, <1>4, <1>7 DEF Unwritten
  <2> QED BY <1>5, <1>7, <2>1
<1>8. ASSUME NEW b \in Bars
      PROVE  e.recent[b] = IF b \in Covered(rows) /\ b >= repair.cutoff - DayBars
                             THEN IF b \in rows THEN "native" ELSE "quiet" ELSE d.recent[b]
  BY <1>3, <1>5
<1> QED BY <1>5, <1>6, <1>7, <1>8 DEF e

-----------------------------------------------------------------------------
\* The archive that was imported has native candles only.
LEMMA InitRepairInv == RepairInit => RepairInv
<1> SUFFICES ASSUME RepairInit PROVE RepairInv
  OBVIOUS
<1>1. PICK from \in Listings, quiet \in Quiet : traded = (from .. Until) \ quiet
  BY DEF RepairInit
<1>2. PICK until \in {0, Begins - 1} :
        base = [b \in Bars |-> IF b \in traded /\ b < until THEN "native" ELSE NoBar]
  BY DEF RepairInit
<1>3. /\ traded \subseteq Bars /\ Begins \in Nat /\ Begins <= Until
      /\ present \in Begins .. Until /\ reached \in Begins .. present
  BY <1>1, WindowFacts, RepairAssumption DEF RepairInit, Bars
<1>4. base \in [Bars -> Bar5] /\ \A b \in Bars : base[b] \in {"native", NoBar}
  BY <1>2 DEF Bar5
<1>5. recent5m \in [Bars -> Bar5] /\ \A b \in Bars : recent5m[b] \in {"native", NoBar}
  BY <1>4 DEF RepairInit, Bar5
<1>6. packed \in [Bars -> Bar5] /\ \A b \in Bars : packed[b] = NoBar
  BY DEF RepairInit, Blank, Bar5
<1>7. Tables \in CandleTables
  BY <1>4, <1>5, <1>6 DEF Tables, CandleTables
<1>8. /\ once = Kept(base) /\ repair = [step |-> "idle", cutoff |-> 0, missing |-> {}, pages |-> 0]
      /\ verdict = [word |-> "UNKNOWN", cutoff |-> 0]
  BY DEF RepairInit, Idle
<1>9. RepairTypes
  BY <1>3, <1>7, <1>8 DEF RepairTypes, Kept
<1>10. ZeroIsProved
  <2>1. NoBar # "quiet"
    BY RepairAssumption
  <2> QED BY <1>4, <1>5, <1>6, <2>1 DEF ZeroIsProved
<1> QED BY <1>8, <1>9, <1>10 DEF RepairInv, RepairRuns, ValuesAreKept, RepairsAreWhole, Recorded

\* The tables after a step are those that the observer wrote.
LEMMA Written ==
  ASSUME NEW d \in CandleTables, Write(d)
  PROVE  Tables' = d /\ once' = once \cup Kept(d.base)
         /\ base' = d.base /\ packed' = d.packed /\ recent5m' = d.recent
         /\ \A b \in Bars : b \in Recorded' <=> ~Unwritten(d, b)
<1>1. base' = d.base /\ packed' = d.packed /\ recent5m' = d.recent /\ once' = once \cup Kept(d.base)
  BY DEF Write
<1>2. Tables' = [base |-> d.base, packed |-> d.packed, recent |-> d.recent]
  BY <1>1 DEF Tables
<1>3. d = [base |-> d.base, packed |-> d.packed, recent |-> d.recent]
  BY DEF CandleTables
<1>4. \A b \in Bars : b \in Recorded' <=> ~Unwritten(d, b)
  BY <1>1 DEF Recorded, Kept, Unwritten
<1> QED BY <1>1, <1>2, <1>3, <1>4

\* Steps that write no table: the clock, a plan, an empty page, an error.
LEMMA RepairPlans ==
  ASSUME RepairInv, BarPasses \/ BeginRepair \/ Nothing \/ Fail \/ UNCHANGED repairvars
  PROVE  RepairInv'
<1>1. /\ UNCHANGED <<traded, reached, tables, once>> /\ present' \in {present, present + 1}
      /\ present' <= Until
  <2>1. present <= Until /\ present \in Int /\ Until \in Nat
    BY WindowFacts, RepairAssumption DEF RepairInv, RepairTypes
  <2> QED BY <2>1 DEF BarPasses, BeginRepair, Nothing, Fail, repairvars, tables
<1>2. /\ Begins \in Nat /\ Until \in Nat /\ present \in Begins .. Until /\ reached \in Begins .. present
      /\ present' \in Begins .. Until /\ reached' \in Begins .. present'
  <2>1. Begins \in Nat /\ Until \in Nat /\ present \in Begins .. Until /\ reached \in Begins .. present
    BY WindowFacts, RepairAssumption DEF RepairInv, RepairTypes
  <2> QED BY <1>1, <2>1
<1>3. Tables' = Tables /\ Recorded' = Recorded /\ once' = once /\ reached' = reached /\ traded' = traded
  BY <1>1 DEF Tables, Recorded, Kept, tables
<1>4. ZeroIsProved' /\ ValuesAreKept'
  BY <1>1, <1>3 DEF RepairInv, ZeroIsProved, ValuesAreKept, tables
<1>5. \A c, m : Whole(c, m)' = Whole(c, m)
  BY <1>3 DEF Whole, WholeAt
<1> DEFINE Plans == /\ repair' \in [step : {"idle", "fetch"}, cutoff : Nat, missing : SUBSET Bars, pages : Nat]
                    /\ verdict'.cutoff \in Nat
                    /\ RepairRuns' /\ RepairsAreWhole'
<1>6. CASE UNCHANGED <<repair, verdict>>
  <2>1. Plans
    BY <1>1, <1>2, <1>5, <1>6 DEF RepairInv, RepairTypes, RepairRuns, RepairsAreWhole
  <2> QED BY <1>2, <1>3, <1>4, <2>1 DEF RepairInv, RepairTypes
<1>7. CASE BeginRepair
  <2> DEFINE missing == MissingPlan(present)
  <2>1. /\ repair.step = "idle" /\ present' = present
        /\ IF missing = {}
              THEN verdict' = [word |-> "COMPLETE", cutoff |-> present] /\ repair' = repair
              ELSE /\ repair' = [step |-> "fetch", cutoff |-> present, missing |-> missing, pages |-> 0]
                   /\ verdict' = [word |-> "REPAIRING", cutoff |-> present]
    BY <1>7 DEF BeginRepair
  <2>2. missing \subseteq Span(present) /\ Span(present) \subseteq Bars /\ Detailed(present) \subseteq Span(present)
    BY <1>2, WindowFacts DEF MissingPlan
  <2>3. Whole(present, missing)
    <3>1. \A b \in Span(present) \ missing : ~Unwritten(Tables, b)
      BY <2>2 DEF MissingPlan, Unwritten, Recorded, Kept, Tables
    <3>2. \A b \in Detailed(present) \ missing : recent5m[b] # "live" /\ recent5m[b] # NoBar
      BY <2>2 DEF MissingPlan, Kept
    <3> HIDE DEF missing
    <3> QED BY <3>1, <3>2 DEF Whole, WholeAt, Tables
  <2> HIDE DEF missing
  <2>4. CASE missing = {}
    <3>1. /\ verdict' = [word |-> "COMPLETE", cutoff |-> present] /\ repair' = repair /\ repair.step = "idle"
          /\ Whole(present, {})
      BY <2>1, <2>3, <2>4
    <3>2. Plans
      BY <1>2, <1>5, <2>1, <3>1 DEF RepairInv, RepairTypes, RepairRuns, RepairsAreWhole
    <3> QED BY <1>2, <1>3, <1>4, <3>2 DEF RepairInv, RepairTypes
  <2>5. CASE missing # {}
    <3>1. /\ repair' = [step |-> "fetch", cutoff |-> present, missing |-> missing, pages |-> 0]
          /\ verdict' = [word |-> "REPAIRING", cutoff |-> present]
      BY <2>1, <2>5
    <3>2. Plans
      BY <1>2, <1>5, <2>1, <2>2, <2>3, <2>5, <3>1 DEF RepairRuns, RepairsAreWhole
    <3> QED BY <1>2, <1>3, <1>4, <3>2 DEF RepairInv, RepairTypes
  <2> QED BY <2>4, <2>5
<1>8. CASE Nothing \/ Fail
  <2>1. /\ repair.step = "fetch" /\ repair' = [step |-> "idle", cutoff |-> 0, missing |-> {}, pages |-> 0]
        /\ verdict'.word # "COMPLETE" /\ verdict'.cutoff = repair.cutoff
    BY <1>8 DEF Nothing, Fail, Finished, Idle, RepairInv, RepairRuns
  <2>2. Plans
    BY <2>1 DEF RepairInv, RepairTypes, RepairRuns, RepairsAreWhole
  <2> QED BY <1>2, <1>3, <1>4, <2>2 DEF RepairInv, RepairTypes
<1> QED BY <1>6, <1>7, <1>8 DEF BarPasses, repairvars

\* The observer advances beside the repair.
LEMMA RepairBeside ==
  ASSUME RepairInv, ObserverAdvances
  PROVE  RepairInv'
<1>1. PICK d \in Advanced(Tables) : Write(d)
  BY DEF ObserverAdvances
<1>2. /\ reached' = present /\ reached < present /\ UNCHANGED <<traded, present, repair, verdict>>
      /\ RepairTypes /\ RepairRuns /\ ZeroIsProved /\ ValuesAreKept /\ RepairsAreWhole
  BY DEF ObserverAdvances, RepairInv
<1>3. /\ Begins \in Nat /\ Until \in Nat /\ present \in Begins .. Until /\ reached \in Begins .. present
      /\ once \subseteq Bars
  BY <1>2, WindowFacts, RepairAssumption DEF RepairTypes
<1>4. d \in CandleTables
  BY <1>2, AdvancedFacts
<1>5. /\ Tables' = d /\ once' = once \cup Kept(d.base)
      /\ base' = d.base /\ packed' = d.packed /\ recent5m' = d.recent
      /\ \A b \in Bars : b \in Recorded' <=> ~Unwritten(d, b)
  BY <1>1, <1>4, Written
<1>6. ASSUME NEW c \in Begins .. present, NEW missing, Whole(c, missing)
      PROVE  Whole(c, missing)'
  BY <1>1, <1>2, <1>5, <1>6, AdvancedKeepsWhole DEF Whole
<1>7. RepairsAreWhole'
  <2>1. repair.step = "fetch" => repair.cutoff \in Begins .. present
    BY <1>2 DEF RepairRuns
  <2>2. repair' = repair /\ verdict' = verdict /\ present' = present
    BY <1>2
  <2>3. repair.step = "fetch" => Whole(repair.cutoff, repair.missing)'
    <3>1. SUFFICES ASSUME repair.step = "fetch" PROVE Whole(repair.cutoff, repair.missing)'
      OBVIOUS
    <3>2. Whole(repair.cutoff, repair.missing)
      BY <1>2, <3>1 DEF RepairsAreWhole
    <3>3. Whole(repair'.cutoff, repair'.missing) = Whole(repair.cutoff, repair.missing)
      BY <2>2
    <3>4. PICK c \in Begins .. present, missing \in {repair.missing} : c = repair.cutoff /\ missing = repair.missing
      BY <2>1, <3>1
    <3>5. Whole(c, missing)'
      BY <1>6, <3>2, <3>4
    <3> QED BY <2>2, <3>4, <3>5
  <2>4. verdict.word = "COMPLETE" => verdict.cutoff \in Begins .. present /\ Whole(verdict.cutoff, {})'
    <3>1. SUFFICES ASSUME verdict.word = "COMPLETE"
                   PROVE  verdict.cutoff \in Begins .. present /\ Whole(verdict.cutoff, {})'
      OBVIOUS
    <3>2. Whole(verdict.cutoff, {}) /\ verdict.cutoff \in Begins .. present
      BY <1>2, <3>1 DEF RepairsAreWhole
    <3>4. PICK c \in Begins .. present : c = verdict.cutoff
      BY <3>2
    <3>5. Whole(c, {})'
      BY <1>6, <3>2, <3>4
    <3> QED BY <2>2, <3>2, <3>4, <3>5
  <2> QED BY <2>2, <2>3, <2>4 DEF RepairsAreWhole
<1>8. ValuesAreKept'
  <2> SUFFICES ASSUME NEW b \in once', b >= Oldest(reached') PROVE b \in Recorded'
    BY DEF ValuesAreKept
  <2>1. b \in Bars
    BY <1>3, <1>5 DEF Kept
  <2>2. CASE b \in Kept(d.base)
    BY <1>5, <2>1, <2>2 DEF Kept, Unwritten
  <2>3. CASE b \in once
    <3>1. Oldest(reached) \in Nat /\ Oldest(present) \in Nat /\ Oldest(reached) <= Oldest(present)
      <4>1. reached \in Nat /\ present \in Nat /\ Begins <= reached /\ reached <= present
        BY <1>3
      <4> QED BY <4>1, <1>3, WindowFacts
    <3>2. b \in Nat /\ b >= Oldest(present)
      BY <1>2, <2>1 DEF Bars
    <3>3. b \in Recorded
      BY <1>2, <2>3, <3>1, <3>2 DEF ValuesAreKept
    <3>4. ~Unwritten(d, b)
      BY <1>1, <1>2, <2>1, <3>2, <3>3, AdvancedFacts
    <3> QED BY <1>5, <2>1, <3>4
  <2> QED BY <1>5, <2>2, <2>3
<1>9. ZeroIsProved'
  <2> SUFFICES ASSUME NEW b \in Bars, "quiet" \in {base'[b], packed'[b], recent5m'[b]}
               PROVE  b \notin traded /\ \E o \in traded : o < b
    BY <1>2 DEF ZeroIsProved
  <2>1. "quiet" \in {base[b], packed[b], recent5m[b]}
    BY <1>1, <1>2, <1>5, AdvancedFacts
  <2> QED BY <1>2, <2>1 DEF ZeroIsProved
<1>10. RepairTypes'
  <2>1. Kept(d.base) \subseteq Bars
    BY DEF Kept
  <2> QED BY <1>2, <1>3, <1>4, <1>5, <2>1 DEF RepairTypes
<1>11. RepairRuns'
  BY <1>2 DEF RepairRuns
<1> QED BY <1>7, <1>8, <1>9, <1>10, <1>11 DEF RepairInv

\* The answer of a page.
LEMMA RepairPage ==
  ASSUME RepairInv, PageAnswer
  PROVE  RepairInv'
<1> DEFINE left == repair.missing \ Covered(Page)
           c == repair.cutoff
<1>1. /\ repair.step = "fetch" /\ Page # {} /\ reached' = present /\ UNCHANGED <<traded, present>>
      /\ \/ /\ left # {} /\ repair' = [repair EXCEPT !.missing = left, !.pages = @ + 1] /\ verdict' = verdict
         \/ Finished(left)
  BY DEF PageAnswer
<1>2. PICK d \in Advanced(Tables) : Write(PageApplied(d, Page))
  BY DEF PageAnswer
<1>3. RepairTypes /\ RepairRuns /\ ZeroIsProved /\ ValuesAreKept /\ RepairsAreWhole
  BY DEF RepairInv
<1>4. /\ Begins \in Nat /\ Until \in Nat /\ present \in Begins .. Until /\ reached \in Begins .. present
      /\ once \subseteq Bars /\ c \in Begins .. present /\ c \in Begins .. Until /\ c \in Nat
      /\ repair.missing \subseteq Bars /\ traded \subseteq Bars /\ repair.pages \in Nat
  <2>1. Begins \in Nat /\ Until \in Nat
    BY WindowFacts, RepairAssumption
  <2> QED BY <1>1, <1>3, <2>1 DEF RepairTypes, RepairRuns
<1>5. /\ Page \subseteq traded /\ Covered(Page) \subseteq repair.missing
      /\ \A b \in Covered(Page) \ Page : b \notin traded /\ \E o \in traded : o < b
  BY <1>1, <1>3, PageFacts
<1> DEFINE rows == Page
           covered == Covered(rows)
           e == PageApplied(d, rows)
<1>6. d \in CandleTables /\ rows \in SUBSET Bars
  BY <1>3, <1>4, <1>5, AdvancedFacts
<1>7. /\ e \in CandleTables
      /\ \A b \in Bars :
           /\ "quiet" \in {e.base[b], e.packed[b], e.recent[b]} =>
                "quiet" \in {d.base[b], d.packed[b], d.recent[b]} \/ b \in covered \ rows
           /\ b >= Oldest(c) /\ (b \in covered \/ ~Unwritten(d, b)) => ~Unwritten(e, b)
           /\ e.recent[b] = IF b \in covered /\ b >= c - DayBars
                              THEN IF b \in rows THEN "native" ELSE "quiet" ELSE d.recent[b]
  <2> HIDE DEF rows
  <2> QED BY <1>1, <1>3, <1>6, AppliedFacts
<1>8. Write(e)
  BY <1>2
<1> HIDE DEF e
<1>9. /\ Tables' = e /\ once' = once \cup Kept(e.base)
      /\ base' = e.base /\ packed' = e.packed /\ recent5m' = e.recent
      /\ \A b \in Bars : b \in Recorded' <=> ~Unwritten(e, b)
  BY <1>7, <1>8, Written
<1>10. /\ covered \subseteq repair.missing /\ left = repair.missing \ covered
       /\ \A b \in covered \ rows : b \notin traded /\ \E o \in traded : o < b
  BY <1>5
<1> HIDE DEF covered, rows
<1>11. /\ Oldest(reached) \in Nat /\ Oldest(present) \in Nat /\ Oldest(c) \in Nat
       /\ Oldest(reached) <= Oldest(present) /\ Oldest(c) <= Oldest(present)
  <2>1. /\ reached \in Nat /\ present \in Nat /\ Begins <= reached /\ reached <= present
        /\ c \in Nat /\ Begins <= c /\ c <= present
    BY <1>4
  <2> QED BY <2>1, <1>4, WindowFacts
<1>12. NoBar \notin {"native", "quiet", "live"} /\ DayBars \in Nat
  BY RepairAssumption
\* What the window owes but for the bars still missed.
<1>13. ASSUME NEW f \in Begins .. present, NEW m, Whole(f, m)
       PROVE  /\ \A b \in Span(f) \ m : b >= Oldest(present) => ~Unwritten(e, b)
              /\ \A b \in Detailed(f) \ m :
                   e.recent[b] # "live" /\ (b >= present - DayBars => e.recent[b] # NoBar)
  <2>1. WholeAt(d, present, f, m)
    BY <1>2, <1>3, <1>13, AdvancedKeepsWhole
  <2>2. Span(f) \subseteq Bars /\ Detailed(f) \subseteq Bars
    <3>1. f \in Begins .. Until
      BY <1>4
    <3> QED BY <3>1, WindowFacts
  <2>3. ASSUME NEW b \in Span(f) \ m, b >= Oldest(present) PROVE ~Unwritten(e, b)
    <3>1. b \in Bars /\ b \in Nat /\ b >= Oldest(c)
      BY <1>11, <2>2, <2>3 DEF Bars
    <3>2. ~Unwritten(d, b)
      BY <2>1, <2>3 DEF WholeAt
    <3> QED BY <1>7, <3>1, <3>2
  <2>4. ASSUME NEW b \in Detailed(f) \ m
        PROVE  e.recent[b] # "live" /\ (b >= present - DayBars => e.recent[b] # NoBar)
    <3>1. d.recent[b] # "live" /\ (b >= present - DayBars => d.recent[b] # NoBar)
      BY <2>1 DEF WholeAt
    <3> QED BY <1>7, <1>12, <2>2, <3>1
  <2> QED BY <2>3, <2>4
<1>14. WholeAt(e, present, c, left)
  <2>1. Whole(c, repair.missing)
    BY <1>1, <1>3 DEF RepairsAreWhole
  <2>2. /\ \A b \in Span(c) \ repair.missing : b >= Oldest(present) => ~Unwritten(e, b)
        /\ \A b \in Detailed(c) \ repair.missing :
             e.recent[b] # "live" /\ (b >= present - DayBars => e.recent[b] # NoBar)
    BY <1>4, <1>13, <2>1
  <2>3. ASSUME NEW b \in covered, b >= Oldest(present) PROVE ~Unwritten(e, b)
    <3>1. b \in Bars /\ b \in Nat /\ b >= Oldest(c)
      BY <1>4, <1>10, <1>11, <2>3 DEF Bars
    <3> QED BY <1>7, <2>3, <3>1
  <2>4. ASSUME NEW b \in covered, b \in Detailed(c) PROVE e.recent[b] # "live" /\ e.recent[b] # NoBar
    <3>1. b \in Bars /\ b >= c - DayBars
      BY <1>4, <1>10, <1>12, <2>4 DEF Detailed
    <3> QED BY <1>7, <1>12, <2>4, <3>1
  <2> QED BY <1>10, <2>2, <2>3, <2>4 DEF WholeAt
<1>15. RepairsAreWhole' <=>
         /\ repair'.step = "fetch" => WholeAt(e, present, repair'.cutoff, repair'.missing)
         /\ verdict'.word = "COMPLETE" =>
              verdict'.cutoff \in Begins .. present /\ WholeAt(e, present, verdict'.cutoff, {})
  BY <1>1, <1>9 DEF Whole, RepairsAreWhole
<1>16. ValuesAreKept'
  <2> SUFFICES ASSUME NEW b \in once', b >= Oldest(reached') PROVE b \in Recorded'
    BY DEF ValuesAreKept
  <2>1. b \in Bars /\ b \in Nat /\ b >= Oldest(present)
    BY <1>1, <1>4, <1>9 DEF Kept, Bars
  <2>2. CASE b \in Kept(e.base)
    BY <1>9, <2>1, <2>2 DEF Kept, Unwritten
  <2>3. CASE b \in once
    <3>1. b \in Recorded
      BY <1>3, <1>11, <2>1, <2>3 DEF ValuesAreKept
    <3>2. ~Unwritten(d, b)
      BY <1>2, <1>3, <2>1, <3>1, AdvancedFacts
    <3>3. b >= Oldest(c)
      BY <1>11, <2>1
    <3> QED BY <1>7, <1>9, <2>1, <3>2, <3>3
  <2> QED BY <1>9, <2>2, <2>3
<1>17. ZeroIsProved'
  <2> SUFFICES ASSUME NEW b \in Bars, "quiet" \in {e.base[b], e.packed[b], e.recent[b]}
               PROVE  b \notin traded /\ \E o \in traded : o < b
    BY <1>1, <1>9 DEF ZeroIsProved
  <2>1. CASE b \in covered \ rows
    BY <1>10, <2>1
  <2>2. CASE "quiet" \in {d.base[b], d.packed[b], d.recent[b]}
    <3>1. "quiet" \in {base[b], packed[b], recent5m[b]}
      BY <1>2, <1>3, <2>2, AdvancedFacts
    <3> QED BY <1>3, <3>1 DEF ZeroIsProved
  <2> QED BY <1>7, <2>1, <2>2
<1>18. CASE /\ left # {} /\ repair' = [repair EXCEPT !.missing = left, !.pages = @ + 1] /\ verdict' = verdict
  <2>1. /\ repair' \in [step : {"idle", "fetch"}, cutoff : Nat, missing : SUBSET Bars, pages : Nat]
        /\ repair'.step = "fetch" /\ repair'.cutoff = c /\ repair'.missing = left /\ left # {}
    <3>1. left \subseteq Bars
      BY <1>4
    <3>2. repair \in [step : {"idle", "fetch"}, cutoff : Nat, missing : SUBSET Bars, pages : Nat]
      BY <1>3 DEF RepairTypes
    <3>3. repair.step = "fetch" /\ repair.pages + 1 \in Nat
      BY <1>1, <3>2
    <3> HIDE DEF left
    <3>4. repair' = [step |-> repair.step, cutoff |-> repair.cutoff, missing |-> left,
                     pages |-> repair.pages + 1]
      BY <1>18, <3>2
    <3>5. repair.cutoff \in Nat /\ left # {}
      BY <1>18, <3>2
    <3> QED BY <3>1, <3>3, <3>4, <3>5
  <2>2. verdict.word = "REPAIRING" /\ verdict' = verdict /\ verdict.cutoff \in Nat /\ left \subseteq Span(c)
    BY <1>1, <1>3, <1>18 DEF RepairRuns, RepairTypes
  <2>3. RepairRuns'
    BY <1>1, <1>4, <2>1, <2>2 DEF RepairRuns
  <2>4. RepairsAreWhole'
    <3> HIDE DEF left, c
    <3> QED BY <1>14, <1>15, <2>1, <2>2
  <2>5. RepairTypes'
    BY <1>1, <1>4, <1>7, <1>9, <2>1, <2>2 DEF RepairTypes, Kept
  <2> QED BY <1>16, <1>17, <2>3, <2>4, <2>5 DEF RepairInv
<1>19. CASE Finished(left)
  <2>1. /\ repair' = [step |-> "idle", cutoff |-> 0, missing |-> {}, pages |-> 0]
        /\ verdict'.word = (IF left = {} THEN "COMPLETE" ELSE "INCOMPLETE_HISTORY") /\ verdict'.cutoff = c
    BY <1>19 DEF Finished, Idle
  <2>2. RepairRuns'
    BY <2>1 DEF RepairRuns
  <2>3. RepairsAreWhole'
    <3> HIDE DEF left, c
    <3> QED BY <1>4, <1>14, <1>15, <2>1
  <2>4. RepairTypes'
    BY <1>1, <1>4, <1>7, <1>9, <2>1 DEF RepairTypes, Kept
  <2> QED BY <1>16, <1>17, <2>2, <2>3, <2>4 DEF RepairInv
<1> QED BY <1>1, <1>18, <1>19

\* Every step of the observer and of the repair keeps the invariant.
LEMMA NextRepairInv == RepairInv /\ [RepairNext]_repairvars => RepairInv'
BY RepairPlans, RepairBeside, RepairPage DEF RepairNext

\* Every state of the history of a market satisfies the invariant.
THEOREM RepairInvInvariant == RepairSpec => []RepairInv
<1>1. RepairInv /\ [RepairNext]_repairvars => RepairInv'
  BY NextRepairInv
<1> QED BY <1>1, InitRepairInv, PTL DEF RepairSpec

\* For any window, pages and bounds of a market: a zero stands only where it
\* really had no trades, nothing that a decision may refer to is lost, and what
\* a repair calls complete has no hole (magi1/fast_bootstrap.py:123 and :132).
THEOREM HistoryReal == RepairSpec => []HistoryIsReal
<1>1. RepairInv => HistoryIsReal
  <2> SUFFICES ASSUME RepairInv PROVE ReferencesAreKept
    BY DEF RepairInv, HistoryIsReal
  <2>1. ValuesAreKept /\ RepairsAreWhole /\ RepairTypes
    BY DEF RepairInv
  <2>2. ASSUME verdict.word = "COMPLETE"
        PROVE  /\ \A b \in Span(verdict.cutoff) : b >= Oldest(reached) => b \in Recorded
               /\ \A b \in Detailed(verdict.cutoff) : recent5m[b] # "live"
    <3>1. Whole(verdict.cutoff, {}) /\ verdict.cutoff \in Begins .. Until
      <4>1. Begins \in Nat /\ Until \in Nat
        BY WindowFacts, RepairAssumption
      <4> QED BY <2>1, <2>2, <4>1 DEF RepairsAreWhole, RepairTypes
    <3>2. Span(verdict.cutoff) \subseteq Bars
      BY <3>1, WindowFacts
    <3>3. \A b \in Bars : b \in Recorded <=> ~Unwritten(Tables, b)
      BY DEF Tables, Unwritten, Recorded, Kept
    <3>4. Tables.recent = recent5m
      BY DEF Tables
    <3> QED BY <3>1, <3>2, <3>3, <3>4 DEF Whole, WholeAt
  <2> QED BY <2>1, <2>2 DEF ReferencesAreKept, ValuesAreKept
<1> QED BY <1>1, RepairInvInvariant, PTL

-----------------------------------------------------------------------------
(* The candles of the accounts that trade on closed bars                   *)

ClosedBar(t) == Bar(t - 1) - FIVE

WatchTypes ==
  /\ kind \in Kinds /\ time \in Nat /\ polled \in Nat /\ polled <= time
  /\ processed \in Int /\ brokeAt \in Nat /\ lastExit \in Nat
  /\ live \subseteq Int /\ loaded \in BOOLEAN /\ needs \in BOOLEAN
  /\ activeSince \in Int \cup {NoCandle} /\ watch \in Int \cup {NoCandle}
  /\ loaded => ready \in Int

\* Only bars that began after the candles broke are built, and an armed watch
\* is such a bar, after the last exit too.
WholeSinceBreak ==
  /\ activeSince # NoCandle => activeSince >= brokeAt /\ \A b \in live : b >= activeSince
  /\ watch # NoCandle => watch >= brokeAt /\ (kind = "BOLLINGER" => watch >= lastExit)

\* No poll passes over the end of a bar that is being observed.
PollsAreTimely ==
  /\ processed + FIVE < time /\ time >= FIVE
  /\ activeSince # NoCandle => processed >= ClosedBar(polled) \/ ClosedBar(polled) < activeSince

\* History belongs to a feed, and a request under way is still needed.
HistoryIsAsked ==
  /\ loaded \/ needs => activeSince # NoCandle
  /\ fetch # NoCandle => needs

WatchInv ==
  /\ WatchTypes /\ WholeSinceBreak /\ PollsAreTimely /\ HistoryIsAsked
  /\ SignalsRestOnWholeBars /\ HolesAreAsked

\* The bar of a moment, the next one to begin, the last one to have ended.
LEMMA BarFacts ==
  /\ FIVE = 3
  /\ \A t \in Int : /\ Bar(t) \in Int /\ Bar(t) <= t /\ t < Bar(t) + 3
                    /\ NextBar(t) \in Int /\ NextBar(t) >= t
                    /\ ClosedBar(t) \in Int /\ ClosedBar(t) + 3 < t
<1>1. FIVE = 3
  BY DEF FIVE
<1>2. \A t \in Int : Bar(t) \in Int /\ Bar(t) <= t /\ t < Bar(t) + 3
  <2> TAKE t \in Int
  <2>1. Bar(t) = (t \div 3) * 3
    BY DEF Bar, FIVE
  <2> QED BY <2>1
<1>3. \A t \in Int : NextBar(t) \in Int /\ NextBar(t) >= t
  <2> TAKE t \in Int
  <2>1. NextBar(t) = Bar(t + 2) /\ t + 2 \in Int
    BY <1>1 DEF NextBar
  <2> QED BY <1>2, <2>1
<1>4. \A t \in Int : ClosedBar(t) \in Int /\ ClosedBar(t) + 3 < t
  <2> TAKE t \in Int
  <2>1. ClosedBar(t) = Bar(t - 1) - 3 /\ t - 1 \in Int
    BY <1>1 DEF ClosedBar
  <2> QED BY <1>2, <2>1
<1> QED BY <1>1, <1>2, <1>3, <1>4

\* The candles of a new account.
LEMMA InitWatchInv == WatchInit => WatchInv
<1> SUFFICES ASSUME WatchInit PROVE WatchInv
  OBVIOUS
<1>1. HISTORY \in Nat /\ HISTORY > 0 /\ time = 3 * HISTORY /\ time \in Nat /\ time >= 3 /\ polled = time
  BY WatchAssumption, BarFacts DEF WatchInit
<1>2. WatchTypes
  <2>1. /\ kind \in Kinds /\ processed = -1 /\ brokeAt = time /\ lastExit = 0 /\ live = {}
        /\ activeSince = NoCandle /\ watch = NoCandle
    BY DEF WatchInit
  <2>2. ~loaded /\ loaded \in BOOLEAN /\ needs \in BOOLEAN
    BY DEF WatchInit
  <2>3. processed \in Int /\ brokeAt \in Nat /\ lastExit \in Nat /\ polled \in Nat /\ polled <= time
    BY <1>1, <2>1
  <2> QED BY <1>1, <2>1, <2>2, <2>3 DEF WatchTypes
<1>3. PollsAreTimely
  BY <1>1, BarFacts DEF WatchInit, PollsAreTimely
<1> QED BY <1>2, <1>3
    DEF WatchInit, WatchInv, WholeSinceBreak, HistoryIsAsked, SignalsRestOnWholeBars, HolesAreAsked

\* A break, of the feed or of the process, leaves nothing to signal from.
LEMMA WatchBreaks ==
  ASSUME WatchInv, CandlesConnected \/ Break \/ ProcessRestarts
  PROVE  WatchInv'
<1>1. WatchTypes /\ PollsAreTimely /\ HistoryIsAsked
  BY DEF WatchInv
<1>2. /\ UNCHANGED <<kind, time, lastExit>> /\ live' = {} /\ loaded' = FALSE /\ watch' = NoCandle
      /\ brokeAt' = time /\ signalled' = NoCandle
      /\ \/ activeSince' = NextBar(time) /\ needs' = TRUE /\ UNCHANGED <<polled, processed>>
         \/ activeSince' = NoCandle /\ needs' = FALSE /\ fetch' = NoCandle /\ processed' = -1 /\ polled' = time
  BY DEF CandlesConnected, Break, ProcessRestarts, Invalidated, AccountGap, account
<1>3. NextBar(time) \in Int /\ NextBar(time) >= time /\ time \in Nat /\ polled \in Nat /\ polled <= time
      /\ ClosedBar(polled) \in Int /\ ClosedBar(polled) + 3 < polled
      /\ FIVE = 3 /\ processed \in Int /\ processed + 3 < time
  BY <1>1, BarFacts DEF WatchTypes, PollsAreTimely
<1>4. WatchTypes'
  <2>1. ~loaded' /\ loaded' \in BOOLEAN /\ needs' \in BOOLEAN
    BY <1>2
  <2>2. /\ processed' \in Int /\ brokeAt' \in Nat /\ polled' \in Nat /\ polled' <= time'
        /\ activeSince' \in Int \cup {NoCandle} /\ time' = time
    BY <1>2, <1>3
  <2> QED BY <1>1, <1>2, <2>1, <2>2 DEF WatchTypes
<1>5. WholeSinceBreak'
  BY <1>2, <1>3 DEF WholeSinceBreak
<1>6. PollsAreTimely'
  <2>1. ASSUME activeSince' # NoCandle PROVE ClosedBar(polled)' < activeSince'
    BY <1>2, <1>3, <2>1
  <2>2. processed' + 3 < time' /\ time' >= 3
    BY <1>1, <1>2, <1>3 DEF PollsAreTimely
  <2> QED BY <1>3, <2>1, <2>2 DEF PollsAreTimely
<1>7. HistoryIsAsked'
  BY <1>2, <1>3, WatchAssumption DEF HistoryIsAsked
<1> QED BY <1>2, <1>4, <1>5, <1>6, <1>7 DEF WatchInv, SignalsRestOnWholeBars, HolesAreAsked

\* Time passes, a trade is built into its bar, the account buys or sells, a
\* request is sent or dropped: no bar is closed.
LEMMA WatchBetween ==
  ASSUME WatchInv,
         \/ Pass \/ CandleTrade \/ Ask \/ AnswerDropped \/ BuyOrDrop \/ Protect \/ Sell \/ Regime
         \/ UNCHANGED watchvars
  PROVE  WatchInv'
<1>1. /\ WatchTypes /\ PollsAreTimely /\ HistoryIsAsked /\ WholeSinceBreak /\ SignalsRestOnWholeBars
      /\ HolesAreAsked
  BY DEF WatchInv
<1>2. /\ UNCHANGED <<kind, polled, storedBars, noTrade, activeSince, ready, loaded, needs, processed, brokeAt>>
      /\ time' \in {time, time + 1}
      /\ live' = live \/ CandleTrade
      /\ (watch' = watch /\ lastExit' = lastExit) \/ (watch' = NoCandle /\ lastExit' = time)
      /\ fetch' = fetch \/ fetch' = NoCandle \/ needs
  BY DEF Pass, CandleTrade, Ask, AnswerDropped, BuyOrDrop, Protect, Sell, Regime, Still, watchvars,
         candleFeed, account
<1>3. \/ signalled' = NoCandle
      \/ UNCHANGED watchvars
  BY DEF Pass, CandleTrade, Ask, AnswerDropped, BuyOrDrop, Protect, Sell, Regime
<1>4. time \in Nat /\ time' \in Nat /\ time <= time' /\ FIVE = 3
  BY <1>1, <1>2, BarFacts DEF WatchTypes
<1>5. live' \subseteq Int /\ (activeSince # NoCandle => \A b \in live' : b >= activeSince)
  <2>1. CASE live' = live
    BY <1>1, <2>1 DEF WatchTypes, WholeSinceBreak
  <2>2. CASE CandleTrade
    <3>1. PICK stamp \in {time - 1, time} : Bar(stamp) >= activeSince /\ live' = live \cup {Bar(stamp)}
      BY <2>2 DEF CandleTrade
    <3>2. Bar(stamp) \in Int
      BY <1>4, BarFacts
    <3> QED BY <1>1, <3>1, <3>2 DEF WatchTypes, WholeSinceBreak
  <2> QED BY <1>2, <2>1, <2>2
<1>6. WatchTypes'
  BY <1>1, <1>2, <1>4, <1>5 DEF WatchTypes
<1>7. WholeSinceBreak'
  BY <1>1, <1>2, <1>5 DEF WholeSinceBreak
<1>8. PollsAreTimely'
  <2>1. processed' = processed /\ processed \in Int /\ activeSince' = activeSince /\ polled' = polled
    BY <1>1, <1>2 DEF WatchTypes
  <2> QED BY <1>1, <1>4, <2>1 DEF PollsAreTimely
<1>9. HistoryIsAsked'
  BY <1>1, <1>2 DEF HistoryIsAsked
<1>10. SignalsRestOnWholeBars'
  BY <1>1, <1>3 DEF SignalsRestOnWholeBars, watchvars, candleFeed, account
<1>11. HolesAreAsked'
  BY <1>1, <1>2 DEF HolesAreAsked, HistoryIsAsked
<1> QED BY <1>6, <1>7, <1>8, <1>9, <1>10, <1>11 DEF WatchInv

\* The history of a request arrives after every bar closed so far.
LEMMA WatchAnswers ==
  ASSUME WatchInv, HistoryAnswer
  PROVE  WatchInv'
<1>1. WatchTypes /\ PollsAreTimely /\ HistoryIsAsked /\ WholeSinceBreak
  BY DEF WatchInv
<1>2. /\ UNCHANGED <<kind, time, polled, live, activeSince, processed, lastExit, brokeAt>>
      /\ needs' \in BOOLEAN /\ loaded' = TRUE /\ watch' = NoCandle /\ ready' = time
      /\ fetch' = NoCandle /\ signalled' = NoCandle /\ fetch # NoCandle
  BY DEF HistoryAnswer, SameGeneration, account
<1>3. WatchTypes' /\ WholeSinceBreak'
  BY <1>1, <1>2 DEF WatchTypes, WholeSinceBreak
<1>4. PollsAreTimely'
  BY <1>1, <1>2 DEF PollsAreTimely
<1>5. HistoryIsAsked'
  BY <1>1, <1>2 DEF HistoryIsAsked
<1>6. HolesAreAsked'
  <2>1. ~(ready' < processed' + FIVE)
    BY <1>1, <1>2, BarFacts DEF WatchTypes, PollsAreTimely
  <2> QED BY <2>1 DEF HolesAreAsked
<1> QED BY <1>2, <1>3, <1>4, <1>5, <1>6 DEF WatchInv, SignalsRestOnWholeBars

\* A poll that misses a stall, or has no bar to close.
LEMMA WatchIdlePolls ==
  ASSUME WatchInv, Poll,
         (time - polled > 1 /\ activeSince # NoCandle) \/ DueBar <= processed \/ activeSince = NoCandle
  PROVE  WatchInv'
<1>1. /\ WatchTypes /\ PollsAreTimely /\ HistoryIsAsked /\ WholeSinceBreak /\ HolesAreAsked
  BY DEF WatchInv
<1>2. /\ polled' = time /\ UNCHANGED <<kind, time, noTrade, fetch>> /\ signalled' = NoCandle
      /\ lastExit' = lastExit
      /\ \/ Invalidated /\ processed' = IF DueBar > processed THEN DueBar ELSE processed
         \/ /\ DueBar <= processed \/ activeSince = NoCandle
            /\ UNCHANGED <<storedBars, candleFeed, processed, brokeAt>>
  BY DEF Poll, AccountGap, account
<1>3. DueBar = ClosedBar(time)
  BY DEF DueBar, ClosedBar
<1>4. /\ time \in Nat /\ DueBar \in Int /\ DueBar + 3 < time /\ processed \in Int /\ FIVE = 3
      /\ NextBar(time) \in Int /\ NextBar(time) >= time
  BY <1>1, <1>3, BarFacts DEF WatchTypes
<1>5. CASE Invalidated /\ processed' = IF DueBar > processed THEN DueBar ELSE processed
  <2>1. /\ live' = {} /\ activeSince' = NextBar(time) /\ loaded' = FALSE /\ needs' = TRUE
        /\ watch' = NoCandle /\ brokeAt' = time
    BY <1>5 DEF Invalidated
  <2>2. processed' \in Int /\ processed' + 3 < time
    BY <1>1, <1>4, <1>5 DEF PollsAreTimely
  <2>3. WatchTypes'
    <3>1. ~loaded' /\ loaded' \in BOOLEAN /\ needs' \in BOOLEAN
      BY <2>1
    <3>2. /\ brokeAt' \in Nat /\ polled' \in Nat /\ polled' <= time'
          /\ activeSince' \in Int \cup {NoCandle} /\ time' = time
      BY <1>2, <1>4, <2>1
    <3> QED BY <1>1, <1>2, <2>1, <2>2, <3>1, <3>2 DEF WatchTypes
  <2>4. WholeSinceBreak'
    BY <1>4, <2>1 DEF WholeSinceBreak
  <2>5. PollsAreTimely'
    <3>1. ClosedBar(polled)' = DueBar
      BY <1>2, <1>3 DEF ClosedBar, Bar
    <3>2. time' = time /\ time >= 3
      BY <1>1, <1>2, <1>4 DEF PollsAreTimely
    <3>3. ClosedBar(polled)' < activeSince'
      BY <1>4, <2>1, <3>1
    <3> QED BY <1>4, <2>2, <3>2, <3>3 DEF PollsAreTimely
  <2>6. HistoryIsAsked'
    BY <1>4, <2>1, WatchAssumption DEF HistoryIsAsked
  <2> QED BY <1>2, <2>1, <2>3, <2>4, <2>5, <2>6 DEF WatchInv, SignalsRestOnWholeBars, HolesAreAsked
<1>6. CASE /\ DueBar <= processed \/ activeSince = NoCandle
           /\ UNCHANGED <<storedBars, candleFeed, processed, brokeAt>>
  <2>1. UNCHANGED <<storedBars, live, activeSince, ready, loaded, needs, watch, processed, brokeAt>>
    BY <1>6 DEF candleFeed
  <2>2. WatchTypes'
    <3>1. polled' \in Nat /\ polled' <= time' /\ time' = time
      BY <1>2, <1>4
    <3> QED BY <1>1, <1>2, <2>1, <3>1 DEF WatchTypes
  <2>3. PollsAreTimely'
    <3>1. ClosedBar(polled)' = DueBar
      BY <1>2, <1>3 DEF ClosedBar, Bar
    <3> QED BY <1>1, <1>2, <1>4, <1>6, <2>1, <3>1 DEF PollsAreTimely
  <2>4. WholeSinceBreak' /\ HistoryIsAsked' /\ HolesAreAsked'
    BY <1>1, <1>2, <2>1 DEF WholeSinceBreak, HistoryIsAsked, HolesAreAsked
  <2> QED BY <1>2, <2>2, <2>3, <2>4 DEF WatchInv, SignalsRestOnWholeBars
<1> QED BY <1>2, <1>5, <1>6

\* A poll that closes a bar.
LEMMA WatchCloses ==
  ASSUME WatchInv, Poll, ~(time - polled > 1), ~(DueBar <= processed), activeSince # NoCandle
  PROVE  WatchInv'
<1>1. /\ WatchTypes /\ PollsAreTimely /\ HistoryIsAsked /\ WholeSinceBreak /\ HolesAreAsked
  BY DEF WatchInv
<1>2. /\ polled < time /\ polled' = time
      /\ UNCHANGED <<kind, time, noTrade, fetch, activeSince, ready, loaded, lastExit, brokeAt>>
      /\ processed' = DueBar /\ live' = {b \in live : b > DueBar}
      /\ IF DueBar \in live
               THEN /\ storedBars' = Retained(storedBars \cup {DueBar})
                    /\ IF ~loaded \/ ready >= DueBar + FIVE \/ time - (DueBar + FIVE) > 1
                         THEN signalled' = NoCandle /\ UNCHANGED <<watch, order, leaving, needs>>
                       ELSE IF Complete(storedBars', DueBar) THEN Assessed(DueBar)
                       ELSE Incomplete(storedBars', noTrade, DueBar)
             ELSE IF DueBar >= activeSince
               THEN UNCHANGED storedBars /\ Incomplete(storedBars, noTrade, DueBar)
             ELSE signalled' = NoCandle /\ UNCHANGED <<storedBars, watch, order, leaving, needs>>
  BY DEF Poll
<1>3. DueBar = ClosedBar(time)
  BY DEF DueBar, ClosedBar
<1>4. /\ time \in Nat /\ polled = time - 1 /\ DueBar \in Int /\ DueBar + 3 < time /\ processed \in Int
      /\ FIVE = 3 /\ activeSince \in Int /\ DueBar > processed
      /\ brokeAt \in Nat /\ lastExit \in Nat /\ live \subseteq Int /\ activeSince >= brokeAt
  <2>1. time \in Nat /\ polled \in Nat /\ activeSince \in Int /\ processed \in Int
    BY <1>1 DEF WatchTypes
  <2>2. DueBar \in Int /\ DueBar + 3 < time /\ FIVE = 3
    BY <1>3, <2>1, BarFacts
  <2> QED BY <1>1, <1>2, <2>1, <2>2 DEF WatchTypes, WholeSinceBreak
\* The bar ended in time, or was not observed from its start.
<1>5. ASSUME DueBar >= activeSince PROVE time - (DueBar + FIVE) = 1 \/ ~(DueBar \in live)
  <2>1. processed >= ClosedBar(time - 1) \/ ClosedBar(time - 1) < activeSince
    BY <1>1, <1>4 DEF PollsAreTimely
  <2>2. ClosedBar(time - 1) < DueBar /\ ClosedBar(time - 1) \in Int
    BY <1>4, <1>5, <2>1, BarFacts
  <2>3. DueBar = ((time - 1) \div 3) * 3 - 3 /\ ClosedBar(time - 1) = ((time - 2) \div 3) * 3 - 3
    <3>1. /\ ClosedBar(time) = ((time - 1) \div 3) * 3 - 3
          /\ ClosedBar(time - 1) = ((time - 1 - 1) \div 3) * 3 - 3
      BY DEF ClosedBar, Bar, FIVE
    <3>2. time - 1 - 1 = time - 2
      BY <1>4
    <3> QED BY <1>3, <3>1, <3>2
  <2> QED BY <1>4, <2>2, <2>3
<1>6. /\ watch' \in Int \cup {NoCandle}
      /\ watch' # NoCandle => watch' >= brokeAt /\ (kind = "BOLLINGER" => watch' >= lastExit)
  <2> DEFINE Armed(w) == /\ w \in Int \cup {NoCandle}
                         /\ w # NoCandle => w >= brokeAt /\ (kind = "BOLLINGER" => w >= lastExit)
  <2>1. Armed(watch) /\ Armed(NoCandle)
    BY <1>1 DEF WatchTypes, WholeSinceBreak
  <2>2. CASE DueBar \in live /\ Assessed(DueBar)
    <3>1. DueBar >= brokeAt
      BY <1>1, <1>4, <2>2 DEF WholeSinceBreak
    <3>2. PICK f \in Indicators : watch' \in {watch, NoCandle, Rearmed(DueBar, f)}
      BY <2>2 DEF Assessed
    <3>3. Armed(Rearmed(DueBar, f))
      <4>1. CASE kind = "BEAR"
        BY <1>4, <2>1, <3>1, <4>1 DEF Rearmed
      <4>2. CASE kind # "BEAR"
        <5>1. \/ Rearmed(DueBar, f) = watch \/ Rearmed(DueBar, f) = NoCandle
              \/ Rearmed(DueBar, f) = DueBar /\ DueBar >= lastExit
          BY <4>2 DEF Rearmed
        <5> QED BY <1>4, <2>1, <3>1, <5>1
      <4> QED BY <4>1, <4>2
    <3> HIDE DEF Armed
    <3>4. Armed(watch')
      BY <2>1, <3>2, <3>3
    <3> QED BY <3>4 DEF Armed
  <2>3. CASE ~(DueBar \in live /\ Assessed(DueBar))
    <3>1. watch' = watch \/ watch' = NoCandle
      BY <1>2, <2>3 DEF Incomplete
    <3> QED BY <2>1, <3>1
  <2> QED BY <2>2, <2>3
<1>7. needs' \in BOOLEAN /\ (needs => needs')
  BY <1>1, <1>2 DEF Assessed, Incomplete, WatchTypes
<1>8. WatchTypes'
  <2>1. /\ polled' \in Nat /\ polled' <= time' /\ time' = time /\ processed' \in Int /\ live' \subseteq Int
    <3>1. live' \subseteq live
      BY <1>2
    <3>2. polled' = time /\ time' = time /\ processed' = DueBar
      BY <1>2
    <3> QED BY <1>4, <3>1, <3>2
  <2>2. /\ UNCHANGED <<kind, activeSince, ready, loaded, lastExit, brokeAt>> /\ needs' \in BOOLEAN
        /\ watch' \in Int \cup {NoCandle}
    BY <1>2, <1>6, <1>7
  <2> QED BY <1>1, <2>1, <2>2 DEF WatchTypes
<1>9. WholeSinceBreak'
  BY <1>1, <1>2, <1>6 DEF WholeSinceBreak
<1>10. PollsAreTimely'
  <2>1. ClosedBar(polled)' = DueBar
    BY <1>2, <1>3 DEF ClosedBar, Bar
  <2> QED BY <1>1, <1>2, <1>4, <2>1 DEF PollsAreTimely
<1>11. HistoryIsAsked'
  <2>1. activeSince' # NoCandle
    BY <1>2
  <2> QED BY <1>1, <1>2, <1>7, <2>1 DEF HistoryIsAsked
<1>12. SignalsRestOnWholeBars'
  <2> SUFFICES ASSUME signalled' # NoCandle PROVE SignalsRestOnWholeBars'
    BY DEF SignalsRestOnWholeBars
  <2>1. DueBar \in live /\ Complete(storedBars', DueBar) /\ Assessed(DueBar) /\ ~(time - (DueBar + FIVE) > 1)
    BY <1>2 DEF Incomplete
  <2>2. Watching(DueBar) /\ signalled' = [bar |-> DueBar, armed |-> watch, at |-> time]
    BY <2>1 DEF Assessed
  <2>3. watch # NoCandle /\ watch \in Int /\ watch >= brokeAt /\ (kind = "BOLLINGER" => watch >= lastExit)
    BY <1>1, <2>2 DEF Watching, WatchTypes, WholeSinceBreak
  <2>4. watch < DueBar /\ (kind = "BEAR" => DueBar = watch + FIVE)
    <3>1. CASE kind = "BEAR"
      BY <1>4, <2>2, <2>3, <3>1 DEF Watching
    <3>2. CASE kind # "BEAR"
      <4>1. DueBar - watch \in 1 .. WatchBars * FIVE
        BY <2>2, <3>2 DEF Watching
      <4>2. DueBar - watch >= 1
        BY <4>1
      <4> QED BY <1>4, <2>3, <3>2, <4>2
    <3> QED BY <3>1, <3>2
  <2>5. time - (DueBar + FIVE) \in 0 .. 1
    BY <1>4, <2>1
  <2> QED BY <1>2, <2>1, <2>2, <2>3, <2>4, <2>5 DEF SignalsRestOnWholeBars
<1>13. HolesAreAsked'
  <2> SUFFICES ASSUME loaded, ~needs', DueBar >= activeSince, ready < DueBar + FIVE
               PROVE  Missing(storedBars', DueBar) \subseteq noTrade
    BY <1>2 DEF HolesAreAsked
  <2>1. CASE DueBar \in live
    <3>1. time - (DueBar + FIVE) = 1 /\ ~(ready >= DueBar + FIVE)
      <4>1. ready \in Int
        BY <1>1 DEF WatchTypes
      <4> QED BY <1>4, <1>5, <2>1, <4>1
    <3>2. ~(time - (DueBar + FIVE) > 1)
      BY <3>1
    <3>3. Complete(storedBars', DueBar) \/ Incomplete(storedBars', noTrade, DueBar)
      BY <1>2, <2>1, <3>1, <3>2
    <3> QED BY <3>3 DEF Complete, Incomplete, AllEmpty, Missing
  <2>2. CASE ~(DueBar \in live)
    BY <1>2, <2>2 DEF Incomplete, AllEmpty
  <2> QED BY <2>1, <2>2
<1> QED BY <1>8, <1>9, <1>10, <1>11, <1>12, <1>13 DEF WatchInv

\* Every step of the candles keeps the invariant.
LEMMA NextWatchInv == WatchInv /\ [WatchNext]_watchvars => WatchInv'
<1>1. ASSUME WatchInv, Poll PROVE WatchInv'
  BY <1>1, WatchIdlePolls, WatchCloses
<1> QED BY <1>1, WatchBreaks, WatchBetween, WatchAnswers DEF WatchNext

\* Every state of the candles of an account satisfies the invariant.
THEOREM WatchInvInvariant == WatchSpec => []WatchInv
<1>1. WatchInv /\ [WatchNext]_watchvars => WatchInv'
  BY NextWatchInv
<1> QED BY <1>1, InitWatchInv, PTL DEF WatchSpec

\* For any history, watch and number of breaks: a signal rests on bars that
\* were observed whole since the last break, on a complete window and at once,
\* and a bar that is missing is known to be empty or asked for
\* (magi1/bollinger_paper.py:162, :203, :235, :265 and :332).
THEOREM SignalsWhole == WatchSpec => []SignalsAreWhole
<1>1. WatchInv => SignalsAreWhole
  BY DEF WatchInv, SignalsAreWhole
<1> QED BY <1>1, WatchInvInvariant, PTL
=============================================================================
