------------------------------- MODULE MCStores -------------------------------
(* The two stores that keep something across any number of deaths: the files *)
(* of a portfolio replacement, with three snapshots, four versions and three *)
(* deaths, and the archive of the collector, with two busy hours and one     *)
(* fault.  They share nothing; one of them, chosen at the start, moves.      *)
EXTENDS RebuildJournal, Archive

VARIABLE which

StoresInit == which \in {"rebuild", "archive"} /\ Init /\ AInit

Rebuild(step) == which = "rebuild" /\ step /\ UNCHANGED <<which, avars>>
Archived(step) == which = "archive" /\ step /\ UNCHANGED <<which, vars>>

StoresNext == Rebuild(Next) \/ Archived(ANext)

\* Each with the fairness of its own module.
StoresSpec ==
  /\ StoresInit /\ [][StoresNext]_<<which, vars, avars>>
  /\ WF_<<which, vars, avars>>(Rebuild(BeginSome))
  /\ WF_<<which, vars, avars>>(Rebuild(Step))
  /\ WF_<<which, vars, avars>>(Archived(Cycle))
  /\ WF_<<which, vars, avars>>(Archived(Tick))

-----------------------------------------------------------------------------
\* A pending journal is completed by some later run, and a closed file leaves
\* the disk unless lines were written late (RebuildJournal: JournalIsCompleted,
\* Archive: FilesLeave).
StoresAreCleared == JournalIsCompleted /\ FilesLeave

=============================================================================
