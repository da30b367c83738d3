-------------------------------- MODULE MCFast --------------------------------
(* Small instances of the modules of the FAST observer of MAGI1: one of them *)
(* at a time, chosen at the start.  Each is checked as it stands; nothing    *)
(* else moves meanwhile.                                                     *)
EXTENDS FlowPaper, FastObserve, CandleWatch, CandleRepair, UniverseWatch, TLC

CONSTANTS s1, s2, a, b, c

VARIABLES which

Symmetry == Permutations({s1, s2})

-----------------------------------------------------------------------------
\* One market of the flow accounts over a midnight, two that compete for the
\* same cash and slots.
Extents == {[markets |-> {1}, until |-> 5], [markets |-> {1, 2}, until |-> 2]}

\* A long life with one death and one break; many starts in a short time.
Lives == {[until |-> 11, crashes |-> 1, breaks |-> 1], [until |-> 3, crashes |-> 4, breaks |-> 0]}

\* A history of two bars, one of them possibly without trades.
Reaches == {[quiet |-> {}, until |-> 17], [quiet |-> {12}, until |-> 19]}

-----------------------------------------------------------------------------
Init ==
  /\ PInit /\ OInit /\ WatchInit /\ RepairInit /\ UInit
  /\ which \in {"flow", "observe", "watch", "repair", "universe"}
  /\ which # "flow" => extent.until = 5 /\ acct.kind = "FLOW"
  /\ which # "observe" => scope.crashes = 1
  /\ which # "watch" => kind = "BEAR" /\ reach.quiet = {}
  /\ which # "repair" => traded = Bars /\ base = Blank
  /\ which # "universe" => listed = Coins

FlowStep ==
  which = "flow" /\ PNext /\ UNCHANGED <<which, ovars, watchvars, repairvars, uvars>>
ObserveStep ==
  which = "observe" /\ ONext /\ UNCHANGED <<which, pvars, watchvars, repairvars, uvars>>
WatchStep ==
  which = "watch" /\ WatchNext /\ UNCHANGED <<which, pvars, ovars, repairvars, uvars>>
RepairStep ==
  which = "repair" /\ RepairNext /\ UNCHANGED <<which, pvars, ovars, watchvars, uvars>>
UniverseStep ==
  which = "universe" /\ UNext /\ UNCHANGED <<which, pvars, ovars, watchvars, repairvars>>

Next == FlowStep \/ ObserveStep \/ WatchStep \/ RepairStep \/ UniverseStep

Spec == Init /\ [][Next]_<<which, pvars, ovars, watchvars, repairvars, uvars>>
=============================================================================
