---------------------------- MODULE AtomicRebuild ---------------------------
(***************************************************************************)
(* What the full replacement of the VPD paper portfolio promises: the new  *)
(* portfolio and all of its ledger events appear in one step, at most once *)
(* per snapshot.  Ordinary PAPER runs save the portfolio and append lines  *)
(* independently, and an ordinary save may be lost half-way.               *)
(***************************************************************************)
EXTENDS Integers

CONSTANTS Asofs, Portfolios, Lost, Lines, Plain, EventsOf(_)

VARIABLES book,    \* the portfolio, or Lost
          record   \* Lines -> how often the line stands in the ledger

vars == <<book, record>>

Init ==
  /\ book \in {b \in Portfolios : b.full = 0 /\ b.any = 0}
  /\ record = [e \in Lines |-> 0]

Rebuild(a) ==
  /\ book # Lost /\ a > book.full /\ a >= book.any
  /\ \A e \in EventsOf(a) : record[e] = 0
  /\ book' \in {b \in Portfolios : b.full = a /\ b.any = a}
  /\ record' = [e \in Lines |-> IF e \in EventsOf(a) THEN 1 ELSE record[e]]

Save ==
  /\ book # Lost
  /\ book' \in {b \in Portfolios : b.full = book.full /\ b.any >= book.any}
  /\ UNCHANGED record

Append ==
  /\ record' = [record EXCEPT ![Plain] = @ + 1]
  /\ UNCHANGED book

Lose ==
  /\ book' = Lost
  /\ UNCHANGED record

Next == (\E a \in Asofs : Rebuild(a)) \/ Save \/ Append \/ Lose

Spec == Init /\ [][Next]_vars

=============================================================================
