----------------------------- MODULE IntentLife -----------------------------
(***************************************************************************)
(* What MAGI3 promises about a trade intent, without books, cycles, limits *)
(* or processes: the first payload recorded under an identifier is the one *)
(* that counts; it is executed at most once, before it expires; otherwise  *)
(* it is refused.  ShadowEngine implements this (IntentRefinement there).  *)
(***************************************************************************)
EXTENDS Integers, Sequences

CONSTANTS Ids, Intents, NoIntent

VARIABLES clock,    \* time
          life,     \* Ids -> what became of the intent
          terms,    \* Ids -> the payload recorded first
          trades    \* identifiers in the order they were executed

vars == <<clock, life, terms, trades>>

Init ==
  /\ clock = 0
  /\ life = [i \in Ids |-> "NONE"]
  /\ terms = [i \in Ids |-> NoIntent]
  /\ trades = <<>>

Pass ==
  /\ clock' = clock + 1
  /\ UNCHANGED <<life, terms, trades>>

Record(s) ==
  /\ life[s.id] = "NONE" /\ clock < s.expires
  /\ life' = [life EXCEPT ![s.id] = "PENDING"]
  /\ terms' = [terms EXCEPT ![s.id] = s]
  /\ UNCHANGED <<clock, trades>>

Execute(i) ==
  /\ life[i] = "PENDING" /\ clock < terms[i].expires
  /\ life' = [life EXCEPT ![i] = "FILLED"]
  /\ trades' = Append(trades, i)
  /\ UNCHANGED <<clock, terms>>

Refuse(i) ==
  /\ life[i] = "PENDING"
  /\ life' = [life EXCEPT ![i] = "REJECTED"]
  /\ UNCHANGED <<clock, terms, trades>>

Next ==
  \/ Pass
  \/ \E s \in Intents : Record(s)
  \/ \E i \in Ids : Execute(i) \/ Refuse(i)

Spec == Init /\ [][Next]_vars

=============================================================================
