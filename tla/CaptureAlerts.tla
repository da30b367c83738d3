----------------------------- MODULE CaptureAlerts -----------------------------
(***************************************************************************)
(* Alerts of FAST captures (magi2/fast_capture_alerts.py): a thread looks  *)
(* at the captures of every venue, claims each one in a database of its    *)
(* own, sends it, and marks the claim.  Telegram may take a message        *)
(* without saying so; a venue may be unreadable; the service may die.      *)
(***************************************************************************)
EXTENDS Integers, FiniteSets

CONSTANTS Venues, MaxTime, MaxCaptures, MaxCrashes, None

ASSUME AlertsAssumption == IsFiniteSet(Venues) /\ None \notin [venue : Venues, id : Nat, ts : Nat]

Recent == 1        \* two minutes: how old a capture may be when it is read
Keep   == 3        \* seven days: how long a claim is kept

VARIABLES
  time,
  caught,        \* of all venues: [venue, id, ts]
  activated,       \* activated_ms, when the service was first started
  claims,          \* delivery: [venue, id, ts, status]
  left, queue,     \* venues and rows this poll has still to look at
  passAt,           \* when it passAt
  pc, row,         \* "idle", "rows", "send", or the status to mark; the row in hand
  sent,            \* history: how often Telegram took the alert of a capture
  crashes

lvars == <<time, caught, activated, claims, left, queue, passAt, pc, row, sent, crashes>>

Ident(c) == [venue |-> c.venue, id |-> c.id]

LInit ==
  /\ time = 1 /\ caught \in {{}, {[venue |-> v, id |-> 1, ts |-> 0] : v \in Venues}}
  /\ activated = time /\ claims = {}
  /\ left = {} /\ queue = {} /\ passAt = time /\ pc = "idle" /\ row = None
  /\ sent = [c \in {} |-> 0] /\ crashes = 0

Pass == /\ time < MaxTime /\ time' = time + 1
        /\ UNCHANGED <<caught, activated, claims, left, queue, passAt, pc, row, sent, crashes>>

\* The observer of a venue captures a market.
Capture(v) ==
  LET ids == {c.id : c \in {x \in caught : x.venue = v}}
  IN /\ Cardinality(caught) < MaxCaptures
     /\ caught' = caught \cup {[venue |-> v, id |-> Cardinality(ids) + 1, ts |-> time]}
     /\ UNCHANGED <<time, activated, claims, left, queue, passAt, pc, row, sent, crashes>>

Poll ==
  /\ pc = "idle" /\ pc' = "rows" /\ left' = Venues /\ passAt' = time
  /\ UNCHANGED <<time, caught, activated, claims, queue, row, sent, crashes>>

\* Seeded fault: what was captured before the service existed is announced.
AnyRecent(c) == c.ts >= passAt - Recent /\ c.ts <= passAt

Announced(c) == c.ts >= activated /\ c.ts >= passAt - Recent /\ c.ts <= passAt

\* A venue that cannot be read is skipped.
ReadVenue(v) ==
  /\ pc = "rows" /\ queue = {} /\ v \in left /\ left' = left \ {v}
  /\ \/ queue' = {c \in caught : c.venue = v /\ Announced(c)}
     \/ queue' = {}
  /\ UNCHANGED <<time, caught, activated, claims, passAt, pc, row, sent, crashes>>

\* Seeded fault: a claim that was not marked as sent may be taken again.
NotSent(c) == ~\E d \in claims : Ident(d) = Ident(c) /\ d.status = "SENT"

Unclaimed(c) == ~\E d \in claims : Ident(d) = Ident(c)

\* In the order of their identities; a claimed one is passed over.
Claim(c) ==
  /\ pc = "rows" /\ c \in queue /\ \A d \in queue : c.id <= d.id
  /\ queue' = queue \ {c}
  /\ IF Unclaimed(c)
       THEN /\ claims' = {d \in claims : Ident(d) # Ident(c)} \cup
                           {[venue |-> c.venue, id |-> c.id, ts |-> passAt, status |-> "CLAIMED"]}
            /\ pc' = "send" /\ row' = c
       ELSE UNCHANGED <<claims, pc, row>>
  /\ UNCHANGED <<time, caught, activated, left, passAt, sent, crashes>>

Send ==
  /\ pc = "send"
  /\ \E taken \in BOOLEAN, answered \in BOOLEAN :
       /\ answered => taken
       /\ pc' = IF answered THEN "SENT" ELSE "DELIVERY_UNCONFIRMED"
       /\ LET n == IF row \in DOMAIN sent THEN sent[row] ELSE 0
          IN sent' = IF taken THEN [c \in DOMAIN sent \cup {row} |-> IF c = row THEN n + 1 ELSE sent[c]]
                              ELSE sent
  /\ UNCHANGED <<time, caught, activated, claims, left, queue, passAt, row, crashes>>

Mark ==
  /\ pc \in {"SENT", "DELIVERY_UNCONFIRMED"} /\ pc' = "rows" /\ row' = None
  /\ claims' = {IF Ident(d) = Ident(row) THEN [d EXCEPT !.status = pc] ELSE d : d \in claims}
  /\ UNCHANGED <<time, caught, activated, left, queue, passAt, sent, crashes>>

Finish ==
  /\ pc = "rows" /\ left = {} /\ queue = {} /\ pc' = "idle"
  /\ claims' = {d \in claims : d.ts >= passAt - Keep}
  /\ UNCHANGED <<time, caught, activated, left, queue, passAt, row, sent, crashes>>

Restart ==
  /\ crashes < MaxCrashes /\ crashes' = crashes + 1
  /\ left' = {} /\ queue' = {} /\ pc' = "idle" /\ row' = None /\ passAt' = time
  /\ UNCHANGED <<time, caught, activated, claims, sent>>

LNext ==
  \/ Pass \/ Poll \/ Send \/ Mark \/ Finish \/ Restart
  \/ \E v \in Venues : Capture(v) \/ ReadVenue(v)
  \/ \E c \in queue : Claim(c)

LSpec == LInit /\ [][LNext]_lvars

-----------------------------------------------------------------------------

\* No capture is announced twice, whatever answer is lost, whenever the
\* service dies and however long claims are kept; none from before the service
\* was first started is announced; and only a death leaves a claim unmarked
\* (magi2/fast_capture_alerts.py:4, :84, :89 and :102).
AlertedAtMostOnce ==
  /\ \A c \in DOMAIN sent : sent[c] = 1 /\ c.ts >= activated
  /\ Cardinality({d \in claims : d.status = "CLAIMED" /\ (row = None \/ Ident(d) # Ident(row))}) <= crashes

=============================================================================
