----------------------------- MODULE ServicesProofs -----------------------------
(***************************************************************************)
(* Theorems about eight services.                                          *)
(*                                                                         *)
(* For any venues, captures, polls, lost answers and deaths: a capture is  *)
(* announced at most once, and only a death leaves a claim unmarked.       *)
(* What was sent stays claimed until it is too old for a poll to find it:  *)
(* the claim is stamped with the poll, the poll finds nothing newer than   *)
(* itself, and a claim is kept longer than a capture is recent.            *)
(*                                                                         *)
(* For any users, messages and deaths: the console handles an update once  *)
(* and a button does once what was shown with it.                          *)
(*                                                                         *)
(* For any markets, windows, breaks, stalls and deaths: the FAST observer  *)
(* signals, captures and concludes what was observed, and stays stopped.   *)
(*                                                                         *)
(* For any listings and deaths of streams: the tracker follows each coin   *)
(* in one stream.                                                          *)
(*                                                                         *)
(* For any rounds, failed copies, replaced ledgers, lost answers and       *)
(* deaths: the audit reports a session once and never says of a market     *)
(* what the records contradict.                                            *)
(*                                                                         *)
(* For any coins, runs, unreadable files and deaths: a warning is news of  *)
(* its coin.                                                               *)
(*                                                                         *)
(* For any depth, changes, losses, repetitions and reconnections: a book   *)
(* that is handed on is the one the exchange showed.                       *)
(*                                                                         *)
(* For any answers, failures and deaths: a confirmed state of the market   *)
(* was observed twice, and the figures shown are of today.                 *)
(***************************************************************************)
EXTENDS CaptureAlerts, TelegramConsole, FastObserve, UniverseWatch, CaptureAudit, EarlyWarning,
        BookFeed, MarketContext, SumFacts

Captures == [venue : Venues, id : Nat, ts : Nat]
Statuses == {"CLAIMED", "SENT", "DELIVERY_UNCONFIRMED"}
Claims == [venue : Venues, id : Nat, ts : Nat, status : Statuses]

Types ==
  /\ time \in Nat /\ passAt \in Nat /\ passAt <= time
  /\ caught \subseteq Captures /\ IsFiniteSet(caught)
  /\ claims \subseteq Claims /\ IsFiniteSet(claims)
  /\ left \subseteq Venues /\ crashes \in Nat
  /\ pc \in {"idle", "rows", "send", "SENT", "DELIVERY_UNCONFIRMED"}
  /\ sent = [c \in DOMAIN sent |-> sent[c]]

\* An entry for the capture, not older than the capture itself.
Covered(c) == \E d \in claims : Ident(d) = Ident(c) /\ c.ts <= d.ts

\* What a poll has still to look at was captured around it.
QueueInv ==
  /\ pc = "idle" => queue = {}
  /\ \A c \in queue : c \in caught /\ Announced(c)

\* The capture in hand is claimed, and before it is sent it was not sent.
RowInv ==
  IF pc \in {"idle", "rows"} THEN row = None
  ELSE /\ row \in caught /\ row.ts >= activated /\ Covered(row)
       /\ pc = "send" => row \notin DOMAIN sent

\* What was sent is claimed or too old to be found again.
SentInv ==
  \A c \in DOMAIN sent :
    /\ sent[c] = 1 /\ c \in Captures /\ c.ts >= activated
    /\ Covered(c) \/ c.ts < passAt - Keep

OneClaimEach == \A d, e \in claims : Ident(d) = Ident(e) => d = e

\* Claims that nobody is about to mark.
Stuck == {d \in claims : d.status = "CLAIMED" /\ (row = None \/ Ident(d) # Ident(row))}

StuckInv == Cardinality(Stuck) <= crashes

IInv == Types /\ QueueInv /\ RowInv /\ SentInv /\ OneClaimEach /\ StuckInv

-----------------------------------------------------------------------------

\* The values of a function on a finite set are finitely many.
LEMMA FiniteValues ==
  ASSUME NEW S, IsFiniteSet(S), NEW f
  PROVE  IsFiniteSet({f[x] : x \in S})
<1> DEFINE T == {f[x] : x \in S}
           g == [x \in S |-> f[x]]
<1>1. g \in Surjection(S, T)
  BY DEF Surjection
<1> QED BY <1>1, FS_Surjection

\* Claims that are left may be counted.
LEMMA FewerStuck ==
  ASSUME Types, crashes' = crashes, StuckInv, Stuck' \subseteq Stuck
  PROVE  StuckInv'
<1>1. IsFiniteSet(Stuck)
  <2>1. Stuck \subseteq claims
    BY DEF Stuck
  <2> QED BY <2>1, FS_Subset DEF Types
<1>2. Cardinality(Stuck') <= Cardinality(Stuck) /\ Cardinality(Stuck) \in Nat /\ Cardinality(Stuck') \in Nat
  BY <1>1, FS_Subset, FS_CardinalityType
<1> QED BY <1>2 DEF StuckInv, Types

LEMMA InitialInv == LInit => IInv
<1> SUFFICES ASSUME LInit PROVE IInv
  OBVIOUS
<1>1. caught \subseteq Captures /\ IsFiniteSet(caught)
  <2>1. CASE caught = {}
    BY <2>1, FS_EmptySet
  <2>2. CASE caught = {[venue |-> v, id |-> 1, ts |-> 0] : v \in Venues}
    <3>1. caught \subseteq Captures
      BY <2>2 DEF Captures
    <3>2. IsFiniteSet({[venue |-> v, id |-> 1, ts |-> 0] : v \in Venues})
      <4> DEFINE f == [v \in Venues |-> [venue |-> v, id |-> 1, ts |-> 0]]
      <4>1. IsFiniteSet({f[v] : v \in Venues})
        <5> HIDE DEF f
        <5> QED BY AlertsAssumption, FiniteValues
      <4>2. {f[v] : v \in Venues} = {[venue |-> v, id |-> 1, ts |-> 0] : v \in Venues}
        OBVIOUS
      <4> QED BY <4>1, <4>2
    <3> QED BY <2>2, <3>1, <3>2
  <2> QED BY <2>1, <2>2 DEF LInit
<1>2. Types
  BY <1>1, FS_EmptySet DEF LInit, Types
<1>3. Stuck = {} /\ Cardinality({}) = 0
  BY FS_EmptySet DEF LInit, Stuck
<1>4. StuckInv
  BY <1>3 DEF LInit, StuckInv
<1> QED BY <1>2, <1>4 DEF LInit, IInv, QueueInv, RowInv, SentInv, OneClaimEach

\* What the invariant says when the claims, the row in hand and what was sent
\* stay: a poll may begin later and hold fewer captures.
Quiet ==
  /\ claims' = claims /\ row' = row /\ sent' = sent /\ activated' = activated
  /\ crashes' = crashes /\ caught \subseteq caught' /\ passAt' \in Nat /\ passAt <= passAt'
  /\ (pc \in {"idle", "rows"} <=> pc' \in {"idle", "rows"}) /\ (pc' = "send" => pc = "send")

LEMMA QuietKeeps ==
  ASSUME Types, RowInv, SentInv, OneClaimEach, StuckInv, Quiet
  PROVE  RowInv' /\ SentInv' /\ OneClaimEach' /\ StuckInv'
<1>1. \A c : Covered(c)' <=> Covered(c)
  BY DEF Quiet, Covered, Ident
<1>2. RowInv'
  BY <1>1 DEF Quiet, RowInv
<1>3. SentInv'
  BY <1>1 DEF Quiet, SentInv, Keep, Types, Captures
<1>4. OneClaimEach' /\ StuckInv'
  BY DEF Quiet, OneClaimEach, StuckInv, Stuck, Ident
<1> QED BY <1>2, <1>3, <1>4

LEMMA PassKeeps == IInv /\ Pass => IInv'
<1> SUFFICES ASSUME IInv, Pass PROVE IInv'
  OBVIOUS
<1>1. Types' /\ QueueInv'
  BY DEF IInv, Pass, Types, QueueInv, Announced
<1>2. Quiet
  BY DEF IInv, Types, Pass, Quiet
<1> QED BY <1>1, <1>2, QuietKeeps DEF IInv

LEMMA CaptureKeeps == \A v \in Venues : IInv /\ Capture(v) => IInv'
<1> SUFFICES ASSUME NEW v \in Venues, IInv, Capture(v) PROVE IInv'
  OBVIOUS
<1> DEFINE ids == {c.id : c \in {x \in caught : x.venue = v}}
           new == [venue |-> v, id |-> Cardinality(ids) + 1, ts |-> time]
<1>1. caught' = caught \cup {new}
  BY DEF Capture
<1>2. IsFiniteSet(ids)
  <2>1. IsFiniteSet({x \in caught : x.venue = v})
    BY FS_Subset DEF IInv, Types
  <2> DEFINE S == {x \in caught : x.venue = v}
             f == [c \in S |-> c.id]
  <2>2. IsFiniteSet({f[c] : c \in S})
    <3> HIDE DEF f
    <3> QED BY <2>1, FiniteValues
  <2>3. {f[c] : c \in S} = ids
    OBVIOUS
  <2> QED BY <2>2, <2>3
<1>3. new \in Captures
  BY <1>2, FS_CardinalityType DEF IInv, Types, Captures
<1> HIDE DEF new
<1>4. caught' \subseteq Captures /\ IsFiniteSet(caught') /\ caught \subseteq caught'
  BY <1>1, <1>3, FS_AddElement DEF IInv, Types
<1>5. Types' /\ QueueInv'
  BY <1>4 DEF IInv, Capture, Types, QueueInv, Announced
<1>6. Quiet
  BY <1>4 DEF IInv, Types, Capture, Quiet
<1> QED BY <1>5, <1>6, QuietKeeps DEF IInv

LEMMA PollKeeps == IInv /\ Poll => IInv'
<1> SUFFICES ASSUME IInv, Poll PROVE IInv'
  OBVIOUS
<1>1. Types' /\ QueueInv'
  BY DEF IInv, Poll, Types, QueueInv
<1>2. Quiet
  BY DEF IInv, Types, Poll, Quiet
<1> QED BY <1>1, <1>2, QuietKeeps DEF IInv

LEMMA ReadVenueKeeps == \A v \in Venues : IInv /\ ReadVenue(v) => IInv'
<1> SUFFICES ASSUME NEW v \in Venues, IInv, ReadVenue(v) PROVE IInv'
  OBVIOUS
<1>1. Types' /\ QueueInv'
  BY DEF IInv, ReadVenue, Types, QueueInv, Announced
<1>2. Quiet
  BY DEF IInv, Types, ReadVenue, Quiet
<1> QED BY <1>1, <1>2, QuietKeeps DEF IInv

\* A capture that is found and not claimed was never sent.
LEMMA ClaimKeeps == \A c \in queue : IInv /\ Claim(c) => IInv'
<1> SUFFICES ASSUME NEW c \in queue, IInv, Claim(c) PROVE IInv'
  OBVIOUS
<1> DEFINE d == [venue |-> c.venue, id |-> c.id, ts |-> passAt, status |-> "CLAIMED"]
<1>1. /\ c \in caught /\ c \in Captures /\ Announced(c) /\ pc = "rows" /\ row = None
      /\ queue' = queue \ {c}
      /\ UNCHANGED <<time, caught, activated, left, passAt, sent, crashes>>
  BY DEF IInv, Types, QueueInv, RowInv, Claim
<1>2. c.ts \in Nat /\ c.ts <= passAt /\ c.ts >= passAt - Recent /\ c.ts >= activated
  BY <1>1 DEF Announced, Captures
<1>3. CASE ~Unclaimed(c)
  <2>1. UNCHANGED <<claims, pc, row>>
    BY <1>3 DEF Claim
  <2>2. Types' /\ QueueInv'
    BY <1>1, <2>1 DEF IInv, Types, QueueInv, Announced
  <2>3. Quiet
    BY <1>1, <2>1 DEF IInv, Types, Quiet
  <2> QED BY <2>2, <2>3, QuietKeeps DEF IInv
<1>4. CASE Unclaimed(c)
  <2>1. \A e \in claims : Ident(e) # Ident(c)
    BY <1>4 DEF Unclaimed
  <2>2. claims' = claims \cup {d} /\ pc' = "send" /\ row' = c
    BY <1>4, <2>1 DEF Claim
  <2>3. d \in Claims /\ Ident(d) = Ident(c) /\ d.ts = passAt
    BY <1>1 DEF IInv, Types, Captures, Claims, Statuses, Ident
  <2> HIDE DEF d
  <2>4. Types' /\ QueueInv'
    BY <1>1, <2>2, <2>3, FS_AddElement DEF IInv, Types, QueueInv, Announced
  <2>5. \A b : Covered(b) => Covered(b)'
    BY <2>2 DEF Covered, Ident
  <2>6. RowInv'
    <3>1. Covered(c)'
      BY <1>2, <2>2, <2>3 DEF Covered, Ident
    <3>2. c \notin DOMAIN sent
      <4>1. SUFFICES ASSUME c \in DOMAIN sent PROVE FALSE
        OBVIOUS
      <4>2. Covered(c) \/ c.ts < passAt - Keep
        BY <4>1 DEF IInv, SentInv
      <4>3. ~Covered(c)
        BY <2>1 DEF Covered
      <4> QED BY <1>2, <4>2, <4>3 DEF IInv, Types, Recent, Keep
    <3> QED BY <1>1, <1>2, <2>2, <3>1, <3>2 DEF RowInv
  <2>7. SentInv'
    BY <1>1, <2>5 DEF IInv, SentInv
  <2>8. OneClaimEach'
    BY <2>1, <2>2, <2>3 DEF IInv, OneClaimEach, Ident
  <2>9. StuckInv'
    <3>1. Stuck' \subseteq Stuck
      <4>1. c # None
        BY <1>1, AlertsAssumption DEF Captures
      <4> QED BY <1>1, <2>2, <2>3, <4>1 DEF Stuck, Ident
    <3> QED BY <1>1, <3>1, FewerStuck DEF IInv
  <2> QED BY <2>4, <2>6, <2>7, <2>8, <2>9 DEF IInv
<1> QED BY <1>3, <1>4

\* A message is taken at most once: its capture was claimed before, and had
\* not been sent.
LEMMA SendKeeps == IInv /\ Send => IInv'
<1> SUFFICES ASSUME IInv, Send PROVE IInv'
  OBVIOUS
<1>1. /\ pc = "send" /\ pc' \in {"SENT", "DELIVERY_UNCONFIRMED"}
      /\ UNCHANGED <<time, caught, activated, claims, left, queue, passAt, row, crashes>>
  BY DEF Send
<1>2. /\ row \in caught /\ row \in Captures /\ row.ts >= activated /\ Covered(row)
      /\ row \notin DOMAIN sent
  BY <1>1 DEF IInv, RowInv, Types
<1>3. \/ sent' = sent
      \/ sent' = [c \in DOMAIN sent \cup {row} |-> IF c = row THEN 0 + 1 ELSE sent[c]]
  BY <1>2 DEF Send
<1>4. /\ sent' = [c \in DOMAIN sent' |-> sent'[c]] /\ DOMAIN sent' \subseteq DOMAIN sent \cup {row}
      /\ \A c \in DOMAIN sent' : IF c = row THEN sent'[c] = 1 ELSE sent'[c] = sent[c]
  BY <1>2, <1>3 DEF IInv, Types
<1>5. Types' /\ QueueInv'
  BY <1>1, <1>4 DEF IInv, Types, QueueInv, Announced
<1>6. \A c : Covered(c)' <=> Covered(c)
  BY <1>1 DEF Covered, Ident
<1>7. RowInv'
  BY <1>1, <1>2, <1>6 DEF RowInv
<1>8. SentInv'
  <2>1. ASSUME NEW c \in DOMAIN sent'
        PROVE  /\ sent'[c] = 1 /\ c \in Captures /\ c.ts >= activated
               /\ Covered(c) \/ c.ts < passAt - Keep
    <3>1. CASE c = row
      BY <1>2, <1>4, <3>1
    <3>2. CASE c # row
      BY <1>4, <3>2 DEF IInv, SentInv
    <3> QED BY <3>1, <3>2
  <2> QED BY <1>1, <1>6, <2>1 DEF SentInv
<1>9. OneClaimEach' /\ StuckInv'
  BY <1>1 DEF IInv, OneClaimEach, StuckInv, Stuck, Ident
<1> QED BY <1>5, <1>7, <1>8, <1>9 DEF IInv

\* A mark changes the status of the claim in hand, and no other.
LEMMA MarkKeeps == IInv /\ Mark => IInv'
<1> SUFFICES ASSUME IInv, Mark PROVE IInv'
  OBVIOUS
<1> DEFINE m(d) == IF Ident(d) = Ident(row) THEN [d EXCEPT !.status = pc] ELSE d
<1>1. /\ pc \in {"SENT", "DELIVERY_UNCONFIRMED"} /\ pc' = "rows" /\ row' = None
      /\ claims' = {m(d) : d \in claims}
      /\ UNCHANGED <<time, caught, activated, left, queue, passAt, sent, crashes>>
  BY DEF Mark
<1>2. row \in Captures /\ row # None
  BY <1>1, AlertsAssumption DEF IInv, Types, RowInv, Captures
<1>3. ASSUME NEW d \in claims
      PROVE  /\ m(d) \in Claims /\ Ident(m(d)) = Ident(d) /\ m(d).ts = d.ts
             /\ Ident(d) = Ident(row) => m(d).status # "CLAIMED"
             /\ Ident(d) # Ident(row) => m(d) = d
  <2>1. d \in Claims
    BY DEF IInv, Types
  <2> QED BY <1>1, <2>1 DEF Claims, Statuses, Ident
<1>4. IsFiniteSet(claims')
  <2>1. IsFiniteSet(claims)
    BY DEF IInv, Types
  <2>2. IsFiniteSet({m(d) : d \in claims})
    <3> DEFINE f == [d \in claims |-> m(d)]
    <3>1. IsFiniteSet({f[d] : d \in claims})
      <4> HIDE DEF f
      <4> QED BY <2>1, FiniteValues
    <3>2. {f[d] : d \in claims} = {m(d) : d \in claims}
      <4> HIDE DEF m
      <4> QED OBVIOUS
    <3> QED BY <3>1, <3>2
  <2> QED BY <1>1, <2>2
<1> HIDE DEF m
<1>5. Types' /\ QueueInv'
  BY <1>1, <1>3, <1>4 DEF IInv, Types, QueueInv, Announced
<1>6. \A c : Covered(c) => Covered(c)'
  <2> SUFFICES ASSUME NEW c, Covered(c) PROVE Covered(c)'
    OBVIOUS
  <2>1. PICK d \in claims : Ident(d) = Ident(c) /\ c.ts <= d.ts
    BY DEF Covered
  <2>2. m(d) \in claims' /\ Ident(m(d)) = Ident(c) /\ c.ts <= m(d).ts
    BY <1>1, <1>3, <2>1
  <2> QED BY <2>2 DEF Covered, Ident
<1>7. RowInv' /\ SentInv'
  BY <1>1, <1>6 DEF IInv, RowInv, SentInv
<1>8. OneClaimEach'
  <2> SUFFICES ASSUME NEW d \in claims, NEW e \in claims, Ident(m(d)) = Ident(m(e))
               PROVE  m(d) = m(e)
    BY <1>1 DEF OneClaimEach, Ident
  <2>1. Ident(d) = Ident(e)
    BY <1>3
  <2> QED BY <2>1 DEF IInv, OneClaimEach
<1>9. StuckInv'
  <2>1. ASSUME NEW e \in Stuck' PROVE e \in Stuck
    <3>1. e \in claims' /\ e.status = "CLAIMED"
      BY DEF Stuck
    <3>2. PICK d \in claims : e = m(d)
      BY <1>1, <3>1
    <3> QED BY <1>3, <3>1, <3>2 DEF Stuck
  <2>2. Stuck' \subseteq Stuck
    BY <2>1
  <2> QED BY <1>1, <2>2, FewerStuck DEF IInv
<1> QED BY <1>5, <1>7, <1>8, <1>9 DEF IInv

\* A claim is dropped when its capture is too old to be found.
LEMMA FinishKeeps == IInv /\ Finish => IInv'
<1> SUFFICES ASSUME IInv, Finish PROVE IInv'
  OBVIOUS
<1>1. /\ pc = "rows" /\ queue = {} /\ pc' = "idle" /\ row = None
      /\ claims' = {d \in claims : d.ts >= passAt - Keep}
      /\ UNCHANGED <<time, caught, activated, left, queue, passAt, row, sent, crashes>>
  BY DEF IInv, RowInv, Finish
<1>2. claims' \subseteq claims
  BY <1>1
<1>3. Types' /\ QueueInv'
  BY <1>1, <1>2, FS_Subset DEF IInv, Types, QueueInv
<1>4. RowInv'
  BY <1>1 DEF RowInv
<1>5. ASSUME NEW c \in DOMAIN sent, Covered(c) PROVE Covered(c)' \/ c.ts < passAt - Keep
  <2>1. PICK d \in claims : Ident(d) = Ident(c) /\ c.ts <= d.ts
    BY <1>5 DEF Covered
  <2>2. CASE d.ts >= passAt - Keep
    BY <1>1, <2>1, <2>2 DEF Covered, Ident
  <2>3. CASE ~(d.ts >= passAt - Keep)
    <3>1. d.ts \in Nat /\ c.ts \in Nat /\ passAt \in Nat
      BY <2>1 DEF IInv, Types, Claims, SentInv, Captures
    <3> QED BY <2>1, <2>3, <3>1 DEF Keep
  <2> QED BY <2>2, <2>3
<1>6. SentInv'
  BY <1>1, <1>5 DEF IInv, SentInv
<1>7. OneClaimEach'
  BY <1>2 DEF IInv, OneClaimEach, Ident
<1>8. StuckInv'
  <2>1. Stuck' \subseteq Stuck
    BY <1>1, <1>2 DEF Stuck
  <2> QED BY <1>1, <2>1, FewerStuck DEF IInv
<1> QED BY <1>3, <1>4, <1>6, <1>7, <1>8 DEF IInv

\* A death forgets the capture in hand, whose claim may be left as it is.
LEMMA RestartKeeps == IInv /\ Restart => IInv'
<1> SUFFICES ASSUME IInv, Restart PROVE IInv'
  OBVIOUS
<1>1. /\ crashes' = crashes + 1 /\ left' = {} /\ queue' = {} /\ pc' = "idle" /\ row' = None
      /\ passAt' = time /\ UNCHANGED <<time, caught, activated, claims, sent>>
  BY DEF Restart
<1>2. Types' /\ QueueInv' /\ RowInv'
  BY <1>1 DEF IInv, Types, QueueInv, RowInv
<1>3. \A c : Covered(c)' <=> Covered(c)
  BY <1>1 DEF Covered, Ident
<1>4. SentInv'
  BY <1>1, <1>3 DEF IInv, SentInv, Types, Captures, Keep
<1>5. OneClaimEach'
  BY <1>1 DEF IInv, OneClaimEach, Ident
<1>6. IsFiniteSet(Stuck) /\ Cardinality(Stuck) \in Nat
  <2>1. Stuck \subseteq claims
    BY DEF Stuck
  <2> QED BY <2>1, FS_Subset, FS_CardinalityType DEF IInv, Types
<1>7. \/ Stuck' \subseteq Stuck
      \/ \E d \in claims : Stuck' \subseteq Stuck \cup {d}
  <2>1. CASE \A d \in claims : Ident(d) # Ident(row)
    BY <1>1, <2>1 DEF Stuck
  <2>2. CASE \E d \in claims : Ident(d) = Ident(row)
    <3>1. PICK d \in claims : Ident(d) = Ident(row)
      BY <2>2
    <3>2. \A e \in claims : Ident(e) = Ident(row) => e = d
      BY <3>1 DEF IInv, OneClaimEach
    <3>3. Stuck' \subseteq Stuck \cup {d}
      BY <1>1, <3>2 DEF Stuck
    <3> QED BY <3>3
  <2> QED BY <2>1, <2>2
<1>8. Cardinality(Stuck') <= Cardinality(Stuck) + 1 /\ Cardinality(Stuck') \in Nat
  <2>1. CASE Stuck' \subseteq Stuck
    BY <1>6, <2>1, FS_Subset, FS_CardinalityType
  <2>2. ASSUME NEW d \in claims, Stuck' \subseteq Stuck \cup {d}
        PROVE  Cardinality(Stuck') <= Cardinality(Stuck) + 1 /\ Cardinality(Stuck') \in Nat
    <3>1. IsFiniteSet(Stuck \cup {d}) /\ Cardinality(Stuck \cup {d}) <= Cardinality(Stuck) + 1
      BY <1>6, FS_AddElement
    <3>2. Cardinality(Stuck \cup {d}) \in Nat
      BY <3>1, FS_CardinalityType
    <3>3. IsFiniteSet(Stuck') /\ Cardinality(Stuck') <= Cardinality(Stuck \cup {d})
      BY <2>2, <3>1, FS_Subset
    <3>4. Cardinality(Stuck') \in Nat
      BY <3>3, FS_CardinalityType
    <3> QED BY <1>6, <3>1, <3>2, <3>3, <3>4
  <2> QED BY <1>7, <2>1, <2>2
<1>9. StuckInv'
  BY <1>1, <1>6, <1>8 DEF IInv, StuckInv, Types
<1> QED BY <1>2, <1>4, <1>5, <1>9 DEF IInv

-----------------------------------------------------------------------------
(* The theorems                                                            *)

\* What was sent is claimed or too old to be found, and a capture in hand is
\* claimed and not yet sent (magi2/fast_capture_alerts.py:84-102).
THEOREM IInvInvariant == LSpec => []IInv
<1>1. LInit => IInv
  BY InitialInv
<1>2. IInv /\ [LNext]_lvars => IInv'
  <2> SUFFICES ASSUME IInv, [LNext]_lvars PROVE IInv'
    OBVIOUS
  <2>1. ASSUME NEW v \in Venues, Capture(v) \/ ReadVenue(v) PROVE IInv'
    BY <2>1, CaptureKeeps, ReadVenueKeeps
  <2>2. ASSUME NEW c \in queue, Claim(c) PROVE IInv'
    BY <2>2, ClaimKeeps
  <2>3. CASE UNCHANGED lvars
    BY <2>3 DEF lvars, IInv, Types, QueueInv, Announced, RowInv, SentInv, Covered, Ident,
                OneClaimEach, StuckInv, Stuck
  <2> QED BY <2>1, <2>2, <2>3, PassKeeps, PollKeeps, SendKeeps, MarkKeeps, FinishKeeps,
             RestartKeeps DEF LNext
<1> QED BY <1>1, <1>2, PTL DEF LSpec

\* For any venues and number of captures and deaths: a capture is announced at
\* most once and never when it is older than the service, and no more claims
\* are left unmarked than the service died (magi2/fast_capture_alerts.py:4,
\* :84, :89 and :102).
THEOREM AlertsOnce == LSpec => []AlertedAtMostOnce
<1>1. IInv => AlertedAtMostOnce
  BY DEF IInv, SentInv, StuckInv, Stuck, AlertedAtMostOnce
<1> QED BY <1>1, IInvInvariant, PTL

-----------------------------------------------------------------------------
(* The console.  What lies before the offset or before what Telegram still   *)
(* has was handled or discarded; what lies behind both was handled only by   *)
(* processes whose successor could not discard it.                           *)

Updates == [user : Users \cup {m.user : m \in Messages},
            cmd : {"confirm", "cancel"} \cup {m.cmd : m \in Messages},
            button : Buttons \cup {NoButton}]
Shown == [button : Nat, user : Users, action : Orders, basis : Nat, until : Nat]

LoopTypes ==
  /\ updates \in Seq(Updates) /\ Len(updates) <= MaxUpdates
  /\ kept \in 1 .. Len(updates) + 1 /\ offset \in 0 .. Len(updates) + 1 /\ last \in 0 .. Len(updates)
  /\ loop \in {"down", "poll", "batch"} /\ blind \in Nat /\ times \in [UpdateIds -> Nat]

ButtonTypes ==
  /\ clock \in Nat /\ account \in Nat
  /\ shown \in Seq(Shown) /\ Len(shown) <= MaxButtons /\ runs \in [Buttons -> Nat]

Past(i) == i < kept \/ i < offset

UpdatesInv ==
  /\ loop = "down" => offset = 0
  /\ \A i \in UpdateIds :
       /\ i > Len(updates) => times[i] = 0
       /\ i <= Len(updates) /\ Past(i) => times[i] > 0 \/ i \in flushed
       /\ times[i] <= 1 + blind
       /\ loop # "down" /\ ~Past(i) => times[i] <= blind

\* A button that works was shown, has not been used, and is its user's last.
ButtonsInv ==
  /\ \A p \in pending :
       /\ p.button \in 1 .. Len(shown) /\ shown[p.button] = p /\ runs[p.button] = 0
       /\ \A q \in p.button + 1 .. Len(shown) : shown[q].user # p.user
  /\ \A b \in Buttons : b > Len(shown) => runs[b] = 0

TInv == LoopTypes /\ ButtonTypes /\ UpdatesInv /\ ButtonsInv

LEMMA InitTInv == TInit => TInv
<1> SUFFICES ASSUME TInit PROVE TInv
  OBVIOUS
<1>1. LoopTypes /\ ButtonTypes
  BY ConsoleAssumption DEF TInit, LoopTypes, ButtonTypes
<1>2. UpdatesInv
  BY ConsoleAssumption DEF TInit, UpdatesInv, Past, UpdateIds
<1>3. ButtonsInv
  BY DEF TInit, ButtonsInv
<1> QED BY <1>1, <1>2, <1>3 DEF TInv

\* The next update is the first one that is not past.
LEMMA FirstIsNext ==
  ASSUME LoopTypes
  PROVE  /\ First \in 1 .. Len(updates) + 1 /\ First \in {offset, kept}
         /\ \A i \in Int : i < First <=> Past(i)
<1>1. Len(updates) \in Nat /\ offset \in Int /\ kept \in Int
  BY DEF LoopTypes
<1>2. \E m \in {offset, kept} : \A n \in {offset, kept} : m >= n
  BY <1>1
<1>3. First \in {offset, kept} /\ First >= offset /\ First >= kept
  BY <1>2 DEF First, Max
<1> QED BY <1>1, <1>3 DEF LoopTypes, Past

\* An update that is taken from the batch.
Taking == /\ loop = "batch" /\ First <= last
          /\ offset' = First + 1 /\ times' = [times EXCEPT ![First] = @ + 1]
          /\ loop' \in {"poll", "batch"} /\ UNCHANGED <<updates, kept, last, flushed, blind>>

LEMMA TakingKeeps == LoopTypes /\ UpdatesInv /\ Taking => LoopTypes' /\ UpdatesInv'
<1> SUFFICES ASSUME LoopTypes, UpdatesInv, Taking PROVE LoopTypes' /\ UpdatesInv'
  OBVIOUS
<1> DEFINE f == First
<1>1. /\ f \in 1 .. last /\ f \in UpdateIds /\ f <= Len(updates)
      /\ \A i \in Int : i < f <=> Past(i)
  BY FirstIsNext, ConsoleAssumption DEF LoopTypes, Taking, UpdateIds
<1>2. /\ offset' = f + 1 /\ times' = [times EXCEPT ![f] = @ + 1] /\ loop = "batch"
      /\ loop' \in {"poll", "batch"} /\ UNCHANGED <<updates, kept, last, flushed, blind>>
  BY DEF Taking
<1> HIDE DEF f
<1>3. \A i \in UpdateIds : times'[i] = IF i = f THEN times[i] + 1 ELSE times[i]
  BY <1>2 DEF LoopTypes
<1>4. \A i \in UpdateIds : i < kept' \/ i < offset' <=> i <= f
  <2> SUFFICES ASSUME NEW i \in UpdateIds PROVE i < kept \/ i < f + 1 <=> i <= f
    BY <1>2
  <2>1. i \in Int /\ f \in Int /\ (i < kept => i < f)
    BY <1>1, ConsoleAssumption DEF UpdateIds, Past
  <2> QED BY <2>1 DEF LoopTypes
<1>5. LoopTypes'
  BY <1>1, <1>2 DEF LoopTypes
<1>6. ~Past(f) /\ times[f] \in Nat /\ times[f] <= blind
  BY <1>1, <1>2, ConsoleAssumption DEF UpdatesInv, LoopTypes, UpdateIds
<1>7. ASSUME NEW i \in UpdateIds
      PROVE  /\ i > Len(updates) => times'[i] = 0
             /\ i <= Len(updates) /\ i <= f => times'[i] > 0 \/ i \in flushed
             /\ times'[i] <= 1 + blind
             /\ i > f => times'[i] <= blind
  <2>1. CASE i = f
    BY <1>1, <1>3, <1>6, <2>1 DEF LoopTypes
  <2>2. CASE i # f
    BY <1>1, <1>2, <1>3, <2>2, ConsoleAssumption DEF LoopTypes, UpdatesInv, UpdateIds
  <2> QED BY <2>1, <2>2
<1>8. UpdatesInv'
  <2>1. loop' # "down" /\ updates' = updates /\ flushed' = flushed /\ blind' = blind
    BY <1>2
  <2>2. \A i \in UpdateIds : i \in Int /\ f \in Int
    BY <1>1, ConsoleAssumption DEF UpdateIds
  <2> HIDE DEF UpdateIds
  <2> QED BY <1>4, <1>7, <2>1, <2>2 DEF UpdatesInv, Past
<1> QED BY <1>5, <1>8

\* A new button is its user's last one.
LEMMA IssueKeeps ==
  ASSUME ButtonTypes, ButtonsInv, NEW u \in Users, NEW c \in Orders, Issue(u, c, account),
         UNCHANGED <<clock, account, runs>>
  PROVE  ButtonTypes' /\ ButtonsInv'
<1> DEFINE b == Len(shown) + 1
           p == [button |-> b, user |-> u, action |-> c, basis |-> account,
                 until |-> clock + LIFE]
<1>1. CASE b > MaxButtons
  BY <1>1 DEF Issue, ButtonTypes, ButtonsInv
<1>2. CASE b <= MaxButtons
  <2>1. pending' = {q \in Others(u) : clock < q.until} \cup {p} /\ shown' = Append(shown, p)
    BY <1>2, ConsoleAssumption DEF Issue, ButtonTypes
  <2>2. p \in Shown /\ p.button = b /\ p.user = u
    BY ConsoleAssumption DEF ButtonTypes, Shown
  <2>3. shown \in Seq(Shown) /\ Len(shown) \in Nat
    BY DEF ButtonTypes
  <2> HIDE DEF p
  <2>4. /\ shown' \in Seq(Shown) /\ Len(shown') = b /\ shown'[b] = p
        /\ \A i \in 1 .. Len(shown) : shown'[i] = shown[i]
    BY <2>1, <2>2, <2>3
  <2>5. ButtonTypes'
    BY <1>2, <2>4 DEF ButtonTypes
  <2>6. \A q \in pending' : q = p \/ (q \in pending /\ q.user # u)
    BY <2>1 DEF Others
  <2>7. runs[b] = 0
    BY <1>2, <2>3, ConsoleAssumption DEF ButtonsInv, Buttons
  <2>8. ASSUME NEW q \in pending'
        PROVE  /\ q.button \in 1 .. Len(shown') /\ shown'[q.button] = q /\ runs[q.button] = 0
               /\ \A i \in q.button + 1 .. Len(shown') : shown'[i].user # q.user
    <3>1. CASE q = p
      BY <2>2, <2>3, <2>4, <2>7, <3>1
    <3>2. CASE q \in pending /\ q.user # u
      <4>1. /\ q.button \in 1 .. Len(shown) /\ shown[q.button] = q /\ runs[q.button] = 0
            /\ \A i \in q.button + 1 .. Len(shown) : shown[i].user # q.user
        BY <3>2 DEF ButtonsInv
      <4> QED BY <2>2, <2>3, <2>4, <3>2, <4>1
    <3> QED BY <2>6, <3>1, <3>2
  <2>9. \A i \in Buttons : i > Len(shown') => runs[i] = 0
    BY <2>3, <2>4, ConsoleAssumption DEF ButtonsInv, Buttons
  <2> QED BY <2>5, <2>8, <2>9 DEF ButtonsInv
<1> QED BY <1>1, <1>2, ConsoleAssumption DEF ButtonTypes

\* Fewer of them work.
LEMMA FewerKeeps ==
  ASSUME ButtonTypes, ButtonsInv, pending' \subseteq pending, UNCHANGED <<clock, shown, runs>>,
         account' \in Nat
  PROVE  ButtonTypes' /\ ButtonsInv'
BY DEF ButtonTypes, ButtonsInv

LEMMA CommandKeeps ==
  ASSUME ButtonTypes, ButtonsInv, NEW c, NEW u \in Users, Commanded(c, u), UNCHANGED clock
  PROVE  ButtonTypes' /\ ButtonsInv'
<1>1. UNCHANGED <<account, runs>> /\ account' \in Nat
  BY DEF Commanded, ButtonTypes
<1>2. CASE c \in Orders /\ Issue(u, c, account)
  BY <1>1, <1>2, IssueKeeps
<1>3. CASE pending' \subseteq pending /\ UNCHANGED shown
  BY <1>1, <1>3, FewerKeeps
<1> QED BY <1>2, <1>3 DEF Commanded, Others

\* What a button executes is what its user was shown, for the first time.
LEMMA PressedKeeps ==
  ASSUME ButtonTypes, ButtonsInv, NEW update, Pressed(update), UNCHANGED clock
  PROVE  /\ ButtonTypes' /\ ButtonsInv'
         /\ \A b \in Buttons : runs'[b] # runs[b] =>
              /\ b <= Len(shown) /\ runs[b] = 0 /\ update.button = b /\ update.cmd = "confirm"
              /\ update.user = shown[b].user /\ update.user \in Executors /\ clock < shown[b].until
              /\ shown[b].action = "plan" => account = shown[b].basis
              /\ \A q \in b + 1 .. Len(shown) : shown[q].user # shown[b].user
<1> DEFINE taken == IF May(update.user) THEN Taken(update.button, update.user) ELSE {}
<1>1. /\ pending' = pending \ taken /\ UNCHANGED shown
      /\ \/ \E p \in taken : update.cmd = "confirm" /\ Works(p) /\ StillPlanned(p) /\ Execute(p)
         \/ UNCHANGED <<account, runs>>
  BY DEF Pressed
<1>2. CASE UNCHANGED <<account, runs>>
  <2>1. account' \in Nat
    BY <1>2 DEF ButtonTypes
  <2> QED BY <1>1, <1>2, <2>1, FewerKeeps
<1>3. ASSUME NEW p \in taken, update.cmd = "confirm", Works(p), StillPlanned(p), Execute(p)
      PROVE  /\ ButtonTypes' /\ ButtonsInv'
             /\ \A b \in Buttons : runs'[b] # runs[b] =>
                  /\ b <= Len(shown) /\ runs[b] = 0 /\ update.button = b /\ update.cmd = "confirm"
                  /\ update.user = shown[b].user /\ update.user \in Executors /\ clock < shown[b].until
                  /\ shown[b].action = "plan" => account = shown[b].basis
                  /\ \A q \in b + 1 .. Len(shown) : shown[q].user # shown[b].user
  <2> DEFINE n == p.button
  <2>1. /\ p \in pending /\ n = update.button /\ p.user = update.user /\ update.user \in Executors
        /\ taken = {q \in pending : q.button = n /\ q.user = p.user}
    BY <1>3 DEF Taken, May
  <2>2. /\ n \in 1 .. Len(shown) /\ shown[n] = p /\ runs[n] = 0
        /\ \A q \in n + 1 .. Len(shown) : shown[q].user # p.user
    BY <2>1 DEF ButtonsInv
  <2>3. /\ runs' = [runs EXCEPT ![n] = @ + 1]
        /\ account' = IF p.action = "vpd" THEN account ELSE account + 1
    BY <1>3 DEF Execute
  <2>4. clock < p.until /\ (p.action = "plan" => p.basis = account)
    BY <1>3 DEF Works, StillPlanned
  <2> HIDE DEF n, taken
  <2>5. /\ n \in Buttons /\ runs' \in [Buttons -> Nat] /\ account' \in Nat
        /\ \A i \in Buttons : i # n => runs'[i] = runs[i]
    BY <2>2, <2>3, ConsoleAssumption DEF ButtonTypes, Buttons
  <2>6. ButtonTypes'
    BY <1>1, <2>5 DEF ButtonTypes
  <2>7. \A q \in pending' : q \in pending /\ q.button # n
    BY <1>1, <2>1, <2>2 DEF ButtonsInv
  <2>8. Len(shown) \in Nat /\ Len(shown) <= MaxButtons
    BY DEF ButtonTypes
  <2>9. \A q \in pending' : q.button \in Buttons /\ runs'[q.button] = runs[q.button]
    BY <2>5, <2>7, <2>8, ConsoleAssumption DEF ButtonsInv, Buttons
  <2>10. \A b \in Buttons : b > Len(shown) => b # n
    BY <2>2, <2>8
  <2>11. ButtonsInv'
    BY <1>1, <2>5, <2>7, <2>9, <2>10 DEF ButtonsInv
  <2> QED BY <1>3, <2>1, <2>2, <2>4, <2>5, <2>6, <2>8, <2>11
<1> QED BY <1>1, <1>2, <1>3

\* An update that is taken is handled as a whole.
LEMMA HandleTakes ==
  /\ Handle => Taking /\ UNCHANGED clock
  /\ Raise => Taking /\ UNCHANGED <<clock, account, shown, runs>> /\ pending' \subseteq pending
BY DEF Handle, Raise, Taking, After

LEMMA HandleKeeps == TInv /\ Handle => TInv'
<1> SUFFICES ASSUME TInv, Handle PROVE TInv'
  OBVIOUS
<1> DEFINE update == updates[First]
<1>1. LoopTypes' /\ UpdatesInv' /\ UNCHANGED clock
  BY HandleTakes, TakingKeeps DEF TInv
<1>2. ButtonTypes /\ ButtonsInv /\ account \in Nat
  BY DEF TInv, ButtonTypes
<1>3. CASE UNCHANGED <<pending, shown, jobs, account, runs>>
  <2>1. pending' \subseteq pending /\ UNCHANGED <<shown, runs>> /\ account' \in Nat
    BY <1>2, <1>3
  <2> QED BY <1>1, <1>2, <2>1, FewerKeeps DEF TInv
<1>4. CASE update.user \in Users /\ Commanded(update.cmd, update.user)
  BY <1>1, <1>2, <1>4, CommandKeeps DEF TInv
<1>5. CASE Pressed(update)
  <2> HIDE DEF update
  <2>1. ButtonTypes' /\ ButtonsInv'
    BY <1>1, <1>2, <1>5, PressedKeeps
  <2> QED BY <1>1, <2>1 DEF TInv
<1> QED BY <1>3, <1>4, <1>5 DEF Handle

LEMMA RaiseKeeps == TInv /\ Raise => TInv'
<1> SUFFICES ASSUME TInv, Raise PROVE TInv'
  OBVIOUS
<1>1. LoopTypes' /\ UpdatesInv' /\ ButtonTypes /\ ButtonsInv
  BY HandleTakes, TakingKeeps DEF TInv
<1>2. UNCHANGED <<clock, account, shown, runs>> /\ pending' \subseteq pending /\ account' \in Nat
  BY <1>1, HandleTakes DEF ButtonTypes
<1> QED BY <1>1, <1>2, FewerKeeps DEF TInv

\* Steps that have nothing to do with buttons, and such as let some expire.
LEMMA ButtonsStay ==
  ASSUME ButtonTypes, ButtonsInv, pending' \subseteq pending, UNCHANGED <<account, shown, runs>>,
         clock' \in Nat
  PROVE  ButtonTypes' /\ ButtonsInv'
BY DEF ButtonTypes, ButtonsInv

LEMMA WriteKeeps == TInv /\ Write => TInv'
<1> SUFFICES ASSUME TInv, Write PROVE TInv'
  OBVIOUS
<1>1. PICK new : updates' = Append(updates, new) /\ new \in Updates
  <2>1. CASE \E m \in Messages :
               updates' = Append(updates, [user |-> m.user, cmd |-> m.cmd, button |-> NoButton])
    BY <2>1 DEF Updates
  <2>2. CASE \E u \in Users, b \in DOMAIN shown, c \in {"confirm", "cancel"} :
               updates' = Append(updates, [user |-> u, cmd |-> c, button |-> b])
    <3>1. DOMAIN shown \subseteq Buttons
      BY ConsoleAssumption DEF TInv, ButtonTypes, Buttons
    <3> QED BY <2>2, <3>1 DEF Updates
  <2> QED BY <2>1, <2>2 DEF Write
<1>2. /\ Len(updates) < MaxUpdates /\ loop = "poll"
      /\ UNCHANGED <<clock, kept, loop, offset, last, pending, jobs, account, flushed, blind,
                     times, shown, runs>>
  BY DEF Write, process, history
<1>3. Len(updates) \in Nat /\ Len(updates') = Len(updates) + 1 /\ updates' \in Seq(Updates)
  BY <1>1 DEF TInv, LoopTypes
<1>4. LoopTypes'
  BY <1>2, <1>3, ConsoleAssumption DEF TInv, LoopTypes
<1>5. UpdatesInv'
  <2> SUFFICES ASSUME NEW i \in UpdateIds
               PROVE  /\ i > Len(updates') => times[i] = 0
                      /\ i <= Len(updates') /\ Past(i) => times[i] > 0 \/ i \in flushed
                      /\ times[i] <= 1 + blind
                      /\ ~Past(i) => times[i] <= blind
    BY <1>2 DEF UpdatesInv, Past
  <2>1. i \in Int
    BY ConsoleAssumption DEF UpdateIds
  <2>2. Past(i) => i <= Len(updates)
    BY <1>3, <2>1 DEF TInv, LoopTypes, Past
  <2> QED BY <1>2, <1>3, <2>1, <2>2 DEF TInv, UpdatesInv
<1>6. ButtonTypes' /\ ButtonsInv'
  BY <1>2, ButtonsStay DEF TInv, ButtonTypes
<1> QED BY <1>4, <1>5, <1>6 DEF TInv

\* What Telegram and the loop know is as it was.
LEMMA LoopStays ==
  ASSUME LoopTypes, UpdatesInv,
         UNCHANGED <<updates, kept, loop, offset, last, flushed, blind, times>>
  PROVE  LoopTypes' /\ UpdatesInv'
BY DEF LoopTypes, UpdatesInv, Past

LEMMA QuietConsoleKeeps == TInv /\ (AccountMoves \/ ClockTick) => TInv'
<1> SUFFICES ASSUME TInv, AccountMoves \/ ClockTick PROVE TInv'
  OBVIOUS
<1>1. /\ UNCHANGED <<updates, kept, loop, offset, last, flushed, blind, times, pending, shown, runs>>
      /\ \/ account' = account + 1 /\ UNCHANGED clock
         \/ clock' = clock + 1 /\ UNCHANGED account
  BY DEF AccountMoves, ClockTick, process, history
<1>2. account' \in Nat /\ clock' \in Nat
  BY <1>1 DEF TInv, ButtonTypes
<1>3. ButtonTypes' /\ ButtonsInv'
  BY <1>1, <1>2 DEF TInv, ButtonTypes, ButtonsInv
<1> QED BY <1>1, <1>3, LoopStays DEF TInv

\* A start discards what waits, or leaves it to be handled once more.
LEMMA FlushKeeps == TInv /\ Flush => TInv'
<1> SUFFICES ASSUME TInv, Flush PROVE TInv'
  OBVIOUS
<1> DEFINE n == Len(updates)
<1>1. /\ loop = "down" /\ loop' = "poll"
      /\ \/ /\ offset' = IF Waiting = {} THEN 0 ELSE n + 1
            /\ kept' \in {kept, n + 1} /\ flushed' = flushed \cup Waiting /\ blind' = blind
         \/ offset' = 0 /\ blind' = blind + 1 /\ kept' = kept /\ flushed' = flushed
      /\ UNCHANGED <<clock, updates, last, pending, jobs, account, times, shown, runs>>
  BY DEF Flush
<1>2. n \in Nat /\ kept \in 1 .. n + 1 /\ blind \in Nat /\ Waiting = kept .. n
  BY DEF TInv, LoopTypes, Waiting
<1>3. offset' \in 0 .. n + 1 /\ kept' \in 1 .. n + 1 /\ blind' \in Nat
  BY <1>1, <1>2
<1>4. LoopTypes'
  BY <1>1, <1>3 DEF TInv, LoopTypes
<1>5. UpdatesInv'
  <2> SUFFICES ASSUME NEW i \in UpdateIds
               PROVE  /\ i > n => times[i] = 0
                      /\ i <= n /\ (i < kept' \/ i < offset') => times[i] > 0 \/ i \in flushed'
                      /\ times[i] <= 1 + blind'
                      /\ ~(i < kept' \/ i < offset') => times[i] <= blind'
    BY <1>1 DEF UpdatesInv, Past
  <2>1. i \in Int /\ times[i] \in Nat
    BY ConsoleAssumption DEF UpdateIds, TInv, LoopTypes
  <2>2. /\ i > n => times[i] = 0
        /\ i < kept /\ i <= n => times[i] > 0 \/ i \in flushed
        /\ times[i] <= 1 + blind
    BY DEF TInv, UpdatesInv, Past
  <2>3. CASE offset' = 0 /\ blind' = blind + 1 /\ kept' = kept /\ flushed' = flushed
    BY <1>2, <2>1, <2>2, <2>3
  <2>4. CASE /\ offset' = IF Waiting = {} THEN 0 ELSE n + 1
             /\ kept' \in {kept, n + 1} /\ flushed' = flushed \cup Waiting /\ blind' = blind
    <3>1. i <= n => i < kept \/ i \in Waiting
      BY <1>2, <2>1
    <3>2. i <= n => i < kept' \/ i < offset'
      BY <1>2, <2>1, <2>4, <3>1
    <3> QED BY <1>2, <2>1, <2>2, <2>4, <3>1, <3>2
  <2> QED BY <1>1, <2>3, <2>4
<1>6. ButtonTypes' /\ ButtonsInv'
  BY <1>1, ButtonsStay DEF TInv, ButtonTypes
<1> QED BY <1>4, <1>5, <1>6 DEF TInv

LEMMA GetUpdatesKeeps == TInv /\ GetUpdates => TInv'
<1> SUFFICES ASSUME TInv, GetUpdates PROVE TInv'
  OBVIOUS
<1>1. /\ loop = "poll" /\ kept' \in {kept, First}
      /\ \/ last' = Len(updates) /\ loop' = "batch"
         \/ UNCHANGED <<last, loop>>
      /\ UNCHANGED <<clock, updates, offset, pending, account, flushed, blind, times, shown, runs>>
  BY DEF GetUpdates, history
<1>2. /\ First \in 1 .. Len(updates) + 1 /\ Len(updates) \in Nat
      /\ \A i \in Int : i < First <=> Past(i)
  BY FirstIsNext DEF TInv, LoopTypes
<1>3. LoopTypes'
  BY <1>1, <1>2 DEF TInv, LoopTypes
<1>4. \A i \in UpdateIds : i < kept' \/ i < offset' <=> Past(i)
  <2> SUFFICES ASSUME NEW i \in UpdateIds PROVE i < kept' \/ i < offset <=> Past(i)
    BY <1>1
  <2>1. i \in Int
    BY ConsoleAssumption DEF UpdateIds
  <2> QED BY <1>1, <1>2, <2>1 DEF Past
<1>5. UpdatesInv'
  <2>1. loop # "down" /\ loop' # "down"
    BY <1>1
  <2> HIDE DEF UpdateIds
  <2> QED BY <1>1, <1>4, <2>1 DEF TInv, UpdatesInv, Past
<1>6. ButtonTypes' /\ ButtonsInv'
  BY <1>1, ButtonsStay DEF TInv, ButtonTypes
<1> QED BY <1>3, <1>5, <1>6 DEF TInv

\* The process that dies takes its offset with it.
LEMMA DieKeeps == TInv /\ Die => TInv'
<1> SUFFICES ASSUME TInv, Die PROVE TInv'
  OBVIOUS
<1>1. /\ loop' = "down" /\ offset' = 0 /\ last' = 0 /\ pending' = {}
      /\ UNCHANGED <<clock, updates, kept, account, flushed, blind, times, shown, runs>>
  BY DEF Die, history
<1>2. LoopTypes'
  BY <1>1 DEF TInv, LoopTypes
<1>3. UpdatesInv'
  <2>1. \A i \in UpdateIds : i \in Int /\ ~(i < 0)
    BY ConsoleAssumption DEF UpdateIds
  <2>2. UpdatesInv /\ loop' = "down"
    BY <1>1 DEF TInv
  <2> HIDE DEF UpdateIds
  <2> QED BY <1>1, <2>1, <2>2 DEF UpdatesInv, Past
<1>4. ButtonTypes' /\ ButtonsInv'
  BY <1>1, ButtonsStay DEF TInv, ButtonTypes
<1> QED BY <1>2, <1>3, <1>4 DEF TInv

LEMMA DrainedKeeps == TInv /\ Drained => TInv'
<1> SUFFICES ASSUME TInv, Drained PROVE TInv'
  OBVIOUS
<1>1. /\ loop = "batch" /\ loop' = "poll"
      /\ UNCHANGED <<clock, updates, kept, offset, last, pending, account, flushed, blind, times,
                     shown, runs>>
  BY DEF Drained, history
<1>2. LoopTypes' /\ UpdatesInv'
  BY <1>1 DEF TInv, LoopTypes, UpdatesInv, Past
<1>3. ButtonTypes' /\ ButtonsInv'
  BY <1>1, ButtonsStay DEF TInv, ButtonTypes
<1> QED BY <1>2, <1>3 DEF TInv

LEMMA NextTInv == TInv /\ [TNext]_tvars => TInv'
<1> SUFFICES ASSUME TInv, [TNext]_tvars PROVE TInv'
  OBVIOUS
<1>1. CASE UNCHANGED tvars
  <2>1. UNCHANGED <<clock, updates, kept, loop, offset, last, pending, account, flushed, blind,
                    times, shown, runs>>
    BY <1>1 DEF tvars, process, history
  <2>2. ButtonTypes' /\ ButtonsInv'
    BY <2>1, ButtonsStay DEF TInv, ButtonTypes
  <2> QED BY <2>1, <2>2, LoopStays DEF TInv
<1> QED BY <1>1, WriteKeeps, QuietConsoleKeeps, FlushKeeps, GetUpdatesKeeps, DieKeeps,
           HandleKeeps, RaiseKeeps, DrainedKeeps DEF TNext

\* Every state of the console satisfies the invariant.
THEOREM TInvInvariant == TSpec => []TInv
<1>1. TInit => TInv
  BY InitTInv
<1>2. TInv /\ [TNext]_tvars => TInv'
  BY NextTInv
<1> QED BY <1>1, <1>2, PTL DEF TSpec

\* No update is forgotten that was neither handled nor discarded by a start,
\* and none is handled twice unless a start could not discard what was done.
THEOREM HandledOnce == TSpec => []UpdatesAreHandledOnce
<1>1. TInv => UpdatesAreHandledOnce
  <2> SUFFICES ASSUME TInv, NEW i \in 1 .. Len(updates)
               PROVE  /\ i < kept => times[i] > 0 \/ i \in flushed
                      /\ times[i] <= 1 + blind
    BY DEF UpdatesAreHandledOnce
  <2>1. i \in UpdateIds /\ i <= Len(updates)
    BY ConsoleAssumption DEF TInv, LoopTypes, UpdateIds
  <2> QED BY <2>1 DEF TInv, UpdatesInv, Past
<1> QED BY <1>1, TInvInvariant, PTL

\* A step of the console executes a button as shown.
LEMMA StepAsShown == TInv /\ [TNext]_tvars => [ExecutedAsShown]_tvars
<1> SUFFICES ASSUME TInv, TNext, NEW b \in Buttons, runs'[b] # runs[b]
             PROVE  /\ runs[b] = 0
                    /\ updates[First].button = b /\ updates[First].cmd = "confirm"
                    /\ updates[First].user = shown[b].user /\ shown[b].user \in Executors
                    /\ clock < shown[b].until
                    /\ shown[b].action = "plan" => account = shown[b].basis
                    /\ \A q \in b + 1 .. Len(shown) : shown[q].user # shown[b].user
  BY DEF ExecutedAsShown
<1> DEFINE update == updates[First]
<1>1. Handle /\ Pressed(update)
  <2>1. CASE Handle
    BY <2>1 DEF Handle, Commanded
  <2>2. CASE Write \/ AccountMoves \/ ClockTick \/ Flush \/ GetUpdates \/ Die \/ Raise \/ Drained
    BY <2>2 DEF Write, AccountMoves, ClockTick, Flush, GetUpdates, Die, Raise, Drained, history
  <2> QED BY <2>1, <2>2 DEF TNext
<1>2. ButtonTypes /\ ButtonsInv /\ UNCHANGED clock
  BY <1>1, HandleTakes DEF TInv
<1> QED BY <1>1, <1>2, PressedKeeps

\* What a button executes is what its user was shown with it, in its life, on
\* the account it was made for, and once.
THEOREM ExecutesAsShown == TSpec => ButtonsDoAsShown
BY TInvInvariant, StepAsShown, PTL DEF TSpec, ButtonsDoAsShown

-----------------------------------------------------------------------------
(* The FAST observer                                                       *)

Recorded == [symbol : Symbols, day : Nat, ts : Nat]

ObserverTypes ==
  /\ now \in Nat /\ received \in Nat /\ current \in Nat /\ received <= now
  /\ phase \in {"down", "boot", "idle", "advance", "advanced"}
  /\ group \in BOOLEAN /\ since \in [Symbols -> Nat] /\ broke \in [Symbols -> Nat]
  /\ previous \in [Symbols -> [end : Nat, q : BOOLEAN] \cup {NoWindow}]
  /\ captures \subseteq Recorded /\ IsFiniteSet(captures) /\ active \subseteq captures
  /\ \A o \in outcomes : o = Row(o.capture, o.status, o.ts) /\ o.ts \in Nat
  /\ disk = [captures |-> disk.captures, outcomes |-> disk.outcomes, disabled |-> disk.disabled,
             consumed |-> disk.consumed]
  /\ disk.captures \subseteq captures /\ disk.outcomes \subseteq outcomes
  /\ paper = [paused |-> paper.paused, resumed |-> paper.resumed]
  /\ boot = [step |-> boot.step, arg |-> boot.arg]

\* Between two polls the open window is not over; during one at most two are.
ClockInv ==
  /\ phase \in {"boot", "idle"} => received < current + TEN
  /\ Advancing => received <= current + 2 * TEN

\* What broke a market was forgotten with its window, or is as old as the
\* market's new beginning.
WindowInv ==
  \A s \in Symbols :
    /\ since[s] <= now /\ broke[s] <= now
    /\ group => broke[s] <= current + TEN \/ broke[s] <= since[s]
    /\ previous[s] # NoWindow /\ previous[s].q => broke[s] <= previous[s].end

\* What is young enough to be tracked is tracked, so that a start finds no more
\* than were tracked before it.
TrackInv ==
  /\ Cardinality(active) <= TopN
  /\ \A c \in captures : received <= c.ts + Life => c \in active
  /\ phase \in {"boot", "idle"} => \A c \in active : received <= c.ts + Life

OneADay == \A c, d \in captures : c.symbol = d.symbol /\ c.day = d.day => c = d

\* What is not tracked any more has its outcome.
OutcomeInv ==
  /\ \A o, p \in outcomes : o.capture = p.capture => o = p
  /\ \A o \in outcomes : o.status = IF o.ts <= o.capture.ts + Life THEN "OBSERVED" ELSE "MISSING"
  /\ \A c \in captures : c \in active \/ Settled(c)

\* A stop is in both databases; what a start has left to do agrees with them.
StopInv ==
  /\ disabled = disk.disabled
  /\ word = "stopped" => disabled /\ paper.paused
  /\ phase = "boot" /\ boot.step = "resume" => word # "stopped"
  /\ phase = "boot" /\ boot.step = "pause" => disabled

OInv == ObserverTypes /\ ClockInv /\ WindowInv /\ SignalsAreConfirmed /\ TrackInv /\ OneADay /\ OutcomeInv /\ StopInv

LEMMA LifeType == Life \in Nat /\ Warm \in Nat
BY ObserverAssumption DEF Life, Warm

\* The last whole window began at most a window ago.
LEMMA WindowStart ==
  ASSUME NEW t \in Nat
  PROVE  (t \div TEN) * TEN \in Nat /\ (t \div TEN) * TEN <= t /\ t < (t \div TEN) * TEN + TEN
<1>1. t \div TEN \in Nat /\ t = TEN * (t \div TEN) + (t % TEN) /\ t % TEN \in 0 .. TEN - 1
  BY ObserverAssumption
<1> DEFINE q == t \div TEN
           r == t % TEN
<1>2. TEN * q = q * TEN /\ q * TEN \in Nat
  <2> HIDE DEF q
  <2>1. q \in Nat /\ TEN \in Nat
    BY <1>1, ObserverAssumption DEF q
  <2> QED BY <2>1
<1> DEFINE w == q * TEN
<1>3. w \in Nat /\ t = w + r /\ r \in 0 .. TEN - 1
  BY <1>1, <1>2
<1>4. w <= t /\ t < w + TEN
  <2> HIDE DEF w, r
  <2> QED BY <1>3, ObserverAssumption
<1> QED BY <1>3, <1>4

LEMMA OInitial == OInit => OInv
<1> SUFFICES ASSUME OInit PROVE OInv
  OBVIOUS
<1>1. ObserverTypes
  <2>1. /\ now \in Nat /\ received \in Nat /\ current \in Nat /\ received <= now
        /\ phase = "boot" /\ group = FALSE /\ since \in [Symbols -> Nat] /\ broke \in [Symbols -> Nat]
    BY ObserverAssumption DEF OInit
  <2>2. /\ previous \in [Symbols -> [end : Nat, q : BOOLEAN] \cup {NoWindow}]
        /\ captures = {} /\ active = {} /\ outcomes = {}
    BY DEF OInit
  <2>3. /\ disk = [captures |-> disk.captures, outcomes |-> disk.outcomes, disabled |-> disk.disabled,
                   consumed |-> disk.consumed]
        /\ disk.captures = {} /\ disk.outcomes = {}
        /\ paper = [paused |-> paper.paused, resumed |-> paper.resumed]
        /\ boot = [step |-> boot.step, arg |-> boot.arg]
    BY DEF OInit
  <2> QED BY <2>1, <2>2, <2>3, FS_EmptySet DEF ObserverTypes
<1>2. ClockInv /\ WindowInv /\ SignalsAreConfirmed
  BY ObserverAssumption DEF OInit, ClockInv, WindowInv, SignalsAreConfirmed, Advancing
<1>3. TrackInv
  BY FS_EmptySet, ObserverAssumption DEF OInit, TrackInv
<1>4. OneADay /\ OutcomeInv /\ StopInv
  BY DEF OInit, OneADay, OutcomeInv, StopInv
<1> QED BY <1>1, <1>2, <1>3, <1>4 DEF OInv

\* Nothing that is remembered of captures, outcomes and commands changes.
Steady ==
  /\ received' = received /\ captures' = captures /\ outcomes' = outcomes /\ active' = active
  /\ disabled' = disabled /\ paper' = paper /\ boot' = boot /\ word' = word

LEMMA SteadyKeeps ==
  ASSUME OInv, Steady, phase' = phase, disk'.disabled = disk.disabled
  PROVE  TrackInv' /\ OneADay' /\ OutcomeInv' /\ StopInv'
<1>1. TrackInv'
  BY DEF OInv, TrackInv, Steady
<1>2. OneADay' /\ OutcomeInv'
  BY DEF OInv, OneADay, OutcomeInv, Steady, Settled
<1>3. StopInv'
  BY DEF OInv, StopInv, Steady
<1> QED BY <1>1, <1>2, <1>3

LEMMA TimeKeeps == OInv /\ TimePasses => OInv'
<1> SUFFICES ASSUME OInv, TimePasses PROVE OInv'
  OBVIOUS
<1> USE DEF feed, records, control
<1>1. ObserverTypes'
  BY DEF OInv, ObserverTypes, TimePasses, Row
<1>2. ClockInv' /\ SignalsAreConfirmed'
  BY DEF OInv, TimePasses, ClockInv, SignalsAreConfirmed, Advancing
<1>3. WindowInv'
  BY DEF OInv, TimePasses, WindowInv, ObserverTypes
<1>4. Steady /\ phase' = phase /\ disk' = disk
  BY DEF TimePasses, Steady
<1> QED BY <1>1, <1>2, <1>3, <1>4, SteadyKeeps DEF OInv

LEMMA AdvanceKeeps == OInv /\ Advance => OInv'
<1> SUFFICES ASSUME OInv, Advance PROVE OInv'
  OBVIOUS
<1> USE DEF feed, records, control
<1>0. /\ now' = now /\ received' = now /\ phase' = "advance" /\ phase = "idle" /\ received < now /\ signal' = {}
      /\ UNCHANGED <<captures, outcomes, active, disk, disabled, paper, boot, word>>
  BY DEF Advance
<1>1. ASSUME now - current > 2 * TEN PROVE ObserverTypes' /\ ClockInv' /\ WindowInv'
  <2>1. /\ current' = (now \div TEN) * TEN /\ Broken(Symbols) /\ since' = [s \in Symbols |-> now]
        /\ group' = group
    BY <1>1 DEF Advance
  <2>2. current' \in Nat /\ now <= current' + 2 * TEN
    BY <2>1, WindowStart, ObserverAssumption DEF OInv, ObserverTypes
  <2>3. /\ previous' \in [Symbols -> [end : Nat, q : BOOLEAN] \cup {NoWindow}] /\ broke' \in [Symbols -> Nat]
        /\ since' \in [Symbols -> Nat]
        /\ \A s \in Symbols : since'[s] = now /\ broke'[s] = now /\ previous'[s] = NoWindow
    BY <2>1 DEF Broken, OInv, ObserverTypes
  <2>4. WindowInv'
    BY <1>0, <2>2, <2>3 DEF WindowInv, OInv, ObserverTypes
  <2>5. ObserverTypes'
    BY <1>0, <2>1, <2>2, <2>3 DEF OInv, ObserverTypes, Row
  <2>6. ClockInv'
    BY <1>0, <2>2 DEF ClockInv, Advancing
  <2> QED BY <2>4, <2>5, <2>6
<1>2. ASSUME ~(now - current > 2 * TEN) PROVE ObserverTypes' /\ ClockInv' /\ WindowInv'
  <2>1. UNCHANGED <<current, group, since, previous, broke>>
    BY <1>2 DEF Advance
  <2>2. ObserverTypes'
    BY <1>0, <2>1 DEF OInv, ObserverTypes, Row
  <2>3. WindowInv'
    BY <1>0, <2>1 DEF OInv, WindowInv
  <2>4. ClockInv'
    BY <1>0, <1>2, <2>1, ObserverAssumption DEF ClockInv, Advancing, OInv, ObserverTypes
  <2> QED BY <2>2, <2>3, <2>4
<1>3. TrackInv'
  BY <1>0, LifeType DEF OInv, TrackInv, ObserverTypes, Recorded
<1>4. OneADay' /\ OutcomeInv' /\ StopInv' /\ SignalsAreConfirmed'
  BY <1>0 DEF OInv, OneADay, OutcomeInv, StopInv, SignalsAreConfirmed, Settled
<1> QED BY <1>1, <1>2, <1>3, <1>4 DEF OInv

-----------------------------------------------------------------------------
\* What Evaluate computes, for one choice of the gate and of the markets.
New(chosen) == {[symbol |-> s, day |-> End \div DAY, ts |-> End] : s \in chosen}

LEMMA NewCaptures ==
  ASSUME OInv, NEW chosen \in SUBSET Symbols
  PROVE  /\ New(chosen) \subseteq Recorded /\ IsFiniteSet(New(chosen))
         /\ Cardinality(New(chosen)) <= Cardinality(chosen)
         /\ Cardinality(New(chosen)) \in Nat /\ Cardinality(chosen) \in Nat
         /\ \A c \in New(chosen) : c.symbol \in chosen /\ c.day = End \div DAY /\ c.ts = End
         /\ \A c, d \in New(chosen) : c.symbol = d.symbol => c = d
<1>1. End \in Nat /\ End \div DAY \in Nat
  BY ObserverAssumption DEF OInv, ObserverTypes, End
<1> DEFINE f == [s \in chosen |-> [symbol |-> s, day |-> End \div DAY, ts |-> End]]
<1>2. f \in Surjection(chosen, New(chosen))
  BY DEF Surjection, New
<1>3. IsFiniteSet(chosen)
  BY FS_Subset, ObserverAssumption
<1>4. IsFiniteSet(New(chosen)) /\ Cardinality(New(chosen)) <= Cardinality(chosen)
  BY <1>2, <1>3, FS_Surjection
<1>5. New(chosen) \subseteq Recorded
  BY <1>1 DEF New, Recorded
<1>6. /\ \A c \in New(chosen) : c.symbol \in chosen /\ c.day = End \div DAY /\ c.ts = End
      /\ \A c, d \in New(chosen) : c.symbol = d.symbol => c = d
  BY DEF New
<1> QED BY <1>3, <1>4, <1>5, <1>6, FS_CardinalityType

LEMMA EvaluateKeeps == OInv /\ Evaluate => OInv'
<1> SUFFICES ASSUME OInv, Evaluate PROVE OInv'
  OBVIOUS
<1> USE DEF feed, records, control
<1>0. /\ Advancing /\ End <= received /\ current' = End /\ phase' = "advanced" /\ End = current + TEN
      /\ End \in Nat /\ received \in Nat /\ current \in Nat /\ TEN \in Nat \ {0}
      /\ UNCHANGED <<now, received, group, since, outcomes, disk, disabled, paper, boot, word>>
  BY ObserverAssumption DEF Evaluate, End, OInv, ObserverTypes
<1>1. PICK gate \in SUBSET Symbols, qualifies \in SUBSET Symbols :
        LET candidates == {s \in qualifies : Earlier(s, gate) = [end |-> current, q |-> TRUE]}
            fresh == {s \in candidates : ~Captured(s)}
            free == TopN - Cardinality(active)
        IN /\ \A s \in qualifies : Eligible(s, gate)
           /\ group \/ gate = blocked
           /\ blocked' = gate
           /\ broke' = [s \in Symbols |-> IF (s \in gate) = (s \in blocked) THEN broke[s] ELSE End]
           /\ previous' = [s \in Symbols |-> IF group THEN [end |-> End, q |-> s \in qualifies]
                                                      ELSE previous[s]]
           /\ \E chosen \in SUBSET fresh, retried \in SUBSET ((candidates \ fresh) \cap armed) :
              LET new == New(chosen)
              IN /\ Cardinality(chosen) = (IF Cardinality(fresh) < free THEN Cardinality(fresh) ELSE free)
                 /\ captures' = captures \cup new /\ active' = active \cup new
                 /\ signal' = {[end |-> End, received |-> received, broke |-> broke'[s], since |-> since[s]] :
                                 s \in chosen \cup retried}
  BY DEF Evaluate, New
<1> DEFINE candidates == {s \in qualifies : Earlier(s, gate) = [end |-> current, q |-> TRUE]}
           fresh == {s \in candidates : ~Captured(s)}
<1>2. PICK chosen \in SUBSET fresh, retried \in SUBSET ((candidates \ fresh) \cap armed) :
        /\ Cardinality(chosen) <= TopN - Cardinality(active)
        /\ captures' = captures \cup New(chosen) /\ active' = active \cup New(chosen)
        /\ signal' = {[end |-> End, received |-> received, broke |-> broke'[s], since |-> since[s]] :
                        s \in chosen \cup retried}
  <2>1. IsFiniteSet(fresh) /\ IsFiniteSet(active)
    BY FS_Subset, ObserverAssumption DEF OInv, ObserverTypes
  <2>2. Cardinality(fresh) \in Nat /\ Cardinality(active) \in Nat /\ TopN \in Nat
    BY <2>1, FS_CardinalityType, ObserverAssumption
  <2>3. PICK chosen \in SUBSET fresh, retried \in SUBSET ((candidates \ fresh) \cap armed) :
          /\ Cardinality(chosen) = (IF Cardinality(fresh) < TopN - Cardinality(active)
                                       THEN Cardinality(fresh) ELSE TopN - Cardinality(active))
          /\ captures' = captures \cup New(chosen) /\ active' = active \cup New(chosen)
          /\ signal' = {[end |-> End, received |-> received, broke |-> broke'[s], since |-> since[s]] :
                          s \in chosen \cup retried}
    BY <1>1
  <2>4. Cardinality(chosen) <= TopN - Cardinality(active)
    <3> HIDE DEF fresh
    <3> QED BY <2>2, <2>3
  <2> QED BY <2>3, <2>4
<1>3. chosen \subseteq Symbols
  OBVIOUS
<1>4. /\ previous' \in [Symbols -> [end : Nat, q : BOOLEAN] \cup {NoWindow}] /\ broke' \in [Symbols -> Nat]
  BY <1>0, <1>1 DEF OInv, ObserverTypes
<1>5. ObserverTypes'
  <2>1. captures' \subseteq Recorded /\ IsFiniteSet(captures') /\ active' \subseteq captures' /\ captures \subseteq captures'
    BY <1>2, <1>3, NewCaptures, FS_Union DEF OInv, ObserverTypes
  <2> QED BY <1>0, <1>4, <2>1 DEF OInv, ObserverTypes, Row
<1>6. ClockInv'
  BY <1>0 DEF OInv, ClockInv, Advancing
<1>7. ASSUME NEW s \in qualifies
      PROVE  group /\ since[s] <= current /\ broke[s] <= End /\ s \in Symbols
  <2>1. group /\ since[s] <= End - Warm
    BY <1>1 DEF Eligible
  <2> QED BY <1>0, <2>1 DEF OInv, WindowInv, ObserverTypes, Warm
<1>8. WindowInv'
  <2> SUFFICES ASSUME NEW s \in Symbols
               PROVE  /\ since[s] <= now /\ broke'[s] <= now
                      /\ group => broke'[s] <= End + TEN \/ broke'[s] <= since[s]
                      /\ previous'[s] # NoWindow /\ previous'[s].q => broke'[s] <= previous'[s].end
    BY <1>0 DEF WindowInv
  <2>1. /\ since[s] <= now /\ broke[s] <= now /\ broke[s] \in Nat /\ since[s] \in Nat /\ now \in Nat
        /\ group => broke[s] <= current + TEN \/ broke[s] <= since[s]
        /\ received <= now
    BY DEF OInv, WindowInv, ObserverTypes
  <2>2. broke'[s] = broke[s] \/ broke'[s] = End
    BY <1>1
  <2>3. CASE group
    <3>1. previous'[s] = [end |-> End, q |-> s \in qualifies]
      BY <1>1, <2>3
    <3>2. previous'[s].end = End /\ (previous'[s].q => s \in qualifies)
      <4>1. previous'[s].end = End
        BY <3>1
      <4>2. previous'[s].q = (s \in qualifies)
        BY <3>1
      <4> QED BY <4>1, <4>2, Zenon
    <3>3. s \in qualifies => broke'[s] <= End
      BY <1>0, <1>7, <2>1, <2>2
    <3>4. broke'[s] <= now /\ (broke'[s] <= End + TEN \/ broke'[s] <= since[s])
      BY <1>0, <2>1, <2>2, <2>3
    <3> QED BY <2>1, <3>2, <3>3, <3>4
  <2>4. CASE ~group
    <3>1. previous'[s] = previous[s] /\ broke'[s] = broke[s]
      BY <1>1, <2>4
    <3>2. previous[s] # NoWindow /\ previous[s].q => broke[s] <= previous[s].end
      BY DEF OInv, WindowInv
    <3> QED BY <2>1, <2>4, <3>1, <3>2
  <2> QED BY <2>3, <2>4
<1>9. SignalsAreConfirmed'
  <2> SUFFICES ASSUME NEW s \in candidates
               PROVE  /\ broke'[s] <= End - TEN /\ since[s] <= End - Warm
                      /\ received - End \in 0 .. TEN
    BY <1>2 DEF SignalsAreConfirmed
  <2>0. NoWindow # [end |-> current, q |-> TRUE]
    <3>1. [end |-> current, q |-> TRUE] \in [end : Nat, q : BOOLEAN]
      BY <1>0
    <3> QED BY <3>1, ObserverAssumption
  <2>1. (s \in gate) = (s \in blocked) /\ previous[s] = [end |-> current, q |-> TRUE] /\ s \in Symbols
    BY <2>0 DEF Earlier
  <2>2. previous[s] # NoWindow /\ previous[s].q /\ previous[s].end = current
    BY <2>0, <2>1
  <2>3. broke'[s] = broke[s] /\ broke[s] <= current
    BY <1>1, <2>1, <2>2 DEF OInv, WindowInv
  <2>4. received <= current + 2 * TEN
    BY <1>0 DEF OInv, ClockInv
  <2>5. since[s] \in Nat /\ broke[s] \in Nat
    BY <1>7 DEF OInv, ObserverTypes
  <2> QED BY <1>0, <1>7, <2>3, <2>4, <2>5 DEF Warm
<1>10. TrackInv'
  <2>1. IsFiniteSet(active) /\ IsFiniteSet(New(chosen))
    BY <1>3, NewCaptures, FS_Subset DEF OInv, ObserverTypes
  <2>2. /\ Cardinality(active') <= Cardinality(active) + Cardinality(New(chosen))
        /\ Cardinality(active') \in Nat /\ Cardinality(active) \in Nat
    <3>1. IsFiniteSet(active \cap New(chosen)) /\ IsFiniteSet(active \cup New(chosen))
      BY <2>1, FS_Intersection, FS_Union
    <3>2. /\ Cardinality(active \cap New(chosen)) \in Nat /\ Cardinality(active \cup New(chosen)) \in Nat
          /\ Cardinality(active) \in Nat /\ Cardinality(New(chosen)) \in Nat
      BY <2>1, <3>1, FS_CardinalityType
    <3>3. Cardinality(active \cup New(chosen))
            = Cardinality(active) + Cardinality(New(chosen)) - Cardinality(active \cap New(chosen))
      BY <2>1, FS_Union
    <3> QED BY <1>2, <3>2, <3>3
  <2>3. Cardinality(active') <= TopN
    BY <1>2, <1>3, <2>2, NewCaptures, ObserverAssumption
  <2> QED BY <1>0, <1>2, <2>3 DEF OInv, TrackInv
<1>11. OneADay'
  <2>1. ASSUME NEW c \in captures, NEW d \in New(chosen) PROVE ~(c.symbol = d.symbol /\ c.day = d.day)
    <3>1. d.symbol \in fresh /\ d.day = End \div DAY
      BY <1>3, NewCaptures
    <3> QED BY <3>1 DEF Captured
  <2>2. \A c, d \in New(chosen) : c.symbol = d.symbol => c = d
    BY <1>3, NewCaptures
  <2> QED BY <1>2, <2>1, <2>2 DEF OInv, OneADay
<1>12. OutcomeInv'
  BY <1>0, <1>2 DEF OInv, OutcomeInv, Settled
<1>13. StopInv'
  BY <1>0 DEF OInv, StopInv, Advancing
<1> QED BY <1>5, <1>6, <1>8, <1>9, <1>10, <1>11, <1>12, <1>13 DEF OInv

LEMMA EvaluateStoppedKeeps == OInv /\ EvaluateStopped => OInv'
<1> SUFFICES ASSUME OInv, EvaluateStopped PROVE OInv'
  OBVIOUS
<1> USE DEF feed, records, control
<1>0. /\ Advancing /\ End <= received /\ current' = current + TEN /\ phase' = "advanced"
      /\ End = current + TEN /\ TEN \in Nat \ {0}
      /\ UNCHANGED <<now, received, feed, records, control, signal>>
  BY ObserverAssumption DEF EvaluateStopped, End
<1>1. ObserverTypes'
  BY <1>0 DEF OInv, ObserverTypes, Row
<1>2. ClockInv' /\ SignalsAreConfirmed'
  BY <1>0 DEF OInv, ClockInv, Advancing, ObserverTypes, SignalsAreConfirmed
<1>3. WindowInv'
  BY <1>0 DEF OInv, WindowInv, ObserverTypes
<1>4. TrackInv' /\ OneADay' /\ OutcomeInv' /\ StopInv'
  BY <1>0 DEF OInv, TrackInv, OneADay, OutcomeInv, StopInv, Settled
<1> QED BY <1>1, <1>2, <1>3, <1>4 DEF OInv

-----------------------------------------------------------------------------
\* Outcomes are added for captures that have none.
LEMMA OutcomesGrow ==
  ASSUME OInv, NEW C \in SUBSET captures, NEW status, NEW t \in Nat,
         \A c \in C : ~Settled(c) /\ status = IF t <= c.ts + Life THEN "OBSERVED" ELSE "MISSING",
         outcomes' = outcomes \cup {Row(c, status, t) : c \in C}
  PROVE  /\ \A o \in outcomes' : o = Row(o.capture, o.status, o.ts) /\ o.ts \in Nat
         /\ outcomes \subseteq outcomes'
         /\ \A o, p \in outcomes' : o.capture = p.capture => o = p
         /\ \A o \in outcomes' : o.status = IF o.ts <= o.capture.ts + Life THEN "OBSERVED" ELSE "MISSING"
         /\ \A c : Settled(c)' <=> Settled(c) \/ c \in C
<1> DEFINE new == {Row(c, status, t) : c \in C}
<1>1. \A o \in new : o.capture \in C /\ o = Row(o.capture, status, t) /\ o.ts = t /\ o.status = status
  BY DEF Row
<1>2. \A c \in C : Row(c, status, t) \in new /\ Row(c, status, t).capture = c
  BY DEF Row
<1>3. \A o \in new, p \in outcomes : o.capture # p.capture
  BY <1>1 DEF Settled
<1>4. \A o, p \in new : o.capture = p.capture => o = p
  BY <1>1
<1>5. outcomes' = outcomes \cup new
  OBVIOUS
<1> HIDE DEF new
<1>6. \A c : Settled(c)' <=> Settled(c) \/ c \in C
  BY <1>1, <1>2, <1>5 DEF Settled
<1> QED BY <1>1, <1>3, <1>4, <1>5, <1>6 DEF OInv, OutcomeInv, ObserverTypes

LEMMA SettleKeeps == OInv /\ Settle => OInv'
<1> SUFFICES ASSUME OInv, Settle PROVE OInv'
  OBVIOUS
<1> USE DEF feed, records, control
<1> DEFINE C == {x \in active : received > x.ts + Life /\ ~Settled(x)}
<1>0. /\ Advancing /\ End > received /\ phase' = "idle" /\ End = current + TEN
      /\ outcomes' = outcomes \cup {Row(c, "MISSING", received) : c \in C}
      /\ active' = {c \in active : received <= c.ts + Life}
      /\ disk' = (IF phase = "advanced" THEN [disk EXCEPT !.captures = captures, !.outcomes = outcomes'] ELSE disk)
      /\ UNCHANGED <<now, received, current, feed, captures, control, signal>>
  BY DEF Settle, End
<1>1. C \in SUBSET captures /\ received \in Nat /\ Life \in Nat /\ \A c \in captures : c.ts \in Nat
  BY LifeType DEF OInv, ObserverTypes, Recorded
<1>2. /\ \A o \in outcomes' : o = Row(o.capture, o.status, o.ts) /\ o.ts \in Nat
      /\ outcomes \subseteq outcomes'
      /\ \A o, p \in outcomes' : o.capture = p.capture => o = p
      /\ \A o \in outcomes' : o.status = IF o.ts <= o.capture.ts + Life THEN "OBSERVED" ELSE "MISSING"
      /\ \A c : Settled(c)' <=> Settled(c) \/ c \in C
  <2>1. \A c \in C : ~Settled(c) /\ "MISSING" = IF received <= c.ts + Life THEN "OBSERVED" ELSE "MISSING"
    BY <1>1
  <2> HIDE DEF C
  <2> QED BY <1>0, <1>1, <2>1, OutcomesGrow
<1>3. /\ disk' = [captures |-> disk'.captures, outcomes |-> disk'.outcomes, disabled |-> disk.disabled,
                  consumed |-> disk'.consumed]
      /\ disk'.captures \subseteq captures /\ disk'.outcomes \subseteq outcomes' /\ disk'.disabled = disk.disabled
  BY <1>0, <1>2 DEF OInv, ObserverTypes
<1>4. ObserverTypes'
  BY <1>0, <1>2, <1>3 DEF OInv, ObserverTypes
<1>5. ClockInv' /\ SignalsAreConfirmed' /\ WindowInv'
  BY <1>0 DEF OInv, ClockInv, SignalsAreConfirmed, WindowInv, Advancing
<1>6. TrackInv'
  <2>1. active' \subseteq active /\ IsFiniteSet(active)
    BY <1>0, FS_Subset DEF OInv, ObserverTypes
  <2>2. Cardinality(active') <= Cardinality(active) /\ Cardinality(active') \in Nat /\ Cardinality(active) \in Nat
    BY <2>1, FS_Subset, FS_CardinalityType
  <2> QED BY <1>0, <1>1, <2>2, ObserverAssumption DEF OInv, TrackInv
<1>7. OutcomeInv'
  <2>1. \A c \in captures : c \in active' \/ Settled(c)'
    BY <1>0, <1>1, <1>2 DEF OInv, OutcomeInv
  <2> QED BY <1>0, <1>2, <2>1 DEF OutcomeInv
<1>8. OneADay' /\ StopInv'
  BY <1>0, <1>3 DEF OInv, OneADay, StopInv
<1> QED BY <1>4, <1>5, <1>6, <1>7, <1>8 DEF OInv

-----------------------------------------------------------------------------
(* Messages and breaks                                                     *)

LEMMA TradeKeeps == \A s \in Symbols : OInv /\ Trade(s) => OInv'
<1> SUFFICES ASSUME NEW s \in Symbols, OInv, Trade(s) PROVE OInv'
  OBVIOUS
<1> USE DEF feed, records, control
<1> DEFINE C == {x \in active : x.symbol = s /\ now \in (x.ts + Horizon) .. (x.ts + Life) /\ ~Settled(x)}
<1>0. /\ outcomes' = outcomes \cup {Row(c, "OBSERVED", now) : c \in C}
      /\ UNCHANGED <<now, phase, received, current, feed, captures, active, disk, control, signal>>
  BY DEF Trade
<1>1. C \in SUBSET captures /\ now \in Nat /\ Life \in Nat /\ Horizon \in Nat /\ \A c \in captures : c.ts \in Nat
  BY LifeType, ObserverAssumption DEF OInv, ObserverTypes, Recorded
<1>2. /\ \A o \in outcomes' : o = Row(o.capture, o.status, o.ts) /\ o.ts \in Nat
      /\ outcomes \subseteq outcomes'
      /\ \A o, p \in outcomes' : o.capture = p.capture => o = p
      /\ \A o \in outcomes' : o.status = IF o.ts <= o.capture.ts + Life THEN "OBSERVED" ELSE "MISSING"
      /\ \A c : Settled(c)' <=> Settled(c) \/ c \in C
  <2>1. \A c \in C : ~Settled(c) /\ "OBSERVED" = IF now <= c.ts + Life THEN "OBSERVED" ELSE "MISSING"
    BY <1>1
  <2> HIDE DEF C
  <2> QED BY <1>0, <1>1, <2>1, OutcomesGrow
<1>3. ObserverTypes'
  BY <1>0, <1>2 DEF OInv, ObserverTypes
<1>4. ClockInv' /\ SignalsAreConfirmed' /\ WindowInv' /\ TrackInv' /\ OneADay' /\ StopInv'
  BY <1>0 DEF OInv, ClockInv, SignalsAreConfirmed, WindowInv, Advancing, TrackInv, OneADay, StopInv
<1>5. OutcomeInv'
  <2>1. \A c \in captures : c \in active \/ Settled(c)'
    BY <1>2 DEF OInv, OutcomeInv
  <2> QED BY <1>0, <1>2, <2>1 DEF OutcomeInv
<1> QED BY <1>3, <1>4, <1>5 DEF OInv

\* The data of some markets breaks between two polls; what there is may be
\* committed.
LEMMA BreakKeeps ==
  ASSUME OInv, NEW S \in SUBSET Symbols, Broken(S), phase = "idle", phase' = phase, now' = now, current' = current,
         group' \in BOOLEAN, since' \in [Symbols -> Nat], signal' = signal,
         \A s \in Symbols : since'[s] = since[s] \/ since'[s] = now,
         \A s \in Symbols : group' => \/ since'[s] = now
                                      \/ group /\ since'[s] = since[s] /\ (s \in S => now <= current + TEN),
         Steady,
         disk' \in {disk, [disk EXCEPT !.captures = captures, !.outcomes = outcomes]}
  PROVE  OInv'
<1>1. /\ previous' \in [Symbols -> [end : Nat, q : BOOLEAN] \cup {NoWindow}]
      /\ broke' \in [Symbols -> Nat]
  BY DEF OInv, ObserverTypes, Broken
<1>2. ASSUME NEW s \in Symbols
      PROVE  /\ since'[s] <= now /\ broke'[s] <= now
             /\ group' => broke'[s] <= current + TEN \/ broke'[s] <= since'[s]
             /\ previous'[s] # NoWindow /\ previous'[s].q => broke'[s] <= previous'[s].end
  <2>1. broke'[s] = (IF s \in S THEN now ELSE broke[s])
        /\ previous'[s] = (IF s \in S THEN NoWindow ELSE previous[s])
    BY DEF Broken
  <2>2. /\ since[s] <= now /\ broke[s] <= now /\ now \in Nat /\ broke[s] \in Nat /\ since[s] \in Nat
        /\ group => broke[s] <= current + TEN \/ broke[s] <= since[s]
    BY DEF OInv, WindowInv, ObserverTypes
  <2>3. since'[s] <= now /\ broke'[s] <= now
    BY <2>1, <2>2
  <2>4. group' => broke'[s] <= current + TEN \/ broke'[s] <= since'[s]
    BY <2>1, <2>2, <2>3
  <2>5. previous'[s] # NoWindow /\ previous'[s].q => broke'[s] <= previous'[s].end
    BY <2>1 DEF OInv, WindowInv
  <2> QED BY <2>3, <2>4, <2>5
<1>3. WindowInv'
  BY <1>2 DEF WindowInv
<1>4. /\ disk' = [captures |-> disk'.captures, outcomes |-> disk'.outcomes, disabled |-> disk.disabled,
                  consumed |-> disk'.consumed]
      /\ disk'.captures \subseteq captures /\ disk'.outcomes \subseteq outcomes /\ disk'.disabled = disk.disabled
  BY DEF OInv, ObserverTypes
<1>5. ObserverTypes'
  BY <1>1, <1>4 DEF OInv, ObserverTypes, Steady, Row
<1>6. ClockInv' /\ SignalsAreConfirmed'
  BY DEF OInv, ClockInv, SignalsAreConfirmed, Steady, Advancing
<1> QED BY <1>3, <1>4, <1>5, <1>6, SteadyKeeps DEF OInv

LEMMA MessageKeeps == \A s \in Symbols : OInv /\ (StaleMessage(s) \/ InvalidSymbol(s)) => OInv'
<1> SUFFICES ASSUME NEW s \in Symbols, OInv, StaleMessage(s) \/ InvalidSymbol(s) PROVE OInv'
  OBVIOUS
<1> USE DEF feed, records, control
<1>1. /\ phase = "idle" /\ phase' = phase /\ received = now /\ group = TRUE /\ Broken({s})
      /\ UNCHANGED <<now, current, group, disk, signal>> /\ Steady
      /\ since' \in {since, [since EXCEPT ![s] = now]}
  BY DEF StaleMessage, InvalidSymbol, Ready, Steady, OInv, ObserverTypes
<1>2. /\ since' \in [Symbols -> Nat] /\ now <= current + TEN
      /\ \A t \in Symbols : since'[t] = since[t] \/ since'[t] = now
  BY <1>1, ObserverAssumption DEF OInv, ObserverTypes, ClockInv
<1> QED BY <1>1, <1>2, BreakKeeps

LEMMA GapKeeps == OInv /\ GroupGap => OInv'
<1> SUFFICES ASSUME OInv, GroupGap PROVE OInv'
  OBVIOUS
<1> USE DEF feed, records, control
<1>1. /\ phase = "idle" /\ phase' = phase /\ group' = FALSE /\ Broken(Symbols)
      /\ UNCHANGED <<now, current, since, signal>> /\ Steady
      /\ disk' = [disk EXCEPT !.captures = captures, !.outcomes = outcomes]
  BY DEF GroupGap, Steady
<1>2. since \in [Symbols -> Nat]
  BY DEF OInv, ObserverTypes
<1> QED BY <1>1, <1>2, BreakKeeps

LEMMA ConnectedKeeps == OInv /\ Connected => OInv'
<1> SUFFICES ASSUME OInv, Connected PROVE OInv'
  OBVIOUS
<1> USE DEF feed, records, control
<1>1. /\ phase = "idle" /\ phase' = phase /\ group' = TRUE /\ Broken(Symbols)
      /\ since' = [s \in Symbols |-> now]
      /\ UNCHANGED <<now, current, signal, disk>> /\ Steady
  BY DEF Connected, Steady
<1>2. since' \in [Symbols -> Nat]
  BY <1>1 DEF OInv, ObserverTypes
<1> QED BY <1>1, <1>2, BreakKeeps

-----------------------------------------------------------------------------
(* Start, stop and restart                                                 *)

LEMMA KilledKeeps == OInv /\ Killed => OInv'
<1> SUFFICES ASSUME OInv, Killed PROVE OInv'
  OBVIOUS
<1> USE DEF feed, records, control
<1>0. phase' = "down" /\ signal' = {} /\ UNCHANGED <<now, received, current, feed, records, control>>
  BY DEF Killed
<1>1. ObserverTypes'
  BY <1>0 DEF OInv, ObserverTypes, Row
<1>2. ClockInv' /\ SignalsAreConfirmed' /\ WindowInv' /\ TrackInv' /\ OneADay' /\ OutcomeInv' /\ StopInv'
  BY <1>0 DEF OInv, ClockInv, SignalsAreConfirmed, WindowInv, Advancing, TrackInv, OneADay, OutcomeInv, Settled, StopInv
<1> QED BY <1>1, <1>2 DEF OInv

LEMMA StartKeeps == OInv /\ StartProcess => OInv'
<1> SUFFICES ASSUME OInv, StartProcess PROVE OInv'
  OBVIOUS
<1> USE DEF feed, records, control
<1> DEFINE C == Overdue(disk.captures, disk.outcomes)
           new == {Row(c, "MISSING", now) : c \in C}
<1>0. /\ phase' = "boot" /\ received' = now /\ current' = (now \div TEN) * TEN
      /\ captures' = disk.captures /\ disabled' = disk.disabled
      /\ outcomes' = disk.outcomes \cup new
      /\ active' = {c \in disk.captures : c.ts + Life >= now}
      /\ disk' = [disk EXCEPT !.outcomes = outcomes']
      /\ group' = FALSE /\ since' = [s \in Symbols |-> now]
      /\ UNCHANGED <<now, paper, word, signal>>
  BY DEF StartProcess
<1>1. boot'.step = "command" /\ boot' = [step |-> boot'.step, arg |-> boot'.arg]
  BY DEF StartProcess
<1>2. /\ \A s \in Symbols : previous'[s] = NoWindow /\ broke'[s] = now
      /\ previous' \in [Symbols -> [end : Nat, q : BOOLEAN] \cup {NoWindow}] /\ broke' \in [Symbols -> Nat]
      /\ since' \in [Symbols -> Nat] /\ \A s \in Symbols : since'[s] = now
  BY <1>0 DEF StartProcess, Broken, OInv, ObserverTypes
<1>3. /\ C \subseteq disk.captures /\ now \in Nat /\ Life \in Nat /\ received <= now /\ received \in Nat
      /\ \A c \in captures : c.ts \in Nat
      /\ disk.captures \subseteq captures /\ disk.outcomes \subseteq outcomes
      /\ \A c \in C : c.ts + Life < now /\ ~ \E o \in disk.outcomes : o.capture = c
  BY LifeType DEF OInv, ObserverTypes, Recorded, Overdue
<1>4. /\ \A o \in new : o.capture \in C /\ o = Row(o.capture, "MISSING", now) /\ o.ts = now /\ o.status = "MISSING"
      /\ \A c \in C : Row(c, "MISSING", now) \in new /\ Row(c, "MISSING", now).capture = c
  BY DEF Row
<1> HIDE DEF new
<1>5. ObserverTypes'
  <2>1. /\ \A o \in outcomes' : o = Row(o.capture, o.status, o.ts) /\ o.ts \in Nat
    BY <1>0, <1>3, <1>4 DEF OInv, ObserverTypes
  <2>2. current' \in Nat
    BY <1>0, <1>3, WindowStart
  <2>3. /\ disk' = [captures |-> disk'.captures, outcomes |-> disk'.outcomes, disabled |-> disk'.disabled,
                    consumed |-> disk'.consumed]
        /\ disk'.captures = disk.captures /\ disk'.outcomes = outcomes'
    BY <1>0 DEF OInv, ObserverTypes
  <2>4. captures' \subseteq Recorded /\ IsFiniteSet(captures') /\ active' \subseteq captures'
    BY <1>0, <1>3, FS_Subset DEF OInv, ObserverTypes
  <2>5. now' \in Nat /\ received' \in Nat /\ received' <= now' /\ phase' \in {"down", "boot", "idle", "advance", "advanced"}
    BY <1>0, <1>3
  <2>6. group' \in BOOLEAN /\ since' \in [Symbols -> Nat] /\ broke' \in [Symbols -> Nat]
        /\ previous' \in [Symbols -> [end : Nat, q : BOOLEAN] \cup {NoWindow}]
    BY <1>0, <1>2
  <2>7. disk'.captures \subseteq captures' /\ disk'.outcomes \subseteq outcomes'
    BY <1>0, <2>3
  <2>8. paper' = [paused |-> paper'.paused, resumed |-> paper'.resumed] /\ boot' = [step |-> boot'.step, arg |-> boot'.arg]
    BY <1>0, <1>1 DEF OInv, ObserverTypes
  <2> QED BY <2>1, <2>2, <2>3, <2>4, <2>5, <2>6, <2>7, <2>8 DEF ObserverTypes
<1>6. ClockInv' /\ SignalsAreConfirmed' /\ WindowInv'
  <2>1. received' < current' + TEN
    BY <1>0, <1>3, WindowStart
  <2> QED BY <1>0, <1>2, <1>3, <2>1 DEF OInv, ClockInv, SignalsAreConfirmed, WindowInv, Advancing
<1>7. TrackInv'
  <2>1. active' \subseteq active /\ IsFiniteSet(active)
    BY <1>0, <1>3, FS_Subset DEF OInv, ObserverTypes, TrackInv
  <2>2. Cardinality(active') <= Cardinality(active) /\ Cardinality(active') \in Nat /\ Cardinality(active) \in Nat
    BY <2>1, FS_Subset, FS_CardinalityType
  <2> QED BY <1>0, <1>3, <2>2, ObserverAssumption DEF OInv, TrackInv
<1>8. OutcomeInv'
  <2>1. ASSUME NEW o \in outcomes', NEW p \in outcomes', o.capture = p.capture PROVE o = p
    BY <1>0, <1>3, <1>4, <2>1 DEF OInv, OutcomeInv
  <2>2. ASSUME NEW o \in outcomes'
        PROVE  o.status = IF o.ts <= o.capture.ts + Life THEN "OBSERVED" ELSE "MISSING"
    BY <1>0, <1>3, <1>4 DEF OInv, OutcomeInv
  <2>3. ASSUME NEW c \in disk.captures, c \notin active' PROVE Settled(c)'
    <3>1. CASE c \in C
      BY <1>0, <1>4, <3>1 DEF Settled
    <3>2. CASE c \notin C
      <4>1. c.ts + Life < now
        BY <1>0, <1>3, <2>3
      <4>2. \E o \in disk.outcomes : o.capture = c
        BY <3>2, <4>1 DEF Overdue
      <4> QED BY <1>0, <4>2 DEF Settled
    <3> QED BY <3>1, <3>2
  <2> QED BY <1>0, <2>1, <2>2, <2>3 DEF OutcomeInv
<1>9. OneADay' /\ StopInv'
  BY <1>0, <1>1, <1>3 DEF OInv, OneADay, StopInv, ObserverTypes
<1> QED BY <1>5, <1>6, <1>7, <1>8, <1>9 DEF OInv

\* The steps of a start change the stop only; they may forget the windows.
LEMMA BootKeeps ==
  ASSUME OInv, UNCHANGED Rest, phase = "boot", phase' \in {"boot", "down", "idle"},
         \/ previous' = previous \/ previous' = [s \in Symbols |-> NoWindow],
         \/ disk' = disk
         \/ disk' = [disk EXCEPT !.disabled = disk'.disabled]
         \/ disk' = [disk EXCEPT !.disabled = disk'.disabled, !.consumed = disk'.consumed],
         paper' = [paused |-> paper'.paused, resumed |-> paper'.resumed],
         boot' = [step |-> boot'.step, arg |-> boot'.arg],
         StopInv'
  PROVE  OInv'
<1> USE DEF Rest
<1>1. /\ disk' = [captures |-> disk'.captures, outcomes |-> disk'.outcomes, disabled |-> disk'.disabled,
                  consumed |-> disk'.consumed]
      /\ disk'.captures = disk.captures /\ disk'.outcomes = disk.outcomes
  BY DEF OInv, ObserverTypes
<1>2. ObserverTypes'
  BY <1>1 DEF OInv, ObserverTypes, Row
<1>3. ClockInv' /\ SignalsAreConfirmed' /\ TrackInv' /\ OneADay' /\ OutcomeInv'
  BY DEF OInv, ClockInv, SignalsAreConfirmed, Advancing, TrackInv, OneADay, OutcomeInv, Settled
<1>4. WindowInv'
  BY DEF OInv, WindowInv
<1> QED BY <1>2, <1>3, <1>4 DEF OInv

-----------------------------------------------------------------------------
LEMMA ResumeKeeps == OInv /\ (ResumePaper \/ ResumeObserver \/ SkipResume) => OInv'
<1> SUFFICES ASSUME OInv, ResumePaper \/ ResumeObserver \/ SkipResume PROVE OInv'
  OBVIOUS
<1>0. /\ disk = [captures |-> disk.captures, outcomes |-> disk.outcomes, disabled |-> disk.disabled,
                 consumed |-> disk.consumed]
      /\ paper = [paused |-> paper.paused, resumed |-> paper.resumed]
      /\ boot = [step |-> boot.step, arg |-> boot.arg]
      /\ DOMAIN previous = Symbols
  BY DEF OInv, ObserverTypes
<1>1. CASE ResumePaper
  <2>1. /\ UNCHANGED <<Rest, previous, disk, disabled>> /\ phase = "boot" /\ phase' \in {"boot", "down"}
        /\ paper' = [paused |-> paper'.paused, resumed |-> paper'.resumed]
        /\ boot' = [step |-> boot'.step, arg |-> boot'.arg]
    BY <1>0, <1>1 DEF ResumePaper
  <2>2. StopInv'
    <3>1. word' = "stopped" => word = "stopped" /\ paper'.resumed = paper.resumed
      BY <1>1 DEF ResumePaper
    <3>2. word' = "stopped" => paper' = paper /\ boot'.step # "resume"
      BY <1>0, <1>1, <3>1 DEF ResumePaper, Resumable, OInv, StopInv
    <3>3. boot'.step # "pause"
      BY <1>0, <1>1 DEF ResumePaper
    <3> QED BY <2>1, <3>1, <3>2, <3>3 DEF OInv, StopInv
  <2> QED BY <2>1, <2>2, BootKeeps
<1>2. CASE ResumeObserver
  <2>1. /\ UNCHANGED <<Rest, phase, paper, word>> /\ phase = "boot" /\ boot.step = "resume"
        /\ previous' = [s \in Symbols |-> NoWindow]
        /\ disk' = [disk EXCEPT !.disabled = disk'.disabled, !.consumed = disk'.consumed]
        /\ disk'.disabled = FALSE /\ disabled' = FALSE
        /\ boot' = [step |-> boot'.step, arg |-> boot'.arg] /\ boot'.step = "stop"
    BY <1>0, <1>2 DEF ResumeObserver, Forgotten, Cleared
  <2>2. StopInv'
    BY <2>1 DEF OInv, StopInv
  <2> QED BY <1>0, <2>1, <2>2, BootKeeps
<1>3. CASE SkipResume
  <2>1. /\ UNCHANGED <<Rest, phase, previous, disk, disabled, paper, word>> /\ phase = "boot"
        /\ boot' = [step |-> boot'.step, arg |-> boot'.arg] /\ boot'.step = "stop"
    BY <1>0, <1>3 DEF SkipResume
  <2>2. StopInv'
    BY <2>1 DEF OInv, StopInv
  <2> QED BY <1>0, <2>1, <2>2, BootKeeps
<1> QED BY <1>1, <1>2, <1>3

LEMMA StopKeeps == OInv /\ (DisableObserver \/ PausePaper \/ Run) => OInv'
<1> SUFFICES ASSUME OInv, DisableObserver \/ PausePaper \/ Run PROVE OInv'
  OBVIOUS
<1>0. /\ disk = [captures |-> disk.captures, outcomes |-> disk.outcomes, disabled |-> disk.disabled,
                 consumed |-> disk.consumed]
      /\ paper = [paused |-> paper.paused, resumed |-> paper.resumed]
      /\ boot = [step |-> boot.step, arg |-> boot.arg]
      /\ DOMAIN previous = Symbols
  BY DEF OInv, ObserverTypes
<1>1. CASE DisableObserver
  <2>1. /\ UNCHANGED <<Rest, phase, paper>> /\ phase = "boot" /\ disabled' = TRUE
        /\ previous' = [s \in Symbols |-> NoWindow]
        /\ disk' = [disk EXCEPT !.disabled = disk'.disabled] /\ disk'.disabled = TRUE
        /\ boot' = [step |-> boot'.step, arg |-> boot'.arg] /\ boot'.step = "pause"
        /\ word' = "stopped" => word = "stopped"
    BY <1>0, <1>1 DEF DisableObserver, Forgotten, Cleared
  <2>2. StopInv'
    BY <2>1 DEF OInv, StopInv
  <2> QED BY <1>0, <2>1, <2>2, BootKeeps
<1>2. CASE PausePaper
  <2>1. /\ UNCHANGED <<Rest, previous, disk, disabled>> /\ phase = "boot" /\ boot.step = "pause" /\ phase' = "idle"
        /\ paper' = [paused |-> paper'.paused, resumed |-> paper'.resumed] /\ paper'.paused = TRUE
        /\ boot' = [step |-> boot'.step, arg |-> boot'.arg]
    BY <1>0, <1>2 DEF PausePaper
  <2>2. StopInv'
    BY <2>1 DEF OInv, StopInv
  <2> QED BY <2>1, <2>2, BootKeeps
<1>3. CASE Run
  <2>1. /\ UNCHANGED <<Rest, previous, disk, disabled, paper, word>> /\ phase = "boot" /\ phase' = "idle"
        /\ boot' = [step |-> boot'.step, arg |-> boot'.arg]
    BY <1>0, <1>3 DEF Run
  <2>2. StopInv'
    BY <2>1 DEF OInv, StopInv
  <2> QED BY <1>0, <2>1, <2>2, BootKeeps
<1> QED BY <1>1, <1>2, <1>3

-----------------------------------------------------------------------------
\* The inductive invariant of the observer: between two polls no window and no
\* tracked capture is overdue, what is young enough to be tracked is, and a stop
\* that was carried out is in both databases (magi1/fast_observe.py).
THEOREM OInvInvariant == OSpec => []OInv
<1>1. OInv /\ [ONext]_ovars => OInv'
  <2> SUFFICES ASSUME OInv, [ONext]_ovars PROVE OInv'
    OBVIOUS
  <2>1. CASE ovars' = ovars
    <3> USE <2>1 DEF ovars, feed, records, control
    <3>1. ObserverTypes' /\ ClockInv' /\ WindowInv' /\ SignalsAreConfirmed'
      BY DEF OInv, ObserverTypes, ClockInv, WindowInv, SignalsAreConfirmed, Advancing, Row
    <3>2. TrackInv' /\ OneADay' /\ OutcomeInv' /\ StopInv'
      BY DEF OInv, TrackInv, OneADay, OutcomeInv, StopInv, Settled
    <3> QED BY <3>1, <3>2 DEF OInv
  <2>2. CASE ONext
    BY <2>2, TimeKeeps, AdvanceKeeps, EvaluateKeeps, EvaluateStoppedKeeps, SettleKeeps, TradeKeeps, MessageKeeps,
       GapKeeps, ConnectedKeeps, KilledKeeps, StartKeeps, ResumeKeeps, StopKeeps DEF ONext
  <2> QED BY <2>1, <2>2
<1> QED BY OInitial, <1>1, PTL DEF OSpec

\* For any markets, windows, horizon, breaks, deaths and stalls: a signal rests
\* on two unbroken windows in a row, a market is captured once a day within the
\* number that is tracked, and every capture gets one outcome, observed in time
\* or missing (magi1/fast_observe.py:56, :86, :257, :283 and :379); a stop that
\* was carried out holds in both databases while the observer runs, over any
\* number of starts and of deaths half-way (magi1/fast_observe.py:116).
THEOREM ObserverSound == OSpec => []ObserverIsSound
<1>1. OInv => ObservationsAreHonest
  <2> SUFFICES ASSUME OInv PROVE ObservationsAreHonest
    OBVIOUS
  <2>1. CapturesAreBounded
    BY DEF OInv, OneADay, TrackInv, CapturesAreBounded
  <2>2. ASSUME phase = "idle", NEW c \in captures
        PROVE  /\ received > c.ts + Life => Settled(c)
               /\ \A o, p \in outcomes : o.capture = c /\ p.capture = c => o = p
               /\ \A o \in outcomes : o.capture = c =>
                    o.status = IF o.ts <= c.ts + Life THEN "OBSERVED" ELSE "MISSING"
    <3>1. received \in Nat /\ c.ts + Life \in Nat
      BY LifeType DEF OInv, ObserverTypes, Recorded
    <3> QED BY <2>2, <3>1 DEF OInv, TrackInv, OutcomeInv
  <2> QED BY <2>1, <2>2 DEF ObservationsAreHonest, OutcomesAreSettled, OInv
<1>2. OInv => ObserverStopHolds
  BY DEF OInv, StopInv, ObserverStopHolds
<1> QED BY OInvInvariant, <1>1, <1>2, PTL DEF ObserverIsSound

-----------------------------------------------------------------------------
(* The list of coins                                                       *)

\* Every coin of the list is in one stream, or still to be subscribed.
StreamsInv ==
  /\ \A g, h \in streams : g # h => g \cap h = {}
  /\ \A g \in streams : g \cap joining = {}
  /\ stage \in {"subscribe", "idle"} =>
       /\ \A c : c \in symbols <=> c \in joining \/ \E g \in streams : c \in g
       /\ answer \subseteq symbols
  /\ stage = "idle" => joining = {} /\ meta = symbols

\* Whoever was not there at first is announced, or about to be.
AnnouncedInv ==
  /\ meta # NoUniverse /\ first # NoUniverse => meta \subseteq first \cup announced
  /\ stage = "subscribe" /\ meta # NoUniverse /\ first # NoUniverse => symbols \subseteq first \cup announced \cup added

UInv == stage \in {"down", "subscribe", "idle"} /\ StreamsInv /\ AnnouncedInv

LEMMA UStep == UInv /\ [UNext]_uvars => UInv'
<1> SUFFICES ASSUME UInv, [UNext]_uvars PROVE UInv'
  OBVIOUS
<1> USE DEF observer
<1>1. CASE uvars' = uvars
  BY <1>1 DEF uvars, UInv, StreamsInv, AnnouncedInv
<1>2. CASE Relist
  BY <1>2 DEF Relist, UInv, StreamsInv, AnnouncedInv
<1>3. CASE Start
  <2>1. StreamsInv'
    BY <1>3 DEF Start, StreamsInv
  <2>2. AnnouncedInv'
    BY <1>3 DEF Start, Previous, UInv, AnnouncedInv
  <2> QED BY <1>3, <2>1, <2>2 DEF Start, UInv
<1>4. CASE Subscribe
  <2>1. PICK batch \in SUBSET joining : streams' = streams \cup {batch} /\ joining' = joining \ batch
    BY <1>4 DEF Subscribe
  <2>2. \A g \in streams : g \cap joining = {} /\ g \cap batch = {} /\ g \cap joining' = {}
    BY <2>1 DEF UInv, StreamsInv
  <2>3. \A g, h \in streams' : g # h => g \cap h = {}
    <3>1. \A g, h \in streams : g # h => g \cap h = {}
      BY DEF UInv, StreamsInv
    <3> QED BY <2>1, <2>2, <3>1
  <2>4. \A g \in streams' : g \cap joining' = {}
    BY <2>1, <2>2
  <2>5. StreamsInv'
    <3>1. stage = "subscribe" /\ UNCHANGED <<stage, symbols, answer, meta>>
      BY <1>4 DEF Subscribe
    <3>2. \A c : c \in symbols <=> c \in joining' \/ \E g \in streams' : c \in g
      BY <2>1, <3>1 DEF UInv, StreamsInv
    <3> QED BY <2>3, <2>4, <3>1, <3>2 DEF UInv, StreamsInv
  <2> QED BY <1>4, <2>5 DEF Subscribe, UInv, AnnouncedInv
<1>5. CASE Record
  <2>1. StreamsInv'
    BY <1>5 DEF Record, UInv, StreamsInv
  <2>2. AnnouncedInv'
    BY <1>5 DEF Record, UInv, AnnouncedInv
  <2> QED BY <1>5, <2>1, <2>2 DEF Record, UInv
<1>6. CASE Check
  <2>1. StreamsInv'
    BY <1>6 DEF Check, Extended, UInv, StreamsInv
  <2>2. AnnouncedInv'
    BY <1>6 DEF Check, Extended, UInv, StreamsInv, AnnouncedInv
  <2> QED BY <1>6, <2>1, <2>2 DEF Check, UInv
<1>7. CASE StreamEnds
  BY <1>7 DEF StreamEnds, UInv, StreamsInv, AnnouncedInv
<1> QED BY <1>1, <1>2, <1>3, <1>4, <1>5, <1>6, <1>7 DEF UNext

\* For any coins, listings, batches and deaths: while the process waits, every
\* coin seen listed since its start is in exactly one stream, and nothing joins
\* the universe it keeps without being announced
\* (magi1/fast_universe_watch.py:3, :93 and :101).
THEOREM CoinsOnce == USpec => []EachCoinOnce
<1>1. UInit => UInv
  BY DEF UInit, UInv, StreamsInv, AnnouncedInv
<1>2. UInv => EachCoinOnce
  BY DEF UInv, StreamsInv, AnnouncedInv, EachCoinOnce
<1> QED BY <1>1, <1>2, UStep, PTL DEF USpec

-----------------------------------------------------------------------------
(* The capture audit                                                       *)

AuditTypes ==
  /\ instant \in Nat /\ roundAt \in Nat /\ roundAt <= instant /\ lastId \in Nat /\ cursor \in Nat
  /\ \A r \in src : r.id \in Nat /\ r.id \in 1 .. lastId /\ r.ts \in Nat /\ r.kind \in Kinds
  /\ captured \subseteq Nat /\ buys \subseteq Nat /\ errors \in BOOLEAN
  /\ task \in {"sync", "plan", "build", "file", "claim", "send", "sent", "uncertain"}

\* What is filed is about a session that was over.
ReportInv ==
  /\ \A r \in files : r.session.end \in Int /\ r.session.end + Opening <= instant
  /\ task = "build" => report = ClosedSession(roundAt) /\ Filed(report) = {}
  /\ task = "file" => report.session = ClosedSession(roundAt) /\ Filed(report.session) = {}
  /\ task \in {"claim", "send"} => report \in files

\* What Telegram took was claimed first, and is on disk.
DeliveryInv ==
  /\ \A x \in accepted :
       /\ x.report \in files /\ x.at \in Int /\ x.at >= x.report.session.end + Opening
       /\ \E d \in deliveries : d.start = x.report.session.start
  /\ task = "send" => /\ \A x \in accepted : x.report.session.start # report.session.start
                      /\ \E d \in deliveries : d.start = report.session.start
  /\ \A x, y \in accepted : x.report.session.start = y.report.session.start => x = y

Copied(r) == \E e \in evidence : e.ts = r.ts /\ e.kind = r.kind /\ e.id = r.id
Old(t) == t < instant - 3 * SESSION
CaptureCopied(t) == \E e \in evidence : e.ts = t /\ e.kind = "CAPTURE"

\* A decision is in the archive, or the next round reads it.
ArchiveInv ==
  /\ \A r \in src : r.kind = "CAPTURE" => r.id > From(lastId) \/ Copied(r) \/ Old(r.ts)
  /\ \A t \in captured : CaptureCopied(t) \/ Old(t) \/ \E r \in src : r.kind = "CAPTURE" /\ r.ts = t

\* After a round without errors the captures before it are in the archive.
SyncInv ==
  task \in {"plan", "build"} /\ ~errors =>
    \A t \in captured : t < roundAt => CaptureCopied(t) \/ t < roundAt - 3 * SESSION

Honest(r) ==
  /\ r.verdict = "NOT_CAPTURED" /\ ~r.errors => \A t \in captured : t < r.session.start \/ t >= r.session.end
  /\ r.verdict = "UNKNOWN" => \A t \in buys : t < r.session.start \/ t >= r.session.end

HonestInv ==
  /\ \A r \in files : Honest(r)
  /\ task = "file" => Honest(report)

AuditInv == AuditTypes /\ ReportInv /\ DeliveryInv /\ ArchiveInv /\ SyncInv /\ HonestInv

\* The session a report is about was over and began within three sessions.
LEMMA SessionFacts ==
  ASSUME NEW t \in Nat
  PROVE  /\ ClosedSession(t).start \in Int /\ ClosedSession(t).end \in Int
         /\ ClosedSession(t).end + Opening <= t /\ ClosedSession(t).start > t - 3 * SESSION
<1> DEFINE end == (t \div SESSION) * SESSION
<1>1. end \in Nat /\ end <= t /\ t < end + SESSION
  BY DEF SESSION
<1> HIDE DEF end
<1>2. ClosedSession(t) = IF t - end < Opening THEN [start |-> end - 2 * SESSION, end |-> end - SESSION]
                         ELSE [start |-> end - SESSION, end |-> end]
  BY DEF ClosedSession, end
<1>3. CASE t - end < Opening
  BY <1>1, <1>2, <1>3 DEF SESSION, Opening
<1>4. CASE ~(t - end < Opening)
  BY <1>1, <1>2, <1>4 DEF SESSION, Opening
<1> QED BY <1>3, <1>4

LEMMA AuditInitial == AInit => AuditInv
<1> SUFFICES ASSUME AInit PROVE AuditInv
  OBVIOUS
<1>1. instant = 4 /\ instant \in Nat
  BY DEF AInit, SESSION
<1>2. AuditTypes
  <2>1. instant \in Nat /\ roundAt \in Nat /\ roundAt <= instant /\ lastId \in Nat /\ cursor \in Nat
    BY <1>1 DEF AInit
  <2>2. \A r \in src : r.id \in Nat /\ r.id \in 1 .. lastId /\ r.ts \in Nat /\ r.kind \in Kinds
    BY DEF AInit
  <2> QED BY <2>1, <2>2 DEF AInit, AuditTypes
<1>3. ReportInv
  BY <1>1, SessionFacts DEF AInit, ReportInv
<1>4. DeliveryInv /\ ArchiveInv /\ SyncInv
  BY DEF AInit, DeliveryInv, ArchiveInv, SyncInv
<1>5. HonestInv
  BY DEF AInit, HonestInv, Honest
<1> QED BY <1>2, <1>3, <1>4, <1>5 DEF AuditInv

\* What the worker keeps while the strategy beside it moves.
LEMMA BesideKeeps ==
  ASSUME AuditInv, UNCHANGED Worker, instant' \in Nat, instant <= instant'
  PROVE  ReportInv' /\ DeliveryInv'
<1> USE DEF Worker, archive
<1>1. ReportInv'
  BY DEF AuditInv, AuditTypes, ReportInv, Filed, Opening
<1>2. DeliveryInv'
  BY DEF AuditInv, DeliveryInv
<1> QED BY <1>1, <1>2

LEMMA TimeGoesOnKeeps == AuditInv /\ TimeGoesOn => AuditInv'
<1> SUFFICES ASSUME AuditInv, TimeGoesOn PROVE AuditInv'
  OBVIOUS
<1> USE DEF Worker, archive
<1>1. /\ instant' = instant + 1 /\ instant \in Nat
      /\ src' = {r \in src : r.kind = "CAPTURE" \/ r.ts >= instant + 1 - SESSION}
      /\ UNCHANGED <<strategy, lastId, buys, captured, Worker>>
  BY DEF TimeGoesOn, AuditInv, AuditTypes
<1>2. AuditTypes'
  BY <1>1 DEF AuditInv, AuditTypes
<1>3. ArchiveInv'
  <2>1. \A t \in Nat : Old(t) => Old(t)'
    BY <1>1 DEF Old, SESSION
  <2>2. \A r \in src : r.ts \in Nat
    BY DEF AuditInv, AuditTypes
  <2> QED BY <1>1, <2>1, <2>2 DEF AuditInv, AuditTypes, ArchiveInv, From, Copied, CaptureCopied
<1>4. SyncInv' /\ HonestInv'
  BY <1>1 DEF AuditInv, SyncInv, CaptureCopied, HonestInv, Honest
<1> QED BY <1>1, <1>2, <1>3, <1>4, BesideKeeps DEF AuditInv

\* A decision of this instant is of no session that was closed.
LEMMA NotClosed ==
  ASSUME AuditInv
  PROVE  /\ \A r \in files : r.session.end \in Int /\ r.session.end <= instant
         /\ task = "file" => report.session.end \in Int /\ report.session.end <= instant
<1>1. \A r \in files : r.session.end \in Int /\ r.session.end <= instant
  BY DEF AuditInv, AuditTypes, ReportInv, Opening
<1>2. task = "file" => report.session.end \in Int /\ report.session.end <= instant
  BY SessionFacts DEF AuditInv, AuditTypes, ReportInv, Opening
<1> QED BY <1>1, <1>2

LEMMA DecideKeeps == ~Outgrows /\ AuditInv /\ Decide => AuditInv'
<1> SUFFICES ASSUME ~Outgrows, AuditInv, Decide PROVE AuditInv'
  OBVIOUS
<1> USE DEF Worker, archive
<1>1. PICK kind \in Kinds :
        LET line == [id |-> lastId + 1, ts |-> instant, kind |-> kind]
        IN src' = src \cup {line} /\ captured' = IF kind = "CAPTURE" THEN captured \cup {instant} ELSE captured
  BY DEF Decide
<1>2. /\ lastId' = lastId + 1 /\ (lastId < cursor => lastId + 1 < cursor)
      /\ UNCHANGED <<strategy, instant, buys, Worker>>
  BY DEF Decide
<1>3. lastId \in Nat /\ cursor \in Nat /\ instant \in Nat /\ roundAt <= instant /\ roundAt \in Nat
  BY DEF AuditInv, AuditTypes
<1>4. AuditTypes'
  <2>1. \A r \in src' : r.id \in Nat /\ r.id \in 1 .. lastId' /\ r.ts \in Nat /\ r.kind \in Kinds
    BY <1>1, <1>2, <1>3 DEF AuditInv, AuditTypes
  <2>2. captured' \subseteq Nat
    BY <1>1, <1>3 DEF AuditInv, AuditTypes
  <2> QED BY <1>2, <1>3, <2>1, <2>2 DEF AuditInv, AuditTypes
<1>5. ArchiveInv'
  <2>1. From(lastId') = From(lastId) /\ From(lastId) < lastId + 1
    BY <1>2, <1>3 DEF From
  <2>2. \A r \in src' : r.kind = "CAPTURE" => r.id > From(lastId) \/ Copied(r) \/ Old(r.ts)
    BY <1>1, <1>2, <1>3, <2>1 DEF AuditInv, ArchiveInv
  <2>3. \A t \in captured' : CaptureCopied(t) \/ Old(t) \/ \E r \in src' : r.kind = "CAPTURE" /\ r.ts = t
    <3> DEFINE line == [id |-> lastId + 1, ts |-> instant, kind |-> kind]
    <3>1. line.kind = kind /\ line.ts = instant
      OBVIOUS
    <3>2. src' = src \cup {line} /\ captured' = IF kind = "CAPTURE" THEN captured \cup {instant} ELSE captured
      BY <1>1
    <3> HIDE DEF line
    <3>3. \A t \in captured : CaptureCopied(t) \/ Old(t) \/ \E r \in src' : r.kind = "CAPTURE" /\ r.ts = t
      BY <3>2 DEF AuditInv, ArchiveInv
    <3> QED BY <3>1, <3>2, <3>3
  <2>4. (\A r : Copied(r)' <=> Copied(r)) /\ (\A t : (CaptureCopied(t)' <=> CaptureCopied(t)) /\ (Old(t)' <=> Old(t)))
    BY <1>2 DEF Copied, CaptureCopied, Old
  <2>5. From(lastId)' = From(lastId')
    BY <1>2 DEF From
  <2> QED BY <2>1, <2>2, <2>3, <2>4, <2>5 DEF ArchiveInv
<1>6. SyncInv'
  BY <1>1, <1>2, <1>3 DEF AuditInv, SyncInv, CaptureCopied
<1>7. HonestInv'
  BY <1>1, <1>2, <1>3, NotClosed DEF AuditInv, HonestInv, Honest
<1>8. ReportInv' /\ DeliveryInv'
  BY <1>2, <1>3, BesideKeeps
<1> QED BY <1>4, <1>5, <1>6, <1>7, <1>8 DEF AuditInv

LEMMA PurchaseKeeps == AuditInv /\ Purchase => AuditInv'
<1> SUFFICES ASSUME AuditInv, Purchase PROVE AuditInv'
  OBVIOUS
<1> USE DEF Worker, archive
<1>1. buys' = {instant} /\ instant \in Nat /\ UNCHANGED <<strategy, instant, src, lastId, captured, Worker>>
  BY DEF Purchase, AuditInv, AuditTypes
<1>2. AuditTypes'
  BY <1>1 DEF AuditInv, AuditTypes
<1>3. ArchiveInv' /\ SyncInv'
  BY <1>1 DEF AuditInv, ArchiveInv, SyncInv, From, Copied, CaptureCopied, Old
<1>4. HonestInv'
  BY <1>1, NotClosed DEF AuditInv, HonestInv, Honest
<1> QED BY <1>1, <1>2, <1>3, <1>4, BesideKeeps DEF AuditInv

LEMMA ReplaceKeeps == AuditInv /\ Replace => AuditInv'
<1> SUFFICES ASSUME AuditInv, Replace PROVE AuditInv'
  OBVIOUS
<1> USE DEF Worker, archive
<1>1. src' = {} /\ lastId' = 0 /\ cursor = lastId /\ UNCHANGED <<strategy, instant, buys, captured, Worker>>
  BY DEF Replace
<1>2. AuditTypes'
  BY <1>1 DEF AuditInv, AuditTypes
<1>3. ArchiveInv'
  <2>1. From(lastId) = lastId
    BY <1>1 DEF From, AuditInv, AuditTypes
  <2>2. \A r \in src : r.kind = "CAPTURE" => Copied(r) \/ Old(r.ts)
    BY <2>1 DEF AuditInv, AuditTypes, ArchiveInv
  <2>3. \A t \in captured : CaptureCopied(t) \/ Old(t)
    BY <2>2 DEF AuditInv, ArchiveInv, CaptureCopied, Copied
  <2> QED BY <1>1, <2>3 DEF ArchiveInv, CaptureCopied, Old
<1>4. SyncInv' /\ HonestInv'
  BY <1>1 DEF AuditInv, SyncInv, CaptureCopied, HonestInv, Honest
<1> QED BY <1>1, <1>2, <1>3, <1>4, BesideKeeps DEF AuditInv, AuditTypes

-----------------------------------------------------------------------------
\* One round of the worker

LEMMA SyncKeeps == AuditInv /\ Sync => AuditInv'
<1> SUFFICES ASSUME AuditInv, Sync PROVE AuditInv'
  OBVIOUS
<1>1. /\ task = "sync" /\ task' = "plan" /\ roundAt' = instant
      /\ UNCHANGED <<strategy, instant, src, lastId, buys, captured, report, files, deliveries, accepted>>
  BY DEF Sync, ledger
<1>2. PICK read \in {r.id : r \in Fresh} \cup {lastId, 0}, ok \in BOOLEAN :
        LET rows == IF ok THEN Fresh ELSE {r \in Fresh : r.id < read}
        IN /\ evidence' = Kept(evidence \cup Stored(rows))
           /\ cursor' = IF ok /\ rows # {} THEN Max({r.id : r \in rows}) ELSE cursor
           /\ errors' = ~ok
  BY DEF Sync
<1> DEFINE rows == IF ok THEN Fresh ELSE {r \in Fresh : r.id < read}
<1>3. rows \subseteq Fresh /\ Fresh \subseteq src /\ (ok => rows = Fresh)
  BY DEF Fresh
<1>4. /\ evidence' = Kept(evidence \cup Stored(rows)) /\ errors' = ~ok
      /\ cursor' = IF ok /\ rows # {} THEN Max({r.id : r \in rows}) ELSE cursor
  BY <1>2
<1> HIDE DEF rows
<1>5. cursor' \in Nat
  <2>1. CASE rows # {}
    <3> DEFINE ids == {r.id : r \in rows}
    <3>1. ids \in SUBSET Nat /\ ids # {} /\ lastId \in Nat /\ \A x \in ids : x <= lastId
      BY <1>3, <2>1 DEF AuditInv, AuditTypes
    <3>2. Max(ids) \in Nat
      <4> HIDE DEF ids
      <4> QED BY <3>1, MaxIsOne
    <3> QED BY <1>4, <3>2 DEF AuditInv, AuditTypes
  <2>2. CASE rows = {}
    BY <1>4, <2>2 DEF AuditInv, AuditTypes
  <2> QED BY <2>1, <2>2
<1>6. AuditTypes'
  BY <1>1, <1>4, <1>5 DEF AuditInv, AuditTypes
<1>7. /\ \A t \in Nat : CaptureCopied(t) /\ ~Old(t) => CaptureCopied(t)'
      /\ \A r \in src : Copied(r) /\ ~Old(r.ts) => Copied(r)'
      /\ \A t : Old(t)' <=> Old(t)
  <2>1. \A e \in evidence : ~Old(e.ts) /\ e.ts \in Nat => e \in evidence'
    BY <1>4 DEF Kept, Old, SESSION, AuditInv, AuditTypes
  <2>2. \A r \in src : r.ts \in Nat
    BY DEF AuditInv, AuditTypes
  <2> QED BY <1>1, <2>1, <2>2 DEF CaptureCopied, Copied, Old
<1>8. \A r \in rows : Copied(r)'
  <2> SUFFICES ASSUME NEW r \in rows PROVE Copied(r)'
    OBVIOUS
  <2>1. [ts |-> r.ts, id |-> r.id, kind |-> r.kind] \in Stored(rows)
    BY DEF Stored
  <2>2. r.ts >= instant - 3 * SESSION
    BY <1>3 DEF Fresh
  <2>3. [ts |-> r.ts, id |-> r.id, kind |-> r.kind] \in evidence'
    BY <1>4, <2>1, <2>2 DEF Kept
  <2> QED BY <2>3 DEF Copied
<1>9. ArchiveInv'
  <2>1. ASSUME NEW t \in captured PROVE CaptureCopied(t)' \/ Old(t)' \/ \E r \in src' : r.kind = "CAPTURE" /\ r.ts = t
    BY <1>1, <1>7 DEF AuditInv, AuditTypes, ArchiveInv
  <2>2. ASSUME NEW r \in src, r.kind = "CAPTURE", ~ok PROVE r.id > From(lastId)' \/ Copied(r)' \/ Old(r.ts)'
    <3>1. From(lastId)' = From(lastId)
      BY <1>1, <1>4, <2>2 DEF From
    <3> QED BY <1>7, <2>2, <3>1 DEF AuditInv, ArchiveInv
  <2>3. ASSUME NEW r \in src, r.kind = "CAPTURE", ok PROVE Copied(r)' \/ Old(r.ts)'
    <3>1. r.kind \in Archived
      BY <2>3 DEF Archived, AuditInv, AuditTypes
    <3> QED BY <1>3, <1>7, <1>8, <2>3, <3>1 DEF AuditInv, AuditTypes, ArchiveInv, Fresh, Old, SESSION
  <2> QED BY <1>1, <2>1, <2>2, <2>3 DEF ArchiveInv
<1>10. SyncInv'
  <2> SUFFICES ASSUME ok, NEW t \in captured, t < instant PROVE CaptureCopied(t)' \/ t < instant - 3 * SESSION
    BY <1>1, <1>4 DEF SyncInv
  <2>1. CASE CaptureCopied(t) \/ Old(t)
    BY <1>7, <2>1 DEF Old, AuditInv, AuditTypes
  <2>2. CASE \E r \in src : r.kind = "CAPTURE" /\ r.ts = t
    <3>1. PICK r \in src : r.kind = "CAPTURE" /\ r.ts = t
      BY <2>2
    <3>2. r.kind \in Archived /\ r.ts \in Nat
      BY <3>1 DEF Archived, AuditInv, AuditTypes
    <3>3. Copied(r)' \/ Old(r.ts)
      BY <1>3, <1>7, <1>8, <3>1, <3>2 DEF AuditInv, AuditTypes, ArchiveInv, Fresh, Old, SESSION
    <3> QED BY <3>1, <3>3 DEF Copied, CaptureCopied, Old
  <2> QED BY <2>1, <2>2 DEF AuditInv, ArchiveInv
<1>11. ReportInv' /\ DeliveryInv' /\ HonestInv'
  BY <1>1 DEF AuditInv, ReportInv, DeliveryInv, HonestInv, Honest
<1> QED BY <1>6, <1>9, <1>10, <1>11 DEF AuditInv

\* What the worker keeps while it leaves the archive and the ledgers alone.
LEMMA RoundKeeps ==
  ASSUME AuditInv, UNCHANGED <<strategy, instant, roundAt, ledger, archive>>,
         errors' \in BOOLEAN, task' \in {"sync", "build", "file", "claim", "send", "sent", "uncertain"},
         task' = "build" => task = "plan" /\ errors' = errors
  PROVE  AuditTypes' /\ ArchiveInv' /\ SyncInv'
<1> USE DEF ledger, archive
<1>1. AuditTypes'
  BY DEF AuditInv, AuditTypes
<1>2. ArchiveInv'
  BY DEF AuditInv, ArchiveInv, From, Copied, CaptureCopied, Old
<1>3. SyncInv'
  BY DEF AuditInv, SyncInv, CaptureCopied
<1> QED BY <1>1, <1>2, <1>3

LEMMA PlanKeeps == AuditInv /\ Plan => AuditInv'
<1> SUFFICES ASSUME AuditInv, Plan PROVE AuditInv'
  OBVIOUS
<1>1. /\ task = "plan" /\ task' \in {"sync", "build", "claim"}
      /\ UNCHANGED <<strategy, instant, roundAt, ledger, archive, errors, files, deliveries, accepted>>
      /\ task' = "build" => report' = ClosedSession(roundAt) /\ Filed(ClosedSession(roundAt)) = {}
      /\ task' = "claim" => report' \in files
  BY DEF Plan, Filed
<1>2. AuditTypes' /\ ArchiveInv' /\ SyncInv'
  BY <1>1, RoundKeeps DEF AuditInv, AuditTypes
<1>3. ReportInv'
  BY <1>1 DEF AuditInv, ReportInv, Filed, ClosedSession
<1>4. DeliveryInv' /\ HonestInv'
  BY <1>1 DEF AuditInv, DeliveryInv, HonestInv, Honest, ledger
<1> QED BY <1>2, <1>3, <1>4 DEF AuditInv

\* What is said of a closed session after a round is what the records say.
LEMMA VerdictIsHonest ==
  ASSUME AuditInv, task = "build", NEW crossing, NEW stopped
  PROVE  /\ Verdict(report, crossing, stopped) = "NOT_CAPTURED" /\ ~errors =>
              \A t \in captured : t < report.start \/ t >= report.end
         /\ Verdict(report, crossing, stopped) = "UNKNOWN" =>
              \A t \in buys : t < report.start \/ t >= report.end
<1>1. /\ report.start \in Int /\ report.end \in Int
      /\ report.end + Opening <= roundAt /\ report.start > roundAt - 3 * SESSION
  BY SessionFacts DEF AuditInv, AuditTypes, ReportInv
<1>2. captured \subseteq Nat /\ buys \subseteq Nat /\ roundAt \in Nat
  BY DEF AuditInv, AuditTypes
<1>3. ASSUME Verdict(report, crossing, stopped) = "NOT_CAPTURED", ~errors,
             NEW t \in captured, ~(t < report.start \/ t >= report.end)
      PROVE  FALSE
  <2>1. t \in Nat /\ t >= report.start /\ t < report.end /\ t < roundAt /\ ~(t < roundAt - 3 * SESSION)
    BY <1>1, <1>2, <1>3 DEF Opening, SESSION
  <2>2. PICK e \in evidence : e.ts = t /\ e.kind = "CAPTURE"
    BY <1>3, <2>1 DEF AuditInv, SyncInv, CaptureCopied
  <2>3. e \in Of(In(evidence, report), "CAPTURE")
    BY <2>1, <2>2 DEF Of, In
  <2>4. Of(In(evidence, report), "CAPTURE") # {}
    BY <2>3
  <2> QED BY <1>3, <2>4 DEF Verdict
<1>4. ASSUME Verdict(report, crossing, stopped) = "UNKNOWN", NEW t \in buys,
             ~(t < report.start \/ t >= report.end)
      PROVE  FALSE
  <2>1. t \in {x \in buys : x >= report.start /\ x < report.end}
    BY <1>1, <1>2, <1>4
  <2>2. {x \in buys : x >= report.start /\ x < report.end} # {}
    BY <2>1
  <2> QED BY <1>4, <2>2 DEF Verdict
<1> QED BY <1>3, <1>4

LEMMA BuildKeeps == AuditInv /\ Build => AuditInv'
<1> SUFFICES ASSUME AuditInv, Build PROVE AuditInv'
  OBVIOUS
<1>1. /\ task = "build" /\ task' \in {"sync", "file"}
      /\ UNCHANGED <<strategy, instant, roundAt, ledger, archive, errors, files, deliveries, accepted>>
  BY DEF Build
<1>2. ASSUME task' = "file"
      PROVE  /\ report'.session = report /\ report'.errors = errors
             /\ report'.verdict = "PENDING" \/
                  \E crossing, stopped : report'.verdict = Verdict(report, crossing, stopped)
  BY <1>2 DEF Build
<1>3. AuditTypes' /\ ArchiveInv' /\ SyncInv'
  BY <1>1, RoundKeeps DEF AuditInv, AuditTypes
<1>4. ReportInv'
  BY <1>1, <1>2 DEF AuditInv, ReportInv, Filed, ClosedSession
<1>5. DeliveryInv'
  BY <1>1 DEF AuditInv, DeliveryInv
<1>6. HonestInv'
  <2>1. ASSUME task' = "file" PROVE Honest(report')
    BY <1>1, <1>2, <2>1, VerdictIsHonest DEF Honest
  <2> QED BY <1>1, <2>1 DEF AuditInv, HonestInv, Honest, ledger
<1> QED BY <1>3, <1>4, <1>5, <1>6 DEF AuditInv

LEMMA FileKeeps == AuditInv /\ File => AuditInv'
<1> SUFFICES ASSUME AuditInv, File PROVE AuditInv'
  OBVIOUS
<1>1. /\ task = "file" /\ task' = "claim" /\ files' = files \cup {report}
      /\ UNCHANGED <<strategy, instant, roundAt, ledger, archive, report, errors, deliveries, accepted>>
  BY DEF File, AuditInv, ReportInv
<1>2. AuditTypes' /\ ArchiveInv' /\ SyncInv'
  BY <1>1, RoundKeeps DEF AuditInv, AuditTypes
<1>3. ReportInv'
  <2>1. roundAt \in Nat /\ instant \in Nat /\ roundAt <= instant
    BY DEF AuditInv, AuditTypes
  <2>2. report.session.end \in Int /\ report.session.end + Opening <= instant
    BY <1>1, <2>1, SessionFacts DEF AuditInv, ReportInv, Opening
  <2> QED BY <1>1, <2>2 DEF AuditInv, ReportInv
<1>4. DeliveryInv' /\ HonestInv'
  BY <1>1 DEF AuditInv, DeliveryInv, HonestInv, Honest, ledger
<1> QED BY <1>2, <1>3, <1>4 DEF AuditInv

LEMMA ClaimReportKeeps == AuditInv /\ ClaimReport => AuditInv'
<1> SUFFICES ASSUME AuditInv, ClaimReport PROVE AuditInv'
  OBVIOUS
<1>1. /\ task = "claim" /\ task' \in {"sync", "send"} /\ deliveries \subseteq deliveries'
      /\ UNCHANGED <<strategy, instant, roundAt, ledger, archive, report, errors, files, accepted>>
  BY DEF ClaimReport
<1>2. AuditTypes' /\ ArchiveInv' /\ SyncInv'
  BY <1>1, RoundKeeps DEF AuditInv, AuditTypes
<1>3. ReportInv' /\ HonestInv'
  BY <1>1 DEF AuditInv, ReportInv, HonestInv, Honest, ledger
<1>4. ASSUME task' = "send"
      PROVE  /\ \A x \in accepted : x.report.session.start # report.session.start
             /\ \E d \in deliveries' : d.start = report.session.start
  <2>1. /\ \A d \in deliveries : d.start # report.session.start
        /\ [start |-> report.session.start, status |-> "CLAIMED"] \in deliveries'
    BY <1>4 DEF ClaimReport, Undelivered, Status
  <2> QED BY <2>1 DEF AuditInv, DeliveryInv
<1>5. DeliveryInv'
  BY <1>1, <1>4 DEF AuditInv, DeliveryInv
<1> QED BY <1>2, <1>3, <1>5 DEF AuditInv

LEMMA SendReportKeeps == AuditInv /\ SendReport => AuditInv'
<1> SUFFICES ASSUME AuditInv, SendReport PROVE AuditInv'
  OBVIOUS
<1>1. /\ task = "send" /\ task' \in {"sent", "uncertain"}
      /\ \E new : /\ new.report = report /\ new.at = instant
                  /\ accepted' \subseteq accepted \cup {new}
      /\ UNCHANGED <<strategy, instant, roundAt, ledger, archive, report, errors, files, deliveries>>
  <2>1. [report |-> report, at |-> instant, n |-> Cardinality(accepted)].report = report
    OBVIOUS
  <2>2. [report |-> report, at |-> instant, n |-> Cardinality(accepted)].at = instant
    OBVIOUS
  <2>3. accepted' \subseteq accepted \cup {[report |-> report, at |-> instant, n |-> Cardinality(accepted)]}
    BY DEF SendReport
  <2> QED BY <2>1, <2>2, <2>3 DEF SendReport
<1>2. PICK new : new.report = report /\ new.at = instant /\ accepted' \subseteq accepted \cup {new}
  BY <1>1
<1>3. AuditTypes' /\ ArchiveInv' /\ SyncInv'
  BY <1>1, RoundKeeps DEF AuditInv, AuditTypes
<1>4. ReportInv' /\ HonestInv'
  BY <1>1 DEF AuditInv, ReportInv, HonestInv, Honest, ledger
<1>5. DeliveryInv'
  <2>1. report \in files /\ report.session.end \in Int /\ instant \in Nat
        /\ report.session.end + Opening <= instant
    BY <1>1 DEF AuditInv, AuditTypes, ReportInv
  <2>2. \A x \in accepted' : /\ x.report \in files /\ x.at \in Int /\ x.at >= x.report.session.end + Opening
                             /\ \E d \in deliveries : d.start = x.report.session.start
    BY <1>1, <1>2, <2>1 DEF AuditInv, DeliveryInv, Opening
  <2>3. \A x, y \in accepted' : x.report.session.start = y.report.session.start => x = y
    BY <1>1, <1>2 DEF AuditInv, DeliveryInv
  <2> QED BY <1>1, <2>2, <2>3 DEF DeliveryInv
<1> QED BY <1>3, <1>4, <1>5 DEF AuditInv

LEMMA MarkReportKeeps == AuditInv /\ MarkReport => AuditInv'
<1> SUFFICES ASSUME AuditInv, MarkReport PROVE AuditInv'
  OBVIOUS
<1>1. /\ task' = "sync"
      /\ UNCHANGED <<strategy, instant, roundAt, ledger, archive, report, errors, files, accepted>>
  BY DEF MarkReport
<1>2. AuditTypes' /\ ArchiveInv' /\ SyncInv'
  BY <1>1, RoundKeeps DEF AuditInv, AuditTypes
<1>3. ReportInv' /\ HonestInv'
  BY <1>1 DEF AuditInv, ReportInv, HonestInv, Honest, ledger
<1>4. \A d \in deliveries : \E e \in deliveries' : e.start = d.start
  <2> DEFINE mark == [start |-> report.session.start, status |-> IF task = "sent" THEN "SENT" ELSE "SEND_UNCERTAIN"]
  <2>1. mark.start = report.session.start /\ deliveries' = (deliveries \ Status(report.session)) \cup {mark}
    BY DEF MarkReport
  <2> HIDE DEF mark
  <2> QED BY <2>1 DEF Status
<1>5. DeliveryInv'
  BY <1>1, <1>4 DEF AuditInv, DeliveryInv
<1> QED BY <1>2, <1>3, <1>5 DEF AuditInv

LEMMA StartAgainKeeps == AuditInv /\ StartAgain => AuditInv'
<1> SUFFICES ASSUME AuditInv, StartAgain PROVE AuditInv'
  OBVIOUS
<1>1. /\ task' = "sync" /\ errors' = FALSE /\ roundAt' = instant
      /\ UNCHANGED <<strategy, instant, src, lastId, buys, captured, archive, files, deliveries, accepted>>
  BY DEF StartAgain, ledger
<1>2. AuditTypes'
  <2>1. instant' \in Nat /\ roundAt' \in Nat /\ roundAt' <= instant'
    BY <1>1 DEF AuditInv, AuditTypes
  <2>2. errors' \in BOOLEAN
    BY <1>1, Zenon
  <2> QED BY <1>1, <2>1, <2>2 DEF archive, AuditInv, AuditTypes
<1>5. SyncInv'
  BY <1>1 DEF SyncInv
<1>3. ArchiveInv'
  BY <1>1 DEF archive, AuditInv, ArchiveInv, From, Copied, CaptureCopied, Old
<1>4. ReportInv' /\ DeliveryInv' /\ HonestInv'
  BY <1>1 DEF AuditInv, ReportInv, DeliveryInv, HonestInv, Honest
<1> QED BY <1>2, <1>3, <1>4, <1>5 DEF AuditInv

LEMMA AuditStays == AuditInv /\ UNCHANGED avars => AuditInv'
<1> SUFFICES ASSUME AuditInv, UNCHANGED avars PROVE AuditInv'
  OBVIOUS
<1>1. /\ UNCHANGED <<strategy, instant, src, lastId, buys, captured, cursor, evidence, task, roundAt>>
      /\ UNCHANGED <<report, errors, files, deliveries, accepted>>
  BY DEF avars, ledger, archive
<1>2. AuditTypes' /\ SyncInv' /\ ArchiveInv'
  BY <1>1 DEF AuditInv, AuditTypes, SyncInv, ArchiveInv, From, Copied, CaptureCopied, Old
<1>3. ReportInv' /\ DeliveryInv' /\ HonestInv'
  BY <1>1 DEF AuditInv, ReportInv, DeliveryInv, HonestInv, Honest, Filed
<1> QED BY <1>2, <1>3 DEF AuditInv

\* The invariant above holds of the audit in every state it reaches, for every
\* strategy and every bound, as long as no replaced ledger reaches the old
\* cursor between two rounds (sync_evidence(), magi2/capture_audit.py:163,
\* takes such a ledger for the one it knew).
THEOREM AuditInvInvariant == ~Outgrows => (ASpec => []AuditInv)
<1> SUFFICES ASSUME ~Outgrows PROVE ASpec => []AuditInv
  OBVIOUS
<1>1. AInit => AuditInv
  BY AuditInitial
<1>2. AuditInv /\ [ANext]_avars => AuditInv'
  BY DecideKeeps, TimeGoesOnKeeps, PurchaseKeeps, ReplaceKeeps, SyncKeeps, PlanKeeps, BuildKeeps,
     FileKeeps, ClaimReportKeeps, SendReportKeeps, MarkReportKeeps, StartAgainKeeps, AuditStays DEF ANext
<1> QED BY <1>1, <1>2, PTL DEF ASpec

\* A closed session's report reaches the chat once, is the one on disk, and
\* says neither "not captured" of a market that was captured, unless it admits
\* errors, nor "unknown" of one that was bought: over failed copies, lost
\* answers, pruned rows, replaced ledgers and deaths of the worker.
THEOREM AuditStaysHonest == ~Outgrows => (ASpec => []AuditIsHonest)
<1>1. AuditInv => AuditIsHonest
  BY DEF AuditInv, AuditIsHonest, ReportedOnce, VerdictsAreHonest, DeliveryInv, HonestInv, Honest
<1> QED BY <1>1, AuditInvInvariant, PTL

-----------------------------------------------------------------------------
(* EarlyWarning: what Telegram heard of a coin last is what the program      *)
(* compares its level with, but for the coins in doubt.                      *)

\* The same level, or none of both is an alert.
Agree(level, heard) == level = heard \/ (level \notin Alerting /\ heard \notin Alerting)

\* A run: what it told of is as it was heard, and what it did not touch is as
\* it was read.
RunInv ==
  /\ run \in RunStates /\ run.level \in Readings(run.watch) /\ run.told \subseteq Observed(run)
  /\ run.at = "judge" => run.left \subseteq Observed(run) \ run.told /\ run.gone = {}
  /\ run.gone \cap run.told = {}
  /\ \A c \in run.told : run.state[c] = said[c]
  /\ run.at # "history" =>
       \A c \in Watchable \ (run.told \cup run.gone) : run.state[c] = IF run.read THEN saved[c] ELSE "QUIET"

HeardInv ==
  \A c \in Watchable \ doubt : ~(run # Nought /\ run.at # "history" /\ c \in run.told) => Agree(saved[c], said[c])

WarnInv ==
  /\ saved \in [Watchable -> Levels] /\ said \in [Watchable -> Levels]
  /\ sends \in [Watchable -> Nat] /\ doubt \subseteq Watchable
  /\ run # Nought => RunInv
  /\ HeardInv

LEMMA WarnInitial == WInit => WarnInv
<1> QED BY DEF WInit, WarnInv, HeardInv, Agree, Levels

LEMMA WarnStays == ASSUME WarnInv, UNCHANGED wvars PROVE WarnInv'
<1> QED BY DEF WarnInv, RunInv, HeardInv, wvars, Observed

LEMMA BeginKeeps == ASSUME WarnInv, Begin PROVE WarnInv'
<1>1. run = Nought /\ UNCHANGED <<saved, said, sends, doubt>>
  BY DEF Begin
<1>2. PICK watch \in Watchlists : \E level \in Readings(watch), read \in BOOLEAN :
       run' = [watch |-> watch, level |-> level, left |-> {c \in watch : level[c] # Nought},
               state |-> IF read THEN saved ELSE [c \in Watchable |-> "QUIET"],
               read |-> read, told |-> {}, gone |-> {}, at |-> "judge"]
  BY DEF Begin
<1>3. PICK level \in Readings(watch), read \in BOOLEAN :
       run' = [watch |-> watch, level |-> level, left |-> {c \in watch : level[c] # Nought},
               state |-> IF read THEN saved ELSE [c \in Watchable |-> "QUIET"],
               read |-> read, told |-> {}, gone |-> {}, at |-> "judge"]
  BY <1>2
<1>4. run' \in RunStates
  BY <1>3 DEF RunStates, AllReadings, Watchlists, Readings, WarnInv, Levels
<1>5. run' # Nought /\ run'.told = {} /\ run'.gone = {} /\ run'.at = "judge" /\ run'.watch = watch /\ run'.level = level
      /\ run'.read = read /\ run'.left = {c \in watch : level[c] # Nought}
      /\ run'.state = IF read THEN saved ELSE [c \in Watchable |-> "QUIET"]
  BY <1>3, <1>4, WarningAssumption
<1>6. watch \subseteq Watchable /\ level \in [watch -> Levels \cup {Nought}] /\ "QUIET" \in Levels
  BY DEF Watchlists, Readings, Levels
<1>7. RunInv'
  BY <1>1, <1>4, <1>5, <1>6 DEF WarnInv, RunInv, Observed, Readings
<1>8. HeardInv'
  BY <1>1, <1>5 DEF WarnInv, HeardInv
<1> QED BY <1>1, <1>7, <1>8 DEF WarnInv

LEMMA RanksFacts ==
  /\ \A x \in Levels : Rank(x) \in 0 .. 3 /\ (x \in Alerting <=> Rank(x) >= 2)
  /\ Alerting \subseteq Levels
<1> QED BY DEF Levels, Alerting, Rank

LEMMA LevelRead ==
  ASSUME RunInv, NEW c \in Observed(run)
  PROVE  c \in run.watch /\ run.level[c] \in Levels
<1>1. run.level \in [run.watch -> Levels \cup {Nought}]
  BY DEF RunInv, Readings
<1> QED BY <1>1 DEF Observed

LEMMA TellKeeps == ASSUME WarnInv, NEW c \in Watchable, Tell(c) PROVE WarnInv'
<1>1. /\ run # Nought /\ run.at = "judge" /\ c \in run.left
      /\ said' = [said EXCEPT ![c] = run.level[c]] /\ sends' = [sends EXCEPT ![c] = @ + 1]
      /\ run' = [run EXCEPT !.left = @ \ {c}, !.state[c] = run.level[c], !.told = @ \cup {c}]
      /\ UNCHANGED <<saved, doubt>>
  BY DEF Tell, Judging, Messaged
<1>2. RunInv /\ HeardInv
  BY <1>1 DEF WarnInv
<1>3. c \in run.watch /\ run.level[c] \in Levels /\ c \in Observed(run)
  BY <1>1, <1>2, LevelRead DEF RunInv
<1>4. sends' \in [Watchable -> Nat] /\ said' \in [Watchable -> Levels]
  BY <1>1, <1>3 DEF WarnInv
<1>5. /\ run' \in RunStates /\ run'.left = run.left \ {c} /\ run'.state = [run.state EXCEPT ![c] = run.level[c]]
      /\ run'.told = run.told \cup {c} /\ run'.watch = run.watch /\ run'.level = run.level
      /\ run'.read = run.read /\ run'.gone = run.gone /\ run'.at = run.at
  BY <1>1, <1>2, <1>3 DEF RunInv, RunStates
<1>6. RunInv'
  BY <1>1, <1>2, <1>3, <1>5 DEF WarnInv, RunInv, RunStates, Observed
<1>7. HeardInv'
  BY <1>1, <1>2, <1>5, WarningAssumption DEF WarnInv, HeardInv
<1> QED BY <1>1, <1>4, <1>6, <1>7 DEF WarnInv

LEMMA SkipKeeps == ASSUME WarnInv, NEW c \in Watchable, Skip(c) PROVE WarnInv'
<1>1. /\ run # Nought /\ run.at = "judge" /\ c \in run.left /\ run' = [run EXCEPT !.left = @ \ {c}]
      /\ UNCHANGED <<saved, said, sends, doubt>> /\ RunInv /\ HeardInv
  BY DEF Skip, Judging, WarnInv
<1>2. /\ run' \in RunStates /\ run'.left = run.left \ {c} /\ run'.state = run.state
      /\ run'.told = run.told /\ run'.watch = run.watch /\ run'.level = run.level
      /\ run'.read = run.read /\ run'.gone = run.gone /\ run'.at = run.at
  BY <1>1 DEF RunInv, RunStates
<1>3. RunInv'
  BY <1>1, <1>2 DEF WarnInv, RunInv, Observed
<1>4. HeardInv'
  BY <1>1, <1>2, WarningAssumption DEF HeardInv
<1> QED BY <1>1, <1>3, <1>4 DEF WarnInv

LEMMA DropKeeps == ASSUME WarnInv, Drop PROVE WarnInv'
<1> DEFINE gone == Dropped(run)
<1>1. /\ run # Nought /\ run.at = "judge" /\ run.left = {} /\ UNCHANGED <<saved, said, sends, doubt>>
      /\ run' = IF run.told \cup gone = {} THEN Nought
                ELSE [run EXCEPT !.state = [c \in Watchable |-> IF c \in gone THEN "QUIET" ELSE @[c]],
                                 !.gone = gone, !.at = "state"]
  BY DEF Drop
<1>2. RunInv /\ HeardInv
  BY <1>1 DEF WarnInv
<1>3. CASE run.told \cup gone = {}
  BY <1>1, <1>2, <1>3 DEF WarnInv, HeardInv
<1>4. CASE run.told \cup gone # {}
  <2>1. gone \subseteq Watchable \ Observed(run) /\ "QUIET" \in Levels
    BY DEF Dropped, Levels
  <2> HIDE DEF gone
  <2>2. run' = [run EXCEPT !.state = [c \in Watchable |-> IF c \in gone THEN "QUIET" ELSE run.state[c]],
                           !.gone = gone, !.at = "state"]
    BY <1>1, <1>4
  <2>3. /\ run' \in RunStates /\ run'.left = run.left /\ run'.told = run.told /\ run'.watch = run.watch
        /\ run'.state = [c \in Watchable |-> IF c \in gone THEN "QUIET" ELSE run.state[c]]
        /\ run'.level = run.level /\ run'.read = run.read /\ run'.gone = gone /\ run'.at = "state"
    BY <1>2, <2>1, <2>2 DEF RunInv, RunStates
  <2>4. RunInv'
    <3>1. /\ run'.level \in Readings(run'.watch) /\ run'.told \subseteq Observed(run)
          /\ Observed(run)' = Observed(run) /\ run'.gone \cap run'.told = {}
      BY <1>2, <2>1, <2>3 DEF RunInv, Observed
    <3>2. \A c \in run'.told : run'.state[c] = said'[c]
      BY <1>1, <1>2, <2>3, <3>1 DEF RunInv, RunStates
    <3>3. \A c \in Watchable \ (run'.told \cup run'.gone) :
             run'.state[c] = IF run'.read THEN saved'[c] ELSE "QUIET"
      BY <1>1, <1>2, <2>3 DEF RunInv
    <3> QED BY <2>3, <3>1, <3>2, <3>3 DEF RunInv
  <2>5. HeardInv'
    BY <1>1, <1>2, <2>3, WarningAssumption DEF HeardInv
  <2> QED BY <1>1, <2>4, <2>5 DEF WarnInv
<1> QED BY <1>3, <1>4

LEMMA SaveStateKeeps == ASSUME WarnInv, SaveState PROVE WarnInv'
<1>1. /\ run # Nought /\ run.at = "state" /\ saved' = run.state /\ run' = [run EXCEPT !.at = "history"]
      /\ doubt' = (doubt \ run.told) \cup run.gone \cup Unread /\ UNCHANGED <<said, sends>>
  BY DEF SaveState
<1>2. RunInv /\ HeardInv
  BY <1>1 DEF WarnInv
<1>3. RunInv' /\ saved' \in [Watchable -> Levels] /\ doubt' \subseteq Watchable
  BY <1>1, <1>2 DEF WarnInv, RunInv, RunStates, Unread, Observed
<1>4. ASSUME NEW c \in Watchable \ doubt' PROVE Agree(saved'[c], said'[c])
  <2>1. c \notin run.gone /\ c \notin Unread /\ (c \in run.told \/ c \notin doubt)
    BY <1>1, <1>4
  <2>2. CASE c \in run.told
    BY <1>1, <1>2, <2>2 DEF RunInv, RunStates, Agree
  <2>3. CASE c \notin run.told /\ run.read
    BY <1>1, <1>2, <2>1, <2>3 DEF RunInv, RunStates, HeardInv
  <2>4. CASE c \notin run.told /\ ~run.read
    <3>1. run.state[c] = "QUIET" /\ said[c] \notin Alerting
      BY <1>1, <1>2, <1>4, <2>1, <2>4 DEF RunInv, RunStates, Unread
    <3> QED BY <1>1, <3>1 DEF Agree, Alerting
  <2> QED BY <2>2, <2>3, <2>4
<1>5. HeardInv'
  BY <1>4 DEF HeardInv
<1> QED BY <1>1, <1>3, <1>5 DEF WarnInv

LEMMA SaveHistoryKeeps == ASSUME WarnInv, SaveHistory PROVE WarnInv'
<1> QED BY DEF WarnInv, RunInv, RunStates, HeardInv, SaveHistory

LEMMA RunDiesKeeps == ASSUME WarnInv, RunDies PROVE WarnInv'
<1>1. run # Nought /\ run' = Nought /\ saved' = saved /\ RunInv /\ HeardInv /\ run.told \subseteq Watchable
  BY DEF RunDies, WarnInv, RunInv, RunStates, Observed
<1>2. CASE /\ UNCHANGED <<said, sends>> /\ doubt' = doubt \cup (IF run.at = "history" THEN {} ELSE run.told)
  BY <1>1, <1>2 DEF WarnInv, HeardInv
<1>3. CASE \E c \in Watchable : Judging(c) /\ News(c) /\ Messaged(c) /\ doubt' = doubt \cup run.told \cup {c}
  <2>1. PICK c \in Watchable : Judging(c) /\ Messaged(c) /\ doubt' = doubt \cup run.told \cup {c}
    BY <1>3
  <2>2. run.level[c] \in Levels
    BY <1>1, <2>1, LevelRead DEF Judging, RunInv
  <2>3. /\ said' = [said EXCEPT ![c] = run.level[c]] /\ sends' = [sends EXCEPT ![c] = @ + 1]
    BY <2>1 DEF Messaged
  <2> QED BY <1>1, <2>1, <2>2, <2>3 DEF WarnInv, HeardInv
<1> QED BY <1>2, <1>3 DEF RunDies

\* The program compares each level with what Telegram heard of the coin last,
\* unless the coin is in doubt: the inductive invariant of the early warnings.
THEOREM WarnInvInvariant == WSpec => []WarnInv
<1>1. WarnInv /\ [WNext]_wvars => WarnInv'
  BY BeginKeeps, TellKeeps, SkipKeeps, DropKeeps, SaveStateKeeps, SaveHistoryKeeps, RunDiesKeeps, WarnStays
  DEF WNext
<1> QED BY <1>1, WarnInitial, PTL DEF WSpec

\* A message of a coin comes with the judgement of a run, and is news to it.
LEMMA WarningStep ==
  ASSUME WarnInv, [WNext]_wvars PROVE MessagesAreNews
<1> SUFFICES ASSUME NEW c \in Watchable, sends'[c] # sends[c], run.read, c \notin doubt
             PROVE \/ said'[c] \in Alerting /\ Rank(said'[c]) > Rank(said[c])
                   \/ said[c] \in Alerting /\ said'[c] \notin Alerting
  BY DEF MessagesAreNews
<1>1. PICK d \in Watchable : Judging(d) /\ News(d) /\ Messaged(d)
  BY DEF WNext, wvars, Begin, Tell, Skip, Drop, SaveState, SaveHistory, RunDies
<1>2. d = c /\ said'[c] = run.level[c]
  BY <1>1 DEF WarnInv, Messaged
<1>3. run # Nought /\ run.at = "judge" /\ c \in run.left /\ RunInv /\ HeardInv
  BY <1>1, <1>2 DEF Judging, WarnInv
<1>4. run.level[c] \in Levels /\ run.state[c] = saved[c] /\ Agree(saved[c], said[c])
  BY <1>3, LevelRead DEF RunInv, RunStates, HeardInv, Observed
<1>5. saved[c] \in Levels /\ said[c] \in Levels
  BY DEF WarnInv
<1>6. CASE Alerts(run.level[c], saved[c])
  BY <1>2, <1>4, <1>5, <1>6, RanksFacts DEF Alerts, Agree
<1>7. CASE Clears(run.level[c], saved[c])
  BY <1>2, <1>4, <1>7 DEF Clears, Agree
<1> QED BY <1>1, <1>2, <1>4, <1>6, <1>7 DEF News

\* Telegram hears of a coin only when it enters an alert, escalates within one
\* or leaves one, over any number of coins, runs, unreadable files and deaths
\* (the alerts of main(), scanner/early_warning_watch.py:389).
THEOREM WarningsNews == WSpec => WarningsAreNews
<1>1. WarnInv /\ [WNext]_wvars => [MessagesAreNews]_wvars
  BY WarningStep
<1> QED BY <1>1, WarnInvInvariant, PTL DEF WSpec, WarningsAreNews

-----------------------------------------------------------------------------
(* BookFeed: what is cut from a book it may lose again without a change, and *)
(* a view is made whole by the levels in which it differs.                   *)

\* The prices of a book that are better than one of them.
Above(book, p) == {o \in Better(p) : book[o] > 0}

LEMMA AboveIsFinite ==
  ASSUME NEW book, NEW p
  PROVE  /\ IsFiniteSet(Above(book, p)) /\ Cardinality(Above(book, p)) \in Nat
         /\ Above(book, p) \subseteq Prices
<1>1. Above(book, p) \subseteq Prices
  BY DEF Above, Better
<1> QED BY <1>1, FeedAssumption, FS_Subset, FS_CardinalityType

\* What a view shows of a price.
LEMMA BestOf ==
  ASSUME NEW book, NEW p \in Prices
  PROVE  Best(book)[p] = IF Cardinality(Above(book, p)) < Depth THEN book[p] ELSE 0
BY DEF Best, Above

LEMMA AboveLess ==
  ASSUME NEW book, NEW e, NEW p, NEW o, Above(book, o) \subseteq Above(e, p)
  PROVE  Cardinality(Above(book, o)) <= Cardinality(Above(e, p))
BY AboveIsFinite, FS_Subset

\* A view is its own view.
LEMMA BestAgain ==
  ASSUME NEW book
  PROVE  Best(Best(book)) = Best(book)
<1> SUFFICES ASSUME NEW p \in Prices PROVE Best(Best(book))[p] = Best(book)[p]
  BY DEF Best
<1>1. Above(Best(book), p) \subseteq Above(book, p)
  <2> SUFFICES ASSUME NEW o \in Better(p), Best(book)[o] > 0 PROVE book[o] > 0
    BY DEF Above
  <2>1. o \in Prices
    BY DEF Better
  <2>2. Best(book)[o] = book[o] \/ Best(book)[o] = 0
    BY <2>1, BestOf
  <2> QED BY <2>2
<1>2. Cardinality(Above(Best(book), p)) <= Cardinality(Above(book, p))
  BY <1>1, AboveLess
<1>3. Cardinality(Above(Best(book), p)) \in Nat /\ Cardinality(Above(book, p)) \in Nat /\ Depth \in Nat
  BY AboveIsFinite, FeedAssumption
<1>4. Best(Best(book))[p] = IF Cardinality(Above(Best(book), p)) < Depth THEN Best(book)[p] ELSE 0
  BY BestOf
<1>5. Best(book)[p] = IF Cardinality(Above(book, p)) < Depth THEN book[p] ELSE 0
  BY BestOf
<1>6. CASE Cardinality(Above(book, p)) < Depth
  BY <1>6, <1>2, <1>3, <1>4
<1>7. CASE ~(Cardinality(Above(book, p)) < Depth)
  BY <1>7, <1>4, <1>5
<1> QED BY <1>6, <1>7

\* The first elements of a set: fewer than k are better.
Tops(S, k) == {x \in S : Cardinality({y \in S : y > x}) < k}

\* Every non-empty finite set of integers has a least one.
LEMMA HasLeast ==
  ASSUME NEW S, IsFiniteSet(S), S \subseteq Int, S # {}
  PROVE  \E m \in S : \A x \in S : m <= x
<1> DEFINE P == {T \in SUBSET S : T # {} => \E m \in T : \A x \in T : m <= x}
<1>1. P \in SUBSET SUBSET S /\ {} \in P
  OBVIOUS
<1>2. \A T \in P : \A x \in S \ T : T \cup {x} \in P
  <2> SUFFICES ASSUME NEW T \in P, NEW x \in S \ T
               PROVE  \E m \in T \cup {x} : \A y \in T \cup {x} : m <= y
    OBVIOUS
  <2>1. CASE T = {}
    BY <2>1
  <2>2. CASE T # {}
    <3>1. PICK m \in T : \A y \in T : m <= y
      BY <2>2
    <3>2. CASE m <= x
      BY <3>1, <3>2
    <3>3. CASE ~(m <= x)
      <4>1. \A y \in T : x <= y
        BY <3>1, <3>3
      <4> QED BY <4>1
    <3> QED BY <3>2, <3>3
  <2> QED BY <2>1, <2>2
<1>3. P = SUBSET S
  <2> HIDE DEF P
  <2> QED BY <1>1, <1>2, SubsetInduction
<1> QED BY <1>3

\* There are k of them, if the set is that large.
LEMMA TopsAreMany ==
  ASSUME NEW S, IsFiniteSet(S), S \subseteq Int, NEW k \in Nat, Cardinality(S) >= k
  PROVE  Cardinality(Tops(S, k)) >= k
<1> DEFINE Q(n) == \A T \in SUBSET S : Cardinality(T) = n /\ n >= k => Cardinality(Tops(T, k)) >= k
           N == {n \in Nat : Q(n)}
<1>0. \A T \in SUBSET S : /\ IsFiniteSet(T) /\ Cardinality(T) \in Nat
                          /\ IsFiniteSet(Tops(T, k)) /\ Cardinality(Tops(T, k)) \in Nat
  <2> TAKE T \in SUBSET S
  <2>1. IsFiniteSet(T) /\ Tops(T, k) \subseteq T
    BY FS_Subset DEF Tops
  <2> QED BY <2>1, FS_Subset, FS_CardinalityType
<1>1. 0 \in N
  BY <1>0
<1>2. ASSUME NEW n \in N PROVE n + 1 \in N
  <2> SUFFICES ASSUME NEW T \in SUBSET S, Cardinality(T) = n + 1, n + 1 >= k
               PROVE  Cardinality(Tops(T, k)) >= k
    OBVIOUS
  <2>1. T # {} /\ T \subseteq Int /\ IsFiniteSet(T)
    BY <1>0, FS_EmptySet
  <2>2. PICK m \in T : \A x \in T : m <= x
    BY <2>1, HasLeast
  <2> DEFINE R == T \ {m}
  <2>3. R \in SUBSET S /\ Cardinality(R) = n
    <3>1. m \in T /\ IsFiniteSet(T) /\ n \in Nat
      BY <2>1, <2>2
    <3>2. Cardinality(T \ {m}) = Cardinality(T) - 1
      BY <3>1, FS_RemoveElement, Zenon
    <3>3. R \in SUBSET S
      OBVIOUS
    <3> QED BY <3>1, <3>2, <3>3
  <2>4. CASE n >= k
    <3>1. Tops(R, k) \subseteq Tops(T, k)
      <4> SUFFICES ASSUME NEW x \in R, Cardinality({y \in R : y > x}) < k
                   PROVE  Cardinality({y \in T : y > x}) < k
        BY DEF Tops
      <4>1. {y \in T : y > x} = {y \in R : y > x}
        BY <2>1, <2>2
      <4> QED BY <4>1
    <3>2. Cardinality(Tops(R, k)) >= k
      BY <2>3, <2>4
    <3> QED BY <1>0, <2>3, <3>1, <3>2, FS_Subset
  <2>5. CASE n + 1 = k
    <3>1. Tops(T, k) = T
      <4> SUFFICES ASSUME NEW x \in T PROVE Cardinality({y \in T : y > x}) < k
        BY DEF Tops
      <4>1. {y \in T : y > x} \subseteq T \ {x}
        BY <2>1
      <4>2. IsFiniteSet(T \ {x}) /\ Cardinality(T \ {x}) = n
        <5>1. IsFiniteSet(T \ {x}) /\ Cardinality(T \ {x}) = (n + 1) - 1
          BY <2>1, FS_RemoveElement
        <5>2. (n + 1) - 1 = n
          OBVIOUS
        <5> QED BY <5>1, <5>2
      <4>3. Cardinality({y \in T : y > x}) <= n /\ Cardinality({y \in T : y > x}) \in Nat
        BY <4>1, <4>2, FS_Subset, FS_CardinalityType
      <4> QED BY <2>5, <4>3
    <3> QED BY <2>5, <3>1
  <2> QED BY <2>4, <2>5
<1>3. N = Nat
  <2> HIDE DEF N
  <2>1. N \in SUBSET Nat
    BY DEF N
  <2> QED BY <1>1, <1>2, <2>1, NatSetInduction
<1>4. Cardinality(S) \in N
  BY <1>0, <1>3
<1> QED BY <1>4

\* Where a price is beyond the depth, the view shows as many as its depth above.
LEMMA ViewIsFull ==
  ASSUME NEW book \in Books, NEW p \in Prices, Cardinality(Above(book, p)) >= Depth
  PROVE  Cardinality(Above(Best(book), p)) >= Depth
<1> DEFINE S == Above(book, p)
<1>1. IsFiniteSet(S) /\ S \subseteq Int /\ Depth \in Nat
  BY AboveIsFinite, FeedAssumption
<1>2. Cardinality(Tops(S, Depth)) >= Depth
  BY <1>1, TopsAreMany
<1>3. Tops(S, Depth) \subseteq Above(Best(book), p)
  <2> SUFFICES ASSUME NEW o \in S, Cardinality({y \in S : y > o}) < Depth
               PROVE  o \in Above(Best(book), p)
    BY DEF Tops
  <2>1. o \in Better(p) /\ o \in Prices /\ book[o] > 0 /\ o > p
    BY DEF Above, Better
  <2>2. {y \in S : y > o} = Above(book, o)
    <3>1. o \in Int /\ p \in Int /\ \A y \in Prices : y \in Int
      BY <2>1, FeedAssumption
    <3>2. \A y \in Prices : y > o => y > p
      BY <2>1, <3>1
    <3> QED BY <3>2 DEF Above, Better
  <2>3. Best(book)[o] = book[o]
    BY <2>1, <2>2, BestOf
  <2> QED BY <2>1, <2>3 DEF Above
<1>4. Cardinality(Tops(S, Depth)) <= Cardinality(Above(Best(book), p))
  BY <1>3, AboveIsFinite, FS_Subset
<1>5. Tops(S, Depth) \subseteq S
  BY DEF Tops
<1>6. Cardinality(Tops(S, Depth)) \in Nat /\ Cardinality(Above(Best(book), p)) \in Nat
  BY <1>1, <1>5, AboveIsFinite, FS_Subset, FS_CardinalityType
<1> QED BY <1>1, <1>2, <1>4, <1>6
-----------------------------------------------------------------------------
\* A book after some of its levels were replaced, and cut.
Patched(book, levels) == [p \in Prices |-> IF p \in DOMAIN levels THEN levels[p] ELSE book[p]]
Merged(book, levels) == Best(Patched(book, levels))

LEMMA BestIsBook == \A book \in Books : Best(book) \in Books /\ DOMAIN Best(book) = Prices
BY DEF Best, Books

\* A whole view makes a view of nothing.
LEMMA WholeIsView ==
  ASSUME NEW book \in Books
  PROVE  Merged(Empty, Whole(book)) = Best(book) /\ Whole(book) \in PartBooks
<1>1. Best(book) \in Books
  BY BestIsBook
<1>2. Patched(Empty, Whole(book)) = Best(book)
  <2>1. \A p \in Prices : Best(book)[p] > 0 \/ Best(book)[p] = 0
    BY <1>1 DEF Books
  <2>2. Best(book) = [p \in Prices |-> Best(book)[p]]
    BY <1>1 DEF Books
  <2>3. \A p \in Prices : Patched(Empty, Whole(book))[p] = Best(book)[p]
    BY <2>1 DEF Patched, Whole, Empty
  <2>4. Patched(Empty, Whole(book)) = [p \in Prices |-> Patched(Empty, Whole(book))[p]]
    BY DEF Patched
  <2> QED BY <2>2, <2>3, <2>4
<1>3. Whole(book) \in PartBooks
  <2> DEFINE S == {o \in Prices : Best(book)[o] > 0}
  <2>1. Whole(book) \in [S -> Nat] /\ S \in SUBSET Prices
    BY <1>1 DEF Whole, Books
  <2> QED BY <2>1 DEF PartBooks
<1> QED BY <1>2, <1>3, BestAgain DEF Merged

\* What others push out of a view is beyond its depth afterwards.
LEMMA PushedIsBeyond ==
  ASSUME NEW new \in Books, NEW p \in Prices, Best(new)[p] = 0, new[p] > 0
  PROVE  Cardinality(Above(new, p)) >= Depth /\ Cardinality(Above(Best(new), p)) >= Depth
<1>1. Best(new)[p] = IF Cardinality(Above(new, p)) < Depth THEN new[p] ELSE 0
  BY BestOf
<1>2. Cardinality(Above(new, p)) \in Nat /\ Depth \in Nat
  BY AboveIsFinite, FeedAssumption
<1>3. Cardinality(Above(new, p)) >= Depth
  BY <1>1, <1>2
<1> QED BY <1>3, ViewIsFull

\* The levels in which two views differ turn one into the other, those that
\* were pushed out left to be cut or not.
LEMMA DifferencesMerge ==
  ASSUME NEW old \in Books, NEW new \in Books, NEW levels \in Differences(old, new)
  PROVE  Merged(Best(old), levels) = Best(new) /\ levels \in PartBooks
<1> DEFINE differ == {p \in Prices : Best(old)[p] # Best(new)[p]}
           pushed == {p \in differ : Best(new)[p] = 0 /\ new[p] > 0}
<1>1. PICK beyond \in SUBSET pushed : levels = [p \in differ \ beyond |-> Best(new)[p]]
  BY DEF Differences
<1>2. Best(old) \in Books /\ Best(new) \in Books
  BY BestIsBook
<1> DEFINE X == Patched(Best(old), levels)
<1>3. \A p \in Prices : X[p] = IF p \in beyond THEN Best(old)[p] ELSE Best(new)[p]
  BY <1>1 DEF Patched
<1>4. \A p \in Prices : Best(X)[p] = Best(new)[p]
  <2> TAKE p \in Prices
  <2>0. /\ Cardinality(Above(X, p)) \in Nat /\ Cardinality(Above(new, p)) \in Nat
        /\ Cardinality(Above(Best(new), p)) \in Nat /\ Depth \in Nat
    BY AboveIsFinite, FeedAssumption
  <2>1. Best(X)[p] = IF Cardinality(Above(X, p)) < Depth THEN X[p] ELSE 0
    BY BestOf
  <2>2. CASE p \in beyond
    <3>1. Cardinality(Above(Best(new), p)) >= Depth /\ Best(new)[p] = 0
      BY <2>2, PushedIsBeyond
    <3>2. Above(Best(new), p) \subseteq Above(X, p)
      <4> SUFFICES ASSUME NEW o \in Better(p), Best(new)[o] > 0 PROVE X[o] > 0
        BY DEF Above
      <4>1. o \in Prices /\ o \notin beyond
        BY DEF Better
      <4> QED BY <4>1, <1>3
    <3>3. Cardinality(Above(X, p)) >= Depth
      BY <2>0, <3>1, <3>2, AboveLess
    <3> QED BY <2>0, <2>1, <3>1, <3>3
  <2>3. CASE p \notin beyond /\ Best(new)[p] = 0
    BY <1>3, <2>1, <2>3
  <2>4. CASE p \notin beyond /\ Best(new)[p] # 0
    <3>1. Cardinality(Above(new, p)) < Depth
      BY <2>4, BestOf
    <3>2. \A o \in beyond : ~(o > p)
      <4> SUFFICES ASSUME NEW o \in beyond, o > p PROVE FALSE
        OBVIOUS
      <4>1. o \in Prices /\ Cardinality(Above(new, o)) >= Depth
        BY PushedIsBeyond
      <4>2. o \in Int /\ p \in Int /\ \A y \in Prices : y \in Int
        BY <4>1, FeedAssumption
      <4>3. \A y \in Prices : y > o => y > p
        BY <4>2
      <4>4. Above(new, o) \subseteq Above(new, p)
        BY <4>3 DEF Above, Better
      <4>5. Cardinality(Above(new, o)) <= Cardinality(Above(new, p)) /\ Cardinality(Above(new, o)) \in Nat
        BY <4>4, AboveLess, AboveIsFinite
      <4> QED BY <2>0, <3>1, <4>1, <4>5
    <3>3. Above(X, p) \subseteq Above(new, p)
      <4> SUFFICES ASSUME NEW o \in Better(p), X[o] > 0 PROVE new[o] > 0
        BY DEF Above
      <4>1. o \in Prices /\ o \notin beyond
        BY <3>2 DEF Better
      <4>2. Best(new)[o] > 0
        BY <4>1, <1>3
      <4>3. Best(new)[o] = new[o] \/ Best(new)[o] = 0
        BY <4>1, BestOf
      <4> QED BY <4>2, <4>3
    <3>4. Cardinality(Above(X, p)) < Depth
      BY <2>0, <3>1, <3>3, AboveLess
    <3> QED BY <1>3, <2>1, <2>4, <3>4
  <2> QED BY <2>2, <2>3, <2>4
<1>5. Best(X) = Best(new)
  BY <1>4 DEF Best
<1>6. levels \in PartBooks
  <2>1. levels \in [differ \ beyond -> Nat] /\ differ \ beyond \in SUBSET Prices
    BY <1>1, <1>2 DEF Books
  <2> QED BY <2>1 DEF PartBooks
<1> QED BY <1>5, <1>6 DEF Merged

\* Where there is no level to send, the view is the same.
LEMMA SilenceIsSame ==
  ASSUME NEW old \in Books, NEW new \in Books, <<>> \in Differences(old, new)
  PROVE  Best(old) = Best(new)
<1>1. Merged(Best(old), <<>>) = Best(new)
  BY DifferencesMerge
<1>2. Best(old) \in Books
  BY BestIsBook
<1>3. Patched(Best(old), <<>>) = Best(old)
  <2>1. DOMAIN <<>> = {}
    OBVIOUS
  <2> QED BY <1>2, <2>1 DEF Patched, Books
<1> QED BY <1>1, <1>3, BestAgain DEF Merged
-----------------------------------------------------------------------------
\* A message that starts a book carries a whole view.
WholeMessages == \A i \in DOMAIN wire : wire[i].kind # "delta" => Merged(Empty, wire[i].levels) = wire[i].view

\* A change follows a view: it repeats the message of that view, or it is
\* numbered after it and makes of it the next view.
Follows(m, n, view) ==
  \/ m.seq = n /\ m.view = view
  \/ m.seq > n /\ Merged(view, m.levels) = m.view

\* On the wire of a venue that numbers its changes each follows the one before,
\* the last shows the book of the exchange, and the first follows the adapter,
\* unless one was lost since its snapshot.
Linked(w) == \A i \in 1 .. Len(w) - 1 : w[i + 1].kind = "delta" => Follows(w[i + 1], w[i].seq, w[i].view)
Latest(n, view) == n <= seq /\ view = Best(truth)
ChainInv ==
  /\ Linked(wire)
  /\ wire # <<>> => Latest(wire[Len(wire)].seq, wire[Len(wire)].view)
  /\ adapter.book # NoBook /\ ~missed =>
       /\ adapter.seq \in Nat
       /\ wire = <<>> => Latest(adapter.seq, adapter.book)
       /\ wire # <<>> /\ wire[1].kind = "delta" => Follows(wire[1], adapter.seq, adapter.book)

Adapters == [book : Books \cup {NoBook}, seq : Nat \cup {NoBook}]
FeedInv ==
  /\ venue \in {"bybit", "kraken"} \cup WholeViews /\ truth \in Books /\ seq \in Nat
  /\ wire \in Seq(Deliveries) /\ (~up => wire = <<>> /\ ~subscribed)
  /\ \A i \in DOMAIN wire : wire[i].kind = "whole" <=> venue \in WholeViews
  /\ adapter \in Adapters /\ missed \in BOOLEAN
  /\ WholeMessages
  /\ venue = "bybit" /\ up => ChainInv
  /\ BooksAreTheVenues

\* One more message at the end.
LEMMA AppendKeeps ==
  ASSUME FeedInv, NEW m \in Deliveries, seq' \in Nat, truth' \in Books, up,
         wire' = Append(wire, m), UNCHANGED <<venue, up, adapter, emitted, missed>>,
         m.kind = "whole" <=> venue \in WholeViews,
         m.kind # "delta" => Merged(Empty, m.levels) = m.view,
         venue = "bybit" => m.seq = seq' /\ m.view = Best(truth'),
         venue = "bybit" /\ m.kind = "delta" => seq' = seq + 1 /\ Merged(Best(truth), m.levels) = m.view
  PROVE  FeedInv'
<1>1. wire \in Seq(Deliveries) /\ Len(wire) \in Nat /\ wire' \in Seq(Deliveries) /\ Len(wire') = Len(wire) + 1
      /\ wire'[Len(wire) + 1] = m /\ wire' # <<>>
      /\ \A i \in 1 .. Len(wire) : wire'[i] = wire[i]
  BY DEF FeedInv
<1>2. DOMAIN wire = 1 .. Len(wire) /\ DOMAIN wire' = 1 .. Len(wire) \cup {Len(wire) + 1}
  BY <1>1
<1>3. WholeMessages'
  BY <1>1, <1>2 DEF WholeMessages, FeedInv
<1>4. \A i \in DOMAIN wire' : wire'[i].kind = "whole" <=> venue' \in WholeViews
  BY <1>1, <1>2 DEF FeedInv
<1>5. ASSUME venue = "bybit" PROVE ChainInv'
  <2>0. ChainInv /\ seq \in Nat /\ m.seq = seq' /\ m.view = Best(truth')
    BY <1>5 DEF FeedInv
  <2>1. ASSUME m.kind = "delta", NEW n \in Nat, NEW view, Latest(n, view)
        PROVE  Follows(m, n, view)
    <3>1. n <= seq /\ view = Best(truth) /\ seq' = seq + 1 /\ Merged(Best(truth), m.levels) = m.view
      BY <1>5, <2>1 DEF Latest
    <3>2. m.seq > n
      BY <2>0, <2>1, <3>1
    <3> QED BY <3>1, <3>2 DEF Follows
  <2>2. Linked(wire')
    <3> SUFFICES ASSUME NEW i \in 1 .. Len(wire), wire'[i + 1].kind = "delta"
                 PROVE  Follows(wire'[i + 1], wire[i].seq, wire[i].view)
      BY <1>1 DEF Linked
    <3>1. CASE i = Len(wire)
      <4>0. i \in 1 .. Len(wire) /\ wire # <<>> /\ wire[i] \in Deliveries
        BY <1>1, <3>1
      <4>1. wire # <<>> /\ wire[i].seq \in Nat
        BY <4>0 DEF Deliveries
      <4>2. Latest(wire[i].seq, wire[i].view)
        BY <2>0, <3>1, <4>1 DEF ChainInv
      <4> QED BY <1>1, <2>1, <3>1, <4>1, <4>2
    <3>2. CASE i # Len(wire)
      <4>1. i \in 1 .. Len(wire) - 1 /\ i + 1 \in 1 .. Len(wire)
        BY <1>1, <3>2
      <4>2. wire'[i + 1] = wire[i + 1]
        BY <1>1, <4>1
      <4> QED BY <2>0, <4>1, <4>2 DEF ChainInv, Linked
    <3> QED BY <3>1, <3>2
  <2>3. Latest(wire[Len(wire)].seq, wire[Len(wire)].view)'
    BY <1>1, <2>0 DEF Latest
  <2>4. ASSUME adapter.book # NoBook, ~missed
        PROVE  /\ adapter.seq \in Nat
               /\ wire'[1].kind = "delta" => Follows(wire'[1], adapter.seq, adapter.book)
    <3>1. adapter.seq \in Nat
      BY <2>0, <2>4 DEF ChainInv
    <3>2. CASE wire = <<>>
      <4>1. wire'[1] = m /\ Latest(adapter.seq, adapter.book)
        BY <1>1, <2>0, <2>4, <3>2 DEF ChainInv
      <4> QED BY <2>1, <3>1, <4>1
    <3>3. CASE wire # <<>>
      <4>1. wire'[1] = wire[1]
        BY <1>1, <3>3
      <4> QED BY <2>0, <2>4, <3>1, <3>3, <4>1 DEF ChainInv
    <3> QED BY <3>2, <3>3
  <2>5. wire' # <<>> /\ adapter' = adapter /\ missed' = missed
    BY <1>1
  <2>6. (\A i \in 1 .. Len(wire) - 1 : wire[i + 1].kind = "delta" => Follows(wire[i + 1], wire[i].seq, wire[i].view))'
    BY <2>2 DEF Linked
  <2> QED BY <2>2, <2>3, <2>4, <2>5, <2>6 DEF ChainInv, Linked
<1>6. /\ up /\ up' = up /\ venue' = venue /\ adapter' = adapter /\ emitted' = emitted /\ missed' = missed
      /\ venue \in {"bybit", "kraken"} \cup WholeViews
  BY DEF FeedInv
<1>7. BooksAreTheVenues' /\ adapter' \in Adapters
  BY <1>6 DEF FeedInv, BooksAreTheVenues
<1> QED BY <1>1, <1>3, <1>4, <1>5, <1>6, <1>7 DEF FeedInv

\* A message is one of those that may be on the way.
LEMMA MessageFields ==
  ASSUME NEW kind \in {"snapshot", "whole", "delta"}, NEW levels \in PartBooks, NEW book \in Books, seq' \in Nat
  PROVE  /\ Message(kind, levels, book) \in Deliveries
         /\ Message(kind, levels, book).kind = kind /\ Message(kind, levels, book).seq = seq'
         /\ Message(kind, levels, book).levels = levels /\ Message(kind, levels, book).view = Best(book)
BY BestIsBook DEF Message, Deliveries
LEMMA ChangeKeeps == FeedInv /\ Change => FeedInv'
<1> SUFFICES ASSUME FeedInv, Change PROVE FeedInv'
  OBVIOUS
<1>1. PICK p \in Prices, q \in 0 .. MaxQty :
       /\ q # truth[p] /\ truth' = [truth EXCEPT ![p] = q]
       /\ IF ~up THEN UNCHANGED wire
          ELSE IF venue \in WholeViews
            THEN wire' = Append(wire, Message("whole", Whole(truth'), truth'))
          ELSE \E levels \in Differences(truth, truth') :
                 wire' = IF levels = <<>> THEN wire
                         ELSE Append(wire, Message("delta", levels, truth'))
  BY DEF Change
<1>2. truth \in Books /\ truth' \in Books /\ seq \in Nat /\ seq' = seq + 1 /\ seq' \in Nat
      /\ UNCHANGED <<venue, subscribed, up, adapter, emitted, missed, interruptions>>
  BY <1>1, FeedAssumption DEF FeedInv, Change, Books
<1>3. CASE ~up
  BY <1>1, <1>2, <1>3 DEF FeedInv, WholeMessages, BooksAreTheVenues
<1>4. CASE up /\ venue \in WholeViews
  <2> DEFINE m == Message("whole", Whole(truth'), truth')
  <2>1. Merged(Empty, Whole(truth')) = Best(truth') /\ Whole(truth') \in PartBooks
    BY <1>2, WholeIsView
  <2>2. m \in Deliveries /\ m.kind = "whole" /\ m.levels = Whole(truth') /\ m.view = Best(truth')
    BY <1>2, <2>1, MessageFields
  <2>3. wire' = Append(wire, m)
    BY <1>1, <1>4
  <2> HIDE DEF m
  <2> QED BY <1>2, <1>4, <2>1, <2>2, <2>3, AppendKeeps DEF WholeViews
<1>5. CASE up /\ venue \notin WholeViews
  <2>1. PICK levels \in Differences(truth, truth') :
          wire' = IF levels = <<>> THEN wire ELSE Append(wire, Message("delta", levels, truth'))
    BY <1>1, <1>5
  <2>2. Merged(Best(truth), levels) = Best(truth') /\ levels \in PartBooks
    BY <1>2, DifferencesMerge
  <2>3. CASE levels # <<>>
    <3> DEFINE m == Message("delta", levels, truth')
    <3>1. m \in Deliveries /\ m.kind = "delta" /\ m.levels = levels /\ m.view = Best(truth') /\ m.seq = seq'
      BY <1>2, <2>2, MessageFields
    <3>2. wire' = Append(wire, m)
      BY <2>1, <2>3
    <3> HIDE DEF m
    <3> QED BY <1>2, <1>5, <2>2, <3>1, <3>2, AppendKeeps
  <2>4. CASE levels = <<>>
    <3>1. wire' = wire /\ Best(truth) = Best(truth')
      BY <1>2, <2>1, <2>4, SilenceIsSame
    <3>2. \A n \in Nat : \A view : Latest(n, view) => Latest(n, view)'
      BY <1>2, <3>1 DEF Latest
    <3>3. wire # <<>> => wire[Len(wire)] \in Deliveries
      BY DEF FeedInv
    <3>4. wire # <<>> => wire[Len(wire)].seq \in Nat
      BY <3>3 DEF Deliveries
    <3>5. venue = "bybit" /\ ChainInv => ChainInv'
      <4> SUFFICES ASSUME ChainInv PROVE ChainInv'
        OBVIOUS
      <4>1. Linked(wire')
        BY <3>1 DEF ChainInv
      <4>2. wire' # <<>> => Latest(wire[Len(wire)].seq, wire[Len(wire)].view)'
        BY <3>1, <3>2, <3>4 DEF ChainInv, Latest
      <4>3. ASSUME adapter.book # NoBook, ~missed
            PROVE  /\ adapter.seq \in Nat
                   /\ wire = <<>> => Latest(adapter.seq, adapter.book)'
                   /\ wire # <<>> /\ wire[1].kind = "delta" => Follows(wire[1], adapter.seq, adapter.book)
        <5>1. adapter.seq \in Nat /\ adapter' = adapter
          BY <1>2, <4>3 DEF ChainInv
        <5> QED BY <3>2, <4>3, <5>1 DEF ChainInv, Latest
      <4> QED BY <1>2, <3>1, <4>1, <4>2, <4>3 DEF ChainInv, Linked
    <3> QED BY <1>2, <1>5, <3>1, <3>5 DEF FeedInv, WholeMessages, BooksAreTheVenues
  <2> QED BY <2>3, <2>4
<1> QED BY <1>3, <1>4, <1>5

LEMMA SnapshotKeeps == FeedInv /\ Snapshot => FeedInv'
<1> SUFFICES ASSUME FeedInv, Snapshot PROVE FeedInv'
  OBVIOUS
<1> DEFINE m == Message("snapshot", Whole(truth), truth)
<1>1. truth \in Books /\ truth' = truth /\ seq' = seq /\ seq \in Nat /\ up /\ venue \notin WholeViews
      /\ wire' = Append(wire, m) /\ UNCHANGED <<venue, up, adapter, emitted, missed>>
  BY DEF FeedInv, Snapshot
<1>2. Merged(Empty, Whole(truth)) = Best(truth) /\ Whole(truth) \in PartBooks
  BY <1>1, WholeIsView
<1>3. m \in Deliveries /\ m.kind = "snapshot" /\ m.levels = Whole(truth) /\ m.view = Best(truth) /\ m.seq = seq'
  BY <1>1, <1>2, MessageFields
<1> HIDE DEF m
<1> QED BY <1>1, <1>2, <1>3, AppendKeeps

LEMMA RenumberKeeps == FeedInv /\ Renumber => FeedInv'
<1> SUFFICES ASSUME FeedInv, Renumber PROVE FeedInv'
  OBVIOUS
<1> DEFINE m == Message("snapshot", Whole(truth), truth)
<1>1. truth \in Books /\ truth' = truth /\ seq' = 1 /\ venue \notin WholeViews /\ up
      /\ wire' = Append(wire, m) /\ UNCHANGED <<venue, up, adapter, emitted, missed>>
  BY DEF FeedInv, Renumber, WholeViews
<1>2. Merged(Empty, Whole(truth)) = Best(truth) /\ Whole(truth) \in PartBooks
  BY <1>1, WholeIsView
<1>3. m \in Deliveries /\ m.kind = "snapshot" /\ m.levels = Whole(truth) /\ m.view = Best(truth) /\ m.seq = seq'
  BY <1>1, <1>2, MessageFields
<1> HIDE DEF m
<1> QED BY <1>1, <1>2, <1>3, AppendKeeps

\* The first message once more, or gone.
LEMMA RepeatKeeps == FeedInv /\ Repeat => FeedInv'
<1> SUFFICES ASSUME FeedInv, Repeat PROVE FeedInv'
  OBVIOUS
<1>1. /\ wire \in Seq(Deliveries) /\ wire # <<>> /\ wire' = <<Head(wire)>> \o wire
      /\ UNCHANGED <<venue, truth, seq, subscribed, up, adapter, emitted, missed>> /\ up
  BY DEF FeedInv, Repeat
<1>2. /\ Len(wire) \in Nat /\ Len(wire) > 0 /\ wire' \in Seq(Deliveries) /\ Len(wire') = Len(wire) + 1
      /\ wire'[1] = wire[1] /\ \A i \in 1 .. Len(wire) : wire'[i + 1] = wire[i]
  BY <1>1
<1>3. \A i \in 1 .. Len(wire') : i = 1 \/ (i - 1 \in 1 .. Len(wire) /\ wire'[i] = wire[i - 1])
  BY <1>2
<1>4. \A i \in DOMAIN wire' : \E j \in DOMAIN wire : wire'[i] = wire[j]
  <2>0. DOMAIN wire' = 1 .. Len(wire') /\ DOMAIN wire = 1 .. Len(wire)
    BY <1>1, <1>2
  <2> SUFFICES ASSUME NEW i \in 1 .. Len(wire') PROVE \E j \in 1 .. Len(wire) : wire'[i] = wire[j]
    BY <2>0, Zenon
  <2>1. CASE i = 1
    BY <1>2, <2>1
  <2>2. CASE i # 1
    <3>1. i - 1 \in 1 .. Len(wire) /\ wire'[i] = wire[i - 1]
      BY <1>3, <2>2
    <3> QED BY <3>1
  <2> QED BY <2>1, <2>2
<1>5. WholeMessages' /\ (\A i \in DOMAIN wire' : wire'[i].kind = "whole" <=> venue' \in WholeViews)
  BY <1>1, <1>4 DEF FeedInv, WholeMessages
<1>6. ASSUME venue = "bybit" PROVE ChainInv'
  <2>0. ChainInv
    BY <1>1, <1>6 DEF FeedInv
  <2>1. Linked(wire')
    <3> SUFFICES ASSUME NEW i \in 1 .. Len(wire), wire'[i + 1].kind = "delta"
                 PROVE  Follows(wire'[i + 1], wire'[i].seq, wire'[i].view)
      BY <1>2 DEF Linked
    <3>1. CASE i = 1
      BY <1>2, <3>1 DEF Follows
    <3>2. CASE i # 1
      <4> DEFINE j == i - 1
      <4>1. j \in 1 .. Len(wire) - 1 /\ j + 1 = i /\ wire'[i] = wire[j] /\ wire'[i + 1] = wire[j + 1]
        BY <1>2, <1>3, <3>2
      <4> HIDE DEF j
      <4>2. wire[j + 1].kind = "delta"
        BY <4>1
      <4>3. Follows(wire[j + 1], wire[j].seq, wire[j].view)
        BY <2>0, <4>1, <4>2 DEF ChainInv, Linked
      <4> QED BY <4>1, <4>3
    <3> QED BY <3>1, <3>2
  <2>2. wire' # <<>> /\ wire'[Len(wire')] = wire[Len(wire)]
    BY <1>2
  <2>3. adapter.book # NoBook /\ ~missed =>
          adapter.seq \in Nat /\ (wire[1].kind = "delta" => Follows(wire[1], adapter.seq, adapter.book))
    BY <1>1, <2>0 DEF ChainInv
  <2> QED BY <1>1, <1>2, <2>0, <2>1, <2>2, <2>3 DEF ChainInv, Linked, Latest
<1> QED BY <1>1, <1>2, <1>5, <1>6 DEF FeedInv, BooksAreTheVenues

\* What the wire has after its first message was on it before.
LEMMA TailOf ==
  ASSUME NEW w \in Seq(Deliveries), w # <<>>
  PROVE  /\ Tail(w) \in Seq(Deliveries) /\ Len(Tail(w)) = Len(w) - 1 /\ Len(w) \in Nat \ {0}
         /\ Head(w) = w[1] /\ w[1] \in Deliveries
         /\ \A i \in 1 .. Len(w) - 1 : Tail(w)[i] = w[i + 1] /\ i + 1 \in 1 .. Len(w)
OBVIOUS

LEMMA TailKeeps ==
  ASSUME FeedInv, wire # <<>>, wire' = Tail(wire), venue' = venue
  PROVE  /\ wire' \in Seq(Deliveries) /\ WholeMessages'
         /\ \A i \in DOMAIN wire' : wire'[i].kind = "whole" <=> venue' \in WholeViews
<1>1. wire \in Seq(Deliveries)
  BY DEF FeedInv
<1>2. \A i \in DOMAIN wire' : \E j \in DOMAIN wire : wire'[i] = wire[j]
  <2>1. wire' \in Seq(Deliveries) /\ Len(wire') = Len(wire) - 1 /\ Len(wire) \in Nat
    BY <1>1, TailOf
  <2> SUFFICES ASSUME NEW i \in 1 .. Len(wire) - 1 PROVE \E j \in 1 .. Len(wire) : wire'[i] = wire[j]
    BY <1>1, <2>1
  <2>2. wire'[i] = wire[i + 1] /\ i + 1 \in 1 .. Len(wire)
    BY <1>1, TailOf
  <2> QED BY <2>2
<1> QED BY <1>1, <1>2, TailOf DEF FeedInv, WholeMessages

LEMMA TailLinked ==
  ASSUME FeedInv, ChainInv, wire # <<>>, wire' = Tail(wire), UNCHANGED <<truth, seq>>
  PROVE  Linked(wire') /\ (wire # <<>> => Latest(wire[Len(wire)].seq, wire[Len(wire)].view))'
<1>1. wire \in Seq(Deliveries) /\ Len(wire) \in Nat \ {0} /\ Len(wire') = Len(wire) - 1
      /\ wire' \in Seq(Deliveries)
      /\ \A i \in 1 .. Len(wire) - 1 : wire'[i] = wire[i + 1] /\ i + 1 \in 1 .. Len(wire)
  BY TailOf DEF FeedInv
<1>2. Linked(wire')
  <2> SUFFICES ASSUME NEW i \in 1 .. Len(wire) - 2, wire'[i + 1].kind = "delta"
               PROVE  Follows(wire'[i + 1], wire'[i].seq, wire'[i].view)
    BY <1>1 DEF Linked
  <2> DEFINE j == i + 1
  <2>1. wire'[i] = wire[j] /\ wire'[i + 1] = wire[j + 1] /\ j \in 1 .. Len(wire) - 1
    BY <1>1
  <2> HIDE DEF j
  <2> QED BY <2>1 DEF ChainInv, Linked
<1>3. ASSUME wire' # <<>> PROVE Latest(wire[Len(wire)].seq, wire[Len(wire)].view)'
  <2> DEFINE n == Len(wire)
  <2>1. n \in Nat \ {0} /\ n - 1 # 0
    <3>1. Len(wire') # 0
      BY <1>1, <1>3
    <3> QED BY <1>1, <3>1
  <2>2. \A i \in 1 .. n - 1 : wire'[i] = wire[i + 1]
    BY <1>1
  <2>3. wire'[Len(wire')] = wire[n]
    <3>1. Len(wire') = n - 1
      BY <1>1
    <3> HIDE DEF n
    <3>2. n - 1 \in 1 .. n - 1 /\ (n - 1) + 1 = n
      BY <2>1
    <3> QED BY <2>2, <3>1, <3>2
  <2>4. Latest(wire[n].seq, wire[n].view)
    BY DEF ChainInv
  <2> HIDE DEF n
  <2> QED BY <2>3, <2>4 DEF Latest
<1> QED BY <1>2, <1>3

\* The rest of the wire, when a message before it was lost.
LEMMA TailMissed ==
  ASSUME FeedInv, ChainInv, wire # <<>>, wire' = Tail(wire), UNCHANGED <<truth, seq>>, missed'
  PROVE  ChainInv'
BY TailLinked DEF ChainInv, Linked, Latest

LEMMA LoseKeeps == FeedInv /\ Lose => FeedInv'
<1> SUFFICES ASSUME FeedInv, Lose PROVE FeedInv'
  OBVIOUS
<1>1. wire # <<>> /\ wire' = Tail(wire) /\ missed' = (missed \/ venue = "bybit")
      /\ UNCHANGED <<venue, truth, seq, subscribed, up, adapter, emitted>> /\ up
  BY DEF FeedInv, Lose
<1>2. venue = "bybit" => ChainInv'
  BY <1>1, TailMissed DEF FeedInv
<1>3. missed' \in BOOLEAN /\ BooksAreTheVenues'
  BY <1>1 DEF FeedInv, BooksAreTheVenues
<1> QED BY <1>1, <1>2, <1>3, TailKeeps DEF FeedInv

LEMMA DownKeeps ==
  ASSUME FeedInv, Down, UNCHANGED <<venue, truth, seq, adapter>>
  PROVE  FeedInv'
<1>1. wire' = <<>> /\ wire' \in Seq(Deliveries) /\ DOMAIN wire' = {} /\ emitted' = NoBook /\ ~up' /\ ~subscribed'
      /\ missed' = FALSE
  BY DEF Down
<1> QED BY <1>1 DEF FeedInv, WholeMessages, BooksAreTheVenues

LEMMA ConnectKeeps == FeedInv /\ Connect => FeedInv'
<1> SUFFICES ASSUME FeedInv, Connect PROVE FeedInv'
  OBVIOUS
<1>1. /\ wire = <<>> /\ ~subscribed /\ up' /\ adapter' = [book |-> NoBook, seq |-> NoBook]
      /\ UNCHANGED <<venue, truth, seq, subscribed, wire, emitted, missed>>
  BY DEF FeedInv, Connect, AdapterOf, FreshAdapter
<1>2. adapter'.book = NoBook /\ adapter'.seq = NoBook /\ adapter' \in Adapters /\ Len(wire') = 0
  BY <1>1 DEF Adapters
<1>3. Linked(wire')
  BY <1>2 DEF Linked
<1>4. ChainInv'
  BY <1>1, <1>2, <1>3 DEF ChainInv, Linked
<1> QED BY <1>1, <1>2, <1>4 DEF FeedInv, WholeMessages, BooksAreTheVenues
-----------------------------------------------------------------------------
(* The reader                                                              *)

LEMMA MergedIsBook ==
  ASSUME NEW book \in Books, NEW levels \in PartBooks
  PROVE  Merged(book, levels) \in Books /\ Empty \in Books
<1>1. \A p \in DOMAIN levels : levels[p] \in Nat
  BY DEF PartBooks
<1>2. Patched(book, levels) \in Books
  BY <1>1 DEF Patched, Books
<1> QED BY <1>2, BestIsBook DEF Merged, Empty, Books

\* What a message starts from, and what it makes of it.
LEMMA StartedForm ==
  ASSUME FeedInv, NEW m \in Deliveries
  PROVE  /\ Started(adapter, m) \in Adapters
         /\ m.kind = "delta" => Started(adapter, m) = adapter
         /\ m.kind # "delta" => Started(adapter, m).book = Empty
         /\ m.kind = "snapshot" => Started(adapter, m).seq = NoBook
<1>1. Empty \in Books
  BY DEF Empty, Books
<1>2. adapter \in Adapters /\ adapter.seq \in Nat \cup {NoBook}
  BY DEF FeedInv, Adapters
<1>3. m.kind \in {"snapshot", "whole", "delta"}
  BY DEF Deliveries
<1> QED BY <1>1, <1>2, <1>3 DEF Started, Adapters

LEMMA AppliedForm ==
  ASSUME NEW a \in Adapters, NEW m \in Deliveries, a.book # NoBook
  PROVE  /\ Applied(a, m) \in Adapters /\ Applied(a, m).book \in Books
         /\ Applied(a, m).book = Merged(a.book, m.levels)
         /\ Applied(a, m).seq = IF Numbered THEN m.seq ELSE a.seq
<1> DEFINE X == [p \in Prices |-> IF p \in DOMAIN m.levels THEN m.levels[p] ELSE a.book[p]]
           k == IF Numbered THEN m.seq ELSE a.seq
<1>1. Applied(a, m) = [a EXCEPT !.book = Cut(X), !.seq = k]
  BY DEF Applied
<1>2. a.book \in Books /\ a.seq \in Nat \cup {NoBook} /\ m.levels \in PartBooks /\ m.seq \in Nat
  BY DEF Adapters, Deliveries
<1>3. Cut(X) = Merged(a.book, m.levels)
  BY Zenon DEF Merged, Patched, Cut
<1>4. Cut(X) \in Books /\ k \in Nat \cup {NoBook}
  BY <1>2, <1>3, MergedIsBook
<1> HIDE DEF X, k
<1>5. /\ [a EXCEPT !.book = Cut(X), !.seq = k] \in Adapters
      /\ [a EXCEPT !.book = Cut(X), !.seq = k].book = Cut(X)
      /\ [a EXCEPT !.book = Cut(X), !.seq = k].seq = k
  BY <1>4 DEF Adapters
<1> QED BY <1>1, <1>3, <1>4, <1>5 DEF k

\* Once the adapter has the view of a message the rest of the wire follows it.
LEMMA ReadOn ==
  ASSUME FeedInv, ChainInv, wire # <<>>, wire' = Tail(wire), adapter'.seq = wire[1].seq,
         adapter'.book = wire[1].view, UNCHANGED <<truth, seq>>
  PROVE  ChainInv'
<1>1. wire \in Seq(Deliveries) /\ Len(wire) \in Nat \ {0} /\ wire[1] \in Deliveries /\ Len(wire') = Len(wire) - 1
      /\ wire' \in Seq(Deliveries)
      /\ \A i \in 1 .. Len(wire) - 1 : wire'[i] = wire[i + 1] /\ i + 1 \in 1 .. Len(wire)
  BY TailOf DEF FeedInv
<1>2. Linked(wire')
  BY TailLinked
<1>3. Latest(wire[Len(wire)].seq, wire[Len(wire)].view)
  BY DEF ChainInv
<1>4. CASE Len(wire) = 1
  <2>1. wire' = <<>> /\ Latest(adapter'.seq, adapter'.book) /\ adapter'.seq \in Nat
    BY <1>1, <1>3, <1>4 DEF Deliveries
  <2> QED BY <1>2, <2>1 DEF ChainInv, Linked, Latest
<1>5. CASE Len(wire) # 1
  <2> DEFINE n == Len(wire)
             m == Len(wire')
  <2>a. n \in Nat /\ n # 0 /\ n # 1 /\ m = n - 1
    BY <1>1, <1>5
  <2>b. \A i \in 1 .. n - 1 : wire'[i] = wire[i + 1]
    BY <1>1
  <2>c. m # 0 /\ n > 1
    <3> HIDE DEF n, m
    <3> QED BY <2>a
  <2>0. n \in Nat /\ n > 1 /\ Len(wire') = n - 1 /\ \A i \in 1 .. n - 1 : wire'[i] = wire[i + 1]
    BY <2>a, <2>b, <2>c
  <2>1. wire' # <<>> /\ wire'[Len(wire')] = wire[Len(wire)] /\ wire'[1] = wire[2] /\ 1 \in 1 .. Len(wire) - 1
    <3>1. wire' # <<>>
      <4>1. wire' = <<>> => Len(wire') = 0
        OBVIOUS
      <4> QED BY <2>c, <4>1
    <3> HIDE DEF n
    <3>2. 1 \in 1 .. n - 1 /\ n - 1 \in 1 .. n - 1 /\ (n - 1) + 1 = n /\ 1 + 1 = 2
      BY <2>0
    <3>3. wire'[n - 1] = wire[n] /\ wire'[1] = wire[2]
      BY <2>0, <3>2
    <3>4. wire'[Len(wire')] = wire[Len(wire)]
      BY <2>0, <3>3 DEF n
    <3> QED BY <3>1, <3>2, <3>3, <3>4 DEF n
  <2>2. wire[2].kind = "delta" => Follows(wire[2], wire[1].seq, wire[1].view)
    BY <2>1 DEF ChainInv, Linked
  <2>3. adapter'.seq \in Nat
    BY <1>1 DEF Deliveries
  <2> QED BY <1>2, <1>3, <2>1, <2>2, <2>3 DEF ChainInv, Linked, Latest
<1> QED BY <1>4, <1>5

\* Another message of a venue that numbers its changes: a repeated one shows
\* what the adapter has, a new one brings the adapter to what it shows.
LEMMA BybitReads ==
  ASSUME FeedInv, venue = "bybit", up, wire # <<>>, ~missed \/ wire[1].kind # "delta", NEW a, a = Started(adapter, wire[1]), a.book # NoBook
  PROVE  /\ Outdone(a, wire[1]) => a.seq = wire[1].seq /\ a.book = wire[1].view
         /\ ~Outdone(a, wire[1]) => Merged(a.book, wire[1].levels) = wire[1].view
<1>1. wire \in Seq(Deliveries) /\ wire[1] \in Deliveries /\ 1 \in DOMAIN wire /\ ChainInv /\ Numbered
  BY TailOf DEF FeedInv, Numbered
<1>2. wire[1].kind \in {"snapshot", "delta"} /\ wire[1].seq \in Nat
  <2>1. wire[1].kind # "whole"
    BY <1>1 DEF FeedInv, WholeViews
  <2> QED BY <1>1, <2>1 DEF Deliveries
<1>3. CASE wire[1].kind = "snapshot"
  <2>1. a.book = Empty /\ a.seq = NoBook
    BY <1>1, <1>3, StartedForm
  <2>2. ~Outdone(a, wire[1])
    BY <2>1 DEF Outdone
  <2>3. Merged(Empty, wire[1].levels) = wire[1].view
    BY <1>1, <1>3 DEF FeedInv, WholeMessages
  <2> QED BY <2>1, <2>2, <2>3
<1>4. CASE wire[1].kind = "delta"
  <2>1. a = adapter
    BY <1>1, <1>4, StartedForm
  <2>2. a.seq \in Nat /\ Follows(wire[1], a.seq, a.book)
    BY <1>1, <1>4, <2>1 DEF ChainInv
  <2>3. a.seq # NoBook
    BY <2>2, FeedAssumption
  <2>4. Outdone(a, wire[1]) <=> wire[1].seq <= a.seq
    BY <1>1, <2>3 DEF Outdone
  <2> QED BY <1>2, <2>2, <2>4 DEF Follows
<1> QED BY <1>2, <1>3, <1>4

LEMMA ReadKeeps == FeedInv /\ Read => FeedInv'
<1> SUFFICES ASSUME FeedInv, Read PROVE FeedInv'
  OBVIOUS
<1> DEFINE m == wire[1]
           a == Started(adapter, m)
<1>1. /\ up /\ wire # <<>> /\ wire \in Seq(Deliveries) /\ Head(wire) = m /\ m \in Deliveries /\ 1 \in DOMAIN wire
      /\ UNCHANGED <<venue, truth, seq>>
  BY TailOf DEF FeedInv, Read
<1>2. \/ a.book = NoBook /\ Down /\ UNCHANGED adapter
      \/ /\ a.book # NoBook /\ Outdone(a, m)
         /\ wire' = Tail(wire) /\ adapter' = a /\ UNCHANGED <<up, subscribed, emitted, missed>>
      \/ a.book # NoBook /\ ~Checked(Applied(a, m), m) /\ Down /\ UNCHANGED adapter
      \/ /\ a.book # NoBook /\ ~Outdone(a, m) /\ Checked(Applied(a, m), m)
         /\ adapter' = Applied(a, m) /\ wire' = Tail(wire)
         /\ emitted' = [book |-> adapter'.book, view |-> m.view] /\ missed' = (missed /\ m.kind = "delta")
         /\ UNCHANGED <<up, subscribed>>
  BY <1>1 DEF Read
<1>3. a \in Adapters /\ (m.kind # "delta" => a.book = Empty)
  BY <1>1, StartedForm
<1>4. m.kind \in {"snapshot", "whole", "delta"}
  BY <1>1 DEF Deliveries
<1>5. a.book # NoBook =>
        /\ Applied(a, m) \in Adapters /\ Applied(a, m).book = Merged(a.book, m.levels)
        /\ Applied(a, m).seq = IF Numbered THEN m.seq ELSE a.seq
  BY <1>1, <1>3, AppliedForm
<1>6. /\ m.kind # "delta" => Merged(Empty, m.levels) = m.view
      /\ m.kind = "whole" <=> venue \in WholeViews
      /\ venue \in {"bybit", "kraken"} \cup WholeViews
  BY <1>1 DEF FeedInv, WholeMessages
<1>7. venue = "bybit" => Numbered /\ ChainInv
  BY <1>1 DEF FeedInv, Numbered
<1>8. venue = "bybit" /\ a.book # NoBook /\ (~missed \/ m.kind # "delta") =>
        /\ Outdone(a, m) => a.seq = m.seq /\ a.book = m.view
        /\ ~Outdone(a, m) => Merged(a.book, m.levels) = m.view
  BY <1>1, BybitReads
<1> HIDE DEF m, a
<1>9. ASSUME Down, UNCHANGED adapter PROVE FeedInv'
  BY <1>1, <1>9, DownKeeps
<1>10. ASSUME a.book # NoBook, Outdone(a, m), wire' = Tail(wire), adapter' = a,
              UNCHANGED <<up, subscribed, emitted, missed>>
       PROVE  FeedInv'
  <2>1. ASSUME venue = "bybit" PROVE ChainInv'
    <3>1. CASE ~missed \/ m.kind # "delta"
      BY <1>1, <1>7, <1>8, <1>10, <2>1, <3>1, ReadOn DEF m
    <3>2. CASE missed /\ m.kind = "delta"
      BY <1>1, <1>7, <1>10, <2>1, <3>2, TailMissed
    <3> QED BY <3>1, <3>2
  <2> QED BY <1>1, <1>3, <1>10, <2>1, TailKeeps DEF FeedInv, BooksAreTheVenues
<1>11. ASSUME a.book # NoBook, ~Outdone(a, m), Checked(Applied(a, m), m),
              adapter' = Applied(a, m), wire' = Tail(wire),
              emitted' = [book |-> adapter'.book, view |-> m.view],
              missed' = (missed /\ m.kind = "delta"), UNCHANGED <<up, subscribed>>
       PROVE  FeedInv'
  <2>1. /\ adapter'.book = Merged(a.book, m.levels) /\ adapter' \in Adapters
        /\ adapter'.seq = IF Numbered THEN m.seq ELSE a.seq
    BY <1>5, <1>11
  <2>3. venue # "bybit" \/ ~missed \/ m.kind # "delta" => adapter'.book = m.view
    <3>1. CASE m.kind # "delta"
      BY <1>3, <1>6, <2>1, <3>1
    <3>2. ASSUME m.kind = "delta", venue = "bybit", ~missed PROVE adapter'.book = m.view
      BY <1>8, <1>11, <2>1, <3>2
    <3>3. CASE m.kind = "delta" /\ venue = "kraken"
      <4>1. Best(adapter'.book) = m.view
        BY <1>11, <3>3 DEF Checked
      <4> QED BY <2>1, <4>1, BestAgain DEF Merged
    <3> QED BY <1>4, <1>6, <3>1, <3>2, <3>3
  <2>4. ASSUME venue = "bybit" PROVE ChainInv'
    <3>1. CASE ~missed \/ m.kind # "delta"
      BY <1>1, <1>7, <1>11, <2>1, <2>3, <2>4, <3>1, ReadOn DEF m
    <3>2. CASE missed /\ m.kind = "delta"
      BY <1>1, <1>7, <1>11, <2>4, <3>2, TailMissed
    <3> QED BY <3>1, <3>2
  <2>5. BooksAreTheVenues' /\ missed' \in BOOLEAN
    <3>1. venue' = venue /\ emitted'.book = adapter'.book /\ emitted'.view = m.view
      BY <1>1, <1>11
    <3> QED BY <1>11, <2>3, <3>1 DEF BooksAreTheVenues, FeedInv
  <2> QED BY <1>1, <1>11, <2>1, <2>4, <2>5, TailKeeps DEF FeedInv
<1> QED BY <1>2, <1>9, <1>10, <1>11

\* What a feed keeps true of the book of the exchange and of each message on the
\* wire; and of the book that the reader has built so far, unless a numbered change
\* was lost since its snapshot.
THEOREM FeedInvInvariant == FSpec => []FeedInv
<1>1. FInit => FeedInv
  <2> SUFFICES ASSUME FInit PROVE FeedInv
    OBVIOUS
  <2>1. /\ venue \in {"bybit", "kraken"} \cup WholeViews /\ truth \in Books /\ seq \in Nat /\ ~up /\ ~subscribed
        /\ wire = <<>> /\ wire \in Seq(Deliveries) /\ DOMAIN wire = {} /\ emitted = NoBook
        /\ adapter \in Adapters /\ missed = FALSE
    BY FeedAssumption DEF FInit, FreshAdapter, Empty, Books, Adapters
  <2> QED BY <2>1 DEF FeedInv, WholeMessages, BooksAreTheVenues
<1>2. FeedInv /\ [FNext]_bvars => FeedInv'
  <2> SUFFICES ASSUME FeedInv, [FNext]_bvars PROVE FeedInv'
    OBVIOUS
  <2>1. CASE Close
    BY <2>1, DownKeeps DEF Close
  <2>2. CASE UNCHANGED bvars
    BY <2>2 DEF bvars, FeedInv, WholeMessages, BooksAreTheVenues, ChainInv, Linked, Latest
  <2> QED BY <2>1, <2>2, ChangeKeeps, SnapshotKeeps, RenumberKeeps, RepeatKeeps, LoseKeeps, ConnectKeeps,
             ReadKeeps DEF FNext
<1> QED BY <1>1, <1>2, PTL DEF FSpec

\* Every book handed on is what the exchange showed, for any depth, changes,
\* repetitions, renumberings and reconnections; and for any losses where a checksum
\* or the whole view comes with each message.  Where changes are only numbered a lost
\* one goes unnoticed until the next snapshot or connection, and only then is the
\* book right again (magi1/collectors/public_ws.py:119 and :124).
THEOREM BooksReal == FSpec => []BooksAreTheVenues
<1>1. FeedInv => BooksAreTheVenues
  BY DEF FeedInv
<1> QED BY <1>1, FeedInvInvariant, PTL

-----------------------------------------------------------------------------
(* MarketContext: a row is of the day its observation began, and one that is *)
(* confirmed joins the state told of its venue in the file before.           *)

\* The figures of a venue that names the day are of the day it was asked on.
OfItsDay(o) == \A v \in DOMAIN o.rows : o.rows[v] # NoContext => o.rows[v].days \subseteq {DayOf(o.ts)}

\* What was confirmed was told of the venue some minutes before.
ToldTwice(o, b) ==
  \A v \in DOMAIN o.rows :
    o.rows[v] # NoContext /\ o.rows[v].count = 2 =>
      /\ b # NoContext /\ b.states[v] = o.rows[v].state
      /\ b.ts \in Nat /\ o.ts - b.ts \in NEAR .. LIFETIME

CtxInv ==
  /\ minute \in Nat
  /\ observing # NoContext =>
       observing \in Observations /\ Len(observing.rows) <= 2 /\ OfItsDay(observing)
  /\ file # NoContext =>
       file \in Observations /\ Len(file.rows) = 2 /\ OfItsDay(file) /\ ToldTwice(file, before)

\* What a venue answers is nothing, or a row of the day.
LEMMA AnswerIsOfTheDay ==
  ASSUME NEW v \in {"upbit", "binance"}, NEW t \in Nat, minute \in Nat, NEW given \in Answers(v, t)
  PROVE  given # NoContext => given \in VenueRows /\ given.days \subseteq {DayOf(t)}
<1> SUFFICES ASSUME given # NoContext PROVE given \in VenueRows /\ given.days \subseteq {DayOf(t)}
  OBVIOUS
<1> DEFINE Whose(days) == {a \in Basket : Usable(v, days[a], t)}
<1>1. PICK days \in [Basket -> {NoContext, DayOf(minute), DayOf(minute) - 1}] :
        given \in Classified(v, days, Whose(days))
  BY DEF Answers
<1> DEFINE valid == Whose(days)
           named == IF v = ByDay THEN {days[a] : a \in valid} ELSE {}
<1>0. given \in Classified(v, days, valid)
  BY <1>1
<1>2. \E d \in Directions, b \in (IF Wide(valid) THEN Breadths ELSE {"UNAVAILABLE"}) :
        given = [state |-> <<d, b>>, count |-> 0, days |-> named]
  <2> HIDE DEF valid
  <2> QED BY <1>0 DEF Classified
<1>3. DayOf(t) \in Int
  BY ContextAssumption DEF DayOf
<1>4. \A a \in Whose(days) : v = ByDay => days[a] = DayOf(t)
  BY DEF Usable
<1>5. given.days \subseteq {DayOf(t)}
  BY <1>2, <1>4
<1>6. PICK d \in Directions, b \in (IF Wide(valid) THEN Breadths ELSE {"UNAVAILABLE"}) :
        given = [state |-> <<d, b>>, count |-> 0, days |-> named]
  BY <1>2
<1>7. <<d, b>> \in VenueStates /\ 0 \in Nat /\ named \in SUBSET Int
  BY <1>3, <1>4, <1>6 DEF VenueStates
<1>8. given \in VenueRows
  BY <1>6, <1>7 DEF VenueRows
<1> QED BY <1>5, <1>8

\* An observation with one more answer.
LEMMA AskedObservation ==
  ASSUME NEW o \in Observations, NEW given, given # NoContext => given \in VenueRows
  PROVE  [o EXCEPT !.rows = Append(@, given)] \in Observations
BY DEF Observations

\* The next venue is one of the two.
LEMMA NextExchange ==
  ASSUME NEW n \in Nat, n < Len(Exchanges)
  PROVE  Exchanges[n + 1] \in {"upbit", "binance"} /\ Len(Exchanges) = 2
BY DEF Exchanges

LEMMA AskKeeps == CtxInv /\ Ask => CtxInv'
<1> SUFFICES ASSUME CtxInv, Ask PROVE CtxInv'
  OBVIOUS
<1>1. observing \in Observations /\ observing.ts \in Nat /\ Len(observing.rows) \in Nat
      /\ observing.rows \in Seq(VenueRows \cup {NoContext}) /\ OfItsDay(observing)
  BY DEF CtxInv, Ask, Observations
<1>2. Len(Exchanges) = 2 /\ Len(observing.rows) < 2
      /\ Exchanges[Len(observing.rows) + 1] \in {"upbit", "binance"}
  BY <1>1, NextExchange DEF Ask, Exchanges
<1>3. PICK given \in Answers(Exchanges[Len(observing.rows) + 1], observing.ts) :
        observing' = [observing EXCEPT !.rows = Append(@, given)]
  BY DEF Ask
<1>4. given # NoContext => given \in VenueRows /\ given.days \subseteq {DayOf(observing.ts)}
  BY <1>1, <1>2, <1>3, AnswerIsOfTheDay DEF CtxInv
<1>5. observing' \in Observations
  BY <1>1, <1>3, <1>4, AskedObservation
<1>6. observing'.ts = observing.ts /\ observing'.rows = Append(observing.rows, given)
  BY <1>1, <1>3 DEF Observations
<1>7. Len(observing'.rows) <= 2
  BY <1>1, <1>2, <1>6
<1>8. OfItsDay(observing')
  <2> SUFFICES ASSUME NEW v \in DOMAIN observing'.rows, observing'.rows[v] # NoContext
               PROVE  observing'.rows[v].days \subseteq {DayOf(observing.ts)}
    BY <1>6 DEF OfItsDay
  <2>1. v \in 1 .. Len(observing.rows) \/ v = Len(observing.rows) + 1
    BY <1>1, <1>6
  <2>2. CASE v \in 1 .. Len(observing.rows)
    BY <2>2, <1>1, <1>6 DEF OfItsDay
  <2>3. CASE v = Len(observing.rows) + 1
    BY <2>3, <1>1, <1>4, <1>6
  <2> QED BY <2>1, <2>2, <2>3
<1>9. UNCHANGED <<minute, file, before>>
  BY DEF Ask
<1> QED BY <1>5, <1>7, <1>8, <1>9 DEF CtxInv

\* A confirmation changes the count of a row and nothing else of it.
LEMMA CountedRow ==
  ASSUME NEW r \in VenueRows, NEW n \in Nat
  PROVE  /\ [r EXCEPT !.count = n] \in VenueRows /\ [r EXCEPT !.count = n].count = n
         /\ [r EXCEPT !.count = n].days = r.days /\ [r EXCEPT !.count = n].state = r.state
BY DEF VenueRows

\* A streak counts one or two, and two only after the same state in the file.
LEMMA StreakIsJoined ==
  ASSUME NEW w, NEW v
  PROVE  /\ Streak(w, v) = 2 => /\ Joined(file, w.ts) /\ file.rows[v] # NoContext
                                /\ file.rows[v].state = w.rows[v].state
         /\ Joined(file, w.ts) /\ file \in Observations /\ v \in 1 .. 2 /\ Len(file.rows) = 2
              => Streak(w, v) \in Nat
         /\ ~Joined(file, w.ts) => Streak(w, v) \in Nat
<1> DEFINE prior == IF Joined(file, w.ts) THEN file.rows[v] ELSE NoContext
<1>1. Streak(w, v) = IF prior # NoContext /\ prior.state = w.rows[v].state THEN Min({prior.count + 1, 2}) ELSE 1
  BY DEF Streak
<1>2. Streak(w, v) = 2 => prior # NoContext /\ prior.state = w.rows[v].state
  BY <1>1
<1>3. ASSUME Joined(file, w.ts), file \in Observations, v \in 1 .. 2, Len(file.rows) = 2
      PROVE  Streak(w, v) \in Nat
  <2>1. prior = file.rows[v] /\ file.rows[v] \in VenueRows \cup {NoContext}
    BY <1>3 DEF Observations
  <2>2. prior # NoContext => prior.count \in Nat
    BY <2>1 DEF VenueRows
  <2>3. prior # NoContext => Min({prior.count + 1, 2}) \in {prior.count + 1, 2}
    <3> SUFFICES ASSUME prior # NoContext PROVE Min({prior.count + 1, 2}) \in {prior.count + 1, 2}
      OBVIOUS
    <3>1. {prior.count + 1, 2} \in SUBSET Nat /\ {prior.count + 1, 2} # {}
      BY <2>2
    <3> QED BY <3>1, MinIsOne
  <2>4. prior # NoContext => Min({prior.count + 1, 2}) \in Nat
    BY <2>2, <2>3
  <2> QED BY <1>1, <2>4
<1> QED BY <1>1, <1>2, <1>3

LEMMA PublishKeeps == CtxInv /\ Publish => CtxInv'
<1> SUFFICES ASSUME CtxInv, Publish PROVE CtxInv'
  OBVIOUS
<1> DEFINE w == observing
           rows == Confirmed(w)
<1>1. w # NoContext /\ w \in Observations /\ OfItsDay(w) /\ minute \in Nat
      /\ file' = [ts |-> w.ts, rows |-> rows] /\ before' = Told
      /\ observing' = NoContext /\ minute' = minute
  BY DEF CtxInv, Publish
<1>2. w.ts \in Nat /\ w.rows \in Seq(VenueRows \cup {NoContext}) /\ Len(w.rows) = 2
      /\ DOMAIN w.rows = 1 .. 2
  BY <1>1 DEF Observations, Publish, Exchanges
<1>3. DOMAIN rows = 1 .. 2
  BY <1>2 DEF Confirmed
<1>4. \A v \in 1 .. 2 : w.rows[v] # NoContext => w.rows[v] \in VenueRows /\ Streak(w, v) \in Nat
  <2> SUFFICES ASSUME NEW v \in 1 .. 2, w.rows[v] # NoContext
               PROVE  w.rows[v] \in VenueRows /\ Streak(w, v) \in Nat
    OBVIOUS
  <2>1. w.rows[v] \in VenueRows
    BY <1>2
  <2>2. Joined(file, w.ts) => file \in Observations /\ Len(file.rows) = 2
    BY DEF CtxInv, Joined
  <2> QED BY <2>1, <2>2, StreakIsJoined
<1>5. \A v \in 1 .. 2 :
        /\ w.rows[v] = NoContext => rows[v] = NoContext
        /\ w.rows[v] # NoContext =>
             /\ rows[v] \in VenueRows /\ rows[v].days = w.rows[v].days
             /\ rows[v].state = w.rows[v].state /\ rows[v].count = Streak(w, v)
  BY <1>2, <1>4, CountedRow DEF Confirmed
<1>6. file' \in Observations /\ Len(file'.rows) = 2
  <2>1. rows = [v \in 1 .. 2 |-> rows[v]] /\ \A v \in 1 .. 2 : rows[v] \in VenueRows \cup {NoContext}
    BY <1>2, <1>5 DEF Confirmed
  <2>2. rows \in Seq(VenueRows \cup {NoContext}) /\ Len(rows) = 2
    BY <2>1
  <2> QED BY <1>1, <1>2, <2>2 DEF Observations
<1>7. OfItsDay(file')
  BY <1>1, <1>2, <1>3, <1>5 DEF OfItsDay
<1>8. ToldTwice(file', before')
  <2> SUFFICES ASSUME NEW v \in 1 .. 2, rows[v] # NoContext, rows[v].count = 2
               PROVE  /\ before' # NoContext /\ before'.states[v] = rows[v].state
                      /\ before'.ts \in Nat /\ w.ts - before'.ts \in NEAR .. LIFETIME
    BY <1>1, <1>3 DEF ToldTwice
  <2>1. w.rows[v] # NoContext /\ rows[v].state = w.rows[v].state /\ Streak(w, v) = 2
    BY <1>5
  <2>2. Joined(file, w.ts) /\ file.rows[v] # NoContext /\ file.rows[v].state = w.rows[v].state
    BY <2>1, StreakIsJoined
  <2>3. file # NoContext /\ w.ts - file.ts \in NEAR .. LIFETIME
    BY <2>2 DEF Joined
  <2>4. file \in Observations /\ file.ts \in Nat /\ DOMAIN file.rows = 1 .. 2
        /\ \A u \in 1 .. 2 : file.rows[u] \in VenueRows \cup {NoContext}
    BY <2>3 DEF CtxInv, Observations
  <2> DEFINE states == [u \in 1 .. 2 |-> IF file.rows[u] = NoContext THEN NoContext ELSE file.rows[u].state]
  <2>5. before' = [ts |-> file.ts, states |-> states]
    BY <1>1, <2>3, <2>4 DEF Told
  <2>6. \A u \in 1 .. 2 : states[u] \in VenueStates \cup {NoContext}
    BY <2>4 DEF VenueRows
  <2>7. before' \in Publications
    BY <2>4, <2>5, <2>6 DEF Publications
  <2>8. before' # NoContext
    BY <2>7, ContextAssumption
  <2>9. before'.states[v] = file.rows[v].state /\ before'.ts = file.ts
    BY <2>2, <2>5
  <2> QED BY <2>1, <2>2, <2>3, <2>4, <2>8, <2>9
<1> QED BY <1>1, <1>6, <1>7, <1>8 DEF CtxInv

\* What the context of the market keeps true: a row that names its day names that of
\* its observation, and a confirmed row repeats what was told some minutes before.
THEOREM CtxInvInvariant == MSpec => []CtxInv
<1>1. MInit => CtxInv
  BY DEF MInit, CtxInv
<1>2. CtxInv /\ [MNext]_mvars => CtxInv'
  <2> SUFFICES ASSUME CtxInv, [MNext]_mvars PROVE CtxInv'
    OBVIOUS
  <2>1. CASE Observe
    <3>1. observing' = [ts |-> minute, rows |-> <<>>] /\ minute \in Nat /\ UNCHANGED <<minute, file, before>>
      BY <2>1 DEF Observe, CtxInv
    <3>2. observing' \in Observations /\ Len(observing'.rows) = 0 /\ DOMAIN observing'.rows = {}
      BY <3>1 DEF Observations
    <3> QED BY <3>1, <3>2 DEF CtxInv, OfItsDay
  <2>2. CASE Ask
    BY <2>2, AskKeeps
  <2>3. CASE Publish
    BY <2>3, PublishKeeps
  <2>4. CASE Fail \/ Relaunch
    BY <2>4 DEF Fail, Relaunch, CtxInv
  <2>5. CASE MinutePasses
    BY <2>5 DEF MinutePasses, CtxInv
  <2>6. CASE UNCHANGED mvars
    BY <2>6 DEF mvars, CtxInv
  <2> QED BY <2>1, <2>2, <2>3, <2>4, <2>5, <2>6 DEF MNext
<1> QED BY <1>1, <1>2, PTL DEF MSpec

\* A state shown as confirmed was told twice of that venue, and the figures that name
\* their day are of today, for any venues' answers, failures and deaths.
THEOREM ContextConfirmed == MSpec => []ContextIsConfirmed
<1>1. CtxInv => ContextIsConfirmed
  <2> SUFFICES ASSUME CtxInv, NEW v \in DOMAIN OnView, OnView[v] # NoContext
               PROVE  /\ OnView[v].days \subseteq {DayOf(minute)}
                      /\ OnView[v].count = 2 =>
                           /\ before # NoContext /\ before.states[v] = OnView[v].state
                           /\ file.ts - before.ts >= NEAR
                           /\ minute - before.ts < 2 * LIFETIME
    BY DEF ContextIsConfirmed
  <2>1. DOMAIN <<>> = {}
    OBVIOUS
  <2>2. OnView # <<>>
    BY <2>1
  <2>3. file # NoContext /\ OnView = file.rows /\ minute < file.ts + LIFETIME /\ DayOf(file.ts) = DayOf(minute)
    BY <2>2 DEF OnView
  <2>4. file \in Observations /\ file.ts \in Nat /\ OfItsDay(file) /\ ToldTwice(file, before) /\ minute \in Nat
    BY <2>3 DEF CtxInv, Observations
  <2>5. OnView[v].days \subseteq {DayOf(minute)}
    BY <2>3, <2>4 DEF OfItsDay
  <2>6. ASSUME OnView[v].count = 2
        PROVE  /\ before # NoContext /\ before.states[v] = OnView[v].state
               /\ file.ts - before.ts >= NEAR /\ minute - before.ts < 2 * LIFETIME
    <3>1. /\ before # NoContext /\ before.states[v] = OnView[v].state
          /\ before.ts \in Nat /\ file.ts - before.ts \in NEAR .. LIFETIME
      BY <2>3, <2>4, <2>6 DEF ToldTwice
    <3>2. NEAR \in Nat /\ LIFETIME \in Nat
      BY ContextAssumption
    <3> QED BY <3>1, <3>2, <2>3, <2>4
  <2> QED BY <2>5, <2>6
<1> QED BY <1>1, CtxInvInvariant, PTL

=============================================================================
