---------------------------- MODULE ShadowSystem ----------------------------
(***************************************************************************)
(* The shadow pipeline end to end: published VPD states, MAGI2's outbox    *)
(* and MAGI3's worker, each with its own database, sharing only the clock  *)
(* and the feed.                                                           *)
(***************************************************************************)
EXTENDS ShadowEngine

CONSTANTS Assets, Periods, ScanTimes, NoSnapshot, MaxSourceAge, Notional, Hold

VARIABLES states, outbox, source

Outbox == INSTANCE IntentOutbox

bridgeVars == <<states, outbox, source>>
sysVars == <<vars, bridgeVars>>

\* The worker's identifiers and intents are those of the bridge.
OneVocabulary ==
  /\ Ids = Outbox!OutboxIds /\ Intents = Outbox!OutboxIntents
  /\ ScanTimes \subseteq Nat /\ MaxSourceAge \in Nat
  /\ NoSnapshot \notin Outbox!Snapshot

SysInit == Init /\ Outbox!Init

\* One clock for both services.
SysTick == Tick /\ UNCHANGED bridgeVars

Scan ==
  /\ \E d \in Periods, snapshot \in Outbox!Snapshot : Outbox!Publish(d, snapshot)
  /\ UNCHANGED <<store, memory, faults>>

Bridge == Outbox!BridgeStep /\ UNCHANGED <<store, memory, faults>>

\* MAGI3 pulls what MAGI2's outbox reports at that moment.
PullReport == Pull(Outbox!Report) /\ UNCHANGED bridgeVars

WorkerStep == (CycleStep \/ Fault \/ Start) /\ UNCHANGED bridgeVars

SysNext == SysTick \/ Scan \/ Bridge \/ PullReport \/ WorkerStep

SysSpec == SysInit /\ [][SysNext]_sysVars

-----------------------------------------------------------------------------
\* The two databases agree: what MAGI3 recorded under an identifier is what
\* MAGI2 put there first, whatever was fetched, re-fetched, delayed or lost.
StoresAgree ==
  \A i \in Ids :
    signals[i].intent # NoIntent => signals[i].intent = outbox[i]

\* "One attempt per asset and snapshot": the same state file, offered every
\* minute for twelve hours, leads to one position, opened within one life of
\* the moment MAGI2 first turned it into an intent.
OneAttemptPerPick ==
  \A p, q \in DOMAIN positions :
    /\ positions[p].id = positions[q].id => p = q
    /\ positions[p].opened \in
         outbox[positions[p].id].created .. (outbox[positions[p].id].created + MaxLife - 1)

\* No position rests on a snapshot older than the source limit plus one life.
TradesRestOnFreshSource ==
  \A p \in DOMAIN positions :
    positions[p].opened - positions[p].id[1] < MaxSourceAge + MaxLife

\* From published scan to shadow position: one attempt per pick on a fresh
\* source (magi2/shadow_bridge.py and magi3/shadow_runtime.py together).
PipelineIsConsistent == StoresAgree /\ OneAttemptPerPick /\ TradesRestOnFreshSource

-----------------------------------------------------------------------------
\* An entry of the outbox was made of a fresh snapshot, and is what was fetched.
OutboxInv ==
  /\ DOMAIN outbox = Ids
  /\ \A i \in Ids : outbox[i] # NoIntent =>
       /\ outbox[i] \in Intents /\ outbox[i].id = i
       /\ outbox[i].created <= now /\ outbox[i].created - i[1] \in 0 .. MaxSourceAge
  /\ \A d \in Periods : states[d] # NoSnapshot => states[d] \in Outbox!Snapshot
  /\ \A s \in inbox : s = outbox[s.id]

\* Nothing is bought before the bridge has offered it.
BoughtAfterOffer == \A p \in DOMAIN positions : outbox[positions[p].id].created <= positions[p].opened

SysInv == IInv /\ OutboxInv /\ StoresAgree /\ BoughtAfterOffer

=============================================================================
