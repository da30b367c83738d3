------------------------------ MODULE FastBudget ------------------------------
(***************************************************************************)
(* The live-order building blocks of MAGI3 (magi3/fast_execution.py): a    *)
(* reservation book shared by several callers and the client that sends    *)
(* one immediate-or-cancel order per signal.  No runner starts them yet.   *)
(*                                                                         *)
(* Callers act on snapshots of the capital up to MaxAge old; an answer of  *)
(* the exchange may be lost, and the process may die at any step.  An      *)
(* order costs Cost, fee included.  Who releases a reservation is not in   *)
(* the code: the book's contract is that fills are applied first.          *)
(***************************************************************************)
EXTENDS Integers, FiniteSets, Functions

CONSTANTS
  Callers, Signals,
  Cost,            \* of one order with its estimated fee
  Limit,           \* five percent of the equity
  Capital,         \* cash at the start
  MaxAge, MaxTime, MaxCrashes,
  None

ASSUME BudgetAssumption ==
  /\ IsFiniteSet(Signals)
  /\ Cost \in Nat \ {0} /\ Limit \in Nat \ {0} /\ Capital \in Nat
  /\ None \notin {"RESERVED", "SENDING", "UNKNOWN", "ACKNOWLEDGED", "TERMINAL", "RECONCILED"}

VARIABLES
  now,
  book,            \* fast_orders: state of a signal's order, None without one
  order,           \* the exchange: "none", "open" or "done", and what was spent
  posts,           \* history: requests that reached the exchange
  pc,              \* of each caller: "idle", "reserve", "post", "answered", "lost"
  work,            \* of each caller: the signal in hand
  snap,            \* of each caller: the capital as it saw it
  crashes

bvars == <<now, book, order, posts, pc, work, snap, crashes>>

Spent == [s \in Signals |-> order[s].spent]
Held == SumFunctionOnSet(Spent, Signals)
Open == {s \in Signals : order[s].state = "open"}

BInit ==
  /\ now = 0 /\ book = [s \in Signals |-> None] /\ order = [s \in Signals |-> [state |-> "none", spent |-> 0]]
  /\ posts = [s \in Signals |-> 0]
  /\ pc = [c \in Callers |-> "idle"] /\ work = [c \in Callers |-> None]
  /\ snap = [c \in Callers |-> None] /\ crashes = 0

Pass == /\ now < MaxTime /\ now' = now + 1
        /\ UNCHANGED <<book, order, posts, pc, work, snap, crashes>>

\* External: the capital is asked for.  Cash behind an open order is locked.
Look(c) ==
  /\ pc[c] = "idle"
  /\ \E complete \in BOOLEAN :
       snap' = [snap EXCEPT ![c] = [ts |-> now, held |-> Held, complete |-> complete,
                                    cash |-> Capital - Held - Cost * Cardinality(Open)]]
  /\ UNCHANGED <<now, book, order, posts, pc, work, crashes>>

\* Seeded fault: an order that was sent is no longer a reservation.
Unsent == {s \in Signals : book[s] = "RESERVED"}

Outstanding == {s \in Signals : book[s] \notin {None, "RECONCILED"}}

Reserved == Cost * Cardinality(Outstanding)

Admitted(c) ==
  /\ snap[c].complete /\ now - snap[c].ts <= MaxAge
  /\ snap[c].held + Reserved + Cost < Limit
  /\ Cost + Reserved <= snap[c].cash

\* buy(): one transaction reserves, unless the signal has an order already.
Reserve(c, s) ==
  /\ pc[c] = "idle" /\ snap[c] # None
  /\ IF book[s] = None /\ Admitted(c)
       THEN /\ book' = [book EXCEPT ![s] = "RESERVED"]
            /\ pc' = [pc EXCEPT ![c] = "reserve"] /\ work' = [work EXCEPT ![c] = s]
       ELSE UNCHANGED <<book, pc, work>>
  /\ UNCHANGED <<now, order, posts, snap, crashes>>

Sending(c) ==
  /\ pc[c] = "reserve" /\ pc' = [pc EXCEPT ![c] = "post"]
  /\ book' = [book EXCEPT ![work[c]] = "SENDING"]
  /\ UNCHANGED <<now, order, posts, work, snap, crashes>>

\* External: the request reaches the exchange or not, its answer the caller or not.
Post(c) ==
  /\ pc[c] = "post"
  /\ \E reached, answered \in BOOLEAN :
       /\ answered => reached
       /\ pc' = [pc EXCEPT ![c] = IF answered THEN "answered" ELSE "lost"]
       /\ IF reached THEN /\ order' = [order EXCEPT ![work[c]].state = "open"]
                          /\ posts' = [posts EXCEPT ![work[c]] = @ + 1]
                     ELSE UNCHANGED <<order, posts>>
  /\ UNCHANGED <<now, book, work, snap, crashes>>

Settle(c) ==
  /\ pc[c] \in {"answered", "lost"} /\ pc' = [pc EXCEPT ![c] = "idle"]
  /\ book' = [book EXCEPT ![work[c]] = IF pc[c] = "answered" THEN "ACKNOWLEDGED" ELSE "UNKNOWN"]
  /\ work' = [work EXCEPT ![c] = None]
  /\ UNCHANGED <<now, order, posts, snap, crashes>>

\* External: the rest of an immediate order is canceled.
Execute(s) ==
  /\ order[s].state = "open"
  /\ \E spent \in {0, Cost - 1, Cost} : order' = [order EXCEPT ![s] = [state |-> "done", spent |-> spent]]
  /\ UNCHANGED <<now, book, posts, pc, work, snap, crashes>>

\* Asked by its identifier, of any order in the book; a query that fails, as
\* that of an order that never arrived, leaves the reservation.
Reconcile(c, s) ==
  /\ pc[c] = "idle" /\ book[s] \notin {None, "RECONCILED"} /\ order[s].state # "none"
  /\ book' = [book EXCEPT ![s] = IF order[s].state = "open" THEN "ACKNOWLEDGED" ELSE "TERMINAL"]
  /\ UNCHANGED <<now, order, posts, pc, work, snap, crashes>>

\* External: an order that is done is released once every snapshot in use
\* shows what it spent.
Release(s) ==
  /\ book[s] = "TERMINAL" /\ \A c \in Callers : work[c] # s
  /\ \A c \in {d \in Callers : snap[d] # None} : pc[c] = "idle" /\ snap[c].held = Held
  /\ book' = [book EXCEPT ![s] = "RECONCILED"]
  /\ UNCHANGED <<now, order, posts, pc, work, snap, crashes>>

Die ==
  /\ crashes < MaxCrashes /\ crashes' = crashes + 1
  /\ pc' = [c \in Callers |-> "idle"] /\ work' = [c \in Callers |-> None]
  /\ snap' = [c \in Callers |-> None]
  /\ UNCHANGED <<now, book, order, posts>>

BNext ==
  \/ Pass \/ Die
  \/ \E c \in Callers : Look(c) \/ Sending(c) \/ Post(c) \/ Settle(c)
  \/ \E c \in Callers, s \in Signals : Reserve(c, s) \/ Reconcile(c, s)
  \/ \E s \in Signals : Execute(s) \/ Release(s)

BSpec == BInit /\ [][BNext]_bvars

-----------------------------------------------------------------------------

\* What was spent and what the exchange may still spend stays below the limit
\* and within the cash, and the exchange sees one request per signal, with
\* callers on snapshots of different ages, lost answers and deaths between
\* reservation, request and record (magi3/fast_execution.py:42, :48, :50, :104).
CapitalIsKept ==
  /\ Held + Cost * Cardinality(Open) < Limit
  /\ Held + Cost * Cardinality(Open) <= Capital
  /\ \A s \in Signals : posts[s] <= 1 /\ (posts[s] = 1 => book[s] # None)

=============================================================================
