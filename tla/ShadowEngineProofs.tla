------------------------- MODULE ShadowEngineProofs -------------------------
(***************************************************************************)
(* Theorems about MAGI3's worker, for every set of intents, books, limits, *)
(* fees and process configurations, and for any number of faults, and      *)
(* about the pipeline that feeds it from MAGI2's outbox.                   *)
(***************************************************************************)
EXTENDS ShadowSystem, SequenceTheorems, SumFacts, TLAPS

-----------------------------------------------------------------------------
(* Arithmetic of the ledger.                                               *)

\* A fee of at most 100 bps never exceeds what it is taken from.
LEMMA FeeBounds ==
  ASSUME NEW n \in Nat
  PROVE  Fee(n) \in Nat /\ Fee(n) <= n
<1> DEFINE m == n * FeeBps
<1>1. m \in Nat /\ m <= 100 * n
  BY NumbersAssumption
<1>2. m \div 10000 \in Nat /\ m \div 10000 <= n
  <2> HIDE DEF m
  <2> QED BY <1>1
<1> QED BY <1>2 DEF Fee

-----------------------------------------------------------------------------
(* The inductive invariant.                                                *)

\* The empty store satisfies the invariant.
LEMMA InitIInv == Init => IInv
<1> SUFFICES ASSUME Init PROVE IInv
  OBVIOUS
<1>1. TypeOK
  BY NumbersAssumption DEF Init, TypeOK, Row, Absent
<1>2. RowsSound /\ WorkOwnsRow /\ OnePositionPerIntent /\ NeverBoughtLate
  BY DEF Init, RowsSound, WorkOwnsRow, OnePositionPerIntent, NeverBoughtLate, Absent
<1> QED BY <1>1, <1>2 DEF IInv

\* A row of the positions table, field by field.
LEMMA PositionsTyped ==
  ASSUME TypeOK, NEW p \in DOMAIN positions
  PROVE  /\ positions[p] \in Position
         /\ positions[p].id \in Ids /\ positions[p].qty \in Nat
         /\ positions[p].cost \in Nat /\ positions[p].opened \in Nat
         /\ positions[p].deadline \in Nat
<1>1. positions \in Seq(Position)
  BY DEF TypeOK
<1>2. positions[p] \in Position
  BY <1>1
<1> QED BY <1>2 DEF Position

\* A row of the signals table, field by field.
LEMMA RowsTyped ==
  ASSUME TypeOK, NEW i \in Ids
  PROVE  /\ signals[i] \in Row
         /\ signals[i].status \in {"NONE", "PENDING", "FILLED", "REJECTED"}
         /\ signals[i].intent \in Intents \cup {NoIntent}
<1>1. signals[i] \in Row
  BY DEF TypeOK
<1> QED BY <1>1 DEF Row

\* Steps that touch neither the signals nor the positions.
LEMMA QuietSteps ==
  ASSUME IInv,
         \/ Tick \/ BeginCycle \/ BeginRecover \/ EndRecover \/ PullFails
         \/ BuyWithoutBook \/ EndCycle \/ PullAny \/ Fault \/ Start
         \/ \E p \in due : ExitWithoutBook(p)
         \/ UNCHANGED vars
  PROVE  IInv'
<1> USE DEF store, memory
<1>1. UNCHANGED <<signals, positions>>
  BY DEF Tick, BeginCycle, BeginRecover, EndRecover, PullFails, BuyWithoutBook,
         EndCycle, PullAny, Pull, Fault, CycleError, Crash, Start, ExitWithoutBook, vars
<1>2. now' \in Nat /\ now <= now' /\ (work' = work \/ work' = NoWork)
  BY NumbersAssumption
     DEF IInv, TypeOK, Tick, BeginCycle, BeginRecover, EndRecover, PullFails,
         BuyWithoutBook, EndCycle, PullAny, Pull, Fault, CycleError, Crash, Start,
         ExitWithoutBook, Forget, vars
<1>3. TypeOK'
  <2>1. {signals[i].intent : i \in {j \in Ids : signals[j].status = "PENDING"}} \subseteq Intents
    BY DEF IInv, RowsSound
  <2> QED
    BY <2>1, NumbersAssumption
       DEF IInv, TypeOK, Tick, BeginCycle, BeginRecover, EndRecover, PullFails,
           BuyWithoutBook, EndCycle, PullAny, Pull, Fault, CycleError, Crash, Start,
           ExitWithoutBook, Forget, vars
<1>4. WorkOwnsRow'
  BY <1>1, <1>2 DEF IInv, TypeOK, WorkOwnsRow, Work
<1>5. RowsSound' /\ OnePositionPerIntent' /\ NeverBoughtLate'
  BY <1>1 DEF IInv, RowsSound, OnePositionPerIntent, NeverBoughtLate
<1> QED BY <1>3, <1>4, <1>5 DEF IInv

\* Refusing a PENDING row disturbs nothing else.
LEMMA RejectSteps ==
  ASSUME IInv,
         \/ \E s \in inbox : RecoverExpired(s)
         \/ BuyTooLate
         \/ CheckStored
  PROVE  IInv'
<1>1. PICK id \in Ids, why \in {"EXPIRED", "DRY_RUN"} :
        signals' = signals \/ signals' = Rejected(id, why)
  <2>1. CASE \E s \in inbox : RecoverExpired(s)
    BY <2>1, IntentsAssumption DEF RecoverExpired, IInv, TypeOK
  <2>2. CASE BuyTooLate \/ CheckStored
    BY <2>2 DEF BuyTooLate, CheckStored, IInv, TypeOK, Work
  <2> QED BY <2>1, <2>2
<1>2. /\ UNCHANGED <<now, positions, fills, cash, config, at, due, began, faults>>
      /\ inbox' \subseteq inbox
  BY DEF RecoverExpired, BuyTooLate, CheckStored
<1>3. signals' \in [Ids -> Row]
  BY <1>1, RowsTyped DEF Rejected, Settle, Row, IInv, TypeOK
<1>4. TypeOK'
  <2>1. work' \in Work \cup {NoWork}
    BY DEF RecoverExpired, BuyTooLate, CheckStored, IInv, TypeOK, Work
  <2> QED BY <1>2, <1>3, <2>1 DEF IInv, TypeOK
<1>5. \A i \in Ids :
        /\ signals'[i].intent = signals[i].intent
        /\ (signals'[i].status = "NONE") <=> (signals[i].status = "NONE")
        /\ (signals'[i].status = "FILLED") <=> (signals[i].status = "FILLED")
  BY <1>1, RowsTyped DEF Rejected, Settle, Row, IInv, TypeOK
<1>6. RowsSound'
  BY <1>5 DEF IInv, RowsSound
<1>7. OnePositionPerIntent' /\ NeverBoughtLate'
  <2>1. \A p \in DOMAIN positions : positions[p].id \in Ids
    BY PositionsTyped DEF IInv
  <2>2. OnePositionPerIntent'
    BY <1>2, <1>5 DEF IInv, OnePositionPerIntent
  <2>3. NeverBoughtLate'
    BY <1>2, <1>5, <2>1 DEF IInv, NeverBoughtLate
  <2> QED BY <2>2, <2>3
<1>8. WorkOwnsRow'
  <2>1. CASE work' = NoWork
    BY <2>1 DEF WorkOwnsRow
  <2>2. CASE work' # NoWork
    <3>1. /\ CheckStored /\ signals' = signals
          /\ work' = [id |-> work.id, since |-> work.since, step |-> "book"]
          /\ ValidAt(signals[work.id].intent, work.since)
      BY <2>2 DEF RecoverExpired, BuyTooLate, CheckStored
    <3>2. work # NoWork /\ work \in Work
      BY <3>1 DEF CheckStored, IInv, TypeOK
    <3> QED BY <1>2, <3>1, <3>2 DEF WorkOwnsRow, IInv, Work, ValidAt
  <2> QED BY <2>1, <2>2
<1> QED BY <1>4, <1>6, <1>7, <1>8 DEF IInv

\* The first transaction of ingest() records a well-formed intent under its own
\* identifier, or finds the row that is there.
LEMMA IngestStep ==
  ASSUME IInv, NEW s \in inbox, Ingest(s)
  PROVE  IInv'
<1>1. s \in Intents /\ s.id \in Ids /\ s.created \in Nat /\ s.expires \in Nat
  BY IntentsAssumption DEF IInv, TypeOK
<1>2. CASE IngestInvalid(s)
  BY <1>2 DEF Ingest, IngestInvalid, IInv, TypeOK, RowsSound, WorkOwnsRow,
              OnePositionPerIntent, NeverBoughtLate
<1>3. CASE IngestRecord(s)
  <2> DEFINE new == [status |-> "PENDING", reason |-> "NONE", intent |-> s]
             row == IF signals[s.id].status = "NONE" THEN new ELSE signals[s.id]
  <2>1. /\ UNCHANGED <<now, positions, fills, cash, config, at, due, began, faults>>
        /\ inbox' \subseteq inbox
        /\ work = NoWork
        /\ ValidAt(s, now)
        /\ signals' = [signals EXCEPT ![s.id] = row]
        /\ work' = IF row.status = "PENDING"
                     THEN [id |-> s.id, since |-> now, step |-> "recorded"]
                     ELSE NoWork
    BY <1>3 DEF Ingest, IngestRecord
  <2>2. new \in Row /\ row \in Row
    BY <1>1 DEF Row, IInv, TypeOK
  <2>3. TypeOK'
    <3>1. now \in Nat
      BY NumbersAssumption DEF IInv, TypeOK
    <3> QED BY <1>1, <2>1, <2>2, <3>1 DEF IInv, TypeOK, Work
  <2>4. \A i \in Ids :
          \/ signals'[i] = signals[i]
          \/ i = s.id /\ signals[i].status = "NONE" /\ signals'[i] = new
    BY <1>1, <2>1 DEF IInv, TypeOK
  <2>5. RowsSound'
    BY <1>1, <2>1, <2>4, NumbersAssumption DEF IInv, RowsSound, ValidAt
  <2>6. OnePositionPerIntent'
    BY <2>1, <2>4 DEF IInv, OnePositionPerIntent
  <2>7. NeverBoughtLate'
    <3>1. \A p \in DOMAIN positions : positions[p].id \in Ids
      BY PositionsTyped DEF IInv
    <3>2. \A p \in DOMAIN positions : signals[positions[p].id].status = "FILLED"
      BY <3>1 DEF IInv, OnePositionPerIntent
    <3> QED BY <2>1, <2>4, <3>1, <3>2 DEF IInv, NeverBoughtLate
  <2>8. WorkOwnsRow'
    BY <1>1, <2>1, NumbersAssumption DEF IInv, TypeOK, WorkOwnsRow
  <2> QED BY <2>3, <2>5, <2>6, <2>7, <2>8 DEF IInv
<1> QED BY <1>2, <1>3 DEF Ingest

\* A sale changes the quantity and the cost of one position, and the ledger.
LEMMA SellStep ==
  ASSUME IInv, NEW p \in due, NEW bid \in Bids, ExitSell(p, bid)
  PROVE  IInv'
<1> DEFINE held      == positions[p]
           sold      == Least(bid.size, held.qty)
           gross     == sold * bid.price
           proceeds  == gross - Fee(gross)
           allocated == (held.cost * sold) \div held.qty
           after     == Remaining(held, sold, allocated)
           sale      == [position |-> p, side |-> "SELL", net |-> proceeds,
                         realized |-> proceeds - allocated, ts |-> began]
<1>1. /\ UNCHANGED <<now, signals, config, at, inbox, work, began, faults>>
      /\ due' \subseteq due
      /\ held.qty > 0
      /\ positions' = [positions EXCEPT ![p] = after]
      /\ fills' = Append(fills, sale)
      /\ cash' = cash + proceeds
  BY DEF ExitSell
<1>2. /\ p \in DOMAIN positions /\ p \in Nat
      /\ held \in Position /\ held.id \in Ids
      /\ held.qty \in Nat \ {0} /\ held.cost \in Nat
      /\ held.opened \in Nat /\ held.deadline \in Nat
  BY <1>1, PositionsTyped DEF IInv, TypeOK
<1>3. sold \in Nat /\ sold <= held.qty /\ bid.price \in Nat
  BY <1>2, BooksAssumption DEF Least
<1>4. gross \in Nat
  BY <1>3
<1>5. proceeds \in Nat
  <2> HIDE DEF gross
  <2> QED BY <1>4, FeeBounds
<1>6. allocated \in 0..held.cost
  <2> HIDE DEF held, sold
  <2> QED BY <1>2, <1>3, AllocationBounds
<1>7. after \in Position
  <2> HIDE DEF held, sold, allocated
  <2> QED BY <1>2, <1>3, <1>6 DEF Position, Remaining
<1>8. sale \in Fill
  <2> HIDE DEF proceeds, allocated
  <2>1. began \in Nat /\ allocated \in Int
    BY <1>2, <1>6, NumbersAssumption DEF IInv, TypeOK
  <2> QED BY <1>2, <1>5, <2>1 DEF Fill
<1> HIDE DEF proceeds, allocated, sold, gross, sale
<1>9. /\ positions' \in Seq(Position)
      /\ DOMAIN positions' = DOMAIN positions
      /\ \A q \in DOMAIN positions :
            /\ positions'[q].id = positions[q].id
            /\ positions'[q].opened = positions[q].opened
            /\ positions'[q].deadline = positions[q].deadline
  <2>1. /\ after.id = held.id /\ after.opened = held.opened
        /\ after.deadline = held.deadline
    BY DEF Remaining
  <2> HIDE DEF after
  <2> QED BY <1>1, <1>2, <1>7, <2>1 DEF IInv, TypeOK
<1>10. TypeOK'
  BY <1>1, <1>5, <1>8, <1>9 DEF IInv, TypeOK
<1>11. RowsSound' /\ WorkOwnsRow'
  BY <1>1 DEF IInv, RowsSound, WorkOwnsRow
<1>12. OnePositionPerIntent'
  BY <1>1, <1>9 DEF IInv, OnePositionPerIntent
<1>13. NeverBoughtLate'
  BY <1>1, <1>9 DEF IInv, NeverBoughtLate
<1> QED BY <1>10, <1>11, <1>12, <1>13 DEF IInv

\* The second transaction of ingest(): refuse, or buy exactly once.
LEMMA BuyStep ==
  ASSUME IInv, NEW ask \in Asks, Buy(ask)
  PROVE  IInv'
<1> DEFINE id    == work.id
           s     == signals[id].intent
           qty   == Least(ask.size, s.notional \div ask.price)
           gross == qty * ask.price
           cost  == gross + Fee(gross)
           why   == Refusal(s, qty, cost)
           new   == [id |-> id, qty |-> qty, cost |-> cost, opened |-> now,
                     deadline |-> now + s.hold]
           fill  == [position |-> Len(positions) + 1, side |-> "BUY", net |-> -cost,
                     realized |-> 0, ts |-> now]
<1>1. /\ work \in Work /\ id \in Ids /\ work' = NoWork
      /\ signals[id].status = "PENDING" /\ now < s.expires
      /\ UNCHANGED <<now, config, at, due, inbox, began, faults>>
  BY DEF Buy, IInv, TypeOK, Work
<1>2. /\ s \in Intents /\ s.id = id /\ s.notional \in Nat /\ s.hold \in Nat
      /\ s.created \in Nat /\ s.expires \in Nat /\ s.expires <= s.created + MaxLife
  BY <1>1, IntentsAssumption DEF IInv, RowsSound
<1>3. now \in Nat /\ s.created <= now + Skew
  BY <1>1, <1>2, NumbersAssumption DEF Buy, IInv, TypeOK, WorkOwnsRow, Work
<1>4. WorkOwnsRow'
  BY <1>1 DEF WorkOwnsRow
<1>5. CASE why # "NONE"
  <2>1. /\ signals' = Settle(id, "REJECTED", why)
        /\ UNCHANGED <<positions, fills, cash>>
    BY <1>5 DEF Buy
  <2>2. /\ why \in {"KILL_SWITCH", "MAX_ORDER", "EXPOSURE_LIMIT", "DAILY_REALIZED_LOSS",
                    "INSUFFICIENT_VIRTUAL_CASH", "NO_LIQUIDITY", "NONE"}
    <3> HIDE DEF qty, cost, s
    <3> QED BY DEF Refusal
  <2>3. [status |-> "REJECTED", reason |-> why, intent |-> s] \in Row
    <3> HIDE DEF why
    <3> QED BY <1>2, <2>2 DEF Row
  <2> HIDE DEF why
  <2>4. signals' \in [Ids -> Row]
    BY <2>1, <2>3 DEF Settle, IInv, TypeOK
  <2>5. \A i \in Ids :
          /\ signals'[i].intent = signals[i].intent
          /\ (signals'[i].status = "NONE") <=> (signals[i].status = "NONE")
          /\ (signals'[i].status = "FILLED") <=> (signals[i].status = "FILLED")
    BY <1>1, <2>1 DEF Settle, IInv, TypeOK
  <2>6. TypeOK'
    BY <1>1, <2>1, <2>4 DEF IInv, TypeOK
  <2>7. RowsSound' /\ OnePositionPerIntent'
    BY <2>1, <2>5 DEF IInv, RowsSound, OnePositionPerIntent
  <2>8. NeverBoughtLate'
    BY <2>1, <2>5, PositionsTyped DEF IInv, NeverBoughtLate
  <2> QED BY <1>4, <2>6, <2>7, <2>8 DEF IInv
<1>6. CASE why = "NONE"
  <2>1. /\ signals' = Settle(id, "FILLED", "NONE")
        /\ positions' = Append(positions, new)
        /\ fills' = Append(fills, fill)
        /\ cash' = cash - cost
    BY <1>6 DEF Buy
  <2>2. qty \in Nat /\ ask.price \in Nat
    BY <1>2, BooksAssumption DEF Least
  <2>3. gross \in Nat
    BY <2>2
  <2>4. cost \in Nat
    <3> HIDE DEF gross
    <3> QED BY <2>3, FeeBounds
  <2>5. cost <= cash
    <3> HIDE DEF qty, cost, s
    <3> QED BY <1>6, <2>4 DEF Refusal, IInv, TypeOK
  <2> HIDE DEF cost, qty, why
  <2>6. new \in Position /\ fill \in Fill
    <3>1. Len(positions) \in Nat
      BY DEF IInv, TypeOK
    <3> QED BY <1>1, <1>2, <1>3, <2>2, <2>4, <3>1 DEF Position, Fill
  <2>7. [status |-> "FILLED", reason |-> "NONE", intent |-> s] \in Row
    BY <1>2 DEF Row
  <2>8. signals' \in [Ids -> Row]
    BY <2>1, <2>7 DEF Settle, IInv, TypeOK
  <2>9. \A i \in Ids :
          /\ signals'[i].intent = signals[i].intent
          /\ i # id => signals'[i] = signals[i]
          /\ i = id => signals'[i].status = "FILLED"
    BY <1>1, <2>1 DEF Settle, IInv, TypeOK
  <2>10. /\ new.id = id /\ new.opened = now /\ new.deadline = now + s.hold
    OBVIOUS
  <2> HIDE DEF new, fill
  <2>11. /\ Len(positions') = Len(positions) + 1 /\ Len(positions) \in Nat
         /\ DOMAIN positions' = 1..(Len(positions) + 1)
         /\ DOMAIN positions = 1..Len(positions)
         /\ positions'[Len(positions) + 1] = new
         /\ \A q \in DOMAIN positions : positions'[q] = positions[q]
    BY <2>1, <2>6 DEF IInv, TypeOK
  <2>12. TypeOK'
    <3>1. cash' \in Nat
      BY <2>1, <2>4, <2>5 DEF IInv, TypeOK
    <3>2. positions' \in Seq(Position) /\ fills' \in Seq(Fill)
      BY <2>1, <2>6 DEF IInv, TypeOK
    <3>3. due' \subseteq DOMAIN positions'
      BY <1>1, <2>11 DEF IInv, TypeOK
    <3> QED BY <1>1, <2>8, <3>1, <3>2, <3>3 DEF IInv, TypeOK
  <2>13. RowsSound'
    BY <1>1, <2>9 DEF IInv, RowsSound
  <2>14. OnePositionPerIntent'
    <3>1. \A q \in DOMAIN positions : positions[q].id # id
      BY <1>1 DEF IInv, OnePositionPerIntent
    <3>2. \A q \in DOMAIN positions' :
            \/ q \in DOMAIN positions /\ positions'[q].id = positions[q].id
            \/ q = Len(positions) + 1 /\ positions'[q].id = id
      BY <2>10, <2>11
    <3>3. \A p, q \in DOMAIN positions' :
            positions'[p].id = positions'[q].id => p = q
      BY <3>1, <3>2 DEF IInv, OnePositionPerIntent
    <3>4. \A i \in Ids : (signals'[i].status = "FILLED")
                          <=> \E q \in DOMAIN positions' : positions'[q].id = i
      <4>1. \A i \in Ids : i # id =>
              ((\E q \in DOMAIN positions' : positions'[q].id = i)
                <=> \E q \in DOMAIN positions : positions[q].id = i)
        BY <2>11, <3>2
      <4>2. \E q \in DOMAIN positions' : positions'[q].id = id
        BY <2>10, <2>11
      <4> QED BY <2>9, <4>1, <4>2 DEF IInv, OnePositionPerIntent
    <3> QED BY <3>3, <3>4 DEF OnePositionPerIntent
  <2>15. NeverBoughtLate'
    <3>1. \A q \in DOMAIN positions : positions[q].id \in Ids
      BY PositionsTyped DEF IInv
    <3>2. ASSUME NEW q \in DOMAIN positions
          PROVE  LET r == signals'[positions'[q].id].intent
                 IN /\ r \in Intents
                    /\ positions'[q].opened < r.expires
                    /\ positions'[q].opened < r.created + MaxLife
                    /\ r.created <= positions'[q].opened + Skew
                    /\ positions'[q].deadline = positions'[q].opened + r.hold
      BY <2>9, <2>11, <3>1 DEF IInv, NeverBoughtLate
    <3>3. now < s.created + MaxLife
      BY <1>1, <1>2, <1>3, NumbersAssumption
    <3> QED BY <1>1, <1>2, <1>3, <2>9, <2>10, <2>11, <3>2, <3>3 DEF NeverBoughtLate
  <2> QED BY <1>4, <2>12, <2>13, <2>14, <2>15 DEF IInv
<1> QED BY <1>5, <1>6

\* Every step of the worker, of the clock and every fault keeps the invariant.
LEMMA NextIInv == IInv /\ [Next]_vars => IInv'
<1> SUFFICES ASSUME IInv, [Next]_vars PROVE IInv'
  OBVIOUS
<1>1. CASE \E s \in inbox : RecoverExpired(s)
  BY <1>1, RejectSteps
<1>2. CASE CheckStored \/ BuyTooLate
  BY <1>2, RejectSteps
<1>3. CASE \E s \in inbox : Ingest(s)
  BY <1>3, IngestStep
<1>4. CASE SellSome
  BY <1>4, SellStep DEF SellSome
<1>5. CASE \E ask \in Asks : Buy(ask)
  BY <1>5, BuyStep
<1>6. CASE \/ Tick \/ BeginCycle \/ BeginRecover \/ EndRecover \/ PullFails
           \/ BuyWithoutBook \/ EndCycle \/ PullAny \/ Fault \/ Start
           \/ \E p \in due : ExitWithoutBook(p)
           \/ UNCHANGED vars
  BY <1>6, QuietSteps
<1> QED BY <1>1, <1>2, <1>3, <1>4, <1>5, <1>6 DEF Next, CycleStep

\* The inductive invariant holds in every reachable state, for any feed, book,
\* configuration, crash and restart.
THEOREM IInvInvariant == Spec => []IInv
BY InitIInv, NextIInv, PTL DEF Spec

\* Every row, position and fill keeps its type; cash never goes below zero
\* and no cost basis does, whatever the books and the fee.
THEOREM TypeCorrect == Spec => []TypeOK
<1>1. IInv => TypeOK
  BY DEF IInv
<1> QED BY <1>1, IInvInvariant, PTL

\* At most one position per intent, for any feed, any faults, any restarts.
THEOREM AtMostOnce == Spec => []OnePositionPerIntent
<1>1. IInv => OnePositionPerIntent
  BY DEF IInv
<1> QED BY <1>1, IInvInvariant, PTL

\* No position is ever opened on an expired intent.
THEOREM NoLateBuy == Spec => []NeverBoughtLate
<1>1. IInv => NeverBoughtLate
  BY DEF IInv
<1> QED BY <1>1, IInvInvariant, PTL

\* An intent is executed at most once and never late: what the ingest docs
\* promise of shadow_runtime.py.
THEOREM Honoured == Spec => []IntentsAreHonoured
<1>1. OnePositionPerIntent /\ NeverBoughtLate => IntentsAreHonoured
  BY DEF IntentsAreHonoured
<1> QED BY <1>1, AtMostOnce, NoLateBuy, PTL

-----------------------------------------------------------------------------
(* What one step may do to the rows of the signals table.                  *)

\* A step leaves a row alone, records an absent one, or decides a PENDING one.
LEMMA RowSteps ==
  ASSUME IInv, [Next]_vars, NEW i \in Ids
  PROVE  \/ signals'[i] = signals[i]
         \/ /\ signals[i].status = "NONE"
            /\ \E s \in inbox : Ingest(s) /\ s.id = i
         \/ /\ signals[i].status = "PENDING"
            /\ signals'[i].intent = signals[i].intent
<1> USE RowsTyped DEF IInv
<1>1. CASE \E s \in inbox : RecoverExpired(s)
  BY <1>1, IntentsAssumption DEF RecoverExpired, Rejected, Settle, TypeOK
<1>2. CASE CheckStored \/ BuyTooLate
  BY <1>2 DEF CheckStored, BuyTooLate, Rejected, Settle, TypeOK, Work
<1>3. CASE \E s \in inbox : Ingest(s)
  BY <1>3, IntentsAssumption DEF Ingest, IngestInvalid, IngestRecord, TypeOK
<1>4. CASE \E ask \in Asks : Buy(ask)
  <2>1. work.id \in Ids
    BY <1>4 DEF Buy, TypeOK, Work
  <2> QED BY <1>4, <2>1 DEF Buy, Settle, TypeOK
<1>5. CASE UNCHANGED signals
  BY <1>5
<1>6. \/ \E s \in inbox : RecoverExpired(s) \/ Ingest(s)
      \/ CheckStored \/ BuyTooLate \/ \E ask \in Asks : Buy(ask)
      \/ UNCHANGED signals
  BY DEF Next, CycleStep, Tick, BeginCycle, BeginRecover, EndRecover, PullFails,
         BuyWithoutBook, EndCycle, PullAny, Pull, Fault, CycleError, Crash, Start,
         ExitWithoutBook, SellSome, ExitSell, vars, store, memory
<1> QED BY <1>1, <1>2, <1>3, <1>4, <1>5, <1>6

\* A recorded payload is never replaced and a decided intent never reopened.
THEOREM PayloadFixed == Spec => IntentNeverChanges
<1> DEFINE Fixed == \A i \in Ids :
       /\ signals[i].status # "NONE" => signals'[i].intent = signals[i].intent
       /\ signals[i].status \in {"FILLED", "REJECTED"} => signals'[i] = signals[i]
<1>1. IInv /\ [Next]_vars => [Fixed]_vars
  BY RowSteps
<1> QED BY <1>1, IInvInvariant, PTL DEF Spec, IntentNeverChanges

-----------------------------------------------------------------------------
(* The worker implements the life of its intents.                          *)

lifeOf   == [i \in Ids |-> signals[i].status]
termsOf  == [i \in Ids |-> signals[i].intent]
tradesOf == [p \in DOMAIN positions |-> positions[p].id]

\* The executed identifiers, read off the positions, form a sequence of Ids.
LEMMA TradesTyped ==
  ASSUME NEW ps \in Seq(Position)
  PROVE  /\ [p \in DOMAIN ps |-> ps[p].id] \in Seq(Ids)
         /\ Len([p \in DOMAIN ps |-> ps[p].id]) = Len(ps)
<1>1. DOMAIN ps = 1..Len(ps) /\ Len(ps) \in Nat
  OBVIOUS
<1>2. \A p \in 1..Len(ps) : ps[p].id \in Ids
  <2>1. \A p \in 1..Len(ps) : ps[p] \in Position
    BY <1>1
  <2> QED BY <2>1 DEF Position
<1>3. [p \in DOMAIN ps |-> ps[p].id] = [p \in 1..Len(ps) |-> ps[p].id]
  BY <1>1
<1> QED BY <1>1, <1>2, <1>3

\* Each step of the worker is a step of IntentLife or changes nothing it sees.
LEMMA LifeSteps ==
  ASSUME IInv, IInv', [Next]_vars
  PROVE  Life!Next \/ UNCHANGED <<now, lifeOf, termsOf, tradesOf>>
<1> USE DEF IInv
<1>1. CASE Tick
  BY <1>1 DEF Tick, Life!Next, Life!Pass, store, memory
<1>2. ASSUME NEW s \in inbox, Ingest(s), signals' # signals PROVE Life!Next
  <2>1. /\ s \in Intents /\ s.id \in Ids
        /\ signals[s.id].status = "NONE" /\ now < s.expires
        /\ signals' = [signals EXCEPT ![s.id] =
             [status |-> "PENDING", reason |-> "NONE", intent |-> s]]
        /\ UNCHANGED <<now, positions>>
    BY <1>2, IntentsAssumption
       DEF Ingest, IngestInvalid, IngestRecord, TypeOK, ValidAt
  <2>2. Life!Record(s)
    BY <2>1 DEF Life!Record, TypeOK
  <2> QED BY <2>1, <2>2 DEF Life!Next
<1>3. ASSUME NEW i \in Ids, NEW why, signals' = Rejected(i, why),
             UNCHANGED <<now, positions>>
      PROVE  Life!Next \/ UNCHANGED <<now, lifeOf, termsOf, tradesOf>>
  <2>1. CASE signals[i].status = "PENDING"
    <3>1. Life!Refuse(i)
      BY <1>3, <2>1 DEF Rejected, Settle, Life!Refuse, TypeOK
    <3> QED BY <3>1 DEF Life!Next
  <2>2. CASE signals[i].status # "PENDING"
    BY <1>3, <2>2 DEF Rejected, lifeOf, termsOf, tradesOf
  <2> QED BY <2>1, <2>2
<1>4. CASE \E s \in inbox : RecoverExpired(s)
  BY <1>3, <1>4, IntentsAssumption DEF RecoverExpired, TypeOK
<1>5. CASE BuyTooLate
  <2>1. work.id \in Ids
    BY <1>5 DEF BuyTooLate, TypeOK, Work
  <2> QED BY <1>3, <1>5, <2>1 DEF BuyTooLate
<1>6. CASE CheckStored
  <2>1. work.id \in Ids
    BY <1>6 DEF CheckStored, TypeOK, Work
  <2>2. CASE signals' = signals
    BY <1>6, <2>2 DEF CheckStored, lifeOf, termsOf, tradesOf
  <2>3. CASE signals' # signals
    BY <1>3, <1>6, <2>1, <2>3 DEF CheckStored
  <2> QED BY <2>2, <2>3
<1>7. ASSUME NEW ask \in Asks, Buy(ask) PROVE Life!Next
  <2> PICK id \in Ids : id = work.id
    BY <1>7 DEF Buy, TypeOK, Work
  <2>1. /\ signals[id].status = "PENDING"
        /\ now < signals[id].intent.expires /\ now' = now
    BY <1>7 DEF Buy, TypeOK, Work
  <2>2. CASE \E why : signals' = Settle(id, "REJECTED", why) /\ positions' = positions
    <3>1. PICK why : signals' = [signals EXCEPT ![id] = [status |-> "REJECTED",
                       reason |-> why, intent |-> signals[id].intent]]
      BY <2>2 DEF Settle
    <3>2. [i \in Ids |-> signals'[i].status]
             = [[i \in Ids |-> signals[i].status] EXCEPT ![id] = "REJECTED"]
      BY <3>1 DEF TypeOK
    <3>3. [i \in Ids |-> signals'[i].intent] = [i \in Ids |-> signals[i].intent]
      BY <3>1 DEF TypeOK
    <3>4. Life!Refuse(id)
      BY <2>1, <2>2, <3>2, <3>3 DEF Life!Refuse
    <3> QED BY <3>4 DEF Life!Next
  <2>3. CASE /\ signals' = Settle(id, "FILLED", "NONE")
             /\ \E new : positions' = Append(positions, new) /\ new.id = id
    <3>1. PICK new : positions' = Append(positions, new) /\ new.id = id
      BY <2>3
    <3>2. /\ DOMAIN positions = 1..Len(positions) /\ Len(positions) \in Nat
          /\ DOMAIN positions' = 1..(Len(positions) + 1)
          /\ positions'[Len(positions) + 1] = new
          /\ \A q \in DOMAIN positions : positions'[q] = positions[q]
      BY <3>1 DEF TypeOK
    <3>3. tradesOf \in Seq(Ids) /\ Len(tradesOf) = Len(positions)
      BY TradesTyped DEF TypeOK, tradesOf
    <3>4. tradesOf' = Append(tradesOf, id)
      <4>1. Append(tradesOf, id) \in Seq(Ids)
            /\ Len(Append(tradesOf, id)) = Len(positions) + 1
        BY <2>1, <3>3
      <4>2. tradesOf' \in Seq(Ids) /\ Len(tradesOf') = Len(positions) + 1
        <5>1. TypeOK' /\ Len(positions') = Len(positions) + 1
          BY <3>1 DEF TypeOK
        <5>2. positions' \in Seq(Position)
          BY <5>1 DEF TypeOK
        <5> QED BY <5>1, <5>2, TradesTyped DEF tradesOf
      <4>3. \A q \in 1..(Len(positions) + 1) : tradesOf'[q] = Append(tradesOf, id)[q]
        BY <2>1, <3>1, <3>2, <3>3 DEF tradesOf
      <4> QED BY <4>1, <4>2, <4>3, SeqEqual
    <3>5. Life!Execute(id)
      BY <2>1, <2>3, <3>4 DEF Settle, Life!Execute, TypeOK, tradesOf
    <3> QED BY <2>1, <3>5 DEF Life!Next
  <2> QED BY <1>7, <2>2, <2>3 DEF Buy
<1>8. CASE SellSome
  <2>1. PICK p \in due, bid \in Bids : ExitSell(p, bid)
    BY <1>8 DEF SellSome
  <2>2. /\ UNCHANGED <<now, signals>> /\ DOMAIN positions' = DOMAIN positions
        /\ \A q \in DOMAIN positions : positions'[q].id = positions[q].id
    BY <2>1 DEF ExitSell, Remaining, TypeOK
  <2> QED BY <2>2 DEF lifeOf, termsOf, tradesOf
<1>9. CASE UNCHANGED <<now, signals, positions>>
  BY <1>9 DEF lifeOf, termsOf, tradesOf
<1> QED
  <2>1. \/ UNCHANGED <<now, signals, positions>> \/ Tick
        \/ \E s \in inbox : Ingest(s) \/ RecoverExpired(s)
        \/ CheckStored \/ BuyTooLate \/ \E ask \in Asks : Buy(ask)
        \/ SellSome
    BY DEF Next, CycleStep, BeginCycle, BeginRecover, EndRecover, PullFails,
           BuyWithoutBook, EndCycle, PullAny, Pull, Fault, CycleError, Crash, Start,
           ExitWithoutBook, vars, store, memory
  <2>2. ASSUME NEW s \in inbox, Ingest(s), signals' = signals
        PROVE  UNCHANGED <<now, signals, positions>>
    BY <2>2 DEF Ingest
  <2> QED BY <1>1, <1>2, <1>4, <1>5, <1>6, <1>7, <1>8, <1>9, <2>1, <2>2

\* Every behaviour of the worker is a behaviour of IntentLife: record once,
\* execute at most once and in time, or refuse.
THEOREM Implementation == Spec => IntentRefinement
<1>1. Init => Life!Init
  BY DEF Init, Life!Init, Absent
<1>2. IInv /\ IInv' /\ [Next]_vars => [Life!Next]_(Life!vars)
  BY LifeSteps DEF Life!vars, lifeOf, termsOf, tradesOf
<1> QED BY <1>1, <1>2, IInvInvariant, PTL DEF Spec, IntentRefinement, Life!Spec

-----------------------------------------------------------------------------
(* The money: what a sale and a purchase do to the tables.                 *)

costIn(ps)      == [p \in DOMAIN ps |-> ps[p].cost]
openIn(ps)      == {p \in DOMAIN ps : ps[p].qty > 0}
realizedIn(fs)  == [k \in DOMAIN fs |-> fs[k].realized]
sinceIn(fs, t)  == {k \in DOMAIN fs : fs[k].ts >= t}
netIn(fs)       == [k \in DOMAIN fs |-> fs[k].net]
freeWhenSold(ps) == \A p \in DOMAIN ps : ps[p].qty = 0 => ps[p].cost = 0

\* The exposure counts the open positions; counting them all gives the same.
LEMMA ExposureOfAll ==
  ASSUME NEW ps \in Seq(Position), freeWhenSold(ps)
  PROVE  /\ SumFunctionOnSet(costIn(ps), openIn(ps)) = SumFunctionOnSet(costIn(ps), DOMAIN ps)
         /\ SumFunctionOnSet(costIn(ps), DOMAIN ps) \in Nat
<1>1. DOMAIN ps = 1..Len(ps) /\ Len(ps) \in Nat /\ IsFiniteSet(DOMAIN ps)
  BY FS_Interval
<1>2. \A p \in DOMAIN ps : ps[p].cost \in Nat /\ ps[p].qty \in Nat
  <2>1. \A p \in DOMAIN ps : ps[p] \in Position
    BY <1>1
  <2> QED BY <2>1 DEF Position
<1>3. \A p \in DOMAIN ps : costIn(ps)[p] \in Nat /\ costIn(ps)[p] \in Int
  BY <1>2 DEF costIn
<1>4. \A p \in DOMAIN ps \ openIn(ps) : costIn(ps)[p] = 0
  BY <1>2 DEF costIn, openIn, freeWhenSold
<1>5. openIn(ps) \in SUBSET DOMAIN ps
  BY DEF openIn
<1> QED BY <1>1, <1>3, <1>4, <1>5, SumZeroes, SumNatural

\* One changed row changes the exposure by the change of its cost.
LEMMA ExposureAfterSale ==
  ASSUME NEW ps \in Seq(Position), NEW p \in DOMAIN ps, NEW q \in Position,
         freeWhenSold(ps), freeWhenSold([ps EXCEPT ![p] = q])
  PROVE  LET qs == [ps EXCEPT ![p] = q] IN
         SumFunctionOnSet(costIn(qs), openIn(qs))
           = SumFunctionOnSet(costIn(ps), openIn(ps)) - ps[p].cost + q.cost
<1> DEFINE qs == [ps EXCEPT ![p] = q]
<1>1. DOMAIN ps = 1..Len(ps) /\ Len(ps) \in Nat /\ IsFiniteSet(DOMAIN ps)
  BY FS_Interval
<1>2. qs \in Seq(Position) /\ DOMAIN qs = DOMAIN ps
  OBVIOUS
<1>3. \A x \in DOMAIN ps : ps[x] \in Position /\ qs[x] \in Position
  BY <1>1, <1>2
<1>4. \A x \in DOMAIN ps : ps[x].cost \in Int /\ qs[x].cost \in Int
  BY <1>3 DEF Position
<1>5. \A x \in DOMAIN ps : costIn(ps)[x] \in Int /\ costIn(qs)[x] \in Int
  BY <1>2, <1>4 DEF costIn
<1>6. \A x \in DOMAIN ps \ {p} : costIn(ps)[x] = costIn(qs)[x]
  BY <1>2 DEF costIn
<1>7. costIn(ps)[p] = ps[p].cost /\ costIn(qs)[p] = q.cost
  BY <1>2 DEF costIn
<1> HIDE DEF qs
<1>8. SumFunctionOnSet(costIn(qs), DOMAIN ps)
        = SumFunctionOnSet(costIn(ps), DOMAIN ps) - costIn(ps)[p] + costIn(qs)[p]
  <2>1. Changed(costIn(ps), costIn(qs), DOMAIN ps, p)
    BY <1>5, <1>6 DEF Changed
  <2> QED BY <1>1, <2>1, SumChange
<1>9. /\ SumFunctionOnSet(costIn(qs), openIn(qs)) = SumFunctionOnSet(costIn(qs), DOMAIN qs)
      /\ SumFunctionOnSet(costIn(ps), openIn(ps)) = SumFunctionOnSet(costIn(ps), DOMAIN ps)
  BY <1>2, ExposureOfAll DEF qs
<1> QED BY <1>2, <1>7, <1>8, <1>9 DEF qs

\* One more row adds its cost.
LEMMA ExposureAfterPurchase ==
  ASSUME NEW ps \in Seq(Position), NEW q \in Position, q.qty > 0
  PROVE  SumFunctionOnSet(costIn(Append(ps, q)), openIn(Append(ps, q)))
           = SumFunctionOnSet(costIn(ps), openIn(ps)) + q.cost
<1> DEFINE n  == Len(ps)
           qs == Append(ps, q)
<1>1. /\ DOMAIN ps = 1..n /\ n \in Nat /\ DOMAIN qs = 1..(n + 1)
      /\ qs[n + 1] = q /\ \A x \in 1..n : qs[x] = ps[x]
  OBVIOUS
<1>2. \A x \in 1..n : ps[x] \in Position
  BY <1>1
<1> HIDE DEF n, qs
<1>3. \A x \in 1..n : costIn(ps)[x] \in Int /\ costIn(qs)[x] = costIn(ps)[x]
  BY <1>1, <1>2 DEF costIn, Position
<1>4. costIn(qs)[n + 1] = q.cost /\ costIn(qs)[n + 1] \in Int
  BY <1>1 DEF costIn, Position
<1>5. openIn(ps) \in SUBSET (1..n) /\ openIn(qs) = openIn(ps) \cup {n + 1}
  BY <1>1 DEF openIn
<1>6. SumFunctionOnSet(costIn(qs), openIn(ps) \cup {n + 1})
        = SumFunctionOnSet(costIn(ps), openIn(ps)) + costIn(qs)[n + 1]
  <2>1. Grown(costIn(ps), costIn(qs), n)
    BY <1>3, <1>4 DEF Grown
  <2> QED BY <1>1, <1>5, <2>1, SumGrow
<1> QED BY Zenon, <1>4, <1>5, <1>6 DEF qs

\* One more fill adds its result to every day that reaches it.
LEMMA ResultsAfterFill ==
  ASSUME NEW fs \in Seq(Fill), NEW x \in Fill, NEW t \in Int
  PROVE  LET gs == Append(fs, x) IN
         /\ SumFunctionOnSet(realizedIn(gs), sinceIn(gs, t))
              = SumFunctionOnSet(realizedIn(fs), sinceIn(fs, t))
                  + IF x.ts >= t THEN x.realized ELSE 0
         /\ SumFunction(netIn(gs)) = SumFunction(netIn(fs)) + x.net
         /\ SumFunctionOnSet(realizedIn(fs), sinceIn(fs, t)) \in Int
         /\ SumFunction(netIn(fs)) \in Int
<1> DEFINE n  == Len(fs)
           gs == Append(fs, x)
<1>1. /\ DOMAIN fs = 1..n /\ n \in Nat /\ DOMAIN gs = 1..(n + 1)
      /\ gs[n + 1] = x /\ \A k \in 1..n : gs[k] = fs[k]
  OBVIOUS
<1>2. \A k \in 1..n : fs[k].realized \in Int /\ fs[k].net \in Int /\ fs[k].ts \in Nat
  <2>1. \A k \in 1..n : fs[k] \in Fill
    BY <1>1
  <2> QED BY <2>1 DEF Fill
<1>3. x.realized \in Int /\ x.net \in Int /\ x.ts \in Nat
  BY DEF Fill
<1> HIDE DEF n, gs
<1>4. /\ \A k \in 1..n : /\ realizedIn(fs)[k] \in Int /\ realizedIn(gs)[k] = realizedIn(fs)[k]
                         /\ netIn(fs)[k] \in Int /\ netIn(gs)[k] = netIn(fs)[k]
      /\ realizedIn(gs)[n + 1] = x.realized /\ realizedIn(gs)[n + 1] \in Int
      /\ netIn(gs)[n + 1] = x.net /\ netIn(gs)[n + 1] \in Int
  BY <1>1, <1>2, <1>3 DEF realizedIn, netIn
<1>5. /\ sinceIn(fs, t) \in SUBSET (1..n)
      /\ sinceIn(gs, t) = IF x.ts >= t THEN sinceIn(fs, t) \cup {n + 1} ELSE sinceIn(fs, t)
  BY <1>1, <1>2, <1>3 DEF sinceIn
<1>6. /\ SumFunctionOnSet(realizedIn(fs), sinceIn(fs, t)) \in Int
      /\ SumFunctionOnSet(realizedIn(gs), sinceIn(fs, t))
           = SumFunctionOnSet(realizedIn(fs), sinceIn(fs, t))
      /\ SumFunctionOnSet(realizedIn(gs), sinceIn(fs, t) \cup {n + 1})
           = SumFunctionOnSet(realizedIn(fs), sinceIn(fs, t)) + realizedIn(gs)[n + 1]
  <2>1. Grown(realizedIn(fs), realizedIn(gs), n)
    BY <1>4 DEF Grown
  <2>2. sinceIn(fs, t) \in SUBSET (1..n) /\ n \in Nat
    BY <1>1, <1>5
  <2>3. SumFunctionOnSet(realizedIn(gs), sinceIn(fs, t) \cup {n + 1})
           = SumFunctionOnSet(realizedIn(fs), sinceIn(fs, t)) + realizedIn(gs)[n + 1]
    BY <2>1, <2>2, SumGrow
  <2> QED BY <2>1, <2>2, <2>3, SumKept
<1>7. SumFunctionOnSet(realizedIn(gs), sinceIn(gs, t))
        = SumFunctionOnSet(realizedIn(fs), sinceIn(fs, t))
            + IF x.ts >= t THEN x.realized ELSE 0
  <2>1. CASE x.ts >= t
    <3>1. sinceIn(gs, t) = sinceIn(fs, t) \cup {n + 1}
      BY <1>5, <2>1
    <3>2. SumFunctionOnSet(realizedIn(gs), sinceIn(gs, t))
            = SumFunctionOnSet(realizedIn(gs), sinceIn(fs, t) \cup {n + 1})
      BY Zenon, <3>1
    <3> QED BY <1>4, <1>6, <2>1, <3>2
  <2>2. CASE ~ (x.ts >= t)
    <3>1. SumFunctionOnSet(realizedIn(gs), sinceIn(gs, t))
            = SumFunctionOnSet(realizedIn(gs), sinceIn(fs, t))
      BY Zenon, <1>5, <2>2
    <3> QED BY <1>6, <2>2, <3>1
  <2> QED BY <2>1, <2>2
<1>8. SumFunction(netIn(gs)) = SumFunction(netIn(fs)) + x.net /\ SumFunction(netIn(fs)) \in Int
  <2>1. DOMAIN netIn(fs) = 1..n /\ DOMAIN netIn(gs) = (1..n) \cup {n + 1}
    BY <1>1 DEF netIn
  <2>2. /\ SumFunctionOnSet(netIn(fs), 1..n) \in Int
        /\ SumFunctionOnSet(netIn(gs), (1..n) \cup {n + 1})
             = SumFunctionOnSet(netIn(fs), 1..n) + netIn(gs)[n + 1]
    <3>1. Grown(netIn(fs), netIn(gs), n)
      BY <1>4 DEF Grown
    <3> QED BY <1>1, <3>1, SumKept, SumGrow
  <2>3. /\ SumFunction(netIn(fs)) = SumFunctionOnSet(netIn(fs), 1..n)
        /\ SumFunction(netIn(gs)) = SumFunctionOnSet(netIn(gs), (1..n) \cup {n + 1})
    BY Zenon, <2>1 DEF SumFunction
  <2> QED BY <1>4, <2>2, <2>3
<1> QED BY <1>6, <1>7, <1>8 DEF gs

-----------------------------------------------------------------------------
(* The money: what each step of the worker does to it.                     *)

\* The tables and sums of the module, as the operators above give them.
LEMMA MoneyNames ==
  /\ Exposure = SumFunctionOnSet(costIn(positions), openIn(positions))
  /\ \A t : RealizedSince(t) = SumFunctionOnSet(realizedIn(fills), sinceIn(fills, t))
  /\ Exposure' = SumFunctionOnSet(costIn(positions'), openIn(positions'))
  /\ SoldOutIsFree = freeWhenSold(positions)
  /\ SoldOutIsFree' = freeWhenSold(positions')
BY DEF Exposure, RealizedSince, Costs, Realized, costIn, openIn, realizedIn, sinceIn,
       SoldOutIsFree, freeWhenSold

\* All the results are of some day: no fill is older than the first.
AllResults(fs) == SumFunctionOnSet(realizedIn(fs), sinceIn(fs, -DayOffset))

\* What was realized on the day of a fill before it.
before(fs, k) == {j \in 1..(k - 1) : fs[j].ts >= DayStart(fs[k].ts)}

lossStops(fs) ==
  \A k \in DOMAIN fs :
    fs[k].side = "BUY" => -MaxDailyLoss < SumFunctionOnSet(realizedIn(fs), before(fs, k))

LEMMA LedgerNames ==
  /\ LedgerBalances = (/\ cash + Exposure = InitialCash + AllResults(fills)
                       /\ cash = InitialCash + SumFunction(netIn(fills)))
  /\ LedgerBalances' = (/\ cash' + Exposure' = InitialCash + AllResults(fills')
                        /\ cash' = InitialCash + SumFunction(netIn(fills')))
  /\ DailyLossStopsBuying = lossStops(fills)
  /\ DailyLossStopsBuying' = lossStops(fills')
BY DEF LedgerBalances, AllResults, DailyLossStopsBuying, lossStops, before, RealizedSince,
       Realized, realizedIn, sinceIn, netIn

\* A fill leaves the earlier purchases justified, and is itself if it is a sale
\* or the day still allows a purchase.
LEMMA LossStopsAfterFill ==
  ASSUME NEW fs \in Seq(Fill), NEW x \in Fill, lossStops(fs),
         x.side = "BUY" =>
           -MaxDailyLoss < SumFunctionOnSet(realizedIn(fs), sinceIn(fs, DayStart(x.ts)))
  PROVE  lossStops(Append(fs, x))
<1> DEFINE n  == Len(fs)
           gs == Append(fs, x)
<1>1. /\ DOMAIN fs = 1..n /\ n \in Nat /\ DOMAIN gs = 1..(n + 1)
      /\ gs[n + 1] = x /\ \A k \in 1..n : gs[k] = fs[k]
  OBVIOUS
<1>2. \A k \in 1..n : fs[k].realized \in Int
  <2>1. \A k \in 1..n : fs[k] \in Fill
    BY <1>1
  <2> QED BY <2>1 DEF Fill
<1>3. x.realized \in Int
  BY DEF Fill
<1> HIDE DEF n, gs
<1>4. Grown(realizedIn(fs), realizedIn(gs), n)
  BY <1>1, <1>2, <1>3 DEF Grown, realizedIn
<1>5. ASSUME NEW k \in DOMAIN gs, gs[k].side = "BUY"
      PROVE  -MaxDailyLoss < SumFunctionOnSet(realizedIn(gs), before(gs, k))
  <2>1. CASE k \in 1..n
    <3>1. before(gs, k) = before(fs, k) /\ before(fs, k) \in SUBSET (1..n)
      BY <1>1, <2>1 DEF before
    <3>2. SumFunctionOnSet(realizedIn(gs), before(fs, k))
            = SumFunctionOnSet(realizedIn(fs), before(fs, k))
      <4>1. n \in Nat /\ before(fs, k) \in SUBSET (1..n)
        BY <1>1, <3>1
      <4> QED BY <1>4, <4>1, SumKept
    <3>3. -MaxDailyLoss < SumFunctionOnSet(realizedIn(fs), before(fs, k))
      BY <1>1, <1>5, <2>1 DEF lossStops
    <3>4. SumFunctionOnSet(realizedIn(gs), before(gs, k))
            = SumFunctionOnSet(realizedIn(gs), before(fs, k))
      BY Zenon, <3>1
    <3> QED BY <3>2, <3>3, <3>4
  <2>2. CASE k = n + 1
    <3>1. before(gs, k) = sinceIn(fs, DayStart(x.ts))
      BY <1>1, <2>2 DEF before, sinceIn
    <3>2. sinceIn(fs, DayStart(x.ts)) \in SUBSET (1..n)
      BY <1>1 DEF sinceIn
    <3>3. SumFunctionOnSet(realizedIn(gs), sinceIn(fs, DayStart(x.ts)))
            = SumFunctionOnSet(realizedIn(fs), sinceIn(fs, DayStart(x.ts)))
      <4>1. n \in Nat /\ sinceIn(fs, DayStart(x.ts)) \in SUBSET (1..n)
        BY <1>1, <3>2
      <4> QED BY <1>4, <4>1, SumKept
    <3>4. -MaxDailyLoss < SumFunctionOnSet(realizedIn(fs), sinceIn(fs, DayStart(x.ts)))
      BY <1>1, <1>5, <2>2
    <3>5. SumFunctionOnSet(realizedIn(gs), before(gs, k))
            = SumFunctionOnSet(realizedIn(gs), sinceIn(fs, DayStart(x.ts)))
      BY Zenon, <3>1
    <3> QED BY <3>3, <3>4, <3>5
  <2> QED BY <1>1, <2>1, <2>2
<1> QED BY <1>5 DEF lossStops, gs

\* What a sale is, figure by figure.
LEMMA SaleFacts ==
  ASSUME IInv, NEW p \in due, NEW bid \in Bids, ExitSell(p, bid)
  PROVE  \E sold \in Nat, proceeds \in Nat, allocated \in Nat :
           LET held == positions[p]
               left == Remaining(held, sold, allocated)
               sale == [position |-> p, side |-> "SELL", net |-> proceeds,
                        realized |-> proceeds - allocated, ts |-> began]
           IN /\ p \in DOMAIN positions /\ held.qty > 0
              /\ sold \in 1..held.qty /\ allocated <= held.cost
              /\ sold = held.qty => allocated = held.cost
              /\ left \in Position /\ sale \in Fill
              /\ positions' = [positions EXCEPT ![p] = left]
              /\ fills' = Append(fills, sale)
              /\ cash' = cash + proceeds
              /\ UNCHANGED <<at, work, config>>
<1> DEFINE held      == positions[p]
           sold      == Least(bid.size, held.qty)
           gross     == sold * bid.price
           proceeds  == gross - Fee(gross)
           allocated == (held.cost * sold) \div held.qty
           left      == Remaining(held, sold, allocated)
           sale      == [position |-> p, side |-> "SELL", net |-> proceeds,
                         realized |-> proceeds - allocated, ts |-> began]
<1>1. /\ held.qty > 0 /\ sold > 0
      /\ positions' = [positions EXCEPT ![p] = left]
      /\ fills' = Append(fills, sale)
      /\ cash' = cash + proceeds
      /\ UNCHANGED <<at, work, config>>
  BY DEF ExitSell
<1>2. /\ p \in DOMAIN positions /\ p \in Nat
      /\ held \in Position /\ held.id \in Ids
      /\ held.qty \in Nat \ {0} /\ held.cost \in Nat
      /\ held.opened \in Nat /\ held.deadline \in Nat
  BY <1>1, PositionsTyped DEF IInv, TypeOK
<1>3. sold \in Nat /\ sold <= held.qty /\ bid.price \in Nat
  BY <1>2, BooksAssumption DEF Least
<1>4. gross \in Nat
  BY <1>3
<1>5. proceeds \in Nat
  <2> HIDE DEF gross
  <2> QED BY <1>4, FeeBounds
<1>6. allocated \in 0..held.cost
  <2> HIDE DEF held, sold
  <2> QED BY <1>2, <1>3, AllocationBounds
<1>7. sold = held.qty => allocated = held.cost
  <2> SUFFICES ASSUME sold = held.qty PROVE allocated = held.cost
    OBVIOUS
  <2>1. allocated = (held.cost * held.qty) \div held.qty
    OBVIOUS
  <2> HIDE DEF held, sold, allocated
  <2> QED BY <1>2, <2>1, WholeAllocation
<1>8. left \in Position
  <2> HIDE DEF held, sold, allocated
  <2> QED BY <1>2, <1>3, <1>6 DEF Position, Remaining
<1>9. sale \in Fill
  <2> HIDE DEF proceeds, allocated
  <2>1. began \in Nat /\ allocated \in Int
    BY <1>2, <1>6, NumbersAssumption DEF IInv, TypeOK
  <2> QED BY <1>2, <1>5, <2>1 DEF Fill
<1>10. sold \in 1..held.qty /\ allocated \in Nat /\ allocated <= held.cost
  <2> HIDE DEF held, sold, allocated
  <2> QED BY <1>1, <1>2, <1>3, <1>6
<1> HIDE DEF held, sold, proceeds, allocated
<1> QED BY <1>1, <1>2, <1>3, <1>5, <1>7, <1>8, <1>9, <1>10 DEF held

\* A sale keeps the books: the exposure shrinks, and cash and cost still add up.
LEMMA SaleKeepsMoney ==
  ASSUME MInv, NEW p \in due, NEW bid \in Bids, ExitSell(p, bid)
  PROVE  SoldOutIsFree' /\ MoneyIsSafe' /\ Exposure' <= Exposure
<1>1. PICK sold \in Nat, proceeds \in Nat, allocated \in Nat :
        LET held == positions[p]
            left == Remaining(held, sold, allocated)
            sale == [position |-> p, side |-> "SELL", net |-> proceeds,
                     realized |-> proceeds - allocated, ts |-> began]
        IN /\ p \in DOMAIN positions /\ held.qty > 0
           /\ sold \in 1..held.qty /\ allocated <= held.cost
           /\ sold = held.qty => allocated = held.cost
           /\ left \in Position /\ sale \in Fill
           /\ positions' = [positions EXCEPT ![p] = left]
           /\ fills' = Append(fills, sale)
           /\ cash' = cash + proceeds
  BY SaleFacts DEF MInv
<1> DEFINE left == Remaining(positions[p], sold, allocated)
           sale == [position |-> p, side |-> "SELL", net |-> proceeds,
                    realized |-> proceeds - allocated, ts |-> began]
<1>2. /\ positions \in Seq(Position) /\ fills \in Seq(Fill) /\ cash \in Nat
      /\ positions[p].qty \in Nat /\ positions[p].cost \in Nat
  BY <1>1, PositionsTyped DEF MInv, IInv, TypeOK
<1>3. /\ left.qty = positions[p].qty - sold
      /\ left.cost = positions[p].cost - allocated
      /\ left.qty = 0 => left.cost = 0
      /\ left.cost \in Nat
  BY <1>1, <1>2 DEF Remaining
<1>4. /\ sale.side = "SELL" /\ sale.net = proceeds /\ sale.realized = proceeds - allocated
      /\ sale.ts >= -DayOffset
  BY <1>1, NumbersAssumption DEF Fill
<1>5. /\ positions' = [positions EXCEPT ![p] = left] /\ fills' = Append(fills, sale)
      /\ left \in Position /\ sale \in Fill
  BY <1>1
<1> HIDE DEF left, sale
<1>6. freeWhenSold(positions) /\ freeWhenSold([positions EXCEPT ![p] = left])
  BY <1>1, <1>2, <1>3, MoneyNames DEF MInv, freeWhenSold
<1>7. Exposure' = Exposure - positions[p].cost + left.cost
  <2> DEFINE qs == [positions EXCEPT ![p] = left]
  <2>1. p \in DOMAIN positions
    BY <1>1
  <2>2. SumFunctionOnSet(costIn(qs), openIn(qs))
          = SumFunctionOnSet(costIn(positions), openIn(positions)) - positions[p].cost + left.cost
    BY <1>2, <1>5, <1>6, <2>1, ExposureAfterSale
  <2>3. SumFunctionOnSet(costIn(positions'), openIn(positions'))
          = SumFunctionOnSet(costIn(qs), openIn(qs))
    BY Zenon, <1>5
  <2> QED BY <2>2, <2>3, MoneyNames
<1>8. Exposure \in Nat
  BY <1>2, <1>6, ExposureOfAll, MoneyNames
<1>9. /\ AllResults(fills') = AllResults(fills) + sale.realized
      /\ SumFunction(netIn(fills')) = SumFunction(netIn(fills)) + sale.net
      /\ AllResults(fills) \in Int /\ SumFunction(netIn(fills)) \in Int
  <2>1. -DayOffset \in Int
    BY NumbersAssumption
  <2> QED BY <1>2, <1>4, <1>5, <2>1, ResultsAfterFill DEF AllResults
<1>10. LedgerBalances'
  <2>1. /\ cash + Exposure = InitialCash + AllResults(fills)
        /\ cash = InitialCash + SumFunction(netIn(fills))
    BY LedgerNames DEF MInv, MoneyIsSafe
  <2>2. cash' = cash + proceeds
    BY <1>1
  <2>3. /\ cash' + Exposure' = InitialCash + AllResults(fills')
        /\ cash' = InitialCash + SumFunction(netIn(fills'))
    <3>1. Exposure' = Exposure - allocated
      BY <1>2, <1>3, <1>7, <1>8
    <3>2. InitialCash \in Nat
      BY NumbersAssumption
    <3>3. AllResults(fills') = AllResults(fills) + proceeds - allocated
      BY <1>4, <1>9
    <3>4. SumFunction(netIn(fills')) = SumFunction(netIn(fills)) + proceeds
      BY <1>4, <1>9
    <3> HIDE DEF AllResults
    <3>5. cash' + Exposure' = InitialCash + AllResults(fills')
      <4>1. AllResults(fills) \in Int /\ Exposure \in Int /\ cash \in Int
        BY <1>2, <1>8, <1>9
      <4>2. cash + Exposure = InitialCash + AllResults(fills)
        BY <2>1
      <4> QED BY <2>2, <3>1, <3>2, <3>3, <4>1, <4>2
    <3>6. cash' = InitialCash + SumFunction(netIn(fills'))
      BY <1>2, <1>9, <2>1, <2>2, <3>2, <3>4
    <3> QED BY <3>5, <3>6
  <2> QED BY <2>3, LedgerNames
<1>11. DailyLossStopsBuying'
  <2>1. lossStops(fills)
    BY LedgerNames DEF MInv, MoneyIsSafe
  <2>2. lossStops(Append(fills, sale))
    BY <1>2, <1>4, <1>5, <2>1, LossStopsAfterFill
  <2> QED BY <1>5, <2>2, LedgerNames
<1>12. Exposure' <= Exposure /\ ExposureCapped'
  <2>1. Exposure' <= Exposure
    BY <1>2, <1>3, <1>7, <1>8
  <2>2. Exposure <= MaxExposure
    BY Zenon DEF MInv, MoneyIsSafe, ExposureCapped
  <2>3. MaxExposure \in Int
    BY NumbersAssumption
  <2>4. Exposure' \in Int
    BY <1>2, <1>3, <1>7, <1>8
  <2>5. Exposure' <= MaxExposure
    BY <1>8, <2>1, <2>2, <2>3, <2>4
  <2> QED BY <2>1, <2>5 DEF ExposureCapped
<1>13. SoldOutIsFree'
  BY <1>5, <1>6, MoneyNames
<1> QED BY <1>10, <1>11, <1>12, <1>13 DEF MoneyIsSafe

\* What a purchase is: refused, and no table but the signals changes, or made
\* within every limit of Refusal.
LEMMA PurchaseFacts ==
  ASSUME MInv, NEW ask \in Asks, Buy(ask)
  PROVE  \/ UNCHANGED <<positions, fills, cash>>
         \/ /\ ~config.kill
            /\ \E new \in Position, fill \in Fill :
                 /\ new.qty > 0 /\ new.cost \in Nat
                 /\ fill.side = "BUY" /\ fill.net = -new.cost /\ fill.realized = 0
                 /\ fill.ts = now
                 /\ Exposure + new.cost <= MaxExposure
                 /\ ~ (RealizedSince(DayStart(now)) <= -MaxDailyLoss)
                 /\ new.cost <= cash
                 /\ positions' = Append(positions, new)
                 /\ fills' = Append(fills, fill)
                 /\ cash' = cash - new.cost
<1> DEFINE id    == work.id
           s     == signals[id].intent
           qty   == Least(ask.size, s.notional \div ask.price)
           gross == qty * ask.price
           cost  == gross + Fee(gross)
           new   == [id |-> id, qty |-> qty, cost |-> cost, opened |-> now,
                     deadline |-> now + s.hold]
           fill  == [position |-> Len(positions) + 1, side |-> "BUY", net |-> -cost,
                     realized |-> 0, ts |-> now]
<1>1. CASE Refusal(s, qty, cost) # "NONE"
  BY <1>1 DEF Buy
<1>2. CASE Refusal(s, qty, cost) = "NONE"
  <2>1. /\ positions' = Append(positions, new)
        /\ fills' = Append(fills, fill)
        /\ cash' = cash - cost
    BY <1>2 DEF Buy
  <2>2. /\ work \in Work /\ id \in Ids
    BY DEF Buy, MInv, IInv, TypeOK, Work
  <2>3. s \in Intents /\ s.notional \in Nat /\ s.hold \in Nat /\ s.expires \in Nat
    BY <2>2, IntentsAssumption DEF Buy, MInv, IInv, RowsSound
  <2>4. qty \in Nat /\ ask.price \in Nat
    BY <2>3, BooksAssumption DEF Least
  <2>5. gross \in Nat
    BY <2>4
  <2>6. cost \in Nat
    <3> HIDE DEF gross
    <3> QED BY <2>5, FeeBounds
  <2>7. /\ ~config.kill /\ ~ (Exposure + cost > MaxExposure)
        /\ ~ (RealizedSince(DayStart(now)) <= -MaxDailyLoss)
        /\ ~ (cost > cash) /\ qty # 0
    <3> HIDE DEF qty, cost, s
    <3> QED BY <1>2 DEF Refusal
  <2> HIDE DEF qty, cost, s
  <2>8. Exposure \in Nat
    <3>1. freeWhenSold(positions) /\ positions \in Seq(Position)
      BY MoneyNames DEF MInv, IInv, TypeOK
    <3> QED BY <3>1, ExposureOfAll, MoneyNames
  <2>9. Len(positions) \in Nat /\ now \in Nat /\ cash \in Nat
    BY NumbersAssumption DEF MInv, IInv, TypeOK
  <2>10. new \in Position /\ fill \in Fill
    BY <2>2, <2>3, <2>4, <2>6, <2>9 DEF Position, Fill
  <2>11. /\ new.qty > 0 /\ new.cost = cost /\ new.cost \in Nat
         /\ fill.side = "BUY" /\ fill.net = -new.cost /\ fill.realized = 0 /\ fill.ts = now
    BY <2>4, <2>6, <2>7
  <2>12. Exposure + cost <= MaxExposure /\ cost <= cash
    BY <2>6, <2>7, <2>8, <2>9, NumbersAssumption
  <2> HIDE DEF new, fill
  <2> QED BY <2>1, <2>7, <2>10, <2>11, <2>12
<1> QED BY <1>1, <1>2

\* A purchase keeps the books too: it is paid, within the exposure, and on a day
\* that has not lost too much.
LEMMA PurchaseKeepsMoney ==
  ASSUME MInv, NEW ask \in Asks, Buy(ask)
  PROVE  SoldOutIsFree' /\ MoneyIsSafe'
<1>1. CASE UNCHANGED <<positions, fills, cash>>
  <2>1. Exposure' = Exposure
    BY <1>1, MoneyNames
  <2> QED BY <1>1, <2>1, MoneyNames, LedgerNames
          DEF MInv, MoneyIsSafe, ExposureCapped
<1>2. ASSUME NEW new \in Position, NEW fill \in Fill,
             /\ new.qty > 0 /\ new.cost \in Nat
             /\ fill.side = "BUY" /\ fill.net = -new.cost /\ fill.realized = 0
             /\ fill.ts = now
             /\ Exposure + new.cost <= MaxExposure
             /\ ~ (RealizedSince(DayStart(now)) <= -MaxDailyLoss)
             /\ positions' = Append(positions, new)
             /\ fills' = Append(fills, fill)
             /\ cash' = cash - new.cost
      PROVE  SoldOutIsFree' /\ MoneyIsSafe'
  <2>1. /\ positions \in Seq(Position) /\ fills \in Seq(Fill) /\ cash \in Nat /\ now \in Nat
    BY NumbersAssumption DEF MInv, IInv, TypeOK
  <2>2. freeWhenSold(positions)
    BY MoneyNames DEF MInv
  <2>3. Exposure \in Nat
    BY <2>1, <2>2, ExposureOfAll, MoneyNames
  <2>4. Exposure' = Exposure + new.cost
    <3>1. SumFunctionOnSet(costIn(Append(positions, new)), openIn(Append(positions, new)))
            = SumFunctionOnSet(costIn(positions), openIn(positions)) + new.cost
      BY <1>2, <2>1, ExposureAfterPurchase
    <3>2. SumFunctionOnSet(costIn(positions'), openIn(positions'))
            = SumFunctionOnSet(costIn(Append(positions, new)), openIn(Append(positions, new)))
      BY Zenon, <1>2
    <3> QED BY <3>1, <3>2, MoneyNames
  <2>5. fill.ts >= -DayOffset /\ -DayOffset \in Int /\ DayStart(now) \in Int
    BY <1>2, <2>1, NumbersAssumption DEF DayStart
  <2>6. /\ AllResults(fills') = AllResults(fills)
        /\ SumFunction(netIn(fills')) = SumFunction(netIn(fills)) - new.cost
        /\ AllResults(fills) \in Int /\ SumFunction(netIn(fills)) \in Int
    <3>1. /\ SumFunctionOnSet(realizedIn(Append(fills, fill)), sinceIn(Append(fills, fill), -DayOffset))
               = SumFunctionOnSet(realizedIn(fills), sinceIn(fills, -DayOffset)) + fill.realized
          /\ SumFunction(netIn(Append(fills, fill))) = SumFunction(netIn(fills)) + fill.net
          /\ SumFunctionOnSet(realizedIn(fills), sinceIn(fills, -DayOffset)) \in Int
          /\ SumFunction(netIn(fills)) \in Int
      BY <2>1, <2>5, ResultsAfterFill
    <3> QED BY <1>2, <3>1 DEF AllResults
  <2>7. LedgerBalances'
    <3>1. /\ cash + Exposure = InitialCash + AllResults(fills)
          /\ cash = InitialCash + SumFunction(netIn(fills))
      BY LedgerNames DEF MInv, MoneyIsSafe
    <3>2. cash' = cash - new.cost /\ new.cost \in Nat /\ InitialCash \in Nat
      BY <1>2, NumbersAssumption
    <3>3. cash' + Exposure' = InitialCash + AllResults(fills')
      BY <2>1, <2>3, <2>4, <2>6, <3>1, <3>2
    <3>4. cash' = InitialCash + SumFunction(netIn(fills'))
      BY <2>1, <2>6, <3>1, <3>2
    <3> QED BY <3>3, <3>4, LedgerNames
  <2>8. DailyLossStopsBuying'
    <3>1. SumFunctionOnSet(realizedIn(fills), sinceIn(fills, DayStart(now))) \in Int
      BY <2>1, <2>5, ResultsAfterFill
    <3>2. -MaxDailyLoss < SumFunctionOnSet(realizedIn(fills), sinceIn(fills, DayStart(fill.ts)))
      BY <1>2, <3>1, MoneyNames, NumbersAssumption
    <3>3. lossStops(fills)
      BY LedgerNames DEF MInv, MoneyIsSafe
    <3>4. lossStops(Append(fills, fill))
      BY <2>1, <3>2, <3>3, LossStopsAfterFill
    <3> QED BY <1>2, <3>4, LedgerNames
  <2>9. ExposureCapped'
    BY <1>2, <2>4 DEF ExposureCapped
  <2>10. SoldOutIsFree'
    <3>1. freeWhenSold(Append(positions, new))
      BY <1>2, <2>1, <2>2 DEF freeWhenSold
    <3> QED BY <1>2, <3>1, MoneyNames
  <2> QED BY <2>7, <2>8, <2>9, <2>10 DEF MoneyIsSafe
<1> QED BY <1>1, <1>2, PurchaseFacts

\* The books are empty and balance at the start.
LEMMA InitMInv == Init => MInv
<1> SUFFICES ASSUME Init PROVE MInv
  OBVIOUS
<1>1. openIn(positions) = {} /\ DOMAIN netIn(fills) = {} /\ sinceIn(fills, -DayOffset) = {}
  BY DEF Init, openIn, netIn, sinceIn
<1>2. Exposure = 0
  BY <1>1, SumEmpty, MoneyNames
<1>3. AllResults(fills) = 0 /\ SumFunction(netIn(fills)) = 0
  BY <1>1, SumEmpty DEF AllResults, SumFunction
<1>4. LedgerBalances
  BY <1>2, <1>3, LedgerNames, NumbersAssumption DEF Init
<1>5. DailyLossStopsBuying /\ SoldOutIsFree /\ BuyerIsLive
  BY DEF Init, DailyLossStopsBuying, SoldOutIsFree, BuyerIsLive
<1>6. ExposureCapped
  BY <1>2, NumbersAssumption DEF ExposureCapped
<1> QED BY <1>4, <1>5, <1>6, InitIInv DEF MInv, MoneyIsSafe

\* Only a live process asks for a book: the mode is read before and fixed since.
LEMMA LiveBuyerStep ==
  ASSUME MInv, [Next]_vars
  PROVE  BuyerIsLive'
<1> USE DEF store, memory
<1>1. CASE \/ Tick \/ BeginCycle \/ BeginRecover \/ EndRecover \/ PullFails
           \/ BuyWithoutBook \/ EndCycle \/ PullAny \/ Fault \/ Start
           \/ \E p \in due : ExitWithoutBook(p)
           \/ UNCHANGED vars
  BY <1>1 DEF MInv, BuyerIsLive, Tick, BeginCycle, BeginRecover, EndRecover, PullFails,
         BuyWithoutBook, EndCycle, PullAny, Pull, Fault, CycleError, Crash, Start,
         ExitWithoutBook, Forget, vars
<1>2. CASE SellSome
  BY <1>2 DEF SellSome, ExitSell, MInv, BuyerIsLive
<1>3. CASE \E s \in inbox : RecoverExpired(s) \/ Ingest(s)
  BY <1>3 DEF RecoverExpired, Ingest, IngestInvalid, IngestRecord, MInv, BuyerIsLive
<1>4. CASE CheckStored \/ BuyTooLate
  BY <1>4 DEF CheckStored, BuyTooLate, MInv, BuyerIsLive
<1>5. CASE \E ask \in Asks : Buy(ask)
  BY <1>5 DEF Buy, BuyerIsLive
<1> QED BY <1>1, <1>2, <1>3, <1>4, <1>5 DEF Next, CycleStep

\* Every step keeps the books.
LEMMA NextMInv == MInv /\ [Next]_vars => MInv'
<1> SUFFICES ASSUME MInv, [Next]_vars PROVE MInv'
  OBVIOUS
<1>1. IInv'
  BY NextIInv DEF MInv
<1>2. SoldOutIsFree' /\ MoneyIsSafe'
  <2>1. CASE SellSome
    BY <2>1, SaleKeepsMoney DEF SellSome
  <2>2. CASE \E ask \in Asks : Buy(ask)
    BY <2>2, PurchaseKeepsMoney
  <2>3. CASE UNCHANGED <<positions, fills, cash>>
    <3>1. Exposure' = Exposure
      BY <2>3, MoneyNames
    <3> QED BY <2>3, <3>1, MoneyNames, LedgerNames DEF MInv, MoneyIsSafe, ExposureCapped
  <2>4. SellSome \/ (\E ask \in Asks : Buy(ask)) \/ UNCHANGED <<positions, fills, cash>>
    BY DEF Next, CycleStep, Tick, BeginCycle, BeginRecover, EndRecover, PullFails,
         BuyWithoutBook, EndCycle, PullAny, Pull, Fault, CycleError, Crash, Start,
         ExitWithoutBook, RecoverExpired, Ingest, CheckStored, BuyTooLate, vars, store, memory
  <2> QED BY <2>1, <2>2, <2>3, <2>4
<1> QED BY <1>1, <1>2, LiveBuyerStep DEF MInv

\* The money is safe in every reachable state, for any limits, fees, books,
\* feeds, faults and restarts: the exposure stays below its limit, cash and
\* cost basis add up to the seed and the realized results, and a day that has
\* lost its limit buys nothing more.
THEOREM MoneySafe == Spec => []MoneyIsSafe
<1>1. MInv => MoneyIsSafe
  BY DEF MInv
<1> QED BY <1>1, InitMInv, NextMInv, PTL DEF Spec

\* Under the kill switch or in DRY_RUN a step opens no position and adds no
\* exposure, whatever an earlier process left PENDING.
THEOREM HaltedReduces == Spec => HaltedProcessOnlyReduces
<1> DEFINE Halted == config.kill \/ config.mode # "SHADOW" =>
       /\ Len(positions') = Len(positions)
       /\ Exposure' <= Exposure
<1>1. MInv /\ [Next]_vars => [Halted]_vars
  <2> SUFFICES ASSUME MInv, [Next]_vars, config.kill \/ config.mode # "SHADOW"
               PROVE  Len(positions') = Len(positions) /\ Exposure' <= Exposure
    OBVIOUS
  <2>1. Exposure \in Nat /\ positions \in Seq(Position)
    <3>1. freeWhenSold(positions) /\ positions \in Seq(Position)
      BY MoneyNames DEF MInv, IInv, TypeOK
    <3> QED BY <3>1, ExposureOfAll, MoneyNames
  <2>2. CASE SellSome
    <3>1. PICK p \in due, bid \in Bids : ExitSell(p, bid)
      BY <2>2 DEF SellSome
    <3>2. Len(positions') = Len(positions)
      BY <2>1, <3>1 DEF ExitSell
    <3> QED BY <3>1, <3>2, SaleKeepsMoney
  <2>3. CASE positions' = positions
    BY <2>1, <2>3, MoneyNames
  <2>4. ASSUME NEW ask \in Asks, Buy(ask) PROVE positions' = positions
    <3>1. config.mode = "SHADOW"
      BY <2>4 DEF Buy, MInv, BuyerIsLive
    <3> QED BY <2>4, <3>1, PurchaseFacts
  <2>5. SellSome \/ (\E ask \in Asks : Buy(ask)) \/ positions' = positions
    BY DEF Next, CycleStep, Tick, BeginCycle, BeginRecover, EndRecover, PullFails,
         BuyWithoutBook, EndCycle, PullAny, Pull, Fault, CycleError, Crash, Start,
         ExitWithoutBook, RecoverExpired, Ingest, CheckStored, BuyTooLate, vars, store, memory
  <2> QED BY <2>2, <2>3, <2>4, <2>5
<1> QED BY <1>1, InitMInv, NextMInv, PTL DEF Spec, HaltedProcessOnlyReduces

-----------------------------------------------------------------------------
(* The pipeline.  The worker of ShadowSystem is the worker of this module,  *)
(* with a feed that offers only what the bridge put into its outbox.        *)

\* What the outbox reports is what it holds.
LEMMA ReportFacts ==
  ASSUME OneVocabulary, OutboxInv
  PROVE  /\ Outbox!Report \subseteq Intents
         /\ \A s \in Outbox!Report : s = outbox[s.id]
<1>1. \A s \in Outbox!Report : \E i \in Ids : s = outbox[i] /\ outbox[i] # NoIntent
  BY DEF Outbox!Report, OneVocabulary
<1> QED BY <1>1 DEF OutboxInv

\* A step of the pipeline is a step of the worker, or none.
LEMMA WorkerSteps ==
  ASSUME OneVocabulary, OutboxInv, [SysNext]_sysVars
  PROVE  [Next]_vars
<1> USE DEF vars, store, memory
<1>1. CASE SysTick
  BY <1>1 DEF SysTick, Next
<1>2. CASE Scan
  BY <1>2 DEF Scan, Outbox!Publish
<1>3. CASE Bridge
  BY <1>3 DEF Bridge, Outbox!BridgeStep, Outbox!Update, Outbox!UpdateFails
<1>4. CASE PullReport
  <2>1. Outbox!Report \in SUBSET Intents
    BY ReportFacts
  <2> QED BY <1>4, <2>1 DEF PullReport, Next, PullAny
<1>5. CASE WorkerStep
  BY <1>5 DEF WorkerStep, Next
<1>6. CASE UNCHANGED sysVars
  BY <1>6 DEF sysVars
<1> QED BY <1>1, <1>2, <1>3, <1>4, <1>5, <1>6 DEF SysNext

\* The bridge keeps what it has and adds what it fetched, no older than it accepts.
LEMMA UpdateFacts ==
  ASSUME OneVocabulary, SysInv, Bridge
  PROVE  /\ DOMAIN outbox' = Ids
         /\ \A i \in Ids :
              \/ outbox'[i] = outbox[i]
              \/ /\ outbox[i] = NoIntent /\ outbox'[i] \in Intents /\ outbox'[i].id = i
                 /\ outbox'[i].created = now /\ now - i[1] \in 0 .. MaxSourceAge
<1>0. DOMAIN outbox = Ids
  BY DEF SysInv, OutboxInv
<1>1. ASSUME NEW got \in SUBSET Periods, Outbox!UpdateFails(got) PROVE outbox' = outbox
  BY <1>1 DEF Outbox!UpdateFails
<1>2. ASSUME NEW got \in SUBSET Periods, Outbox!Update(got)
      PROVE  /\ DOMAIN outbox' = Ids
             /\ \A i \in Ids :
                  \/ outbox'[i] = outbox[i]
                  \/ /\ outbox[i] = NoIntent /\ outbox'[i] \in Intents /\ outbox'[i].id = i
                     /\ outbox'[i].created = now /\ now - i[1] \in 0 .. MaxSourceAge
  <2>1. PICK snapshot \in Outbox!Newest(got) :
          /\ now - snapshot.asof \in 0 .. MaxSourceAge
          /\ outbox' = [i \in Ids |->
               IF outbox[i] = NoIntent /\ \E s \in Outbox!Candidates(snapshot) : s.id = i
                 THEN CHOOSE s \in Outbox!Candidates(snapshot) : s.id = i
                 ELSE outbox[i]]
    BY <1>2 DEF Outbox!Update, OneVocabulary
  <2>2. snapshot \in Outbox!Snapshot
    BY <1>2 DEF Outbox!Update, Outbox!Newest, SysInv, OutboxInv
  <2>3. now \in 0 .. Horizon /\ MaxLife \in Nat /\ Horizon \in Nat
    BY NumbersAssumption DEF SysInv, IInv, TypeOK
  <2>4. ASSUME NEW s \in Outbox!Candidates(snapshot)
        PROVE  s \in Intents /\ s.created = now /\ s.id[1] = snapshot.asof
    <3>1. PICK a \in snapshot.picks :
            s = [id |-> <<snapshot.asof, a>>, created |-> now, expires |-> now + MaxLife,
                 notional |-> Notional, hold |-> Hold]
      BY DEF Outbox!Candidates
    <3>2. a \in Assets /\ snapshot.asof \in ScanTimes
      BY <2>2 DEF Outbox!Snapshot
    <3>3. <<snapshot.asof, a>> \in Outbox!OutboxIds
      BY <3>2 DEF Outbox!OutboxIds
    <3>4. now + MaxLife \in 0 .. (Horizon + MaxLife)
      BY <2>3
    <3>5. s \in Outbox!OutboxIntents
      BY <2>3, <3>1, <3>3, <3>4 DEF Outbox!OutboxIntents
    <3> QED BY <3>1, <3>5 DEF OneVocabulary
  <2>5. ASSUME NEW i \in Ids, outbox[i] = NoIntent, \E s \in Outbox!Candidates(snapshot) : s.id = i
        PROVE  /\ outbox'[i] \in Outbox!Candidates(snapshot) /\ outbox'[i].id = i
    BY <2>1, <2>5
  <2> QED BY <2>1, <2>4, <2>5
<1> QED BY <1>0, <1>1, <1>2 DEF Bridge, Outbox!BridgeStep

\* A recorded intent is the one the bridge keeps; a step that leaves the outbox
\* alone keeps it so.
LEMMA RecordsStay ==
  ASSUME SysInv, [Next]_vars, UNCHANGED bridgeVars
  PROVE  StoresAgree'
<1> SUFFICES ASSUME NEW i \in Ids, signals'[i].intent # NoIntent PROVE signals'[i].intent = outbox[i]
  BY DEF StoresAgree, bridgeVars
<1>1. CASE signals'[i].intent = signals[i].intent
  BY <1>1 DEF SysInv, StoresAgree
<1>2. CASE \E s \in inbox : Ingest(s) /\ s.id = i /\ signals[i].status = "NONE"
  <2>1. PICK s \in inbox : Ingest(s) /\ s.id = i /\ signals[i].status = "NONE"
    BY <1>2
  <2>2. signals'[i] = signals[i] \/ signals'[i].intent = s
    BY <2>1 DEF Ingest, IngestInvalid, IngestRecord, SysInv, IInv, TypeOK
  <2>3. s = outbox[i]
    BY <2>1 DEF SysInv, OutboxInv
  <2> QED BY <1>1, <2>2, <2>3
<1> QED BY <1>1, <1>2, RowSteps DEF SysInv

\* What waits to be visited is in the outbox.
LEMMA InboxStays ==
  ASSUME OneVocabulary, SysInv, [Next]_vars, WorkerStep
  PROVE  OutboxInv'
<1> USE DEF store, memory
<1>1. UNCHANGED <<now, outbox, states>>
  BY DEF WorkerStep, bridgeVars, CycleStep, BeginCycle, BeginRecover, EndRecover, PullFails,
         BuyWithoutBook, BuyTooLate, CheckStored, EndCycle, Fault, CycleError, Crash, Start,
         ExitWithoutBook, SellSome, ExitSell, RecoverExpired, Ingest, Buy
<1>2. \/ inbox' \subseteq inbox
      \/ inbox' = {signals[i].intent : i \in {j \in Ids : signals[j].status = "PENDING"}}
  BY DEF WorkerStep, CycleStep, BeginCycle, BeginRecover, EndRecover, PullFails,
         BuyWithoutBook, BuyTooLate, CheckStored, EndCycle, Fault, CycleError, Crash, Start,
         ExitWithoutBook, SellSome, ExitSell, RecoverExpired, Ingest, Buy, Forget
<1>3. ASSUME NEW i \in Ids, signals[i].status = "PENDING"
      PROVE  signals[i].intent = outbox[i] /\ signals[i].intent.id = i
  <2>1. signals[i].intent \in Intents /\ signals[i].intent.id = i
    BY <1>3 DEF SysInv, IInv, RowsSound
  <2> QED BY <2>1, IntentsAssumption DEF SysInv, StoresAgree
<1>4. \A s \in inbox' : s = outbox[s.id]
  BY <1>2, <1>3 DEF SysInv, OutboxInv
<1> QED BY <1>1, <1>4 DEF SysInv, OutboxInv

\* A position opens at the present moment, on an intent the bridge made before.
LEMMA OffersComeFirst ==
  ASSUME OneVocabulary, SysInv, [Next]_vars, UNCHANGED bridgeVars
  PROVE  BoughtAfterOffer'
<1> USE DEF store, memory
<1>1. CASE positions' = positions
  BY <1>1 DEF SysInv, BoughtAfterOffer, bridgeVars
<1>2. CASE \E p \in due, bid \in Bids : ExitSell(p, bid)
  <2>1. PICK p \in due, bid \in Bids : ExitSell(p, bid)
    BY <1>2
  <2>2. /\ positions' = [positions EXCEPT ![p] = positions'[p]]
        /\ positions'[p].id = positions[p].id /\ positions'[p].opened = positions[p].opened
    BY <2>1 DEF ExitSell, Remaining, SysInv, IInv, TypeOK
  <2> QED BY <2>2 DEF SysInv, BoughtAfterOffer, bridgeVars
<1>3. CASE \E ask \in Asks : Buy(ask) /\ positions' # positions
  <2>1. PICK id \in Ids : /\ signals[id].status = "PENDING"
                          /\ \E new : positions' = Append(positions, new) /\ new.id = id /\ new.opened = now
    <3>1. PICK ask \in Asks : Buy(ask) /\ positions' # positions
      BY <1>3
    <3>2. work \in Work
      BY <3>1 DEF Buy, SysInv, IInv, TypeOK
    <3>3. PICK qty, cost : positions' = Append(positions,
                 [id |-> work.id, qty |-> qty, cost |-> cost, opened |-> now,
                  deadline |-> now + signals[work.id].intent.hold])
      BY <3>1 DEF Buy
    <3> QED BY <3>1, <3>2, <3>3 DEF Buy, Work
  <2> PICK new : positions' = Append(positions, new) /\ new.id = id /\ new.opened = now
    BY <2>1
  <2>2. signals[id].intent \in Intents
    BY <2>1 DEF SysInv, IInv, RowsSound
  <2>3. outbox[id] # NoIntent
    BY <2>2, IntentsAssumption DEF SysInv, StoresAgree
  <2>4. outbox[id].created <= now
    BY <2>3 DEF SysInv, OutboxInv
  <2>5. /\ DOMAIN positions' = DOMAIN positions \cup {Len(positions) + 1}
        /\ positions'[Len(positions) + 1] = new
        /\ \A q \in DOMAIN positions : positions'[q] = positions[q]
    <3>1. positions \in Seq(Position)
      BY DEF SysInv, IInv, TypeOK
    <3>2. /\ Len(positions) \in Nat /\ DOMAIN positions = 1..Len(positions)
          /\ positions' = Append(positions, new)
      BY <3>1
    <3>3. /\ DOMAIN positions' = 1..(Len(positions) + 1)
          /\ positions'[Len(positions) + 1] = new
          /\ \A q \in 1..Len(positions) : positions'[q] = positions[q]
      BY <3>1, <3>2
    <3> QED BY <3>2, <3>3
  <2> QED BY <2>1, <2>4, <2>5 DEF SysInv, BoughtAfterOffer, bridgeVars
<1> QED BY <1>1, <1>2, <1>3 DEF Next, CycleStep, Tick, BeginCycle, BeginRecover, EndRecover, PullFails,
         BuyWithoutBook, BuyTooLate, CheckStored, EndCycle, PullAny, Pull, Fault, CycleError, Crash, Start,
         ExitWithoutBook, SellSome, RecoverExpired, Ingest, vars

\* A scan and the bridge leave the worker and what was offered alone.
LEMMA BridgeKeeps == OneVocabulary /\ SysInv /\ (Scan \/ Bridge) => SysInv'
<1> SUFFICES ASSUME OneVocabulary, SysInv, Scan \/ Bridge PROVE SysInv'
  OBVIOUS
<1>1. UNCHANGED vars
  BY DEF Scan, Bridge, Outbox!Publish, Outbox!BridgeStep, Outbox!Update, Outbox!UpdateFails,
         vars, store, memory
<1>2. IInv'
  BY <1>1, NextIInv DEF SysInv
<1>3. \A i \in Ids : outbox[i] # NoIntent => outbox'[i] = outbox[i]
  <2>1. CASE Scan
    BY <2>1 DEF Scan, Outbox!Publish, Outbox!outboxVars
  <2> QED BY <2>1, UpdateFacts
<1>4. UNCHANGED <<now, signals, positions, inbox>>
  BY <1>1 DEF vars, store, memory
<1>5. \A d \in Periods : states'[d] # NoSnapshot => states'[d] \in Outbox!Snapshot
  <2>1. CASE Scan
    <3>1. PICK d \in Periods, snapshot \in Outbox!Snapshot : Outbox!Publish(d, snapshot)
      BY <2>1 DEF Scan
    <3>2. states' = [states EXCEPT ![d] = snapshot]
      BY <3>1 DEF Outbox!Publish
    <3>3. \A e \in Periods : states'[e] \in {states[e], snapshot}
      BY <3>2
    <3> QED BY <3>3 DEF SysInv, OutboxInv
  <2>2. CASE Bridge
    BY <2>2 DEF Bridge, Outbox!BridgeStep, Outbox!Update, Outbox!UpdateFails, SysInv, OutboxInv
  <2> QED BY <2>1, <2>2
<1>6. /\ DOMAIN outbox' = Ids
      /\ \A i \in Ids : outbox'[i] # NoIntent =>
           /\ outbox'[i] \in Intents /\ outbox'[i].id = i
           /\ outbox'[i].created <= now /\ outbox'[i].created - i[1] \in 0 .. MaxSourceAge
  <2>1. CASE Scan
    BY <2>1 DEF Scan, Outbox!Publish, Outbox!outboxVars, SysInv, OutboxInv
  <2>2. CASE Bridge
    <3>1. now <= now
      BY DEF SysInv, IInv, TypeOK
    <3> QED BY <2>2, <3>1, UpdateFacts DEF SysInv, OutboxInv
  <2> QED BY <2>1, <2>2
<1>7. \A s \in inbox : s \in Intents /\ s.id \in Ids /\ s # NoIntent
  BY IntentsAssumption DEF SysInv, IInv, TypeOK
<1>8. OutboxInv'
  BY <1>3, <1>4, <1>5, <1>6, <1>7 DEF SysInv, OutboxInv
<1>9. StoresAgree'
  BY <1>3, <1>4 DEF SysInv, StoresAgree
<1>10. BoughtAfterOffer'
  <2>1. ASSUME NEW p \in DOMAIN positions PROVE outbox[positions[p].id] # NoIntent /\ positions[p].id \in Ids
    <3>1. positions[p].id \in Ids
      BY PositionsTyped DEF SysInv, IInv
    <3>2. signals[positions[p].id].intent \in Intents
      BY DEF SysInv, IInv, NeverBoughtLate
    <3> QED BY <3>1, <3>2, IntentsAssumption DEF SysInv, StoresAgree
  <2> QED BY <1>3, <1>4, <2>1 DEF SysInv, BoughtAfterOffer
<1> QED BY <1>2, <1>8, <1>9, <1>10 DEF SysInv

LEMMA NextSysInv == OneVocabulary /\ SysInv /\ [SysNext]_sysVars => SysInv'
<1> SUFFICES ASSUME OneVocabulary, SysInv, [SysNext]_sysVars PROVE SysInv'
  OBVIOUS
<1>1. [Next]_vars
  BY WorkerSteps DEF SysInv
<1>2. IInv'
  BY <1>1, NextIInv DEF SysInv
<1>3. CASE UNCHANGED bridgeVars
  <2>1. StoresAgree' /\ BoughtAfterOffer'
    BY <1>1, <1>3, RecordsStay, OffersComeFirst
  <2>2. ASSUME now' \in Nat, now <= now', \A s \in inbox' : s = outbox[s.id] PROVE OutboxInv'
    <3>1. \A i \in Ids : outbox[i] # NoIntent => outbox[i].created <= now'
      <4>1. now \in Nat /\ \A i \in Ids : outbox[i] # NoIntent => outbox[i].created \in Nat
        BY NumbersAssumption, IntentsAssumption DEF SysInv, IInv, TypeOK, OutboxInv
      <4> QED BY <2>2, <4>1 DEF SysInv, OutboxInv
    <3> QED BY <1>3, <2>2, <3>1 DEF SysInv, OutboxInv, bridgeVars
  <2>3. now \in Nat
    BY NumbersAssumption DEF SysInv, IInv, TypeOK
  <2>4. ASSUME SysTick PROVE OutboxInv'
    BY <2>2, <2>3, <2>4 DEF SysTick, Tick, memory, SysInv, OutboxInv
  <2>5. ASSUME PullReport PROVE OutboxInv'
    <3>1. now' = now /\ inbox' = Outbox!Report
      BY <2>5 DEF PullReport, Pull
    <3> QED BY <2>2, <2>3, <3>1, ReportFacts DEF SysInv
  <2>6. ASSUME WorkerStep PROVE OutboxInv'
    BY <1>1, <2>6, InboxStays
  <2>7. ASSUME UNCHANGED sysVars PROVE OutboxInv'
    BY <2>2, <2>3, <2>7 DEF sysVars, vars, memory, SysInv, OutboxInv
  <2>8. ASSUME Scan \/ Bridge PROVE OutboxInv'
    BY <2>8, BridgeKeeps DEF SysInv
  <2>9. OutboxInv'
    BY <2>4, <2>5, <2>6, <2>7, <2>8 DEF SysNext, SysInv
  <2> QED BY <1>2, <2>1, <2>9 DEF SysInv
<1>4. CASE Scan \/ Bridge
  BY <1>4, BridgeKeeps
<1> QED BY <1>3, <1>4 DEF SysNext, SysTick, PullReport, WorkerStep, sysVars

LEMMA InitSysInv == OneVocabulary /\ SysInit => SysInv
<1> SUFFICES ASSUME OneVocabulary, SysInit PROVE SysInv
  OBVIOUS
<1>1. IInv
  BY InitIInv DEF SysInit
<1> QED BY <1>1 DEF SysInit, Init, Outbox!Init, SysInv, OutboxInv, StoresAgree, BoughtAfterOffer, Absent, OneVocabulary

\* Two services, each with its own database, agree on every intent.
THEOREM SysInvInvariant == OneVocabulary => (SysSpec => []SysInv)
<1>1. ASSUME OneVocabulary PROVE SysSpec => []SysInv
  <2>1. SysInit => SysInv
    BY <1>1, InitSysInv
  <2>2. SysInv /\ [SysNext]_sysVars => SysInv'
    BY <1>1, NextSysInv
  <2> QED BY <2>1, <2>2, PTL DEF SysSpec
<1> QED BY <1>1

\* From published scan to position: the databases agree, a pick is tried once,
\* within one life of its intent, on a source that was fresh.
THEOREM PipelineConsistent == OneVocabulary => (SysSpec => []PipelineIsConsistent)
<1>1. ASSUME OneVocabulary, SysInv PROVE PipelineIsConsistent
  <2>1. ASSUME NEW p \in DOMAIN positions
        PROVE  LET i == positions[p].id IN
               /\ outbox[i].created \in Nat /\ positions[p].opened \in Nat /\ i[1] \in Nat
               /\ outbox[i].created <= positions[p].opened
               /\ positions[p].opened < outbox[i].created + MaxLife
               /\ outbox[i].created - i[1] <= MaxSourceAge
    <3> DEFINE i == positions[p].id
    <3>1. i \in Ids /\ positions[p].opened \in Nat
      BY <1>1, PositionsTyped DEF SysInv, IInv
    <3>2. signals[i].intent \in Intents /\ positions[p].opened < signals[i].intent.created + MaxLife
      BY <1>1 DEF SysInv, IInv, NeverBoughtLate
    <3>3. outbox[i] = signals[i].intent /\ outbox[i] # NoIntent
      BY <1>1, <3>1, <3>2, IntentsAssumption DEF SysInv, StoresAgree
    <3>4. outbox[i].created <= positions[p].opened
      BY <1>1 DEF SysInv, BoughtAfterOffer
    <3>5. outbox[i].created - i[1] \in 0 .. MaxSourceAge
      BY <1>1, <3>1, <3>3 DEF SysInv, OutboxInv
    <3>6. outbox[i].created \in Nat
      BY <3>2, <3>3, IntentsAssumption
    <3>7. i[1] \in Nat
      BY <1>1, <3>1 DEF OneVocabulary, Outbox!OutboxIds
    <3>8. MaxSourceAge \in Nat
      BY <1>1 DEF OneVocabulary
    <3> HIDE DEF i
    <3>9. outbox[i].created - i[1] <= MaxSourceAge
      BY <3>5, <3>6, <3>7, <3>8
    <3> QED BY <3>1, <3>2, <3>3, <3>4, <3>6, <3>7, <3>9 DEF i
  <2>2. MaxLife \in Nat /\ MaxSourceAge \in Nat
    BY <1>1, NumbersAssumption DEF OneVocabulary
  <2>3. OneAttemptPerPick
    <3>1. \A p, q \in DOMAIN positions : positions[p].id = positions[q].id => p = q
      BY <1>1 DEF SysInv, IInv, OnePositionPerIntent
    <3>2. \A p \in DOMAIN positions : positions[p].opened \in
            outbox[positions[p].id].created .. (outbox[positions[p].id].created + MaxLife - 1)
      BY <2>1, <2>2
    <3> QED BY <3>1, <3>2 DEF OneAttemptPerPick
  <2>4. TradesRestOnFreshSource
    BY <2>1, <2>2 DEF TradesRestOnFreshSource
  <2> QED BY <1>1, <2>3, <2>4 DEF PipelineIsConsistent, SysInv
<1>2. ASSUME OneVocabulary PROVE SysSpec => []PipelineIsConsistent
  <2>1. SysSpec => []SysInv
    BY <1>2, SysInvInvariant
  <2>2. SysInv => PipelineIsConsistent
    BY <1>1, <1>2
  <2> QED BY <2>1, <2>2, PTL
<1> QED BY <1>2
=============================================================================
