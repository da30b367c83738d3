------------------------------ MODULE FlowPaper ------------------------------
(***************************************************************************)
(* One FAST paper account under everything the observer may call, in any   *)
(* order: signals, books and trades that arrive up to QuoteAge late,       *)
(* windows, gaps, a stop, a named restart of trading, changes of the       *)
(* market's regime, and a new process.                                     *)
(***************************************************************************)
EXTENDS FlowAccount

CONSTANTS
  FlowKinds,      \* "FLOW", "DAYHOLD"
  BookPrices,
  Ref, Low,       \* the price of a signal and the low it is protected by
  ResumeIds,      \* resume_request_id, as numbers
  FlowScopes,     \* how many markets are traded, and until when
  MaxFaults

\* Prices are positive, and the least budget buys at least a part of a coin.
ASSUME FlowPaperAssumption ==
  /\ FlowKinds \subseteq {"FLOW", "DAYHOLD"} /\ BookPrices \subseteq Nat \ {0}
  /\ Ref \in Nat \ {0} /\ Low \in Nat \ {0} /\ Ref <= MinBudget * Parts
  /\ FlowScopes \subseteq [markets : SUBSET Markets, until : Nat] /\ MaxFaults \in Nat

VARIABLES
  extent,
  moment,
  acct,
  gapAt,     \* when the data of a market was last interrupted
  fill,      \* the fill of the last call, NoFill if it had none
  faults     \* restarts and gaps so far

pvars == <<extent, moment, acct, gapAt, fill, faults>>

NoFill == [side |-> "NONE"]

\* Deep books at each price, and thin ones of the same age as the clock.
Books ==
  [stamp : (moment - QuoteAge) .. moment, price : BookPrices, asks : {TRUE}, bids : {100 * Parts}]
    \cup [stamp : {moment}, price : {Low, Ref}, asks : {FALSE}, bids : {Parts}]

\* A quiet window, one that shows selling below the average, one whose
\* completed minutes raise the stop.
Windows == {[seen |-> TRUE, negative |-> FALSE, below |-> FALSE, low |-> 0],
            [seen |-> TRUE, negative |-> TRUE,  below |-> TRUE,  low |-> 0],
            [seen |-> TRUE, negative |-> FALSE, below |-> FALSE, low |-> Ref]}

PInit ==
  /\ extent \in FlowScopes /\ moment = 1 /\ acct \in {NewAccount(kind) : kind \in FlowKinds}
  /\ gapAt = [s \in Markets |-> 0] /\ fill = NoFill /\ faults = 0

\* advance(): a window that ends is shown to every position, then tick().
AdvanceClock ==
  /\ moment < extent.until
  /\ \E w \in [Positions(acct) -> Windows] :
       acct' = TickAccount(IF (moment + 1) % WindowLength = 0 THEN Windowed(acct, moment + 1, w) ELSE acct,
                           moment + 1)
  /\ moment' = moment + 1 /\ fill' = NoFill
  /\ UNCHANGED <<extent, gapAt, faults>>

Only(A) == acct' = A /\ fill' = NoFill /\ UNCHANGED <<extent, moment, gapAt, faults>>

Signals == \E s \in extent.markets : Only(Signal(acct, s, moment, Ref, Low))

Trades == \E s \in extent.markets : Only(OnTrade(acct, s, moment, Ref, moment))

FillOf(A, B, s, b) ==
  IF A.positions[s] = NoValue /\ B.positions[s] # NoValue
    THEN [side |-> "BUY", symbol |-> s, stamp |-> b.stamp, decision |-> A.pending[s].ts,
          regime |-> RegimeAt(A, moment)]
  ELSE IF A.positions[s] # NoValue /\ B.positions[s] # NoValue /\ B.positions[s].qty = A.positions[s].qty
    THEN NoFill
  ELSE IF A.positions[s] # NoValue
    THEN [side |-> "SELL", symbol |-> s, stamp |-> b.stamp,
          decision |-> IF A.positions[s].exit = NoValue THEN moment ELSE A.positions[s].exit,
          last |-> A.positions[s].lastSell]
  ELSE NoFill

Book ==
  \E s \in extent.markets, b \in Books :
    /\ acct' = OnBook(acct, s, moment, b)
    /\ fill' = FillOf(acct, acct', s, b)
    /\ UNCHANGED <<extent, moment, gapAt, faults>>

Interrupted(S) == gapAt' = [s \in Markets |-> IF s \in S THEN moment ELSE gapAt[s]]

Gaps ==
  \E S \in SUBSET extent.markets :
    /\ S # {} /\ faults < MaxFaults /\ faults' = faults + 1
    /\ acct' = Gap(acct, S, moment) /\ Interrupted(S)
    /\ fill' = NoFill /\ UNCHANGED <<extent, moment>>

Stop == ~acct.paused /\ Only(Pause(acct))

Restarted ==
  \E request \in ResumeIds :
    /\ request # acct.resumed /\ CanResume(acct)
    /\ Only(Resume(acct, request))

Market == acct.kind = "DAYHOLD" /\ \E state \in Regimes : Only(SetRegime(acct, state, moment))

NewProcess ==
  /\ faults < MaxFaults /\ faults' = faults + 1
  /\ \E kept \in SUBSET Positions(acct) : acct' = Reopened(acct, moment, kept)
  /\ Interrupted(Positions(acct) \cup Pending(acct))
  /\ fill' = NoFill /\ UNCHANGED <<extent, moment>>

PNext ==
  \/ AdvanceClock \/ Signals \/ Trades \/ Book \/ Gaps
  \/ Stop \/ Restarted \/ Market \/ NewProcess

PSpec == PInit /\ [][PNext]_pvars

-----------------------------------------------------------------------------

\* Every fill rests on a quote stamped after its decision, no purchase on a
\* decision from before an interruption of its data, and no book is sold into
\* twice (magi1/fast_paper.py:169, :229 and :338).
FillsAreCausal ==
  fill # NoFill =>
    /\ fill.stamp > fill.decision
    /\ fill.side = "BUY" => fill.decision >= gapAt[fill.symbol]
    /\ fill.side = "SELL" => fill.stamp > fill.last

\* The tables of an account tell one story: save() never raises; cash and the
\* cost of what is open are the capital and what was realized; a row of the
\* signals is PENDING exactly while its order waits, and BOUGHT only beside a
\* purchase (magi1/fast_paper.py:87, :144, :158, :248 and :277).
AccountAgrees ==
  /\ SaveAccepts(acct)
  /\ acct.cash + Invested(acct) = SeedCash + acct.realized
  /\ \A s \in Markets :
       LET row == acct.signals[s]
           order == acct.pending[s]
       IN /\ (order # NoValue) <=> (row # NoValue /\ row.status = "PENDING")
          /\ order # NoValue => row.ts = order.ts /\ row.day = order.day
          /\ row # NoValue /\ row.status = "BOUGHT" => acct.bought[s] >= row.ts

\* Nothing is bought twice on one UTC day, across midnight, restarts and
\* resumptions; a stop keeps the account out until a new request, and a
\* day-hold is opened only while a known market is not in shock
\* (magi1/fast_paper.py:96 and :106, magi1/fast_dayhold.py:157).
EntriesAreAllowed ==
  \A s \in Markets : acct'.bought[s] # acct.bought[s] =>
    /\ acct.bought[s] # NoValue => acct.bought[s] \div FlowDay # moment \div FlowDay
    /\ ~acct.paused
    /\ acct.kind = "DAYHOLD" => RegimeAt(acct, moment) \notin Unfit

\* The stop of a position only rises while no exit is decided, whatever the
\* market's regime, and an exit once decided stays decided
\* (magi1/fast_dayhold.py:180, magi1/fast_paper.py:164).
ProtectionOnlyTightens ==
  \A s \in Markets :
    acct.positions[s] # NoValue /\ acct'.positions[s] # NoValue =>
      /\ acct'.positions[s].stop >= acct.positions[s].stop
      /\ acct.positions[s].exit # NoValue => acct'.positions[s].exit = acct.positions[s].exit

\* The tables of a flow account tell one story, and its fills follow from their
\* decisions.
FlowAccountIsSound == AccountAgrees /\ FillsAreCausal

\* A flow account buys once a day, only while it may, and never lowers its
\* guard.
FlowEntriesAreAllowed == [][EntriesAreAllowed /\ ProtectionOnlyTightens]_pvars
=============================================================================
