------------------------------ MODULE MCLedgers ------------------------------
(* Small instances of the execution budget of MAGI3, the FAST paper ledgers  *)
(* of MAGI2, the figures made of them, the balances of MAGI3 and the         *)
(* research records of MAGI1: one at a time, chosen at the start.  Each is   *)
(* checked as it stands; nothing else moves.  The extended modules are this  *)
(* module's own, the tick account has a pool of variables.                   *)
EXTENDS FastBudget, RankLedger, DeadlineLedger, Research, AccountsReport, PerformanceView, TLC

CONSTANTS s1, s2, c1, c2, b1, b2, x, u, d

VARIABLES which,
  v1, v2, v3, v4, v5, v6
pool == <<v1, v2, v3, v4, v5, v6>>

Symmetry == Permutations({s1, s2})

-----------------------------------------------------------------------------
\* Of the rotation account: stops and starts early, three rankings without them.
Ledgers == {[until |-> 2, commands |-> 2], [until |-> 3, commands |-> 1], [until |-> 4, commands |-> 0]}

\* A coin abroad, tether at home, and dollars at Kraken.
Accounts == [upbit |-> {u}, binance |-> {x}, kraken |-> {x, d}, bithumb |-> {u}]

\* A tape of three trades read in pages of two.
Tape == INSTANCE TickCycle WITH
  Prices <- {2, 3}, Budget <- 6, MinLots <- 1, PageSize <- 2, LATENCY <- 1, AGE <- 1, DEADLINE <- 3,
  MaxTime <- 4, MaxTrades <- 3,
  now <- v1, tape <- v2, t <- v3, limit <- v4, exiting <- v5, used <- v6

-----------------------------------------------------------------------------
NoTape == v1 = None /\ v2 = None /\ v3 = None /\ v4 = None /\ v5 = None /\ v6 = None

Init ==
  /\ BInit /\ RankInit /\ LInit /\ RInit /\ AccInit /\ VInit
  /\ \/ which \in {"budget", "rank", "slots", "research", "accounts", "view"} /\ NoTape
     \/ which = "tick" /\ Tape!KInit
  /\ which # "rank" => left.commands = 0
  /\ which # "slots" => endowed

\* The variables of the modules, by two, four and six of them.
two == <<bvars, rankvars>>
four == <<two, lvars, rvars>>
six == <<four, avars, vvars>>

BudgetStep == which = "budget" /\ BNext /\ UNCHANGED <<which, pool, rankvars, lvars, rvars, avars, vvars>>
LedgerStep == which = "rank" /\ RankNext /\ UNCHANGED <<which, pool, bvars, lvars, rvars, avars, vvars>>
SlotsStep == which = "slots" /\ LNext /\ UNCHANGED <<which, pool, two, rvars, avars, vvars>>
ResearchStep == which = "research" /\ RNext /\ UNCHANGED <<which, pool, two, lvars, avars, vvars>>
\* The first complete report is the last one; of an earlier one Kraken's part
\* is missing.  Two holdings in all, wherever they are.
AccountsBound ==
  /\ ~(report # NoReport /\ report.complete)
  /\ \A i \in DOMAIN collected : VENUES[i] # "kraken" => collected[i].status = "OK"
  /\ row # NoReport =>
       Cardinality(row.held) + MapThenSumSet(LAMBDA i : Cardinality(collected[i].held), DOMAIN collected) <= 2
AccountsStep == which = "accounts" /\ AccountsBound /\ AccNext /\ UNCHANGED <<which, pool, four, vvars>>
PerformanceStep == which = "view" /\ VNext /\ UNCHANGED <<which, pool, four, avars>>
TapeStep == which = "tick" /\ Tape!KNext /\ UNCHANGED <<which, six>>

Next ==
  \/ BudgetStep \/ LedgerStep \/ TapeStep \/ SlotsStep \/ PerformanceStep
  \/ AccountsStep \/ ResearchStep

Spec == Init /\ [][Next]_<<which, pool, six>>

-----------------------------------------------------------------------------
\* No trade on the tape fills an order twice, and no fill breaks the limit, the
\* floor or the deadline of its order (TickCycle: TapeIsUsedOnce,
\* LimitsAreKept).
NothingCountsTwice ==
  /\ [](which = "tick" => Tape!TapeIsUsedOnce)
  /\ [][which = "tick" => Tape!LimitsAreKept]_pool
=============================================================================
