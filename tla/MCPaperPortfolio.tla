-------------------------- MODULE MCPaperPortfolio --------------------------
(***************************************************************************)
(* Two small instances of PaperPortfolio, one of them chosen at the start: *)
(* three lots for two slots over a midnight, and one slot over two days in *)
(* which a weakened signal has to last longer than one look at it, with    *)
(* quotes that stop, hold, peak, give back and take profit.  Or one of two *)
(* instances of the pair account, which shares nothing with it: one asset  *)
(* as a pair or a short and one as a short, over a settlement; and a pair  *)
(* alone over a midnight and two settlements, closed and entered again.    *)
(***************************************************************************)
EXTENDS PaperPortfolio, PairAccount, TLC

CONSTANTS a, b, k1, k2

VARIABLE scope

\* Losses, and gains that are protected.
FewReturns == {-10, 7}
MCReturns  == {-10, 3, 7, 10}
MCHardStop == -10
MCSymmetry == Permutations(Coins)

Days == INSTANCE PaperPortfolio WITH
  TopN <- 1, Returns <- MCReturns

\* The pair account when it only takes pairs, at one price; both books of a
\* pair are then seen in the same rounds.
Single == INSTANCE PairAccount WITH MAX_SHORTS <- 0, SLOT <- 2, Losses <- {}

MCInit == /\ \/ scope \in {"slots", "pairs", "single"} /\ Init
             \/ scope = "days" /\ Days!Init
          /\ PInit /\ (scope \in {"slots", "days"} => venue = "binance")

\* Bounds on the clock of the first, on the lots of the second, and on the
\* rounds of the third.
SlotsUntil == 2
DaysLots   == 2
PairsUntil == 5

MCNext == /\ \/ scope = "slots" /\ Next /\ now' <= SlotsUntil /\ UNCHANGED pvars
             \/ scope = "days" /\ Days!Next /\ serial' <= DaysLots /\ UNCHANGED pvars
             \/ scope = "pairs" /\ (Reopen \/ (round < PairsUntil /\ Round)) /\ UNCHANGED vars
             \/ scope = "single" /\ Single!PNext /\ books'["spot"] = books'["perp"] /\ UNCHANGED vars
          /\ UNCHANGED scope

MCSpec == MCInit /\ [][MCNext]_<<scope, vars, pvars>>

SlotsSpec == /\ scope = "slots" /\ Init /\ PInit
             /\ [][Next /\ UNCHANGED <<scope, pvars>>]_<<scope, vars, pvars>>

=============================================================================
