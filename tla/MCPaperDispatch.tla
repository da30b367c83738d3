--------------------------- MODULE MCPaperDispatch ---------------------------
(***************************************************************************)
(* A small instance of PaperDispatch: one one-shot request, one scheduled  *)
(* date, one button and one user.                                          *)
(***************************************************************************)
EXTENDS PaperDispatch, TLC

CONSTANTS s1, d1, t1

MCShotMode    == s1 :> "refill"
MCShotExpires == s1 :> 1
MCWindow      == d1 :> {1}

=============================================================================
