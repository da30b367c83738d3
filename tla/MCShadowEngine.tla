--------------------------- MODULE MCShadowEngine ---------------------------
(***************************************************************************)
(* Two identifiers.  "a" comes with a second payload that would refresh    *)
(* its expiry and raise its size; "b" with one that lives too long.  The   *)
(* books fill in part or in full, at a gain or at a loss.                  *)
(***************************************************************************)
EXTENDS ShadowEngine

MCIntents == {
  [id |-> "a", created |-> 0, expires |-> 2, notional |-> 100, hold |-> 2],
  [id |-> "a", created |-> 1, expires |-> 3, notional |-> 200, hold |-> 1],
  [id |-> "b", created |-> 1, expires |-> 3, notional |-> 100, hold |-> 1],
  [id |-> "b", created |-> 0, expires |-> 3, notional |-> 100, hold |-> 1] }

MCAsks == { [price |-> 50, size |-> 1], [price |-> 50, size |-> 2] }

MCBids == { [price |-> 20, size |-> 1], [price |-> 60, size |-> 1] }

MCConfigs == {
  [mode |-> "SHADOW", kill |-> FALSE],
  [mode |-> "SHADOW", kill |-> TRUE],
  [mode |-> "DRY_RUN", kill |-> FALSE] }

=============================================================================
