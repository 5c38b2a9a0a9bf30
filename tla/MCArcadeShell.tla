--------------------------- MODULE MCArcadeShell ---------------------------
(* The instances of ArcadeShell that TLC checks: a ranked game, which can  *)
(* suspend, and an unranked one.                                           *)
EXTENDS ArcadeShell, TLC

CONSTANTS duel, flight
=============================================================================
