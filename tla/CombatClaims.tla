---------------------------- MODULE CombatClaims ----------------------------
(***************************************************************************)
(* CombatEngine with a history of the block button, for what its design    *)
(* says of taps of the button rather than of counters.                     *)
(***************************************************************************)
EXTENDS CombatEngine

VARIABLE guard  \* frames block has really been held, by side

claimVars == <<fighter, status, events, guard>>

Record(input) ==
  guard' = [s \in Sides |->
              IF input[s].block THEN AtMost(guard[s] + 1, PerfectWindow + 1) ELSE 0]

ClaimInit ==
  /\ Init
  /\ guard = [s \in Sides |-> 0]

ClaimNext ==
  \/ \E input \in [Sides -> Pads], lands \in SUBSET {s \in Sides : ~fighter[s].grounded} :
       LET fs == Ready(input, lands)
       IN \E contacts \in SUBSET {s \in Sides : CanHit(fs, s)} : Step(fs, contacts) /\ Record(input)
  \/ IdleStep /\ UNCHANGED guard

ClaimSpec == ClaimInit /\ [][ClaimNext]_claimVars

-----------------------------------------------------------------------------
(* Properties *)

(* design.md of crypto-fighter-v1, l. 545: a perfect block is "a fresh tap *)
(* of block (within PERFECT_BLOCK_WINDOW frames of impact)"; "a lazy held  *)
(* guard only ever normal-blocks".                                         *)
PerfectBlocksAreFresh ==
  \A e \in events : e.perfect => guard[Other(e.by)] \in 1..PerfectWindow
=============================================================================
