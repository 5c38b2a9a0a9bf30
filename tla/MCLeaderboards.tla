--------------------------- MODULE MCLeaderboards ---------------------------
(* Model values and small functions for checking Leaderboards. *)
EXTENDS Leaderboards, TLC

CONSTANTS r1, r2, r3, s1, s2, s3, first, second, third, forged

(* Three players over three tickets; forged competes for the first one.    *)
MCSessionOf ==
  [x \in Submissions |-> CASE x \in {first, forged} -> s1
                           [] x = second            -> s2
                           [] x = third             -> s3]

MCVerdict == [x \in Submissions |-> IF x = forged THEN "refuted" ELSE "match"]

(* No request differs from another but by what it submits. *)
MCSymmetry == Permutations(Requests)

(* Category 1 is a score, higher is better, with a tie; category 2 is a    *)
(* duration, lower is better.                                              *)
MCOrder == [c \in Categories |-> IF c = 1 THEN "desc" ELSE "asc"]

MCValue ==
  [x \in Submissions |-> [c \in Categories |->
     CASE x = third           -> IF c = 1 THEN 9 ELSE 4
       [] x = second          -> IF c = 1 THEN 7 ELSE 3
       [] x \in {first, forged} -> IF c = 1 THEN 7 ELSE 5]]
=============================================================================
