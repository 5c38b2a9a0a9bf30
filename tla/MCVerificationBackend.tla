------------------------ MODULE MCVerificationBackend ------------------------
(* Model values and small functions for checking VerificationBackend. *)
EXTENDS VerificationBackend, TLC

CONSTANTS r1, r2, r3, s1, s2, good, forged, partial, other

(* good and forged compete for the ticket of s1; other belongs to s2. *)
MCSessionOf ==
  [x \in Submissions |-> IF x = other THEN s2 ELSE s1]

MCVerdict ==
  [x \in Submissions |-> CASE x \in {good, other} -> "match"
                           [] x = forged          -> "refuted"
                           [] x = partial         -> "incomplete"]

=============================================================================
