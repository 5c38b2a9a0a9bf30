--------------------------- MODULE MCReplayViewer ---------------------------
(* The instance of ReplayViewer that TLC checks: traces that end with the  *)
(* fight or before it, one that does not decode, and envelopes that        *)
(* resolve to no manifest.                                                 *)
EXTENDS ReplayViewer

Whole == [decodes |-> TRUE, frames |-> 3, ko |-> 4]
Decided == [decodes |-> TRUE, frames |-> 4, ko |-> 2]

Pasted(id, schema, trace) ==
  [readable |-> TRUE, game |-> id, schema |-> schema, trace |-> trace]

MCEnvelopes ==
  { Pasted("duel", 1, Whole), Pasted("duel", 1, Decided), Pasted("duel", 1, NoTrace),
    Pasted("duel", 2, Whole), Pasted("flight", 1, Whole), Pasted("other", 1, Whole),
    [readable |-> FALSE, game |-> "duel", schema |-> 1, trace |-> Whole] }

(* 120 Hz, 60 Hz and a long hitch, in quarters of a step.                  *)
MCDeltas == {2, 4, 30}
=============================================================================
