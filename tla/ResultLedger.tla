---------------------------- MODULE ResultLedger ----------------------------
(***************************************************************************)
(* What the verification backend promises its clients, without leases,     *)
(* clocks, retries or crashes: every session has one ledger entry that is  *)
(* decided at most once, only with the verdict of the deterministic        *)
(* replay; a client is answered at most once, is told "accepted" only of a *)
(* submission the entry was decided for, and "rejected" only of one the    *)
(* replay refutes.  VerificationBackend implements this module.            *)
(***************************************************************************)
CONSTANTS Requests,     \* invocations of POST /results
          Sessions,     \* session identifiers
          Submissions,  \* submissions, told apart by their fingerprint
          SessionOf,    \* the session a submission belongs to
          Verdict       \* what replaying the submission's evidence yields

VARIABLES ledger,   \* per session: {} or the set of its one decided entry
          answers   \* per request: {} or the set of its one answer

ledgerVars == <<ledger, answers>>

Entry(sub, ok) == [submission |-> sub, verified |-> ok]

Init ==
  /\ ledger = [s \in Sessions |-> {}]
  /\ answers = [r \in Requests |-> {}]

(* The session's outcome is recorded, once and for all. *)
Decide(sub) ==
  /\ ledger[SessionOf[sub]] = {}
  /\ Verdict[sub] \in {"match", "refuted"}
  /\ ledger' = [ledger EXCEPT ![SessionOf[sub]] = {Entry(sub, Verdict[sub] = "match")}]

(* A client hears a final word about the submission it sent. *)
Answer(r, sub, word) ==
  /\ answers[r] = {}
  /\ word = "accepted" => ledger'[SessionOf[sub]] = {Entry(sub, TRUE)}
  /\ word = "rejected" => Verdict[sub] = "refuted"
  /\ answers' = [answers EXCEPT ![r] = {[about |-> sub, said |-> word]}]

AnswerSome ==
  \E r \in Requests, sub \in Submissions :
    \E word \in {"accepted", "rejected", "undecided"} : Answer(r, sub, word)

(* An entry is decided, a client is answered, or both in one commit. *)
Next ==
  \/ /\ \E sub \in Submissions : Decide(sub)
     /\ UNCHANGED answers
  \/ /\ AnswerSome
     /\ UNCHANGED ledger
  \/ /\ \E sub \in Submissions : Decide(sub)
     /\ AnswerSome

Spec == Init /\ [][Next]_ledgerVars
=============================================================================
