---------------------- MODULE VerificationServiceProofs ----------------------
(***************************************************************************)
(* Theorems about the result service: VerificationBackend and, on top of   *)
(* it, Leaderboards, for any number of requests, sessions, submissions,    *)
(* categories and values, any time limits, any limit and either store.     *)
(*                                                                         *)
(*   1. The inductive invariant of the backend (InductiveInvariant).       *)
(*   2. The backend implements ResultLedger (ImplementsLedger).            *)
(*   3. Retries never conflict (RetriesNeverConflict).                     *)
(*   4. Ranks and boards (RanksAreWithinTotals, RanksOnlyFall, BoardsAgree). *)
(***************************************************************************)
EXTENDS Leaderboards, FiniteSetTheorems, TLAPS

(***************************************************************************)
(* 1. The backend.  A step of the handler moves one request and changes at *)
(* most one ticket, so the proof that IInv is inductive rests on what such *)
(* a move must respect (RequestMoves, TicketMoves) and then shows each     *)
(* action to be one.                                                       *)
(***************************************************************************)
Backed(sub, rows) == \E row \in rows : row.submission = sub /\ row.verified

(* Request r becomes q: it keeps its submission once it has one, and is    *)
(* placed or answered "accepted" only with its result in the table.        *)
RequestMoves(r, q) ==
  /\ r \in Requests
  /\ q \in Request
  /\ Consistent(q)
  /\ q.stage # "idle"
  /\ requests[r].stage # "idle" => q.submission = requests[r].submission
  /\ q.stage = "placing" => Backed(q.submission, results')
  /\ q.reply = "accepted" => Backed(q.submission, results')
  /\ requests' = [requests EXCEPT ![r] = q]

(* Ticket s becomes t without a result being written. *)
TicketMoves(s, t) ==
  /\ s \in Sessions
  /\ t \in Ticket
  /\ t.status \in {"accepted", "rejected"} => t = tickets[s]
  /\ t.status = "verifying" =>
       /\ t.lease \in Requests
       /\ requests'[t.lease].stage # "idle"
       /\ t.fingerprint = requests'[t.lease].submission
  /\ ~Durable => \A row \in results :
       row.session = s => t.status \in {"accepted", "rejected"}
                            \/ (t.status = "expired" /\ clock > t.expiresAt)
  /\ tickets' = [tickets EXCEPT ![s] = t]

(* A move of one request keeps what IInv says of requests. *)
LEMMA RequestPart ==
  ASSUME IInv, NEW r, NEW q, RequestMoves(r, q), results \subseteq results'
  PROVE  /\ requests' \in [Requests -> Request]
         /\ AcceptedReplyIsBacked'
         /\ RequestsAreConsistent'
         /\ PlacedIsBacked'
         /\ \A x \in Requests : requests[x].stage # "idle" =>
              requests'[x].stage # "idle" /\ requests'[x].submission = requests[x].submission
<1>1. requests \in [Requests -> Request] /\ r \in Requests /\ q \in Request
  BY DEF IInv, TypeOK, RequestMoves
<1>2. requests' = [requests EXCEPT ![r] = q]
  BY DEF RequestMoves
<1>3. \A x \in Requests : requests'[x] = IF x = r THEN q ELSE requests[x]
  BY <1>1, <1>2
<1>4. requests' \in [Requests -> Request]
  BY <1>1, <1>2
<1>5. AcceptedReplyIsBacked'
  BY <1>3 DEF IInv, AcceptedReplyIsBacked, RequestMoves, Backed
<1>6. RequestsAreConsistent'
  BY <1>3 DEF IInv, RequestsAreConsistent, RequestMoves, Consistent
<1>7. PlacedIsBacked'
  BY <1>3 DEF IInv, PlacedIsBacked, RequestMoves, Backed
<1>8. \A x \in Requests : requests[x].stage # "idle" =>
        requests'[x].stage # "idle" /\ requests'[x].submission = requests[x].submission
  BY <1>3 DEF RequestMoves
<1> QED BY <1>4, <1>5, <1>6, <1>7, <1>8

(* A step that moves one request and nothing else keeps IInv. *)
LEMMA QuietStep ==
  ASSUME IInv, NEW r, NEW q, RequestMoves(r, q), UNCHANGED <<clock, tickets, results>>
  PROVE  IInv'
<1>1. /\ requests' \in [Requests -> Request]
      /\ AcceptedReplyIsBacked' /\ RequestsAreConsistent' /\ PlacedIsBacked'
      /\ \A x \in Requests : requests[x].stage # "idle" =>
           requests'[x].stage # "idle" /\ requests'[x].submission = requests[x].submission
  BY RequestPart
<1>2. TypeOK'
  BY <1>1 DEF IInv, TypeOK
<1>3. OneResultPerTicket' /\ ResultsAreReplayed'
  BY DEF IInv, OneResultPerTicket, ResultsAreReplayed
<1>4. TerminalTicketHasItsResult' /\ FinishedInMemory'
  BY DEF IInv, TerminalTicketHasItsResult, FinishedInMemory
<1>5. LeasesNameTheirHolder'
  BY <1>1 DEF IInv, LeasesNameTheirHolder
<1> QED BY <1>1, <1>2, <1>3, <1>4, <1>5 DEF IInv

(* A step that moves one request and one ticket keeps IInv. *)
LEMMA TicketStep ==
  ASSUME IInv, NEW r, NEW q, RequestMoves(r, q), NEW s, NEW t, TicketMoves(s, t),
         UNCHANGED <<clock, results>>
  PROVE  IInv'
<1>1. /\ requests' \in [Requests -> Request]
      /\ AcceptedReplyIsBacked' /\ RequestsAreConsistent' /\ PlacedIsBacked'
      /\ \A x \in Requests : requests[x].stage # "idle" =>
           requests'[x].stage # "idle" /\ requests'[x].submission = requests[x].submission
  BY RequestPart
<1>2. tickets \in [Sessions -> Ticket] /\ results \subseteq Result
  BY DEF IInv, TypeOK
<1>3. \A x \in Sessions : tickets'[x] = IF x = s THEN t ELSE tickets[x]
  BY <1>2 DEF TicketMoves
<1>4. TypeOK'
  BY <1>1, <1>2 DEF IInv, TypeOK, TicketMoves
<1>5. OneResultPerTicket' /\ ResultsAreReplayed'
  BY DEF IInv, OneResultPerTicket, ResultsAreReplayed
<1>6. TerminalTicketHasItsResult'
  BY <1>3 DEF IInv, TerminalTicketHasItsResult, TicketMoves
<1>7. FinishedInMemory'
  <2>1. \A row \in results : row.session \in Sessions
    BY <1>2 DEF Result
  <2> QED BY <1>3, <2>1 DEF IInv, FinishedInMemory, TicketMoves
<1>8. LeasesNameTheirHolder'
  BY <1>1, <1>3 DEF IInv, LeasesNameTheirHolder, TicketMoves
<1> QED BY <1>1, <1>4, <1>5, <1>6, <1>7, <1>8 DEF IInv

-----------------------------------------------------------------------------
(* The moves the handler makes *)

Moved(r, stage) == [requests[r] EXCEPT !.stage = stage]
Answered(r, code) == [requests[r] EXCEPT !.stage = "done", !.reply = code]

(* Facts about a request in the middle of the handler. *)
LEMMA ActiveRequest ==
  ASSUME IInv, NEW r \in Requests, requests[r].stage \notin {"idle", "done"}
  PROVE  /\ requests[r] \in Request
         /\ requests[r].submission \in Submissions
         /\ requests[r].reply = "none"
         /\ requests[r].sampled \in Nat
         /\ Consistent(requests[r])
         /\ Session(r) \in Sessions
         /\ tickets[Session(r)] \in Ticket
BY SubmissionsAssumption
   DEF IInv, TypeOK, RequestsAreConsistent, Consistent, Request, Session

(* An answer is a legal move where its word is covered. *)
LEMMA ReplyMove ==
  ASSUME IInv, NEW r \in Requests, requests[r].stage \notin {"idle", "done"},
         NEW code \in RetryReplies \cup FinalReplies,
         code = "rejected" => Verdict[requests[r].submission] = "refuted",
         code = "accepted" => Backed(requests[r].submission, results'),
         Reply(r, code)
  PROVE  RequestMoves(r, Answered(r, code))
<1> DEFINE q == Answered(r, code)
<1>1. requests[r] \in Request /\ requests[r].submission \in Submissions
  BY ActiveRequest
<1>2. /\ q \in Request
      /\ q.stage = "done" /\ q.reply = code /\ q.submission = requests[r].submission
  BY <1>1 DEF Answered, Request, Stages
<1>3. Consistent(q)
  BY <1>1, <1>2 DEF Consistent
<1>4. requests' = [requests EXCEPT ![r] = q]
  BY DEF Reply, Answered
<1> QED BY <1>2, <1>3, <1>4 DEF RequestMoves

(* Going on to another stage is legal where that stage's condition holds. *)
LEMMA StageMove ==
  ASSUME IInv, NEW r \in Requests, requests[r].stage \notin {"idle", "done"},
         NEW stage \in Stages \ {"idle", "done", "expiring", "reserving"},
         stage = "accepting" => Verdict[requests[r].submission] = "match",
         stage = "rejecting" => Verdict[requests[r].submission] = "refuted",
         stage = "placing" => Backed(requests[r].submission, results'),
         Goto(r, stage)
  PROVE  RequestMoves(r, Moved(r, stage))
<1> DEFINE q == Moved(r, stage)
<1>1. requests[r] \in Request /\ requests[r].submission \in Submissions /\ requests[r].reply = "none"
  BY ActiveRequest
<1>2. /\ q \in Request
      /\ q.stage = stage /\ q.reply = "none" /\ q.submission = requests[r].submission
  BY <1>1 DEF Moved, Request
<1>3. Consistent(q)
  BY <1>1, <1>2 DEF Consistent
<1>4. requests' = [requests EXCEPT ![r] = q]
  BY DEF Goto, Moved
<1> QED BY <1>2, <1>3, <1>4 DEF RequestMoves

(* Either ending of a store call that was to answer with a code. *)
LEMMA ReplyAckMove ==
  ASSUME IInv, NEW r \in Requests, requests[r].stage \notin {"idle", "done"},
         NEW code \in RetryReplies \cup FinalReplies, NEW ack \in BOOLEAN,
         code = "rejected" => Verdict[requests[r].submission] = "refuted",
         code = "accepted" => Backed(requests[r].submission, results'),
         ReplyAck(r, code, ack)
  PROVE  \E q : RequestMoves(r, q)
<1>1. CASE ack
  BY <1>1, ReplyMove DEF ReplyAck
<1>2. CASE ~ack
  BY <1>2, ReplyMove DEF ReplyAck, RetryReplies
<1> QED BY <1>1, <1>2

(* Either ending of a store call that was to go on. *)
LEMMA GotoAckMove ==
  ASSUME IInv, NEW r \in Requests, requests[r].stage \notin {"idle", "done"},
         NEW stage \in {"verifying", "placing"}, NEW ack \in BOOLEAN,
         stage = "placing" => Backed(requests[r].submission, results'),
         GotoAck(r, stage, ack)
  PROVE  \E q : RequestMoves(r, q)
<1>1. CASE ack
  BY <1>1, StageMove DEF GotoAck, Stages
<1>2. CASE ~ack
  BY <1>2, ReplyMove DEF GotoAck, RetryReplies
<1> QED BY <1>1, <1>2

LEMMA AcknowledgedIsBoolean == Acknowledged \in SUBSET BOOLEAN
BY DEF Acknowledged

-----------------------------------------------------------------------------
(* Each action keeps IInv *)

LEMMA TickKeeps == IInv /\ Tick => IInv'
<1> SUFFICES ASSUME IInv, Tick PROVE IInv'
  OBVIOUS
<1>1. TypeOK' /\ clock' = clock + 1
  BY DEF IInv, TypeOK, Tick
<1>2. OneResultPerTicket' /\ ResultsAreReplayed' /\ AcceptedReplyIsBacked' /\ PlacedIsBacked'
  BY DEF IInv, Tick, OneResultPerTicket, ResultsAreReplayed, AcceptedReplyIsBacked, PlacedIsBacked
<1>3. TerminalTicketHasItsResult' /\ LeasesNameTheirHolder' /\ RequestsAreConsistent'
  BY DEF IInv, Tick, TerminalTicketHasItsResult, LeasesNameTheirHolder,
         RequestsAreConsistent, Consistent
<1>4. FinishedInMemory'
  <2>1. results' = results /\ tickets' = tickets /\ clock \in Nat
    BY DEF IInv, TypeOK, Tick
  <2>2. \A row \in results : row.session \in Sessions
    BY DEF IInv, TypeOK, Result
  <2>3. \A x \in Sessions : tickets[x].expiresAt \in Nat
    BY DEF IInv, TypeOK, Ticket
  <2>4. \A x \in Sessions : clock > tickets[x].expiresAt => clock' > tickets[x].expiresAt
    BY <1>1, <2>1, <2>3
  <2> QED BY <2>1, <2>2, <2>4 DEF IInv, FinishedInMemory
<1> QED BY <1>1, <1>2, <1>3, <1>4 DEF IInv

LEMMA IssueTicketKeeps == ASSUME NEW s \in Sessions PROVE IInv /\ IssueTicket(s) => IInv'
<1> SUFFICES ASSUME IInv, IssueTicket(s) PROVE IInv'
  OBVIOUS
<1> DEFINE t == [tickets[s] EXCEPT !.status = "issued", !.expiresAt = clock + TicketTtl]
<1>1. tickets[s] \in Ticket /\ clock \in Nat /\ tickets \in [Sessions -> Ticket]
  BY DEF IInv, TypeOK
<1>a. clock + TicketTtl \in Nat
  BY <1>1, TimeAssumption
<1>2. t \in Ticket /\ t.status = "issued"
  BY <1>1, <1>a DEF Ticket, TicketStatus
<1>3. tickets' = [tickets EXCEPT ![s] = t] /\ tickets[s].status = "absent"
  BY DEF IssueTicket
<1>9. \A x \in Sessions : tickets'[x] = IF x = s THEN t ELSE tickets[x]
  BY <1>1, <1>3
<1>4. TypeOK'
  BY <1>1, <1>2, <1>3 DEF IInv, TypeOK, IssueTicket
<1>5. OneResultPerTicket' /\ ResultsAreReplayed' /\ AcceptedReplyIsBacked' /\ PlacedIsBacked'
  BY DEF IInv, IssueTicket, OneResultPerTicket, ResultsAreReplayed, AcceptedReplyIsBacked,
         PlacedIsBacked
<1> HIDE DEF t
<1>10. RequestsAreConsistent'
  BY DEF IInv, IssueTicket, RequestsAreConsistent, Consistent
<1>6. LeasesNameTheirHolder'
  BY <1>2, <1>9 DEF IInv, IssueTicket, LeasesNameTheirHolder
<1>7. TerminalTicketHasItsResult'
  <2>1. \A x \in Sessions : tickets'[x].status \in {"accepted", "rejected"} =>
          tickets'[x] = tickets[x]
    BY <1>2, <1>9
  <2>2. results' = results
    BY DEF IssueTicket
  <2> QED BY <2>1, <2>2 DEF IInv, TerminalTicketHasItsResult
<1>8. FinishedInMemory'
  <2>1. \A row \in results : row.session \in Sessions
    BY DEF IInv, TypeOK, Result
  <2> QED BY <1>3, <1>9, <2>1 DEF IInv, IssueTicket, FinishedInMemory
<1> QED BY <1>4, <1>5, <1>6, <1>7, <1>8, <1>10 DEF IInv

(* A ticket that keeps its lease or its result stays a legal ticket. *)
LEMMA SameTicketMoves ==
  ASSUME IInv, NEW r, NEW q, RequestMoves(r, q), results' = results,
         NEW s \in Sessions, NEW t \in Ticket,
         \/ t = tickets[s]
         \/ /\ t.status \in {"issued", "expired"}
            /\ tickets[s].status \in {"issued", "verifying"}
         \/ /\ t.status = "expired"
            /\ Durable \/ clock > t.expiresAt,
         tickets' = [tickets EXCEPT ![s] = t]
  PROVE  TicketMoves(s, t)
<1>1. \A x \in Requests : requests[x].stage # "idle" =>
        requests'[x].stage # "idle" /\ requests'[x].submission = requests[x].submission
  BY RequestPart
<1>2. t.status \in {"accepted", "rejected"} => t = tickets[s]
  OBVIOUS
<1>3. t.status = "verifying" =>
        /\ t.lease \in Requests
        /\ requests'[t.lease].stage # "idle"
        /\ t.fingerprint = requests'[t.lease].submission
  BY <1>1 DEF IInv, LeasesNameTheirHolder
<1>4. ~Durable => \A row \in results : row.session = s =>
        t.status \in {"accepted", "rejected"} \/ (t.status = "expired" /\ clock > t.expiresAt)
  BY DEF IInv, FinishedInMemory
<1> QED BY <1>2, <1>3, <1>4 DEF TicketMoves

(* expireTicket keeps a terminal ticket and drops the lease of any other. *)
LEMMA ExpiredTicketFacts ==
  ASSUME NEW t \in Ticket, NEW now \in Nat
  PROVE  /\ ExpiredTicket(t, now) \in Ticket
         /\ \/ ExpiredTicket(t, now) = t
            \/ /\ ExpiredTicket(t, now).status = "expired"
               /\ t.status \in {"issued", "verifying"}
BY DEF ExpiredTicket, Ticket, TicketStatus

LEMMA SubmitKeeps ==
  ASSUME NEW r \in Requests, NEW sub \in Submissions
  PROVE  IInv /\ Submit(r, sub) => IInv'
<1> SUFFICES ASSUME IInv, Submit(r, sub) PROVE IInv'
  OBVIOUS
<1> DEFINE s == SessionOf[sub]
           Arrived(stage, time, code) == [stage |-> stage, submission |-> sub,
                                          sampled |-> time, reply |-> code]
<1>1. clock \in Nat /\ s \in Sessions /\ tickets[s] \in Ticket /\ results' = results
      /\ clock' = clock /\ requests[r].stage = "idle"
  BY SubmissionsAssumption DEF IInv, TypeOK, Submit
<1>2. ASSUME NEW stage \in Stages \ {"idle", "accepting", "rejecting", "placing", "reserving"},
             NEW time \in Nat, NEW code \in {"none", "refused", "ticket_expired"},
             stage = "expiring" => Durable, stage # "done" => code = "none",
             requests' = [requests EXCEPT ![r] = Arrived(stage, time, code)]
      PROVE  RequestMoves(r, Arrived(stage, time, code))
  BY <1>1, <1>2 DEF RequestMoves, Request, Consistent, FinalReplies
<1>3. CASE UNCHANGED tickets
  <2>1. \E q : RequestMoves(r, q)
    <3>1. CASE requests' = [requests EXCEPT ![r] = Arrived("done", 0, "refused")]
      <4>1. RequestMoves(r, Arrived("done", 0, "refused"))
        BY <1>1, <1>2, <3>1 DEF Stages
      <4> QED BY <4>1
    <3>2. CASE requests' = [requests EXCEPT ![r] = Arrived("admitted", 0, "none")]
      <4>1. RequestMoves(r, Arrived("admitted", 0, "none"))
        BY <1>1, <1>2, <3>2 DEF Stages
      <4> QED BY <4>1
    <3>3. CASE Durable /\ requests' = [requests EXCEPT ![r] = Arrived("expiring", clock, "none")]
      <4>1. RequestMoves(r, Arrived("expiring", clock, "none"))
        BY <1>1, <1>2, <3>3 DEF Stages
      <4> QED BY <4>1
    <3>4. CASE requests' = [requests EXCEPT ![r] = Arrived("done", 0, "ticket_expired")]
      <4>1. RequestMoves(r, Arrived("done", 0, "ticket_expired"))
        BY <1>1, <1>2, <3>4 DEF Stages
      <4> QED BY <4>1
    <3> QED BY <3>1, <3>2, <3>3, <3>4, ZenonT(60) DEF Submit
  <2> QED BY <1>1, <1>3, <2>1, QuietStep
<1>4. CASE /\ requests' = [requests EXCEPT ![r] = Arrived("done", 0, "ticket_expired")]
           /\ tickets' = [tickets EXCEPT ![s] = ExpiredTicket(@, clock)]
  <2>1. RequestMoves(r, Arrived("done", 0, "ticket_expired"))
    BY <1>2, <1>4 DEF Stages
  <2>2. TicketMoves(s, ExpiredTicket(tickets[s], clock))
    BY <1>1, <1>4, <2>1, ExpiredTicketFacts, SameTicketMoves
  <2> QED BY <1>1, <2>1, <2>2, TicketStep
<1> QED BY <1>3, <1>4 DEF Submit

LEMMA AskReservationKeeps ==
  ASSUME NEW r \in Requests PROVE IInv /\ AskReservation(r) => IInv'
<1> SUFFICES ASSUME IInv, AskReservation(r) PROVE IInv'
  OBVIOUS
<1> DEFINE q == [requests[r] EXCEPT !.stage = "reserving", !.sampled = clock]
<1>1. requests[r].stage = "admitted" /\ clock \in Nat
  BY DEF AskReservation, IInv, TypeOK
<1>2. requests[r] \in Request /\ requests[r].submission \in Submissions /\ requests[r].reply = "none"
  BY <1>1, ActiveRequest
<1>3. /\ q \in Request
      /\ q.stage = "reserving" /\ q.reply = "none" /\ q.submission = requests[r].submission
  BY <1>1, <1>2 DEF Request, Stages
<1>4. Consistent(q)
  BY <1>2, <1>3 DEF Consistent, AskReservation
<1>5. requests' = [requests EXCEPT ![r] = q]
  BY DEF AskReservation
<1>6. RequestMoves(r, q)
  BY <1>3, <1>4, <1>5 DEF RequestMoves
<1> QED BY <1>6, QuietStep DEF AskReservation

LEMMA VerifyKeeps ==
  ASSUME NEW r \in Requests PROVE IInv /\ Verify(r) => IInv'
<1> SUFFICES ASSUME IInv, Verify(r) PROVE IInv'
  OBVIOUS
<1>1. requests[r].stage = "verifying"
  BY DEF Verify
<1>2. requests[r].submission \in Submissions
  BY <1>1, ActiveRequest
<1>3. Verdict[requests[r].submission] \in Verdicts
  BY <1>2, SubmissionsAssumption
<1>4. CASE Goto(r, StageAfter(Verdict[requests[r].submission]))
  <2>1. CASE Verdict[requests[r].submission] = "match"
    BY <1>1, <1>4, <2>1, StageMove, QuietStep DEF StageAfter, Stages, Verify
  <2>2. CASE Verdict[requests[r].submission] = "refuted"
    BY <1>1, <1>4, <2>2, StageMove, QuietStep DEF StageAfter, Stages, Verify
  <2>3. CASE Verdict[requests[r].submission] = "incomplete"
    BY <1>1, <1>4, <2>3, StageMove, QuietStep DEF StageAfter, Stages, Verify
  <2> QED BY <1>3, <2>1, <2>2, <2>3 DEF Verdicts
<1>5. CASE Goto(r, "releasing")
  BY <1>1, <1>5, StageMove, QuietStep DEF Stages, Verify
<1> QED BY <1>4, <1>5 DEF Verify

LEMMA PlaceAndReplyKeeps ==
  ASSUME NEW r \in Requests PROVE IInv /\ PlaceAndReply(r) => IInv'
<1> SUFFICES ASSUME IInv, PlaceAndReply(r) PROVE IInv'
  OBVIOUS
<1>1. requests[r].stage = "placing" /\ Reply(r, "accepted") /\ UNCHANGED <<clock, tickets, results>>
  BY DEF PlaceAndReply
<1>2. Backed(requests[r].submission, results')
  BY <1>1 DEF IInv, PlacedIsBacked, Backed
<1>3. RequestMoves(r, Answered(r, "accepted"))
  BY <1>1, <1>2, ReplyMove DEF FinalReplies
<1> QED BY <1>1, <1>3, QuietStep

LEMMA StoreFailsKeeps ==
  ASSUME NEW r \in Requests PROVE IInv /\ StoreFails(r) => IInv'
<1> SUFFICES ASSUME IInv, StoreFails(r) PROVE IInv'
  OBVIOUS
<1>1. requests[r].stage \notin {"idle", "done"} /\ Reply(r, "service_unavailable")
  BY DEF StoreFails, StoreStages
<1>2. RequestMoves(r, Answered(r, "service_unavailable"))
  BY <1>1, ReplyMove DEF RetryReplies
<1> QED BY <1>2, QuietStep DEF StoreFails

LEMMA CrashKeeps ==
  ASSUME NEW r \in Requests PROVE IInv /\ Crash(r) => IInv'
<1> SUFFICES ASSUME IInv, Crash(r) PROVE IInv'
  OBVIOUS
<1>1. requests[r].stage \notin {"idle", "done"} /\ Goto(r, "lost")
  BY DEF Crash
<1>2. RequestMoves(r, Moved(r, "lost"))
  BY <1>1, StageMove DEF Stages
<1> QED BY <1>2, QuietStep DEF Crash

LEMMA ExpireTicketKeeps ==
  ASSUME NEW r \in Requests PROVE IInv /\ ExpireTicket(r) => IInv'
<1> SUFFICES ASSUME IInv, ExpireTicket(r) PROVE IInv'
  OBVIOUS
<1>1. /\ requests[r].stage = "expiring"
      /\ tickets' = [tickets EXCEPT ![Session(r)] = ExpiredTicket(@, requests[r].sampled)]
      /\ UNCHANGED <<clock, results>>
  BY DEF ExpireTicket
<1>2. /\ requests[r].sampled \in Nat
      /\ Session(r) \in Sessions /\ tickets[Session(r)] \in Ticket
  BY <1>1, ActiveRequest
<1>3. \E q : RequestMoves(r, q)
  BY <1>1, ReplyAckMove, AcknowledgedIsBoolean DEF ExpireTicket, FinalReplies
<1>4. TicketMoves(Session(r), ExpiredTicket(tickets[Session(r)], requests[r].sampled))
  BY <1>1, <1>2, <1>3, ExpiredTicketFacts, SameTicketMoves
<1> QED BY <1>1, <1>3, <1>4, TicketStep

LEMMA ReleaseKeeps ==
  ASSUME NEW r \in Requests PROVE IInv /\ Release(r) => IInv'
<1> SUFFICES ASSUME IInv, Release(r) PROVE IInv'
  OBVIOUS
<1> DEFINE s == Session(r)
           t == [tickets[s] EXCEPT !.status = "issued", !.lease = NoRequest,
                                   !.leaseUntil = 0, !.fingerprint = NoSubmission]
<1>1. requests[r].stage = "releasing" /\ UNCHANGED <<clock, results>>
  BY DEF Release
<1>2. s \in Sessions /\ tickets[s] \in Ticket
  BY <1>1, ActiveRequest
<1>3. \E q : RequestMoves(r, q)
  BY <1>1, ReplyAckMove, AcknowledgedIsBoolean DEF Release, RetryReplies
<1>4. CASE ~HoldsLease(r)
  BY <1>1, <1>3, <1>4, QuietStep DEF Release
<1>5. CASE HoldsLease(r)
  <2>1. tickets' = [tickets EXCEPT ![s] = t] /\ tickets[s].status = "verifying"
    BY <1>5 DEF Release, HoldsLease
  <2>2. t \in Ticket /\ t.status = "issued"
    BY <1>2 DEF Ticket, TicketStatus
  <2>3. TicketMoves(s, t)
    BY <1>1, <1>2, <1>3, <2>1, <2>2, SameTicketMoves
  <2> QED BY <1>1, <1>3, <2>3, TicketStep
<1> QED BY <1>4, <1>5

(* reserveTicket, with a time that in memory is the current one. *)
LEMMA ReserveTicketKeeps ==
  ASSUME NEW r \in Requests, NEW now \in Nat, IInv,
         requests[r].stage \in {"admitted", "reserving"}, ~Durable => now = clock,
         ReserveTicket(r, now)
  PROVE  IInv'
<1> DEFINE s == Session(r)
           t == tickets[s]
<1>1. requests[r].stage \notin {"idle", "done"} /\ UNCHANGED <<clock, results>>
  BY DEF ReserveTicket
<1>2. s \in Sessions /\ t \in Ticket /\ requests[r].submission \in Submissions
  BY <1>1, ActiveRequest
<1>3. CASE ReserveExpired(r, now)
  <2> DEFINE u == [t EXCEPT !.status = "expired"]
  <2>1. tickets' = [tickets EXCEPT ![s] = u] /\ now > t.expiresAt
    BY <1>3 DEF ReserveExpired
  <2>2. u \in Ticket /\ u.status = "expired" /\ u.expiresAt = t.expiresAt
    BY <1>2 DEF Ticket, TicketStatus
  <2>3. \E q : RequestMoves(r, q)
    BY <1>1, <1>3, ReplyAckMove, AcknowledgedIsBoolean DEF ReserveExpired, FinalReplies
  <2>4. Durable \/ clock > u.expiresAt
    BY <2>1, <2>2
  <2>5. TicketMoves(s, u)
    BY <1>1, <1>2, <2>1, <2>2, <2>3, <2>4, SameTicketMoves
  <2> QED BY <1>1, <2>3, <2>5, TicketStep
<1>4. CASE ReserveTerminal(r, now)
  <2>1. t.status \in {"accepted", "rejected"} /\ tickets' = tickets
    BY <1>4 DEF ReserveTerminal
  <2>2. PICK row \in results : /\ row.session = s /\ row.submission = t.fingerprint
                               /\ row.verified <=> t.status = "accepted"
    BY <1>2, <2>1 DEF IInv, TerminalTicketHasItsResult
  <2>3. /\ t.terminal = t.status
        /\ Verdict[row.submission] = IF row.verified THEN "match" ELSE "refuted"
    BY <1>2, <2>1, <2>2 DEF IInv, TerminalTicketHasItsResult, ResultsAreReplayed
  <2>4. CASE t.fingerprint = requests[r].submission /\ t.terminal = "accepted"
    <3>1. Goto(r, "placing")
      BY <1>4, <2>4 DEF ReserveTerminal
    <3>2. Backed(requests[r].submission, results')
      BY <1>1, <2>2, <2>3, <2>4 DEF Backed
    <3> QED BY <1>1, <2>1, <3>1, <3>2, StageMove, QuietStep DEF Stages
  <2>5. CASE t.fingerprint = requests[r].submission /\ t.terminal = "rejected"
    <3>1. Reply(r, "rejected")
      BY <1>4, <2>5 DEF ReserveTerminal
    <3>2. Verdict[requests[r].submission] = "refuted"
      BY <2>2, <2>3, <2>5
    <3> QED BY <1>1, <2>1, <3>1, <3>2, ReplyMove, QuietStep DEF FinalReplies
  <2>6. CASE t.fingerprint # requests[r].submission
    <3>1. Reply(r, "ticket_conflict")
      BY <1>4, <2>6 DEF ReserveTerminal
    <3> QED BY <1>1, <2>1, <3>1, ReplyMove, QuietStep DEF FinalReplies
  <2> QED BY <2>1, <2>3, <2>4, <2>5, <2>6
<1>5. CASE ReserveBusy(r, now)
  <2>1. tickets' = tickets
    BY <1>5 DEF ReserveBusy
  <2>2. CASE t.fingerprint = requests[r].submission
    <3>1. Reply(r, "submission_in_progress")
      BY <1>5, <2>2 DEF ReserveBusy
    <3> QED BY <1>1, <2>1, <3>1, ReplyMove, QuietStep DEF RetryReplies
  <2>3. CASE t.fingerprint # requests[r].submission
    <3>1. Reply(r, "ticket_conflict")
      BY <1>5, <2>3 DEF ReserveBusy
    <3> QED BY <1>1, <2>1, <3>1, ReplyMove, QuietStep DEF FinalReplies
  <2> QED BY <2>2, <2>3
<1>6. CASE ReserveFree(r, now)
  <2> DEFINE u == [t EXCEPT !.status = "verifying", !.lease = r,
                            !.leaseUntil = now + LeaseTime,
                            !.fingerprint = requests[r].submission]
  <2>1. /\ tickets' = [tickets EXCEPT ![s] = u]
        /\ now <= t.expiresAt /\ t.status \notin {"accepted", "rejected"}
    BY <1>6 DEF ReserveFree
  <2>2. now + LeaseTime \in Nat
    BY TimeAssumption
  <2>3. u \in Ticket /\ u.status = "verifying" /\ u.lease = r
        /\ u.fingerprint = requests[r].submission
    BY <1>2, <2>2 DEF Ticket, TicketStatus
  <2>4. \E q : RequestMoves(r, q)
    BY <1>1, <1>6, GotoAckMove, AcknowledgedIsBoolean DEF ReserveFree
  <2>5. requests'[r].stage # "idle" /\ requests'[r].submission = requests[r].submission
    BY <1>1, <2>4, RequestPart
  <2>6. ~Durable => \A row \in results : row.session # s
    <3>1. t.expiresAt \in Nat /\ clock \in Nat
      BY <1>2 DEF Ticket, IInv, TypeOK
    <3> QED BY <2>1, <3>1 DEF IInv, FinishedInMemory
  <2>7. TicketMoves(s, u)
    <3> HIDE DEF u
    <3> QED BY <1>2, <2>1, <2>3, <2>5, <2>6 DEF TicketMoves
  <2> QED BY <1>1, <2>4, <2>7, TicketStep
<1> QED BY <1>3, <1>4, <1>5, <1>6 DEF ReserveTicket

LEMMA ReserveKeeps ==
  ASSUME NEW r \in Requests PROVE IInv /\ Reserve(r) => IInv'
<1> SUFFICES ASSUME IInv, Reserve(r) PROVE IInv'
  OBVIOUS
<1>1. CASE Durable
  <2>1. requests[r].stage = "reserving" /\ ReserveTicket(r, requests[r].sampled)
    BY <1>1 DEF Reserve
  <2>2. requests[r].sampled \in Nat
    BY <2>1, ActiveRequest DEF Consistent
  <2> QED BY <1>1, <2>1, <2>2, ReserveTicketKeeps
<1>2. CASE ~Durable
  <2>1. requests[r].stage = "admitted" /\ ReserveTicket(r, clock)
    BY <1>2 DEF Reserve
  <2>2. clock \in Nat
    BY DEF IInv, TypeOK
  <2> QED BY <2>1, <2>2, ReserveTicketKeeps
<1> QED BY <1>1, <1>2

(* The holder of the lease writes into a session that has no result yet:   *)
(* durable by the key check, in memory because its ticket is verifying.    *)
LEMMA HolderWritesFirst ==
  ASSUME IInv, NEW r \in Requests, HoldsLease(r), ~KeyTaken(Session(r)),
         Session(r) \in Sessions
  PROVE  \A row \in results : row.session # Session(r)
BY DurableAssumption DEF IInv, FinishedInMemory, HoldsLease, KeyTaken

LEMMA FinalizeStep ==
  ASSUME IInv, NEW r \in Requests, requests[r].stage \notin {"idle", "done"},
         HoldsLease(r), ~KeyTaken(Session(r)),
         NEW outcome \in {"accepted", "rejected"},
         Verdict[requests[r].submission] = IF outcome = "accepted" THEN "match" ELSE "refuted",
         Finalize(r, outcome), NEW q, RequestMoves(r, q), clock' = clock
  PROVE  IInv'
<1> DEFINE s == Session(r)
           new == [session |-> s, submission |-> requests[r].submission,
                   verified |-> outcome = "accepted", writer |-> r]
           u == [tickets[s] EXCEPT !.status = outcome, !.terminal = outcome,
                                   !.lease = IF Durable THEN NoRequest ELSE tickets[s].lease,
                                   !.leaseUntil = IF Durable THEN 0 ELSE tickets[s].leaseUntil]
<1>1. /\ tickets' = [tickets EXCEPT ![s] = u]
      /\ results' = results \cup {new}
  BY DEF Finalize
<1>2. /\ s \in Sessions /\ tickets[s] \in Ticket /\ requests[r].submission \in Submissions
      /\ tickets \in [Sessions -> Ticket] /\ results \subseteq Result
  BY ActiveRequest DEF IInv, TypeOK
<1>3. /\ u \in Ticket /\ u.status = outcome /\ u.terminal = outcome
      /\ u.fingerprint = tickets[s].fingerprint
  BY <1>2 DEF Ticket, TicketStatus
<1>4. tickets[s].fingerprint = requests[r].submission /\ tickets[s].status = "verifying"
  BY <1>2 DEF IInv, LeasesNameTheirHolder, HoldsLease
<1>5. /\ new \in Result /\ new.session = s /\ new.submission = requests[r].submission
      /\ new.verified <=> outcome = "accepted"
  BY <1>2 DEF Result
<1>6. \A row \in results : row.session # s
  BY <1>2, HolderWritesFirst
<1>7. /\ requests' \in [Requests -> Request]
      /\ AcceptedReplyIsBacked' /\ RequestsAreConsistent' /\ PlacedIsBacked'
      /\ \A x \in Requests : requests[x].stage # "idle" =>
           requests'[x].stage # "idle" /\ requests'[x].submission = requests[x].submission
  BY <1>1, RequestPart
<1> HIDE DEF u, new
<1>8. \A x \in Sessions : tickets'[x] = IF x = s THEN u ELSE tickets[x]
  BY <1>1, <1>2
<1>9. TypeOK'
  BY <1>1, <1>2, <1>3, <1>5, <1>7 DEF IInv, TypeOK
<1>10. OneResultPerTicket'
  BY <1>1, <1>5, <1>6 DEF IInv, OneResultPerTicket
<1>11. ResultsAreReplayed'
  BY <1>1, <1>5 DEF IInv, ResultsAreReplayed, Session
<1>12. TerminalTicketHasItsResult'
  <2>1. ASSUME NEW x \in Sessions, tickets'[x].status \in {"accepted", "rejected"}, x # s
        PROVE  /\ tickets'[x].terminal = tickets'[x].status
               /\ \E row \in results' :
                    /\ row.session = x
                    /\ row.submission = tickets'[x].fingerprint
                    /\ row.verified <=> tickets'[x].status = "accepted"
    BY <1>1, <1>8, <2>1 DEF IInv, TerminalTicketHasItsResult
  <2>2. /\ tickets'[s].terminal = tickets'[s].status
        /\ \E row \in results' :
             /\ row.session = s
             /\ row.submission = tickets'[s].fingerprint
             /\ row.verified <=> tickets'[s].status = "accepted"
    BY <1>1, <1>2, <1>3, <1>4, <1>5, <1>8
  <2> QED BY <2>1, <2>2 DEF TerminalTicketHasItsResult
<1>13. FinishedInMemory'
  <2>1. \A row \in results' : row.session \in Sessions
    BY <1>9 DEF TypeOK, Result
  <2> QED BY <1>1, <1>3, <1>5, <1>8, <2>1 DEF IInv, FinishedInMemory
<1>14. LeasesNameTheirHolder'
  BY <1>3, <1>7, <1>8 DEF IInv, LeasesNameTheirHolder
<1> QED BY <1>7, <1>9, <1>10, <1>11, <1>12, <1>13, <1>14 DEF IInv

(* After finalizing "accepted" the request finds its row. *)
LEMMA FinalizedIsBacked ==
  ASSUME NEW r, Finalize(r, "accepted")
  PROVE  Backed(requests[r].submission, results')
<1> DEFINE new == [session |-> Session(r), submission |-> requests[r].submission,
                   verified |-> TRUE, writer |-> r]
<1>1. new \in results'
  BY DEF Finalize
<1> QED BY <1>1 DEF Backed

LEMMA FinalizeAcceptedKeeps ==
  ASSUME NEW r \in Requests PROVE IInv /\ FinalizeAccepted(r) => IInv'
<1> SUFFICES ASSUME IInv, FinalizeAccepted(r) PROVE IInv'
  OBVIOUS
<1>1. requests[r].stage = "accepting" /\ clock' = clock
  BY DEF FinalizeAccepted
<1>2. Verdict[requests[r].submission] = "match"
  BY <1>1, ActiveRequest DEF Consistent
<1>3. CASE Reply(r, "lease_lost") /\ UNCHANGED <<tickets, results>>
  BY <1>1, <1>3, ReplyMove, QuietStep DEF RetryReplies
<1>4. CASE Reply(r, "service_unavailable") /\ UNCHANGED <<tickets, results>>
  BY <1>1, <1>4, ReplyMove, QuietStep DEF RetryReplies
<1>5. ASSUME HoldsLease(r), ~KeyTaken(Session(r)), Finalize(r, "accepted"),
             NEW ack \in Acknowledged, GotoAck(r, "placing", ack)
      PROVE  IInv'
  <2>1. Backed(requests[r].submission, results')
    BY <1>5, FinalizedIsBacked
  <2>2. \E q : RequestMoves(r, q)
    BY <1>1, <1>5, <2>1, GotoAckMove, AcknowledgedIsBoolean
  <2> QED BY <1>1, <1>2, <1>5, <2>2, FinalizeStep
<1> QED BY <1>3, <1>4, <1>5 DEF FinalizeAccepted

LEMMA FinalizeRejectedKeeps ==
  ASSUME NEW r \in Requests PROVE IInv /\ FinalizeRejected(r) => IInv'
<1> SUFFICES ASSUME IInv, FinalizeRejected(r) PROVE IInv'
  OBVIOUS
<1>1. requests[r].stage = "rejecting" /\ clock' = clock
  BY DEF FinalizeRejected
<1>2. Verdict[requests[r].submission] = "refuted"
  BY <1>1, ActiveRequest DEF Consistent
<1>3. CASE Reply(r, "rejected") /\ UNCHANGED <<tickets, results>>
  BY <1>1, <1>2, <1>3, ReplyMove, QuietStep DEF FinalReplies
<1>4. CASE Reply(r, "service_unavailable") /\ UNCHANGED <<tickets, results>>
  BY <1>1, <1>4, ReplyMove, QuietStep DEF RetryReplies
<1>5. ASSUME HoldsLease(r), ~KeyTaken(Session(r)), Finalize(r, "rejected"),
             NEW ack \in Acknowledged, ReplyAck(r, "rejected", ack)
      PROVE  IInv'
  <2>1. \E q : RequestMoves(r, q)
    BY <1>1, <1>2, <1>5, ReplyAckMove, AcknowledgedIsBoolean DEF FinalReplies
  <2> QED BY <1>1, <1>2, <1>5, <2>1, FinalizeStep
<1> QED BY <1>3, <1>4, <1>5 DEF FinalizeRejected

-----------------------------------------------------------------------------
(* The invariant and what it gives *)

LEMMA InitEstablishes == Init => IInv
<1> SUFFICES ASSUME Init PROVE IInv
  OBVIOUS
<1>1. TypeOK
  BY DEF Init, TypeOK, Ticket, TicketStatus, Request, Stages
<1>2. OneResultPerTicket /\ ResultsAreReplayed /\ FinishedInMemory
  BY DEF Init, OneResultPerTicket, ResultsAreReplayed, FinishedInMemory
<1>3. TerminalTicketHasItsResult /\ LeasesNameTheirHolder
  BY DEF Init, TerminalTicketHasItsResult, LeasesNameTheirHolder
<1>4. AcceptedReplyIsBacked /\ RequestsAreConsistent /\ PlacedIsBacked
  BY DEF Init, AcceptedReplyIsBacked, RequestsAreConsistent, Consistent, PlacedIsBacked
<1> QED BY <1>1, <1>2, <1>3, <1>4 DEF IInv

LEMMA NextKeeps == IInv /\ [Next]_vars => IInv'
<1> SUFFICES ASSUME IInv, [Next]_vars PROVE IInv'
  OBVIOUS
<1>1. CASE Tick
  BY <1>1, TickKeeps
<1>2. ASSUME NEW s \in Sessions, IssueTicket(s) PROVE IInv'
  BY <1>2, IssueTicketKeeps
<1>3. ASSUME NEW r \in Requests, NEW sub \in Submissions, Submit(r, sub) PROVE IInv'
  BY <1>3, SubmitKeeps
<1>4. ASSUME NEW r \in Requests, Handle(r) PROVE IInv'
  BY <1>4, ExpireTicketKeeps, AskReservationKeeps, ReserveKeeps, VerifyKeeps,
     ReleaseKeeps, FinalizeAcceptedKeeps, FinalizeRejectedKeeps, PlaceAndReplyKeeps
     DEF Handle
<1>5. ASSUME NEW r \in Requests, StoreFails(r) \/ Crash(r) PROVE IInv'
  BY <1>5, StoreFailsKeeps, CrashKeeps
<1>6. CASE UNCHANGED vars
  BY <1>6 DEF vars, IInv, TypeOK, OneResultPerTicket, ResultsAreReplayed,
     TerminalTicketHasItsResult, AcceptedReplyIsBacked, RequestsAreConsistent, Consistent,
     LeasesNameTheirHolder, PlacedIsBacked, FinishedInMemory
<1> QED BY <1>1, <1>2, <1>3, <1>4, <1>5, <1>6 DEF Next

(* The inductive invariant holds in every reachable state. *)
THEOREM InductiveInvariant == Spec => []IInv
BY InitEstablishes, NextKeeps, PTL DEF Spec

(* Every variable keeps its type. *)
THEOREM TypeCorrect == Spec => []TypeOK
<1>1. IInv => TypeOK
  BY DEF IInv
<1> QED BY <1>1, InductiveInvariant, PTL

(* No session ever holds two results, with or without a primary key.       *)
THEOREM SingleResult == Spec => []OneResultPerTicket
<1>1. IInv => OneResultPerTicket
  BY DEF IInv
<1> QED BY <1>1, InductiveInvariant, PTL

(* Only replayed claims reach the results and the leaderboards.            *)
THEOREM OnlyReplayedResults == Spec => []ResultsAreReplayed
<1>1. IInv => ResultsAreReplayed
  BY DEF IInv
<1> QED BY <1>1, InductiveInvariant, PTL

(* The response a terminal ticket replays is that of its committed result. *)
THEOREM IdempotentTerminal == Spec => []TerminalTicketHasItsResult
<1>1. IInv => TerminalTicketHasItsResult
  BY DEF IInv
<1> QED BY <1>1, InductiveInvariant, PTL

(* Whoever hears "accepted" is on the leaderboard.                         *)
THEOREM AcceptedIsCommitted == Spec => []AcceptedReplyIsBacked
<1>1. IInv => AcceptedReplyIsBacked
  BY DEF IInv
<1> QED BY <1>1, InductiveInvariant, PTL

-----------------------------------------------------------------------------
(***************************************************************************)
(* 2. VerificationBackend implements ResultLedger: seen through ledgerBar  *)
(* and answersBar, each step decides a session once, answers one client,   *)
(* does both in one commit, or stutters.                                   *)
(***************************************************************************)
Mapped == <<ledgerBar, answersBar>>

(* Every handler step moves one request, which has not been answered yet. *)
Alone(r) ==
  /\ requests[r].stage # "done"
  /\ \A x \in Requests : x # r => requests'[x] = requests[x]

LEMMA Unanswered ==
  ASSUME IInv, NEW r \in Requests, requests[r].stage # "done"
  PROVE  requests[r].reply = "none" /\ answersBar[r] = {}
BY DEF IInv, RequestsAreConsistent, Consistent, answersBar

(* An unchanged results table is an unchanged ledger. *)
LEMMA SameLedger ==
  ASSUME results' = results PROVE ledgerBar' = ledgerBar
BY DEF ledgerBar

(* In a write-once table a verified row is the one entry of its session. *)
LEMMA BackedEntry ==
  ASSUME NEW rows, rows \subseteq Result,
         \A x, y \in rows : x.session = y.session => x = y,
         \A x \in rows : x.session = SessionOf[x.submission],
         NEW sub \in Submissions, Backed(sub, rows)
  PROVE  {[submission |-> x.submission, verified |-> x.verified] :
            x \in {y \in rows : y.session = SessionOf[sub]}} = {Ledger!Entry(sub, TRUE)}
<1>1. PICK row \in rows : row.submission = sub /\ row.verified
  BY DEF Backed
<1>2. {x \in rows : x.session = SessionOf[sub]} = {row}
  BY <1>1
<1>3. row.verified = TRUE
  BY <1>1 DEF Result
<1>4. [submission |-> row.submission, verified |-> row.verified] = Ledger!Entry(sub, TRUE)
  BY <1>1, <1>3 DEF Ledger!Entry
<1>5. {[submission |-> x.submission, verified |-> x.verified] : x \in {row}}
        = {Ledger!Entry(sub, TRUE)}
  BY <1>4
<1> QED BY <1>2, <1>5

(* What a request that is now answered has heard. *)
LEMMA AnswerHeard ==
  ASSUME IInv, IInv', NEW r \in Requests, Alone(r), requests'[r].reply # "none"
  PROVE  Ledger!AnswerSome
<1> DEFINE q == requests'[r]
           word == Word(q.reply)
<1>1. answersBar[r] = {}
  BY Unanswered DEF Alone
<1>2. q \in Request /\ Consistent(q) /\ q.stage = "done" /\ q.submission \in Submissions
  BY DEF IInv, TypeOK, RequestsAreConsistent, Consistent
<1>3. word \in {"accepted", "rejected", "undecided"}
  BY DEF Word
<1>4. ASSUME word = "accepted"
      PROVE  ledgerBar'[SessionOf[q.submission]] = {Ledger!Entry(q.submission, TRUE)}
  <2>1. q.reply = "accepted"
    BY <1>4 DEF Word
  <2>2. Backed(q.submission, results')
    BY <2>1 DEF IInv, AcceptedReplyIsBacked, Backed
  <2>3. /\ results' \subseteq Result
        /\ \A x, y \in results' : x.session = y.session => x = y
        /\ \A x \in results' : x.session = SessionOf[x.submission]
    BY DEF IInv, TypeOK, OneResultPerTicket, ResultsAreReplayed
  <2>4. {[submission |-> x.submission, verified |-> x.verified] :
           x \in {y \in results' : y.session = SessionOf[q.submission]}}
          = {Ledger!Entry(q.submission, TRUE)}
    BY <1>2, <2>2, <2>3, BackedEntry
  <2>5. SessionOf[q.submission] \in Sessions
    BY <1>2, SubmissionsAssumption
  <2> QED BY <2>4, <2>5 DEF ledgerBar
<1>5. ASSUME word = "rejected" PROVE Verdict[q.submission] = "refuted"
  <2>1. q.reply = "rejected"
    BY <1>5 DEF Word
  <2> QED BY <1>2, <2>1 DEF Consistent
<1>6. answersBar' = [answersBar EXCEPT ![r] = {[about |-> q.submission, said |-> word]}]
  BY DEF answersBar, Alone
<1>7. Ledger!Answer(r, q.submission, word)
  BY <1>1, <1>4, <1>5, <1>6 DEF Ledger!Answer
<1> QED BY <1>2, <1>3, <1>7 DEF Ledger!AnswerSome

(* A request that stays unanswered changes no answer. *)
LEMMA StillSilent ==
  ASSUME IInv, NEW r \in Requests, Alone(r), requests'[r].reply = "none"
  PROVE  answersBar' = answersBar
<1>1. requests[r].reply = "none"
  BY Unanswered DEF Alone
<1> QED BY <1>1 DEF answersBar, Alone

(* A step that writes no result answers one client or stutters. *)
LEMMA QuietRefines ==
  ASSUME IInv, IInv', NEW r \in Requests, Alone(r), results' = results
  PROVE  [Ledger!Next]_Mapped
<1>1. ledgerBar' = ledgerBar
  BY SameLedger
<1>2. CASE requests'[r].reply = "none"
  BY <1>1, <1>2, StillSilent DEF Mapped
<1>3. CASE requests'[r].reply # "none"
  BY <1>1, <1>3, AnswerHeard DEF Ledger!Next
<1> QED BY <1>2, <1>3

(* The commit of a holder decides its session. *)
LEMMA FinalizeDecides ==
  ASSUME IInv, NEW r \in Requests, requests[r].stage \notin {"idle", "done"},
         HoldsLease(r), ~KeyTaken(Session(r)),
         NEW outcome \in {"accepted", "rejected"},
         Verdict[requests[r].submission] = IF outcome = "accepted" THEN "match" ELSE "refuted",
         Finalize(r, outcome)
  PROVE  Ledger!Decide(requests[r].submission)
<1> DEFINE s == Session(r)
           sub == requests[r].submission
           new == [session |-> s, submission |-> sub,
                   verified |-> outcome = "accepted", writer |-> r]
           At(rows, x) == {row \in rows : row.session = x}
           Seen(rows) == {[submission |-> row.submission, verified |-> row.verified] : row \in rows}
<1>1. s \in Sessions /\ sub \in Submissions /\ s = SessionOf[sub]
  BY ActiveRequest DEF Session
<1>2. results' = results \cup {new}
  BY DEF Finalize
<1>3. \A row \in results : row.session # s
  BY <1>1, HolderWritesFirst
<1>4. /\ At(results, s) = {}
      /\ At(results', s) = {new}
      /\ \A x \in Sessions : x # s => At(results', x) = At(results, x)
  BY <1>2, <1>3
<1>5. /\ ledgerBar[s] = {}
      /\ ledgerBar'[s] = Seen({new})
      /\ \A x \in Sessions : x # s => ledgerBar'[x] = ledgerBar[x]
  BY <1>1, <1>4 DEF ledgerBar
<1>6. Seen({new}) = {Ledger!Entry(sub, outcome = "accepted")}
  BY DEF Ledger!Entry
<1>7. (outcome = "accepted") = (Verdict[sub] = "match")
  OBVIOUS
<1>8. ledgerBar'[s] = {Ledger!Entry(sub, Verdict[sub] = "match")}
  BY <1>5, <1>6, <1>7
<1>9. ledgerBar' = [ledgerBar EXCEPT ![s] = {Ledger!Entry(sub, Verdict[sub] = "match")}]
  <2> HIDE DEF s, sub, Seen
  <2>1. /\ DOMAIN ledgerBar = Sessions /\ DOMAIN ledgerBar' = Sessions
        /\ ledgerBar = [x \in Sessions |-> ledgerBar[x]]
        /\ ledgerBar' = [x \in Sessions |-> ledgerBar'[x]]
    BY DEF ledgerBar
  <2> QED BY <1>1, <1>5, <1>8, <2>1
<1> QED BY <1>1, <1>5, <1>9 DEF Ledger!Decide

LEMMA FinalizeRefines ==
  ASSUME IInv, IInv', NEW r \in Requests, Alone(r), Ledger!Decide(requests[r].submission),
         requests[r].submission \in Submissions
  PROVE  [Ledger!Next]_Mapped
<1>1. CASE requests'[r].reply = "none"
  BY <1>1, StillSilent DEF Ledger!Next
<1>2. CASE requests'[r].reply # "none"
  BY <1>2, AnswerHeard DEF Ledger!Next
<1> QED BY <1>1, <1>2

-----------------------------------------------------------------------------
(* Each action moves one request that has not been answered. *)

LEMMA GotoAlone ==
  ASSUME IInv, NEW r \in Requests, requests[r].stage # "done", NEW stage, Goto(r, stage)
  PROVE  Alone(r)
BY DEF IInv, TypeOK, Goto, Alone

LEMMA ReplyAlone ==
  ASSUME IInv, NEW r \in Requests, requests[r].stage # "done", NEW code, Reply(r, code)
  PROVE  Alone(r)
BY DEF IInv, TypeOK, Reply, Alone

LEMMA AckAlone ==
  ASSUME IInv, NEW r \in Requests, requests[r].stage # "done", NEW word, NEW ack,
         GotoAck(r, word, ack) \/ ReplyAck(r, word, ack)
  PROVE  Alone(r)
BY GotoAlone, ReplyAlone DEF GotoAck, ReplyAck

LEMMA ReserveAlone ==
  ASSUME IInv, NEW r \in Requests, requests[r].stage # "done", NEW now, ReserveTicket(r, now)
  PROVE  Alone(r) /\ results' = results
<1>1. results' = results
  BY DEF ReserveTicket
<1>2. CASE ReserveExpired(r, now)
  BY <1>1, <1>2, AckAlone DEF ReserveExpired
<1>3. CASE ReserveTerminal(r, now)
  BY <1>1, <1>3, GotoAlone, ReplyAlone DEF ReserveTerminal
<1>4. CASE ReserveBusy(r, now)
  BY <1>1, <1>4, ReplyAlone DEF ReserveBusy
<1>5. CASE ReserveFree(r, now)
  BY <1>1, <1>5, AckAlone DEF ReserveFree
<1> QED BY <1>1, <1>2, <1>3, <1>4, <1>5 DEF ReserveTicket

LEMMA SubmitAlone ==
  ASSUME IInv, NEW r \in Requests, NEW sub \in Submissions, Submit(r, sub)
  PROVE  Alone(r) /\ results' = results
<1>1. requests[r].stage = "idle" /\ results' = results
  BY DEF Submit
<1>2. \E q : requests' = [requests EXCEPT ![r] = q]
  BY DEF Submit
<1>3. requests \in [Requests -> Request]
  BY DEF IInv, TypeOK
<1> QED BY <1>1, <1>2, <1>3 DEF Alone

(* The handler steps that never write a result. *)
LEMMA HandleAlone ==
  ASSUME IInv, NEW r \in Requests,
         \/ ExpireTicket(r) \/ AskReservation(r) \/ Reserve(r)
         \/ Verify(r) \/ Release(r) \/ PlaceAndReply(r) \/ StoreFails(r) \/ Crash(r)
  PROVE  Alone(r) /\ results' = results
<1>1. CASE ExpireTicket(r)
  BY <1>1, AckAlone DEF ExpireTicket
<1>2. CASE AskReservation(r)
  BY <1>2 DEF AskReservation, Alone, IInv, TypeOK
<1>3. CASE Reserve(r)
  BY <1>3, ReserveAlone DEF Reserve
<1>5. CASE Verify(r)
  BY <1>5, GotoAlone DEF Verify
<1>6. CASE Release(r)
  BY <1>6, AckAlone DEF Release
<1>7. CASE PlaceAndReply(r)
  BY <1>7, ReplyAlone DEF PlaceAndReply
<1>8. CASE StoreFails(r)
  BY <1>8, ReplyAlone DEF StoreFails, StoreStages
<1>9. CASE Crash(r)
  BY <1>9, GotoAlone DEF Crash
<1> QED BY <1>1, <1>2, <1>3, <1>5, <1>6, <1>7, <1>8, <1>9

LEMMA FinalizeAcceptedRefines ==
  ASSUME IInv, IInv', NEW r \in Requests, FinalizeAccepted(r)
  PROVE  [Ledger!Next]_Mapped
<1>1. requests[r].stage = "accepting"
  BY DEF FinalizeAccepted
<1>2. requests[r].submission \in Submissions /\ Verdict[requests[r].submission] = "match"
  BY <1>1, ActiveRequest DEF Consistent
<1>3. CASE Reply(r, "lease_lost") /\ UNCHANGED <<tickets, results>>
  BY <1>1, <1>3, ReplyAlone, QuietRefines
<1>4. CASE Reply(r, "service_unavailable") /\ UNCHANGED <<tickets, results>>
  BY <1>1, <1>4, ReplyAlone, QuietRefines
<1>5. ASSUME HoldsLease(r), ~KeyTaken(Session(r)), Finalize(r, "accepted"),
             NEW ack \in Acknowledged, GotoAck(r, "placing", ack)
      PROVE  [Ledger!Next]_Mapped
  <2>1. Alone(r)
    BY <1>1, <1>5, AckAlone
  <2>2. Ledger!Decide(requests[r].submission)
    BY <1>1, <1>2, <1>5, FinalizeDecides
  <2> QED BY <1>2, <2>1, <2>2, FinalizeRefines
<1> QED BY <1>3, <1>4, <1>5 DEF FinalizeAccepted

LEMMA FinalizeRejectedRefines ==
  ASSUME IInv, IInv', NEW r \in Requests, FinalizeRejected(r)
  PROVE  [Ledger!Next]_Mapped
<1>1. requests[r].stage = "rejecting"
  BY DEF FinalizeRejected
<1>2. requests[r].submission \in Submissions /\ Verdict[requests[r].submission] = "refuted"
  BY <1>1, ActiveRequest DEF Consistent
<1>3. CASE Reply(r, "rejected") /\ UNCHANGED <<tickets, results>>
  BY <1>1, <1>3, ReplyAlone, QuietRefines
<1>4. CASE Reply(r, "service_unavailable") /\ UNCHANGED <<tickets, results>>
  BY <1>1, <1>4, ReplyAlone, QuietRefines
<1>5. ASSUME HoldsLease(r), ~KeyTaken(Session(r)), Finalize(r, "rejected"),
             NEW ack \in Acknowledged, ReplyAck(r, "rejected", ack)
      PROVE  [Ledger!Next]_Mapped
  <2>1. Alone(r)
    BY <1>1, <1>5, AckAlone
  <2>2. Ledger!Decide(requests[r].submission)
    BY <1>1, <1>2, <1>5, FinalizeDecides
  <2> QED BY <1>2, <2>1, <2>2, FinalizeRefines
<1> QED BY <1>3, <1>4, <1>5 DEF FinalizeRejected

(* Initially no session is decided and no client answered. *)
LEMMA InitRefines == Init => Ledger!Init
BY DEF Init, Ledger!Init, ledgerBar, answersBar

LEMMA NextRefines == IInv /\ IInv' /\ [Next]_vars => [Ledger!Next]_Mapped
<1> SUFFICES ASSUME IInv, IInv', [Next]_vars PROVE [Ledger!Next]_Mapped
  OBVIOUS
<1>1. ASSUME results' = results, requests' = requests PROVE Mapped' = Mapped
  BY <1>1 DEF Mapped, ledgerBar, answersBar
<1>2. CASE Tick \/ UNCHANGED vars \/ \E s \in Sessions : IssueTicket(s)
  BY <1>1, <1>2 DEF Tick, IssueTicket, vars
<1>3. ASSUME NEW r \in Requests, NEW sub \in Submissions, Submit(r, sub)
      PROVE  [Ledger!Next]_Mapped
  BY <1>3, SubmitAlone, QuietRefines
<1>4. ASSUME NEW r \in Requests, Handle(r) \/ StoreFails(r) \/ Crash(r)
      PROVE  [Ledger!Next]_Mapped
  <2>1. CASE FinalizeAccepted(r)
    BY <2>1, FinalizeAcceptedRefines
  <2>2. CASE FinalizeRejected(r)
    BY <2>2, FinalizeRejectedRefines
  <2>3. CASE ~FinalizeAccepted(r) /\ ~FinalizeRejected(r)
    <3>1. Alone(r) /\ results' = results
      BY <1>4, <2>3, HandleAlone DEF Handle
    <3> QED BY <3>1, QuietRefines
  <2> QED BY <2>1, <2>2, <2>3
<1> QED BY <1>2, <1>3, <1>4 DEF Next

(* The handler over either store implements the write-once ledger: leases, *)
(* retries, clock races and crashes show only as undecided answers.        *)
THEOREM ImplementsLedger == Spec => LedgerSpec
<1>1. Mapped = Ledger!ledgerVars
  BY DEF Mapped, Ledger!ledgerVars
<1>2. Init => Ledger!Init
  BY InitRefines
<1>3. IInv /\ IInv' /\ [Next]_vars => [Ledger!Next]_(Ledger!ledgerVars)
  BY NextRefines DEF Mapped, Ledger!ledgerVars
<1> QED BY <1>2, <1>3, InductiveInvariant, PTL DEF Spec, LedgerSpec, Ledger!Spec

-----------------------------------------------------------------------------
(***************************************************************************)
(* 3. Retries of one submission never answer each other "ticket_conflict". *)
(* The answer is given for a fingerprint found on the ticket, so the proof *)
(* follows fingerprints back to the request that put them there: the holder *)
(* of the lease, or the writer of the committed result.                    *)
(***************************************************************************)
(* The writer of a result is a request with the result's submission. *)
WritersAreKnown ==
  \A row \in results :
     /\ requests[row.writer].stage # "idle"
     /\ requests[row.writer].submission = row.submission

(* A reservation is for a submission of the ticket's own session. *)
LeasesAreOfTheirSession ==
  \A s \in Sessions :
     tickets[s].status = "verifying" => SessionOf[tickets[s].fingerprint] = s

RetryInv == WritersAreKnown /\ LeasesAreOfTheirSession /\ IdenticalRetriesNeverConflict

(* The submission q of another request contests the session of r. *)
Contested(r) ==
  \E q \in Requests : /\ requests[q].stage # "idle"
                      /\ requests[q].submission # requests[r].submission
                      /\ Session(q) = Session(r)

Progress(r) ==
  /\ requests'[r].stage # "idle"
  /\ requests[r].stage # "idle" => requests'[r].submission = requests[r].submission
  /\ requests'[r].reply = "ticket_conflict" => requests[r].stage # "idle" /\ Contested(r)

NewRowsAreOf(r) ==
  \A row \in results' :
     row \in results \/ (row.writer = r /\ row.submission = requests'[r].submission)

LeasesStay ==
  \A s \in Sessions : tickets'[s].status = "verifying" =>
     \/ tickets[s].status = "verifying" /\ tickets'[s].fingerprint = tickets[s].fingerprint
     \/ SessionOf[tickets'[s].fingerprint] = s

(* A step of one request that contests only what is contested. *)
LEMMA ProgressKeeps ==
  ASSUME IInv, RetryInv, NEW r \in Requests, Alone(r), Progress(r), NewRowsAreOf(r), LeasesStay
  PROVE  RetryInv'
<1>1. \A x \in Requests : requests[x].stage # "idle" =>
        requests'[x].stage # "idle" /\ requests'[x].submission = requests[x].submission
  BY DEF Alone, Progress
<1>2. \A row \in results : row.writer \in Requests
  BY DEF IInv, TypeOK, Result
<1>3. WritersAreKnown'
  BY <1>1, <1>2 DEF RetryInv, WritersAreKnown, NewRowsAreOf, Progress
<1>4. LeasesAreOfTheirSession'
  BY DEF RetryInv, LeasesAreOfTheirSession, LeasesStay
<1>5. ASSUME NEW x \in Requests, requests'[x].reply = "ticket_conflict"
      PROVE  /\ requests[x].stage # "idle"
             /\ Contested(x)
  <2>1. CASE x = r
    BY <1>5, <2>1 DEF Progress
  <2>2. CASE x # r
    <3>1. requests[x].reply = "ticket_conflict"
      BY <1>5, <2>2 DEF Alone
    <3>2. requests[x].stage # "idle"
      BY <3>1 DEF IInv, RequestsAreConsistent, Consistent
    <3> QED BY <3>1, <3>2 DEF RetryInv, IdenticalRetriesNeverConflict, Contested
  <2> QED BY <2>1, <2>2
<1>6. IdenticalRetriesNeverConflict'
  <2> SUFFICES ASSUME NEW x \in Requests, requests'[x].reply = "ticket_conflict"
               PROVE  \E q \in Requests : /\ requests'[q].stage # "idle"
                                          /\ requests'[q].submission # requests'[x].submission
                                          /\ Session(q)' = Session(x)'
    BY DEF IdenticalRetriesNeverConflict
  <2>1. requests[x].stage # "idle" /\ Contested(x)
    BY <1>5
  <2>2. PICK q \in Requests : /\ requests[q].stage # "idle"
                              /\ requests[q].submission # requests[x].submission
                              /\ Session(q) = Session(x)
    BY <2>1 DEF Contested
  <2> QED BY <1>1, <2>1, <2>2 DEF Session
<1> QED BY <1>3, <1>4, <1>6 DEF RetryInv

-----------------------------------------------------------------------------
(* The moves of the handler as progress *)

LEMMA GotoProgress ==
  ASSUME IInv, NEW r \in Requests, requests[r].stage \notin {"idle", "done"},
         NEW stage, stage # "idle", Goto(r, stage)
  PROVE  Progress(r) /\ requests'[r].submission = requests[r].submission
<1>1. requests[r].reply = "none" /\ requests \in [Requests -> Request] /\ requests[r] \in Request
  BY ActiveRequest DEF IInv, TypeOK
<1>2. requests'[r] = [requests[r] EXCEPT !.stage = stage]
  BY <1>1 DEF Goto
<1>3. /\ requests'[r].stage = stage
      /\ requests'[r].submission = requests[r].submission
      /\ requests'[r].reply = "none"
  BY <1>1, <1>2 DEF Request
<1> QED BY <1>3 DEF Progress

LEMMA ReplyProgress ==
  ASSUME IInv, NEW r \in Requests, requests[r].stage \notin {"idle", "done"},
         NEW code, code = "ticket_conflict" => Contested(r), Reply(r, code)
  PROVE  Progress(r) /\ requests'[r].submission = requests[r].submission
<1>1. requests \in [Requests -> Request] /\ requests[r] \in Request
  BY ActiveRequest DEF IInv, TypeOK
<1>2. requests'[r] = [requests[r] EXCEPT !.stage = "done", !.reply = code]
  BY <1>1 DEF Reply
<1>3. /\ requests'[r].stage = "done"
      /\ requests'[r].submission = requests[r].submission
      /\ requests'[r].reply = code
  BY <1>1, <1>2 DEF Request
<1> QED BY <1>3 DEF Progress

LEMMA AckProgress ==
  ASSUME IInv, NEW r \in Requests, requests[r].stage \notin {"idle", "done"}, NEW ack,
         NEW word, word \notin {"idle", "ticket_conflict"},
         GotoAck(r, word, ack) \/ ReplyAck(r, word, ack)
  PROVE  Progress(r) /\ requests'[r].submission = requests[r].submission
BY GotoProgress, ReplyProgress DEF GotoAck, ReplyAck

LEMMA Unwritten ==
  ASSUME results' = results PROVE \A r : NewRowsAreOf(r)
BY DEF NewRowsAreOf

LEMMA Untouched ==
  ASSUME tickets' = tickets PROVE LeasesStay
BY DEF LeasesStay

LEMMA OneTicket ==
  ASSUME IInv, NEW s \in Sessions, NEW t, tickets' = [tickets EXCEPT ![s] = t],
         t.status = "verifying" =>
           \/ tickets[s].status = "verifying" /\ t.fingerprint = tickets[s].fingerprint
           \/ SessionOf[t.fingerprint] = s
  PROVE  LeasesStay
BY DEF IInv, TypeOK, LeasesStay

LEMMA OneExpires ==
  ASSUME IInv, NEW s \in Sessions,
         \/ \E now : tickets' = [tickets EXCEPT ![s] = ExpiredTicket(@, now)]
         \/ tickets' = [tickets EXCEPT ![s].status = "expired"]
  PROVE  LeasesStay
<1>1. tickets \in [Sessions -> Ticket] /\ tickets[s] \in Ticket
  BY DEF IInv, TypeOK
<1>2. ASSUME NEW now, tickets' = [tickets EXCEPT ![s] = ExpiredTicket(@, now)]
      PROVE  LeasesStay
  <2> DEFINE t == ExpiredTicket(tickets[s], now)
  <2>1. t.status = "verifying" => t = tickets[s]
    BY <1>1 DEF ExpiredTicket, Ticket
  <2> QED BY <1>2, <2>1, OneTicket
<1>3. CASE tickets' = [tickets EXCEPT ![s].status = "expired"]
  <2> DEFINE t == [tickets[s] EXCEPT !.status = "expired"]
  <2>1. t.status = "expired"
    BY <1>1 DEF Ticket
  <2> QED BY <1>3, <2>1, OneTicket
<1> QED BY <1>2, <1>3

(* A conflict is answered only where another submission holds the ticket. *)
LEMMA HolderContests ==
  ASSUME IInv, RetryInv, NEW r \in Requests, requests[r].stage \notin {"idle", "done"},
         tickets[Session(r)].status = "verifying",
         tickets[Session(r)].fingerprint # requests[r].submission
  PROVE  Contested(r)
<1> DEFINE s == Session(r)
           q == tickets[s].lease
<1>1. s \in Sessions
  BY ActiveRequest
<1>2. /\ q \in Requests /\ requests[q].stage # "idle"
      /\ requests[q].submission = tickets[s].fingerprint
  BY <1>1 DEF IInv, LeasesNameTheirHolder
<1>3. Session(q) = s
  BY <1>1, <1>2 DEF RetryInv, LeasesAreOfTheirSession, Session
<1> QED BY <1>2, <1>3 DEF Contested

LEMMA WriterContests ==
  ASSUME IInv, RetryInv, NEW r \in Requests, requests[r].stage \notin {"idle", "done"},
         tickets[Session(r)].status \in {"accepted", "rejected"},
         \/ tickets[Session(r)].fingerprint # requests[r].submission
         \/ tickets[Session(r)].terminal = "none"
  PROVE  Contested(r)
<1> DEFINE s == Session(r)
<1>1. s \in Sessions
  BY ActiveRequest
<1>2. tickets[s].terminal = tickets[s].status
  BY <1>1 DEF IInv, TerminalTicketHasItsResult
<1>3. tickets[s].fingerprint # requests[r].submission
  BY <1>2
<1>4. PICK row \in results : row.session = s /\ row.submission = tickets[s].fingerprint
  BY <1>1 DEF IInv, TerminalTicketHasItsResult
<1>5. /\ row.writer \in Requests /\ requests[row.writer].stage # "idle"
      /\ requests[row.writer].submission = row.submission
      /\ SessionOf[row.submission] = s
  BY <1>4 DEF IInv, TypeOK, Result, RetryInv, WritersAreKnown, ResultsAreReplayed
<1> QED BY <1>3, <1>4, <1>5 DEF Contested, Session

LEMMA ReserveRetry ==
  ASSUME IInv, RetryInv, NEW r \in Requests, requests[r].stage \notin {"idle", "done"},
         NEW now, ReserveTicket(r, now)
  PROVE  RetryInv'
<1>1. Session(r) \in Sessions /\ tickets[Session(r)] \in Ticket
  BY ActiveRequest
<1>2. Alone(r) /\ NewRowsAreOf(r)
  BY ReserveAlone, Unwritten
<1>3. CASE ReserveExpired(r, now)
  <2>1. LeasesStay
    BY <1>1, <1>3, OneExpires DEF ReserveExpired
  <2>2. Progress(r)
    BY <1>3, AckProgress DEF ReserveExpired
  <2> QED BY <1>2, <2>1, <2>2, ProgressKeeps
<1>4. CASE ReserveTerminal(r, now)
  <2>1. LeasesStay
    BY <1>4, Untouched DEF ReserveTerminal
  <2>2. Progress(r)
    <3>1. CASE Goto(r, "placing")
      BY <3>1, GotoProgress
    <3>2. CASE Reply(r, "rejected")
      BY <3>2, ReplyProgress
    <3>3. CASE /\ Reply(r, "ticket_conflict")
               /\ \/ tickets[Session(r)].fingerprint # requests[r].submission
                  \/ tickets[Session(r)].terminal = "none"
      <4>1. Contested(r)
        BY <1>4, <3>3, WriterContests DEF ReserveTerminal
      <4> QED BY <3>3, <4>1, ReplyProgress
    <3> QED BY <1>4, <3>1, <3>2, <3>3 DEF ReserveTerminal
  <2> QED BY <1>2, <2>1, <2>2, ProgressKeeps
<1>5. CASE ReserveBusy(r, now)
  <2>1. LeasesStay
    BY <1>5, Untouched DEF ReserveBusy
  <2>2. tickets[Session(r)].status = "verifying"
    BY <1>5 DEF ReserveBusy, LeaseIsLive
  <2>3. CASE tickets[Session(r)].fingerprint = requests[r].submission
    <3>1. Reply(r, "submission_in_progress")
      BY <1>5, <2>3 DEF ReserveBusy
    <3>2. Progress(r)
      BY <3>1, ReplyProgress
    <3> QED BY <1>2, <2>1, <3>2, ProgressKeeps
  <2>4. CASE tickets[Session(r)].fingerprint # requests[r].submission
    <3>1. Contested(r)
      BY <2>2, <2>4, HolderContests
    <3>2. Reply(r, "ticket_conflict")
      BY <1>5, <2>4 DEF ReserveBusy
    <3>3. Progress(r)
      BY <3>1, <3>2, ReplyProgress
    <3> QED BY <1>2, <2>1, <3>3, ProgressKeeps
  <2> QED BY <2>3, <2>4
<1>6. CASE ReserveFree(r, now)
  <2> DEFINE t == [tickets[Session(r)] EXCEPT !.status = "verifying", !.lease = r,
                       !.leaseUntil = now + LeaseTime, !.fingerprint = requests[r].submission]
  <2>1. t.fingerprint = requests[r].submission
    BY <1>1 DEF Ticket
  <2>2. SessionOf[t.fingerprint] = Session(r)
    BY <2>1 DEF Session
  <2>3. tickets' = [tickets EXCEPT ![Session(r)] = t]
    BY <1>6 DEF ReserveFree
  <2> HIDE DEF t
  <2>4. LeasesStay
    BY <1>1, <2>2, <2>3, OneTicket
  <2>5. Progress(r)
    BY <1>6, AckProgress DEF ReserveFree
  <2> QED BY <1>2, <2>4, <2>5, ProgressKeeps
<1> QED BY <1>3, <1>4, <1>5, <1>6 DEF ReserveTicket

LEMMA SubmitRetry ==
  ASSUME IInv, RetryInv, NEW r \in Requests, NEW sub \in Submissions, Submit(r, sub)
  PROVE  RetryInv'
<1>1. Alone(r) /\ results' = results /\ requests[r].stage = "idle"
  BY SubmitAlone DEF Submit
<1>2. requests'[r].stage # "idle" /\ requests'[r].reply # "ticket_conflict"
  <2>1. requests \in [Requests -> Request]
    BY DEF IInv, TypeOK
  <2> DEFINE new == [stage |-> "admitted", submission |-> sub, sampled |-> 0, reply |-> "none"]
             Becomes(q) == /\ requests' = [requests EXCEPT ![r] = q]
                         /\ q.stage # "idle" /\ q.reply # "ticket_conflict"
  <2>2. \/ Becomes([new EXCEPT !.stage = "done", !.reply = "refused"])
        \/ Becomes(new)
        \/ Becomes([new EXCEPT !.stage = "expiring", !.sampled = clock])
        \/ Becomes([new EXCEPT !.stage = "done", !.reply = "ticket_expired"])
    BY DEF Submit
  <2>3. \A q : Becomes(q) => requests'[r] = q
    BY <2>1
  <2> QED BY <2>2, <2>3
<1>3. Progress(r)
  BY <1>1, <1>2 DEF Progress
<1>4. LeasesStay
  <2>1. CASE UNCHANGED tickets
    BY <2>1, Untouched
  <2>2. CASE tickets' = [tickets EXCEPT ![SessionOf[sub]] = ExpiredTicket(@, clock)]
    <3>1. SessionOf[sub] \in Sessions
      BY SubmissionsAssumption
    <3>2. \E now : tickets' = [tickets EXCEPT ![SessionOf[sub]] = ExpiredTicket(@, now)]
      BY <2>2
    <3> QED BY <3>1, <3>2, OneExpires
  <2> QED BY <2>1, <2>2 DEF Submit
<1> QED BY <1>1, <1>3, <1>4, Unwritten, ProgressKeeps

LEMMA ReleaseRetry ==
  ASSUME IInv, RetryInv, NEW r \in Requests, Release(r)
  PROVE  RetryInv'
<1>1. requests[r].stage = "releasing"
  BY DEF Release
<1>2. Session(r) \in Sessions /\ tickets[Session(r)] \in Ticket
  BY <1>1, ActiveRequest
<1>3. Alone(r) /\ NewRowsAreOf(r)
  BY HandleAlone, Unwritten
<1>4. Progress(r)
  BY <1>1, AckProgress DEF Release
<1>5. LeasesStay
  <2> DEFINE t == [tickets[Session(r)] EXCEPT !.status = "issued", !.lease = NoRequest,
                       !.leaseUntil = 0, !.fingerprint = NoSubmission]
  <2>1. t.status = "issued"
    BY <1>2 DEF Ticket
  <2>2. CASE tickets' = [tickets EXCEPT ![Session(r)] = t]
    <3> HIDE DEF t
    <3> QED BY <1>2, <2>1, <2>2, OneTicket
  <2>3. CASE UNCHANGED tickets
    BY <2>3, Untouched
  <2> QED BY <2>2, <2>3 DEF Release
<1> QED BY <1>3, <1>4, <1>5, ProgressKeeps

LEMMA ExpireTicketRetry ==
  ASSUME IInv, RetryInv, NEW r \in Requests, ExpireTicket(r)
  PROVE  RetryInv'
<1>1. requests[r].stage = "expiring"
  BY DEF ExpireTicket
<1>2. Alone(r) /\ NewRowsAreOf(r)
  BY HandleAlone, Unwritten
<1>3. Progress(r)
  BY <1>1, AckProgress DEF ExpireTicket
<1>4. LeasesStay
  <2>1. Session(r) \in Sessions
    BY <1>1, ActiveRequest
  <2>2. \E now : tickets' = [tickets EXCEPT ![Session(r)] = ExpiredTicket(@, now)]
    BY DEF ExpireTicket
  <2> QED BY <2>1, <2>2, OneExpires
<1> QED BY <1>2, <1>3, <1>4, ProgressKeeps

(* The steps that leave every ticket alone. *)
LEMMA TicketlessRetry ==
  ASSUME IInv, RetryInv, NEW r \in Requests,
         AskReservation(r) \/ Verify(r) \/ PlaceAndReply(r) \/ StoreFails(r) \/ Crash(r)
  PROVE  RetryInv'
<1>1. Alone(r) /\ NewRowsAreOf(r)
  BY HandleAlone, Unwritten
<1>2. LeasesStay
  BY Untouched DEF AskReservation, Verify, PlaceAndReply, StoreFails, Crash
<1>3. Progress(r)
  <2>1. CASE AskReservation(r)
    <3>1. requests[r].stage = "admitted"
      BY <2>1 DEF AskReservation
    <3>2. requests \in [Requests -> Request] /\ requests[r] \in Request /\ requests[r].reply = "none"
      BY <3>1, ActiveRequest DEF IInv, TypeOK
    <3>3. requests'[r] = [requests[r] EXCEPT !.stage = "reserving", !.sampled = clock]
      BY <2>1, <3>2 DEF AskReservation
    <3> QED BY <3>2, <3>3 DEF Progress, Request
  <2>2. CASE Verify(r)
    <3>1. requests[r].stage = "verifying"
      BY <2>2 DEF Verify
    <3>2. Verdict[requests[r].submission] \in Verdicts
      BY <3>1, ActiveRequest, SubmissionsAssumption
    <3>3. StageAfter(Verdict[requests[r].submission]) # "idle"
      BY <3>2 DEF StageAfter, Verdicts
    <3> QED BY <2>2, <3>1, <3>3, GotoProgress DEF Verify
  <2>3. CASE PlaceAndReply(r)
    BY <2>3, ReplyProgress DEF PlaceAndReply
  <2>4. CASE StoreFails(r)
    BY <2>4, ReplyProgress DEF StoreFails, StoreStages
  <2>5. CASE Crash(r)
    BY <2>5, GotoProgress DEF Crash
  <2> QED BY <2>1, <2>2, <2>3, <2>4, <2>5
<1> QED BY <1>1, <1>2, <1>3, ProgressKeeps

(* A commit by r writes a row that names r. *)
LEMMA CommitRetry ==
  ASSUME IInv, RetryInv, NEW r \in Requests, Session(r) \in Sessions,
         tickets[Session(r)] \in Ticket,
         NEW outcome \in {"accepted", "rejected"}, Finalize(r, outcome),
         Alone(r), Progress(r), requests'[r].submission = requests[r].submission
  PROVE  RetryInv'
<1> DEFINE s == Session(r)
           t == [tickets[s] EXCEPT !.status = outcome, !.terminal = outcome,
                    !.lease = IF Durable THEN NoRequest ELSE tickets[s].lease,
                    !.leaseUntil = IF Durable THEN 0 ELSE tickets[s].leaseUntil]
           new == [session |-> s, submission |-> requests[r].submission,
                   verified |-> outcome = "accepted", writer |-> r]
<1>1. tickets' = [tickets EXCEPT ![s] = t] /\ results' = results \cup {new}
  BY DEF Finalize
<1>2. t.status = outcome
  BY DEF Ticket
<1>3. new.writer = r /\ new.submission = requests[r].submission
  OBVIOUS
<1> HIDE DEF t, new
<1>4. LeasesStay
  BY <1>1, <1>2, OneTicket
<1>5. NewRowsAreOf(r)
  BY <1>1, <1>3 DEF NewRowsAreOf
<1> QED BY <1>4, <1>5, ProgressKeeps

LEMMA FinalizeRetry ==
  ASSUME IInv, RetryInv, NEW r \in Requests, FinalizeAccepted(r) \/ FinalizeRejected(r)
  PROVE  RetryInv'
<1>1. requests[r].stage \in {"accepting", "rejecting"}
  BY DEF FinalizeAccepted, FinalizeRejected
<1>2. Session(r) \in Sessions /\ tickets[Session(r)] \in Ticket
  BY <1>1, ActiveRequest
<1>3. ASSUME NEW code \in {"lease_lost", "service_unavailable", "rejected"},
             Reply(r, code), UNCHANGED <<tickets, results>>
      PROVE  RetryInv'
  <2>1. Alone(r) /\ Progress(r)
    BY <1>1, <1>3, ReplyAlone, ReplyProgress
  <2>2. LeasesStay /\ NewRowsAreOf(r)
    BY <1>3, Untouched, Unwritten
  <2> QED BY <2>1, <2>2, ProgressKeeps
<1>4. ASSUME NEW outcome \in {"accepted", "rejected"}, Finalize(r, outcome),
             NEW ack, GotoAck(r, "placing", ack) \/ ReplyAck(r, "rejected", ack)
      PROVE  RetryInv'
  <2>1. Alone(r)
    BY <1>1, <1>4, AckAlone
  <2>2. Progress(r) /\ requests'[r].submission = requests[r].submission
    BY <1>1, <1>4, AckProgress
  <2> QED BY <1>2, <1>4, <2>1, <2>2, CommitRetry
<1>5. CASE FinalizeAccepted(r)
  BY <1>3, <1>4, <1>5 DEF FinalizeAccepted
<1>6. CASE FinalizeRejected(r)
  BY <1>3, <1>4, <1>6 DEF FinalizeRejected
<1> QED BY <1>5, <1>6

LEMMA RetryNext == IInv /\ RetryInv /\ [Next]_vars => RetryInv'
<1> SUFFICES ASSUME IInv, RetryInv, [Next]_vars PROVE RetryInv'
  OBVIOUS
<1>1. ASSUME results' = results, requests' = requests, LeasesStay PROVE RetryInv'
  BY <1>1 DEF RetryInv, WritersAreKnown, LeasesAreOfTheirSession, LeasesStay,
     IdenticalRetriesNeverConflict, Session
<1>2. CASE Tick \/ UNCHANGED vars
  BY <1>1, <1>2, Untouched DEF Tick, vars
<1>3. ASSUME NEW s \in Sessions, IssueTicket(s) PROVE RetryInv'
  <2> DEFINE t == [tickets[s] EXCEPT !.status = "issued", !.expiresAt = clock + TicketTtl]
  <2>1. tickets' = [tickets EXCEPT ![s] = t] /\ t.status = "issued"
    BY <1>3 DEF IssueTicket, IInv, TypeOK, Ticket
  <2>2. LeasesStay
    BY <2>1, OneTicket
  <2> QED BY <1>1, <1>3, <2>2 DEF IssueTicket
<1>4. ASSUME NEW r \in Requests, NEW sub \in Submissions, Submit(r, sub) PROVE RetryInv'
  BY <1>4, SubmitRetry
<1>5. ASSUME NEW r \in Requests, Reserve(r) PROVE RetryInv'
  BY <1>5, ReserveRetry DEF Reserve
<1>6. ASSUME NEW r \in Requests, Handle(r) \/ StoreFails(r) \/ Crash(r) PROVE RetryInv'
  BY <1>5, <1>6, ExpireTicketRetry, TicketlessRetry, ReleaseRetry, FinalizeRetry DEF Handle
<1> QED BY <1>2, <1>3, <1>4, <1>6 DEF Next

LEMMA RetryInit == Init => RetryInv
BY DEF Init, RetryInv, WritersAreKnown, LeasesAreOfTheirSession, IdenticalRetriesNeverConflict

(* A ticket_conflict always names a rival: a client that only repeats its  *)
(* own submission never meets one, whatever leases lapsed in between.      *)
THEOREM RetriesNeverConflict == Spec => []IdenticalRetriesNeverConflict
<1>1. IInv /\ RetryInv /\ [Next]_vars => RetryInv'
  BY RetryNext
<1>2. Spec => []RetryInv
  BY <1>1, RetryInit, InductiveInvariant, PTL DEF Spec
<1>3. RetryInv => IdenticalRetriesNeverConflict
  BY DEF RetryInv
<1> QED BY <1>2, <1>3, PTL

-----------------------------------------------------------------------------
(***************************************************************************)
(* 4. Ranks and boards.  Reading placements is a stuttering step of the    *)
(* backend, so its inductive invariant carries over; the rest follows from *)
(* the results only growing (BackendGrows): a count read earlier is never  *)
(* more than the same count now (ReadsAreBounded).                         *)
(***************************************************************************)
(* A placement was read for a committed submission, and no entry that was  *)
(* counted has gone since.                                                 *)
ReadsAreBounded ==
  \A r \in Requests : \A c \in Categories :
    placements[r][c].placement # 0 =>
      /\ requests[r].stage # "idle"
      /\ Backed(requests[r].submission, results)
      /\ placements[r][c].placement
           <= countBetterThan(c, Value[requests[r].submission][c]) + 1

BoardInv ==
  /\ IInv
  /\ BoardTypeOK
  /\ IsFiniteSet(results)
  /\ ReadsAreBounded
  /\ RankIsWithinTotal

-----------------------------------------------------------------------------
(* What a step of the backend leaves alone: results are only added, one at *)
(* a time, and a request keeps the submission it arrived with.             *)
LEMMA BackendGrows ==
  ASSUME IInv, [Next]_vars
  PROVE  /\ results \subseteq results'
         /\ IsFiniteSet(results) => IsFiniteSet(results')
         /\ \A x \in Requests : requests[x].stage # "idle" =>
              /\ requests'[x].stage # "idle"
              /\ requests'[x].submission = requests[x].submission
<1> DEFINE Stays == \A x \in Requests : requests[x].stage # "idle" =>
                      /\ requests'[x].stage # "idle"
                      /\ requests'[x].submission = requests[x].submission
           Added == results' = results \/ \E row : results' = results \cup {row}
<1>0. requests \in [Requests -> Request]
  BY DEF IInv, TypeOK
<1>1. ASSUME NEW r \in Requests, NEW q \in Request,
             requests' = [requests EXCEPT ![r] = q], q.stage # "idle",
             requests[r].stage # "idle" => q.submission = requests[r].submission
      PROVE  Stays
  BY <1>0, <1>1
<1>2. ASSUME NEW r \in Requests, NEW stage, stage # "idle", Goto(r, stage)
      PROVE  Stays
  BY <1>0, <1>2 DEF Goto, Request
<1>3. ASSUME NEW r \in Requests, NEW code, Reply(r, code)
      PROVE  Stays
  BY <1>0, <1>3 DEF Reply, Request
<1>4. CASE Tick \/ (\E s \in Sessions : IssueTicket(s)) \/ UNCHANGED vars
  BY <1>4 DEF Tick, IssueTicket, vars
<1>5. ASSUME NEW r \in Requests, NEW sub \in Submissions, Submit(r, sub)
      PROVE  Stays /\ Added
  BY <1>0, <1>5 DEF Submit, Request
<1>6. ASSUME NEW r \in Requests, Handle(r) \/ StoreFails(r) \/ Crash(r)
      PROVE  Stays /\ Added
  <2>1. CASE ExpireTicket(r)
    BY <2>1, <1>3 DEF ExpireTicket, ReplyAck
  <2>2. CASE AskReservation(r)
    BY <2>2, <1>0 DEF AskReservation, Request
  <2>3. ASSUME NEW now, ReserveTicket(r, now) PROVE Stays /\ Added
    <3>1. CASE ReserveExpired(r, now)
      BY <3>1, <2>3, <1>3 DEF ReserveExpired, ReplyAck, ReserveTicket
    <3>2. CASE ReserveTerminal(r, now)
      BY <3>2, <2>3, <1>2, <1>3 DEF ReserveTerminal, ReserveTicket
    <3>3. CASE ReserveBusy(r, now)
      BY <3>3, <2>3, <1>3 DEF ReserveBusy, ReserveTicket
    <3>4. CASE ReserveFree(r, now)
      BY <3>4, <2>3, <1>2, <1>3 DEF ReserveFree, GotoAck, ReserveTicket
    <3> QED BY <2>3, <3>1, <3>2, <3>3, <3>4 DEF ReserveTicket
  <2>4. CASE Reserve(r)
    BY <2>3, <2>4 DEF Reserve
  <2>5. CASE Verify(r)
    <3>1. StageAfter(Verdict[requests[r].submission]) # "idle"
      <4>1. requests[r].submission \in Submissions
        BY <2>5, <1>0 DEF Verify, IInv, RequestsAreConsistent, Consistent, Request
      <4> QED BY <4>1, SubmissionsAssumption DEF StageAfter, Verdicts
    <3> QED BY <2>5, <3>1, <1>2 DEF Verify
  <2>6. CASE Release(r)
    BY <2>6, <1>3 DEF Release, ReplyAck
  <2>7. CASE FinalizeAccepted(r)
    BY <2>7, <1>2, <1>3 DEF FinalizeAccepted, GotoAck, Finalize
  <2>8. CASE FinalizeRejected(r)
    BY <2>8, <1>3 DEF FinalizeRejected, ReplyAck, Finalize
  <2>9. CASE PlaceAndReply(r) \/ StoreFails(r)
    BY <2>9, <1>3 DEF PlaceAndReply, StoreFails
  <2>10. CASE Crash(r)
    BY <2>10, <1>2 DEF Crash
  <2> QED BY <1>6, <2>1, <2>2, <2>4, <2>5, <2>6, <2>7, <2>8, <2>9, <2>10 DEF Handle
<1>7. Stays /\ Added
  <2>1. CASE Tick \/ (\E s \in Sessions : IssueTicket(s)) \/ UNCHANGED vars
    BY <2>1 DEF Tick, IssueTicket, vars
  <2> QED BY <2>1, <1>5, <1>6 DEF Next
<1>8. IsFiniteSet(results) => IsFiniteSet(results')
  BY <1>7, FS_AddElement
<1> QED BY <1>7, <1>8

-----------------------------------------------------------------------------
(* Counting *)

(* Entries only accumulate with the results, and so do those ahead.        *)
LEMMA EntriesGrow ==
  ASSUME results \subseteq results', NEW c, NEW value
  PROVE  Entries \subseteq Entries' /\ BetterThan(c, value) \subseteq BetterThan(c, value)'
BY DEF Entries, BetterThan, ValueOf

(* Counting up to the limit keeps the order of the counts.                 *)
LEMMA CountedIsMonotone ==
  ASSUME NEW a \in Nat, NEW b \in Nat, a <= b
  PROVE  Counted(a) \in Nat /\ Counted(a) <= Counted(b) /\ Counted(a) <= a
BY LimitAssumption DEF Counted

LEMMA EntriesAreFinite ==
  ASSUME IsFiniteSet(results), NEW c, NEW value
  PROVE  /\ IsFiniteSet(Entries) /\ Cardinality(Entries) \in Nat
         /\ IsFiniteSet(BetterThan(c, value)) /\ Cardinality(BetterThan(c, value)) \in Nat
         /\ BetterThan(c, value) \subseteq Entries
<1>1. Entries \subseteq results /\ BetterThan(c, value) \subseteq Entries
  BY DEF Entries, BetterThan
<1>2. IsFiniteSet(Entries)
  BY <1>1, FS_Subset
<1>3. IsFiniteSet(BetterThan(c, value))
  BY <1>1, <1>2, FS_Subset
<1> QED BY <1>1, <1>2, <1>3, FS_CardinalityType

(* A count never shrinks. *)
LEMMA CountsGrow ==
  ASSUME IsFiniteSet(results), IsFiniteSet(results'), results \subseteq results',
         NEW c, NEW value
  PROVE  /\ countBetterThan(c, value) \in Nat
         /\ countBetterThan(c, value)' \in Nat
         /\ countBetterThan(c, value) <= countBetterThan(c, value)'
<1> DEFINE B == BetterThan(c, value)
<1>1. IsFiniteSet(B) /\ Cardinality(B) \in Nat
  BY EntriesAreFinite
<1>2. IsFiniteSet(B') /\ Cardinality(B') \in Nat
  <2>1. IsFiniteSet(Entries')
    BY FS_Subset DEF Entries
  <2>2. B' \subseteq Entries'
    BY DEF BetterThan
  <2>3. IsFiniteSet(B')
    BY <2>1, <2>2, FS_Subset
  <2> QED BY <2>3, FS_CardinalityType
<1>3. Cardinality(B) <= Cardinality(B')
  BY <1>1, <1>2, EntriesGrow, FS_Subset
<1> HIDE DEF B
<1>4. Counted(Cardinality(B)) \in Nat /\ Counted(Cardinality(B')) \in Nat
      /\ Counted(Cardinality(B)) <= Counted(Cardinality(B'))
  BY <1>1, <1>2, <1>3, CountedIsMonotone
<1> QED BY <1>4 DEF B, countBetterThan, Counted

(* A committed submission is an entry and does not beat itself, so that    *)
(* fewer entries beat it than there are.                                   *)
LEMMA SomeEntryIsNotBetter ==
  ASSUME IsFiniteSet(results), NEW sub \in Submissions, Backed(sub, results),
         NEW c \in Categories
  PROVE  Cardinality(BetterThan(c, Value[sub][c])) + 1 <= Cardinality(Entries)
<1> DEFINE B == BetterThan(c, Value[sub][c])
<1>1. PICK row \in Entries : row.submission = sub
  BY DEF Backed, Entries
<1>2. Value[sub][c] \in Nat
  BY CategoriesAssumption
<1>3. row \notin B
  BY <1>1, <1>2 DEF BetterThan, ValueOf, Better
<1>4. IsFiniteSet(Entries) /\ IsFiniteSet(B) /\ B \subseteq Entries
      /\ Cardinality(Entries) \in Nat /\ Cardinality(B) \in Nat
  BY EntriesAreFinite
<1> HIDE DEF B
<1>5. IsFiniteSet(B \cup {row}) /\ Cardinality(B \cup {row}) = Cardinality(B) + 1
  BY <1>3, <1>4, FS_AddElement
<1>6. B \cup {row} \subseteq Entries
  BY <1>1, <1>4
<1>7. Cardinality(B \cup {row}) <= Cardinality(Entries)
  BY <1>4, <1>6, FS_Subset
<1> QED BY <1>5, <1>7 DEF B

-----------------------------------------------------------------------------
(* The invariant is inductive *)

LEMMA BoardInitEstablishes == BoardInit => BoardInv
<1> SUFFICES ASSUME BoardInit PROVE BoardInv
  OBVIOUS
<1>1. IInv
  BY InitEstablishes DEF BoardInit
<1>2. BoardTypeOK
  BY CategoriesAssumption DEF BoardInit, BoardTypeOK, Placement
<1>3. IsFiniteSet(results)
  BY FS_EmptySet DEF BoardInit, Init
<1>4. ReadsAreBounded
  BY DEF BoardInit, ReadsAreBounded
<1>5. RankIsWithinTotal
  BY DEF BoardInit, RankIsWithinTotal, Categories
<1> QED BY <1>1, <1>2, <1>3, <1>4, <1>5 DEF BoardInv

(* Counts read earlier stay below the counts after any step that leaves    *)
(* the placements alone.                                                   *)
LEMMA BackendStepKeeps ==
  ASSUME BoardInv, [Next]_vars, UNCHANGED boardVars
  PROVE  BoardInv'
<1>1. IInv'
  BY NextKeeps DEF BoardInv
<1>2. /\ results \subseteq results'
      /\ IsFiniteSet(results) /\ IsFiniteSet(results')
      /\ \A x \in Requests : requests[x].stage # "idle" =>
           /\ requests'[x].stage # "idle"
           /\ requests'[x].submission = requests[x].submission
  BY BackendGrows DEF BoardInv
<1>3. BoardTypeOK' /\ RankIsWithinTotal'
  BY DEF BoardInv, BoardTypeOK, RankIsWithinTotal, boardVars
<1>4. ReadsAreBounded'
  <2> SUFFICES ASSUME NEW r \in Requests, NEW c \in Categories, placements[r][c].placement # 0
               PROVE  /\ requests'[r].stage # "idle"
                      /\ Backed(requests'[r].submission, results')
                      /\ placements[r][c].placement
                           <= countBetterThan(c, Value[requests[r].submission][c])' + 1
    BY DEF ReadsAreBounded, boardVars
  <2> DEFINE value == Value[requests[r].submission][c]
  <2>1. /\ requests[r].stage # "idle"
        /\ Backed(requests[r].submission, results)
        /\ placements[r][c].placement <= countBetterThan(c, value) + 1
    BY DEF BoardInv, ReadsAreBounded
  <2>2. requests'[r].stage # "idle" /\ requests'[r].submission = requests[r].submission
    BY <1>2, <2>1
  <2>3. Backed(requests[r].submission, results')
    BY <1>2, <2>1 DEF Backed
  <2>4. placements[r][c].placement \in Nat
    BY DEF BoardInv, BoardTypeOK, Placement
  <2>5. PICK v : v = value
    OBVIOUS
  <2>6. /\ countBetterThan(c, v) \in Nat /\ countBetterThan(c, v)' \in Nat
        /\ countBetterThan(c, v) <= countBetterThan(c, v)'
    BY <1>2, CountsGrow
  <2>7. countBetterThan(c, Value[requests[r].submission][c])' = countBetterThan(c, v)'
    BY <2>2, <2>5
  <2>8. placements[r][c].placement <= countBetterThan(c, v)' + 1
    BY <2>1, <2>4, <2>5, <2>6
  <2> QED BY <2>2, <2>3, <2>7, <2>8
<1> QED BY <1>1, <1>2, <1>3, <1>4 DEF BoardInv

(* A request that reads is one whose result is committed. *)
LEMMA ReaderIsBacked ==
  ASSUME BoardInv, NEW r \in Requests, Reading(r)
  PROVE  /\ cursor[r] \in Categories
         /\ requests[r].stage # "idle"
         /\ requests[r].submission \in Submissions
         /\ Backed(requests[r].submission, results)
BY DEF BoardInv, IInv, Reading, PlacedIsBacked, RequestsAreConsistent, Consistent, Backed

LEMMA ReadPlacementKeeps ==
  ASSUME BoardInv, NEW r \in Requests, ReadPlacement(r)
  PROVE  BoardInv'
<1> DEFINE c == cursor[r]
           read == countBetterThan(c, Value[requests[r].submission][c]) + 1
<1>1. Reading(r) /\ UNCHANGED <<vars, cursor>>
      /\ placements' = [placements EXCEPT ![r][c].placement = read]
  BY DEF ReadPlacement
<1>2. /\ c \in Categories /\ requests[r].stage # "idle"
      /\ Backed(requests[r].submission, results)
  BY <1>1, ReaderIsBacked
<1>3. read \in Nat
  <2>1. countBetterThan(c, Value[requests[r].submission][c]) \in Nat
    BY EntriesAreFinite, CountedIsMonotone DEF countBetterThan, BoardInv
  <2> QED BY <2>1
<1>4. IInv' /\ IsFiniteSet(results')
  BY <1>1, NextKeeps DEF BoardInv, vars
<1> HIDE DEF read
<1>5. placements \in [Requests -> [Categories -> Placement]]
      /\ cursor \in [Requests -> 1 .. CategoryCount + 1]
  BY DEF BoardInv, BoardTypeOK
<1>6. \A q \in Requests : \A d \in Categories :
        placements'[q][d] = IF q = r /\ d = c THEN [placements[r][c] EXCEPT !.placement = read]
                                              ELSE placements[q][d]
  BY <1>1, <1>2, <1>5
<1>7. BoardTypeOK'
  BY <1>1, <1>2, <1>3, <1>5 DEF BoardTypeOK, Placement
<1>8. \A q \in Requests : \A d \in Categories :
        countBetterThan(d, Value[requests[q].submission][d])'
          = countBetterThan(d, Value[requests[q].submission][d])
  BY <1>1 DEF vars, countBetterThan, BetterThan, Entries, ValueOf
<1>9. ReadsAreBounded'
  <2> SUFFICES ASSUME NEW q \in Requests, NEW d \in Categories, placements'[q][d].placement # 0
               PROVE  /\ requests'[q].stage # "idle"
                      /\ Backed(requests'[q].submission, results')
                      /\ placements'[q][d].placement
                           <= countBetterThan(d, Value[requests[q].submission][d])' + 1
    BY DEF ReadsAreBounded
  <2>1. CASE q = r /\ d = c
    <3>1. placements'[q][d].placement = read
      BY <1>2, <1>5, <1>6, <2>1 DEF Placement
    <3>2. read <= countBetterThan(d, Value[requests[q].submission][d])' + 1
      BY <1>3, <1>8, <2>1 DEF read
    <3> QED BY <3>1, <3>2, <1>1, <1>2, <2>1 DEF vars
  <2>2. CASE ~(q = r /\ d = c)
    BY <2>2, <1>1, <1>6, <1>8 DEF vars, BoardInv, ReadsAreBounded
  <2> QED BY <2>1, <2>2
<1>10. RankIsWithinTotal'
  <2>1. \A q \in Requests : \A d \in Categories :
          d < cursor[q] => placements'[q][d] = placements[q][d]
    BY <1>2, <1>5, <1>6 DEF Categories
  <2>2. cursor' = cursor
    BY <1>1
  <2> QED BY <2>1, <2>2 DEF BoardInv, RankIsWithinTotal
<1> QED BY <1>4, <1>7, <1>9, <1>10 DEF BoardInv

(* The rank was counted before the total, out of entries that were all     *)
(* still there, and the submission itself is one that was not counted.     *)
LEMMA ReadTotalKeeps ==
  ASSUME BoardInv, NEW r \in Requests, ReadTotal(r)
  PROVE  BoardInv'
<1> DEFINE c == cursor[r]
           read == totalVerified(c)
           value == Value[requests[r].submission][c]
<1>1. /\ Reading(r) /\ placements[r][c].placement # 0 /\ UNCHANGED vars
      /\ placements' = [placements EXCEPT ![r][c].totalEntries = read]
      /\ cursor' = [cursor EXCEPT ![r] = @ + 1]
  BY DEF ReadTotal, Unplaced
<1>2. /\ c \in Categories /\ requests[r].submission \in Submissions
      /\ Backed(requests[r].submission, results)
  BY <1>1, ReaderIsBacked
<1>3. /\ placements \in [Requests -> [Categories -> Placement]]
      /\ cursor \in [Requests -> 1 .. CategoryCount + 1]
      /\ IsFiniteSet(results)
  BY DEF BoardInv, BoardTypeOK
<1>4. /\ read \in Nat
      /\ \/ placements[r][c].placement <= read
         \/ ~Durable /\ placements[r][c].placement = BoardLimit + 1 /\ read = BoardLimit
  <2> DEFINE n == Cardinality(BetterThan(c, value))
             m == Cardinality(Entries)
             p == placements[r][c].placement
  <2>1. n \in Nat /\ m \in Nat
    BY <1>3, EntriesAreFinite
  <2>2. n + 1 <= m
    BY <1>2, <1>3, SomeEntryIsNotBetter
  <2>3. p <= Counted(n) + 1
    BY <1>1, <1>2 DEF BoardInv, ReadsAreBounded, countBetterThan
  <2>4. p \in Nat /\ read = Counted(m)
    BY <1>2, <1>3 DEF Placement, totalVerified
  <2> HIDE DEF n, m, p, read
  <2> QED BY <2>1, <2>2, <2>3, <2>4, LimitAssumption DEF Counted, p
<1> HIDE DEF read
<1>5. IInv' /\ IsFiniteSet(results')
  BY <1>1, NextKeeps DEF BoardInv, vars
<1>6. \A q \in Requests : \A d \in Categories :
        placements'[q][d] = IF q = r /\ d = c THEN [placements[r][c] EXCEPT !.totalEntries = read]
                                              ELSE placements[q][d]
  BY <1>1, <1>2, <1>3
<1>7. \A q \in Requests : cursor'[q] = IF q = r THEN c + 1 ELSE cursor[q]
  BY <1>1, <1>3
<1>8. BoardTypeOK'
  <2>1. c + 1 \in 1 .. CategoryCount + 1
    BY <1>2, CategoriesAssumption DEF Categories
  <2>2. cursor' \in [Requests -> 1 .. CategoryCount + 1]
    BY <1>1, <1>3, <2>1
  <2>3. placements' \in [Requests -> [Categories -> Placement]]
    BY <1>1, <1>2, <1>3, <1>4 DEF Placement
  <2> QED BY <2>2, <2>3 DEF BoardTypeOK
<1>9. \A q \in Requests : \A d \in Categories :
        placements'[q][d].placement = placements[q][d].placement
  <2>1. placements[r][c] \in Placement
    BY <1>2, <1>3
  <2>2. [placements[r][c] EXCEPT !.totalEntries = read].placement = placements[r][c].placement
    BY <2>1 DEF Placement
  <2> QED BY <1>6, <2>2
<1>10. ReadsAreBounded'
  <2>1. \A q \in Requests : \A d \in Categories :
          countBetterThan(d, Value[requests[q].submission][d])'
            = countBetterThan(d, Value[requests[q].submission][d])
    BY <1>1 DEF vars, countBetterThan, BetterThan, Entries, ValueOf
  <2> QED BY <1>1, <1>9, <2>1 DEF BoardInv, ReadsAreBounded, vars
<1>11. RankIsWithinTotal'
  <2> SUFFICES ASSUME NEW q \in Requests, NEW d \in Categories, d < cursor'[q]
               PROVE  LET p == placements'[q][d]
                      IN /\ p.placement >= 1
                         /\ \/ p.placement <= p.totalEntries
                            \/ /\ ~Durable
                               /\ p.placement = BoardLimit + 1
                               /\ p.totalEntries = BoardLimit
    BY DEF RankIsWithinTotal
  <2>1. CASE q = r /\ d = c
    <3>1. placements'[q][d].totalEntries = read
      BY <1>2, <1>3, <1>6, <2>1 DEF Placement
    <3>2. placements'[q][d].placement = placements[r][c].placement
      BY <1>9, <2>1
    <3>3. placements[r][c].placement \in Nat
      BY <1>2, <1>3 DEF Placement
    <3> QED BY <1>1, <1>4, <3>1, <3>2, <3>3
  <2>2. CASE ~(q = r /\ d = c)
    <3>1. d < cursor[q]
      BY <1>2, <1>3, <1>7, <2>2 DEF Categories
    <3> QED BY <1>6, <2>2, <3>1 DEF BoardInv, RankIsWithinTotal
  <2> QED BY <2>1, <2>2
<1> QED BY <1>5, <1>8, <1>10, <1>11 DEF BoardInv

LEMMA BoardNextKeeps == BoardInv /\ [BoardNext]_allVars => BoardInv'
<1> SUFFICES ASSUME BoardInv, [BoardNext]_allVars PROVE BoardInv'
  OBVIOUS
<1>1. CASE BackendStep
  BY <1>1, BackendStepKeeps DEF BackendStep
<1>2. ASSUME NEW r \in Requests, ReadPlacement(r) \/ ReadTotal(r) PROVE BoardInv'
  BY <1>2, ReadPlacementKeeps, ReadTotalKeeps
<1>3. CASE UNCHANGED allVars
  BY <1>3, BackendStepKeeps DEF allVars
<1> QED BY <1>1, <1>2, <1>3 DEF BoardNext

LEMMA BoardInductiveInvariant == BoardSpec => []BoardInv
BY BoardInitEstablishes, BoardNextKeeps, PTL DEF BoardSpec

-----------------------------------------------------------------------------
(* Theorems *)

(* Reading the leaderboards is invisible to the backend: with placements,  *)
(* every behaviour of the handler is one of VerificationBackend.           *)
THEOREM PlacingIsReadOnly == BoardSpec => Spec
<1>1. BoardInit => Init
  BY DEF BoardInit
<1>2. [BoardNext]_allVars => [Next]_vars
  BY DEF BoardNext, BackendStep, ReadPlacement, ReadTotal, allVars
<1> QED BY <1>1, <1>2, PTL DEF BoardSpec, Spec

(* "Rank #p of n" has p <= n although p and n are read at different times, *)
(* except behind the limit of the in-memory store.                         *)
THEOREM RanksAreWithinTotals == BoardSpec => []RankIsWithinTotal
<1>1. BoardInv => RankIsWithinTotal
  BY DEF BoardInv
<1> QED BY <1>1, BoardInductiveInvariant, PTL

(* A retry of an accepted submission is never told a better rank.          *)
THEOREM RanksOnlyFall == BoardSpec => RanksNeverRise
<1> DEFINE A == \A r, q \in Requests : \A c \in Categories :
                  /\ placements[r][c].placement = 0
                  /\ placements'[r][c].placement # 0
                  /\ placements[q][c].placement # 0
                  /\ requests[q].submission = requests[r].submission
                  => placements'[r][c].placement >= placements[q][c].placement
<1>1. ASSUME BoardInv, [BoardNext]_allVars PROVE [A]_allVars
  <2> SUFFICES ASSUME NEW r \in Requests, NEW q \in Requests, NEW c \in Categories,
                      placements[r][c].placement = 0, placements'[r][c].placement # 0,
                      placements[q][c].placement # 0,
                      requests[q].submission = requests[r].submission
               PROVE  placements'[r][c].placement >= placements[q][c].placement
    OBVIOUS
  <2>0. /\ placements \in [Requests -> [Categories -> Placement]]
        /\ cursor \in [Requests -> 1 .. CategoryCount + 1]
    BY <1>1 DEF BoardInv, BoardTypeOK
  <2>1. PICK x \in Requests : ReadPlacement(x) \/ ReadTotal(x)
    BY <1>1 DEF BoardNext, BackendStep, boardVars, allVars
  <2>2. cursor[x] \in Categories
    BY <2>1 DEF ReadPlacement, ReadTotal, Reading
  <2>3. x = r /\ cursor[x] = c /\ ReadPlacement(r)
    <3>1. \A v : \A k \in Categories :
            [placements[x][k] EXCEPT !.totalEntries = v].placement = placements[x][k].placement
      BY <2>0 DEF Placement
    <3>2. CASE ReadPlacement(x)
      <4>1. PICK v : placements' = [placements EXCEPT ![x][cursor[x]].placement = v]
        BY <3>2 DEF ReadPlacement
      <4>2. ~(x = r /\ cursor[x] = c) => placements'[r][c] = placements[r][c]
        BY <2>0, <2>2, <4>1
      <4> QED BY <3>2, <4>2
    <3>3. CASE ReadTotal(x)
      <4>1. PICK v : placements' = [placements EXCEPT ![x][cursor[x]].totalEntries = v]
        BY <3>3 DEF ReadTotal
      <4>2. \/ placements'[r][c] = placements[r][c]
            \/ /\ placements'[r][c] = [placements[x][cursor[x]] EXCEPT !.totalEntries = v]
               /\ x = r /\ cursor[x] = c
        BY <2>0, <2>2, <4>1
      <4>3. [placements[x][cursor[x]] EXCEPT !.totalEntries = v].placement
              = placements[x][cursor[x]].placement
        BY <2>2, <3>1
      <4>4. placements'[r][c].placement = placements[r][c].placement
        BY <4>2, <4>3
      <4> QED BY <4>4
    <3> QED BY <2>1, <3>2, <3>3
  <2>4. placements'[r][c].placement = countBetterThan(c, Value[requests[r].submission][c]) + 1
    BY <2>0, <2>2, <2>3 DEF ReadPlacement, Placement
  <2>5. placements[q][c].placement <= countBetterThan(c, Value[requests[q].submission][c]) + 1
    BY <1>1 DEF BoardInv, ReadsAreBounded
  <2>6. countBetterThan(c, Value[requests[r].submission][c]) \in Nat
    BY <1>1, EntriesAreFinite, CountedIsMonotone DEF countBetterThan, BoardInv
  <2>7. placements[q][c].placement \in Nat
    BY <2>0 DEF Placement
  <2> QED BY <2>4, <2>5, <2>6, <2>7
<1> QED BY <1>1, BoardInductiveInvariant, PTL DEF BoardSpec, RanksNeverRise

(* The boards of GET /leaderboards agree with the placements handed out.   *)
THEOREM BoardsAgree == BoardSpec => []BoardsAgreeWithRanks
<1>1. BoardInv => BoardsAgreeWithRanks
  <2> SUFFICES ASSUME BoardInv, NEW r \in Requests, NEW c \in Categories,
                      placements[r][c].placement # 0, NEW board \in Leaderboard(c)
               PROVE  LET own   == {row \in board : row.submission = requests[r].submission}
                          ahead == BetterThan(c, Value[requests[r].submission][c]) \cap board
                      IN /\ own = {} => Cardinality(board) = BoardLimit
                         /\ own # {} => placements[r][c].placement <= Cardinality(ahead) + 1
    BY DEF BoardsAgreeWithRanks
  <2> DEFINE sub   == requests[r].submission
             own   == {row \in board : row.submission = sub}
             B     == BetterThan(c, Value[sub][c])
  <2>1. /\ IsFiniteSet(Entries) /\ Cardinality(Entries) \in Nat
        /\ IsFiniteSet(B) /\ Cardinality(B) \in Nat
    BY EntriesAreFinite DEF BoardInv
  <2>2. PICK mine \in Entries : mine.submission = sub
    BY DEF BoardInv, ReadsAreBounded, Backed, Entries
  <2>3. board \subseteq Entries
    BY DEF Leaderboard
  <2>4. ASSUME own = {} PROVE Cardinality(board) = BoardLimit
    <3>1. CASE Cardinality(Entries) <= BoardLimit
      <4>1. Cardinality(board) = Cardinality(Entries)
        BY <3>1 DEF Leaderboard
      <4>2. board = Entries
        BY <2>1, <2>3, <4>1, FS_Subset
      <4> QED BY <2>2, <2>4, <4>2
    <3> QED BY <3>1 DEF Leaderboard
  <2>5. ASSUME own # {} PROVE placements[r][c].placement <= Cardinality(B \cap board) + 1
    <3>1. PICK row \in board : row.submission = sub
      BY <2>5
    <3>2. B \subseteq board
      BY <3>1 DEF Leaderboard, ValueOf
    <3>3. B \cap board = B
      BY <3>2
    <3>4. placements[r][c].placement <= Counted(Cardinality(B)) + 1
      BY DEF BoardInv, ReadsAreBounded, countBetterThan
    <3>5. placements[r][c].placement \in Nat
      BY DEF BoardInv, BoardTypeOK, Placement
    <3> HIDE DEF B
    <3>6. Counted(Cardinality(B)) \in Nat /\ Counted(Cardinality(B)) <= Cardinality(B)
      BY <2>1, CountedIsMonotone
    <3>7. Cardinality(B \cap board) = Cardinality(B)
      BY <3>3
    <3>8. placements[r][c].placement <= Cardinality(B) + 1
      BY <2>1, <3>4, <3>5, <3>6
    <3> QED BY <3>7, <3>8
  <2> QED BY <2>4, <2>5
<1> QED BY <1>1, BoardInductiveInvariant, PTL

=============================================================================
