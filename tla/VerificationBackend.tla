------------------------- MODULE VerificationBackend -------------------------
(***************************************************************************)
(* POST /sessions and POST /results of apps/api/src/server.ts over the     *)
(* ticket store (store.ts in memory, postgres-store.ts durable).  Every    *)
(* invocation of /results is a request that walks the handler from await   *)
(* to await; between two awaits other requests, other API instances, the   *)
(* clock and crashes take their steps.                                     *)
(*                                                                         *)
(* The random lease token of a reservation is the request that made it: a  *)
(* request reserves at most once, so the tokens are as unique as UUIDs.    *)
(* A submission stands for its fingerprint: session, evidence, claim and   *)
(* player handle.                                                          *)
(***************************************************************************)
EXTENDS Naturals

CONSTANTS Requests,      \* invocations of POST /results
          Sessions,      \* session identifiers, one ticket each
          Submissions,   \* submissions, told apart by their fingerprint
          SessionOf,     \* [Submissions -> Sessions]
          Verdict,       \* [Submissions -> Verdicts], replay is deterministic
          Durable,       \* TRUE: PostgresStore, FALSE: the in-memory Store
          TicketTtl,     \* config.ticketTtlMs, in ticks
          LeaseTime,     \* config.ticketLeaseMs, in ticks
          MaxTime,       \* bound on the clock
          NoRequest,     \* no lease token
          NoSubmission   \* no fingerprint

(* match: the canonical result equals the claim and carries every metric;  *)
(* refuted: the replay is invalid or contradicts the claim;                *)
(* incomplete: the verifier omits a metric a leaderboard category needs.   *)
Verdicts == {"match", "refuted", "incomplete"}

ASSUME RequestsAssumption == NoRequest \notin Requests
ASSUME SubmissionsAssumption ==
  /\ NoSubmission \notin Submissions
  /\ SessionOf \in [Submissions -> Sessions]
  /\ Verdict \in [Submissions -> Verdicts]
ASSUME TimeAssumption ==
  /\ TicketTtl \in Nat
  /\ LeaseTime \in Nat
  /\ MaxTime \in Nat
ASSUME DurableAssumption == Durable \in BOOLEAN

VARIABLES clock,     \* Date.now(); API instances agree on it
          tickets,   \* the tickets table, by session
          results,   \* verification_results and leaderboard_values
          requests   \* the local state of each handler invocation

vars == <<clock, tickets, results, requests>>

TicketStatus == {"absent", "issued", "verifying", "accepted", "rejected", "expired"}

Ticket == [status      : TicketStatus,
           expiresAt   : Nat,
           lease       : Requests \cup {NoRequest},
           leaseUntil  : Nat,
           fingerprint : Submissions \cup {NoSubmission},
           terminal    : {"none", "accepted", "rejected"}]

(* A retained result; a verified one is also a leaderboard entry. *)
Result == [session    : Sessions,
           submission : Submissions,
           verified   : BOOLEAN,
           writer     : Requests]

Stages == {"idle", "admitted", "expiring", "reserving", "verifying", "accepting",
           "rejecting", "releasing", "placing", "done", "lost"}

(* retryable: true *)
RetryReplies == {"submission_in_progress", "lease_lost", "capacity",
                 "verifier_contract", "service_unavailable"}
(* retryable: false *)
FinalReplies == {"accepted", "rejected", "ticket_expired", "ticket_conflict", "refused"}

Request == [stage      : Stages,
            submission : Submissions \cup {NoSubmission},
            sampled    : Nat,
            reply      : RetryReplies \cup FinalReplies \cup {"none"}]

TypeOK ==
  /\ clock \in Nat
  /\ tickets \in [Sessions -> Ticket]
  /\ results \subseteq Result
  /\ requests \in [Requests -> Request]

-----------------------------------------------------------------------------
(* Steps of one request *)

Session(r) == SessionOf[requests[r].submission]

Goto(r, stage) == requests' = [requests EXCEPT ![r].stage = stage]

Reply(r, code) ==
  requests' = [requests EXCEPT ![r].stage = "done", ![r].reply = code]

(* A store call of the durable store may throw after its commit, when the  *)
(* acknowledgement is lost; app.onError then answers 503.                  *)
Acknowledged == IF Durable THEN BOOLEAN ELSE {TRUE}

GotoAck(r, stage, ack) == IF ack THEN Goto(r, stage) ELSE Reply(r, "service_unavailable")

ReplyAck(r, code, ack) == Reply(r, IF ack THEN code ELSE "service_unavailable")

(* Bug: finalization looks at the status and not at the lease token. *)
AnyLease(r) == tickets[Session(r)].status = "verifying"

HoldsLease(r) ==
  /\ tickets[Session(r)].status = "verifying"
  /\ tickets[Session(r)].lease = r

-----------------------------------------------------------------------------
Init ==
  /\ clock = 0
  /\ tickets = [s \in Sessions |->
                  [status |-> "absent", expiresAt |-> 0, lease |-> NoRequest,
                   leaseUntil |-> 0, fingerprint |-> NoSubmission, terminal |-> "none"]]
  /\ results = {}
  /\ requests = [r \in Requests |->
                   [stage |-> "idle", submission |-> NoSubmission, sampled |-> 0,
                    reply |-> "none"]]

Tick ==
  /\ clock < MaxTime
  /\ clock' = clock + 1
  /\ UNCHANGED <<tickets, results, requests>>

(* POST /sessions: a signed ticket is saved before its client sees it. *)
IssueTicket(s) ==
  /\ tickets[s].status = "absent"
  /\ tickets' = [tickets EXCEPT ![s].status = "issued", ![s].expiresAt = clock + TicketTtl]
  /\ UNCHANGED <<clock, results, requests>>

(* ArcadeStore.expireTicket; a terminal ticket keeps its status. *)
ExpiredTicket(t, now) ==
  IF now > t.expiresAt /\ t.status \in {"issued", "verifying"}
    THEN [t EXCEPT !.status = "expired", !.lease = NoRequest, !.leaseUntil = 0]
    ELSE t

(* A submission arrives.  A fault the handler sees without the ticket row  *)
(* (signature, verifier, build, identity, evidence, hash, frame count)     *)
(* refuses it; an expired ticket is marked expired before the answer.      *)
Submit(r, sub) ==
  LET s   == SessionOf[sub]
      new == [stage |-> "admitted", submission |-> sub, sampled |-> 0, reply |-> "none"]
  IN /\ requests[r].stage = "idle"
     /\ tickets[s].status # "absent"
     /\ \/ /\ requests' = [requests EXCEPT ![r] =
                             [new EXCEPT !.stage = "done", !.reply = "refused"]]
           /\ UNCHANGED tickets
        \/ /\ clock <= tickets[s].expiresAt
           /\ requests' = [requests EXCEPT ![r] = new]
           /\ UNCHANGED tickets
        \/ /\ clock > tickets[s].expiresAt
           /\ Durable
           /\ requests' = [requests EXCEPT ![r] = [new EXCEPT !.stage = "expiring", !.sampled = clock]]
           /\ UNCHANGED tickets
        \/ /\ clock > tickets[s].expiresAt
           /\ ~Durable
           /\ requests' = [requests EXCEPT ![r] =
                             [new EXCEPT !.stage = "done", !.reply = "ticket_expired"]]
           /\ tickets' = [tickets EXCEPT ![s] = ExpiredTicket(@, clock)]
     /\ UNCHANGED <<clock, results>>

(* The UPDATE of PostgresStore.expireTicket, with the time sampled before it. *)
ExpireTicket(r) ==
  /\ requests[r].stage = "expiring"
  /\ tickets' = [tickets EXCEPT ![Session(r)] = ExpiredTicket(@, requests[r].sampled)]
  /\ \E ack \in Acknowledged : ReplyAck(r, "ticket_expired", ack)
  /\ UNCHANGED <<clock, results>>

-----------------------------------------------------------------------------
(* ArcadeStore.reserveTicket(ticket, fingerprint, now, leaseMs).  Its      *)
(* branches exclude each other in the order of the code.                   *)

ReserveExpired(r, now) ==
  /\ now > tickets[Session(r)].expiresAt
  /\ tickets' = [tickets EXCEPT ![Session(r)].status = "expired"]
  /\ \E ack \in Acknowledged : ReplyAck(r, "ticket_expired", ack)

(* Bug: a terminal ticket replays its response to any submission. *)
ReplayToAnyone(r, now) ==
  LET t == tickets[Session(r)]
  IN /\ now <= t.expiresAt
     /\ t.status \in {"accepted", "rejected"}
     /\ IF t.terminal = "accepted" THEN Goto(r, "placing") ELSE Reply(r, "rejected")
     /\ UNCHANGED tickets

ReserveTerminal(r, now) ==
  LET t == tickets[Session(r)]
  IN /\ now <= t.expiresAt
     /\ t.status \in {"accepted", "rejected"}
     /\ IF t.fingerprint = requests[r].submission /\ t.terminal # "none"
          THEN IF t.terminal = "accepted" THEN Goto(r, "placing") ELSE Reply(r, "rejected")
          ELSE Reply(r, "ticket_conflict")
     /\ UNCHANGED tickets

LeaseIsLive(t, now) == t.status = "verifying" /\ t.leaseUntil > now

(* Bug: whoever meets a live lease is a conflict, its own retries too. *)
BusyIsConflict(r, now) ==
  /\ now <= tickets[Session(r)].expiresAt
  /\ LeaseIsLive(tickets[Session(r)], now)
  /\ Reply(r, "ticket_conflict")
  /\ UNCHANGED tickets

(* Bug: a retry waits for the live lease instead of being told to retry. *)
BusyWaits(r, now) ==
  LET t == tickets[Session(r)]
  IN /\ now <= t.expiresAt
     /\ LeaseIsLive(t, now)
     /\ t.fingerprint # requests[r].submission
     /\ Reply(r, "ticket_conflict")
     /\ UNCHANGED tickets

ReserveBusy(r, now) ==
  LET t == tickets[Session(r)]
  IN /\ now <= t.expiresAt
     /\ LeaseIsLive(t, now)
     /\ Reply(r, IF t.fingerprint = requests[r].submission
                   THEN "submission_in_progress" ELSE "ticket_conflict")
     /\ UNCHANGED tickets

(* Bug: a finished ticket can be reserved again. *)
ReserveFinished(r, now) ==
  /\ now <= tickets[Session(r)].expiresAt
  /\ ~LeaseIsLive(tickets[Session(r)], now)
  /\ tickets' = [tickets EXCEPT ![Session(r)] =
                   [@ EXCEPT !.status = "verifying", !.lease = r,
                             !.leaseUntil = now + LeaseTime,
                             !.fingerprint = requests[r].submission]]
  /\ Goto(r, "verifying")

ReserveFree(r, now) ==
  LET t == tickets[Session(r)]
  IN /\ now <= t.expiresAt
     /\ t.status \notin {"accepted", "rejected"}
     /\ ~LeaseIsLive(t, now)
     /\ tickets' = [tickets EXCEPT ![Session(r)] =
                      [t EXCEPT !.status = "verifying", !.lease = r,
                                !.leaseUntil = now + LeaseTime,
                                !.fingerprint = requests[r].submission]]
     /\ \E ack \in Acknowledged : GotoAck(r, "verifying", ack)

ReserveTicket(r, now) ==
  /\ \/ ReserveExpired(r, now)
     \/ ReserveTerminal(r, now)
     \/ ReserveBusy(r, now)
     \/ ReserveFree(r, now)
  /\ UNCHANGED <<clock, results>>

(* The durable call samples Date.now() and then waits for a connection and *)
(* for the row lock of SELECT ... FOR UPDATE.                              *)
AskReservation(r) ==
  /\ Durable
  /\ requests[r].stage = "admitted"
  /\ requests' = [requests EXCEPT ![r].stage = "reserving", ![r].sampled = clock]
  /\ UNCHANGED <<clock, tickets, results>>

(* The in-memory store runs in the same turn that samples Date.now().      *)
Reserve(r) ==
  /\ requests[r].stage = IF Durable THEN "reserving" ELSE "admitted"
  /\ ReserveTicket(r, IF Durable THEN requests[r].sampled ELSE clock)

-----------------------------------------------------------------------------
(* The executor and the ends of the handler *)

StageAfter(verdict) ==
  CASE verdict = "match"      -> "accepting"
    [] verdict = "refuted"    -> "rejecting"
    [] verdict = "incomplete" -> "releasing"

(* VerificationExecutor.verify: the deterministic verdict, or a capacity   *)
(* error (queue full, deadline, worker failure) at any time.               *)
Verify(r) ==
  /\ requests[r].stage = "verifying"
  /\ \/ Goto(r, StageAfter(Verdict[requests[r].submission]))
     \/ Goto(r, "releasing")
  /\ UNCHANGED <<clock, tickets, results>>

(* ArcadeStore.releaseReservation: only the holder's lease is given back. *)
Release(r) ==
  /\ requests[r].stage = "releasing"
  /\ IF HoldsLease(r)
       THEN tickets' = [tickets EXCEPT ![Session(r)] =
                          [@ EXCEPT !.status = "issued", !.lease = NoRequest,
                                    !.leaseUntil = 0, !.fingerprint = NoSubmission]]
       ELSE UNCHANGED tickets
  /\ \E code \in {"capacity", "verifier_contract"}, ack \in Acknowledged :
        /\ code = "verifier_contract" => Verdict[requests[r].submission] = "incomplete"
        /\ ReplyAck(r, code, ack)
  /\ UNCHANGED <<clock, results>>

(* The primary key of verification_results; the array of the memory store  *)
(* has none.                                                               *)
KeyTaken(s) == Durable /\ \E row \in results : row.session = s

(* The ticket becomes terminal and its result is inserted in one commit.   *)
Finalize(r, outcome) ==
  LET s == Session(r)
      t == tickets[s]
  IN /\ tickets' = [tickets EXCEPT ![s] =
                      [t EXCEPT !.status = outcome, !.terminal = outcome,
                                !.lease = IF Durable THEN NoRequest ELSE t.lease,
                                !.leaseUntil = IF Durable THEN 0 ELSE t.leaseUntil]]
     /\ results' = results \cup
          {[session |-> s, submission |-> requests[r].submission,
            verified |-> outcome = "accepted", writer |-> r]}

FinalizeAccepted(r) ==
  /\ requests[r].stage = "accepting"
  /\ \/ /\ ~HoldsLease(r)
        /\ Reply(r, "lease_lost")
        /\ UNCHANGED <<tickets, results>>
     \/ /\ HoldsLease(r)
        /\ KeyTaken(Session(r))     \* the INSERT fails, ROLLBACK, 503
        /\ Reply(r, "service_unavailable")
        /\ UNCHANGED <<tickets, results>>
     \/ /\ HoldsLease(r)
        /\ ~KeyTaken(Session(r))
        /\ Finalize(r, "accepted")
        /\ \E ack \in Acknowledged : GotoAck(r, "placing", ack)
  /\ UNCHANGED clock

(* The handler ignores the boolean finalizeRejected returns. *)
FinalizeRejected(r) ==
  /\ requests[r].stage = "rejecting"
  /\ \/ /\ ~HoldsLease(r)
        /\ Reply(r, "rejected")
        /\ UNCHANGED <<tickets, results>>
     \/ /\ HoldsLease(r)
        /\ KeyTaken(Session(r))
        /\ Reply(r, "service_unavailable")
        /\ UNCHANGED <<tickets, results>>
     \/ /\ HoldsLease(r)
        /\ ~KeyTaken(Session(r))
        /\ Finalize(r, "rejected")
        /\ \E ack \in Acknowledged : ReplyAck(r, "rejected", ack)
  /\ UNCHANGED clock

(* placementsFor: read-only queries after the commit, then the answer. *)
PlaceAndReply(r) ==
  /\ requests[r].stage = "placing"
  /\ Reply(r, "accepted")
  /\ UNCHANGED <<clock, tickets, results>>

(* A store call of the durable store throws before it takes effect. *)
StoreStages == {"admitted", "expiring", "reserving", "releasing", "accepting",
                "rejecting", "placing"}

StoreFails(r) ==
  /\ Durable
  /\ requests[r].stage \in StoreStages
  /\ Reply(r, "service_unavailable")
  /\ UNCHANGED <<clock, tickets, results>>

(* The API instance dies and its client hears nothing; the rows survive. *)
Crash(r) ==
  /\ Durable
  /\ requests[r].stage \notin {"idle", "done", "lost"}
  /\ Goto(r, "lost")
  /\ UNCHANGED <<clock, tickets, results>>

-----------------------------------------------------------------------------
Handle(r) ==
  \/ ExpireTicket(r)
  \/ AskReservation(r)
  \/ Reserve(r)
  \/ Verify(r)
  \/ Release(r)
  \/ FinalizeAccepted(r)
  \/ FinalizeRejected(r)
  \/ PlaceAndReply(r)

Next ==
  \/ Tick
  \/ \E s \in Sessions : IssueTicket(s)
  \/ \E r \in Requests, sub \in Submissions : Submit(r, sub)
  \/ \E r \in Requests : Handle(r) \/ StoreFails(r) \/ Crash(r)

Spec == Init /\ [][Next]_vars

(* The event loop runs every continuation, the executor has a deadline and *)
(* the store answers or throws.                                            *)
FairSpec == Spec /\ \A r \in Requests : WF_vars(Handle(r))

-----------------------------------------------------------------------------
(* Properties *)

(* A session never holds two results, whatever leases lapse, crash or are  *)
(* taken over.  Durable: the primary key backs it; in memory it rests on   *)
(* a finished ticket never being reserved again.                           *)
OneResultPerTicket ==
  \A a, b \in results : a.session = b.session => a = b

(* Capacity errors, lost leases and races never turn an unverified claim   *)
(* into a result: what is stored is what the deterministic replay said.    *)
ResultsAreReplayed ==
  \A row \in results :
     /\ row.session = SessionOf[row.submission]
     /\ Verdict[row.submission] = IF row.verified THEN "match" ELSE "refuted"

(* A terminal ticket answers identical retries from fingerprint and        *)
(* terminal response: both belong to the result committed for it, even     *)
(* after several reservations of the ticket by different submissions.      *)
TerminalTicketHasItsResult ==
  \A s \in Sessions : tickets[s].status \in {"accepted", "rejected"} =>
       /\ tickets[s].terminal = tickets[s].status
       /\ \E row \in results :
            /\ row.session = s
            /\ row.submission = tickets[s].fingerprint
            /\ row.verified <=> tickets[s].status = "accepted"

(* A client that is told "accepted", first-hand or by an idempotent retry, *)
(* has exactly its submission on the leaderboard.                          *)
AcceptedReplyIsBacked ==
  \A r \in Requests :
     requests[r].reply = "accepted" =>
       \E row \in results : /\ row.submission = requests[r].submission
                            /\ row.verified

(* Only a different submission of the same ticket makes a ticket_conflict: *)
(* retries of one submission never lose the ticket to each other.          *)
IdenticalRetriesNeverConflict ==
  \A r \in Requests :
     requests[r].reply = "ticket_conflict" =>
       \E q \in Requests : /\ requests[q].stage # "idle"
                           /\ requests[q].submission # requests[r].submission
                           /\ Session(q) = Session(r)

(* What makes the properties above inductive. *)

(* Request state: a submission from arrival on, an answer only at the end, *)
(* the durable stages only with the durable store, and a finalizing stage  *)
(* only with the verdict that leads to it.                                 *)
Consistent(q) ==
  /\ q.stage # "idle" => q.submission \in Submissions
  /\ q.stage # "done" => q.reply = "none"
  /\ q.stage \in {"expiring", "reserving"} => Durable
  /\ q.stage = "accepting" => Verdict[q.submission] = "match"
  /\ q.stage = "rejecting" => Verdict[q.submission] = "refuted"
  /\ q.reply = "rejected" => Verdict[q.submission] = "refuted"

RequestsAreConsistent == \A r \in Requests : Consistent(requests[r])

(* A verifying ticket names the request that reserved it, and carries the  *)
(* fingerprint of that request's submission.                               *)
LeasesNameTheirHolder ==
  \A s \in Sessions :
     tickets[s].status = "verifying" =>
       /\ tickets[s].lease \in Requests
       /\ requests[tickets[s].lease].stage # "idle"
       /\ tickets[s].fingerprint = requests[tickets[s].lease].submission

(* A request on its way to answer "accepted" finds its result committed.   *)
PlacedIsBacked ==
  \A r \in Requests :
     requests[r].stage = "placing" =>
       \E row \in results : /\ row.submission = requests[r].submission
                            /\ row.verified

(* Without a primary key: a ticket with a result is terminal, or expired   *)
(* at a time no later reservation can undercut.                            *)
FinishedInMemory ==
  ~Durable =>
     \A row \in results :
        \/ tickets[row.session].status \in {"accepted", "rejected"}
        \/ /\ tickets[row.session].status = "expired"
           /\ clock > tickets[row.session].expiresAt

(* The inductive invariant of the handler over either store. *)
IInv ==
  /\ TypeOK
  /\ OneResultPerTicket
  /\ ResultsAreReplayed
  /\ TerminalTicketHasItsResult
  /\ AcceptedReplyIsBacked
  /\ RequestsAreConsistent
  /\ LeasesNameTheirHolder
  /\ PlacedIsBacked
  /\ FinishedInMemory

(* Every request that is being handled is answered, unless its API         *)
(* instance dies: no lease, lapsed holder or key violation blocks it.      *)
EveryRequestIsAnswered ==
  \A r \in Requests :
     requests[r].stage \notin {"idle", "done", "lost"} ~>
       requests[r].stage \in {"done", "lost"}

(* The ledger the clients rely on: the committed result of each session,   *)
(* and each client's answer with the submission it is about.               *)
Word(reply) == IF reply \in {"accepted", "rejected"} THEN reply ELSE "undecided"

ledgerBar ==
  [s \in Sessions |->
     {[submission |-> row.submission, verified |-> row.verified] :
        row \in {x \in results : x.session = s}}]

answersBar ==
  [r \in Requests |->
     IF requests[r].reply = "none" THEN {}
     ELSE {[about |-> requests[r].submission, said |-> Word(requests[r].reply)]}]

Ledger == INSTANCE ResultLedger WITH ledger <- ledgerBar, answers <- answersBar

(* The handler implements the write-once ledger. *)
LedgerSpec == Ledger!Spec

(* phase-7-verification-backend.md draws no transition out of accepted or  *)
(* rejected: a terminal ticket keeps its status.                           *)
TerminalTicketsStayTerminal ==
  [][\A s \in Sessions :
       tickets[s].status \in {"accepted", "rejected"} =>
         tickets'[s].status = tickets[s].status]_vars
=============================================================================
