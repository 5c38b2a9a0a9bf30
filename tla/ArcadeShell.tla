---------------------------- MODULE ArcadeShell ----------------------------
(***************************************************************************)
(* The arcade shell of apps/web/src/arcade/shell.ts: one player, the host  *)
(* page, the games it launches and the two services it calls.              *)
(*                                                                         *)
(* JavaScript runs one task at a time: a click, a timer, an event or the   *)
(* settling of a promise is a step, and every await is a place where other *)
(* steps come between.  Continuations that are already due (microtasks)    *)
(* run before the next task; steps of that kind are the Jobs below, and    *)
(* tasks wait until no job is due (Quiet).  The waiters of one teardown    *)
(* resume in the order in which they began to wait.                        *)
(***************************************************************************)
EXTENDS Naturals, Sequences

CONSTANTS Games,         \* registered manifests
          Ranked,        \* those with verified evidence; they can suspend
          MaxOps,        \* bound on operation ids: the last launch never completes
          MaxWaiters,    \* bound on callers waiting for one teardown
          LoadOutcomes,  \* how manifest.load() settles: ok, error, abort
          ReadyOutcomes  \* how handle.ready settles: ok, error, abort

ASSUME GamesAssumption == Ranked \subseteq Games
ASSUME BoundsAssumption == MaxOps \in Nat /\ MaxWaiters \in Nat
ASSUME OutcomesAssumption ==
  /\ LoadOutcomes \subseteq {"ok", "error", "abort"}
  /\ ReadyOutcomes \subseteq {"ok", "error", "abort"}

VARIABLES kind,     \* snapshot.kind
          threw,    \* some transition() has thrown
          current,  \* the id of the operation in charge, 0 for none
          nextId,   \* nextOperationId
          launch,   \* launch operations by id
          result,   \* result operations by id
          game,     \* the game instance of each launch
          screen,   \* what the root element shows
          away      \* the suspension reasons that hold: tab hidden, device turned

vars == <<kind, threw, current, nextId, launch, result, game, screen, away>>

Kinds == {"SELECTING", "LOADING_MODULE", "ACQUIRING_SESSION", "LAUNCHING", "PLAYING",
          "COMPLETING", "TEARING_DOWN", "RESULTS", "ERROR", "DESTROYED"}

Allowed ==
  [SELECTING         |-> {"LOADING_MODULE", "DESTROYED"},
   LOADING_MODULE    |-> {"ACQUIRING_SESSION", "TEARING_DOWN"},
   ACQUIRING_SESSION |-> {"LAUNCHING", "TEARING_DOWN"},
   LAUNCHING         |-> {"PLAYING", "TEARING_DOWN"},
   PLAYING           |-> {"COMPLETING", "TEARING_DOWN"},
   COMPLETING        |-> {"TEARING_DOWN"},
   TEARING_DOWN      |-> {"SELECTING", "RESULTS", "ERROR", "LOADING_MODULE", "DESTROYED"},
   RESULTS           |-> {"TEARING_DOWN", "DESTROYED"},
   ERROR             |-> {"SELECTING", "LOADING_MODULE", "DESTROYED"},
   DESTROYED         |-> {}]

Ids == 1..MaxOps
Reasons == {"visibility", "orientation"}
Waiters == {"cancel", "fail", "complete", "destroy"}

(* at: which await of runLaunch the operation is in; "resumed" once ready  *)
(* has resolved and the continuation is due.  failing: acceptCompletion    *)
(* has queued a contract failure.                                          *)
Launch == [game     : Games,
           at       : {"loading", "session", "ready", "resumed", "over"},
           aborted  : BOOLEAN,
           handle   : BOOLEAN,
           ticketed : BOOLEAN,
           ending   : BOOLEAN,
           accepted : BOOLEAN,
           failing  : BOOLEAN,
           reasons  : SUBSET Reasons,
           teardown : {"none", "running", "settled"},
           waiters  : Seq(Waiters)]

ResultOp == [game    : Games,
             of      : Ids,
             aborted : BOOLEAN,
             pending : BOOLEAN,
             status  : {"unranked", "submitting", "verified", "rejected", "failed"}]

Screen == [shows : {"selection", "pending", "surface", "results", "error", "nothing"},
           of    : Ids \cup {0}]

(* Launches and results share the ids; launch and result are partial. *)
TypeOK ==
  /\ kind \in Kinds
  /\ threw \in BOOLEAN
  /\ current \in Ids \cup {0}
  /\ nextId \in 1..(MaxOps + 1)
  /\ DOMAIN launch \cup DOMAIN result = 1..(nextId - 1)
  /\ \A i \in DOMAIN launch : launch[i] \in Launch
  /\ \A i \in DOMAIN result : result[i] \in ResultOp
  /\ game \in [Ids -> {"none", "live", "gone"}]
  /\ screen \in Screen
  /\ away \subseteq Reasons

-----------------------------------------------------------------------------
(* Helpers *)

Launches == DOMAIN launch
Results == DOMAIN result

Show(what, i) == screen' = [shows |-> what, of |-> i]

(* ArcadeShell.transition, once or several times in one step.              *)
Transition(kinds) ==
  LET from(n) == IF n = 1 THEN kind ELSE kinds[n - 1]
  IN /\ kind' = kinds[Len(kinds)]
     /\ threw' = (threw \/ \E n \in DOMAIN kinds :
                             kinds[n] # from(n) /\ kinds[n] \notin Allowed[from(n)])

Owns(i) == current = i /\ ~launch[i].aborted

DueWaiter(i) == launch[i].teardown = "settled" /\ launch[i].waiters # <<>>

Job(i) == launch[i].failing \/ launch[i].at = "resumed" \/ DueWaiter(i)

Quiet == \A i \in Launches : ~Job(i)

(* teardownLaunch, called by waiter: the signal is aborted, the game is    *)
(* asked to destroy itself once, and every caller waits for that.          *)
TornDown(op, waiter) ==
  [op EXCEPT !.ending = TRUE, !.aborted = TRUE,
             !.teardown = IF @ # "none" THEN @ ELSE IF op.handle THEN "running" ELSE "settled",
             !.waiters = Append(@, waiter)]

Extend(f, i, v) == [j \in DOMAIN f \cup {i} |-> IF j = i THEN v ELSE f[j]]

(* The launch i, now op, begins its teardown and passes through kinds. *)
EndLaunch(i, op, kinds, waiter) ==
  /\ launch' = [launch EXCEPT ![i] = TornDown(op, waiter)]
  /\ Transition(kinds \o <<"TEARING_DOWN">>)

(* failLaunch, called by a handler that owns the shell. *)
FailLaunch(i, op, kinds) == EndLaunch(i, [op EXCEPT !.at = "over"], kinds, "fail")

Stay == UNCHANGED <<kind, threw>>

-----------------------------------------------------------------------------
Init ==
  /\ kind = "SELECTING"
  /\ threw = FALSE
  /\ current = 0
  /\ nextId = 1
  /\ launch = <<>>
  /\ result = <<>>
  /\ game = [i \in Ids |-> "none"]
  /\ screen = [shows |-> "selection", of |-> 0]
  /\ away = {}

(* beginLaunch, from the button of a game, of Play Again or of Retry. *)
Offered(g) ==
  \/ screen.shows = "selection"
  \/ screen.shows = "results" /\ result[screen.of].game = g
  \/ screen.shows = "error" /\ launch[screen.of].game = g

NewLaunch(g) ==
  [game |-> g, at |-> "loading", aborted |-> FALSE, handle |-> FALSE, ticketed |-> FALSE,
   ending |-> FALSE, accepted |-> FALSE, failing |-> FALSE, reasons |-> {},
   teardown |-> "none", waiters |-> <<>>]

BeginLaunch(g) ==
  /\ Quiet
  /\ Offered(g)
  /\ nextId \in Ids
  /\ \/ /\ kind \in {"SELECTING", "ERROR"}
        /\ Transition(<<"LOADING_MODULE">>)
        /\ UNCHANGED result
     \/ /\ kind = "RESULTS"
        /\ current \in Results
        /\ result' = [result EXCEPT ![current].aborted = TRUE]
        /\ Transition(<<"TEARING_DOWN", "LOADING_MODULE">>)
  /\ launch' = Extend(launch, nextId, NewLaunch(g))
  /\ current' = nextId
  /\ nextId' = nextId + 1
  /\ Show("pending", nextId)
  /\ UNCHANGED <<game, away>>

(* runLaunch from the session on: the module launches its game, throws, or *)
(* returns a handle that breaks the contract.                              *)
LaunchModule(i, op, kinds) ==
  \/ /\ launch' = [launch EXCEPT ![i] = [op EXCEPT !.at = "ready", !.handle = TRUE]]
     /\ game' = [game EXCEPT ![i] = "live"]
     /\ Transition(kinds \o <<"LAUNCHING">>)
     /\ Show("surface", i)
  \/ /\ FailLaunch(i, op, kinds \o <<"LAUNCHING">>)
     /\ Show("surface", i)
     /\ UNCHANGED game
  \/ /\ FailLaunch(i, [op EXCEPT !.handle = TRUE], kinds \o <<"LAUNCHING">>)
     /\ game' = [game EXCEPT ![i] = "live"]
     /\ Show("surface", i)

(* The catch of runLaunch: an AbortError ends the launch silently. *)
CatchLaunch(i, outcome) ==
  \/ /\ outcome = "abort"
     /\ launch' = [launch EXCEPT ![i].at = "over"]
     /\ Stay
  \/ /\ outcome = "error"
     /\ FailLaunch(i, launch[i], <<>>)

Abandon(i) ==
  /\ launch' = [launch EXCEPT ![i].at = "over"]
  /\ Stay
  /\ UNCHANGED <<game, screen>>

(* manifest.load() settles, however late; it does not know the signal. *)
LoadSettles(i, outcome) ==
  /\ Quiet
  /\ launch[i].at = "loading"
  /\ \/ /\ ~Owns(i)
        /\ Abandon(i)
     \/ /\ Owns(i)
        /\ outcome = "ok"
        /\ launch[i].game \in Ranked
        /\ launch' = [launch EXCEPT ![i].at = "session"]
        /\ Transition(<<"ACQUIRING_SESSION">>)
        /\ UNCHANGED <<game, screen>>
     \/ /\ Owns(i)
        /\ outcome = "ok"
        /\ launch[i].game \notin Ranked
        /\ LaunchModule(i, launch[i], <<"ACQUIRING_SESSION">>)
     \/ /\ Owns(i)
        /\ CatchLaunch(i, outcome)
        /\ UNCHANGED <<game, screen>>
  /\ UNCHANGED <<current, nextId, result, away>>

(* Bug: the session is used without asking who owns the shell now. *)
SessionAlwaysLaunches(i, outcome) ==
  /\ Quiet
  /\ launch[i].at = "session"
  /\ \/ /\ outcome # "refused"
        /\ LaunchModule(i, [launch[i] EXCEPT !.ticketed = outcome = "ticketed"], <<>>)
     \/ /\ Owns(i)
        /\ outcome = "refused"
        /\ FailLaunch(i, launch[i], <<>>)
        /\ UNCHANGED <<game, screen>>
  /\ UNCHANGED <<current, nextId, result, away>>

(* fetchSession settles: a ticket, the unranked fallback of a network      *)
(* failure or of the 8 s deadline, or a refusal by the API.                *)
SessionSettles(i, outcome) ==
  /\ Quiet
  /\ launch[i].at = "session"
  /\ \/ /\ ~Owns(i)
        /\ Abandon(i)
     \/ /\ Owns(i)
        /\ outcome # "refused"
        /\ LaunchModule(i, [launch[i] EXCEPT !.ticketed = outcome = "ticketed"], <<>>)
     \/ /\ Owns(i)
        /\ outcome = "refused"
        /\ FailLaunch(i, launch[i], <<>>)
        /\ UNCHANGED <<game, screen>>
  /\ UNCHANGED <<current, nextId, result, away>>

(* waitForReady settles: ready, rejected, or past its deadline.  Having    *)
(* resolved, the continuation is still one job away.                       *)
ReadySettles(i, outcome) ==
  /\ Quiet
  /\ launch[i].at = "ready"
  /\ \/ /\ ~Owns(i)
        /\ Abandon(i)
     \/ /\ Owns(i)
        /\ outcome = "ok"
        /\ launch' = [launch EXCEPT ![i].at = "resumed"]
        /\ Stay
        /\ UNCHANGED <<game, screen>>
     \/ /\ Owns(i)
        /\ CatchLaunch(i, outcome)
        /\ UNCHANGED <<game, screen>>
  /\ UNCHANGED <<current, nextId, result, away>>

CanSuspend(g) == g \in Ranked

(* Bug: the gates that closed while the game was booting stay unnoticed. *)
ForgetsGates(i) ==
  /\ launch[i].at = "resumed"
  /\ \/ /\ ~Owns(i)
        /\ Abandon(i)
     \/ /\ Owns(i)
        /\ Transition(<<"PLAYING">>)
        /\ launch' = [launch EXCEPT ![i].at = "over"]
        /\ UNCHANGED <<game, screen>>
  /\ UNCHANGED <<current, nextId, result, away>>

(* Bug: the continuation of ready does not ask who owns the shell now. *)
AlwaysPlays(i) ==
  /\ launch[i].at = "resumed"
  /\ Transition(<<"PLAYING">>)
  /\ launch' = [launch EXCEPT ![i].at = "over"]
  /\ UNCHANGED <<current, nextId, result, game, screen, away>>

(* The game is playable and meets every gate that is closed right now. *)
EnterPlaying(i) ==
  /\ launch[i].at = "resumed"
  /\ \/ /\ ~Owns(i)
        /\ Abandon(i)
     \/ /\ Owns(i)
        /\ Transition(<<"PLAYING">>)
        /\ launch' = [launch EXCEPT ![i].at = "over",
                                    ![i].reasons = IF CanSuspend(launch[i].game) THEN away ELSE @]
        /\ UNCHANGED <<game, screen>>
  /\ UNCHANGED <<current, nextId, result, away>>

-----------------------------------------------------------------------------
(* The game and its end *)

(* Bug: a completion is taken before the game is playable.                 *)
AcceptsEarly(i, valid) ==
  /\ game[i] # "none"
  /\ ~launch[i].accepted
  /\ Owns(i)
  /\ \/ /\ ~valid
        /\ launch' = [launch EXCEPT ![i].failing = TRUE]
        /\ Stay
     \/ /\ valid /\ nextId \in Ids
        /\ EndLaunch(i, [launch[i] EXCEPT !.accepted = TRUE], <<"COMPLETING">>, "complete")
  /\ UNCHANGED <<current, nextId, result, game, screen, away>>

(* Context.complete of launch i, called by its game at any time. *)
AcceptCompletion(i, valid) ==
  /\ game[i] # "none"
  /\ ~launch[i].accepted
  /\ Owns(i)
  /\ \/ /\ kind # "PLAYING"
        /\ launch' = [launch EXCEPT ![i].failing = TRUE]
        /\ Stay
     \/ /\ kind = "PLAYING"
        /\ ~valid
        /\ launch' = [launch EXCEPT ![i].failing = TRUE]
        /\ Stay
     \/ /\ kind = "PLAYING"
        /\ valid
        /\ nextId \in Ids
        /\ EndLaunch(i, [launch[i] EXCEPT !.accepted = TRUE], <<"COMPLETING">>, "complete")
  /\ UNCHANGED <<current, nextId, result, game, screen, away>>

(* The microtask that acceptCompletion queued; later ones change nothing.  *)
FailCompletion(i) ==
  /\ launch[i].failing
  /\ LET op == [launch[i] EXCEPT !.failing = FALSE]
     IN \/ /\ Owns(i) /\ ~launch[i].ending
           /\ EndLaunch(i, op, <<>>, "fail")
        \/ /\ ~(Owns(i) /\ ~launch[i].ending)
           /\ launch' = [launch EXCEPT ![i] = op]
           /\ Stay
  /\ UNCHANGED <<current, nextId, result, game, screen, away>>

(* handle.destroy() resolves, rejects, or exceeds the 5 s deadline; in the  *)
(* last two cases the shell gives the game up.  The reasons it was         *)
(* suspended for mean nothing any more.                                    *)
TeardownSettles(i) ==
  /\ Quiet
  /\ launch[i].teardown = "running"
  /\ launch' = [launch EXCEPT ![i].teardown = "settled", ![i].handle = FALSE,
                              ![i].reasons = {}]
  /\ game' = [game EXCEPT ![i] = "gone"]
  /\ Stay
  /\ UNCHANGED <<current, nextId, result, screen, away>>

(* The waiter at the head of a settled teardown goes on. *)
AfterTeardown(i, waiter) ==
  /\ DueWaiter(i)
  /\ waiter = Head(launch[i].waiters)
  /\ launch' = [launch EXCEPT ![i].waiters = Tail(@)]

Overtaken(i) == current # i \/ kind = "DESTROYED"

(* Bug: after its teardown a failed launch asks whether it still owns the  *)
(* shell, which its own abort has made impossible.                         *)
FinishesOnlyAsOwner(i) ==
  /\ AfterTeardown(i, "fail")
  /\ \/ /\ ~Owns(i)
        /\ Stay
        /\ UNCHANGED <<current, screen>>
     \/ /\ Owns(i)
        /\ current' = 0
        /\ Transition(<<"ERROR">>)
        /\ Show("error", i)
  /\ UNCHANGED <<nextId, result, game, away>>

FinishFailure(i) ==
  /\ AfterTeardown(i, "fail")
  /\ \/ /\ Overtaken(i)
        /\ Stay
        /\ UNCHANGED <<current, screen>>
     \/ /\ ~Overtaken(i)
        /\ current' = 0
        /\ Transition(<<"ERROR">>)
        /\ Show("error", i)
  /\ UNCHANGED <<nextId, result, game, away>>

FinishCancel(i) ==
  /\ AfterTeardown(i, "cancel")
  /\ \/ /\ Overtaken(i)
        /\ Stay
        /\ UNCHANGED <<current, screen>>
     \/ /\ ~Overtaken(i)
        /\ current' = 0
        /\ Transition(<<"SELECTING">>)
        /\ Show("selection", 0)
  /\ UNCHANGED <<nextId, result, game, away>>

(* finishCompletion after the teardown: the results, and the submission    *)
(* of a ticketed session.                                                  *)
FinishCompletion(i) ==
  /\ AfterTeardown(i, "complete")
  /\ \/ /\ Overtaken(i)
        /\ Stay
        /\ UNCHANGED <<current, nextId, result, screen>>
     \/ /\ ~Overtaken(i)
        /\ result' = Extend(result, nextId,
                       [game |-> launch[i].game, of |-> i, aborted |-> FALSE,
                        pending |-> launch[i].ticketed,
                        status |-> IF launch[i].ticketed THEN "submitting" ELSE "unranked"])
        /\ current' = nextId
        /\ nextId' = nextId + 1
        /\ Transition(<<"RESULTS">>)
        /\ Show("results", nextId)
  /\ UNCHANGED <<game, away>>

(* submitResult settles; a response that comes late changes nothing. *)
SubmissionSettles(i, status) ==
  /\ Quiet
  /\ result[i].pending
  /\ result' = [result EXCEPT ![i].pending = FALSE,
                  ![i].status = IF current = i /\ ~result[i].aborted THEN status ELSE @]
  /\ Stay
  /\ UNCHANGED <<current, nextId, launch, game, screen, away>>

-----------------------------------------------------------------------------
(* The player and the page *)

(* cancelLaunch, from Cancel, from Back or from exit(). *)
CancelLaunch(i) ==
  /\ Quiet
  /\ Owns(i)
  /\ ~launch[i].ending
  /\ EndLaunch(i, launch[i], <<>>, "cancel")
  /\ UNCHANGED <<current, nextId, result, game, screen, away>>

(* exit() from the results or from an error. *)
LeaveScreen ==
  /\ Quiet
  /\ \/ /\ current \in Results
        /\ result' = [result EXCEPT ![current].aborted = TRUE]
        /\ Transition(<<"TEARING_DOWN", "SELECTING">>)
     \/ /\ current = 0
        /\ kind = "ERROR"
        /\ Transition(<<"SELECTING">>)
        /\ UNCHANGED result
  /\ current' = 0
  /\ Show("selection", 0)
  /\ UNCHANGED <<nextId, launch, game, away>>

(* The synchronous end of destroy(). *)
Closed(kinds) ==
  /\ current' = 0
  /\ Show("nothing", 0)
  /\ Transition(kinds \o <<"DESTROYED">>)

(* Bug: destroy() takes the shell down without waiting for the game. *)
DestroysAtOnce ==
  /\ Quiet
  /\ kind # "DESTROYED"
  /\ IF current \in Results
       THEN result' = [result EXCEPT ![current].aborted = TRUE] ELSE UNCHANGED result
  /\ IF current \in Launches
       THEN launch' = [launch EXCEPT ![current].ending = TRUE, ![current].aborted = TRUE]
       ELSE UNCHANGED launch
  /\ Closed(IF current \in Launches THEN <<"TEARING_DOWN">> ELSE <<>>)
  /\ UNCHANGED <<nextId, game, away>>

Destroy ==
  /\ Quiet
  /\ kind # "DESTROYED"
  /\ \/ /\ current \in Launches
        /\ Len(launch[current].waiters) < MaxWaiters
        /\ EndLaunch(current, launch[current], <<>>, "destroy")
        /\ UNCHANGED <<current, result, screen>>
     \/ /\ current \in Results
        /\ result' = [result EXCEPT ![current].aborted = TRUE]
        /\ Closed(<<>>)
        /\ UNCHANGED launch
     \/ /\ current = 0
        /\ Closed(<<>>)
        /\ UNCHANGED <<launch, result>>
  /\ UNCHANGED <<nextId, game, away>>

(* destroy() goes on, whatever the waiters before it have made current. *)
FinishDestroy(i) ==
  /\ AfterTeardown(i, "destroy")
  /\ Closed(<<>>)
  /\ UNCHANGED <<nextId, result, game, away>>

(* The tab is hidden or shown, the device turned: applySuspension.  Once   *)
(* the shell is destroyed nobody listens.                                  *)
GateChanges(reason) ==
  LET now == IF reason \in away THEN away \ {reason} ELSE away \cup {reason}
      hit == /\ kind = "PLAYING"
             /\ current \in Launches
             /\ CanSuspend(launch[current].game)
  IN /\ Quiet
     /\ away' = now
     /\ IF hit
          THEN launch' = [launch EXCEPT ![current].reasons = (@ \ {reason}) \cup (now \cap {reason})]
          ELSE UNCHANGED launch
     /\ Stay
     /\ UNCHANGED <<current, nextId, result, game, screen>>

-----------------------------------------------------------------------------
Due(i) ==
  \/ EnterPlaying(i)
  \/ FailCompletion(i)
  \/ FinishFailure(i)
  \/ FinishCancel(i)
  \/ FinishCompletion(i)
  \/ FinishDestroy(i)

(* Promises with a deadline, and the module load, which the browser ends.  *)
Settles(i) ==
  \/ \E o \in LoadOutcomes : LoadSettles(i, o)
  \/ \E o \in {"ticketed", "unranked", "refused"} : SessionSettles(i, o)
  \/ \E o \in ReadyOutcomes : ReadySettles(i, o)
  \/ TeardownSettles(i)

Next ==
  \/ \E g \in Games : BeginLaunch(g)
  \/ \E i \in Launches : Due(i) \/ Settles(i) \/ CancelLaunch(i)
  \/ \E i \in Launches, valid \in BOOLEAN : AcceptCompletion(i, valid)
  \/ \E i \in Results, status \in {"verified", "rejected", "failed"} : SubmissionSettles(i, status)
  \/ LeaveScreen
  \/ Destroy
  \/ \E reason \in Reasons : GateChanges(reason)

Spec == Init /\ [][Next]_vars

(* The event loop runs what is due, and what it waits for settles.  No     *)
(* fairness is asked of the player, the game or the API.                   *)
FairSpec ==
  /\ Spec
  /\ \A i \in Ids : WF_vars(i \in Launches /\ (Due(i) \/ Settles(i)))

-----------------------------------------------------------------------------
(* Properties *)

(* transition() throws on a move ALLOWED_TRANSITIONS does not list, which  *)
(* would leave its handler half done: no interleaving of clicks, settled   *)
(* promises and destroy() ever makes it throw.                             *)
NoTransitionThrows == ~threw

(* A game that runs belongs to the launch in charge of the shell: none is  *)
(* left behind by a cancellation, a failure, a completion or destroy(),    *)
(* and no late promise starts a second one.                                *)
LiveGameIsCurrent ==
  \A i \in Ids : game[i] = "live" => current = i /\ launch[i].handle

(* What the player sees is the state the shell is in: no late continuation *)
(* draws over a newer screen.                                              *)
ScreenShowsState ==
  CASE kind = "SELECTING" -> screen.shows = "selection"
    [] kind \in {"LOADING_MODULE", "ACQUIRING_SESSION"} -> screen = [shows |-> "pending", of |-> current]
    [] kind \in {"LAUNCHING", "PLAYING"} -> screen = [shows |-> "surface", of |-> current]
    [] kind = "RESULTS" -> current \in Results /\ screen = [shows |-> "results", of |-> current]
    [] kind = "ERROR" -> screen.shows = "error"
    [] kind = "DESTROYED" -> screen.shows = "nothing"
    [] kind = "TEARING_DOWN" -> screen.of = current

(* A ranked game in play is suspended by exactly the gates that are        *)
(* closed, also those that closed while it was still booting.              *)
GatesAreApplied ==
  kind = "PLAYING" /\ CanSuspend(launch[current].game) => launch[current].reasons = away

(* Results are shown once for a launch, under an operation of their own,   *)
(* and only for a completion that was accepted from the game after its     *)
(* boot was over.                                                          *)
ResultsAreEarned ==
  \A i \in Results : /\ i \notin DOMAIN launch
                     /\ launch[result[i].of].accepted
                     /\ launch[result[i].of].at = "over"
                     /\ \A j \in Results : result[j].of = result[i].of => i = j

(* A launch reaches a state the player can act in, playable or over: unless *)
(* its module or game failed with an AbortError of its own, which runLaunch *)
(* takes for a cancellation (Swallowed) and which leaves the launch to the  *)
(* player's Cancel.                                                         *)
Starting == {"LOADING_MODULE", "ACQUIRING_SESSION", "LAUNCHING", "TEARING_DOWN"}
Swallowed == kind \in Starting \ {"TEARING_DOWN"} /\ launch[current].at = "over"
LaunchSettles == kind \in Starting ~> kind \notin Starting \/ Swallowed

(* phase-4-shell-lifecycle-hardening.md, l. 61: "Shell destruction         *)
(* releases listeners and the active operation before entering terminal    *)
(* DESTROYED": no submission of its results is left running.               *)
DestroyedReleasesAll ==
  kind = "DESTROYED" => \A i \in Results : result[i].pending => result[i].aborted
=============================================================================
