---------------------------- MODULE ReplayViewer ----------------------------
(***************************************************************************)
(* The development replay viewer: the form, the loading and the controls   *)
(* of apps/web/src/arcade/replay.ts, the game it mounts                    *)
(* (rug-pull-rumble/replay-adapter.ts) and the playback of its scene       *)
(* (scenes/ReplayScene.ts).  One viewer, from showReplayViewer to the end  *)
(* of its destroy().                                                       *)
(*                                                                         *)
(* A click, an animation frame and the settling of a promise are steps.    *)
(* Loads are numbered by operationId, which destroy() passes too.          *)
(***************************************************************************)
EXTENDS Naturals

CONSTANTS Envelopes,   \* what can be pasted: its identity and its trace
          MaxLoads,    \* bound on the loads of one viewer
          Deltas,      \* frame times, in quarters of a simulation step
          MaxSteps,    \* MAX_STEPS_PER_FRAME
          Speeds       \* the playback speeds, doubled: 1 is half speed

ASSUME BoundsAssumption ==
  /\ MaxLoads \in Nat /\ MaxSteps \in Nat /\ 2 \in Speeds
  /\ Deltas \subseteq Nat \ {0} /\ Speeds \subseteq Nat \ {0}

VARIABLES screen,       \* form, loading, player or nothing, and of which load
          operationId,
          controller,   \* the load whose controller the viewer holds, or 0
          handle,       \* the load whose handle the viewer holds, or 0
          timer,        \* the load whose progress is polled, or 0
          load,         \* the await each loadAndPlay is in, and what it plays
          game,         \* the Phaser game of each load: none, booting, running,
                        \* broken, dying, wedged (its loop is dead) or gone
          play,         \* the playback registry and scene of the latest game
          shown,        \* what the controls of the latest game say
          ending,       \* destroyPromise: none, waiting for the game, settled
          back          \* Back: not asked for, asked for, onBack() called

vars == <<screen, operationId, controller, handle, timer, load, game, play, shown,
          ending, back>>

Ids == 1..MaxLoads

(* A trace that decodes has a number of frames, and its fight is decided   *)
(* at the frame ko if it has that many.                                    *)
Trace == [decodes : BOOLEAN, frames : Nat, ko : Nat]
Envelope == [readable : BOOLEAN, game : STRING, schema : Nat, trace : Trace]
ASSUME EnvelopesAssumption == \A e \in Envelopes : e \in Envelope

-----------------------------------------------------------------------------
NoTrace == [decodes |-> FALSE, frames |-> 0, ko |-> 0]

(* The registry before the scene sets it, and the controls as rendered. *)
FreshPlay == [playing |-> TRUE, speed |-> 2, step |-> FALSE, frame |-> 0, acc |-> 0]
FreshControls == [playing |-> TRUE, speed |-> 2]

Init ==
  /\ screen = [shows |-> "form", of |-> 0]
  /\ operationId = 0
  /\ controller = 0
  /\ handle = 0
  /\ timer = 0
  /\ load = [i \in Ids |-> [at |-> "none", trace |-> NoTrace]]
  /\ game = [i \in Ids |-> "none"]
  /\ play = FreshPlay
  /\ shown = FreshControls
  /\ ending = "no"
  /\ back = "no"

Show(what, i) == screen' = [shows |-> what, of |-> i]

(* owns(): a viewer that is destroyed has dropped its controller. *)
Owns(i) == operationId = i /\ controller = i

Over(i) == load' = [load EXCEPT ![i].at = "over"]

-----------------------------------------------------------------------------
(* The registered manifests: what each game replays, or that it does not.  *)
Registry == [duel   |-> [replays |-> TRUE, schema |-> 1],
             flight |-> [replays |-> FALSE, schema |-> 1]]

(* parseReplayEnvelope and resolveReplayManifest accept it. *)
Resolves(e) ==
  /\ e.readable
  /\ e.game \in DOMAIN Registry
  /\ Registry[e.game].replays
  /\ Registry[e.game].schema = e.schema

(* Load is clicked: a refusal leaves the form as it is, with a message. *)
LoadAndPlay(e) ==
  /\ screen.shows = "form"
  /\ operationId < MaxLoads
  /\ Resolves(e)
  /\ operationId' = operationId + 1
  /\ controller' = operationId + 1
  /\ load' = [load EXCEPT ![operationId + 1] = [at |-> "adapter", trace |-> e.trace]]
  /\ Show("loading", operationId + 1)
  /\ UNCHANGED <<handle, timer, game, play, shown, ending, back>>

(* The catch of loadAndPlay, when no game has been launched. *)
BackToForm(i) ==
  /\ Over(i)
  /\ controller' = 0
  /\ Show("form", 0)

(* The adapter is launched into a fresh player. *)
Launched(i) ==
  /\ load' = [load EXCEPT ![i].at = "ready"]
  /\ game' = [game EXCEPT ![i] = "booting"]
  /\ handle' = i
  /\ play' = FreshPlay
  /\ shown' = FreshControls
  /\ Show("player", i)
  /\ UNCHANGED controller

(* replay.load() settles; with "error" it rejects, or launch() throws. *)
AdapterSettles(i, outcome) ==
  /\ load[i].at = "adapter"
  /\ \/ /\ Owns(i)
        /\ outcome = "ok"
        /\ Launched(i)
     \/ /\ Owns(i)
        /\ outcome = "error"
        /\ BackToForm(i)
        /\ UNCHANGED <<handle, game, play, shown>>
     \/ /\ ~Owns(i)
        /\ Over(i)
        /\ UNCHANGED <<screen, controller, handle, game, play, shown>>
  /\ UNCHANGED <<operationId, timer, ending, back>>

(* ReplayScene.create: the trace is decoded, the playback gets its         *)
(* defaults, ready resolves and the progress is polled from then on.  If   *)
(* the trace does not decode the exception goes to Phaser's loop: no       *)
(* further frame, and ready never settles.                                 *)
Create(i) ==
  /\ game[i] = "booting"
  /\ \/ /\ load[i].trace.decodes
        /\ game' = [game EXCEPT ![i] = "running"]
        /\ play' = [play EXCEPT !.playing = TRUE, !.speed = 2, !.frame = 0, !.acc = 0]
        /\ Over(i)
        /\ timer' = IF Owns(i) /\ handle = i THEN i ELSE timer
     \/ /\ ~load[i].trace.decodes
        /\ game' = [game EXCEPT ![i] = "broken"]
        /\ UNCHANGED <<play, load, timer>>
  /\ UNCHANGED <<screen, operationId, controller, handle, shown, ending, back>>

(* destroy() of the handle: Phaser ends the game on its next frame, which  *)
(* a game whose loop has died does not have.                               *)
Dying(i) ==
  [game EXCEPT ![i] = CASE @ \in {"booting", "running"} -> "dying"
                        [] @ = "broken" -> "wedged"
                        [] OTHER -> @]

(* The ready of an adapter rejects: the catch destroys the game first. *)
ReadyRejects(i) ==
  /\ game[i] = "booting"
  /\ Owns(i)
  /\ load' = [load EXCEPT ![i].at = "failing"]
  /\ handle' = 0
  /\ game' = Dying(i)
  /\ UNCHANGED <<screen, operationId, controller, timer, play, shown, ending, back>>

(* Bug: after the game's destruction the form is drawn, whoever owns it.   *)
FailureAlwaysReturns(i) ==
  /\ load[i].at = "failing"
  /\ BackToForm(i)
  /\ UNCHANGED <<ending, back>>

(* The catch of loadAndPlay goes on after handle.destroy(). *)
FinishFailure(i) ==
  /\ load[i].at = "failing"
  /\ \/ /\ Owns(i)
        /\ BackToForm(i)
     \/ /\ ~Owns(i)
        /\ Over(i)
        /\ UNCHANGED <<screen, controller>>
  /\ UNCHANGED <<ending, back>>

(* The synchronous end of destroy(), and the continuation of back(). *)
Emptied ==
  /\ ending' = "settled"
  /\ Show("nothing", 0)

Leave(asked) == back' = IF asked # "no" THEN "left" ELSE "no"

(* Bug: destroy(), resumed, asks who owns the viewer it has given up.      *)
LeavesOnlyAsOwner(i) ==
  /\ load[i].at # "failing"
  /\ ending = "waiting"
  /\ UNCHANGED <<screen, ending, back, controller, load>>

(* destroy() goes on after handle.destroy(). *)
FinishDestroy(i) ==
  /\ load[i].at # "failing"
  /\ ending = "waiting"
  /\ Emptied
  /\ Leave(back)
  /\ UNCHANGED <<controller, load>>

(* Phaser has destroyed the game: whoever awaited that goes on. *)
GameDestroyed(i) ==
  /\ game[i] \in {"dying", "wedged"}
  /\ game' = [game EXCEPT ![i] = "gone"]
  /\ FinishFailure(i) \/ FinishDestroy(i)
  /\ UNCHANGED <<operationId, handle, timer, play, shown>>

(* destroy(), the first time: the load in progress loses the viewer, and   *)
(* its game, if it has one, is destroyed before the root is emptied.  The  *)
(* ready of that game rejects at once, which ends its load.                *)
StartDestroy(asked) ==
  /\ ending = "no"
  /\ operationId' = operationId + 1
  /\ controller' = 0
  /\ handle' = 0
  /\ timer' = 0
  /\ \/ /\ handle = 0
        /\ Emptied
        /\ Leave(asked)
        /\ UNCHANGED <<game, load>>
     \/ /\ handle # 0
        /\ game' = Dying(handle)
        /\ Over(handle)
        /\ ending' = "waiting"
        /\ back' = asked
        /\ UNCHANGED screen
  /\ UNCHANGED <<play, shown>>

(* Back is clicked; clicked again it waits for the same destroy(). *)
Back ==
  /\ screen.shows # "nothing"
  /\ \/ StartDestroy("asked")
     \/ /\ ending = "waiting"
        /\ back = "no"
        /\ back' = "asked"
        /\ UNCHANGED <<screen, operationId, controller, handle, timer, load, game, play,
                       shown, ending>>

(* The router destroys the viewer: the hash changed, or the page is left. *)
Destroy == StartDestroy("no")

-----------------------------------------------------------------------------
(* Playback *)

Current == screen.of
Alive(i) == game[i] \in {"booting", "running", "broken"}

(* A control is used: the handle ignores it once it is destroyed.          *)
Control(newPlay, newShown) ==
  /\ screen.shows = "player"
  /\ shown' = newShown
  /\ IF Alive(Current)
       THEN play' = newPlay
       ELSE UNCHANGED play
  /\ UNCHANGED <<screen, operationId, controller, handle, timer, load, game, ending, back>>

Toggle == Control([play EXCEPT !.playing = ~@], [shown EXCEPT !.playing = ~play.playing])

Step == Control([play EXCEPT !.playing = FALSE, !.step = TRUE], [shown EXCEPT !.playing = FALSE])

SetSpeed(speed) == Control([play EXCEPT !.speed = speed], [shown EXCEPT !.speed = speed])

Least(a, b) == IF a < b THEN a ELSE b

LastFrame(i) == Least(load[i].trace.frames, load[i].trace.ko)

(* Bug: the last frame is taken for the end. *)
StopsShort(i, n) == Least(play.frame + n, LastFrame(i) - 1)

(* advance() does nothing past the trace or past the end of the fight. *)
Advanced(i, n) == Least(play.frame + n, LastFrame(i))

(* Time is counted in eighths of a simulation step.                        *)
StepLength == 8

Accumulated(delta) == Least(play.acc + delta * play.speed, MaxSteps * StepLength)

(* A single step comes before the accumulated time, which it leaves alone. *)
Played(i, delta) ==
  LET acc == Accumulated(delta)
  IN play' = IF play.step
               THEN [play EXCEPT !.step = FALSE, !.frame = Advanced(i, 1)]
             ELSE IF play.playing
               THEN [play EXCEPT !.frame = Advanced(i, acc \div StepLength), !.acc = acc % StepLength]
             ELSE play

(* ReplayScene.update. *)
Update(i, delta) ==
  /\ game[i] = "running"
  /\ Played(i, delta)
  /\ UNCHANGED <<screen, operationId, controller, handle, timer, load, game, shown, ending, back>>

-----------------------------------------------------------------------------
Frame == \E i \in Ids, delta \in Deltas : Update(i, delta)

Next ==
  \/ \E e \in Envelopes : LoadAndPlay(e)
  \/ \E i \in Ids, outcome \in {"ok", "error"} : AdapterSettles(i, outcome)
  \/ \E i \in Ids : Create(i) \/ ReadyRejects(i) \/ GameDestroyed(i)
  \/ Back
  \/ Destroy
  \/ Toggle
  \/ Step
  \/ \E speed \in Speeds : SetSpeed(speed)
  \/ Frame

Spec == Init /\ [][Next]_vars

(* Animation frames keep coming, and Phaser ends a game whose loop runs.   *)
(* The player, the network and a game whose loop has died owe nothing.     *)
FairSpec ==
  /\ Spec
  /\ WF_vars(Frame)
  /\ \A i \in Ids : WF_vars(game[i] = "dying" /\ GameDestroyed(i))

-----------------------------------------------------------------------------
(* Properties *)

(* Only the viewer that is shown plays and draws.  No adapter that loads    *)
(* late starts a game in a viewer that was left, no load leaves its game   *)
(* behind, and once destroy() is over no continuation of a load draws its  *)
(* form or its player over what the arcade shows next.                     *)
OnlyTheShownViewerPlays ==
  /\ \A i \in Ids : Alive(i) => /\ handle = i
                                /\ screen = [shows |-> "player", of |-> i]
                                /\ ending = "no"
  /\ ending = "settled" <=> screen.shows = "nothing"

(* A playback nobody stops reaches the end of its trace, at every speed.   *)
Playing == \E i \in Ids : game[i] = "running" /\ play.playing /\ play.frame < LastFrame(i)
PlaysToTheEnd == Playing ~> ~Playing

(* Back leads back to the arcade, unless the game's loop has died.         *)
Wedged == \E i \in Ids : game[i] = "wedged"
BackLeaves == back = "asked" ~> back = "left" \/ Wedged
=============================================================================
