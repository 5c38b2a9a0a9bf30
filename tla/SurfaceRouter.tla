---------------------------- MODULE SurfaceRouter ----------------------------
(***************************************************************************)
(* The page of apps/web/src/main.ts: renderRoute gives the #app root to    *)
(* the arcade shell or to the replay viewer when the page loads and at     *)
(* every hashchange.  A call of renderRoute is a coroutine that waits for  *)
(* the previous surface to be destroyed and for its modules to be          *)
(* imported; the calls overtake each other at these waits.                 *)
(*                                                                         *)
(* A surface has the number of the call that makes it.  Of a surface this  *)
(* module keeps what the page sees of it: that it fills the root when it   *)
(* starts, empties it at the end of destroy(), which takes time only while *)
(* a game is to be torn down, and, of the replay viewer, that its Back     *)
(* button destroys it first and changes the hash afterwards.               *)
(*                                                                         *)
(* The shell gives up on a game that does not end in time.  The viewer     *)
(* waits for Phaser's last event however long it takes: when the loop of   *)
(* its game is dead its destroy() never ends, and the surface is "wedged". *)
(***************************************************************************)
EXTENDS Naturals, FiniteSets

CONSTANTS MaxRoutes  \* bound on the calls of renderRoute, made or booked

ASSUME MaxRoutesAssumption == MaxRoutes \in Nat

Calls == 1 .. MaxRoutes
Nobody == 0

VARIABLES mode,      \* the build and ?arcadeFixtures=1, for the life of the page
          hash,      \* the surface location.hash asks for
          pending,   \* hashchange events not delivered yet
          routeId,   \* the newest call
          active,    \* the surface that is given up by the next call
          root,      \* the surface whose content is in #app
          call,      \* where each call waits, and for which surface
          surface,   \* what became of the surface of each call
          pageShown  \* pagehide has not fired

routerVars == <<mode, hash, pending, routeId, active, root, call, surface, pageShown>>

Modes == {"production", "dev", "fixtures"}
Kinds == {"shell", "replay"}

(* overtook: the call began while another waited for a destroy() to end.   *)
Call == [stage    : {"none", "destroying", "importing", "registry", "over", "failed"},
         previous : Calls \cup {Nobody},
         kind     : Kinds,
         overtook : BOOLEAN]

(* back: the viewer's Back was pressed, and has called onBack.             *)
Surface == [life : {"none", "live", "closing", "wedged", "gone"},
            kind : Kinds,
            back : {"no", "asked", "left"}]

TypeOK ==
  /\ mode \in Modes
  /\ hash \in Kinds
  /\ pending \in Nat
  /\ routeId \in 0 .. MaxRoutes
  /\ active \in Calls \cup {Nobody}
  /\ root \in Calls \cup {Nobody}
  /\ call \in [Calls -> Call]
  /\ surface \in [Calls -> Surface]
  /\ pageShown \in BOOLEAN

-----------------------------------------------------------------------------
(* What a call does between two waits *)

(* The route is read from location when the call gets to it. *)
Route == IF mode # "production" THEN hash ELSE "shell"

(* The lives destroy() may leave s in when it first waits or ends: called  *)
(* again it only waits for the end of the first.                           *)
Endings(s) ==
  IF surface[s].life # "live"
    THEN {surface[s].life}
    ELSE {"gone", "closing"} \cup {w \in {"wedged"} : surface[s].kind = "replay"}

(* The root when destroy() has left s in that life. *)
Emptied(s, life) == IF surface[s].life = "live" /\ life = "gone" THEN Nobody ELSE root

(* A surface that is made fills the root and becomes the active one. *)
Show(id, kind, made) ==
  /\ active' = id
  /\ root' = id
  /\ surface' = [made EXCEPT ![id] = [life |-> "live", kind |-> kind, back |-> "no"]]

(* From the first check of the route id on.  Only the shell of the real    *)
(* arcade needs no import; calls, made and emptied are the calls, surfaces *)
(* and root as the wait for the previous surface left them.                *)
Proceed(id, calls, made, emptied) ==
  IF Route = "shell" /\ mode # "fixtures"
    THEN /\ Show(id, "shell", made)
         /\ call' = [calls EXCEPT ![id] = [@ EXCEPT !.stage = "over", !.previous = Nobody]]
    ELSE /\ active' = Nobody
         /\ root' = emptied
         /\ surface' = made
         /\ call' = [calls EXCEPT ![id] = [@ EXCEPT !.stage = "importing",
                                                  !.previous = Nobody, !.kind = Route]]

Return(id) == call' = [call EXCEPT ![id] = [@ EXCEPT !.stage = "over", !.previous = Nobody]]

(* Some call waits for a destroy() that is going to end. *)
EndAwaited ==
  \E c \in Calls : call[c].stage = "destroying" /\ surface[call[c].previous].life = "closing"

(* renderRoute up to its first wait; a surface without a game is destroyed *)
(* at once, one with a game takes its time.                                *)
RenderRoute ==
  LET id == routeId + 1
      begun == [call EXCEPT ![id].overtook = EndAwaited]
  IN /\ routeId < MaxRoutes
     /\ routeId' = id
     /\ \/ /\ active = Nobody
           /\ Proceed(id, begun, surface, root)
        \/ /\ active # Nobody
           /\ "gone" \in Endings(active)
           /\ Proceed(id, begun, [surface EXCEPT ![active].life = "gone"], Emptied(active, "gone"))
        \/ /\ active # Nobody
           /\ \E life \in Endings(active) \ {"gone"} :
                surface' = [surface EXCEPT ![active].life = life]
           /\ call' = [begun EXCEPT ![id] = [@ EXCEPT !.stage = "destroying", !.previous = active]]
           /\ active' = Nobody
           /\ UNCHANGED root

-----------------------------------------------------------------------------
(* DOMContentLoaded: the first call, for whatever address was opened. *)
Init ==
  /\ mode \in Modes
  /\ hash \in Kinds
  /\ pending = 1
  /\ routeId = 0
  /\ active = Nobody
  /\ root = Nobody
  /\ call = [c \in Calls |-> [stage |-> "none", previous |-> Nobody, kind |-> "shell", overtook |-> FALSE]]
  /\ surface = [c \in Calls |-> [life |-> "none", kind |-> "shell", back |-> "no"]]
  /\ pageShown = TRUE

(* Calls made, and those that events and departures on their way will make.*)
Booked == routeId + pending + Cardinality({s \in Calls : surface[s].back = "asked"})

(* Promise jobs run before the browser's next event: a call or a Back that *)
(* waited for a destroy() goes on as soon as it has ended.                 *)
NoJobs ==
  /\ \A c \in Calls : call[c].stage = "destroying" => surface[call[c].previous].life # "gone"
  /\ \A s \in Calls : surface[s].back = "asked" => surface[s].life # "gone"

(* The player changes the hash; the event is a task of its own.  Every     *)
(* hash but #replay asks for the shell.                                    *)
ChangeHash ==
  /\ NoJobs
  /\ routeId > 0 /\ Booked < MaxRoutes
  /\ hash' \in Kinds /\ (hash' = hash => hash = "shell")
  /\ pending' = pending + 1
  /\ UNCHANGED <<mode, routeId, active, root, call, surface, pageShown>>

(* The viewer's Back, still in the root: it destroys the viewer, which the *)
(* page goes on holding as its active surface.                             *)
Back(s) ==
  /\ NoJobs
  /\ Booked < MaxRoutes
  /\ root = s /\ surface[s].kind = "replay" /\ surface[s].back = "no"
  /\ \E life \in Endings(s) :
       /\ surface' = [surface EXCEPT ![s] = [@ EXCEPT !.life = life, !.back = "asked"]]
       /\ root' = Emptied(s, life)
  /\ UNCHANGED <<mode, hash, pending, routeId, active, call, pageShown>>

(* Bug: the address is replaced, which fires no event.                     *)
LeavesSilently(s) ==
  /\ surface[s].life = "gone" /\ surface[s].back = "asked"
  /\ surface' = [surface EXCEPT ![s].back = "left"]
  /\ hash' = "shell"
  /\ UNCHANGED <<mode, pending, routeId, active, root, call, pageShown>>

(* Only when the viewer is destroyed is the hash set; setting the hash it  *)
(* has fires no event.                                                     *)
OnBack(s) ==
  /\ surface[s].life = "gone" /\ surface[s].back = "asked"
  /\ surface' = [surface EXCEPT ![s].back = "left"]
  /\ hash' = "shell"
  /\ pending' \in {pending, pending + 1} /\ (hash = "replay" => pending' > pending)
  /\ UNCHANGED <<mode, routeId, active, root, call, pageShown>>


HashChange ==
  /\ NoJobs
  /\ pending > 0
  /\ pending' = pending - 1
  /\ RenderRoute
  /\ UNCHANGED <<mode, hash, pageShown>>

(* The end of a destroy() that took its time, under whatever is shown now. *)
Destroyed(s) ==
  /\ NoJobs
  /\ surface[s].life = "closing"
  /\ surface' = [surface EXCEPT ![s].life = "gone"]
  /\ root' = Nobody
  /\ UNCHANGED <<mode, hash, pending, routeId, active, call, pageShown>>

(* Bug: the call goes on without waiting for the surface it destroys.      *)
ContinueAtOnce(id) ==
  /\ call[id].stage = "destroying"
  /\ IF id # routeId
       THEN Return(id) /\ UNCHANGED <<active, root, surface>>
       ELSE Proceed(id, call, surface, root)
  /\ UNCHANGED <<mode, hash, pending, routeId, pageShown>>

Continue(id) ==
  /\ call[id].stage = "destroying"
  /\ surface[call[id].previous].life = "gone"
  /\ IF id # routeId
       THEN Return(id) /\ UNCHANGED <<active, root, surface>>
       ELSE Proceed(id, call, surface, root)
  /\ UNCHANGED <<mode, hash, pending, routeId, pageShown>>

(* Bug: an import that settles late shows its surface all the same.        *)
ShowsLate(id) ==
  /\ call[id].stage \in {"importing", "registry"}
  /\ Return(id)
  /\ Show(id, call[id].kind, surface)
  /\ UNCHANGED <<mode, hash, pending, routeId, pageShown>>

(* An import settles; the replay viewer of the fixtures needs another.     *)
Imported(id) ==
  /\ call[id].stage \in {"importing", "registry"}
  /\ \/ /\ id # routeId
        /\ Return(id)
        /\ UNCHANGED <<active, root, surface>>
     \/ /\ id = routeId
        /\ call[id].stage = "importing"
        /\ call[id].kind = "replay" /\ mode = "fixtures"
        /\ call' = [call EXCEPT ![id].stage = "registry"]
        /\ UNCHANGED <<active, root, surface>>
     \/ /\ id = routeId
        /\ ~(call[id].stage = "importing" /\ call[id].kind = "replay" /\ mode = "fixtures")
        /\ Return(id)
        /\ Show(id, call[id].kind, surface)
  /\ UNCHANGED <<mode, hash, pending, routeId, pageShown>>

(* A module cannot be loaded: nobody catches the rejection of the call.    *)
ImportFails(id) ==
  /\ call[id].stage \in {"importing", "registry"}
  /\ call' = [call EXCEPT ![id].stage = "failed"]
  /\ UNCHANGED <<mode, hash, pending, routeId, active, root, surface, pageShown>>

(* pagehide, once: the active surface is destroyed and stays the active    *)
(* one.  The page may come back from the back/forward cache.               *)
PageHide ==
  /\ NoJobs
  /\ pageShown
  /\ pageShown' = FALSE
  /\ \/ /\ active # Nobody
        /\ \E life \in Endings(active) :
             /\ surface' = [surface EXCEPT ![active].life = life]
             /\ root' = Emptied(active, life)
     \/ /\ active = Nobody
        /\ UNCHANGED <<surface, root>>
  /\ UNCHANGED <<mode, hash, pending, routeId, active, call>>

Next ==
  \/ ChangeHash
  \/ HashChange
  \/ PageHide
  \/ \E s \in Calls : Back(s) \/ OnBack(s) \/ Destroyed(s)
  \/ \E c \in Calls : Continue(c) \/ Imported(c) \/ ImportFails(c)

Spec == Init /\ [][Next]_routerVars

(* The browser delivers its events and runs its jobs, imports settle, and  *)
(* a game whose loop runs is torn down.  Nothing ends a wedged one.        *)
FairSpec ==
  /\ Spec
  /\ WF_routerVars(HashChange)
  /\ \A c \in Calls : WF_routerVars(Destroyed(c)) /\ WF_routerVars(OnBack(c)) /\ WF_routerVars(Continue(c))
                      /\ WF_routerVars(Imported(c) \/ ImportFails(c))

-----------------------------------------------------------------------------
(* Properties *)

(* No surface is forgotten: one that was made and not told to destroy      *)
(* itself is the active one, the one the next call gives up, however the   *)
(* calls overtake each other at their imports.                             *)
NoSurfaceIsForgotten ==
  \A s \in Calls : surface[s].life = "live" => s = active

ActiveIsLive == active # Nobody /\ surface[active].life = "live"

(* A live surface keeps the root until it is told to destroy itself.  Only *)
(* one shown by a call that overtook the wait for a destroy() may lose it: *)
(* the call found no active surface and did not wait, and the destroy()    *)
(* empties the root under what it shows.                                   *)
RootShowsActive == ActiveIsLive => root = active \/ call[active].overtook

(* Nobody is left with a surface that is gone or that the hash does not    *)
(* ask for, unless an event or the answer to Back is on its way, or the    *)
(* page is hidden.                                                         *)
NobodyIsStranded ==
  active # Nobody =>
    \/ surface[active].life = "live" /\ surface[active].kind = Route
    \/ pending > 0
    \/ surface[active].back = "asked"
    \/ ~pageShown

(* The newest call, or the player who pressed Back, waits for the end of a *)
(* game that has none.                                                     *)
Wedged ==
  \/ /\ routeId \in Calls /\ call[routeId].stage = "destroying"
     /\ surface[call[routeId].previous].life = "wedged"
  \/ /\ active # Nobody
     /\ surface[active].life = "wedged" /\ surface[active].back = "asked"

Settled ==
  \/ ActiveIsLive /\ surface[active].kind = Route /\ (root = active \/ call[active].overtook)
  \/ routeId \in Calls /\ call[routeId].stage = "failed"
  \/ Wedged
  \/ ~pageShown /\ active # Nobody /\ surface[active].life # "live"


=============================================================================
