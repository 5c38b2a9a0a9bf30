------------------------- MODULE ReplayViewerProofs -------------------------
(***************************************************************************)
(* Only the viewer that is shown plays, for any envelopes and any number   *)
(* of loads.                                                               *)
(*                                                                         *)
(* The property looks at games and screen; what makes it inductive is who  *)
(* holds the viewer.  The controller is that of the latest load or 0, the  *)
(* handle is the controller's or 0, and the one game that lives is the one *)
(* of the handle.  What the screen shows then follows from the await the   *)
(* controlling load is in, and after the start of destroy() there is no    *)
(* controller left for a late promise to own the viewer by.                *)
(***************************************************************************)
EXTENDS ReplayViewer, TLAPS

Awaits == {"none", "adapter", "ready", "failing", "over"}
GameStates == {"none", "booting", "running", "broken", "dying", "wedged", "gone"}

TypeOK ==
  /\ screen \in [shows : {"form", "loading", "player", "nothing"}, of : Ids \cup {0}]
  /\ operationId \in 0 .. (MaxLoads + 1)
  /\ controller \in Ids \cup {0}
  /\ handle \in Ids \cup {0}
  /\ load \in [Ids -> [at : Awaits, trace : Trace]]
  /\ game \in [Ids -> GameStates]
  /\ ending \in {"no", "waiting", "settled"}

(* The latest load controls the viewer, or none does. *)
LatestControls ==
  /\ controller \in {0, operationId}
  /\ handle \in {0, controller}
  /\ ending # "no" => controller = 0
  /\ ending = "no" => operationId <= MaxLoads
  /\ \A i \in Ids : i > operationId => load[i].at = "none" /\ game[i] = "none"

HandleLives == \A i \in Ids : Alive(i) <=> handle = i

(* What the controlling load awaits, and what is shown meanwhile. *)
ScreenFollows ==
  /\ ending = "no" /\ controller = 0 => screen = [shows |-> "form", of |-> 0]
  /\ ending = "no" /\ controller # 0 /\ handle = 0 =>
       \/ load[controller].at = "adapter" /\ screen = [shows |-> "loading", of |-> controller]
       \/ load[controller].at = "failing" /\ screen = [shows |-> "player", of |-> controller]
  /\ handle # 0 => /\ screen = [shows |-> "player", of |-> handle]
                   /\ load[handle].at \in {"ready", "over"}
  /\ ending = "waiting" => screen.shows = "player"
  /\ ending = "settled" => screen.shows = "nothing"

IInv ==
  /\ TypeOK
  /\ LatestControls
  /\ HandleLives
  /\ ScreenFollows

-----------------------------------------------------------------------------
LEMMA NoTraceIsATrace == NoTrace \in Trace
BY DEF NoTrace, Trace

LEMMA IdsArePositive == Ids \subseteq Nat \ {0} /\ \A i \in Ids : i <= MaxLoads
BY BoundsAssumption DEF Ids

LEMMA InitHolds == Init => IInv
<1> SUFFICES ASSUME Init PROVE IInv
  OBVIOUS
<1>1. TypeOK
  <2>1. operationId \in 0 .. (MaxLoads + 1)
    BY BoundsAssumption DEF Init
  <2> QED BY <2>1, NoTraceIsATrace DEF Init, TypeOK, Awaits, GameStates
<1>2. LatestControls /\ HandleLives /\ ScreenFollows
  BY IdsArePositive, BoundsAssumption DEF Init, LatestControls, HandleLives, ScreenFollows, Alive
<1> QED BY <1>1, <1>2 DEF IInv

-----------------------------------------------------------------------------
(* Loads *)

LEMMA LoadAndPlayKeeps ==
  ASSUME IInv, NEW e \in Envelopes, LoadAndPlay(e)
  PROVE  IInv'
<1> DEFINE new == operationId + 1
<1>1. /\ operationId \in Nat /\ new \in Ids /\ new # 0 /\ new \notin {operationId, 0}
      /\ e.trace \in Trace
  BY BoundsAssumption, EnvelopesAssumption DEF IInv, TypeOK, LoadAndPlay, Ids, Envelope
<1>2. /\ operationId' = new /\ controller' = new /\ UNCHANGED <<handle, game, ending>>
      /\ load' = [load EXCEPT ![new] = [at |-> "adapter", trace |-> e.trace]]
      /\ screen' = [shows |-> "loading", of |-> new]
  BY DEF LoadAndPlay, Show
<1>3. screen.shows = "form" /\ ending = "no" /\ handle = 0
  BY DEF IInv, ScreenFollows, LoadAndPlay, LatestControls, TypeOK
<1> HIDE DEF new
<1>4. TypeOK'
  <2>1. operationId' \in 0 .. (MaxLoads + 1)
    BY <1>1, <1>2, IdsArePositive, BoundsAssumption
  <2> QED BY <1>1, <1>2, <2>1 DEF IInv, TypeOK, Awaits
<1>5. LatestControls'
  <2>1. \A i \in Ids : i > new => i > operationId /\ i # new
    BY <1>1, IdsArePositive DEF new
  <2>2. new <= MaxLoads
    BY <1>1, IdsArePositive
  <2> QED BY <1>2, <1>3, <2>1, <2>2 DEF IInv, TypeOK, LatestControls
<1>6. HandleLives'
  BY <1>2 DEF IInv, HandleLives, Alive
<1>7. ScreenFollows'
  BY <1>1, <1>2, <1>3 DEF ScreenFollows, IInv, TypeOK
<1> QED BY <1>4, <1>5, <1>6, <1>7 DEF IInv

LEMMA AdapterSettlesKeeps ==
  ASSUME IInv, NEW i \in Ids, NEW outcome, AdapterSettles(i, outcome)
  PROVE  IInv'
<1>1. UNCHANGED <<operationId, ending>> /\ load[i].at = "adapter" /\ i # 0 /\ i <= MaxLoads
  BY IdsArePositive DEF AdapterSettles
<1>2. i <= operationId
  BY <1>1, IdsArePositive DEF IInv, LatestControls, TypeOK
<1>3. CASE Owns(i) /\ Launched(i)
  <2>1. controller = i /\ operationId = i /\ ending = "no" /\ handle = 0
    BY <1>1, <1>3 DEF IInv, LatestControls, ScreenFollows, Owns
  <2>2. /\ load' = [load EXCEPT ![i].at = "ready"] /\ game' = [game EXCEPT ![i] = "booting"]
        /\ handle' = i /\ controller' = controller
        /\ screen' = [shows |-> "player", of |-> i]
    BY <1>3 DEF Launched, Show
  <2>3. TypeOK'
    BY <1>1, <2>2 DEF IInv, TypeOK, Awaits, GameStates
  <2>4. LatestControls' /\ HandleLives'
    BY <1>1, <2>1, <2>2, IdsArePositive DEF IInv, TypeOK, LatestControls, HandleLives, Alive
  <2>5. ScreenFollows'
    BY <1>1, <2>1, <2>2 DEF IInv, TypeOK, ScreenFollows
  <2> QED BY <2>3, <2>4, <2>5 DEF IInv
<1>4. CASE Owns(i) /\ BackToForm(i) /\ UNCHANGED <<handle, game, play, shown>>
  <2>1. controller = i /\ operationId = i /\ ending = "no" /\ handle = 0
    BY <1>1, <1>4 DEF IInv, LatestControls, ScreenFollows, Owns
  <2>2. /\ load' = [load EXCEPT ![i].at = "over"] /\ controller' = 0
        /\ screen' = [shows |-> "form", of |-> 0]
    BY <1>4 DEF BackToForm, Over, Show
  <2>3. TypeOK'
    BY <1>1, <1>4, <2>2 DEF IInv, TypeOK, Awaits
  <2>4. LatestControls' /\ HandleLives'
    BY <1>1, <1>4, <2>1, <2>2, IdsArePositive
    DEF IInv, TypeOK, LatestControls, HandleLives, Alive
  <2>5. ScreenFollows'
    BY <1>1, <1>4, <2>1, <2>2 DEF ScreenFollows
  <2> QED BY <2>3, <2>4, <2>5 DEF IInv
<1>5. CASE ~Owns(i) /\ Over(i) /\ UNCHANGED <<screen, controller, handle, game, play, shown>>
  <2>1. i # controller
    BY <1>1, <1>5 DEF IInv, LatestControls, Owns
  <2>2. load' = [load EXCEPT ![i].at = "over"]
    BY <1>5 DEF Over
  <2>3. TypeOK'
    BY <1>1, <1>5, <2>2 DEF IInv, TypeOK, Awaits
  <2>4. LatestControls' /\ HandleLives'
    BY <1>1, <1>2, <1>5, <2>2, IdsArePositive
    DEF IInv, TypeOK, LatestControls, HandleLives, Alive
  <2>5. ScreenFollows'
    BY <1>1, <1>5, <2>1, <2>2 DEF IInv, TypeOK, LatestControls, ScreenFollows
  <2> QED BY <2>3, <2>4, <2>5 DEF IInv
<1> QED BY <1>3, <1>4, <1>5 DEF AdapterSettles

LEMMA CreateKeeps ==
  ASSUME IInv, NEW i \in Ids, Create(i)
  PROVE  IInv'
<1>1. /\ UNCHANGED <<screen, operationId, controller, handle, ending>>
      /\ game[i] = "booting" /\ handle = i /\ i <= operationId
  BY IdsArePositive DEF Create, IInv, TypeOK, HandleLives, Alive, LatestControls
<1>2. \E s \in {"running", "broken"} : game' = [game EXCEPT ![i] = s]
  BY DEF Create
<1>3. load' = load \/ load' = [load EXCEPT ![i].at = "over"]
  BY DEF Create, Over
<1>4. TypeOK'
  BY <1>1, <1>2, <1>3 DEF IInv, TypeOK, Awaits, GameStates
<1>5. LatestControls' /\ HandleLives'
  BY <1>1, <1>2, <1>3, IdsArePositive DEF IInv, TypeOK, LatestControls, HandleLives, Alive
<1>6. ScreenFollows'
  BY <1>1, <1>3 DEF IInv, TypeOK, ScreenFollows
<1> QED BY <1>4, <1>5, <1>6 DEF IInv

(* A dying game is not alive, and no other is touched. *)
LEMMA DyingDies ==
  ASSUME TypeOK, NEW i \in Ids, game' = Dying(i)
  PROVE  /\ game' \in [Ids -> GameStates] /\ ~Alive(i)'
         /\ \A j \in Ids \ {i} : game'[j] = game[j]
         /\ game[i] = "none" => game'[i] = "none"
BY DEF TypeOK, Dying, Alive, GameStates

LEMMA ReadyRejectsKeeps ==
  ASSUME IInv, NEW i \in Ids, ReadyRejects(i)
  PROVE  IInv'
<1>1. /\ UNCHANGED <<screen, operationId, controller, ending>>
      /\ game[i] = "booting" /\ handle = i /\ controller = i /\ operationId = i
      /\ load' = [load EXCEPT ![i].at = "failing"] /\ handle' = 0 /\ game' = Dying(i)
      /\ i # 0
  BY IdsArePositive DEF ReadyRejects, IInv, HandleLives, Alive, Owns
<1>2. /\ game' \in [Ids -> GameStates] /\ ~Alive(i)'
      /\ \A j \in Ids \ {i} : game'[j] = game[j]
  BY <1>1, DyingDies DEF IInv
<1>3. TypeOK'
  BY <1>1, <1>2 DEF IInv, TypeOK, Awaits
<1>4. LatestControls' /\ HandleLives'
  BY <1>1, <1>2, IdsArePositive DEF IInv, TypeOK, LatestControls, HandleLives, Alive
<1>5. ScreenFollows'
  BY <1>1 DEF IInv, TypeOK, LatestControls, ScreenFollows
<1> QED BY <1>3, <1>4, <1>5 DEF IInv

LEMMA GameDestroyedKeeps ==
  ASSUME IInv, NEW i \in Ids, GameDestroyed(i)
  PROVE  IInv'
<1>1. /\ UNCHANGED <<operationId, handle>> /\ game[i] \in {"dying", "wedged"}
      /\ game' = [game EXCEPT ![i] = "gone"] /\ i # 0 /\ handle # i /\ i <= operationId
  BY IdsArePositive DEF GameDestroyed, IInv, TypeOK, HandleLives, Alive, LatestControls
<1>2. game' \in [Ids -> GameStates] /\ HandleLives'
  BY <1>1 DEF IInv, TypeOK, HandleLives, Alive, GameStates
<1>3. CASE load[i].at = "failing" /\ Owns(i) /\ BackToForm(i) /\ UNCHANGED <<ending, back>>
  <2>1. controller = i /\ operationId = i /\ ending = "no" /\ handle = 0
    BY <1>1, <1>3 DEF IInv, LatestControls, Owns
  <2>2. /\ load' = [load EXCEPT ![i].at = "over"] /\ controller' = 0
        /\ screen' = [shows |-> "form", of |-> 0]
    BY <1>3 DEF BackToForm, Over, Show
  <2>3. TypeOK'
    BY <1>1, <1>2, <1>3, <2>2 DEF IInv, TypeOK, Awaits
  <2>4. LatestControls' /\ ScreenFollows'
    BY <1>1, <1>3, <2>1, <2>2, IdsArePositive DEF IInv, TypeOK, LatestControls, ScreenFollows
  <2> QED BY <1>2, <2>3, <2>4 DEF IInv
<1>4. CASE ~Owns(i) /\ Over(i) /\ UNCHANGED <<screen, controller, ending, back>>
  <2>1. i # controller
    BY <1>1, <1>4 DEF IInv, LatestControls, Owns
  <2>2. load' = [load EXCEPT ![i].at = "over"]
    BY <1>4 DEF Over
  <2>3. TypeOK'
    BY <1>1, <1>2, <1>4, <2>2 DEF IInv, TypeOK, Awaits
  <2>4. LatestControls'
    BY <1>1, <1>4, <2>2, IdsArePositive DEF IInv, TypeOK, LatestControls
  <2>5. ScreenFollows'
    BY <1>1, <1>4, <2>1, <2>2 DEF IInv, TypeOK, LatestControls, ScreenFollows
  <2> QED BY <1>2, <2>3, <2>4, <2>5 DEF IInv
<1>5. CASE FinishDestroy(i)
  <2>1. /\ ending = "waiting" /\ ending' = "settled" /\ UNCHANGED <<controller, load>>
        /\ screen' = [shows |-> "nothing", of |-> 0]
    BY <1>5 DEF FinishDestroy, Emptied, Show
  <2>2. controller = 0 /\ handle = 0
    BY <2>1 DEF IInv, LatestControls
  <2>3. TypeOK'
    BY <1>1, <1>2, <2>1 DEF IInv, TypeOK
  <2>4. LatestControls' /\ ScreenFollows'
    BY <1>1, <2>1, <2>2, IdsArePositive DEF IInv, TypeOK, LatestControls, ScreenFollows
  <2> QED BY <1>2, <2>3, <2>4 DEF IInv
<1> QED BY <1>3, <1>4, <1>5 DEF GameDestroyed, FinishFailure

-----------------------------------------------------------------------------
(* The end of the viewer *)

LEMMA StartDestroyKeeps ==
  ASSUME IInv, NEW asked, StartDestroy(asked)
  PROVE  IInv'
<1>1. /\ ending = "no" /\ operationId' = operationId + 1 /\ controller' = 0 /\ handle' = 0
      /\ operationId \in Nat
  BY DEF StartDestroy, IInv, TypeOK
<1>2. operationId' \in 0 .. (MaxLoads + 1)
  <2>1. operationId <= MaxLoads
    BY DEF StartDestroy, IInv, TypeOK, LatestControls
  <2> QED BY <1>1, <2>1, BoundsAssumption
<1>3. \A j \in Ids : j > operationId' => j > operationId
  BY <1>1, IdsArePositive
<1>4. CASE handle = 0 /\ Emptied /\ UNCHANGED <<game, load>>
  <2>1. ending' = "settled" /\ screen' = [shows |-> "nothing", of |-> 0]
    BY <1>4 DEF Emptied, Show
  <2>2. TypeOK'
    BY <1>1, <1>2, <1>4, <2>1 DEF IInv, TypeOK
  <2>3. LatestControls' /\ HandleLives' /\ ScreenFollows'
    BY <1>1, <1>3, <1>4, <2>1 DEF IInv, LatestControls, HandleLives, ScreenFollows, Alive
  <2> QED BY <2>2, <2>3 DEF IInv
<1>5. CASE /\ handle # 0 /\ game' = Dying(handle) /\ Over(handle)
           /\ ending' = "waiting" /\ UNCHANGED screen
  <2>1. /\ handle \in Ids /\ handle = operationId /\ screen.shows = "player"
        /\ load' = [load EXCEPT ![handle].at = "over"]
    BY <1>5 DEF IInv, TypeOK, LatestControls, ScreenFollows, Over
  <2> PICK h \in Ids : h = handle
    BY <2>1
  <2>2. /\ game' \in [Ids -> GameStates] /\ ~Alive(h)'
        /\ \A j \in Ids \ {h} : game'[j] = game[j]
    BY <1>5, DyingDies DEF IInv
  <2>3. TypeOK'
    <3>1. load' \in [Ids -> [at : Awaits, trace : Trace]]
      BY <2>1 DEF IInv, TypeOK, Awaits
    <3> QED BY <1>1, <1>2, <1>5, <2>2, <3>1 DEF IInv, TypeOK
  <2>4. LatestControls'
    BY <1>1, <1>3, <1>5, <2>1, <2>2, IdsArePositive DEF IInv, TypeOK, LatestControls
  <2>5. HandleLives'
    <3>1. \A j \in Ids \ {h} : ~Alive(j)'
      BY <2>2 DEF IInv, HandleLives, Alive
    <3>2. \A j \in Ids : ~Alive(j)' /\ j # 0
      BY <2>2, <3>1, IdsArePositive
    <3> QED BY <1>1, <3>2 DEF HandleLives
  <2>6. ScreenFollows'
    BY <1>1, <1>5, <2>1 DEF ScreenFollows
  <2> QED BY <2>3, <2>4, <2>5, <2>6 DEF IInv
<1> QED BY <1>4, <1>5 DEF StartDestroy

(* What the controls, the frames and a second Back leave alone.            *)
LEMMA UntouchedKeeps ==
  ASSUME IInv, UNCHANGED <<screen, operationId, controller, handle, load, game, ending>>
  PROVE  IInv'
BY DEF IInv, TypeOK, LatestControls, HandleLives, ScreenFollows, Alive

LEMMA NextKeeps ==
  ASSUME IInv, [Next]_vars
  PROVE  IInv'
<1>1. ASSUME NEW e \in Envelopes, LoadAndPlay(e) PROVE IInv'
  BY <1>1, LoadAndPlayKeeps
<1>2. ASSUME NEW i \in Ids, NEW outcome \in {"ok", "error"}, AdapterSettles(i, outcome) PROVE IInv'
  BY <1>2, AdapterSettlesKeeps
<1>3. ASSUME NEW i \in Ids, Create(i) \/ ReadyRejects(i) \/ GameDestroyed(i) PROVE IInv'
  BY <1>3, CreateKeeps, ReadyRejectsKeeps, GameDestroyedKeeps
<1>4. CASE Back
  <2>1. CASE StartDestroy("asked")
    BY <2>1, StartDestroyKeeps
  <2>2. CASE ~StartDestroy("asked")
    BY <1>4, <2>2, UntouchedKeeps DEF Back
  <2> QED BY <2>1, <2>2
<1>5. CASE Destroy
  BY <1>5, StartDestroyKeeps DEF Destroy
<1>6. CASE Toggle \/ Step \/ (\E speed \in Speeds : SetSpeed(speed))
  BY <1>6, UntouchedKeeps DEF Toggle, Step, SetSpeed, Control
<1>7. CASE Frame
  BY <1>7, UntouchedKeeps DEF Frame, Update
<1>8. CASE UNCHANGED vars
  BY <1>8, UntouchedKeeps DEF vars
<1> QED BY <1>1, <1>2, <1>3, <1>4, <1>5, <1>6, <1>7, <1>8 DEF Next

-----------------------------------------------------------------------------
(* The viewer is the latest load's or nobody's, the handle is that of the  *)
(* one live game, and the screen follows the controlling load.             *)
THEOREM ViewerInvariant == Spec => []IInv
<1>1. Init => IInv
  BY InitHolds
<1>2. IInv /\ [Next]_vars => IInv'
  BY NextKeeps
<1> QED BY <1>1, <1>2, PTL DEF Spec

(* No game plays in a viewer that shows something else or is being left,   *)
(* and only a destroy() that is over empties the root.                     *)
THEOREM OnlyShownPlays == Spec => []OnlyTheShownViewerPlays
<1>1. IInv => OnlyTheShownViewerPlays
  <2> SUFFICES ASSUME IInv PROVE OnlyTheShownViewerPlays
    OBVIOUS
  <2>1. ASSUME NEW i \in Ids, Alive(i)
        PROVE  handle = i /\ screen = [shows |-> "player", of |-> i] /\ ending = "no"
    <3>1. handle = i /\ i # 0
      BY <2>1, IdsArePositive DEF IInv, HandleLives
    <3> QED BY <3>1 DEF IInv, LatestControls, ScreenFollows
  <2>2. ending = "settled" <=> screen.shows = "nothing"
    BY DEF IInv, TypeOK, LatestControls, ScreenFollows
  <2> QED BY <2>1, <2>2 DEF OnlyTheShownViewerPlays
<1> QED BY <1>1, ViewerInvariant, PTL
=============================================================================
