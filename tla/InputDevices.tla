---------------------------- MODULE InputDevices ----------------------------
(* The device sources of packages/controls under the events a browser sends: *)
(* the touch overlay (per-pointer tracking, reference-counted buttons, one   *)
(* owner per stick and drag zone), the pointer source, the keyboard and the  *)
(* polled gamepad, and the frames the games read from them.                  *)
(*                                                                           *)
(* `at`, `down`, `focused` and `pads` are the player's hands and the window; *)
(* the rest is the sources' state.  A handler runs to completion, and every  *)
(* source listening to one event handles it in the same step.                *)
EXTENDS InputFrames, FiniteSets

CONSTANTS
    Pointers,       \* pointer ids
    Points,         \* places on the screen, pairs <<x, y>> of layer pixels
    Width, Height,  \* the layer's rectangle
    ButtonZones,    \* sequence of [action, anchor, x, y, r]
    StickZone,      \* {} or {[anchor, r]}
    DragZones,      \* sequence of [region]
    Keys,
    PadLists,       \* what navigator.getGamepads() may return
    Nobody          \* no pointer, no point

ASSUME PointersAssumption == IsFiniteSet(Pointers) /\ Nobody \notin Pointers
ASSUME PointsAssumption == Points \subseteq Int \X Int /\ Nobody \notin Points
ASSUME LayerAssumption == Width \in Nat /\ Width >= 2 /\ Height \in Nat /\ Height >= 1
ASSUME ZonesAssumption == DOMAIN ButtonZones \subseteq Nat /\ DOMAIN DragZones \subseteq Nat
ASSUME StickAssumption == StickZone \subseteq [anchor : {"left", "right"}, r : Nat]

VARIABLES
    at,         \* where each pointer touches the screen, or Nobody
    down,       \* keys physically down
    focused,    \* the window has the focus
    pads,       \* the connected gamepads
    pointers,   \* TouchOverlaySource.pointers
    counts,     \* buttonPressCounts
    stick,      \* stickPointerId, stickOrigin and the travel from it
    drags,      \* dragPointerIds and dragAxes, per drag zone
    aim,        \* PointerSource: activePointerId, pressed, x and y
    held,       \* KeyboardSource.held
    listening   \* the sources have not been destroyed

hands == <<at, down, focused, pads>>
overlay == <<pointers, counts, stick, drags>>
vars == <<hands, overlay, aim, held, listening>>

Actions == {ButtonZones[i].action : i \in DOMAIN ButtonZones}
Zones == DOMAIN DragZones

Untracked == [type |-> "none", of |-> Nobody]
OnButton(a) == [type |-> "button", of |-> a]
OnStick == [type |-> "stick", of |-> Nobody]
OnDrag(z) == [type |-> "drag", of |-> z]

NoStick == [owner |-> Nobody, origin |-> <<0, 0>>, travel |-> <<0, 0>>]
NoDrag == [owner |-> Nobody, axes |-> <<0, 0>>]
NoAim == [owner |-> Nobody, pressed |-> FALSE, axes |-> <<0, 0>>]

-----------------------------------------------------------------------------
(* Geometry *)

InAnchor(side, pt) == IF side = "left" THEN 2 * pt[1] < Width ELSE 2 * pt[1] >= Width

InRegion(region, pt) == region = "full" \/ InAnchor(region, pt)

Center(zone) == <<(IF zone.anchor = "left" THEN 0 ELSE Width \div 2) + zone.x, zone.y>>

Inside(zone, pt) ==
    LET dx == pt[1] - Center(zone)[1]
        dy == pt[2] - Center(zone)[2]
    IN  dx * dx + dy * dy <= zone.r * zone.r

ButtonsUnder(pt) == {i \in DOMAIN ButtonZones : Inside(ButtonZones[i], pt)}

StickUnder(pt) == stick.owner = Nobody /\ \E zone \in StickZone : InAnchor(zone.anchor, pt)

DragsUnder(pt) ==
    {z \in Zones : drags[z].owner = Nobody /\ InRegion(DragZones[z].region, pt)}

First(S) == CHOOSE i \in S : \A j \in S : i <= j

(* updateDragAxes *)
DragAxes(z, pt) ==
    LET region == DragZones[z].region
        left == IF region = "right" THEN Width \div 2 ELSE 0
        width == IF region = "full" THEN Width ELSE Width \div 2
    IN  <<Normalized(pt[1] - left, width), Normalized(pt[2], Height)>>

AimAxes(pt) == <<Normalized(pt[1], Width), Normalized(pt[2], Height)>>

-----------------------------------------------------------------------------
(* What the games read *)

Pressed == {a \in Actions : counts[a] > 0}

StickRadius == (CHOOSE zone \in StickZone : TRUE).r

TouchFrame == AdaptTouch(Pressed, stick.travel, IF StickZone = {} THEN 0 ELSE StickRadius)

(* FightScene: keyboard, gamepad and the adapted overlay, merged. *)
FightFrame == Merged(<<KeyboardFrame(held), PadFrame(pads), TouchFrame>>)

(* The analog fixture: pointer and keyboard, merged. *)
AnalogFrame ==
    Merged(<<[buttons |-> {}, axes |-> [steer |-> aim.axes[1], throttle |-> aim.axes[2]]],
             KeyboardFrame(held)>>)

-----------------------------------------------------------------------------
(* TouchOverlaySource *)

(* Bug: a pressed flag instead of a reference count. *)
FlagButton(p, a) ==
    /\ counts' = [counts EXCEPT ![a] = 1]
    /\ pointers' = [pointers EXCEPT ![p] = OnButton(a)]
    /\ UNCHANGED <<stick, drags>>

PressButton(p, a) ==
    /\ counts' = [counts EXCEPT ![a] = @ + 1]
    /\ pointers' = [pointers EXCEPT ![p] = OnButton(a)]
    /\ UNCHANGED <<stick, drags>>

GrabStick(p, pt) ==
    /\ pointers' = [pointers EXCEPT ![p] = OnStick]
    /\ stick' = [owner |-> p, origin |-> pt, travel |-> <<0, 0>>]
    /\ UNCHANGED <<counts, drags>>

GrabDrag(p, z, pt) ==
    /\ pointers' = [pointers EXCEPT ![p] = OnDrag(z)]
    /\ drags' = [drags EXCEPT ![z] = [owner |-> p, axes |-> DragAxes(z, pt)]]
    /\ UNCHANGED <<counts, stick>>

HandleDown(p, pt) ==
    \/ /\ ButtonsUnder(pt) # {}
       /\ PressButton(p, ButtonZones[First(ButtonsUnder(pt))].action)
    \/ /\ ButtonsUnder(pt) = {}
       /\ StickUnder(pt)
       /\ GrabStick(p, pt)
    \/ /\ ButtonsUnder(pt) = {}
       /\ ~StickUnder(pt)
       /\ DragsUnder(pt) # {}
       /\ GrabDrag(p, First(DragsUnder(pt)), pt)
    \/ /\ ButtonsUnder(pt) = {}
       /\ ~StickUnder(pt)
       /\ DragsUnder(pt) = {}
       /\ UNCHANGED overlay

HandleMove(p, pt) ==
    /\ stick' = IF pointers[p].type = "stick"
                THEN [stick EXCEPT !.travel = <<pt[1] - stick.origin[1], pt[2] - stick.origin[2]>>]
                ELSE stick
    /\ drags' = IF pointers[p].type = "drag"
                THEN [drags EXCEPT ![pointers[p].of].axes = DragAxes(pointers[p].of, pt)]
                ELSE drags
    /\ UNCHANGED <<pointers, counts>>

(* handleUp: pointerup, pointercancel, pointerleave and lostpointercapture.  *)
HandleUp(p) ==
    /\ counts' = IF pointers[p].type = "button"
                 THEN [counts EXCEPT ![pointers[p].of] = IF @ > 0 THEN @ - 1 ELSE 0]
                 ELSE counts
    /\ stick' = IF pointers[p].type = "stick" /\ stick.owner = p THEN NoStick ELSE stick
    /\ drags' = IF pointers[p].type = "drag"
                THEN [drags EXCEPT ![pointers[p].of] = NoDrag]
                ELSE drags
    /\ pointers' = [pointers EXCEPT ![p] = Untracked]

ResetAllPointers ==
    /\ pointers' = [p \in Pointers |-> Untracked]
    /\ counts' = [a \in Actions |-> 0]
    /\ stick' = NoStick
    /\ drags' = [z \in Zones |-> NoDrag]

-----------------------------------------------------------------------------
(* PointerSource *)

AimDown(p, pt) ==
    aim' = IF aim.owner \notin {Nobody, p}
           THEN aim
           ELSE [owner |-> p, pressed |-> TRUE, axes |-> AimAxes(pt)]

AimUp(p) ==
    aim' = IF aim.owner # p THEN aim ELSE [aim EXCEPT !.owner = Nobody, !.pressed = FALSE]

(* Bug: any pointer moves the aim. *)
AnyAimMove(p, pt) == aim' = [aim EXCEPT !.axes = AimAxes(pt)]

AimMove(p, pt) ==
    aim' = IF aim.owner \notin {Nobody, p} THEN aim ELSE [aim EXCEPT !.axes = AimAxes(pt)]

AimLoss(p) == aim' = IF aim.owner \notin {Nobody, p} THEN aim ELSE NoAim

-----------------------------------------------------------------------------
Init ==
    /\ at = [p \in Pointers |-> Nobody]
    /\ down = {}
    /\ focused = TRUE
    /\ pads \in PadLists
    /\ pointers = [p \in Pointers |-> Untracked]
    /\ counts = [a \in Actions |-> 0]
    /\ stick = NoStick
    /\ drags = [z \in Zones |-> NoDrag]
    /\ aim = NoAim
    /\ held = {}
    /\ listening = TRUE

OnLayer(pt) == pt[1] \in 0..Width /\ pt[2] \in 0..Height

PointerDown(p, pt) ==
    /\ at[p] = Nobody
    /\ OnLayer(pt)
    /\ at' = [at EXCEPT ![p] = pt]
    /\ IF listening
       THEN HandleDown(p, pt) /\ AimDown(p, pt)
       ELSE UNCHANGED <<overlay, aim>>
    /\ UNCHANGED <<down, focused, pads, held, listening>>

(* A move in contact, which capture delivers even from outside the layer, or *)
(* a pointer hovering over it.                                               *)
PointerMove(p, pt) ==
    /\ at[p] # Nobody \/ OnLayer(pt)
    /\ at' = IF at[p] = Nobody THEN at ELSE [at EXCEPT ![p] = pt]
    /\ IF listening
       THEN HandleMove(p, pt) /\ AimMove(p, pt)
       ELSE UNCHANGED <<overlay, aim>>
    /\ UNCHANGED <<down, focused, pads, held, listening>>

PointerUp(p) ==
    /\ at[p] # Nobody
    /\ at' = [at EXCEPT ![p] = Nobody]
    /\ IF listening
       THEN HandleUp(p) /\ AimUp(p)
       ELSE UNCHANGED <<overlay, aim>>
    /\ UNCHANGED <<down, focused, pads, held, listening>>

(* pointercancel ends the contact. *)
PointerCancel(p) ==
    /\ at[p] # Nobody
    /\ at' = [at EXCEPT ![p] = Nobody]
    /\ IF listening
       THEN HandleUp(p) /\ AimLoss(p)
       ELSE UNCHANGED <<overlay, aim>>
    /\ UNCHANGED <<down, focused, pads, held, listening>>

(* pointerleave and lostpointercapture come after an up, or while the finger *)
(* is still down.                                                            *)
PointerLoss(p) ==
    /\ listening
    /\ HandleUp(p)
    /\ AimLoss(p)
    /\ UNCHANGED <<hands, held, listening>>

(* A press, or the auto-repeat of a key that is still down. *)
KeyDown(k) ==
    /\ focused
    /\ down' = down \cup {k}
    /\ held' = IF listening THEN held \cup {k} ELSE held
    /\ UNCHANGED <<at, focused, pads, overlay, aim, listening>>

(* The window hears of the release only while it has the focus. *)
KeyUp(k) ==
    /\ k \in down
    /\ down' = down \ {k}
    /\ held' = IF listening /\ focused THEN held \ {k} ELSE held
    /\ UNCHANGED <<at, focused, pads, overlay, aim, listening>>

(* Bug: the keyboard source does not listen for blur. *)
TouchBlur ==
    /\ focused
    /\ focused' = FALSE
    /\ IF listening
       THEN ResetAllPointers /\ aim' = NoAim
       ELSE UNCHANGED <<overlay, aim>>
    /\ UNCHANGED <<at, down, pads, held, listening>>

Blur ==
    /\ focused
    /\ focused' = FALSE
    /\ IF listening
       THEN ResetAllPointers /\ aim' = NoAim /\ held' = {}
       ELSE UNCHANGED <<overlay, aim, held>>
    /\ UNCHANGED <<at, down, pads, listening>>

Focus ==
    /\ ~focused
    /\ focused' = TRUE
    /\ UNCHANGED <<at, down, pads, overlay, aim, held, listening>>

PadChange ==
    /\ pads' \in PadLists
    /\ UNCHANGED <<at, down, focused, overlay, aim, held, listening>>

Destroy ==
    /\ listening
    /\ listening' = FALSE
    /\ ResetAllPointers
    /\ aim' = NoAim
    /\ held' = {}
    /\ UNCHANGED hands

Next ==
    \/ \E p \in Pointers, pt \in Points : PointerDown(p, pt) \/ PointerMove(p, pt)
    \/ \E p \in Pointers : PointerUp(p) \/ PointerCancel(p) \/ PointerLoss(p)
    \/ \E k \in Keys : KeyDown(k) \/ KeyUp(k)
    \/ Blur
    \/ Focus
    \/ PadChange
    \/ Destroy

Spec == Init /\ [][Next]_vars

-----------------------------------------------------------------------------
(* Properties *)

HandsTypeOK ==
    /\ at \in [Pointers -> Points \cup {Nobody}]
    /\ down \subseteq Keys
    /\ focused \in BOOLEAN
    /\ pads \in PadLists

OverlayTypeOK ==
    /\ pointers \in [Pointers -> {Untracked, OnStick} \cup {OnButton(a) : a \in Actions}
                                    \cup {OnDrag(z) : z \in Zones}]
    /\ counts \in [Actions -> Nat]
    /\ stick \in [owner : Pointers \cup {Nobody}, origin : Int \X Int, travel : Int \X Int]
    /\ drags \in [Zones -> [owner : Pointers \cup {Nobody}, axes : Int \X Int]]

AimTypeOK == aim \in [owner : Pointers \cup {Nobody}, pressed : BOOLEAN, axes : Int \X Int]

TypeOK ==
    /\ HandsTypeOK
    /\ OverlayTypeOK
    /\ AimTypeOK
    /\ held \subseteq Keys
    /\ listening \in BOOLEAN

PressesOf(a) == {p \in Pointers : pointers[p] = OnButton(a)}

(* Every button the overlay asserts, its stick and its drag zones are backed *)
(* by the fingers on the screen that took hold of them: a button's reference *)
(* count is the number of such fingers, and an analog zone has the one owner *)
(* its pointer map names.  Lost captures, duplicated releases, a blur under  *)
(* a finger and fingers sharing a button cannot make one of them stick.      *)
FingersBackInputs ==
    /\ \A p \in Pointers : at[p] = Nobody => pointers[p] = Untracked
    /\ \A a \in Actions : counts[a] = Cardinality(PressesOf(a))
    /\ \A p \in Pointers : stick.owner = p <=> pointers[p] = OnStick
    /\ \A p \in Pointers, z \in Zones : drags[z].owner = p <=> pointers[p] = OnDrag(z)

(* Once the player has let go of everything, in whatever order and with the  *)
(* window focused or not, the game reads a neutral frame.                    *)
LetGo ==
    /\ \A p \in Pointers : at[p] = Nobody
    /\ down = {}
    /\ PadFrame(pads).buttons = {}

IdleHandsReadNeutral ==
    LetGo => /\ FightFrame.buttons = {}
             /\ stick = NoStick
             /\ \A z \in Zones : drags[z] = NoDrag
             /\ ~aim.pressed
             /\ KeyboardFrame(held) = KeyboardFrame({})

StickFollowsItsFinger ==
    stick.owner # Nobody =>
      /\ at[stick.owner] # Nobody
      /\ stick.travel = <<at[stick.owner][1] - stick.origin[1],
                          at[stick.owner][2] - stick.origin[2]>>

DragsFollowTheirFingers ==
    \A z \in Zones : drags[z].owner # Nobody =>
      /\ at[drags[z].owner] # Nobody
      /\ drags[z].axes = DragAxes(z, at[drags[z].owner])

AimFollowsItsFinger ==
    /\ aim.pressed <=> aim.owner # Nobody
    /\ aim.pressed => at[aim.owner] # Nobody /\ aim.axes = AimAxes(at[aim.owner])

(* An analog input shows the place of the finger that owns it, whatever the  *)
(* other fingers do: the overlay's stick and drag zones and the pointer      *)
(* source's aim while it is pressed.                                         *)
AnalogFollowsItsFinger ==
    /\ StickFollowsItsFinger
    /\ DragsFollowTheirFingers
    /\ AimFollowsItsFinger

(* After teardown no event reaches the sources' state again: whatever the    *)
(* hands do, keyboard, overlay and pointer source read neutral.              *)
TornDownReadsNeutral ==
    ~listening => /\ TouchFrame.buttons = {}
                  /\ \A z \in Zones : drags[z] = NoDrag
                  /\ aim = NoAim
                  /\ held = {}

-----------------------------------------------------------------------------
(* The inductive invariant: the properties above, what a released zone       *)
(* leaves behind, and that a key the source holds is down.                   *)
ReleasedIsNeutral ==
    /\ stick.owner = Nobody => stick = NoStick
    /\ \A z \in Zones : drags[z].owner = Nobody => drags[z] = NoDrag

OverlayInv ==
    /\ OverlayTypeOK
    /\ FingersBackInputs
    /\ StickFollowsItsFinger
    /\ DragsFollowTheirFingers
    /\ ReleasedIsNeutral

AimInv == AimTypeOK /\ AimFollowsItsFinger

Reset ==
    /\ counts = [a \in Actions |-> 0]
    /\ stick = NoStick
    /\ drags = [z \in Zones |-> NoDrag]
    /\ aim = NoAim
    /\ held = {}

IInv ==
    /\ HandsTypeOK
    /\ OverlayInv
    /\ AimInv
    /\ held \subseteq down
    /\ ~focused => held = {}
    /\ listening \in BOOLEAN
    /\ ~listening => Reset
=============================================================================
