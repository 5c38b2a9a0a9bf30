----------------------------- MODULE Pushboxes -----------------------------
(***************************************************************************)
(* The geometry of one step of packages/sim/src/combat: the fighters move, *)
(* turn to each other, are pushed apart and kept in the world.             *)
(*                                                                         *)
(* One step from every placement on a grid.  Positions, speeds and boxes   *)
(* before the step are even numbers, so that halving an overlap is exact.  *)
(***************************************************************************)
EXTENDS Integers

CONSTANTS Half,     \* of the width of each fighter's pushbox, centred on him
          Height,   \* of each fighter's pushbox, above his feet
          World,    \* the world is 0..World across, the floor is at height 0
          Ceiling,  \* bound on the height of a jump
          Speed,    \* bound on the move across of one step
          Fall      \* bound on the move up or down of one step

Sides == {"player", "cpu"}

(* Half the difference of the widths: boxes within each other overlap by   *)
(* this much less than it takes to part them.                              *)
Slack ==
  IF Half["player"] <= Half["cpu"] THEN Half["cpu"] - Half["player"]
                                   ELSE Half["player"] - Half["cpu"]

ASSUME GridAssumption ==
  /\ {World, Ceiling, Speed, Fall} \subseteq Nat
  /\ Half \in [Sides -> Nat] /\ Height \in [Sides -> Nat]
  /\ \A n \in {Half["player"], Half["cpu"], World, Ceiling, Speed, Fall} : n % 2 = 0
  /\ 2 * (Half["player"] + Half["cpu"]) <= World
  /\ \A s \in Sides : Slack + 3 * Speed < 2 * Half[s]

VARIABLES x,       \* position.x by side
          y,       \* the height of the feet by side
          facing,  \* by side
          moved    \* the step has been taken

vars == <<x, y, facing, moved>>

(* pushboxPositionRange: a fighter's box stays in the world. *)
Low(s) == Half[s]
High(s) == World - Half[s]

AtMost(a, b) == IF a <= b THEN a ELSE b
AtLeast(a, b) == IF a >= b THEN a ELSE b

Even(S) == {n \in S : n % 2 = 0}

(* The vertical test of resolvePushboxes: neither is wholly above the other. *)
Level(h) ==
  /\ h["player"] < h["cpu"] + Height["cpu"]
  /\ h["cpu"] < h["player"] + Height["player"]

(* From the left-most right edge back to the right-most left edge. *)
Overlap(a) ==
  AtMost(a["player"] + Half["player"], a["cpu"] + Half["cpu"])
    - AtLeast(a["player"] - Half["player"], a["cpu"] - Half["cpu"])

(* Bug: a fighter turns only when the whole box of the other has passed.   *)
FacingByEdges(a) ==
  IF a["player"] + Half["player"] < a["cpu"] - Half["cpu"]
    THEN [player |-> "right", cpu |-> "left"]
    ELSE [player |-> "left", cpu |-> "right"]

(* resolveFacing *)
Facing(a) ==
  IF a["player"] < a["cpu"]
    THEN [player |-> "right", cpu |-> "left"]
    ELSE [player |-> "left", cpu |-> "right"]

(* Bug: the room a fighter has before the wall is not looked at.           *)
SplitBlindly(a) ==
  LET half == Overlap(a) \div 2
      left == a["player"] <= a["cpu"]
      way(s) == IF (s = "player") = left THEN -1 ELSE 1
  IN [s \in Sides |-> a[s] + way(s) * half]

(* Bug: the fighter on the left is taken for the one on the right.         *)
PushesInward(a) ==
  LET half == Overlap(a) \div 2
      way(s) == IF (s = "player") = (a["player"] <= a["cpu"]) THEN 1 ELSE -1
  IN [s \in Sides |-> a[s] + way(s) * half]

(* Each yields half of the overlap if it has the room; what is left goes   *)
(* to the player first and then to the cpu, as far as they have room.      *)
Separated(a) ==
  LET half == Overlap(a) \div 2
      left == a["player"] <= a["cpu"]
      way(s) == IF (s = "player") = left THEN -1 ELSE 1
      room(s) == AtLeast(IF way(s) < 0 THEN a[s] - Low(s) ELSE High(s) - a[s], 0)
      share(s) == AtMost(half, room(s))
      rest == Overlap(a) - share("player") - share("cpu")
      extra == AtMost(rest, room("player") - share("player"))
      last == AtMost(rest - extra, room("cpu") - share("cpu"))
  IN [player |-> a["player"] + way("player") * (share("player") + extra),
      cpu |-> a["cpu"] + way("cpu") * (share("cpu") + last)]

(* resolvePushboxes *)
PushedApart(a, h) == IF Level(h) /\ Overlap(a) > 0 THEN Separated(a) ELSE a

(* clampToWorldBounds *)
Clamped(a) == [s \in Sides |-> AtMost(AtLeast(a[s], Low(s)), High(s))]

(* Between steps: in the world, and as far inside each other as steps can  *)
(* leave them (OverlapIsBounded, which every step restores).               *)
Init ==
  /\ x \in {a \in [Sides -> Even(0..World)] : \A s \in Sides : Low(s) <= a[s] /\ a[s] <= High(s)}
  /\ y \in [Sides -> Even(0..Ceiling)]
  /\ Level(y) => Overlap(x) <= Slack + Speed
  /\ facing = Facing(x)
  /\ moved = FALSE

(* Steps 3 to 5 of CombatEngine.step. *)
Move(dx, dy) ==
  LET a == [s \in Sides |-> x[s] + dx[s]]
      h == [s \in Sides |-> AtMost(AtLeast(y[s] + dy[s], 0), Ceiling)]
  IN /\ ~moved
     /\ moved' = TRUE
     /\ y' = h
     /\ facing' = Facing(a)
     /\ x' = Clamped(PushedApart(a, h))

Next ==
  \E dx \in [Sides -> Even(-Speed..Speed)], dy \in [Sides -> Even(-Fall..Fall)] : Move(dx, dy)

Spec == Init /\ [][Next]_vars

-----------------------------------------------------------------------------
(* Properties *)

(* Two fighters at one level are inside each other by no more than what    *)
(* one lands short of parting nested boxes and one clamp takes back.       *)
OverlapIsBounded == Level(y) => Overlap(x) <= Slack + Speed

(* What a landing left of the overlap is pushed out in the next step: only *)
(* the clamp at a wall lets fighters who stay level overlap, by one step.  *)
LandingsArePartedNext == [][Level(y) /\ Level(y') => Overlap(x') <= Speed]_vars

(* Fighters at one level never pass through each other.                    *)
SidesAreKept ==
  [][Level(y) /\ Level(y') => (x["player"] < x["cpu"] <=> x'["player"] < x'["cpu"])]_vars

(* Fighters that stay at one level face each other after the step: the     *)
(* push and the clamp that follow resolveFacing never undo it.             *)
FightersFaceEachOther ==
  [][Level(y) /\ Level(y') => facing' = Facing(x')]_vars
============================================================================
