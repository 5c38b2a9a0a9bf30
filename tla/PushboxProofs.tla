--------------------------- MODULE PushboxProofs ---------------------------
(***************************************************************************)
(* The properties of Pushboxes for every size of the boxes and of the      *)
(* stage, and from every placement of the fighters.                        *)
(*                                                                         *)
(* A step is piecewise linear, so once the fighters' coordinates are named *)
(* every leaf is linear arithmetic: the room at the two walls together is  *)
(* enough for any overlap, and the clamp takes back at most what the       *)
(* fighters moved.                                                         *)
(***************************************************************************)
EXTENDS Pushboxes, TLAPS

LEMMA Sizes ==
  /\ Half["player"] \in Nat /\ Half["cpu"] \in Nat /\ Half \in [Sides -> Nat] /\ Height \in [Sides -> Nat]
  /\ World \in Nat /\ Speed \in Nat /\ Fall \in Nat /\ Ceiling \in Nat /\ Slack \in Nat
  /\ Slack = Half["player"] - Half["cpu"] \/ Slack = Half["cpu"] - Half["player"]
  /\ 2 * (Half["player"] + Half["cpu"]) <= World
  /\ Slack + 3 * Speed < 2 * Half["player"] /\ Slack + 3 * Speed < 2 * Half["cpu"]
  /\ \A s \in Sides : Low(s) \in Nat /\ High(s) \in Nat /\ Low(s) <= High(s)
<1>1. Half["player"] \in Nat /\ Half["cpu"] \in Nat
  BY GridAssumption DEF Sides
<1>2. \A s \in Sides : Half[s] = Half["player"] \/ Half[s] = Half["cpu"]
  BY DEF Sides
<1> QED BY <1>1, <1>2, GridAssumption DEF Low, High, Slack, Sides

LEMMA Halved == ASSUME NEW n \in Int PROVE n \div 2 \in Int /\ 2 * (n \div 2) <= n /\ n <= 2 * (n \div 2) + 1
OBVIOUS

(* Where one step brings fighters that stand in the world. *)
Standing(b) == b \in [Sides -> Int] /\ \A s \in Sides : Low(s) <= b[s] /\ b[s] <= High(s)

Moves(b, a) ==
  a \in [Sides -> Int] /\ \A s \in Sides : b[s] - Speed <= a[s] /\ a[s] <= b[s] + Speed

SameSides(b, z) == b["player"] < b["cpu"] <=> z["player"] < z["cpu"]

LEMMA ClampedIs ==
  ASSUME NEW a \in [Sides -> Int]
  PROVE  /\ Clamped(a) \in [Sides -> Int]
         /\ \A s \in Sides : Clamped(a)[s] = AtMost(AtLeast(a[s], Low(s)), High(s))
BY Sizes DEF Clamped, AtMost, AtLeast

LEMMA Coordinates ==
  ASSUME NEW b, NEW a, Standing(b), Moves(b, a)
  PROVE  /\ b["player"] \in Int /\ b["cpu"] \in Int /\ a["player"] \in Int /\ a["cpu"] \in Int
         /\ Half["player"] <= b["player"] /\ b["player"] <= World - Half["player"]
         /\ Half["cpu"] <= b["cpu"] /\ b["cpu"] <= World - Half["cpu"]
         /\ b["player"] - Speed <= a["player"] /\ a["player"] <= b["player"] + Speed
         /\ b["cpu"] - Speed <= a["cpu"] /\ a["cpu"] <= b["cpu"] + Speed
BY DEF Standing, Moves, Sides, Low, High

LEMMA OverlapType ==
  ASSUME NEW a, a["player"] \in Int, a["cpu"] \in Int
  PROVE  Overlap(a) \in Int
BY Sizes DEF Overlap, AtMost, AtLeast

(* A step of fighters that were level changes no sides.                    *)
LEMMA MoveKeepsSides ==
  ASSUME NEW b, NEW a, Standing(b), Moves(b, a), Overlap(b) <= Slack + Speed
  PROVE  SameSides(b, a)
BY Coordinates, Sizes DEF SameSides, Overlap, AtMost, AtLeast

(* Fighters that do not overlap are only clamped, which brings them        *)
(* together by no more than they moved.                                    *)
LEMMA ClampKeeps ==
  ASSUME NEW b, NEW a, Standing(b), Moves(b, a)
  PROVE  LET z == Clamped(a) IN
         /\ Standing(z)
         /\ Overlap(a) <= 0 => Overlap(z) <= Speed /\ Overlap(z) <= Slack + Speed
         /\ Overlap(b) <= Slack + Speed => SameSides(a, z)
<1> DEFINE z == Clamped(a)
<1>1. z["player"] = AtMost(AtLeast(a["player"], Half["player"]), World - Half["player"]) /\ z["cpu"] = AtMost(AtLeast(a["cpu"], Half["cpu"]), World - Half["cpu"])
  BY ClampedIs DEF Moves, Sides, Low, High
<1>2. Standing(z)
  <2>1. \A s \in Sides : Low(s) \in Nat /\ High(s) \in Nat /\ Low(s) <= High(s)
    BY Sizes
  <2>2. z \in [Sides -> Int] /\ \A s \in Sides : z[s] = AtMost(AtLeast(a[s], Low(s)), High(s))
    BY ClampedIs DEF Moves
  <2>3. \A s \in Sides : a[s] \in Int
    BY DEF Moves
  <2> HIDE DEF z
  <2> QED BY <2>1, <2>2, <2>3 DEF Standing, AtMost, AtLeast
<1> HIDE DEF z
<1>3. Overlap(a) <= 0 => Overlap(z) <= Speed
  BY <1>1, Coordinates, Sizes DEF Overlap, AtMost, AtLeast
<1>4. Overlap(b) <= Slack + Speed => SameSides(a, z)
  BY <1>1, Coordinates, Sizes DEF Overlap, SameSides, AtMost, AtLeast
<1>5. Overlap(z) \in Int
  BY <1>1, Coordinates, Sizes, OverlapType DEF AtMost, AtLeast
<1> QED BY <1>2, <1>3, <1>4, <1>5, Sizes DEF z

(* Fighters that overlap are pushed apart; the two walls leave room enough *)
(* for any overlap, so what is left of it comes from the clamp, and from   *)
(* the difference of the boxes when one fighter lands within the other.    *)
LEMMA PushKeeps ==
  ASSUME NEW b, NEW a, Standing(b), Moves(b, a), Overlap(a) > 0
  PROVE  LET z == Clamped(Separated(a)) IN
         /\ Standing(z)
         /\ Overlap(z) <= Slack + Speed
         /\ Overlap(b) <= Slack + Speed => Overlap(z) <= Speed /\ SameSides(a, z)
<1> DEFINE p == a["player"]
           c == a["cpu"]
           half == Overlap(a) \div 2
           left == p <= c
           toP == IF left THEN AtLeast(p - Half["player"], 0) ELSE AtLeast(World - Half["player"] - p, 0)
           toC == IF left THEN AtLeast(World - Half["cpu"] - c, 0) ELSE AtLeast(c - Half["cpu"], 0)
           rest == Overlap(a) - AtMost(half, toP) - AtMost(half, toC)
           extra == AtMost(rest, toP - AtMost(half, toP))
           last == AtMost(rest - extra, toC - AtMost(half, toC))
           byP == AtMost(half, toP) + extra
           byC == AtMost(half, toC) + last
           r == Separated(a)
           z == Clamped(r)
<1>1. /\ p \in Int /\ c \in Int /\ Overlap(a) \in Int
      /\ Half["player"] - Speed <= p /\ p <= World - Half["player"] + Speed
      /\ Half["cpu"] - Speed <= c /\ c <= World - Half["cpu"] + Speed
  BY Coordinates, Sizes DEF Overlap, AtMost, AtLeast
<1>2. half \in Int /\ 2 * half <= Overlap(a) /\ Overlap(a) <= 2 * half + 1
  BY <1>1, Halved
<1>3. /\ toP \in Nat /\ toC \in Nat /\ Overlap(a) <= toP + toC
      /\ left => toP = AtLeast(p - Half["player"], 0) /\ toC = AtLeast(World - Half["cpu"] - c, 0)
      /\ ~left => toP = AtLeast(World - Half["player"] - p, 0) /\ toC = AtLeast(c - Half["cpu"], 0)
  BY <1>1, Sizes DEF Overlap, AtMost, AtLeast
<1> HIDE DEF toP, toC, half
<1>4. /\ byP \in Int /\ byC \in Int /\ byP + byC = Overlap(a)
      /\ 0 <= byP /\ byP <= toP /\ 0 <= byC /\ byC <= toC
  BY <1>1, <1>2, <1>3 DEF AtMost
<1>5. r = [player |-> IF left THEN p - byP ELSE p + byP, cpu |-> IF left THEN c + byC ELSE c - byC]
  <2>1. CASE left
    <3>1. r = [player |-> p + (-1) * byP, cpu |-> c + 1 * byC]
      BY <2>1 DEF Separated, half, toP, toC, Low, High
    <3> QED BY <1>1, <1>4, <2>1, <3>1
  <2>2. CASE ~left
    <3>1. r = [player |-> p + 1 * byP, cpu |-> c + (-1) * byC]
      BY <2>2 DEF Separated, half, toP, toC, Low, High
    <3> QED BY <1>1, <1>4, <2>2, <3>1
  <2> QED BY <2>1, <2>2
<1>6. r \in [Sides -> Int] /\ r["player"] = (IF left THEN p - byP ELSE p + byP)
      /\ r["cpu"] = (IF left THEN c + byC ELSE c - byC)
  BY <1>1, <1>4, <1>5 DEF Sides
<1> HIDE DEF r, byP, byC
<1>7. z["player"] = AtMost(AtLeast(r["player"], Half["player"]), World - Half["player"]) /\ z["cpu"] = AtMost(AtLeast(r["cpu"], Half["cpu"]), World - Half["cpu"])
  BY <1>6, ClampedIs DEF Sides, Low, High
<1>8. Standing(z)
  <2>1. \A s \in Sides : Low(s) \in Nat /\ High(s) \in Nat /\ Low(s) <= High(s)
    BY Sizes
  <2>2. z \in [Sides -> Int] /\ \A s \in Sides : z[s] = AtMost(AtLeast(r[s], Low(s)), High(s))
    BY <1>6, ClampedIs
  <2>3. \A s \in Sides : r[s] \in Int
    BY <1>6
  <2> HIDE DEF z
  <2> QED BY <2>1, <2>2, <2>3 DEF Standing, AtMost, AtLeast
<1> HIDE DEF z
<1>9. Overlap(z) <= Slack + Speed
  BY <1>1, <1>3, <1>4, <1>6, <1>7, Sizes DEF Overlap, AtMost, AtLeast
<1>10. Overlap(b) <= Slack + Speed => SameSides(a, z)
  BY <1>1, <1>3, <1>4, <1>6, <1>7, Coordinates, Sizes DEF Overlap, SameSides, AtMost, AtLeast
<1>11. Overlap(b) <= Slack + Speed => Overlap(z) <= Speed
  <2> SUFFICES ASSUME Overlap(b) <= Slack + Speed PROVE Overlap(z) <= Speed
    OBVIOUS
  <2>1. Overlap(a) = Half["player"] + Half["cpu"] - (IF left THEN c - p ELSE p - c)
    BY Coordinates, Sizes DEF Overlap, AtMost, AtLeast
  <2>2. IF left THEN r["cpu"] - r["player"] = Half["player"] + Half["cpu"]
                ELSE r["player"] - r["cpu"] = Half["player"] + Half["cpu"]
    BY <1>1, <1>4, <1>6, <2>1, Sizes
  <2>3. /\ r["player"] \in Int /\ r["cpu"] \in Int
        /\ Half["player"] - Speed <= r["player"] /\ r["player"] <= World - Half["player"] + Speed
        /\ Half["cpu"] - Speed <= r["cpu"] /\ r["cpu"] <= World - Half["cpu"] + Speed
    BY <1>1, <1>3, <1>4, <1>6, Sizes DEF AtLeast
  <2> HIDE DEF left, p, c
  <2> QED BY <1>7, <2>2, <2>3, Sizes DEF Overlap, AtMost, AtLeast
<1> QED BY <1>8, <1>9, <1>10, <1>11 DEF z, r

-----------------------------------------------------------------------------
(* In the world between steps, and at one level apart but for Speed.  The  *)
(* step that keeps it may be the first or any later one.                   *)
PushInv ==
  /\ Standing(x) /\ y \in [Sides -> Int]
  /\ OverlapIsBounded

(* What one step may do to the sides, the facing and the overlap of        *)
(* fighters that stay at one level.                                        *)
StepActs ==
  Level(y) /\ Level(y') => SameSides(x, x') /\ facing' = Facing(x') /\ Overlap(x') <= Speed

LEMMA InitPush == Init => PushInv
<1> SUFFICES ASSUME Init PROVE PushInv
  OBVIOUS
<1>1. Standing(x)
  BY Sizes DEF Init, Standing, Even
<1>2. y \in [Sides -> Int]
  BY Sizes DEF Init, Even
<1>3. OverlapIsBounded
  <2>1. x["player"] \in Int /\ x["cpu"] \in Int
    BY <1>1 DEF Standing, Sides
  <2>2. Overlap(x) \in Int
    BY <2>1, Sizes DEF Overlap, AtMost, AtLeast
  <2> QED BY <2>2, Sizes DEF Init, OverlapIsBounded
<1> QED BY <1>1, <1>2, <1>3 DEF PushInv

LEMMA MoveKeeps ==
  ASSUME PushInv, NEW dx \in [Sides -> Even(-Speed..Speed)], NEW dy \in [Sides -> Even(-Fall..Fall)],
         Move(dx, dy)
  PROVE  PushInv' /\ StepActs
<1> DEFINE a == [s \in Sides |-> x[s] + dx[s]]
           h == [s \in Sides |-> AtMost(AtLeast(y[s] + dy[s], 0), Ceiling)]
           z == Clamped(PushedApart(a, h))
<1>1. y' = h /\ facing' = Facing(a) /\ x' = z
  BY DEF Move
<1>2. h \in [Sides -> Int]
  BY Sizes DEF PushInv, AtMost, AtLeast, Even
<1>3. Standing(x) /\ Moves(x, a)
  BY Sizes DEF PushInv, Standing, Moves, Even
<1> HIDE DEF a, h
<1>4. Overlap(a) \in Int
  BY <1>3, Coordinates, OverlapType
<1>5. /\ Standing(z)
      /\ Level(h) => Overlap(z) <= Slack + Speed
      /\ Level(h) /\ Overlap(x) <= Slack + Speed => SameSides(a, z) /\ Overlap(z) <= Speed
  <2>1. CASE Level(h) /\ Overlap(a) > 0
    BY <1>3, <2>1, PushKeeps DEF PushedApart
  <2>2. CASE ~(Level(h) /\ Overlap(a) > 0)
    <3>1. z = Clamped(a) /\ (Level(h) => Overlap(a) <= 0)
      BY <1>4, <2>2 DEF PushedApart
    <3> QED BY <1>3, <3>1, ClampKeeps
  <2> QED BY <2>1, <2>2
<1>6. Level(y) => Overlap(x) <= Slack + Speed
  BY DEF PushInv, OverlapIsBounded
<1> HIDE DEF z
<1>7. PushInv'
  BY <1>1, <1>2, <1>5 DEF PushInv, OverlapIsBounded
<1>8. ASSUME Level(y), Level(y') PROVE SameSides(x, x') /\ facing' = Facing(x') /\ Overlap(x') <= Speed
  <2>1. SameSides(x, a) /\ SameSides(a, z) /\ Overlap(z) <= Speed
    BY <1>1, <1>3, <1>5, <1>6, <1>8, MoveKeepsSides
  <2> QED BY <1>1, <2>1 DEF SameSides, Facing
<1> QED BY <1>7, <1>8 DEF StepActs

LEMMA PushNext ==
  ASSUME PushInv, [Next]_vars
  PROVE  PushInv' /\ (StepActs \/ UNCHANGED vars)
<1>1. CASE UNCHANGED vars
  BY <1>1 DEF vars, PushInv, OverlapIsBounded
<1>2. CASE Next
  BY <1>2, MoveKeeps DEF Next
<1> QED BY <1>1, <1>2

LEMMA PushInvariant == Spec => []PushInv
<1>1. PushInv /\ [Next]_vars => PushInv'
  BY PushNext
<1> QED BY <1>1, InitPush, PTL DEF Spec

(* For any two boxes, stage and speed: fighters at one level are inside    *)
(* each other by no more than nested boxes fall short of parting and one   *)
(* clamp takes back, however they landed and wherever the walls are.       *)
THEOREM OverlapBounded == Spec => []OverlapIsBounded
<1>1. PushInv => OverlapIsBounded
  BY DEF PushInv
<1> QED BY <1>1, PushInvariant, PTL

(* What a landing left is pushed out in the next step.                     *)
THEOREM LandingsParted == Spec => LandingsArePartedNext
<1>1. PushInv /\ [Next]_vars => [Level(y) /\ Level(y') => Overlap(x') <= Speed]_vars
  BY PushNext DEF StepActs
<1> QED BY <1>1, PushInvariant, PTL DEF Spec, LandingsArePartedNext

(* Fighters at one level never pass through each other.                    *)
THEOREM SidesKept == Spec => SidesAreKept
<1>1. PushInv /\ [Next]_vars =>
        [Level(y) /\ Level(y') => (x["player"] < x["cpu"] <=> x'["player"] < x'["cpu"])]_vars
  BY PushNext DEF StepActs, SameSides
<1> QED BY <1>1, PushInvariant, PTL DEF Spec, SidesAreKept

(* The facing a step computes before the push and the clamp is still right *)
(* after them.                                                             *)
THEOREM FacingKept == Spec => FightersFaceEachOther
<1>1. PushInv /\ [Next]_vars => [Level(y) /\ Level(y') => facing' = Facing(x')]_vars
  BY PushNext DEF StepActs
<1> QED BY <1>1, PushInvariant, PTL DEF Spec, FightersFaceEachOther
=============================================================================
