------------------------- MODULE InputDevicesProofs -------------------------
(***************************************************************************)
(* Theorems about InputDevices for any number of pointers, keys, zones and *)
(* pads and any size of the layer.  A handler changes one pointer and the  *)
(* zone it holds; each handler has a lemma for the overlay and one for the *)
(* pointer source, and a step of the specification combines two of them.   *)
(***************************************************************************)
EXTENDS InputDevices, TLAPS, FiniteSetTheorems, WellFoundedInduction

(* The first of the zones under a point is one of them. *)
LEMMA FirstIsMember ==
  ASSUME NEW S \in SUBSET Nat, S # {}
  PROVE  First(S) \in S
<1> DEFINE R == {ss \in Nat \X Nat : ss[1] < ss[2]}
<1>1. IsWellFoundedOn(R, Nat)
  BY NatLessThanWellFounded DEF OpToRel
<1>2. \E x \in S : \A y \in S : ~ (<<y, x>> \in R)
  <2> HIDE DEF R
  <2> QED BY <1>1, WFMin
<1>3. PICK x \in S : \A y \in S : ~ (<<y, x>> \in R)
  BY <1>2
<1>4. \A y \in S : x <= y
  <2> TAKE y \in S
  <2>1. x \in Nat /\ y \in Nat
    OBVIOUS
  <2>2. <<y, x>> \in Nat \X Nat /\ ~(<<y, x>> \in R)
    BY <1>3, <2>1
  <2>3. ~(y < x)
    BY <2>2
  <2> QED BY <2>1, <2>3
<1> QED BY <1>4 DEF First

(* Axes are integers. *)
LEMMA NormalizedIsInt ==
  ASSUME NEW n \in Int, NEW e \in Nat, e >= 1
  PROVE  Normalized(n, e) \in Int
<1>1. AxisOne \in Nat
  BY AxisOneAssumption
<1>2. (2 * n - e) * AxisOne \in Int
  BY <1>1
<1>3. ((2 * n - e) * AxisOne) \div e \in Int
  BY <1>2
<1> QED BY <1>1, <1>3 DEF Normalized, ClampAxis

LEMMA AxesAreInts ==
  ASSUME NEW pt \in Points
  PROVE  /\ AimAxes(pt) \in Int \X Int
         /\ \A z \in Zones : DragAxes(z, pt) \in Int \X Int
<1>1. pt[1] \in Int /\ pt[2] \in Int
  BY PointsAssumption
<1>2. Width \in Nat /\ Width >= 1 /\ Height \in Nat /\ Height >= 1
      /\ Width \div 2 \in Nat /\ Width \div 2 >= 1
  BY LayerAssumption
<1>3. AimAxes(pt) \in Int \X Int
  BY <1>1, <1>2, NormalizedIsInt DEF AimAxes
<1>4. ASSUME NEW z \in Zones PROVE DragAxes(z, pt) \in Int \X Int
  <2>1. \A n \in Int : Normalized(n, Width) \in Int /\ Normalized(n, Width \div 2) \in Int
                       /\ Normalized(n, Height) \in Int
    BY <1>2, NormalizedIsInt
  <2>2. pt[1] - 0 \in Int /\ pt[1] - (Width \div 2) \in Int
    BY <1>1, <1>2
  <2> QED BY <1>1, <2>1, <2>2 DEF DragAxes
<1> QED BY <1>3, <1>4

(* The reference count of a button when one pointer takes or leaves it. *)
LEMMA CountPresses ==
  ASSUME NEW S, NEW p, IsFiniteSet(S)
  PROVE  /\ p \notin S => Cardinality(S \cup {p}) = Cardinality(S) + 1
         /\ p \in S => Cardinality(S \ {p}) = Cardinality(S) - 1
         /\ p \in S => Cardinality(S) > 0
         /\ Cardinality(S) \in Nat
<1>1. Cardinality(S) \in Nat
  BY FS_CardinalityType
<1>2. Cardinality(S) = 0 => S = {}
  BY FS_EmptySet
<1>3. Cardinality(S \cup {p}) = IF p \in S THEN Cardinality(S) ELSE Cardinality(S) + 1
  BY FS_AddElement
<1>4. Cardinality(S \ {p}) = IF p \in S THEN Cardinality(S) - 1 ELSE Cardinality(S)
  BY FS_RemoveElement
<1> QED BY <1>1, <1>2, <1>3, <1>4

LEMMA PressesAreFinite ==
  ASSUME NEW a
  PROVE  IsFiniteSet(PressesOf(a)) /\ PressesOf(a) \subseteq Pointers
BY PointersAssumption, FS_Subset DEF PressesOf

(* A pointer whose state goes from one that presses no button to another. *)
LEMMA SamePresses ==
  ASSUME NEW p \in Pointers, NEW q, pointers' = [pointers EXCEPT ![p] = q],
         OverlayTypeOK, NEW a, pointers[p] # OnButton(a), q # OnButton(a)
  PROVE  PressesOf(a)' = PressesOf(a)
BY DEF PressesOf, OverlayTypeOK

LEMMA StatesDiffer ==
  /\ Untracked # OnStick
  /\ \A a : OnButton(a) # Untracked /\ OnButton(a) # OnStick
  /\ \A z : OnDrag(z) # Untracked /\ OnDrag(z) # OnStick
  /\ \A a, z : OnButton(a) # OnDrag(z)
  /\ \A a, b : OnButton(a) = OnButton(b) => a = b
  /\ \A y, z : OnDrag(y) = OnDrag(z) => y = z
BY DEF Untracked, OnStick, OnButton, OnDrag

(* Resetting leaves nothing held. *)
LEMMA ResetKeeps ==
  ASSUME at \in [Pointers -> Points \cup {Nobody}], UNCHANGED at, ResetAllPointers
  PROVE  OverlayInv'
<1> USE PointersAssumption
<1>1. pointers' = [p \in Pointers |-> Untracked] /\ counts' = [a \in Actions |-> 0]
      /\ stick' = NoStick /\ drags' = [z \in Zones |-> NoDrag]
  BY DEF ResetAllPointers
<1>2. OverlayTypeOK'
  BY <1>1 DEF OverlayTypeOK, NoStick, NoDrag
<1>3. \A a : PressesOf(a)' = {}
  BY <1>1, StatesDiffer DEF PressesOf
<1>4. FingersBackInputs'
  BY <1>1, <1>3, StatesDiffer, FS_EmptySet DEF FingersBackInputs, NoStick, NoDrag
<1>5. StickFollowsItsFinger' /\ DragsFollowTheirFingers' /\ ReleasedIsNeutral'
  BY <1>1 DEF StickFollowsItsFinger, DragsFollowTheirFingers, ReleasedIsNeutral, NoStick, NoDrag
<1> QED BY <1>2, <1>4, <1>5 DEF OverlayInv

(* A finger that presses a button zone. *)
LEMMA PressKeeps ==
  ASSUME OverlayInv, at \in [Pointers -> Points \cup {Nobody}],
         NEW p \in Pointers, NEW pt \in Points, at[p] = Nobody,
         at' = [at EXCEPT ![p] = pt],
         NEW a \in Actions, PressButton(p, a)
  PROVE  OverlayInv'
<1> USE PointersAssumption, PointsAssumption
<1>1. /\ pointers' = [pointers EXCEPT ![p] = OnButton(a)]
      /\ counts' = [counts EXCEPT ![a] = @ + 1]
      /\ stick' = stick /\ drags' = drags
  BY DEF PressButton
<1>2. OverlayTypeOK /\ FingersBackInputs
  BY DEF OverlayInv
<1>3. pointers[p] = Untracked
  BY <1>2 DEF FingersBackInputs
<1>4. OverlayTypeOK'
  BY <1>1, <1>2 DEF OverlayTypeOK
<1>5. \A q \in Pointers : at'[q] = Nobody => pointers'[q] = Untracked
  BY <1>1, <1>2 DEF FingersBackInputs, OverlayTypeOK
<1>6. ASSUME NEW b \in Actions PROVE counts'[b] = Cardinality(PressesOf(b)')
  <2>1. CASE b # a
    <3>1. PressesOf(b)' = PressesOf(b)
      BY <1>1, <1>2, <1>3, <2>1, SamePresses, StatesDiffer
    <3> QED BY <1>1, <1>2, <2>1, <3>1 DEF OverlayTypeOK, FingersBackInputs
  <2>2. CASE b = a
    <3>1. PressesOf(a)' = PressesOf(a) \cup {p}
      BY <1>1, <1>2 DEF PressesOf, OverlayTypeOK
    <3>2. p \notin PressesOf(a)
      BY <1>3, StatesDiffer DEF PressesOf
    <3>3. Cardinality(PressesOf(a)') = Cardinality(PressesOf(a)) + 1
      BY <3>1, <3>2, PressesAreFinite, CountPresses
    <3> QED BY <1>1, <1>2, <2>2, <3>3 DEF OverlayTypeOK, FingersBackInputs
  <2> QED BY <2>1, <2>2
<1>7. \A q \in Pointers : stick'.owner = q <=> pointers'[q] = OnStick
  BY <1>1, <1>2, <1>3, StatesDiffer DEF FingersBackInputs, OverlayTypeOK
<1>8. \A q \in Pointers, z \in Zones : drags'[z].owner = q <=> pointers'[q] = OnDrag(z)
  BY <1>1, <1>2, <1>3, StatesDiffer DEF FingersBackInputs, OverlayTypeOK
<1>9. FingersBackInputs'
  BY <1>5, <1>6, <1>7, <1>8 DEF FingersBackInputs
<1>10. stick.owner # p /\ \A z \in Zones : drags[z].owner # p
  BY <1>2, <1>3, StatesDiffer DEF FingersBackInputs
<1>11. StickFollowsItsFinger' /\ DragsFollowTheirFingers' /\ ReleasedIsNeutral'
  BY <1>1, <1>2, <1>10
  DEF OverlayInv, OverlayTypeOK, StickFollowsItsFinger, DragsFollowTheirFingers, ReleasedIsNeutral, DragAxes
<1> QED BY <1>4, <1>9, <1>11 DEF OverlayInv

(* A finger that takes the stick. *)
LEMMA GrabStickKeeps ==
  ASSUME OverlayInv, at \in [Pointers -> Points \cup {Nobody}],
         NEW p \in Pointers, NEW pt \in Points, at[p] = Nobody,
         at' = [at EXCEPT ![p] = pt],
         stick.owner = Nobody, GrabStick(p, pt)
  PROVE  OverlayInv'
<1> USE PointersAssumption, PointsAssumption
<1>1. /\ pointers' = [pointers EXCEPT ![p] = OnStick]
      /\ stick' = [owner |-> p, origin |-> pt, travel |-> <<0, 0>>]
      /\ counts' = counts /\ drags' = drags
  BY DEF GrabStick
<1>2. OverlayTypeOK /\ FingersBackInputs
  BY DEF OverlayInv
<1>3. pointers[p] = Untracked
  BY <1>2 DEF FingersBackInputs
<1>4. OverlayTypeOK'
  BY <1>1, <1>2 DEF OverlayTypeOK
<1>5. \A q \in Pointers : at'[q] = Nobody => pointers'[q] = Untracked
  BY <1>1, <1>2 DEF FingersBackInputs, OverlayTypeOK
<1>6. \A b \in Actions : counts'[b] = Cardinality(PressesOf(b)')
  <2> TAKE b \in Actions
  <2>1. PressesOf(b)' = PressesOf(b)
    BY <1>1, <1>2, <1>3, SamePresses, StatesDiffer
  <2> QED BY <1>1, <1>2, <2>1 DEF FingersBackInputs
<1>7. \A q \in Pointers : pointers[q] # OnStick
  BY <1>2 DEF FingersBackInputs
<1>8. \A q \in Pointers : stick'.owner = q <=> pointers'[q] = OnStick
  BY <1>1, <1>2, <1>7 DEF OverlayTypeOK
<1>9. \A q \in Pointers, z \in Zones : drags'[z].owner = q <=> pointers'[q] = OnDrag(z)
  BY <1>1, <1>2, <1>3, StatesDiffer DEF FingersBackInputs, OverlayTypeOK
<1>10. FingersBackInputs'
  BY <1>5, <1>6, <1>8, <1>9 DEF FingersBackInputs
<1>11. \A z \in Zones : drags[z].owner # p
  BY <1>2, <1>3, StatesDiffer DEF FingersBackInputs
<1>12. StickFollowsItsFinger'
  <2>1. stick'.owner = p /\ stick'.origin = pt /\ stick'.travel = <<0, 0>> /\ at'[p] = pt
    BY <1>1
  <2>2. pt # Nobody /\ pt[1] \in Int /\ pt[2] \in Int
    OBVIOUS
  <2> QED BY <2>1, <2>2 DEF StickFollowsItsFinger
<1>13. DragsFollowTheirFingers' /\ ReleasedIsNeutral'
  BY <1>1, <1>2, <1>11
  DEF OverlayInv, OverlayTypeOK, DragsFollowTheirFingers, ReleasedIsNeutral, DragAxes
<1> QED BY <1>4, <1>10, <1>12, <1>13 DEF OverlayInv

(* A finger that takes a drag zone. *)
LEMMA GrabDragKeeps ==
  ASSUME OverlayInv, at \in [Pointers -> Points \cup {Nobody}],
         NEW p \in Pointers, NEW pt \in Points, at[p] = Nobody,
         at' = [at EXCEPT ![p] = pt],
         NEW y \in Zones, drags[y].owner = Nobody, GrabDrag(p, y, pt)
  PROVE  OverlayInv'
<1> USE PointersAssumption, PointsAssumption
<1>1. /\ pointers' = [pointers EXCEPT ![p] = OnDrag(y)]
      /\ drags' = [drags EXCEPT ![y] = [owner |-> p, axes |-> DragAxes(y, pt)]]
      /\ counts' = counts /\ stick' = stick
  BY DEF GrabDrag
<1>2. OverlayTypeOK /\ FingersBackInputs
  BY DEF OverlayInv
<1>3. pointers[p] = Untracked
  BY <1>2 DEF FingersBackInputs
<1>4. OverlayTypeOK'
  BY <1>1, <1>2, AxesAreInts DEF OverlayTypeOK
<1>5. \A q \in Pointers : at'[q] = Nobody => pointers'[q] = Untracked
  BY <1>1, <1>2 DEF FingersBackInputs, OverlayTypeOK
<1>6. \A b \in Actions : counts'[b] = Cardinality(PressesOf(b)')
  <2> TAKE b \in Actions
  <2>1. PressesOf(b)' = PressesOf(b)
    BY <1>1, <1>2, <1>3, SamePresses, StatesDiffer
  <2> QED BY <1>1, <1>2, <2>1 DEF FingersBackInputs
<1>7. \A q \in Pointers : pointers[q] # OnDrag(y)
  BY <1>2 DEF FingersBackInputs
<1>8. \A q \in Pointers : stick'.owner = q <=> pointers'[q] = OnStick
  BY <1>1, <1>2, <1>3, StatesDiffer DEF FingersBackInputs, OverlayTypeOK
<1>9. ASSUME NEW q \in Pointers, NEW z \in Zones
      PROVE  drags'[z].owner = q <=> pointers'[q] = OnDrag(z)
  <2>1. CASE z = y
    BY <1>1, <1>2, <1>7, <2>1 DEF OverlayTypeOK
  <2>2. CASE z # y
    <3>1. drags'[z] = drags[z]
      BY <1>1, <2>2
    <3>2. drags[z].owner = q <=> pointers[q] = OnDrag(z)
      BY <1>2 DEF FingersBackInputs
    <3>3. pointers'[q] = OnDrag(z) <=> pointers[q] = OnDrag(z)
      BY <1>1, <1>2, <1>3, <2>2, StatesDiffer DEF OverlayTypeOK
    <3> QED BY <3>1, <3>2, <3>3
  <2> QED BY <2>1, <2>2
<1>10. FingersBackInputs'
  BY <1>5, <1>6, <1>8, <1>9 DEF FingersBackInputs
<1>11. stick.owner # p /\ \A z \in Zones : drags[z].owner # p
  BY <1>2, <1>3, StatesDiffer DEF FingersBackInputs
<1>12. StickFollowsItsFinger'
  BY <1>1, <1>2, <1>11 DEF OverlayInv, OverlayTypeOK, StickFollowsItsFinger
<1>13. ASSUME NEW z \in Zones, drags'[z].owner # Nobody
       PROVE  at'[drags'[z].owner] # Nobody
              /\ drags'[z].axes = DragAxes(z, at'[drags'[z].owner])
  <2>1. CASE z = y
    <3>1. drags'[z].owner = p /\ drags'[z].axes = DragAxes(y, pt) /\ at'[p] = pt
      BY <1>1, <1>2, <2>1 DEF OverlayTypeOK
    <3> QED BY <2>1, <3>1
  <2>2. CASE z # y
    <3>1. drags'[z] = drags[z] /\ drags[z].owner \in Pointers \cup {Nobody} /\ drags[z].owner # p
      BY <1>1, <1>2, <1>11, <2>2 DEF OverlayTypeOK
    <3>2. at'[drags[z].owner] = at[drags[z].owner]
      BY <1>13, <3>1
    <3> QED BY <1>13, <3>1, <3>2 DEF OverlayInv, DragsFollowTheirFingers
  <2> QED BY <2>1, <2>2
<1>14. DragsFollowTheirFingers'
  BY <1>13 DEF DragsFollowTheirFingers, DragAxes
<1>15. ReleasedIsNeutral'
  BY <1>1, <1>2 DEF OverlayInv, OverlayTypeOK, ReleasedIsNeutral
<1> QED BY <1>4, <1>10, <1>12, <1>14, <1>15 DEF OverlayInv

(* pointerdown *)
LEMMA DownKeeps ==
  ASSUME OverlayInv, at \in [Pointers -> Points \cup {Nobody}],
         NEW p \in Pointers, NEW pt \in Points, at[p] = Nobody,
         at' = [at EXCEPT ![p] = pt], HandleDown(p, pt)
  PROVE  OverlayInv'
<1>1. CASE ButtonsUnder(pt) # {} /\ PressButton(p, ButtonZones[First(ButtonsUnder(pt))].action)
  <2>1. ButtonsUnder(pt) \in SUBSET Nat /\ ButtonsUnder(pt) \subseteq DOMAIN ButtonZones
    BY ZonesAssumption DEF ButtonsUnder
  <2>2. First(ButtonsUnder(pt)) \in DOMAIN ButtonZones
    BY <1>1, <2>1, FirstIsMember
  <2>3. ButtonZones[First(ButtonsUnder(pt))].action \in Actions
    BY <2>2 DEF Actions
  <2> QED BY <1>1, <2>3, PressKeeps
<1>2. CASE StickUnder(pt) /\ GrabStick(p, pt)
  BY <1>2, GrabStickKeeps DEF StickUnder
<1>3. CASE DragsUnder(pt) # {} /\ GrabDrag(p, First(DragsUnder(pt)), pt)
  <2>1. DragsUnder(pt) \in SUBSET Nat
    BY ZonesAssumption DEF DragsUnder, Zones
  <2>2. First(DragsUnder(pt)) \in DragsUnder(pt)
    BY <1>3, <2>1, FirstIsMember
  <2>3. First(DragsUnder(pt)) \in Zones /\ drags[First(DragsUnder(pt))].owner = Nobody
    BY <2>2 DEF DragsUnder
  <2> QED BY <1>3, <2>3, GrabDragKeeps
<1>4. CASE UNCHANGED overlay
  <2>1. pointers' = pointers /\ counts' = counts /\ stick' = stick /\ drags' = drags
    BY <1>4 DEF overlay
  <2>2. OverlayTypeOK' /\ ReleasedIsNeutral'
    BY <2>1 DEF OverlayInv, OverlayTypeOK, ReleasedIsNeutral
  <2>3. pointers[p] = Untracked
    BY DEF OverlayInv, FingersBackInputs
  <2>4. FingersBackInputs'
    BY <2>1, PointersAssumption, PointsAssumption
    DEF OverlayInv, FingersBackInputs, PressesOf
  <2>5. stick.owner # p /\ \A z \in Zones : drags[z].owner # p
    BY <2>3, StatesDiffer DEF OverlayInv, FingersBackInputs
  <2>6. StickFollowsItsFinger' /\ DragsFollowTheirFingers'
    BY <2>1, <2>5
    DEF OverlayInv, OverlayTypeOK, StickFollowsItsFinger, DragsFollowTheirFingers, DragAxes
  <2> QED BY <2>2, <2>4, <2>6 DEF OverlayInv
<1> QED BY <1>1, <1>2, <1>3, <1>4 DEF HandleDown

(* pointermove: in contact the owner's zone follows; a hovering pointer owns *)
(* nothing.                                                                  *)
LEMMA MoveKeeps ==
  ASSUME OverlayInv, at \in [Pointers -> Points \cup {Nobody}],
         NEW p \in Pointers, NEW pt \in Points,
         at' = IF at[p] = Nobody THEN at ELSE [at EXCEPT ![p] = pt],
         HandleMove(p, pt)
  PROVE  OverlayInv'
<1> USE PointersAssumption, PointsAssumption
<1>1. OverlayTypeOK /\ FingersBackInputs /\ pointers' = pointers /\ counts' = counts
  BY DEF OverlayInv, HandleMove
<1>2. pt[1] \in Int /\ pt[2] \in Int /\ pt # Nobody
  OBVIOUS
<1>3. stick' = IF stick.owner = p
               THEN [stick EXCEPT !.travel = <<pt[1] - stick.origin[1], pt[2] - stick.origin[2]>>]
               ELSE stick
  <2>1. pointers[p].type = "stick" <=> pointers[p] = OnStick
    BY <1>1 DEF OverlayTypeOK, Untracked, OnStick, OnButton, OnDrag
  <2> QED BY <1>1, <2>1 DEF HandleMove, FingersBackInputs
<1>4. ASSUME NEW z \in Zones
      PROVE  drags'[z] = IF drags[z].owner = p
                         THEN [drags[z] EXCEPT !.axes = DragAxes(z, pt)]
                         ELSE drags[z]
  <2>1. drags[z].owner = p <=> pointers[p] = OnDrag(z)
    BY <1>1 DEF FingersBackInputs
  <2>2. CASE pointers[p].type = "drag"
    <3>1. PICK y \in Zones : pointers[p] = OnDrag(y)
      BY <1>1, <2>2 DEF OverlayTypeOK, Untracked, OnStick, OnButton
    <3>2. drags' = [drags EXCEPT ![y].axes = DragAxes(y, pt)]
      BY <2>2, <3>1 DEF HandleMove, OnDrag
    <3>3. drags[z].owner = p <=> y = z
      BY <2>1, <3>1, StatesDiffer
    <3> QED BY <1>1, <3>2, <3>3 DEF OverlayTypeOK
  <2>3. CASE pointers[p].type # "drag"
    BY <2>1, <2>3 DEF HandleMove, OnDrag
  <2> QED BY <2>2, <2>3
<1>5. DOMAIN drags' = Zones
  <2>1. drags' = drags \/ \E y : drags' = [drags EXCEPT ![y].axes = DragAxes(y, pt)]
    BY DEF HandleMove
  <2> QED BY <1>1, <2>1 DEF OverlayTypeOK
<1>6. drags' \in [Zones -> [owner : Pointers \cup {Nobody}, axes : Int \X Int]]
  <2>1. drags' = [z \in Zones |-> drags'[z]]
    BY <1>5 DEF HandleMove, OverlayTypeOK, OverlayInv
  <2>2. ASSUME NEW z \in Zones
        PROVE  drags'[z] \in [owner : Pointers \cup {Nobody}, axes : Int \X Int]
    <3>1. drags[z] \in [owner : Pointers \cup {Nobody}, axes : Int \X Int]
      BY <1>1 DEF OverlayTypeOK
    <3>2. DragAxes(z, pt) \in Int \X Int
      BY AxesAreInts
    <3> QED BY <1>4, <3>1, <3>2
  <2> QED BY <2>1, <2>2
<1>7. stick' \in [owner : Pointers \cup {Nobody}, origin : Int \X Int, travel : Int \X Int]
  BY <1>1, <1>2, <1>3 DEF OverlayTypeOK
<1>8. OverlayTypeOK'
  BY <1>1, <1>6, <1>7 DEF OverlayTypeOK
<1>9. stick'.owner = stick.owner /\ \A z \in Zones : drags'[z].owner = drags[z].owner
  <2>1. stick'.owner = stick.owner
    BY <1>1, <1>3 DEF OverlayTypeOK
  <2>2. ASSUME NEW z \in Zones PROVE drags'[z].owner = drags[z].owner
    BY <1>1, <1>4 DEF OverlayTypeOK
  <2> QED BY <2>1, <2>2
<1>10. FingersBackInputs'
  BY <1>1, <1>9 DEF FingersBackInputs, PressesOf
<1>11. at[p] = Nobody => stick.owner # p /\ \A z \in Zones : drags[z].owner # p
  BY <1>1, StatesDiffer DEF FingersBackInputs
<1>12. StickFollowsItsFinger'
  <2>1. CASE stick.owner = p
    <3>1. at'[p] = pt /\ stick'.owner = p /\ stick'.origin = stick.origin
          /\ stick'.travel = <<pt[1] - stick.origin[1], pt[2] - stick.origin[2]>>
      BY <1>1, <1>3, <1>11, <2>1 DEF OverlayTypeOK
    <3> QED BY <1>2, <3>1 DEF StickFollowsItsFinger
  <2>2. CASE stick.owner # p
    <3>1. stick' = stick /\ (stick.owner # Nobody => at'[stick.owner] = at[stick.owner])
      BY <1>1, <1>3, <2>2 DEF OverlayTypeOK
    <3> QED BY <3>1 DEF OverlayInv, StickFollowsItsFinger
  <2> QED BY <2>1, <2>2
<1>13. ASSUME NEW z \in Zones, drags'[z].owner # Nobody
       PROVE  at'[drags'[z].owner] # Nobody
              /\ drags'[z].axes = DragAxes(z, at'[drags'[z].owner])
  <2>1. CASE drags[z].owner = p
    <3>1. at'[p] = pt /\ drags'[z].owner = p /\ drags'[z].axes = DragAxes(z, pt)
      BY <1>1, <1>4, <1>11, <2>1, ZenonT(60) DEF OverlayTypeOK
    <3> QED BY <1>2, <3>1
  <2>2. CASE drags[z].owner # p
    <3>1. drags'[z] = drags[z] /\ drags[z].owner \in Pointers
      BY <1>1, <1>4, <1>9, <1>13, <2>2 DEF OverlayTypeOK
    <3>2. at'[drags[z].owner] = at[drags[z].owner]
      BY <2>2, <3>1
    <3> QED BY <1>13, <3>1, <3>2 DEF OverlayInv, DragsFollowTheirFingers
  <2> QED BY <2>1, <2>2
<1>14. DragsFollowTheirFingers'
  BY <1>13 DEF DragsFollowTheirFingers, DragAxes
<1>15. ReleasedIsNeutral'
  <2>1. stick'.owner = Nobody => stick' = NoStick
    BY <1>3, <1>9 DEF OverlayInv, ReleasedIsNeutral
  <2>2. ASSUME NEW z \in Zones, drags'[z].owner = Nobody PROVE drags'[z] = NoDrag
    BY <1>4, <1>9, <2>2 DEF OverlayInv, ReleasedIsNeutral
  <2> QED BY <2>1, <2>2 DEF ReleasedIsNeutral
<1> QED BY <1>8, <1>10, <1>12, <1>14, <1>15 DEF OverlayInv

(* pointerup, pointercancel, pointerleave and lostpointercapture: whether or *)
(* not the contact ends, the overlay lets go of the pointer.                 *)
LEMMA UpKeeps ==
  ASSUME OverlayInv, at \in [Pointers -> Points \cup {Nobody}],
         NEW p \in Pointers,
         at' = at \/ at' = [at EXCEPT ![p] = Nobody],
         HandleUp(p)
  PROVE  OverlayInv'
<1> USE PointersAssumption, PointsAssumption
<1>1. OverlayTypeOK /\ FingersBackInputs /\ pointers' = [pointers EXCEPT ![p] = Untracked]
  BY DEF OverlayInv, HandleUp
<1>2. ASSUME NEW a \in Actions
      PROVE  counts'[a] = Cardinality(PressesOf(a)') /\ counts'[a] \in Nat
  <2>1. counts[a] = Cardinality(PressesOf(a)) /\ counts[a] \in Nat
    BY <1>1 DEF FingersBackInputs, OverlayTypeOK
  <2>2. CASE pointers[p] = OnButton(a)
    <3>1. counts' = [counts EXCEPT ![a] = IF @ > 0 THEN @ - 1 ELSE 0]
      BY <2>2 DEF HandleUp, OnButton
    <3>2. PressesOf(a)' = PressesOf(a) \ {p} /\ p \in PressesOf(a)
      BY <1>1, <2>2, StatesDiffer DEF PressesOf, OverlayTypeOK
    <3>3. Cardinality(PressesOf(a)') = counts[a] - 1 /\ counts[a] > 0
      BY <2>1, <3>2, PressesAreFinite, CountPresses
    <3> QED BY <1>1, <2>1, <3>1, <3>3 DEF OverlayTypeOK
  <2>3. CASE pointers[p] # OnButton(a)
    <3>1. PressesOf(a)' = PressesOf(a)
      BY <1>1, <2>3, SamePresses, StatesDiffer
    <3>2. counts'[a] = counts[a]
      <4>1. CASE pointers[p].type = "button"
        <5>1. PICK b \in Actions : pointers[p] = OnButton(b)
          BY <1>1, <4>1 DEF OverlayTypeOK, Untracked, OnStick, OnDrag
        <5>2. counts' = [counts EXCEPT ![b] = IF @ > 0 THEN @ - 1 ELSE 0] /\ a # b
          BY <2>3, <4>1, <5>1 DEF HandleUp, OnButton
        <5> QED BY <1>1, <5>2 DEF OverlayTypeOK
      <4>2. CASE pointers[p].type # "button"
        BY <4>2 DEF HandleUp
      <4> QED BY <4>1, <4>2
    <3> QED BY <2>1, <3>1, <3>2
  <2> QED BY <2>2, <2>3
<1>3. stick' = IF stick.owner = p THEN NoStick ELSE stick
  <2>1. pointers[p].type = "stick" <=> pointers[p] = OnStick
    BY <1>1 DEF OverlayTypeOK, Untracked, OnStick, OnButton, OnDrag
  <2> QED BY <1>1, <2>1 DEF HandleUp, FingersBackInputs
<1>4. ASSUME NEW z \in Zones
      PROVE  drags'[z] = IF drags[z].owner = p THEN NoDrag ELSE drags[z]
  <2>1. drags[z].owner = p <=> pointers[p] = OnDrag(z)
    BY <1>1 DEF FingersBackInputs
  <2>2. CASE pointers[p].type = "drag"
    <3>1. PICK y \in Zones : pointers[p] = OnDrag(y)
      BY <1>1, <2>2 DEF OverlayTypeOK, Untracked, OnStick, OnButton
    <3>2. drags' = [drags EXCEPT ![y] = NoDrag]
      BY <2>2, <3>1 DEF HandleUp, OnDrag
    <3>3. drags[z].owner = p <=> y = z
      BY <2>1, <3>1, StatesDiffer
    <3> QED BY <1>1, <3>2, <3>3 DEF OverlayTypeOK
  <2>3. CASE pointers[p].type # "drag"
    BY <2>1, <2>3 DEF HandleUp, OnDrag
  <2> QED BY <2>2, <2>3
<1>5. counts' \in [Actions -> Nat]
  <2>1. counts' = [a \in Actions |-> counts'[a]]
    BY <1>1 DEF HandleUp, OverlayTypeOK
  <2> QED BY <1>2, <2>1
<1>6. drags' \in [Zones -> [owner : Pointers \cup {Nobody}, axes : Int \X Int]]
  <2>1. drags' = [z \in Zones |-> drags'[z]]
    BY <1>1 DEF HandleUp, OverlayTypeOK
  <2>2. \A z \in Zones : drags'[z] \in [owner : Pointers \cup {Nobody}, axes : Int \X Int]
    BY <1>1, <1>4 DEF OverlayTypeOK, NoDrag
  <2> QED BY <2>1, <2>2
<1>7. OverlayTypeOK'
  <2>1. stick' \in [owner : Pointers \cup {Nobody}, origin : Int \X Int, travel : Int \X Int]
    BY <1>1, <1>3 DEF OverlayTypeOK, NoStick
  <2> QED BY <1>1, <1>5, <1>6, <2>1 DEF OverlayTypeOK
<1>8. \A q \in Pointers : at'[q] = Nobody => pointers'[q] = Untracked
  BY <1>1 DEF FingersBackInputs, OverlayTypeOK
<1>9. \A q \in Pointers : stick'.owner = q <=> pointers'[q] = OnStick
  BY <1>1, <1>3, StatesDiffer DEF FingersBackInputs, OverlayTypeOK, NoStick
<1>10. ASSUME NEW q \in Pointers, NEW z \in Zones
       PROVE  drags'[z].owner = q <=> pointers'[q] = OnDrag(z)
  <2>1. drags[z].owner = q <=> pointers[q] = OnDrag(z)
    BY <1>1 DEF FingersBackInputs
  <2>2. pointers'[q] = IF q = p THEN Untracked ELSE pointers[q]
    BY <1>1 DEF OverlayTypeOK
  <2>3. drags'[z].owner = IF drags[z].owner = p THEN Nobody ELSE drags[z].owner
    BY <1>4 DEF NoDrag
  <2> QED BY <2>1, <2>2, <2>3, StatesDiffer
<1>11. FingersBackInputs'
  BY <1>2, <1>8, <1>9, <1>10 DEF FingersBackInputs
<1>12. \A q \in Pointers : q # p => at'[q] = at[q]
  OBVIOUS
<1>13. StickFollowsItsFinger'
  <2>1. CASE stick.owner = p
    BY <1>3, <2>1 DEF StickFollowsItsFinger, NoStick
  <2>2. CASE stick.owner # p
    <3>1. stick' = stick /\ (stick.owner # Nobody => at'[stick.owner] = at[stick.owner])
      BY <1>1, <1>3, <1>12, <2>2 DEF OverlayTypeOK
    <3> QED BY <3>1 DEF OverlayInv, StickFollowsItsFinger
  <2> QED BY <2>1, <2>2
<1>14. ASSUME NEW z \in Zones, drags'[z].owner # Nobody
       PROVE  at'[drags'[z].owner] # Nobody
              /\ drags'[z].axes = DragAxes(z, at'[drags'[z].owner])
  <2>1. drags'[z] = drags[z] /\ drags[z].owner # p /\ drags[z].owner \in Pointers
    BY <1>1, <1>4, <1>14 DEF OverlayTypeOK, NoDrag
  <2>2. at'[drags[z].owner] = at[drags[z].owner]
    BY <1>12, <2>1
  <2> QED BY <1>14, <2>1, <2>2 DEF OverlayInv, DragsFollowTheirFingers
<1>15. DragsFollowTheirFingers'
  BY <1>14 DEF DragsFollowTheirFingers, DragAxes
<1>16. ReleasedIsNeutral'
  <2>1. stick'.owner = Nobody => stick' = NoStick
    BY <1>3 DEF OverlayInv, ReleasedIsNeutral
  <2>2. ASSUME NEW z \in Zones, drags'[z].owner = Nobody PROVE drags'[z] = NoDrag
    BY <1>4, <2>2 DEF OverlayInv, ReleasedIsNeutral
  <2> QED BY <2>1, <2>2 DEF ReleasedIsNeutral
<1> QED BY <1>7, <1>11, <1>13, <1>15, <1>16 DEF OverlayInv

(* The pointer source, event by event. *)
LEMMA AimKeeps ==
  ASSUME AimInv, at \in [Pointers -> Points \cup {Nobody}], NEW p \in Pointers
  PROVE  /\ \A pt \in Points : at[p] = Nobody /\ at' = [at EXCEPT ![p] = pt] /\ AimDown(p, pt)
              => AimInv'
         /\ \A pt \in Points :
              at' = (IF at[p] = Nobody THEN at ELSE [at EXCEPT ![p] = pt]) /\ AimMove(p, pt)
              => AimInv'
         /\ at' = [at EXCEPT ![p] = Nobody] /\ AimUp(p) => AimInv'
         /\ (at' = [at EXCEPT ![p] = Nobody] \/ at' = at) /\ AimLoss(p) => AimInv'
<1> USE PointersAssumption, PointsAssumption
<1>1. ASSUME NEW pt \in Points, at[p] = Nobody, at' = [at EXCEPT ![p] = pt], AimDown(p, pt)
      PROVE  AimInv'
  <2>1. AimAxes(pt) \in Int \X Int
    BY AxesAreInts
  <2> QED BY <1>1, <2>1 DEF AimInv, AimTypeOK, AimFollowsItsFinger, AimDown, AimAxes
<1>2. ASSUME NEW pt \in Points, at' = IF at[p] = Nobody THEN at ELSE [at EXCEPT ![p] = pt],
             AimMove(p, pt)
      PROVE  AimInv'
  <2>1. AimAxes(pt) \in Int \X Int
    BY AxesAreInts
  <2>2. CASE aim.owner = p
    BY <1>2, <2>1, <2>2 DEF AimInv, AimTypeOK, AimFollowsItsFinger, AimMove, AimAxes
  <2>3. CASE aim.owner # p
    BY <1>2, <2>1, <2>3 DEF AimInv, AimTypeOK, AimFollowsItsFinger, AimMove, AimAxes
  <2> QED BY <2>2, <2>3
<1>3. ASSUME at' = [at EXCEPT ![p] = Nobody], AimUp(p)
      PROVE  AimInv'
  BY <1>3 DEF AimInv, AimTypeOK, AimFollowsItsFinger, AimUp, AimAxes
<1>4. ASSUME at' = [at EXCEPT ![p] = Nobody] \/ at' = at, AimLoss(p)
      PROVE  AimInv'
  BY <1>4 DEF AimInv, AimTypeOK, AimFollowsItsFinger, AimLoss, AimAxes, NoAim
<1> QED BY <1>1, <1>2, <1>3, <1>4

(* Without their sources' listeners the hands move on their own. *)
LEMMA DeafKeeps ==
  ASSUME IInv, ~listening, at' \in [Pointers -> Points \cup {Nobody}],
         UNCHANGED <<overlay, aim>>
  PROVE  OverlayInv' /\ AimInv'
<1> USE PointersAssumption
<1>1. /\ stick = NoStick /\ drags = [z \in Zones |-> NoDrag] /\ aim = NoAim
      /\ counts = [a \in Actions |-> 0] /\ OverlayTypeOK /\ FingersBackInputs
  BY DEF IInv, Reset, OverlayInv
<1>2. pointers' = pointers /\ counts' = counts /\ stick' = stick /\ drags' = drags /\ aim' = aim
  BY DEF overlay
<1>3. \A p \in Pointers : pointers[p] = Untracked
  <2> TAKE p \in Pointers
  <2>1. pointers[p] # OnStick
    BY <1>1 DEF FingersBackInputs, NoStick
  <2>2. \A z \in Zones : pointers[p] # OnDrag(z)
    BY <1>1 DEF FingersBackInputs, NoDrag
  <2>3. ASSUME NEW a \in Actions PROVE pointers[p] # OnButton(a)
    <3>1. Cardinality(PressesOf(a)) = 0
      BY <1>1 DEF FingersBackInputs
    <3>2. ~(Cardinality(PressesOf(a)) > 0)
      BY <3>1
    <3>3. p \notin PressesOf(a)
      BY <3>2, PressesAreFinite, CountPresses
    <3> QED BY <3>3 DEF PressesOf
  <2> QED BY <1>1, <2>1, <2>2, <2>3 DEF OverlayTypeOK
<1>4. OverlayTypeOK' /\ ReleasedIsNeutral'
  BY <1>1, <1>2 DEF OverlayTypeOK, ReleasedIsNeutral
<1>5. FingersBackInputs'
  BY <1>1, <1>2, <1>3 DEF FingersBackInputs, PressesOf
<1>6. StickFollowsItsFinger' /\ DragsFollowTheirFingers'
  BY <1>1, <1>2 DEF StickFollowsItsFinger, DragsFollowTheirFingers, NoStick, NoDrag
<1>7. AimInv'
  BY <1>1, <1>2 DEF AimInv, AimTypeOK, AimFollowsItsFinger, NoAim
<1> QED BY <1>4, <1>5, <1>6, <1>7 DEF OverlayInv

LEMMA InitIInv == Init => IInv
<1> SUFFICES ASSUME Init PROVE IInv
  OBVIOUS
<1> USE PointersAssumption
<1>1. HandsTypeOK
  BY DEF Init, HandsTypeOK
<1>2. OverlayTypeOK
  BY DEF Init, OverlayTypeOK, NoStick, NoDrag
<1>3. \A a : PressesOf(a) = {}
  BY StatesDiffer DEF Init, PressesOf
<1>4. FingersBackInputs
  BY <1>3, StatesDiffer, FS_EmptySet DEF Init, FingersBackInputs, NoStick, NoDrag
<1>5. StickFollowsItsFinger /\ DragsFollowTheirFingers /\ ReleasedIsNeutral
  BY DEF Init, StickFollowsItsFinger, DragsFollowTheirFingers, ReleasedIsNeutral, NoStick, NoDrag
<1>6. AimInv
  BY DEF Init, AimInv, AimTypeOK, AimFollowsItsFinger, NoAim
<1> QED BY <1>1, <1>2, <1>4, <1>5, <1>6 DEF Init, IInv, OverlayInv

LEMMA StepIInv == IInv /\ [Next]_vars => IInv'
<1> SUFFICES ASSUME IInv, [Next]_vars PROVE IInv'
  OBVIOUS
<1> USE PointersAssumption, PointsAssumption
<1>1. /\ at \in [Pointers -> Points \cup {Nobody}] /\ OverlayInv /\ AimInv /\ HandsTypeOK
      /\ held \subseteq down /\ down \subseteq Keys /\ listening \in BOOLEAN
      /\ (~focused => held = {})
  BY DEF IInv, HandsTypeOK
<1>2. ASSUME NEW p \in Pointers, NEW pt \in Points, PointerDown(p, pt)
      PROVE  IInv'
  <2>1. at[p] = Nobody /\ at' = [at EXCEPT ![p] = pt]
        /\ UNCHANGED <<down, focused, pads, held, listening>>
    BY <1>2 DEF PointerDown
  <2>2. OverlayInv' /\ AimInv' /\ (~listening' => Reset')
    <3>1. CASE listening
      BY <1>1, <1>2, <2>1, <3>1, DownKeeps, AimKeeps DEF PointerDown
    <3>2. CASE ~listening
      BY <1>1, <1>2, <2>1, <3>2, DeafKeeps DEF PointerDown, IInv, Reset, overlay
    <3> QED BY <3>1, <3>2
  <2> QED BY <1>1, <2>1, <2>2 DEF IInv, HandsTypeOK
<1>3. ASSUME NEW p \in Pointers, NEW pt \in Points, PointerMove(p, pt)
      PROVE  IInv'
  <2>1. at' = (IF at[p] = Nobody THEN at ELSE [at EXCEPT ![p] = pt])
        /\ UNCHANGED <<down, focused, pads, held, listening>>
    BY <1>3 DEF PointerMove
  <2>2. OverlayInv' /\ AimInv' /\ (~listening' => Reset')
    <3>1. CASE listening
      BY <1>1, <1>3, <2>1, <3>1, MoveKeeps, AimKeeps DEF PointerMove
    <3>2. CASE ~listening
      BY <1>1, <1>3, <2>1, <3>2, DeafKeeps DEF PointerMove, IInv, Reset, overlay
    <3> QED BY <3>1, <3>2
  <2> QED BY <1>1, <2>1, <2>2 DEF IInv, HandsTypeOK
<1>4. ASSUME NEW p \in Pointers, PointerUp(p)
      PROVE  IInv'
  <2>1. at' = [at EXCEPT ![p] = Nobody] /\ UNCHANGED <<down, focused, pads, held, listening>>
    BY <1>4 DEF PointerUp
  <2>2. OverlayInv' /\ AimInv' /\ (~listening' => Reset')
    <3>1. CASE listening
      BY <1>1, <1>4, <2>1, <3>1, UpKeeps, AimKeeps DEF PointerUp
    <3>2. CASE ~listening
      BY <1>1, <1>4, <2>1, <3>2, DeafKeeps DEF PointerUp, IInv, Reset, overlay
    <3> QED BY <3>1, <3>2
  <2> QED BY <1>1, <2>1, <2>2 DEF IInv, HandsTypeOK
<1>5. ASSUME NEW p \in Pointers, PointerCancel(p)
      PROVE  IInv'
  <2>1. at' = [at EXCEPT ![p] = Nobody] /\ UNCHANGED <<down, focused, pads, held, listening>>
    BY <1>5 DEF PointerCancel
  <2>2. OverlayInv' /\ AimInv' /\ (~listening' => Reset')
    <3>1. CASE listening
      BY <1>1, <1>5, <2>1, <3>1, UpKeeps, AimKeeps DEF PointerCancel
    <3>2. CASE ~listening
      BY <1>1, <1>5, <2>1, <3>2, DeafKeeps DEF PointerCancel, IInv, Reset, overlay
    <3> QED BY <3>1, <3>2
  <2> QED BY <1>1, <2>1, <2>2 DEF IInv, HandsTypeOK
<1>6. ASSUME NEW p \in Pointers, PointerLoss(p)
      PROVE  IInv'
  <2>1. listening /\ at' = at /\ HandleUp(p) /\ AimLoss(p)
        /\ UNCHANGED <<hands, held, listening>>
    BY <1>6 DEF PointerLoss, hands
  <2>2. OverlayInv' /\ AimInv'
    BY <1>1, <2>1, UpKeeps, AimKeeps
  <2> QED BY <1>1, <2>1, <2>2 DEF IInv, HandsTypeOK, hands
<1>7. ASSUME UNCHANGED <<overlay, aim, at>>
      PROVE  OverlayInv' /\ AimInv'
  BY <1>1, <1>7
  DEF overlay, OverlayInv, OverlayTypeOK, FingersBackInputs, PressesOf, StickFollowsItsFinger,
      DragsFollowTheirFingers, DragAxes, ReleasedIsNeutral, AimInv, AimTypeOK, AimFollowsItsFinger,
      AimAxes
<1>8. ASSUME NEW k \in Keys, KeyDown(k) \/ KeyUp(k)
      PROVE  IInv'
  <2>1. UNCHANGED <<at, focused, pads, overlay, aim, listening>>
    BY <1>8 DEF KeyDown, KeyUp
  <2>2. OverlayInv' /\ AimInv'
    BY <1>7, <2>1
  <2>3. held' \subseteq down' /\ down' \subseteq Keys /\ (~focused' => held' = {})
    BY <1>1, <1>8, <2>1 DEF KeyDown, KeyUp, IInv, Reset
  <2>4. ~listening' => Reset'
    BY <1>8, <2>1 DEF KeyDown, KeyUp, IInv, Reset, overlay
  <2> QED BY <1>1, <2>1, <2>2, <2>3, <2>4 DEF IInv, HandsTypeOK
<1>9. CASE Blur
  <2>1. focused' = FALSE /\ UNCHANGED <<at, down, pads, listening>>
    BY <1>9 DEF Blur
  <2>2. CASE listening
    <3>1. ResetAllPointers /\ aim' = NoAim /\ held' = {}
      BY <1>9, <2>2 DEF Blur
    <3>2. OverlayInv'
      BY <1>1, <2>1, <3>1, ResetKeeps
    <3>3. AimInv'
      BY <3>1 DEF AimInv, AimTypeOK, AimFollowsItsFinger, NoAim
    <3> QED BY <1>1, <2>1, <2>2, <3>1, <3>2, <3>3 DEF IInv, HandsTypeOK
  <2>3. CASE ~listening
    <3>1. UNCHANGED <<overlay, aim, held>>
      BY <1>9, <2>3 DEF Blur
    <3> QED BY <1>1, <1>7, <2>1, <2>3, <3>1 DEF IInv, HandsTypeOK, Reset, overlay
  <2> QED BY <2>2, <2>3
<1>10. CASE Focus
  BY <1>1, <1>7, <1>10 DEF Focus, IInv, HandsTypeOK, Reset, overlay
<1>11. CASE PadChange
  BY <1>1, <1>7, <1>11 DEF PadChange, IInv, HandsTypeOK, Reset, overlay
<1>12. CASE Destroy
  <2>1. ResetAllPointers /\ aim' = NoAim /\ held' = {} /\ listening' = FALSE /\ UNCHANGED hands
    BY <1>12 DEF Destroy
  <2>2. OverlayInv'
    BY <1>1, <2>1, ResetKeeps DEF hands
  <2>3. AimInv'
    BY <2>1 DEF AimInv, AimTypeOK, AimFollowsItsFinger, NoAim
  <2> QED BY <1>1, <2>1, <2>2, <2>3 DEF IInv, HandsTypeOK, hands, Reset, ResetAllPointers
<1>13. CASE UNCHANGED vars
  BY <1>1, <1>7, <1>13 DEF vars, hands, IInv, HandsTypeOK, Reset, overlay
<1> QED BY <1>2, <1>3, <1>4, <1>5, <1>6, <1>8, <1>9, <1>10, <1>11, <1>12, <1>13 DEF Next

THEOREM Invariance == Spec => []IInv
BY InitIInv, StepIInv, PTL DEF Spec

(* The variables keep their types. *)
THEOREM TypeCorrect == Spec => []TypeOK
<1>1. IInv => TypeOK
  BY DEF IInv, TypeOK, OverlayInv, AimInv, HandsTypeOK
<1> QED BY Invariance, <1>1, PTL

(* For any number of fingers and buttons, the reference counts are the       *)
(* numbers of fingers that press, and each analog zone has the one owner its *)
(* pointer map names (touch-overlay.ts, handleDown and handleUp).            *)
THEOREM FingersBack == Spec => []FingersBackInputs
<1>1. IInv => FingersBackInputs
  BY DEF IInv, OverlayInv
<1> QED BY Invariance, <1>1, PTL

(* Stick, drag zones and aim show the place of the finger that owns them.    *)
THEOREM AnalogFollows == Spec => []AnalogFollowsItsFinger
<1>1. IInv => AnalogFollowsItsFinger
  BY DEF IInv, OverlayInv, AimInv, AnalogFollowsItsFinger
<1> QED BY Invariance, <1>1, PTL

LEMMA NothingPressed ==
  ASSUME NEW r \in Int
  PROVE  AdaptTouch({}, <<0, 0>>, r).buttons = {}
<1>1. ~Beyond(0, 0, r) /\ ~Beyond(-0, 0, r)
  BY DEF Beyond
<1>2. <<0, 0>>[1] * <<0, 0>>[1] + <<0, 0>>[2] * <<0, 0>>[2] = 0
  OBVIOUS
<1>3. {d \in {"left", "right", "up", "down"} :
         CASE d = "left"  -> Beyond(-<<0, 0>>[1], 0, r)
           [] d = "right" -> Beyond(<<0, 0>>[1], 0, r)
           [] d = "up"    -> Beyond(-<<0, 0>>[2], 0, r)
           [] d = "down"  -> Beyond(<<0, 0>>[2], 0, r)} = {}
  BY <1>1
<1> QED BY <1>2, <1>3 DEF AdaptTouch

LEMMA NeutralTouch ==
  ASSUME counts = [a \in Actions |-> 0], stick = NoStick
  PROVE  TouchFrame.buttons = {}
<1>1. Pressed = {}
  BY DEF Pressed
<1>2. (IF StickZone = {} THEN 0 ELSE StickRadius) \in Int
  BY StickAssumption DEF StickRadius
<1> QED BY <1>1, <1>2, NothingPressed DEF TouchFrame, NoStick

(* After destroy() no event changes what the sources report. *)
THEOREM TornDown == Spec => []TornDownReadsNeutral
<1>1. IInv => TornDownReadsNeutral
  <2> SUFFICES ASSUME IInv, ~listening
               PROVE  /\ TouchFrame.buttons = {} /\ aim = NoAim /\ held = {}
                      /\ \A z \in Zones : drags[z] = NoDrag
    BY DEF TornDownReadsNeutral
  <2>1. Reset
    BY DEF IInv
  <2> QED BY <2>1, NeutralTouch DEF Reset
<1> QED BY Invariance, <1>1, PTL

(* Nothing the player let go of stays pressed, whatever events were lost or  *)
(* repeated, and whether or not the window had the focus at the release.     *)
THEOREM IdleHands == Spec => []IdleHandsReadNeutral
<1>1. IInv => IdleHandsReadNeutral
  <2> SUFFICES ASSUME IInv, LetGo
               PROVE  /\ FightFrame.buttons = {}
                      /\ stick = NoStick
                      /\ \A z \in Zones : drags[z] = NoDrag
                      /\ ~aim.pressed
                      /\ KeyboardFrame(held) = KeyboardFrame({})
    BY DEF IdleHandsReadNeutral
  <2>1. \A p \in Pointers : at[p] = Nobody /\ pointers[p] = Untracked
    BY DEF IInv, OverlayInv, FingersBackInputs, LetGo
  <2>2. ASSUME NEW a \in Actions PROVE counts[a] = 0
    <3>1. PressesOf(a) = {}
      BY <2>1, StatesDiffer DEF PressesOf
    <3> QED BY <3>1, FS_EmptySet DEF IInv, OverlayInv, FingersBackInputs
  <2>3. counts = [a \in Actions |-> 0]
    BY <2>2 DEF IInv, OverlayInv, OverlayTypeOK
  <2>4. stick = NoStick
    <3>1. stick.owner \in Pointers \cup {Nobody}
      BY DEF IInv, OverlayInv, OverlayTypeOK
    <3>2. stick.owner \notin Pointers
      BY <2>1, <3>1, PointersAssumption DEF IInv, OverlayInv, StickFollowsItsFinger
    <3> QED BY <3>1, <3>2 DEF IInv, OverlayInv, ReleasedIsNeutral
  <2>5. ASSUME NEW z \in Zones PROVE drags[z] = NoDrag
    <3>1. drags[z].owner \in Pointers \cup {Nobody}
      BY DEF IInv, OverlayInv, OverlayTypeOK
    <3>2. drags[z].owner \notin Pointers
      BY <2>1, <3>1, PointersAssumption DEF IInv, OverlayInv, DragsFollowTheirFingers
    <3> QED BY <3>1, <3>2 DEF IInv, OverlayInv, ReleasedIsNeutral
  <2>6. ~aim.pressed
    BY <2>1, PointersAssumption DEF IInv, AimInv, AimTypeOK, AimFollowsItsFinger
  <2>7. held = {}
    BY DEF IInv, LetGo
  <2>8. TouchFrame.buttons = {}
    BY <2>3, <2>4, NeutralTouch
  <2>9. KeyboardFrame(held).buttons = {}
    BY <2>7 DEF KeyboardFrame
  <2>10. PadFrame(pads).buttons = {}
    BY DEF LetGo
  <2>11. FightFrame.buttons = {}
    <3> DEFINE f == <<KeyboardFrame(held), PadFrame(pads), TouchFrame>>
    <3>1. FightFrame.buttons = UNION {f[i].buttons : i \in DOMAIN f}
      BY DEF FightFrame, Merged
    <3>2. \A i \in DOMAIN f : f[i].buttons = {}
      BY <2>8, <2>9, <2>10
    <3> QED BY <3>1, <3>2
  <2> QED BY <2>4, <2>5, <2>6, <2>7, <2>11
<1> QED BY Invariance, <1>1, PTL
=============================================================================
