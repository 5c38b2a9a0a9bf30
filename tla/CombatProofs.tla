---------------------------- MODULE CombatProofs ----------------------------
(***************************************************************************)
(* The fight and its boss, for any content, any inputs and any geometry.   *)
(* A step takes each fighter through Advanced, Acted and Landed, then the  *)
(* contacts, the knockout and the timers; one lemma says of each what it   *)
(* keeps.  The invariant is local to a fighter (Sound), but for the round: *)
(* while it is active nobody is down, so the first contact that brings     *)
(* somebody down finds exactly one loser.                                  *)
(***************************************************************************)
EXTENDS BossFight, TLAPS

(* What holds of a fighter between any two parts of a step. *)
Sound(f) ==
  /\ f \in Fighter
  /\ f.hits <= 1
  /\ f.state = "hitstun" => f.stun > 0
  /\ f.state = "blockstun" => f.blockstun > 0
  /\ f.state = "attack" => f.move # None

SameBody(f, g) ==
  /\ g.health = f.health /\ g.lost = f.lost
  /\ g.stun = f.stun /\ g.blockstun = f.blockstun /\ g.hitstop = f.hitstop

SameLegs(f, g) ==
  /\ g.grounded = f.grounded /\ g.airJumps = f.airJumps /\ g.ready = f.ready

SameMove(f, g) == g.move = f.move /\ g.elapsed = f.elapsed

-----------------------------------------------------------------------------
(* One fighter *)

LEMMA LeastOf == ASSUME NEW a \in Nat, NEW b \in Nat PROVE AtMost(a, b) \in 0 .. b
BY DEF AtMost

LEMMA AdvancedKeeps ==
  ASSUME NEW f, Sound(f)
  PROVE  LET g == Advanced(f) IN
         /\ Sound(g) /\ SameBody(f, g) /\ SameLegs(f, g)
         /\ g.move # None => g.move = f.move /\ g.elapsed >= f.elapsed
<1>1. CASE f.move = None \/ f.hitstop > 0
  BY <1>1 DEF Advanced, Sound, SameBody, SameLegs, Fighter
<1>2. CASE /\ ~(f.move = None \/ f.hitstop > 0)
           /\ f.elapsed + 1 >= Duration(f.move)
  <2> DEFINE st == IF f.state = "attack" THEN "idle" ELSE f.state
             g == [f EXCEPT !.move = None, !.elapsed = 0, !.hits = 0, !.state = st]
  <2>1. Advanced(f) = g
    BY <1>2 DEF Advanced
  <2>2. st \in States /\ st # "attack" /\ (st = f.state \/ st = "idle")
    BY DEF Sound, Fighter, States
  <2> HIDE DEF st
  <2>3. /\ g \in Fighter /\ SameBody(f, g) /\ SameLegs(f, g)
        /\ g.move = None /\ g.hits = 0 /\ g.state = st
    BY <2>2 DEF Sound, Fighter, SameBody, SameLegs
  <2> HIDE DEF g
  <2> QED BY <2>1, <2>2, <2>3 DEF Sound, SameBody
<1>3. CASE /\ ~(f.move = None \/ f.hitstop > 0)
           /\ ~(f.elapsed + 1 >= Duration(f.move))
  BY <1>3 DEF Advanced, Sound, SameBody, SameLegs, Fighter
<1> QED BY <1>1, <1>2, <1>3

LEMMA GainKeeps ==
  ASSUME NEW f \in Fighter, NEW amount \in Nat
  PROVE  Gain(f, amount) \in Fighter /\ Gain(f, amount) = [f EXCEPT !.meter = Gain(f, amount).meter]
<1>1. f.meter + amount \in Nat /\ MaxMeter \in Nat
  BY ContentAssumption DEF Fighter
<1>2. AtMost(f.meter + amount, MaxMeter) \in 0 .. MaxMeter
  BY <1>1, LeastOf
<1> QED BY <1>2 DEF Gain, Fighter

LEMMA SpendKeeps ==
  ASSUME NEW f \in Fighter, NEW amount \in Nat
  PROVE  Spend(f, amount) \in Fighter /\ Spend(f, amount) = [f EXCEPT !.meter = Spend(f, amount).meter]
<1>1. CASE f.meter >= amount
  <2>1. f.meter - amount \in 0 .. MaxMeter
    BY <1>1, ContentAssumption DEF Fighter
  <2> QED BY <1>1, <2>1 DEF Spend, Fighter
<1>2. CASE ~(f.meter >= amount)
  BY <1>2 DEF Spend, Fighter
<1> QED BY <1>1, <1>2

LEMMA StartedKeeps ==
  ASSUME NEW f, Sound(f), NEW m \in Moves
  PROVE  LET g == Started(f, m) IN Sound(g) /\ SameBody(f, g) /\ SameLegs(f, g)
<1> DEFINE b == [f EXCEPT !.move = m, !.elapsed = 0, !.hits = 0, !.state = "attack"]
           c == Gain(b, Data[m].onUse)
           d == Spend(c, Data[m].cost)
<1>1. /\ b \in Fighter /\ b.hits = 0 /\ b.state = "attack" /\ b.move = m
      /\ SameBody(f, b) /\ SameLegs(f, b)
  BY DEF Sound, Fighter, States, SameBody, SameLegs
<1>2. Data[m].onUse \in Nat /\ Data[m].cost \in Nat
  BY ContentAssumption DEF MoveDefinition
<1> HIDE DEF b
<1>3. c \in Fighter /\ c = [b EXCEPT !.meter = c.meter]
  BY <1>1, <1>2, GainKeeps
<1> HIDE DEF c
<1>4. d \in Fighter /\ d = [c EXCEPT !.meter = d.meter]
  BY <1>2, <1>3, SpendKeeps
<1>5. Started(f, m) = d
  BY DEF Started, b, c
<1> HIDE DEF d
<1>6. /\ d.hits = 0 /\ d.state = "attack" /\ d.move = m
      /\ SameBody(b, d) /\ SameLegs(b, d)
  BY <1>1, <1>3, <1>4 DEF Fighter, SameBody, SameLegs
<1>7. m # None
  BY ContentAssumption
<1> QED BY <1>1, <1>4, <1>5, <1>6, <1>7 DEF Sound, SameBody, SameLegs

(* What movement input may do: only a fighter in control moves, and a jump *)
(* uses the release of up that ready remembers.                            *)
LEMMA MovedKeeps ==
  ASSUME NEW f, Sound(f), NEW in \in Inputs, f.move = None
  PROVE  LET g == Moved(f, in) IN
         /\ Sound(g) /\ SameBody(f, g) /\ SameMove(f, g)
         /\ ~CanControl(f) => g.grounded = f.grounded /\ g.airJumps = f.airJumps
         /\ g.ready => f.ready \/ ~in.up
         /\ g.airJumps > f.airJumps => f.ready /\ ~g.ready
         /\ f.grounded /\ ~g.grounded => ~g.ready
<1> DEFINE k == IF in.block THEN AtMost(f.held + 1, PerfectWindow + 1) ELSE 0
           r == f.ready \/ ~in.up
           h == [f EXCEPT !.held = k, !.ready = r]
<1>1. k \in 0 .. (PerfectWindow + 1)
  <2>1. f.held + 1 \in Nat /\ PerfectWindow + 1 \in Nat
    BY ContentAssumption DEF Sound, Fighter
  <2>2. AtMost(f.held + 1, PerfectWindow + 1) \in 0 .. (PerfectWindow + 1)
    BY <2>1, LeastOf
  <2> QED BY <2>1, <2>2
<1>2. r \in BOOLEAN /\ (r => f.ready \/ ~in.up) /\ (f.ready => r)
  OBVIOUS
<1>3. Moved(f, in) = CASE ~CanControl(h) -> h
                       [] CanControl(h) /\ h.grounded /\ in.up -> Jump(h)
                       [] CanControl(h) /\ h.grounded /\ ~in.up ->
                            [h EXCEPT !.state = IF in.block THEN "block" ELSE "idle"]
                       [] CanControl(h) /\ ~h.grounded ->
                            IF in.up /\ h.ready /\ h.airJumps < MaxAirJumps
                              THEN [h EXCEPT !.airJumps = @ + 1, !.ready = FALSE]
                              ELSE h
  BY DEF Moved
<1> HIDE DEF k, r
<1>4. /\ h \in Fighter /\ SameBody(f, h) /\ SameMove(f, h)
      /\ h.grounded = f.grounded /\ h.airJumps = f.airJumps /\ h.state = f.state /\ h.hits = f.hits
      /\ h.ready = r
  BY <1>1, <1>2 DEF Sound, Fighter, SameBody, SameMove
<1> HIDE DEF h
<1>5. Sound(h) /\ (CanControl(h) <=> CanControl(f))
  BY <1>4 DEF Sound, CanControl, SameBody, SameMove
<1>6. MaxAirJumps \in Nat /\ h.airJumps \in 0 .. MaxAirJumps
  BY <1>4, ContentAssumption DEF Fighter
<1>7. CASE ~CanControl(h)
  <2>1. Moved(f, in) = h
    BY <1>3, <1>7
  <2> QED BY <1>2, <1>4, <1>5, <1>6, <2>1
<1>8. CASE CanControl(h) /\ h.grounded /\ in.up
  <2> DEFINE g == [h EXCEPT !.grounded = FALSE, !.state = "jump", !.airJumps = 0, !.ready = FALSE]
  <2>1. Moved(f, in) = g
    BY <1>3, <1>8 DEF Jump
  <2>2. "jump" \in States /\ 0 \in 0 .. MaxAirJumps
    BY <1>6 DEF States
  <2>3. /\ g \in Fighter /\ SameBody(h, g) /\ SameMove(h, g)
        /\ g.state = "jump" /\ g.airJumps = 0 /\ ~g.ready /\ g.hits = h.hits
    BY <1>4, <2>2 DEF Fighter, SameBody, SameMove
  <2> HIDE DEF g
  <2> QED BY <1>4, <1>5, <1>6, <1>8, <2>1, <2>3 DEF Sound, SameBody, SameMove
<1>9. CASE CanControl(h) /\ h.grounded /\ ~in.up
  <2> DEFINE st == IF in.block THEN "block" ELSE "idle"
             g == [h EXCEPT !.state = st]
  <2>1. Moved(f, in) = g
    BY <1>3, <1>9
  <2>2. st \in States /\ st \in {"block", "idle"}
    BY DEF States
  <2> HIDE DEF st
  <2>3. /\ g \in Fighter /\ SameBody(h, g) /\ SameMove(h, g) /\ SameLegs(h, g)
        /\ g.state = st /\ g.hits = h.hits
    BY <1>4, <2>2 DEF Fighter, SameBody, SameMove, SameLegs
  <2> HIDE DEF g
  <2> QED BY <1>2, <1>4, <1>5, <1>6, <1>9, <2>1, <2>2, <2>3 DEF Sound, SameBody, SameMove, SameLegs
<1>10. CASE CanControl(h) /\ ~h.grounded
  <2>1. CASE in.up /\ h.ready /\ h.airJumps < MaxAirJumps
    <3> DEFINE n == h.airJumps + 1
               g == [h EXCEPT !.airJumps = n, !.ready = FALSE]
    <3>1. Moved(f, in) = g
      BY <1>3, <1>10, <2>1
    <3>2. n \in 0 .. MaxAirJumps
      BY <1>6, <2>1
    <3> HIDE DEF n
    <3>3. /\ g \in Fighter /\ SameBody(h, g) /\ SameMove(h, g)
          /\ g.state = h.state /\ g.hits = h.hits /\ g.grounded = h.grounded /\ ~g.ready
      BY <1>4, <3>2 DEF Fighter, SameBody, SameMove
    <3> HIDE DEF g
    <3>4. f.ready
      BY <1>2, <1>4, <2>1
    <3> QED BY <1>4, <1>5, <1>10, <3>1, <3>3, <3>4 DEF Sound, SameBody, SameMove
  <2>2. CASE ~(in.up /\ h.ready /\ h.airJumps < MaxAirJumps)
    <3>1. Moved(f, in) = h
      BY <1>3, <1>10, <2>2
    <3> QED BY <1>2, <1>4, <1>5, <1>6, <3>1
  <2> QED BY <2>1, <2>2
<1> QED BY <1>7, <1>8, <1>9, <1>10

LEMMA ActedKeeps ==
  ASSUME NEW f, Sound(f), NEW in \in Inputs
  PROVE  LET g == Acted(f, in) IN
         /\ Sound(g) /\ SameBody(f, g)
         /\ ~CanControl(f) => SameMove(f, g) /\ g.grounded = f.grounded /\ g.airJumps = f.airJumps
         /\ g.ready => f.ready \/ ~in.up
         /\ g.airJumps > f.airJumps => f.ready /\ ~g.ready
         /\ f.grounded /\ ~g.grounded => ~g.ready
<1>1. f.airJumps \in Int
  BY ContentAssumption DEF Sound, Fighter
<1>2. CASE f.move # None
  BY <1>1, <1>2 DEF Acted, SameBody, SameMove
<1>3. CASE f.move = None /\ in.press # None /\ CanStart(f, in.press)
  <2>1. Acted(f, in) = Started(f, in.press) /\ in.press \in Moves /\ CanControl(f)
    BY <1>3 DEF Acted, Inputs, CanStart
  <2> QED BY <1>1, <2>1, StartedKeeps DEF SameLegs
<1>4. CASE f.move = None /\ ~(in.press # None /\ CanStart(f, in.press))
  <2>1. Acted(f, in) = Moved(f, in)
    BY <1>4 DEF Acted
  <2> QED BY <1>4, <2>1, MovedKeeps
<1> QED BY <1>2, <1>3, <1>4

LEMMA LandedKeeps ==
  ASSUME NEW f, Sound(f), NEW lands \in BOOLEAN
  PROVE  LET g == Landed(f, lands) IN
         /\ Sound(g) /\ SameBody(f, g) /\ SameMove(f, g) /\ g.ready = f.ready
         /\ f.grounded => g.grounded
         /\ g.airJumps <= f.airJumps
<1>1. MaxAirJumps \in Nat /\ f.airJumps \in 0 .. MaxAirJumps
  BY ContentAssumption DEF Sound, Fighter
<1>2. CASE f.grounded \/ f.hitstop > 0 \/ ~lands
  BY <1>1, <1>2 DEF Landed, SameBody, SameMove
<1>3. CASE ~(f.grounded \/ f.hitstop > 0 \/ ~lands)
  <2> DEFINE st == IF CanControl(f) /\ f.state = "jump" THEN "idle" ELSE f.state
             g == [f EXCEPT !.grounded = TRUE, !.airJumps = 0, !.state = st]
  <2>1. Landed(f, lands) = g
    BY <1>3 DEF Landed
  <2>2. st \in States /\ (st = f.state \/ st = "idle") /\ 0 \in 0 .. MaxAirJumps
    BY <1>1 DEF Sound, Fighter, States
  <2> HIDE DEF st
  <2>3. /\ g \in Fighter /\ SameBody(f, g) /\ SameMove(f, g) /\ g.ready = f.ready
        /\ g.grounded /\ g.airJumps = 0 /\ g.state = st /\ g.hits = f.hits
    BY <2>2 DEF Sound, Fighter, SameBody, SameMove
  <2> HIDE DEF g
  <2> QED BY <1>1, <2>1, <2>2, <2>3 DEF Sound, SameBody, SameMove
<1> QED BY <1>2, <1>3

(* The three together, up to the contacts of the step. *)
Prepared(f, in, lands) == Landed(Acted(Advanced(f), in), lands)

LEMMA PreparedKeeps ==
  ASSUME NEW f, Sound(f), NEW in \in Inputs, NEW lands \in BOOLEAN
  PROVE  LET g == Prepared(f, in, lands) IN
         /\ Sound(g) /\ SameBody(f, g)
         /\ Locked(f) \/ f.lost =>
              /\ g.move # None => g.move = f.move /\ g.elapsed >= f.elapsed
              /\ f.grounded => g.grounded
              /\ g.airJumps <= f.airJumps
         /\ g.ready => f.ready \/ ~in.up
         /\ g.airJumps > f.airJumps => f.ready /\ ~g.ready
         /\ f.grounded /\ ~g.grounded => ~g.ready
<1> DEFINE a == Advanced(f)
           b == Acted(a, in)
           c == Landed(b, lands)
<1>1. /\ Sound(a) /\ SameBody(f, a) /\ SameLegs(f, a)
      /\ a.move # None => a.move = f.move /\ a.elapsed >= f.elapsed
  BY AdvancedKeeps
<1> HIDE DEF a
<1>2. /\ Sound(b) /\ SameBody(a, b)
      /\ ~CanControl(a) => SameMove(a, b) /\ b.grounded = a.grounded /\ b.airJumps = a.airJumps
      /\ b.ready => a.ready \/ ~in.up
      /\ b.airJumps > a.airJumps => a.ready /\ ~b.ready
      /\ a.grounded /\ ~b.grounded => ~b.ready
  BY <1>1, ActedKeeps
<1> HIDE DEF b
<1>3. /\ Sound(c) /\ SameBody(b, c) /\ SameMove(b, c) /\ c.ready = b.ready
      /\ b.grounded => c.grounded
      /\ c.airJumps <= b.airJumps
  BY <1>2, LandedKeeps
<1> HIDE DEF c
<1>4. Prepared(f, in, lands) = c
  BY DEF Prepared, a, b, c
<1>5. /\ f.airJumps \in Int /\ a.airJumps \in Int /\ b.airJumps \in Int /\ c.airJumps \in Int
      /\ f.stun \in Nat /\ f.blockstun \in Nat /\ f.hitstop \in Nat
  BY <1>1, <1>2, <1>3, ContentAssumption DEF Sound, Fighter
<1>6. Locked(f) \/ f.lost => ~CanControl(a)
  BY <1>1, <1>5 DEF Locked, CanControl, SameBody
<1>7. SameBody(f, c)
  BY <1>1, <1>2, <1>3 DEF SameBody
<1>8. Locked(f) \/ f.lost =>
        /\ c.move # None => c.move = f.move /\ c.elapsed >= f.elapsed
        /\ f.grounded => c.grounded
        /\ c.airJumps <= f.airJumps
  BY <1>1, <1>2, <1>3, <1>5, <1>6 DEF SameMove, SameLegs
<1>9. /\ c.ready => f.ready \/ ~in.up
      /\ c.airJumps > f.airJumps => f.ready /\ ~c.ready
      /\ f.grounded /\ ~c.grounded => ~c.ready
  BY <1>1, <1>2, <1>3, <1>5 DEF SameLegs
<1> QED BY <1>3, <1>4, <1>7, <1>8, <1>9

(* The timers. *)
LEMMA TickedKeeps ==
  ASSUME NEW f, Sound(f)
  PROVE  LET g == Ticked(f) IN
         /\ Sound(g) /\ SameMove(f, g) /\ SameLegs(f, g)
         /\ g.health = f.health /\ g.lost = f.lost
         /\ f.state = "ko" => g.state = "ko"
<1>1. CASE f.hitstop > 0
  <2> DEFINE g == [f EXCEPT !.hitstop = @ - 1]
  <2>1. Ticked(f) = g
    BY <1>1 DEF Ticked
  <2>2. /\ g \in Fighter /\ SameMove(f, g) /\ SameLegs(f, g)
        /\ g.health = f.health /\ g.lost = f.lost /\ g.state = f.state
        /\ g.stun = f.stun /\ g.blockstun = f.blockstun /\ g.hits = f.hits
    BY <1>1 DEF Sound, Fighter, SameMove, SameLegs
  <2> HIDE DEF g
  <2> QED BY <2>1, <2>2 DEF Sound, SameMove
<1>2. CASE ~(f.hitstop > 0)
  <2> DEFINE st == CASE f.state = "hitstun" /\ f.stun = 1 -> "idle"
                     [] f.state = "blockstun" /\ f.blockstun = 1 -> "idle"
                     [] OTHER -> f.state
             x == AtLeast(f.stun - 1, 0)
             y == AtLeast(f.blockstun - 1, 0)
             g == [f EXCEPT !.stun = x, !.blockstun = y, !.state = st]
  <2>1. Ticked(f) = g
    BY <1>2 DEF Ticked
  <2>2. /\ f.stun \in Nat /\ f.blockstun \in Nat /\ f.state \in States
    BY DEF Sound, Fighter
  <2>3. /\ x \in Nat /\ y \in Nat
        /\ f.stun > 1 => x > 0
        /\ f.blockstun > 1 => y > 0
    BY <2>2 DEF AtLeast
  <2>4. \/ st = "idle" /\ f.state \in {"hitstun", "blockstun"}
        \/ /\ st = f.state
           /\ st = "hitstun" => f.stun # 1
           /\ st = "blockstun" => f.blockstun # 1
    OBVIOUS
  <2>5. st \in States
    BY <2>2, <2>4 DEF States
  <2> HIDE DEF st, x, y
  <2>6. /\ g \in Fighter /\ SameMove(f, g) /\ SameLegs(f, g)
        /\ g.health = f.health /\ g.lost = f.lost /\ g.state = st
        /\ g.stun = x /\ g.blockstun = y /\ g.hits = f.hits
    BY <2>3, <2>5 DEF Sound, Fighter, SameMove, SameLegs
  <2> HIDE DEF g
  <2> QED BY <2>1, <2>2, <2>3, <2>4, <2>6 DEF Sound, SameMove
<1> QED BY <1>1, <1>2

-----------------------------------------------------------------------------
(* Two fighters *)

AllSound(fs) == fs \in [Sides -> Fighter] /\ \A s \in Sides : Sound(fs[s])

(* What no contact and no timer changes. *)
SameControl(fs, gs) ==
  \A s \in Sides : SameMove(fs[s], gs[s]) /\ SameLegs(fs[s], gs[s])

LEMMA FrozenKeeps ==
  ASSUME NEW f \in Fighter, NEW m \in Moves
  PROVE  Frozen(f, m) \in Fighter /\ Frozen(f, m) = [f EXCEPT !.hitstop = Frozen(f, m).hitstop]
<1>1. AtLeast(f.hitstop, Data[m].hitstop) \in Nat
  BY ContentAssumption DEF MoveDefinition, Fighter, AtLeast
<1> QED BY <1>1 DEF Frozen, Fighter

LEMMA HurtKeeps ==
  ASSUME NEW f \in Fighter, NEW amount \in Nat
  PROVE  Hurt(f, amount) \in Fighter /\ Hurt(f, amount) = [f EXCEPT !.health = Hurt(f, amount).health]
<1>1. AtLeast(f.health - amount, 0) \in 0 .. MaxHealth
  BY ContentAssumption DEF Fighter, AtLeast
<1> QED BY <1>1 DEF Hurt, Fighter

(* A fighter that meets a contact, as attacker or as defender. *)
Met(f, g) ==
  /\ Sound(g)
  /\ SameMove(f, g) /\ SameLegs(f, g) /\ g.lost = f.lost

LEMMA AttackerKeeps ==
  ASSUME NEW f, Sound(f), f.hits = 0, NEW m \in Moves, NEW amount \in Nat
  PROVE  LET a == Frozen([f EXCEPT !.hits = @ + 1], m) IN
         /\ Met(f, a) /\ a.health = f.health
         /\ Met(f, Gain(a, amount)) /\ Gain(a, amount).health = f.health
<1> DEFINE b == [f EXCEPT !.hits = @ + 1]
           a == Frozen(b, m)
           c == Gain(a, amount)
<1>1. /\ b \in Fighter /\ SameMove(f, b) /\ SameLegs(f, b) /\ b.lost = f.lost /\ b.health = f.health
      /\ b.hits = 1 /\ b.state = f.state /\ b.stun = f.stun /\ b.blockstun = f.blockstun
  BY DEF Sound, Fighter, SameMove, SameLegs
<1> HIDE DEF b
<1>2. a \in Fighter /\ a = [b EXCEPT !.hitstop = a.hitstop]
  BY <1>1, FrozenKeeps
<1> HIDE DEF a
<1>3. c \in Fighter /\ c = [a EXCEPT !.meter = c.meter]
  BY <1>2, GainKeeps
<1> HIDE DEF c
<1>4. Met(f, a) /\ a.health = f.health
  BY <1>1, <1>2 DEF Met, Sound, Fighter, SameMove, SameLegs
<1>5. Met(f, c) /\ c.health = f.health
  BY <1>3, <1>4 DEF Met, Sound, Fighter, SameMove, SameLegs
<1> QED BY <1>4, <1>5 DEF a, b, c

(* The defender of move m, losing this much health. *)
Guards(f, m, amount) ==
  [Hurt(Frozen(f, m), amount) EXCEPT !.state = "blockstun", !.blockstun = Data[m].blockstun]

Struck(f, m, amount) ==
  [Hurt(Frozen(f, m), amount) EXCEPT !.state = "hitstun", !.stun = Data[m].hitstun]

LEMMA DefenderKeeps ==
  ASSUME NEW f, Sound(f), NEW m \in Moves, NEW amount \in Nat, NEW gain \in Nat
  PROVE  /\ Met(f, Guards(f, m, amount)) /\ Guards(f, m, amount).hits = f.hits
         /\ Met(f, Gain(Guards(f, m, amount), gain))
         /\ Gain(Guards(f, m, amount), gain).hits = f.hits
         /\ Met(f, Gain(Struck(f, m, amount), gain))
         /\ Gain(Struck(f, m, amount), gain).hits = f.hits
<1> DEFINE d == Frozen(f, m)
           h == Hurt(d, amount)
           b == Data[m].blockstun
           t == Data[m].hitstun
           guarded == [h EXCEPT !.state = "blockstun", !.blockstun = b]
           struck == [h EXCEPT !.state = "hitstun", !.stun = t]
           p == Gain(guarded, gain)
           q == Gain(struck, gain)
<1>1. /\ b \in Nat /\ b > 0 /\ t \in Nat /\ t > 0
      /\ "blockstun" \in States /\ "hitstun" \in States
  BY ContentAssumption DEF MoveDefinition, States
<1>2. d \in Fighter /\ d = [f EXCEPT !.hitstop = d.hitstop]
  BY FrozenKeeps DEF Sound
<1> HIDE DEF d, b, t
<1>3. h \in Fighter /\ h = [d EXCEPT !.health = h.health]
  BY <1>2, HurtKeeps
<1> HIDE DEF h
<1>4. /\ SameMove(f, h) /\ SameLegs(f, h) /\ h.lost = f.lost /\ h.hits = f.hits
  BY <1>2, <1>3 DEF Sound, Fighter, SameMove, SameLegs
<1>5. /\ guarded \in Fighter /\ SameMove(h, guarded) /\ SameLegs(h, guarded)
      /\ guarded.lost = h.lost /\ guarded.hits = h.hits
      /\ guarded.state = "blockstun" /\ guarded.blockstun > 0
  BY <1>1, <1>3 DEF Fighter, SameMove, SameLegs
<1>6. /\ struck \in Fighter /\ SameMove(h, struck) /\ SameLegs(h, struck)
      /\ struck.lost = h.lost /\ struck.hits = h.hits
      /\ struck.state = "hitstun" /\ struck.stun > 0
  BY <1>1, <1>3 DEF Fighter, SameMove, SameLegs
<1> HIDE DEF guarded, struck
<1>7. Met(f, guarded) /\ guarded.hits = f.hits
  BY <1>4, <1>5 DEF Met, Sound, SameMove, SameLegs
<1>8. Met(f, struck) /\ struck.hits = f.hits
  BY <1>4, <1>6 DEF Met, Sound, SameMove, SameLegs
<1>9. p \in Fighter /\ p = [guarded EXCEPT !.meter = p.meter]
  BY <1>5, GainKeeps
<1>10. q \in Fighter /\ q = [struck EXCEPT !.meter = q.meter]
  BY <1>6, GainKeeps
<1> HIDE DEF p, q
<1>11. Met(f, p) /\ p.hits = f.hits
  BY <1>5, <1>7, <1>9 DEF Met, Sound, Fighter, SameMove, SameLegs
<1>12. Met(f, q) /\ q.hits = f.hits
  BY <1>6, <1>8, <1>10 DEF Met, Sound, Fighter, SameMove, SameLegs
<1> QED BY <1>7, <1>11, <1>12 DEF p, q, guarded, struck, b, t, h, d, Guards, Struck

(* One contact: what its attacker and its defender keep, and that only the *)
(* defender can lose health.                                               *)
LEMMA ResolvedKeeps ==
  ASSUME NEW fs, AllSound(fs), NEW s \in Sides, CanHit(fs, s)
  PROVE  LET gs == Resolved(fs, s) IN
         /\ AllSound(gs) /\ SameControl(fs, gs)
         /\ \A t \in Sides : gs[t].lost = fs[t].lost
         /\ gs[s].health = fs[s].health /\ gs[Other(s)].hits = fs[Other(s)].hits
<1> DEFINE o == Other(s)
           m == fs[s].move
           a == Frozen([fs[s] EXCEPT !.hits = @ + 1], m)
           chip == IF Perfect(fs, s) THEN 0 ELSE Data[m].chip
           guarded == Guards(fs[o], m, chip)
           struck == Struck(fs[o], m, Data[m].damage)
<1>1. o \in Sides /\ o # s /\ Sides = {s, o}
  BY DEF Sides, Other
<1>2. Sound(fs[s]) /\ Sound(fs[o]) /\ fs[s].hits = 0 /\ m \in Moves
  BY <1>1 DEF AllSound, CanHit, Sound, Fighter
<1>3. chip \in Nat /\ Data[m].damage \in Nat /\ Data[m].onHit \in Nat
      /\ GainOnPerfect \in Nat /\ GainOnHit \in Nat
  BY <1>2, ContentAssumption DEF MoveDefinition
<1>4. PICK A, D : /\ Resolved(fs, s) = [fs EXCEPT ![s] = A, ![o] = D]
                  /\ A \in {a, Gain(a, Data[m].onHit)}
                  /\ D \in {guarded, Gain(guarded, GainOnPerfect), Gain(struck, GainOnHit)}
  <2>1. CASE Blocked(fs, s)
    <3> DEFINE D == IF Perfect(fs, s) THEN Gain(guarded, GainOnPerfect) ELSE guarded
    <3>1. Resolved(fs, s) = [fs EXCEPT ![s] = a, ![o] = D]
      BY <2>1 DEF Resolved, Guards
    <3> QED BY <3>1
  <2>2. CASE ~Blocked(fs, s)
    <3>1. Resolved(fs, s) = [fs EXCEPT ![s] = Gain(a, Data[m].onHit), ![o] = Gain(struck, GainOnHit)]
      BY <2>2 DEF Resolved, Struck
    <3> QED BY <3>1
  <2> QED BY <2>1, <2>2
<1>5. Met(fs[s], A) /\ A.health = fs[s].health
  BY <1>2, <1>3, <1>4, AttackerKeeps
<1>6. Met(fs[o], D) /\ D.hits = fs[o].hits
  <2>1. Met(fs[o], guarded) /\ guarded.hits = fs[o].hits
    BY <1>2, <1>3, DefenderKeeps
  <2>2. Met(fs[o], Gain(guarded, GainOnPerfect)) /\ Gain(guarded, GainOnPerfect).hits = fs[o].hits
    BY <1>2, <1>3, DefenderKeeps
  <2>3. Met(fs[o], Gain(struck, GainOnHit)) /\ Gain(struck, GainOnHit).hits = fs[o].hits
    BY <1>2, <1>3, DefenderKeeps
  <2> QED BY <1>4, <2>1, <2>2, <2>3
<1>7. Resolved(fs, s)[s] = A /\ Resolved(fs, s)[o] = D /\ Resolved(fs, s) \in [Sides -> Fighter]
  BY <1>1, <1>4, <1>5, <1>6 DEF AllSound, Met, Sound
<1> HIDE DEF o, a, guarded, struck, chip, m
<1>8. AllSound(Resolved(fs, s)) /\ SameControl(fs, Resolved(fs, s))
      /\ \A t \in Sides : Resolved(fs, s)[t].lost = fs[t].lost
  BY <1>1, <1>5, <1>6, <1>7 DEF AllSound, SameControl, Met
<1> QED BY <1>5, <1>6, <1>7, <1>8 DEF o

(* Who is still standing before the contacts. *)
Standing(fs) == \A s \in Sides : ~fs[s].lost /\ fs[s].health # 0

(* The contacts of a step, found together and resolved in turn. *)
LEMMA ContactsKeep ==
  ASSUME NEW fs, AllSound(fs), Standing(fs), NEW contacts \in SUBSET {s \in Sides : CanHit(fs, s)}
  PROVE  LET gs == AfterContacts(fs, contacts) IN
         /\ AllSound(gs) /\ SameControl(fs, gs)
         /\ \A s \in Sides : ~gs[s].lost
         /\ \E s \in Sides : gs[s].health # 0
         /\ EventsOf(fs, contacts) \subseteq Contact
<1> DEFINE one == AfterPlayer(fs, contacts)
           gs == AfterContacts(fs, contacts)
<1>1. "player" \in Sides /\ "cpu" \in Sides /\ Other("player") = "cpu" /\ Other("cpu") = "player"
      /\ \A s \in Sides : s = "player" \/ s = "cpu"
  BY DEF Sides, Other
<1>2. ASSUME NEW hs, NEW s \in Sides PROVE ContactEvent(hs, s) \in Contact
  BY <1>2 DEF ContactEvent, Contact, Blocked, Perfect
<1>3. /\ AllSound(one) /\ SameControl(fs, one)
      /\ \A s \in Sides : ~one[s].lost
      /\ one["player"].health # 0
      /\ one["cpu"].hits = fs["cpu"].hits
  <2>1. CASE "player" \in contacts
    <3>1. one = Resolved(fs, "player") /\ CanHit(fs, "player")
      BY <2>1 DEF AfterPlayer
    <3> QED BY <1>1, <3>1, ResolvedKeeps DEF Standing
  <2>2. CASE "player" \notin contacts
    <3>1. one = fs
      BY <2>2 DEF AfterPlayer
    <3> QED BY <1>1, <3>1 DEF Standing, SameControl, SameMove, SameLegs
  <2> QED BY <2>1, <2>2
<1> HIDE DEF one
<1>4. /\ AllSound(gs) /\ SameControl(fs, gs)
      /\ \A s \in Sides : ~gs[s].lost
      /\ \E s \in Sides : gs[s].health # 0
  <2>1. CASE "cpu" \notin contacts \/ Decided(one)
    <3>1. gs = one
      BY <2>1 DEF AfterContacts, one
    <3> QED BY <1>1, <1>3, <3>1
  <2>2. CASE ~("cpu" \notin contacts \/ Decided(one))
    <3>1. gs = Resolved(one, "cpu") /\ CanHit(fs, "cpu")
      BY <2>2 DEF AfterContacts, one
    <3>2. CanHit(one, "cpu")
      BY <1>1, <1>3, <3>1 DEF CanHit, SameControl, SameMove
    <3>3. one["cpu"].health # 0
      BY <1>1, <1>3, <2>2 DEF Decided, Down
    <3>4. /\ AllSound(gs) /\ SameControl(one, gs)
          /\ \A s \in Sides : gs[s].lost = one[s].lost
          /\ gs["cpu"].health = one["cpu"].health
      BY <1>1, <1>3, <3>1, <3>2, ResolvedKeeps
    <3> QED BY <1>1, <1>3, <3>3, <3>4 DEF SameControl, SameMove, SameLegs
  <2> QED BY <2>1, <2>2
<1>5. EventsOf(fs, contacts) \subseteq Contact
  BY <1>1, <1>2 DEF EventsOf
<1> QED BY <1>4, <1>5

(* The knockout: of fighters of whom one still stands it finds the other.  *)
LEMMA KnockedOutKeeps ==
  ASSUME NEW fs, AllSound(fs), \A s \in Sides : ~fs[s].lost, \E s \in Sides : fs[s].health # 0
  PROVE  LET gs == KnockedOut(fs) IN
         /\ AllSound(gs) /\ SameControl(fs, gs)
         /\ \A s \in Sides : /\ gs[s].lost <=> gs[s].health = 0
                             /\ gs[s].lost => gs[s].state = "ko"
                             /\ gs[s].lost <=> Down(fs) # {} /\ s = Loser(fs)
<1> DEFINE gs == KnockedOut(fs)
           x == Loser(fs)
<1>1. x \in Sides
  BY DEF Sides, Loser
<1>2. CASE Down(fs) = {}
  <2>1. gs = fs
    BY <1>2 DEF KnockedOut
  <2>2. \A s \in Sides : fs[s].health # 0
    BY <1>2 DEF Down
  <2> QED BY <1>2, <2>1, <2>2 DEF SameControl, SameMove, SameLegs
<1>3. CASE Down(fs) # {}
  <2>1. fs[x].health = 0 /\ \A s \in Sides \ {x} : fs[s].health # 0
    BY <1>3 DEF Down, Loser, Sides
  <2> DEFINE d == [fs[x] EXCEPT !.lost = TRUE, !.state = "ko"]
  <2>2. /\ d \in Fighter /\ SameMove(fs[x], d) /\ SameLegs(fs[x], d)
        /\ d.lost /\ d.state = "ko" /\ d.health = fs[x].health /\ d.hits = fs[x].hits
    BY <1>1, ZenonT(60) DEF AllSound, Fighter, States, SameMove, SameLegs
  <2>3. gs = [fs EXCEPT ![x] = d]
    BY <1>1, <1>3 DEF KnockedOut, AllSound, Fighter
  <2> HIDE DEF d, x
  <2>4. gs \in [Sides -> Fighter] /\ gs[x] = d /\ \A s \in Sides \ {x} : gs[s] = fs[s]
    BY <1>1, <2>2, <2>3 DEF AllSound
  <2> HIDE DEF gs
  <2>5. Sound(d)
    BY <1>1, <2>2 DEF AllSound, Sound
  <2>6. AllSound(gs)
    BY <1>1, <2>4, <2>5 DEF AllSound
  <2>7. SameControl(fs, gs)
    BY <2>2, <2>4 DEF SameControl, SameMove, SameLegs
  <2>8. \A s \in Sides : /\ gs[s].lost <=> s = x
                         /\ gs[s].lost <=> gs[s].health = 0
                         /\ gs[s].lost => gs[s].state = "ko"
    BY <1>1, <2>1, <2>2, <2>4
  <2> QED BY <1>3, <2>6, <2>7, <2>8 DEF gs, x
<1> QED BY <1>2, <1>3

(* What a step may do to a fighter's move, legs and buttons. *)
Acts(f, g, in) ==
  /\ Locked(f) \/ f.lost =>
       /\ g.move # None => g.move = f.move /\ g.elapsed >= f.elapsed
       /\ f.grounded => g.grounded
       /\ g.airJumps <= f.airJumps
  /\ g.ready => f.ready \/ ~in.up
  /\ g.airJumps > f.airJumps => f.ready /\ ~g.ready
  /\ f.grounded /\ ~g.grounded => ~g.ready

FightInv == TypeOK /\ AllSound(fighter) /\ RoundIsDecided

(* The whole step. *)
LEMMA StepKeeps ==
  ASSUME FightInv, NEW input \in [Sides -> Inputs], NEW lands \in SUBSET Sides,
         NEW contacts \in SUBSET {s \in Sides : CanHit(Ready(input, lands), s)},
         Step(Ready(input, lands), contacts)
  PROVE  FightInv' /\ \A s \in Sides : Acts(fighter[s], fighter'[s], input[s])
<1> DEFINE fs == Ready(input, lands)
           gs == AfterContacts(fs, contacts)
           hs == KnockedOut(gs)
<1>1. "player" \in Sides /\ "cpu" \in Sides /\ \A s \in Sides : s = "player" \/ s = "cpu"
  BY DEF Sides
<1>2. /\ AllSound(fighter) /\ Standing(fighter)
  BY DEF FightInv, RoundIsDecided, Standing, Step
<1> DEFINE p(s) == Prepared(fighter[s], input[s], s \in lands)
<1>3. ASSUME NEW s \in Sides
      PROVE  Sound(p(s)) /\ SameBody(fighter[s], p(s)) /\ Acts(fighter[s], p(s), input[s])
  <2>1. Sound(fighter[s]) /\ input[s] \in Inputs /\ (s \in lands) \in BOOLEAN
    BY <1>2 DEF AllSound
  <2> QED BY <2>1, PreparedKeeps DEF Acts
<1>4. fs \in [Sides -> Fighter] /\ \A s \in Sides : fs[s] = p(s)
  <2>1. \A s \in Sides : p(s) \in Fighter
    BY <1>3 DEF Sound
  <2>2. fs = [fighter EXCEPT !["player"] = p("player"), !["cpu"] = p("cpu")]
    BY DEF Ready, Prepared
  <2> HIDE DEF fs, p
  <2> QED BY <1>1, <1>2, <2>1, <2>2 DEF AllSound
<1> HIDE DEF fs, p
<1>5. AllSound(fs) /\ \A s \in Sides : SameBody(fighter[s], fs[s]) /\ Acts(fighter[s], fs[s], input[s])
  BY <1>3, <1>4 DEF AllSound
<1>6. Standing(fs)
  BY <1>2, <1>5 DEF Standing, SameBody
<1>7. contacts \in SUBSET {s \in Sides : CanHit(fs, s)}
  BY DEF fs
<1>8. /\ AllSound(gs) /\ SameControl(fs, gs)
      /\ \A s \in Sides : ~gs[s].lost
      /\ \E s \in Sides : gs[s].health # 0
      /\ EventsOf(fs, contacts) \subseteq Contact
  BY <1>5, <1>6, <1>7, ContactsKeep
<1> HIDE DEF gs
<1>9. /\ AllSound(hs) /\ SameControl(gs, hs)
      /\ \A s \in Sides : /\ hs[s].lost <=> hs[s].health = 0
                          /\ hs[s].lost => hs[s].state = "ko"
                          /\ hs[s].lost <=> Down(gs) # {} /\ s = Loser(gs)
  BY <1>8, KnockedOutKeeps
<1> HIDE DEF hs
<1>10. /\ fighter' = [hs EXCEPT !["player"] = Ticked(hs["player"]), !["cpu"] = Ticked(hs["cpu"])]
       /\ status' = IF Down(gs) = {} THEN "active"
                    ELSE IF Loser(gs) = "player" THEN "cpu_win" ELSE "player_win"
       /\ events' = EventsOf(fs, contacts)
  BY <1>1, <1>9 DEF Step, AllSound, fs, gs, hs
<1>11. fighter' \in [Sides -> Fighter] /\ \A s \in Sides : fighter'[s] = Ticked(hs[s])
  BY <1>1, <1>9, <1>10, TickedKeeps DEF AllSound, Sound
<1>12. ASSUME NEW s \in Sides
       PROVE  /\ Sound(fighter'[s]) /\ SameMove(hs[s], fighter'[s]) /\ SameLegs(hs[s], fighter'[s])
              /\ fighter'[s].health = hs[s].health /\ fighter'[s].lost = hs[s].lost
              /\ hs[s].state = "ko" => fighter'[s].state = "ko"
  BY <1>9, <1>11, TickedKeeps DEF AllSound
<1>13. AllSound(fighter')
  BY <1>11, <1>12 DEF AllSound
<1>14. \A s \in Sides : SameMove(fs[s], fighter'[s]) /\ SameLegs(fs[s], fighter'[s])
  BY <1>8, <1>9, <1>12 DEF SameControl, SameMove, SameLegs
<1>15. \A s \in Sides : Acts(fighter[s], fighter'[s], input[s])
  BY <1>5, <1>14 DEF Acts, SameMove, SameLegs
<1>16. TypeOK'
  BY <1>8, <1>10, <1>11 DEF TypeOK
<1>17. RoundIsDecided'
  <2>1. Loser(gs) = "player" \/ Loser(gs) = "cpu"
    BY DEF Loser
  <2>2. \A s \in Sides : fighter'[s].lost <=> fighter'[s].health = 0
    BY <1>9, <1>12
  <2>3. \A s \in Sides : fighter'[s].lost => fighter'[s].state = "ko"
    BY <1>9, <1>12
  <2>4. \A s \in Sides : fighter'[s].lost <=> Down(gs) # {} /\ s = Loser(gs)
    BY <1>9, <1>12
  <2>5. status' = "active" <=> Down(gs) = {}
    BY <1>10
  <2>6. /\ status' = "active" <=> \A s \in Sides : ~fighter'[s].lost
        /\ status' = "player_win" <=> fighter'["cpu"].lost
        /\ status' = "cpu_win" <=> fighter'["player"].lost
    BY <1>1, <1>10, <2>1, <2>4, <2>5
  <2> QED BY <2>2, <2>3, <2>6 DEF RoundIsDecided
<1> QED BY <1>13, <1>15, <1>16, <1>17 DEF FightInv

-----------------------------------------------------------------------------
(* The fight with the boss *)

(* The boss's memory, and what ready knows of the up button. *)
BossInv ==
  /\ FightInv
  /\ brain \in Brain
  /\ brain.controllable => ~stale
  /\ \A s \in Sides : fighter[s].ready => released[s]

LEMMA BossInitOK == BossInit => BossInv
<1> SUFFICES ASSUME BossInit PROVE BossInv
  OBVIOUS
<1>1. MaxHealth \in Nat /\ MaxHealth # 0 /\ MaxMeter \in Nat /\ MaxAirJumps \in Nat /\ PerfectWindow \in Nat
  BY ContentAssumption
<1>2. \A s \in Sides : Sound(fighter[s]) /\ ~fighter[s].lost /\ fighter[s].health # 0 /\ ~fighter[s].ready
  BY <1>1 DEF BossInit, Init, Sound, Fighter, States
<1>3. fighter \in [Sides -> Fighter]
  BY <1>2 DEF BossInit, Init, Sound
<1>4. FightInv
  BY <1>2, <1>3 DEF FightInv, AllSound, TypeOK, RoundIsDecided, BossInit, Init, Sides
<1>5. brain \in Brain /\ ~stale
  <2>1. Neutral \in Inputs
    BY DEF Neutral, Inputs
  <2>2. 0 \in 0 .. ReactionFrames /\ 0 \in 0 .. PassiveBlock
    BY BossAssumption
  <2> QED BY <2>1, <2>2 DEF BossInit, Brain
<1> QED BY <1>2, <1>4, <1>5 DEF BossInv

LEMMA StreakInRange ==
  ASSUME NEW streak \in 0 .. PassiveBlock, NEW f
  PROVE  Streak(streak, f) \in 0 .. PassiveBlock
<1>1. PassiveBlock \in Nat /\ streak + 1 \in Nat
  BY BossAssumption
<1>2. AtMost(streak + 1, PassiveBlock) \in 0 .. PassiveBlock
  BY <1>1, LeastOf
<1> QED BY <1>1, <1>2 DEF Streak

(* The brain's three steps: only holding counts the lag down, and only a   *)
(* decision the boss has not been locked since.                            *)
LEMMA BrainKeeps ==
  ASSUME brain \in Brain, brain.controllable => ~stale,
         NEW cpu \in Inputs, Decide(cpu) \/ Hold(cpu) \/ Wait(cpu)
  PROVE  /\ brain' \in Brain
         /\ brain'.controllable => ~stale'
         /\ brain'.cooldown < brain.cooldown => ~stale /\ CanControl(fighter["cpu"])
<1>1. ReactionFrames \in Nat /\ brain.cooldown \in 0 .. ReactionFrames /\ brain.streak \in 0 .. PassiveBlock
  BY BossAssumption DEF Brain
<1>2. CASE Decide(cpu)
  <2> DEFINE n == Streak(brain.streak, fighter["player"])
  <2>1. n \in 0 .. PassiveBlock
    BY <1>1, StreakInRange
  <2>2. brain' = [cooldown |-> ReactionFrames, held |-> cpu, controllable |-> TRUE, streak |-> n] /\ stale' = FALSE
    BY <1>2 DEF Decide
  <2> HIDE DEF n
  <2> QED BY <1>1, <2>1, <2>2 DEF Brain
<1>3. CASE Hold(cpu)
  <2>1. /\ brain' = [brain EXCEPT !.cooldown = brain.cooldown - 1] /\ stale' = stale
        /\ CanControl(fighter["cpu"]) /\ brain.controllable /\ brain.cooldown > 0
    BY <1>3 DEF Hold, Lagging
  <2>2. brain.cooldown - 1 \in 0 .. ReactionFrames
    BY <1>1, <2>1
  <2> QED BY <2>1, <2>2 DEF Brain
<1>4. CASE Wait(cpu)
  <2>1. brain' = [brain EXCEPT !.controllable = FALSE]
    BY <1>4 DEF Wait
  <2>2. brain' \in Brain /\ brain'.cooldown = brain.cooldown /\ ~brain'.controllable
    BY <2>1 DEF Brain
  <2>3. ~(brain.cooldown < brain.cooldown)
    BY <1>1
  <2> QED BY <2>2, <2>3
<1> QED BY <1>2, <1>3, <1>4

(* What a frame may do. *)
FrameActs ==
  /\ \A s \in Sides :
       LET f == fighter[s]
           g == fighter'[s]
       IN /\ Locked(f) \/ f.lost =>
               /\ g.move # None => g.move = f.move /\ g.elapsed >= f.elapsed
               /\ f.grounded => g.grounded
               /\ g.airJumps <= f.airJumps
          /\ g.airJumps > f.airJumps => released[s]
  /\ brain'.cooldown < brain.cooldown => ~stale /\ CanControl(fighter["cpu"])

LEMMA QuietActs == ASSUME BossInv, fighter' = fighter, brain' = brain PROVE FrameActs
<1>1. \A s \in Sides : fighter[s].elapsed \in Int /\ fighter[s].airJumps \in Int
  BY ContentAssumption DEF BossInv, FightInv, AllSound, Sound, Fighter
<1>2. brain.cooldown \in Int
  BY BossAssumption DEF BossInv, Brain
<1> QED BY <1>1, <1>2 DEF FrameActs

LEMMA BossNextKeeps ==
  ASSUME BossInv, [BossNext]_bossVars
  PROVE  BossInv' /\ FrameActs
<1>1. CASE UNCHANGED bossVars
  <2>1. BossInv'
    BY <1>1 DEF bossVars, BossInv, FightInv, TypeOK, AllSound, RoundIsDecided
  <2> QED BY <1>1, <2>1, QuietActs DEF bossVars
<1>2. CASE IdleStep /\ UNCHANGED <<released, brain, blocking, stale>>
  <2>1. BossInv'
    BY <1>2 DEF IdleStep, BossInv, FightInv, TypeOK, AllSound, RoundIsDecided
  <2> QED BY <1>2, <2>1, QuietActs DEF IdleStep
<1>3. ASSUME NEW cpu \in Inputs, Decide(cpu) \/ Hold(cpu) \/ Wait(cpu),
             NEW player \in Pads, Frame(player, cpu)
      PROVE  BossInv' /\ FrameActs
  <2> DEFINE input == [s \in Sides |-> IF s = "player" THEN player ELSE cpu]
  <2>1. input \in [Sides -> Inputs]
    BY <1>3, PadsAssumption
  <2>2. PICK lands \in SUBSET Sides :
          \E contacts \in SUBSET {s \in Sides : CanHit(Ready(input, lands), s)} :
            Step(Ready(input, lands), contacts) /\ Record(input)
    BY <1>3 DEF Frame
  <2> HIDE DEF input
  <2>3. PICK contacts \in SUBSET {s \in Sides : CanHit(Ready(input, lands), s)} :
          Step(Ready(input, lands), contacts) /\ Record(input)
    BY <2>2
  <2>4. FightInv' /\ \A s \in Sides : Acts(fighter[s], fighter'[s], input[s])
    BY <2>1, <2>3, StepKeeps DEF BossInv
  <2>5. /\ brain' \in Brain
        /\ brain'.controllable => ~stale'
        /\ brain'.cooldown < brain.cooldown => ~stale /\ CanControl(fighter["cpu"])
    BY <1>3, BrainKeeps DEF BossInv
  <2>6. ASSUME NEW s \in Sides, fighter'[s].ready PROVE released'[s]
    <3>1. released'[s] = (~Jumps(s) /\ (released[s] \/ ~input[s].up))
      BY <2>3 DEF Record
    <3>2. released[s] \/ ~input[s].up
      BY <2>4, <2>6 DEF Acts, BossInv
    <3>3. ~Jumps(s)
      BY <2>4, <2>6 DEF Acts, Jumps
    <3> QED BY <3>1, <3>2, <3>3
  <2>7. FrameActs
    BY <2>4, <2>5 DEF FrameActs, Acts, BossInv
  <2> QED BY <2>4, <2>5, <2>6, <2>7 DEF BossInv
<1> QED BY <1>1, <1>2, <1>3 DEF BossNext

LEMMA BossInvariant == BossSpec => []BossInv
<1>1. BossInv /\ [BossNext]_bossVars => BossInv'
  BY BossNextKeeps
<1> QED BY <1>1, BossInitOK, PTL DEF BossSpec

(* Whatever the content, the inputs, the geometry and the boss do, the     *)
(* variables keep their types.                                             *)
THEOREM FightTypeCorrect == BossSpec => []TypeOK
<1>1. BossInv => TypeOK
  BY DEF BossInv, FightInv
<1> QED BY <1>1, BossInvariant, PTL

(* A fight never has two losers, nor one who still has health: the contact *)
(* that ends the round is the last that counts.                            *)
THEOREM RoundDecided == BossSpec => []RoundIsDecided
<1>1. BossInv => RoundIsDecided
  BY DEF BossInv, FightInv
<1> QED BY <1>1, BossInvariant, PTL

(* No move hits twice, for any active frames, freezes and interruptions.   *)
THEOREM OneHit == BossSpec => []OneHitPerMove
<1>1. BossInv => OneHitPerMove
  BY DEF BossInv, FightInv, AllSound, Sound, OneHitPerMove
<1> QED BY <1>1, BossInvariant, PTL

(* Every pose that refuses input has the counter or the move that ends it. *)
THEOREM PosesEnd == BossSpec => []PosesRunOut
<1>1. BossInv => PosesRunOut
  BY DEF BossInv, FightInv, AllSound, Sound, PosesRunOut
<1> QED BY <1>1, BossInvariant, PTL

(* A stunned, frozen or beaten fighter starts no move and no jump.         *)
THEOREM StunnedDoNothing == BossSpec => NoActionWhileStunned
<1>1. BossInv /\ [BossNext]_bossVars =>
        [\A s \in Sides :
           LET f == fighter[s]
               g == fighter'[s]
           IN Locked(f) \/ f.lost =>
                /\ g.move # None => g.move = f.move /\ g.elapsed >= f.elapsed
                /\ f.grounded => g.grounded
                /\ g.airJumps <= f.airJumps]_vars
  BY BossNextKeeps DEF FrameActs
<1> QED BY <1>1, BossInvariant, PTL DEF BossSpec, NoActionWhileStunned

(* Every jump in the air was preceded by a release of up.                  *)
THEOREM AirJumpsFresh == BossSpec => AirJumpsAreFresh
<1>1. BossInv /\ [BossNext]_bossVars =>
        [\A s \in Sides : fighter'[s].airJumps > fighter[s].airJumps => released[s]]_bossVars
  BY BossNextKeeps DEF FrameActs
<1> QED BY <1>1, BossInvariant, PTL DEF BossSpec, AirJumpsAreFresh

(* The boss never plays on with an input it decided before it was locked.  *)
THEOREM HeldInputFresh == BossSpec => HeldInputIsFresh
<1>1. BossInv /\ [BossNext]_bossVars =>
        [brain'.cooldown < brain.cooldown => ~stale /\ CanControl(fighter["cpu"])]_bossVars
  BY BossNextKeeps DEF FrameActs
<1> QED BY <1>1, BossInvariant, PTL DEF BossSpec, HeldInputIsFresh
=============================================================================
