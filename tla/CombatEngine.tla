---------------------------- MODULE CombatEngine ----------------------------
(***************************************************************************)
(* The fixed-step fight of packages/sim/src: CombatEngine.step over two    *)
(* fighters, with moves, control, stun, blocking, meter and the knockout.  *)
(*                                                                         *)
(* A step is a function of the state and the two inputs.  Geometry is left *)
(* to Pushboxes: which live hitboxes overlap the opponent and when a jump  *)
(* lands are free here, so that what holds holds for every stage, speed    *)
(* and box.  Standing, walking and crouching are one pose.                 *)
(***************************************************************************)
EXTENDS Integers

CONSTANTS Moves,            \* the moves of both fighters
          Data,             \* MoveDefinition of each
          None,             \* no move
          Pads,             \* the inputs the two sides make
          MaxHealth,
          MaxMeter,
          MaxAirJumps,
          PerfectWindow,    \* PERFECT_BLOCK_WINDOW
          GainOnHit,        \* METER_GAIN_ON_HIT_RECEIVED
          GainOnPerfect     \* METER_GAIN_ON_PERFECT_BLOCK

MoveDefinition ==
  [startup : Nat, active : Nat \ {0}, recovery : Nat,
   damage : Nat \ {0}, chip : Nat, hitstun : Nat \ {0}, blockstun : Nat \ {0},
   hitstop : Nat, onUse : Nat, onHit : Nat, cost : 0..MaxMeter, blockable : BOOLEAN]

ASSUME ContentAssumption ==
  /\ None \notin Moves
  /\ MaxHealth \in Nat \ {0} /\ MaxMeter \in Nat /\ MaxAirJumps \in Nat
  /\ PerfectWindow \in Nat /\ GainOnHit \in Nat /\ GainOnPerfect \in Nat
  /\ Data \in [Moves -> MoveDefinition]

(* A CombatInput: block held, up held, and the move its buttons pick. *)
Inputs == [block : BOOLEAN, up : BOOLEAN, press : Moves \cup {None}]

ASSUME PadsAssumption == Pads \subseteq Inputs

VARIABLES fighter,  \* FighterState by side
          status,   \* RoundStatus
          events    \* the contacts of the last step, of lastEvents

vars == <<fighter, status, events>>

Sides == {"player", "cpu"}
Other(s) == IF s = "player" THEN "cpu" ELSE "player"

States == {"idle", "jump", "attack", "block", "hitstun", "blockstun", "ko"}

(* hits is the length of hitTargets.  held stops at PerfectWindow + 1: the *)
(* code only asks whether it is within the window.                         *)
Fighter ==
  [health : 0..MaxHealth, meter : 0..MaxMeter, state : States,
   move : Moves \cup {None}, elapsed : Nat, hits : Nat,
   stun : Nat, blockstun : Nat, hitstop : Nat, lost : BOOLEAN,
   grounded : BOOLEAN, airJumps : 0..MaxAirJumps, ready : BOOLEAN,
   held : 0..(PerfectWindow + 1)]

Contact == [by : Sides, blocked : BOOLEAN, perfect : BOOLEAN]

TypeOK ==
  /\ fighter \in [Sides -> Fighter]
  /\ status \in {"active", "player_win", "cpu_win"}
  /\ events \subseteq Contact

AtMost(a, b) == IF a <= b THEN a ELSE b
AtLeast(a, b) == IF a >= b THEN a ELSE b

-----------------------------------------------------------------------------
(* One fighter *)

(* Bug: a fighter frozen or stunned may act when its pose allows it.       *)
ControlsByPose(f) ==
  /\ ~f.lost
  /\ f.state \notin {"ko", "attack", "hitstun", "blockstun"}

CanControl(f) ==
  /\ ~f.lost
  /\ f.state \notin {"ko", "attack", "hitstun", "blockstun"}
  /\ f.stun = 0 /\ f.blockstun = 0 /\ f.hitstop = 0

Duration(m) == Data[m].startup + Data[m].active + Data[m].recovery

(* advanceMove, unless hitstop freezes the fighter. *)
Advanced(f) ==
  IF f.move = None \/ f.hitstop > 0 THEN f
  ELSE IF f.elapsed + 1 >= Duration(f.move)
    THEN [f EXCEPT !.move = None, !.elapsed = 0, !.hits = 0,
                   !.state = IF @ = "attack" THEN "idle" ELSE @]
    ELSE [f EXCEPT !.elapsed = @ + 1]

Gain(f, amount) == [f EXCEPT !.meter = AtMost(@ + amount, MaxMeter)]

Spend(f, amount) == IF f.meter >= amount THEN [f EXCEPT !.meter = @ - amount] ELSE f

CanStart(f, m) == CanControl(f) /\ f.move = None /\ Data[m].cost <= f.meter

(* startMove with its meter; the gain on use comes before the cost. *)
Started(f, m) ==
  Spend(Gain([f EXCEPT !.move = m, !.elapsed = 0, !.hits = 0, !.state = "attack"],
             Data[m].onUse),
        Data[m].cost)

(* Bug: the jump does not ask for up to be released.                       *)
JumpHeld(f) ==
  [f EXCEPT !.grounded = FALSE, !.state = "jump", !.airJumps = 0]

Jump(f) ==
  [f EXCEPT !.grounded = FALSE, !.state = "jump", !.airJumps = 0, !.ready = FALSE]

(* applyMovementInput; the bookkeeping of block and up comes first. *)
Moved(f, in) ==
  LET g == [f EXCEPT !.held = IF in.block THEN AtMost(@ + 1, PerfectWindow + 1) ELSE 0,
                     !.ready = @ \/ ~in.up]
  IN CASE ~CanControl(g) -> g
       [] CanControl(g) /\ g.grounded /\ in.up -> Jump(g)
       [] CanControl(g) /\ g.grounded /\ ~in.up ->
            [g EXCEPT !.state = IF in.block THEN "block" ELSE "idle"]
       [] CanControl(g) /\ ~g.grounded ->
            IF in.up /\ g.ready /\ g.airJumps < MaxAirJumps
              THEN [g EXCEPT !.airJumps = @ + 1, !.ready = FALSE]
              ELSE g

(* processInput: a move in progress locks the input out altogether. *)
Acted(f, in) ==
  IF f.move # None THEN f
  ELSE IF in.press # None /\ CanStart(f, in.press) THEN Started(f, in.press)
  ELSE Moved(f, in)

(* integratePhysics. *)
Landed(f, lands) ==
  IF f.grounded \/ f.hitstop > 0 \/ ~lands THEN f
  ELSE [f EXCEPT !.grounded = TRUE, !.airJumps = 0,
                 !.state = IF CanControl(f) /\ @ = "jump" THEN "idle" ELSE @]

(* Bug: a stun that runs out leaves the fighter in its pose.               *)
TickedOnly(f) ==
  IF f.hitstop > 0 THEN [f EXCEPT !.hitstop = @ - 1]
  ELSE [f EXCEPT !.stun = AtLeast(@ - 1, 0), !.blockstun = AtLeast(@ - 1, 0)]

(* Bug: stun and freeze each wait for the other to run out.                *)
TickedInTurn(f) ==
  IF f.hitstop > 0 /\ f.stun = 0 THEN [f EXCEPT !.hitstop = @ - 1]
  ELSE IF f.hitstop > 0 THEN f
  ELSE TickedOnly(f)

(* tickStatusTimers. *)
Ticked(f) ==
  IF f.hitstop > 0 THEN [f EXCEPT !.hitstop = @ - 1]
  ELSE [f EXCEPT !.stun = AtLeast(@ - 1, 0),
                 !.blockstun = AtLeast(@ - 1, 0),
                 !.state = CASE f.state = "hitstun" /\ f.stun = 1 -> "idle"
                             [] f.state = "blockstun" /\ f.blockstun = 1 -> "idle"
                             [] OTHER -> @]

-----------------------------------------------------------------------------
(* Two fighters *)

(* findHitContacts: s has a live hitbox and has not hit with this move yet. *)
CanHit(fs, s) ==
  LET f == fs[s]
  IN /\ f.move # None
     /\ f.hits = 0
     /\ f.elapsed \in Data[f.move].startup .. (Data[f.move].startup + Data[f.move].active - 1)

Blocked(fs, s) == Data[fs[s].move].blockable /\ fs[Other(s)].state = "block"

Perfect(fs, s) == Blocked(fs, s) /\ fs[Other(s)].held \in 1..PerfectWindow

Hurt(f, amount) == [f EXCEPT !.health = AtLeast(@ - amount, 0)]

Frozen(f, m) == [f EXCEPT !.hitstop = AtLeast(@, Data[m].hitstop)]

(* resolveHitContact for attacker s. *)
Resolved(fs, s) ==
  LET m == fs[s].move
      a == Frozen([fs[s] EXCEPT !.hits = @ + 1], m)
      d == Frozen(fs[Other(s)], m)
      chip == IF Perfect(fs, s) THEN 0 ELSE Data[m].chip
      guarded == [Hurt(d, chip) EXCEPT !.state = "blockstun", !.blockstun = Data[m].blockstun]
      struck == [Hurt(d, Data[m].damage) EXCEPT !.state = "hitstun", !.stun = Data[m].hitstun]
  IN IF Blocked(fs, s)
       THEN [fs EXCEPT ![s] = a, ![Other(s)] = IF Perfect(fs, s) THEN Gain(guarded, GainOnPerfect) ELSE guarded]
       ELSE [fs EXCEPT ![s] = Gain(a, Data[m].onHit), ![Other(s)] = Gain(struck, GainOnHit)]

ContactEvent(fs, s) == [by |-> s, blocked |-> Blocked(fs, s), perfect |-> Perfect(fs, s)]

(* checkRoundEnd and applyRoundEnd: the sides that are down now. *)
Down(fs) == {s \in Sides : fs[s].health = 0 /\ ~fs[s].lost}

Loser(fs) == IF "cpu" \in Down(fs) THEN "cpu" ELSE "player"

KnockedOut(fs) ==
  IF Down(fs) = {} THEN fs
  ELSE [fs EXCEPT ![Loser(fs)].lost = TRUE, ![Loser(fs)].state = "ko"]

(* Bug: the contacts of a frame go on after the one that ends the round.   *)
NeverDecided(fs) == FALSE

Decided(fs) == Down(fs) # {}

(* The contacts of a frame are found together and resolved in turn, the    *)
(* player's first, until one ends the round.                               *)
AfterPlayer(fs, contacts) == IF "player" \in contacts THEN Resolved(fs, "player") ELSE fs

AfterContacts(fs, contacts) ==
  LET one == AfterPlayer(fs, contacts)
  IN IF "cpu" \notin contacts \/ Decided(one) THEN one ELSE Resolved(one, "cpu")

EventsOf(fs, contacts) ==
  LET one == AfterPlayer(fs, contacts)
  IN {ContactEvent(fs, s) : s \in contacts \cap {"player"}} \cup
     {ContactEvent(one, s) : s \in IF Decided(one) THEN {} ELSE contacts \cap {"cpu"}}

-----------------------------------------------------------------------------
(* createInitialFightState *)
Init ==
  /\ fighter = [s \in Sides |->
       [health |-> MaxHealth, meter |-> 0, state |-> "idle", move |-> None, elapsed |-> 0,
        hits |-> 0, stun |-> 0, blockstun |-> 0, hitstop |-> 0, lost |-> FALSE,
        grounded |-> TRUE, airJumps |-> 0, ready |-> FALSE, held |-> 0]]
  /\ status = "active"
  /\ events = {}

(* The fighters when the contacts of a step are looked for. *)
Ready(input, lands) ==
  LET ready(s) == Landed(Acted(Advanced(fighter[s]), input[s]), s \in lands)
  IN [fighter EXCEPT !["player"] = ready("player"), !["cpu"] = ready("cpu")]

(* CombatEngine.step from the contacts on: fs are the fighters, moved. *)
Step(fs, contacts) ==
  /\ status = "active"
  /\ LET after == AfterContacts(fs, contacts)
         final == KnockedOut(after)
     IN /\ fighter' = [final EXCEPT !["player"] = Ticked(@), !["cpu"] = Ticked(@)]
        /\ status' = IF Down(after) = {} THEN "active"
                     ELSE IF Loser(after) = "player" THEN "cpu_win" ELSE "player_win"
        /\ events' = EventsOf(fs, contacts)

(* A step after the round changes nothing but the events. *)
IdleStep ==
  /\ status # "active"
  /\ events' = {}
  /\ UNCHANGED <<fighter, status>>

(* A jump does not land in the step it starts in; of the hitboxes that are *)
(* live any may overlap the opponent.                                      *)
Next ==
  \/ \E input \in [Sides -> Pads], lands \in SUBSET {s \in Sides : ~fighter[s].grounded} :
       LET fs == Ready(input, lands)
       IN \E contacts \in SUBSET {s \in Sides : CanHit(fs, s)} : Step(fs, contacts)
  \/ IdleStep

Spec == Init /\ [][Next]_vars

(* The game loop keeps stepping: until the round is over there is always   *)
(* another step that changes something, as WF_vars(Next) would say.        *)
FairSpec == Spec /\ ([]<>(status # "active") \/ []<><<TRUE>>_vars)

-----------------------------------------------------------------------------
(* Properties *)

(* The round ends with the first knockout and with exactly one loser: the  *)
(* fighter without health.  Both never go down, whatever hits in one frame.*)
RoundIsDecided ==
  /\ \A s \in Sides : fighter[s].lost <=> fighter[s].health = 0
  /\ \A s \in Sides : fighter[s].lost => fighter[s].state = "ko"
  /\ status = "active" <=> \A s \in Sides : ~fighter[s].lost
  /\ status = "player_win" <=> fighter["cpu"].lost
  /\ status = "cpu_win" <=> fighter["player"].lost

(* One execution of a move hits at most once, through all its active       *)
(* frames and however long hitstop freezes it.                             *)
OneHitPerMove == \A s \in Sides : fighter[s].hits <= 1

(* A pose that refuses input is backed by what will end it: a counter or a *)
(* move.  No order of hits, blocks and expiring stuns leaves one behind.   *)
PosesRunOut ==
  \A s \in Sides :
    /\ fighter[s].state = "hitstun" => fighter[s].stun > 0
    /\ fighter[s].state = "blockstun" => fighter[s].blockstun > 0
    /\ fighter[s].state = "attack" => fighter[s].move # None

Locked(f) == f.stun > 0 \/ f.blockstun > 0 \/ f.hitstop > 0

(* A fighter that is stunned, frozen or down starts no move and no jump,   *)
(* also when an older stun has already given its pose back.                *)
NoActionWhileStunned ==
  [][\A s \in Sides :
       LET f == fighter[s]
           g == fighter'[s]
       IN Locked(f) \/ f.lost =>
            /\ g.move # None => g.move = f.move /\ g.elapsed >= f.elapsed
            /\ f.grounded => g.grounded
            /\ g.airJumps <= f.airJumps]_vars

(* Nobody is locked out for ever: a fighter that is stunned or frozen gets *)
(* free, or the round ends; hits prolong each other only as long as        *)
(* somebody has health to lose.                                            *)
LocksEnd == \A s \in Sides : Locked(fighter[s]) ~> ~Locked(fighter[s]) \/ status # "active"
=============================================================================
