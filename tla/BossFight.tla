------------------------------ MODULE BossFight ------------------------------
(***************************************************************************)
(* The fight as it is played: the CPU side of CombatEngine is driven by    *)
(* BogdanoffBossBrain of packages/sim/src/cpu, which decides on the state  *)
(* before each step, holds a decision for reactionFrames and counts how    *)
(* long the player has been blocking.                                      *)
(*                                                                         *)
(* Every rng.chance may go either way, and the distance of the fighters,   *)
(* which is left to Pushboxes, may be anything.  maybeReseed and reset do  *)
(* nothing within a match but choose the random numbers.                   *)
(***************************************************************************)
EXTENDS CombatEngine

CONSTANTS BossMoves,       \* the boss's moves by what the brain presses them for
          ReactionFrames,  \* profile.reactionFrames
          PassiveBlock     \* CPU_PASSIVE_BLOCK_FRAMES

Purposes == {"punish", "strike", "special", "super"}

ASSUME BossAssumption ==
  /\ BossMoves \in [Purposes -> SUBSET Moves]
  /\ ReactionFrames \in Nat
  /\ PassiveBlock \in Nat \ {0}

VARIABLES released,  \* by side, up has been released since the last jump
          brain,     \* cooldown, heldInput, prevControllable and playerBlockStreak
          blocking,  \* runtimeFlags.blocking of the player
          stale      \* the boss has been locked since the held input was decided

bossVars == <<fighter, status, events, released, brain, blocking, stale>>

Brain ==
  [cooldown : 0..ReactionFrames, held : Inputs, controllable : BOOLEAN,
   streak : 0..PassiveBlock]

Neutral == [block |-> FALSE, up |-> FALSE, press |-> None]
Guard == [Neutral EXCEPT !.block = TRUE]
Attacks(purpose) == {[Neutral EXCEPT !.press = m] : m \in BossMoves[purpose]}

(* close: within CPU_CLOSE_RANGE; reach: not much farther; special: within *)
(* CPU_SPECIAL_RANGE.                                                      *)
Distances == {"close", "reach", "special", "far"}

-----------------------------------------------------------------------------
(* The decision *)

Recovering(f) ==
  f.move # None /\ f.elapsed >= Data[f.move].startup + Data[f.move].active

Threatening(f) == f.state = "attack" /\ f.move # None /\ ~Recovering(f)

(* The CPU's own stun and pose are no condition here: it can control. *)
Whiffing(f) == f.state = "attack" /\ Recovering(f)

(* updateTracking, up to the number chooseDecision asks for. *)
Streak(streak, f) ==
  IF f.state = "block" \/ blocking THEN AtMost(streak + 1, PassiveBlock) ELSE 0

(* The inputs chooseDecision may come to at a distance; walking is neutral *)
(* here.                                                                   *)
DecisionsAt(dist, f, streak) ==
  UNION {
    IF ~Whiffing(f) THEN {} ELSE IF dist \in {"close", "reach"} THEN Attacks("punish") ELSE {Neutral},
    IF streak >= PassiveBlock THEN Attacks("super") ELSE {},
    CASE dist = "close"                -> Attacks("strike") \cup Attacks("special") \cup {Guard, Neutral}
      [] dist \in {"reach", "special"} -> Attacks("special") \cup {Neutral}
      [] dist = "far"                  -> {Neutral}}

Decisions(f, streak) == UNION {DecisionsAt(dist, f, streak) : dist \in Distances}

(* Bug: the cooldown of the last decision outlives a stun.                 *)
LagsThroughStun(b) == b.cooldown > 0

(* Reaction lag, unless the fighter was locked at the last step.           *)
Lagging(b) == b.controllable /\ b.cooldown > 0

Decide(input) ==
  LET streak == Streak(brain.streak, fighter["player"])
  IN /\ CanControl(fighter["cpu"])
     /\ ~Lagging(brain)
     /\ input \in Decisions(fighter["player"], streak)
     /\ brain' = [cooldown |-> ReactionFrames, held |-> input, controllable |-> TRUE,
                  streak |-> streak]
     /\ stale' = FALSE

(* Bug: a held decision is never given up.                                 *)
HoldForever(input) ==
  /\ CanControl(fighter["cpu"])
  /\ Lagging(brain)
  /\ input = brain.held
  /\ UNCHANGED <<brain, stale>>

Hold(input) ==
  /\ CanControl(fighter["cpu"])
  /\ Lagging(brain)
  /\ input = brain.held
  /\ brain' = [brain EXCEPT !.cooldown = @ - 1]
  /\ UNCHANGED stale

Wait(input) ==
  /\ ~CanControl(fighter["cpu"])
  /\ input = Neutral
  /\ brain' = [brain EXCEPT !.controllable = FALSE]
  /\ stale' = TRUE

(* The player's flag follows block where movement input is read, and every *)
(* hit taken or guarded clears it.                                         *)
Flagged(input) ==
  LET f == Advanced(fighter["player"])
  IN CASE \E e \in events' : e.by = "cpu" -> FALSE
       [] f.move # None \/ (input.press # None /\ CanStart(f, input.press)) -> blocking
       [] OTHER -> input.block /\ f.grounded

-----------------------------------------------------------------------------
BossInit ==
  /\ Init
  /\ released = [s \in Sides |-> TRUE]
  /\ brain = [cooldown |-> 0, held |-> Neutral, controllable |-> TRUE, streak |-> 0]
  /\ blocking = FALSE
  /\ stale = FALSE

Jumps(s) ==
  \/ fighter[s].grounded /\ ~fighter'[s].grounded
  \/ fighter'[s].airJumps > fighter[s].airJumps

Record(input) ==
  released' = [s \in Sides |-> ~Jumps(s) /\ (released[s] \/ ~input[s].up)]

(* One frame of the match: the brain decides, then both inputs are played. *)
Frame(player, cpu) ==
  LET input == [s \in Sides |-> IF s = "player" THEN player ELSE cpu]
  IN \E lands \in SUBSET {s \in Sides : ~fighter[s].grounded} :
       LET fs == Ready(input, lands)
       IN \E contacts \in SUBSET {s \in Sides : CanHit(fs, s)} : Step(fs, contacts) /\ Record(input)

BossNext ==
  \/ /\ status = "active"
     /\ \E cpu \in Inputs :
          /\ Decide(cpu) \/ Hold(cpu) \/ Wait(cpu)
          /\ \E player \in Pads : Frame(player, cpu) /\ blocking' = Flagged(player)
  \/ IdleStep /\ UNCHANGED <<released, brain, blocking, stale>>

BossSpec == BossInit /\ [][BossNext]_bossVars

(* The game loop plays frames until the round is over. *)
FairBossSpec == BossSpec /\ ([]<>(status # "active") \/ []<><<TRUE>>_bossVars)

-----------------------------------------------------------------------------
(* Properties *)

(* movement.ts: a jump in the air needs up to have been released since the *)
(* jump before it, through moves, freezes and stuns.                       *)
AirJumpsAreFresh ==
  [][\A s \in Sides :
       fighter'[s].airJumps > fighter[s].airJumps => released[s]]_bossVars

(* bogdanoff-brain.ts: after an attack, a stun or a freeze the brain makes *)
(* a fresh decision; an input decided before it is never played after it.  *)
HeldInputIsFresh ==
  [][brain'.cooldown < brain.cooldown => ~stale /\ CanControl(fighter["cpu"])]_bossVars

(* However the player strikes and blocks, the boss comes to a fresh        *)
(* decision again and again until the round is over: stuns, freezes, its   *)
(* own moves and the reaction lag all end.                                 *)
Freshly == brain'.cooldown > brain.cooldown \/ (stale /\ ~stale')

BossKeepsDeciding == []<>(status # "active") \/ []<><<Freshly>>_bossVars
=============================================================================
