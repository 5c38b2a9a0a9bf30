----------------------------- MODULE RankedMatch -----------------------------
(* A ranked run from the input devices to the verdict of the API: the scene  *)
(* that steps the simulation and records every polled frame, the handle the  *)
(* shell suspends and aborts it by, the result it completes with, and the    *)
(* replay of the submitted evidence (the Verdict of VerificationBackend).    *)
(*                                                                           *)
(* Two games run on this path.  "rpr" is Rug Pull Rumble (FightScene and its *)
(* core) on an abstract deterministic match; "analog" is the fixture whose   *)
(* simulation reads an axis (dev-fixtures/analog-game.ts and core.ts),       *)
(* which records with the same recorder.                                     *)
(* Devices do not change within one update, which runs in one turn.          *)
EXTENDS TraceCodec

CONSTANTS
  RprSchema, AnalogSchema,   \* RPR_INPUT_DEFINITION, ANALOG_INPUT
  MaxFrames,       \* RPR_MAX_TRACE_FRAMES and the fixture's maxFrames
  RawFrames,       \* per game, what its merged device sources may report
  Start,           \* new RprMatch(seed)
  Advance(_, _),   \* RprMatch.step; the CPU's seeded input is part of it
  Over(_),         \* state.status is not "active"
  StepMs,          \* SIM_STEP_MS, in clock units
  MaxSteps,        \* MAX_STEPS_PER_FRAME
  KoDelay,         \* KO_RESULT_DELAY_MS
  FinishFrames,    \* the fixture's shortest landing
  Deltas,          \* render deltas, in clock units
  Reasons,         \* SuspensionReason
  MaxAlterations   \* bound on the changes to submitted evidence

ASSUME StepsAssumption ==
  /\ MaxFrames \in Nat \ {0}
  /\ StepMs \in Nat \ {0}
  /\ MaxSteps \in Nat \ {0}
  /\ KoDelay \in Nat
  /\ FinishFrames \in Nat
  /\ Deltas \subseteq Nat \ {0}
  /\ MaxAlterations \in Nat

VARIABLES
  game,         \* which game was launched
  match,        \* the live simulation state
  recorder,     \* TraceRecorder.frames
  scene,        \* accumulator, stage of the scene and elapsed KO timer
  handle,       \* ArcadeGameHandle: suspended reasons, game.isPaused
  aborted,      \* ctx.signal.aborted; its listener destroys the game
  completion,   \* {} or the one result passed to ctx.complete
  submitted     \* {} or the evidence at the API, with its verdict

vars == <<game, match, recorder, scene, handle, aborted, completion, submitted>>

Games == {"rpr", "analog"}

SchemaOf(g) == IF g = "rpr" THEN RprSchema ELSE AnalogSchema

LimitsOf(g) ==
  [minFrames |-> 1, maxFrames |-> MaxFrames,
   maxBytes |-> TraceByteLength(SchemaOf(g), MaxFrames)]

ASSUME SchemasAssumption == ValidSchema(RprSchema) /\ ValidSchema(AnalogSchema)

(* The frame count is a uint32. *)
ASSUME CeilingAssumption == MaxFrames < Radix * Radix * Radix * Radix

ASSUME RawFramesAssumption ==
  \A g \in Games : \A raw \in RawFrames[g] :
    /\ raw.buttons \in [DOMAIN raw.buttons -> BOOLEAN]
    /\ raw.axes \in [DOMAIN raw.axes -> Int]

(* A match starts active. *)
ASSUME StartAssumption == ~Over(Start)

-----------------------------------------------------------------------------
(* The simulations *)

Held(frame, name) ==
  IF name \in DOMAIN frame.buttons /\ frame.buttons[name] THEN 1 ELSE 0

Acts == {"block", "lightHigh", "lightLow", "heavyHigh", "heavyLow", "special", "super"}

(* InputMapper.poll of a frame: mapRawInput of frameToRaw. *)
MapRawInput(frame) ==
  [horizontal |-> Held(frame, "right") - Held(frame, "left"),
   vertical |-> Held(frame, "down") - Held(frame, "up"),
   acts |-> {a \in Acts : Held(frame, a) = 1}]

(* The verifier's own reading of a decoded frame. *)
DecodeRprTraceFrame(frame) ==
  [horizontal |-> Held(frame, "right") - Held(frame, "left"),
   vertical |-> Held(frame, "down") - Held(frame, "up"),
   acts |-> {a \in Acts : Held(frame, a) = 1}]

(* stepAnalog; distances in raw axis units. *)
StepAnalog(m, buttons, axes) ==
  [frame |-> m.frame + 1,
   distance |-> m.distance + FoldSet(LAMBDA x, d : d + (IF axes[x] < 0 THEN -axes[x] ELSE axes[x]),
                                     0, DOMAIN axes),
   finished |-> buttons["finish"]]

Opening(g) ==
  IF g = "rpr" THEN Start ELSE [frame |-> 0, distance |-> 0, finished |-> FALSE]

(* A canonical axis value as the simulation reads it. *)
Axes(frame) == [x \in DOMAIN frame.axes |-> AxisFine * frame.axes[x]]

(* One step of the live game on the frame its source returned. *)
Live(g, m, frame) ==
  IF g = "rpr" THEN Advance(m, MapRawInput(frame))
  ELSE StepAnalog(m, frame.buttons, Axes(frame))

(* One step of the replay on a decoded frame. *)
Replayed(g, m, frame) ==
  IF g = "rpr" THEN Advance(m, DecodeRprTraceFrame(frame))
  ELSE StepAnalog(m, frame.buttons, Axes(frame))

(* The states a replay of the frames goes through. *)
Course(g, frames) ==
  LET state[k \in 0..Len(frames)] ==
        IF k = 0 THEN Opening(g) ELSE Replayed(g, state[k - 1], frames[k])
  IN  state

(* The scene stops stepping. *)
Ended(g, m) ==
  IF g = "rpr" THEN Over(m)
  ELSE (m.finished /\ m.frame >= FinishFrames) \/ m.frame >= MaxFrames

-----------------------------------------------------------------------------
(* TraceRecorder and the update loops *)

(* TraceRecorder.record throws. *)
RecordThrows(g, frames, raw) ==
  Len(frames) >= MaxFrames \/ Undeclared(SchemaOf(g), raw)

(* Bug: the simulation reads the device, the recorder its canonical frame. *)
RawStep(g, p, raw) ==
  LET frame == Canonicalized(SchemaOf(g), raw)
  IN  [p EXCEPT !.match = IF g = "rpr" THEN Advance(p.match, MapRawInput(frame))
                          ELSE StepAnalog(p.match, frame.buttons, raw.axes),
                !.frames = Append(p.frames, frame)]

(* The source is read: the canonical frame is recorded and simulated. *)
RecordedStep(g, p, raw) ==
  LET frame == Canonicalized(SchemaOf(g), raw)
  IN  [p EXCEPT !.match = Live(g, p.match, frame),
                !.frames = Append(p.frames, frame)]

(* Bug: the loop does not break on the terminal step. *)
NeverBreaks(g, p) == FALSE

(* A step that ends the run leaves the loop. *)
Breaks(g, p) == Ended(g, p.match)

(* What is left when update() has run its steps.  The accumulator is paid    *)
(* for after the step in FightScene, before it in the fixture: it matters    *)
(* when the recorder throws.                                                 *)
AfterSteps(g, raw, from) ==
  LET loop[k \in 0..MaxSteps] ==
        IF k = 0 THEN from
        ELSE LET p == loop[k - 1]
             IN  IF p.threw \/ p.acc < StepMs \/ (k > 1 /\ Breaks(g, p)) THEN p
                 ELSE IF RecordThrows(g, p.frames, raw)
                 THEN [p EXCEPT !.threw = TRUE,
                                !.acc = IF g = "rpr" THEN @ ELSE @ - StepMs]
                 ELSE [RecordedStep(g, p, raw) EXCEPT !.acc = @ - StepMs]
  IN  loop[MaxSteps]

Smaller(m, n) == IF m < n THEN m ELSE n

(* FightScene caps the accumulator, the fixture the delta (at 100 ms, more   *)
(* than the steps of one update).                                            *)
Accumulated(g, acc, delta) ==
  IF g = "rpr" THEN Smaller(acc + delta, MaxSteps * StepMs)
  ELSE acc + Smaller(delta, (MaxSteps + 1) * StepMs)

Encoding(g, frames) == EncodeError(SchemaOf(g), frames, LimitsOf(g))

-----------------------------------------------------------------------------
Init ==
  /\ game \in Games
  /\ match = Opening(game)
  /\ recorder = <<>>
  /\ scene = [acc |-> 0, stage |-> "playing", timer |-> 0]
  /\ handle = [suspended |-> {}, paused |-> FALSE]
  /\ aborted = FALSE
  /\ completion = {}
  /\ submitted = {}

(* Phaser steps its scenes: a paused game returns, one that is to be         *)
(* destroyed is destroyed instead.                                           *)
GameRuns == ~handle.paused /\ ~aborted

(* update() while the run goes on.  On its end FightScene starts the KO      *)
(* timer; the fixture packs at once and waits for the result's digest.       *)
Update(delta, raw) ==
  /\ GameRuns
  /\ scene.stage = "playing"
  /\ LET from == [match |-> match, frames |-> recorder, threw |-> FALSE,
                  acc |-> Accumulated(game, scene.acc, delta)]
         p == AfterSteps(game, raw, from)
         next == IF p.frames = recorder \/ ~Ended(game, p.match) THEN "playing"
                 ELSE IF game = "rpr" THEN "settled"
                 ELSE IF Encoding(game, p.frames) = "none" THEN "deriving" ELSE "failed"
     IN  /\ match' = p.match
         /\ recorder' = p.frames
         /\ scene' = [scene EXCEPT !.acc = p.acc, !.stage = next]
  /\ UNCHANGED <<game, handle, aborted, completion, submitted>>

(* The scene clock of a later update runs the KO timer, which calls          *)
(* reportResult; its first look at the signal finds it alive.                *)
KoTimer(delta) ==
  /\ GameRuns
  /\ scene.stage = "settled"
  /\ scene' = [scene EXCEPT !.timer = Smaller(@ + delta, KoDelay),
                            !.stage = IF scene.timer + delta >= KoDelay
                                        THEN "deriving" ELSE "settled"]
  /\ UNCHANGED <<game, match, recorder, handle, aborted, completion, submitted>>

Wanted == ~aborted

(* RPR derives its result from the live state, the fixture from the bytes.   *)
(* The digest of the terminal state stands for the state.                    *)
Claim(bytes) ==
  IF game = "rpr" THEN match
  ELSE Course(game, Decoded(AnalogSchema, bytes))[CountOf(bytes)]

(* The digest resolves, at any time, also while the game is paused.          *)
(* FightScene packs the trace only now; a throwing pack completes nothing.   *)
Report ==
  /\ scene.stage = "deriving"
  /\ \/ /\ Wanted
        /\ Encoding(game, recorder) = "none"
        /\ completion' = {[claim |-> Claim(bytes), bytes |-> bytes] :
                             bytes \in {Encoded(SchemaOf(game), recorder)}}
        /\ scene' = [scene EXCEPT !.stage = "reported"]
     \/ /\ ~(Wanted /\ Encoding(game, recorder) = "none")
        /\ completion' = completion
        /\ scene' = [scene EXCEPT !.stage = "failed"]
  /\ UNCHANGED <<game, match, recorder, handle, aborted, submitted>>

(* ArcadeGameHandle.suspend and resume; both are ignored once destroyed. *)
Suspend(reason) ==
  /\ ~aborted
  /\ handle' = [suspended |-> handle.suspended \cup {reason}, paused |-> TRUE]
  /\ UNCHANGED <<game, match, recorder, scene, aborted, completion, submitted>>

(* Bug: any reason that goes away resumes the game. *)
ResumesAtOnce(reason) == FALSE

StaysPaused(reason) == handle.paused /\ handle.suspended \ {reason} # {}

Resume(reason) ==
  /\ ~aborted
  /\ handle' = [suspended |-> handle.suspended \ {reason}, paused |-> StaysPaused(reason)]
  /\ UNCHANGED <<game, match, recorder, scene, aborted, completion, submitted>>

(* The shell aborts the signal; its listener destroys the game. *)
Abort ==
  /\ ~aborted
  /\ aborted' = TRUE
  /\ UNCHANGED <<game, match, recorder, scene, handle, completion, submitted>>

-----------------------------------------------------------------------------
(* The evidence at the API *)

Submission(bytes, claim, altered) ==
  [bytes |-> bytes, claim |-> claim, altered |-> altered, verdict |-> "none"]

(* The shell submits what the game completed with. *)
Submit ==
  /\ submitted = {}
  /\ \E done \in completion : submitted' = {Submission(done.bytes, done.claim, 0)}
  /\ UNCHANGED <<game, match, recorder, scene, handle, aborted, completion>>

(* Evidence that differs from what was recorded: a byte changed, cut or      *)
(* added, or a neutral frame added, or the last one dropped, with its count. *)
Alterations(schema, bytes) ==
  LET width == FrameByteLength(schema)
      recount(n, body) == <<bytes[1]>> \o CountBytes(n) \o body
      body == SubSeq(bytes, HeaderBytes + 1, Len(bytes))
  IN  {[bytes EXCEPT ![i] = v] : i \in DOMAIN bytes, v \in Byte}
        \cup {Append(bytes, v) : v \in Byte}
        \cup {SubSeq(bytes, 1, Len(bytes) - 1) : i \in DOMAIN bytes}
        \cup (IF Len(bytes) < HeaderBytes + width THEN {}
              ELSE {recount(CountOf(bytes) + 1, body \o [j \in 1..width |-> 0]),
                    recount(CountOf(bytes) - 1, SubSeq(body, 1, Len(body) - width))})

Alter ==
  \E post \in submitted :
    /\ post.verdict = "none"
    /\ post.altered < MaxAlterations
    /\ \E bytes \in Alterations(SchemaOf(game), post.bytes) :
         submitted' = {Submission(bytes, post.claim, post.altered + 1)}
    /\ UNCHANGED <<game, match, recorder, scene, handle, aborted, completion>>

(* replayRprInputs finds input after the terminal frame. *)
TrailingInput(g, course, n) == g = "rpr" /\ \E k \in 0..(n - 1) : Over(course[k])

IncompleteTrace(g, course, n) == g = "rpr" /\ ~Over(course[n])

(* validateEvidence refuses; verify replays and the claim is compared.       *)
VerdictOn(g, bytes, claim) ==
  LET frames == Decoded(SchemaOf(g), bytes)
      course == Course(g, frames)
  IN  IF DecodeError(SchemaOf(g), bytes, LimitsOf(g)) # "none" THEN "invalid"
      ELSE IF \/ TrailingInput(g, course, Len(frames))
              \/ IncompleteTrace(g, course, Len(frames))
              \/ course[Len(frames)] # claim
      THEN "refuted" ELSE "match"

Verify ==
  \E post \in submitted :
    /\ post.verdict = "none"
    /\ submitted' = {[post EXCEPT !.verdict = VerdictOn(game, post.bytes, post.claim)]}
    /\ UNCHANGED <<game, match, recorder, scene, handle, aborted, completion>>

-----------------------------------------------------------------------------
Next ==
  \/ \E delta \in Deltas, raw \in RawFrames[game] : Update(delta, raw)
  \/ \E delta \in Deltas : KoTimer(delta)
  \/ Report
  \/ \E reason \in Reasons : Suspend(reason) \/ Resume(reason)
  \/ Abort
  \/ Submit
  \/ Alter
  \/ Verify

Spec == Init /\ [][Next]_vars

(* The browser keeps calling the game loop, and the digest resolves. *)
FairSpec ==
  /\ Spec
  /\ WF_vars(\E delta \in Deltas : KoTimer(delta))
  /\ WF_vars(Report)

-----------------------------------------------------------------------------
(* Properties *)

Stages == {"playing", "settled", "deriving", "reported", "failed"}

TypeOK ==
  /\ game \in Games
  /\ Len(recorder) <= MaxFrames
  /\ \A i \in DOMAIN recorder :
       /\ recorder[i].buttons \in [ToSet(SchemaOf(game).buttons) -> BOOLEAN]
       /\ recorder[i].axes \in [ToSet(SchemaOf(game).axes) -> -AxisScale..AxisScale]
  /\ scene \in [acc : Nat, stage : Stages, timer : 0..KoDelay]
  /\ handle \in [suspended : SUBSET Reasons, paused : BOOLEAN]
  /\ aborted \in BOOLEAN
  /\ \A done \in completion : done.bytes \in Seq(Byte)
  /\ \A post \in submitted :
       /\ post.bytes \in Seq(Byte)
       /\ post.verdict \in {"none", "invalid", "refuted", "match"}

(* What was recorded is what was simulated: replaying the recorder's frames, *)
(* across stalls, suspensions and the throwing ceiling, gives the live state.*)
TraceIsTheMatch == Course(game, recorder)[Len(recorder)] = match

(* A run that was played to its end verifies: the evidence decodes, replays  *)
(* to its last frame and no further, and gives the claimed result.           *)
CompletionVerifies ==
  \A post \in submitted :
    post.altered = 0 => post.verdict \in {"none", "match"}

(* Evidence the API accepts is exact: byte for byte it is the one encoding   *)
(* of the frames it decodes to, and a fight is decided by its last frame and *)
(* by no earlier one.                                                        *)
AcceptedEvidenceIsExact ==
  \A post \in submitted :
    post.verdict = "match" =>
      LET schema == SchemaOf(game)
          frames == Decoded(schema, post.bytes)
      IN  /\ post.bytes = Encoded(schema, frames)
          /\ game = "rpr" => \A k \in 0..Len(frames) :
                               Over(Course(game, frames)[k]) <=> k = Len(frames)

(* A stopped game is still: while any reason to suspend remains no frame is  *)
(* simulated or recorded, so that suspension leaves no trace in the evidence,*)
(* and a run that was given up reports nothing, though its digest may resolve*)
(* after the abort.                                                          *)
StoppedGameIsStill ==
  [][/\ handle.suspended # {} => match' = match /\ recorder' = recorder
     /\ aborted => completion' = completion]_vars

(* A settled fight that does not stay suspended is reported unless aborted.  *)
SettledIsReported ==
  <>[](~handle.paused) => (scene.stage = "settled" ~> (completion # {} \/ aborted))
=============================================================================
