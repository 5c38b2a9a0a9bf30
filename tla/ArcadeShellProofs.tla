------------------------- MODULE ArcadeShellProofs -------------------------
(***************************************************************************)
(* The safety of the shell for any games, any number of operations and any *)
(* outcomes of what it waits for.                                          *)
(*                                                                         *)
(* What holds of a launch depends on whether it is in charge: one that is  *)
(* has the state of the shell to itself (InCharge); one that is not has    *)
(* been torn down, and only calls of destroy() may still wait for it       *)
(* (Retired).  So whoever resumes after a teardown finds the shell in a    *)
(* state from which it may move on, and a promise that settles late finds  *)
(* its launch aborted.                                                     *)
(***************************************************************************)
EXTENDS ArcadeShell, SequenceTheorems, TLAPS

LaunchKinds == {"LOADING_MODULE", "ACQUIRING_SESSION", "LAUNCHING", "PLAYING", "TEARING_DOWN"}

(* The first waiter may be anyone, those behind it are calls of destroy(). *)
Patient(w) == w \in Seq(Waiters) /\ \A n \in 2 .. Len(w) : w[n] = "destroy"

OnlyDestroys(w) == w \in Seq(Waiters) /\ \A n \in 1 .. Len(w) : w[n] = "destroy"

(* A launch by itself. *)
Sound(op) ==
  /\ op \in Launch
  /\ op.aborted = op.ending
  /\ op.ending <=> op.teardown # "none"
  /\ op.teardown = "running" => op.handle
  /\ op.teardown = "settled" => ~op.handle
  /\ op.accepted => op.at = "over"
  /\ Patient(op.waiters)
  /\ ~op.ending => op.waiters = <<>>
  /\ op.waiters # <<>> /\ op.waiters[1] = "complete" => op.accepted

(* The launch in charge while the shell is in state k: no await of it is   *)
(* in the past or the future of k, and a teardown has somebody waiting.    *)
InCharge(op, k) ==
  /\ op.ending <=> k = "TEARING_DOWN"
  /\ op.ending => op.waiters # <<>>
  /\ ~op.ending => /\ op.at = "loading" => k = "LOADING_MODULE"
                   /\ op.at = "session" => k = "ACQUIRING_SESSION"
                   /\ op.at \in {"ready", "resumed"} => k = "LAUNCHING"
  /\ op.accepted => nextId \in Ids

Retired(op) == op.teardown = "settled" /\ OnlyDestroys(op.waiters)

Charge ==
  /\ Launches \cap Results = {}
  /\ current \in Launches \cup Results \cup {0}
  /\ current \in Launches <=> kind \in LaunchKinds
  /\ current \in Results <=> kind = "RESULTS"
  /\ kind # "COMPLETING"
  /\ \A i \in Launches :
       /\ Sound(launch[i])
       /\ i = current => InCharge(launch[i], kind)
       /\ i # current => Retired(launch[i])
       /\ i # current /\ current \in Launches => launch[i].waiters = <<>>

GamesAreHandled ==
  \A i \in Ids : game[i] = "live" <=> i \in Launches /\ launch[i].handle

ResultsFollow ==
  \A i \in Results : result[i].of \in Launches \ {current} /\ launch[result[i].of].accepted

IInv ==
  /\ TypeOK
  /\ NoTransitionThrows
  /\ Charge
  /\ GamesAreHandled
  /\ ResultsFollow
  /\ ResultsAreEarned
  /\ ScreenShowsState
  /\ GatesAreApplied

-----------------------------------------------------------------------------
(* Waiters *)

LEMMA FirstWaiter ==
  ASSUME NEW w \in Waiters
  PROVE  LET q == Append(<<>>, w) IN Patient(q) /\ q # <<>> /\ q[1] = w
<1> DEFINE q == Append(<<>>, w)
<1>1. <<>> \in Seq(Waiters) /\ Len(<<>>) = 0
  BY EmptySeq
<1>2. q \in Seq(Waiters) /\ q # <<>> /\ Len(q) = 1 /\ q[1] = w
  BY <1>1, AppendProperties
<1> HIDE DEF q
<1> QED BY <1>2 DEF Patient, q

LEMMA NextWaiter ==
  ASSUME NEW s, Patient(s), s # <<>>
  PROVE  LET q == Append(s, "destroy") IN Patient(q) /\ q # <<>> /\ q[1] = s[1]
<1> DEFINE q == Append(s, "destroy")
<1>1. s \in Seq(Waiters) /\ Len(s) \in Nat /\ Len(s) # 0
  BY EmptySeq, LenProperties DEF Patient
<1>2. /\ q \in Seq(Waiters) /\ q # <<>> /\ Len(q) = Len(s) + 1
      /\ \A n \in 1 .. Len(s) : q[n] = s[n]
      /\ q[Len(s) + 1] = "destroy"
  BY <1>1, AppendProperties DEF Waiters
<1> HIDE DEF q
<1>3. \A n \in 2 .. Len(q) : q[n] = "destroy"
  BY <1>1, <1>2 DEF Patient
<1> QED BY <1>1, <1>2, <1>3 DEF Patient, q

LEMMA PatientTail ==
  ASSUME NEW s, Patient(s), s # <<>>
  PROVE  OnlyDestroys(Tail(s)) /\ Head(s) = s[1] /\ s[1] \in Waiters
<1>1. s \in Seq(Waiters) /\ Len(s) \in Nat /\ Len(s) # 0
  BY EmptySeq, LenProperties DEF Patient
<1>2. /\ Tail(s) \in Seq(Waiters) /\ Len(Tail(s)) = Len(s) - 1
      /\ \A n \in 1 .. Len(Tail(s)) : Tail(s)[n] = s[n + 1]
  BY <1>1, HeadTailProperties
<1>3. s[1] \in Waiters
  BY <1>1, ElementOfSeq
<1> QED BY <1>1, <1>2, <1>3 DEF Patient, OnlyDestroys

LEMMA DestroysArePatient ==
  ASSUME NEW s, OnlyDestroys(s)
  PROVE  Patient(s) /\ (s # <<>> => s[1] = "destroy")
<1>1. s \in Seq(Waiters) /\ Len(s) \in Nat /\ (s # <<>> => Len(s) # 0)
  BY EmptySeq, LenProperties DEF OnlyDestroys
<1> QED BY <1>1 DEF Patient, OnlyDestroys

-----------------------------------------------------------------------------
(* Transitions: the ones that are used, one to three at a time. *)

May(from, to) == to = from \/ to \in Allowed[from]

LEMMA OneTransition ==
  ASSUME NEW a, Transition(<<a>>), ~threw, May(kind, a)
  PROVE  kind' = a /\ threw' = FALSE
<1> DEFINE kinds == <<a>>
<1>1. Len(kinds) = 1 /\ DOMAIN kinds = {1} /\ kinds[1] = a
  OBVIOUS
<1>2. Transition(kinds)
  OBVIOUS
<1> HIDE DEF kinds
<1> QED BY <1>1, <1>2 DEF Transition, May

LEMMA TwoTransitions ==
  ASSUME NEW a, NEW b, Transition(<<a, b>>), ~threw, May(kind, a), May(a, b)
  PROVE  kind' = b /\ threw' = FALSE
<1> DEFINE kinds == <<a, b>>
<1>1. Len(kinds) = 2 /\ DOMAIN kinds = {1, 2} /\ kinds[1] = a /\ kinds[2] = b
  OBVIOUS
<1>2. Transition(kinds)
  OBVIOUS
<1> HIDE DEF kinds
<1>3. /\ kind' = kinds[2]
      /\ threw' = \E n \in {1, 2} : LET from == IF n = 1 THEN kind ELSE kinds[n - 1]
                                   IN kinds[n] # from /\ kinds[n] \notin Allowed[from]
  BY <1>1, <1>2 DEF Transition
<1>4. 2 - 1 = 1
  OBVIOUS
<1> QED BY <1>1, <1>3, <1>4 DEF May

LEMMA ThreeTransitions ==
  ASSUME NEW a, NEW b, NEW c, Transition(<<a, b, c>>), ~threw,
         May(kind, a), May(a, b), May(b, c)
  PROVE  kind' = c /\ threw' = FALSE
<1> DEFINE kinds == <<a, b, c>>
<1>1. /\ Len(kinds) = 3 /\ DOMAIN kinds = {1, 2, 3}
      /\ kinds[1] = a /\ kinds[2] = b /\ kinds[3] = c
  OBVIOUS
<1>2. Transition(kinds)
  OBVIOUS
<1> HIDE DEF kinds
<1>3. /\ kind' = kinds[3]
      /\ threw' = \E n \in {1, 2, 3} : LET from == IF n = 1 THEN kind ELSE kinds[n - 1]
                                   IN kinds[n] # from /\ kinds[n] \notin Allowed[from]
  BY <1>1, <1>2 DEF Transition
<1>4. 2 - 1 = 1 /\ 3 - 1 = 2
  OBVIOUS
<1> QED BY <1>1, <1>3, <1>4 DEF May

LEMMA Concatenations ==
  ASSUME NEW S, NEW a \in S, NEW b \in S, NEW c \in S
  PROVE  /\ <<>> \o <<a>> = <<a>>
         /\ <<a>> \o <<b>> = <<a, b>>
         /\ <<a, b>> \o <<c>> = <<a, b, c>>
<1>1. <<>> \o <<a>> = <<a>> OBVIOUS
<1>2. <<a>> \o <<b>> = <<a,b>>
  <2>1. <<a>> \in Seq(S) /\ <<b>> \in Seq(S) /\ <<a, b>> \in Seq(S) OBVIOUS
  <2>2. /\ Len(<<a>>) = 1 /\ Len(<<b>>) = 1 /\ <<a>>[1] = a /\ <<b>>[1] = b
        /\ Len(<<a, b>>) = 2 /\ <<a, b>>[1] = a /\ <<a, b>>[2] = b OBVIOUS
  <2> DEFINE p == <<a>> q == <<b>> r == <<a, b>>
  <2> HIDE DEF p, q, r
  <2>3. /\ p \o q \in Seq(S) /\ Len(p \o q) = 2
        /\ (p \o q)[1] = a /\ (p \o q)[2] = b
    BY <2>1, <2>2, ConcatProperties DEF p, q
  <2>5. r \in Seq(S) /\ Len(r) = 2 /\ r[1] = a /\ r[2] = b BY <2>1, <2>2 DEF r
  <2>6. \A i \in 1 .. Len(p \o q) : (p \o q)[i] = r[i] BY <2>3, <2>5
  <2>4. p \o q = r BY <2>3, <2>5, <2>6, SeqEqual
  <2> QED BY <2>4 DEF p, q, r
<1>3. <<a,b>> \o <<c>> = <<a,b,c>>
  <2>1. <<a, b>> \in Seq(S) /\ <<c>> \in Seq(S) /\ <<a, b, c>> \in Seq(S) OBVIOUS
  <2>2. /\ Len(<<a, b>>) = 2 /\ Len(<<c>>) = 1 /\ <<a, b>>[1] = a /\ <<a, b>>[2] = b /\ <<c>>[1] = c
        /\ Len(<<a, b, c>>) = 3 /\ <<a, b, c>>[1] = a /\ <<a, b, c>>[2] = b /\ <<a, b, c>>[3] = c OBVIOUS
  <2> DEFINE p == <<a, b>> q == <<c>> r == <<a, b, c>>
  <2> HIDE DEF p, q, r
  <2>3. /\ p \o q \in Seq(S) /\ Len(p \o q) = 3
        /\ (p \o q)[1] = a /\ (p \o q)[2] = b /\ (p \o q)[3] = c
    BY <2>1, <2>2, ConcatProperties DEF p, q
  <2>5. r \in Seq(S) /\ Len(r) = 3 /\ r[1] = a /\ r[2] = b /\ r[3] = c BY <2>1, <2>2 DEF r
  <2>6. \A i \in 1 .. Len(p \o q) : (p \o q)[i] = r[i] BY <2>3, <2>5
  <2>4. p \o q = r BY <2>3, <2>5, <2>6, SeqEqual
  <2> QED BY <2>4 DEF p, q, r
<1> QED BY <1>1, <1>2, <1>3

(* What the table says of a launch in charge, and of the moves after it.   *)
LEMMA AllowedMoves ==
  /\ \A k \in LaunchKinds : May(k, "TEARING_DOWN")
  /\ May("COMPLETING", "TEARING_DOWN")
  /\ May("PLAYING", "COMPLETING") /\ May("LAUNCHING", "PLAYING")
  /\ May("LOADING_MODULE", "ACQUIRING_SESSION") /\ May("ACQUIRING_SESSION", "LAUNCHING")
  /\ \A k \in {"SELECTING", "ERROR", "TEARING_DOWN"} : May(k, "LOADING_MODULE")
  /\ May("RESULTS", "TEARING_DOWN") /\ May("ERROR", "SELECTING")
  /\ \A k \in {"SELECTING", "RESULTS", "ERROR", "DESTROYED"} :
       May("TEARING_DOWN", k) /\ May(k, "DESTROYED")
  /\ May("TEARING_DOWN", "DESTROYED")
BY DEF May, Allowed, LaunchKinds

-----------------------------------------------------------------------------
(* A launch by itself *)

(* A launch that is asked to end, for the first time or again by destroy().*)
LEMMA TornDownSound ==
  ASSUME NEW op, Sound(op), NEW waiter \in Waiters,
         op.ending => waiter = "destroy" /\ op.waiters # <<>>,
         waiter = "complete" => op.accepted
  PROVE  LET t == TornDown(op, waiter)
         IN  /\ Sound(t) /\ t.ending /\ t.waiters # <<>>
             /\ t.game = op.game /\ t.at = op.at /\ t.handle = op.handle
             /\ t.accepted = op.accepted
<1> DEFINE t == TornDown(op, waiter)
           q == Append(op.waiters, waiter)
<1>1. Patient(q) /\ q # <<>> /\ (q[1] = "complete" => op.accepted)
  <2>1. CASE op.ending
    BY <2>1, NextWaiter DEF Sound
  <2>2. CASE ~op.ending
    BY <2>2, FirstWaiter DEF Sound
  <2> QED BY <2>1, <2>2
<1>2. q \in Seq(Waiters)
  BY <1>1 DEF Patient
<1>3. op \in Launch /\ op.teardown \in {"none", "running", "settled"}
  BY DEF Sound, Launch
<1> HIDE DEF q
<1>4. /\ t \in Launch /\ t.ending = TRUE /\ t.aborted = TRUE /\ t.waiters = q
      /\ t.game = op.game /\ t.at = op.at /\ t.handle = op.handle /\ t.accepted = op.accepted
      /\ t.teardown = IF op.teardown # "none" THEN op.teardown
                      ELSE IF op.handle THEN "running" ELSE "settled"
  BY <1>2, <1>3 DEF TornDown, Launch, q
<1> HIDE DEF t
<1>5. Sound(t)
  BY <1>1, <1>3, <1>4 DEF Sound, Launch
<1> QED BY <1>1, <1>4, <1>5 DEF t

(* The edits that the handlers make of a launch.                           *)
LEMMA OverSound ==
  ASSUME NEW op, Sound(op)
  PROVE  Sound([op EXCEPT !.at = "over"])
BY DEF Sound, Launch

LEMMA NewLaunchSound ==
  ASSUME NEW g \in Games
  PROVE  Sound(NewLaunch(g)) /\ InCharge(NewLaunch(g), "LOADING_MODULE")
<1>1. <<>> \in Seq(Waiters) /\ Len(<<>>) = 0
  BY EmptySeq
<1> QED BY <1>1 DEF Sound, Launch, NewLaunch, InCharge, Patient

(* The caller at the head of a settled teardown goes on.                   *)
LEMMA PoppedSound ==
  ASSUME NEW op, Sound(op), op.teardown = "settled", op.waiters # <<>>
  PROVE  LET t == [op EXCEPT !.waiters = Tail(@)]
         IN  /\ Sound(t) /\ Retired(t)
             /\ t.game = op.game /\ t.at = op.at /\ t.handle = op.handle
             /\ t.accepted = op.accepted /\ t.ending = op.ending
<1> DEFINE t == [op EXCEPT !.waiters = Tail(@)]
           q == Tail(op.waiters)
<1>1. OnlyDestroys(q)
  BY PatientTail DEF Sound
<1>2. Patient(q) /\ (q # <<>> => q[1] = "destroy") /\ q \in Seq(Waiters)
  BY <1>1, DestroysArePatient DEF OnlyDestroys
<1> HIDE DEF q
<1>3. /\ t \in Launch /\ t.waiters = q /\ t.teardown = op.teardown
      /\ t.ending = op.ending /\ t.aborted = op.aborted
      /\ t.game = op.game /\ t.at = op.at /\ t.handle = op.handle /\ t.accepted = op.accepted
  BY <1>2 DEF Sound, Launch, q
<1> HIDE DEF t
<1>4. Sound(t) /\ Retired(t)
  BY <1>1, <1>2, <1>3 DEF Sound, Retired
<1> QED BY <1>3, <1>4 DEF t

-----------------------------------------------------------------------------
(* Two ways in which an action touches the shell *)

(* One launch changes, nobody takes the shell over from it.                *)
LEMMA AlteredKeeps ==
  ASSUME IInv, NEW i \in Launches, NEW op, Sound(op),
         launch' = [launch EXCEPT ![i] = op],
         launch[i].accepted => op.accepted,
         i = current => InCharge(op, kind') /\ kind' \in LaunchKinds,
         i # current => kind' = kind /\ Retired(op),
         i # current /\ current \in Launches => op.waiters = <<>>,
         threw' = FALSE,
         UNCHANGED <<current, nextId, result>>,
         away' \subseteq Reasons,
         game' \in [Ids -> {"none", "live", "gone"}],
         \A j \in Ids : game'[j] = "live" <=> IF j = i THEN op.handle ELSE game[j] = "live",
         screen' \in Screen,
         ScreenShowsState',
         GatesAreApplied'
  PROVE  IInv'
<1>1. /\ Launches' = Launches /\ Results' = Results
      /\ launch'[i] = op /\ \A j \in Launches \ {i} : launch'[j] = launch[j]
  BY DEF Launches, Results
<1>2. Launches \subseteq Ids
  BY BoundsAssumption DEF IInv, TypeOK, Launches, Ids
<1>3. op \in Launch /\ kind' \in Kinds
  BY DEF Sound, LaunchKinds, Kinds, IInv, TypeOK
<1>4. TypeOK'
  BY <1>1, <1>3 DEF IInv, TypeOK, Launches, Results, Kinds
<1>5. NoTransitionThrows'
  BY DEF NoTransitionThrows
<1>6. Charge'
  <2>1. /\ (Launches \cap Results = {})'
        /\ (current \in Launches \cup Results \cup {0})'
    BY <1>1 DEF IInv, Charge
  <2>2. /\ (current \in Launches <=> kind \in LaunchKinds)'
        /\ (current \in Results <=> kind = "RESULTS")'
        /\ (kind # "COMPLETING")'
    BY <1>1 DEF IInv, Charge, LaunchKinds
  <2>3. ASSUME NEW j \in Launches, j # i
        PROVE  (/\ Sound(launch[j])
                /\ j = current => InCharge(launch[j], kind)
                /\ j # current => Retired(launch[j])
                /\ j # current /\ current \in Launches => launch[j].waiters = <<>>)'
    <3>1. j = current => kind' = kind
      BY <2>3
    <3> QED BY <1>1, <2>3, <3>1 DEF IInv, Charge, InCharge, Retired
  <2>4. (/\ Sound(launch[i])
         /\ i = current => InCharge(launch[i], kind)
         /\ i # current => Retired(launch[i])
         /\ i # current /\ current \in Launches => launch[i].waiters = <<>>)'
    BY <1>1 DEF InCharge, Retired
  <2> QED BY <1>1, <2>1, <2>2, <2>3, <2>4 DEF Charge
<1>7. GamesAreHandled'
  BY <1>1, <1>2 DEF IInv, GamesAreHandled
<1>8. ResultsFollow'
  BY <1>1 DEF IInv, ResultsFollow
<1>9. ResultsAreEarned'
  <2>1. ASSUME NEW r \in Results
        PROVE  /\ r \notin DOMAIN launch'
               /\ launch'[result[r].of].accepted
               /\ launch'[result[r].of].at = "over"
               /\ \A j \in Results : result[j].of = result[r].of => r = j
    <3>1. result[r].of \in Launches /\ launch[result[r].of].accepted
      BY DEF IInv, ResultsFollow
    <3>2. op.accepted => op.at = "over"
      BY DEF Sound
    <3> QED BY <1>1, <3>1, <3>2 DEF IInv, ResultsAreEarned, Launches
  <2> QED BY <1>1, <2>1 DEF ResultsAreEarned
<1> QED BY <1>4, <1>5, <1>6, <1>7, <1>8, <1>9 DEF IInv

(* Whoever was in charge is no longer: nobody is, or a result.             *)
LEMMA ReleasedKeeps ==
  ASSUME IInv,
         Launches' = Launches,
         \A j \in Launches : /\ Sound(launch'[j]) /\ Retired(launch'[j])
                             /\ launch'[j].handle = launch[j].handle
                             /\ launch'[j].accepted = launch[j].accepted
                             /\ launch'[j].at = launch[j].at,
         Results \subseteq Results', Launches \cap Results' = {},
         Launches \cup Results' = 1 .. (nextId' - 1), nextId' \in 1 .. (MaxOps + 1),
         \A r \in Results' : /\ result'[r] \in ResultOp
                             /\ result'[r].of \in Launches
                             /\ launch[result'[r].of].accepted,
         \A r, s \in Results' : result'[r].of = result'[s].of => r = s,
         current' \in Results' \cup {0},
         kind' \in Kinds \ (LaunchKinds \cup {"COMPLETING"}),
         current' \in Results' <=> kind' = "RESULTS",
         threw' = FALSE,
         UNCHANGED <<game, away>>,
         screen' \in Screen,
         ScreenShowsState'
  PROVE  IInv'
<1>1. 0 \notin Launches
  BY DEF IInv, TypeOK, Launches
<1>2. current' \notin Launches
  BY <1>1
<1>3. TypeOK'
  <2>1. current' \in Ids \cup {0}
    BY BoundsAssumption DEF Ids
  <2> QED BY <2>1 DEF IInv, TypeOK, Launches, Results, Sound, Kinds
<1>4. NoTransitionThrows'
  BY DEF NoTransitionThrows
<1>5. Charge'
  BY <1>2 DEF Charge, LaunchKinds
<1>6. GamesAreHandled'
  BY DEF IInv, GamesAreHandled
<1>7. ResultsFollow'
  BY <1>2 DEF ResultsFollow
<1>8. ResultsAreEarned'
  <2>1. ASSUME NEW r \in Results'
        PROVE  /\ r \notin DOMAIN launch'
               /\ launch'[result'[r].of].accepted
               /\ launch'[result'[r].of].at = "over"
    <3>1. result'[r].of \in Launches /\ launch'[result'[r].of].accepted
      OBVIOUS
    <3> QED BY <3>1 DEF Launches, Sound
  <2> QED BY <2>1 DEF ResultsAreEarned
<1>9. GatesAreApplied'
  BY DEF GatesAreApplied, LaunchKinds
<1> QED BY <1>3, <1>4, <1>5, <1>6, <1>7, <1>8, <1>9 DEF IInv

-----------------------------------------------------------------------------
(* The start of a launch *)

LEMMA InitKeeps == Init => IInv
<1> SUFFICES ASSUME Init PROVE IInv
  OBVIOUS
<1>1. Launches = {} /\ Results = {}
  BY DEF Init, Launches, Results
<1>2. TypeOK
  <2>1. screen \in Screen /\ nextId \in 1 .. (MaxOps + 1) /\ 1 .. (nextId - 1) = {}
    BY BoundsAssumption DEF Init, Screen
  <2> QED BY <1>1, <2>1 DEF Init, TypeOK, Launches, Results, Kinds
<1>3. Charge
  BY <1>1 DEF Init, Charge, LaunchKinds
<1>4. ScreenShowsState
  BY DEF Init, ScreenShowsState
<1> QED
  BY <1>1, <1>2, <1>3, <1>4
  DEF Init, IInv, NoTransitionThrows, GamesAreHandled, ResultsFollow, ResultsAreEarned,
      GatesAreApplied

LEMMA Shown ==
  ASSUME NEW what, NEW i, Show(what, i), i \in Ids \cup {0},
         what \in {"selection", "pending", "surface", "results", "error", "nothing"}
  PROVE  screen' \in Screen /\ screen'.shows = what /\ screen'.of = i
         /\ screen' = [shows |-> what, of |-> i]
BY DEF Show, Screen

(* While nothing is due, a launch that is not in charge has no waiter.     *)
LEMMA QuietRetired ==
  ASSUME IInv, Quiet, NEW i \in Launches, i # current
  PROVE  launch[i].waiters = <<>>
BY DEF IInv, Charge, Retired, Quiet, Job, DueWaiter

LEMMA BeginLaunchKeeps ==
  ASSUME IInv, NEW g \in Games, BeginLaunch(g)
  PROVE  IInv'
<1> DEFINE new == nextId
<1>1. new \notin Launches \cup Results /\ new \in Ids /\ new # 0 /\ 0 \notin Launches
  BY DEF IInv, TypeOK, BeginLaunch, Launches, Results, Ids
<1>2. /\ Launches' = Launches \cup {new}
      /\ launch'[new] = NewLaunch(g)
      /\ \A j \in Launches : launch'[j] = launch[j]
  BY <1>1 DEF BeginLaunch, Extend, Launches
<1>3. /\ kind' = "LOADING_MODULE" /\ threw' = FALSE
      /\ kind \in {"SELECTING", "ERROR", "RESULTS"}
  <2>1. CASE kind \in {"SELECTING", "ERROR"} /\ Transition(<<"LOADING_MODULE">>)
    BY <2>1, OneTransition, AllowedMoves DEF IInv, NoTransitionThrows
  <2>2. CASE kind = "RESULTS" /\ Transition(<<"TEARING_DOWN", "LOADING_MODULE">>)
    BY <2>2, TwoTransitions, AllowedMoves DEF IInv, NoTransitionThrows
  <2> QED BY <2>1, <2>2 DEF BeginLaunch
<1>4. \A j \in Launches : /\ Sound(launch[j]) /\ Retired(launch[j])
                          /\ launch[j].waiters = <<>>
  BY <1>3, QuietRetired DEF IInv, Charge, LaunchKinds, BeginLaunch
<1>5. Results' = Results /\ \A r \in Results : result'[r].of = result[r].of
  BY DEF BeginLaunch, Results, IInv, TypeOK, ResultOp
<1>6. \A r \in Results : result'[r] \in ResultOp
  <2>1. \A r \in Results : result[r] \in ResultOp
    BY DEF IInv, TypeOK, Results
  <2>2. CASE result' = result
    BY <2>1, <2>2
  <2>3. CASE current \in Results /\ result' = [result EXCEPT ![current].aborted = TRUE]
    <3>1. [result[current] EXCEPT !.aborted = TRUE] \in ResultOp
      BY <2>1, <2>3 DEF ResultOp
    <3>2. \A r \in Results :
             result'[r] = IF r = current THEN [result[current] EXCEPT !.aborted = TRUE]
                          ELSE result[r]
      BY <2>3 DEF Results
    <3> QED BY <2>1, <3>1, <3>2
  <2> QED BY <2>2, <2>3 DEF BeginLaunch
<1>7. Sound(NewLaunch(g)) /\ InCharge(NewLaunch(g), "LOADING_MODULE")
  BY NewLaunchSound
<1>8. /\ current' = new /\ nextId' = new + 1 /\ game' = game /\ away' = away
      /\ Show("pending", new)
  BY DEF BeginLaunch
<1>9. NewLaunch(g).handle = FALSE /\ NewLaunch(g).accepted = FALSE
  BY DEF NewLaunch
<1> HIDE DEF new
<1>10. /\ screen' \in Screen /\ screen' = [shows |-> "pending", of |-> new]
  BY <1>1, <1>8, Shown
<1>11. TypeOK'
  <2>1. nextId' \in 1 .. (MaxOps + 1) /\ 1 .. (nextId' - 1) = (1 .. (nextId - 1)) \cup {new}
    BY <1>1, <1>8, BoundsAssumption DEF new, IInv, TypeOK, Ids
  <2>2. DOMAIN launch' \cup DOMAIN result' = 1 .. (nextId' - 1)
    BY <2>1, <1>2, <1>5 DEF IInv, TypeOK, Launches, Results
  <2>3. \A j \in Launches' : launch'[j] \in Launch
    BY <1>2, <1>4, <1>7 DEF Sound
  <2> QED BY <2>1, <2>2, <2>3, <1>1, <1>3, <1>5, <1>6, <1>8, <1>10
          DEF IInv, TypeOK, Launches, Results, Kinds
<1>12. Charge'
  <2>1. ASSUME NEW j \in Launches'
        PROVE  (/\ Sound(launch[j])
                /\ j = current => InCharge(launch[j], kind)
                /\ j # current => Retired(launch[j])
                /\ j # current /\ current \in Launches => launch[j].waiters = <<>>)'
    <3>1. CASE j = new
      <4>1. \A op : op.accepted = FALSE /\ InCharge(op, "LOADING_MODULE")
                    => InCharge(op, "LOADING_MODULE")'
        BY DEF InCharge
      <4> QED BY <3>1, <4>1, <1>2, <1>3, <1>7, <1>8, <1>9
    <3>2. CASE j # new
      BY <3>2, <1>2, <1>4, <1>8 DEF Retired
    <3> QED BY <3>1, <3>2
  <2>2. (Launches \cap Results = {})'
    BY <1>1, <1>2, <1>5 DEF IInv, Charge
  <2> QED BY <2>1, <2>2, <1>1, <1>2, <1>3, <1>5, <1>8 DEF Charge, LaunchKinds
<1>13. GamesAreHandled'
  BY <1>1, <1>2, <1>8, <1>9 DEF IInv, GamesAreHandled
<1>14. ResultsFollow'
  BY <1>1, <1>2, <1>5, <1>8 DEF IInv, ResultsFollow
<1>15. ResultsAreEarned'
  <2>1. ASSUME NEW r \in Results
        PROVE  /\ r \notin DOMAIN launch'
               /\ launch'[result'[r].of].accepted
               /\ launch'[result'[r].of].at = "over"
               /\ \A j \in Results : result'[j].of = result'[r].of => r = j
    BY <1>1, <1>2, <1>5 DEF IInv, ResultsAreEarned, ResultsFollow, Launches
  <2> QED BY <2>1, <1>5 DEF ResultsAreEarned
<1>16. ScreenShowsState'
  BY <1>3, <1>8, <1>10 DEF ScreenShowsState
<1>17. GatesAreApplied'
  BY <1>3 DEF GatesAreApplied
<1> QED
  BY <1>3, <1>11, <1>12, <1>13, <1>14, <1>15, <1>16, <1>17 DEF IInv, NoTransitionThrows

-----------------------------------------------------------------------------
(* The boot of a launch *)

(* A launch moves on by itself: it is over, its continuation is due, or it *)
(* has a contract failure to report.                                       *)
LEMMA UnmovedKeeps ==
  ASSUME IInv, NEW i \in Launches, NEW op, Sound(op),
         launch' = [launch EXCEPT ![i] = op],
         op.game = launch[i].game, op.handle = launch[i].handle,
         op.accepted = launch[i].accepted, op.ending = launch[i].ending,
         op.teardown = launch[i].teardown, op.waiters = launch[i].waiters,
         op.reasons = launch[i].reasons,
         \/ op.at \in {launch[i].at, "over"}
         \/ launch[i].at = "ready" /\ op.at = "resumed",
         Stay, UNCHANGED <<current, nextId, result, game, screen, away>>
  PROVE  IInv'
<1>1. /\ launch'[i] = op /\ \A j \in Launches \ {i} : launch'[j] = launch[j]
      /\ Launches' = Launches /\ Results' = Results
  BY DEF Launches, Results
<1>2. i = current => InCharge(op, kind') /\ kind' \in LaunchKinds
  BY DEF IInv, Charge, InCharge, Stay
<1>3. i # current => kind' = kind /\ Retired(op)
  BY DEF IInv, Charge, Retired, Stay
<1>4. i # current /\ current \in Launches => op.waiters = <<>>
  BY DEF IInv, Charge
<1>5. ScreenShowsState'
  BY <1>1 DEF IInv, ScreenShowsState, Stay
<1>6. GatesAreApplied'
  <2>1. kind = "PLAYING" => current \in Launches
    BY DEF IInv, Charge, LaunchKinds
  <2> QED BY <1>1, <2>1 DEF IInv, GatesAreApplied, Stay
<1>7. /\ game' \in [Ids -> {"none", "live", "gone"}] /\ screen' \in Screen
      /\ away' \subseteq Reasons /\ threw' = FALSE
      /\ \A j \in Ids : game'[j] = "live" <=> IF j = i THEN op.handle ELSE game[j] = "live"
  BY DEF IInv, TypeOK, Stay, NoTransitionThrows, GamesAreHandled
<1> QED BY <1>2, <1>3, <1>4, <1>5, <1>6, <1>7, AlteredKeeps

(* The launch in charge begins its teardown. *)
LEMMA EndedKeeps ==
  ASSUME IInv, NEW i \in Launches, i = current, NEW op, Sound(op), ~op.ending,
         NEW waiter \in Waiters, waiter = "complete" => op.accepted,
         launch' = [launch EXCEPT ![i] = TornDown(op, waiter)],
         launch[i].accepted => op.accepted,
         op.accepted => nextId \in Ids,
         kind' = "TEARING_DOWN", threw' = FALSE,
         UNCHANGED <<current, nextId, result, away>>,
         game' \in [Ids -> {"none", "live", "gone"}],
         \A j \in Ids : game'[j] = "live" <=> IF j = i THEN op.handle ELSE game[j] = "live",
         screen' \in Screen, screen'.of = current
  PROVE  IInv'
<1> DEFINE t == TornDown(op, waiter)
<1>1. /\ Sound(t) /\ t.ending /\ t.waiters # <<>>
      /\ t.handle = op.handle /\ t.accepted = op.accepted
  BY TornDownSound
<1> HIDE DEF t
<1>2. InCharge(t, kind') /\ kind' \in LaunchKinds
  BY <1>1 DEF InCharge, LaunchKinds
<1>3. ScreenShowsState' /\ GatesAreApplied'
  BY DEF ScreenShowsState, GatesAreApplied
<1>4. launch' = [launch EXCEPT ![i] = t]
  BY DEF t
<1>5. away' \subseteq Reasons
  BY DEF IInv, TypeOK
<1>6. \A j \in Ids : game'[j] = "live" <=> IF j = i THEN t.handle ELSE game[j] = "live"
  BY <1>1
<1>7. Sound(t) /\ (launch[i].accepted => t.accepted)
  BY <1>1
<1> QED BY <1>2, <1>3, <1>4, <1>5, <1>6, <1>7, AlteredKeeps

LEMMA EndTransitions ==
  ASSUME ~threw
  PROVE  /\ (kind \in LaunchKinds /\ Transition(<<>> \o <<"TEARING_DOWN">>))
              => kind' = "TEARING_DOWN" /\ threw' = FALSE
         /\ (/\ kind = "ACQUIRING_SESSION"
             /\ Transition((<<>> \o <<"LAUNCHING">>) \o <<"TEARING_DOWN">>))
              => kind' = "TEARING_DOWN" /\ threw' = FALSE
         /\ (/\ kind = "LOADING_MODULE"
             /\ Transition((<<"ACQUIRING_SESSION">> \o <<"LAUNCHING">>) \o <<"TEARING_DOWN">>))
              => kind' = "TEARING_DOWN" /\ threw' = FALSE
         /\ (kind = "PLAYING" /\ Transition(<<"COMPLETING">> \o <<"TEARING_DOWN">>))
              => kind' = "TEARING_DOWN" /\ threw' = FALSE
         /\ (kind = "ACQUIRING_SESSION" /\ Transition(<<>> \o <<"LAUNCHING">>))
              => kind' = "LAUNCHING" /\ threw' = FALSE
         /\ (kind = "LOADING_MODULE" /\ Transition(<<"ACQUIRING_SESSION">> \o <<"LAUNCHING">>))
              => kind' = "LAUNCHING" /\ threw' = FALSE
<1>1. /\ "TEARING_DOWN" \in Kinds /\ "LAUNCHING" \in Kinds /\ "ACQUIRING_SESSION" \in Kinds
      /\ "COMPLETING" \in Kinds
  BY DEF Kinds
<1>2. /\ <<>> \o <<"TEARING_DOWN">> = <<"TEARING_DOWN">>
      /\ <<"COMPLETING">> \o <<"TEARING_DOWN">> = <<"COMPLETING", "TEARING_DOWN">>
      /\ <<>> \o <<"LAUNCHING">> = <<"LAUNCHING">>
      /\ <<"ACQUIRING_SESSION">> \o <<"LAUNCHING">> = <<"ACQUIRING_SESSION", "LAUNCHING">>
  BY <1>1, Concatenations
<1>16. (<<>> \o <<"LAUNCHING">>) \o <<"TEARING_DOWN">> = <<"LAUNCHING", "TEARING_DOWN">>
  BY <1>1, <1>2, Concatenations
<1>17. (<<"ACQUIRING_SESSION">> \o <<"LAUNCHING">>) \o <<"TEARING_DOWN">>
         = <<"ACQUIRING_SESSION", "LAUNCHING", "TEARING_DOWN">>
  <2>1. <<"ACQUIRING_SESSION", "LAUNCHING">> \o <<"TEARING_DOWN">>
          = <<"ACQUIRING_SESSION", "LAUNCHING", "TEARING_DOWN">>
    BY <1>1, Concatenations
  <2> QED BY <1>2, <2>1
<1>3. "LAUNCHING" \in LaunchKinds /\ May("LAUNCHING", "TEARING_DOWN")
  BY AllowedMoves DEF LaunchKinds
<1>4. kind \in LaunchKinds /\ Transition(<<"TEARING_DOWN">>) => kind' = "TEARING_DOWN" /\ threw' = FALSE
  BY OneTransition, AllowedMoves
<1>5. kind = "ACQUIRING_SESSION" /\ Transition(<<"LAUNCHING", "TEARING_DOWN">>)
        => kind' = "TEARING_DOWN" /\ threw' = FALSE
  BY TwoTransitions, AllowedMoves, <1>3
<1>6. kind = "LOADING_MODULE" /\ Transition(<<"ACQUIRING_SESSION", "LAUNCHING", "TEARING_DOWN">>)
        => kind' = "TEARING_DOWN" /\ threw' = FALSE
  BY ThreeTransitions, AllowedMoves, <1>3
<1>7. kind = "PLAYING" /\ Transition(<<"COMPLETING", "TEARING_DOWN">>)
        => kind' = "TEARING_DOWN" /\ threw' = FALSE
  BY TwoTransitions, AllowedMoves
<1>8. kind = "ACQUIRING_SESSION" /\ Transition(<<"LAUNCHING">>) => kind' = "LAUNCHING" /\ threw' = FALSE
  BY OneTransition, AllowedMoves
<1>9. kind = "LOADING_MODULE" /\ Transition(<<"ACQUIRING_SESSION", "LAUNCHING">>)
        => kind' = "LAUNCHING" /\ threw' = FALSE
  BY TwoTransitions, AllowedMoves
<1>10. (kind \in LaunchKinds /\ Transition(<<>> \o <<"TEARING_DOWN">>))
         => kind' = "TEARING_DOWN" /\ threw' = FALSE
  BY <1>2, <1>4
<1>11. (kind = "ACQUIRING_SESSION" /\ Transition((<<>> \o <<"LAUNCHING">>) \o <<"TEARING_DOWN">>))
        => kind' = "TEARING_DOWN" /\ threw' = FALSE
  BY <1>16, <1>5
<1>12. (kind = "LOADING_MODULE" /\ Transition((<<"ACQUIRING_SESSION">> \o <<"LAUNCHING">>) \o <<"TEARING_DOWN">>))
        => kind' = "TEARING_DOWN" /\ threw' = FALSE
  BY <1>17, <1>6
<1>13. (kind = "PLAYING" /\ Transition(<<"COMPLETING">> \o <<"TEARING_DOWN">>))
         => kind' = "TEARING_DOWN" /\ threw' = FALSE
  BY <1>2, <1>7
<1>14. (kind = "ACQUIRING_SESSION" /\ Transition(<<>> \o <<"LAUNCHING">>))
         => kind' = "LAUNCHING" /\ threw' = FALSE
  BY <1>2, <1>8
<1>15. (kind = "LOADING_MODULE" /\ Transition(<<"ACQUIRING_SESSION">> \o <<"LAUNCHING">>))
         => kind' = "LAUNCHING" /\ threw' = FALSE
  BY <1>2, <1>9
<1> QED BY <1>10, <1>11, <1>12, <1>13, <1>14, <1>15

(* What is known of a launch that owns the shell. *)
LEMMA Owner ==
  ASSUME IInv, NEW i \in Launches, Owns(i)
  PROVE  /\ i = current /\ i \in Ids /\ i # 0
         /\ Sound(launch[i]) /\ ~launch[i].ending
         /\ launch[i].teardown = "none" /\ launch[i].waiters = <<>>
         /\ kind \in LaunchKinds \ {"TEARING_DOWN"} /\ screen.of = current /\ ~threw
         /\ launch[i].at = "loading" => kind = "LOADING_MODULE"
         /\ launch[i].at = "session" => kind = "ACQUIRING_SESSION"
         /\ launch[i].at \in {"ready", "resumed"} => kind = "LAUNCHING"
         /\ launch[i].accepted => launch[i].at = "over" /\ nextId \in Ids
<1>1. /\ Sound(launch[i]) /\ InCharge(launch[i], kind) /\ kind \in LaunchKinds
      /\ i = current /\ ~launch[i].aborted
  BY DEF IInv, Charge, Owns
<1>2. i \in Ids /\ i # 0
  BY BoundsAssumption DEF IInv, TypeOK, Launches, Ids
<1>3. ~launch[i].ending /\ launch[i].teardown = "none" /\ launch[i].waiters = <<>>
  BY <1>1 DEF Sound
<1>4. kind # "TEARING_DOWN"
  BY <1>1, <1>3 DEF InCharge
<1>5. screen.of = current
  <2>1. CASE kind \in {"LOADING_MODULE", "ACQUIRING_SESSION"}
    <3>1. screen = [shows |-> "pending", of |-> current]
      BY <2>1 DEF IInv, ScreenShowsState
    <3> QED BY <3>1
  <2>2. CASE kind \in {"LAUNCHING", "PLAYING"}
    <3>1. screen = [shows |-> "surface", of |-> current]
      BY <2>2 DEF IInv, ScreenShowsState
    <3> QED BY <3>1
  <2> QED BY <1>1, <1>4, <2>1, <2>2 DEF LaunchKinds
<1> QED BY <1>1, <1>2, <1>3, <1>4, <1>5 DEF InCharge, Sound, IInv, NoTransitionThrows

LEMMA AbandonKeeps ==
  ASSUME IInv, NEW i \in Launches, Abandon(i), UNCHANGED <<current, nextId, result, away>>
  PROVE  IInv'
<1>1. Sound(launch[i]) /\ launch[i] \in Launch
  BY DEF IInv, Charge, Sound
<1> DEFINE op == [launch[i] EXCEPT !.at = "over"]
<1>2. Sound(op)
  BY <1>1, OverSound
<1>3. /\ op.game = launch[i].game /\ op.handle = launch[i].handle
      /\ op.accepted = launch[i].accepted /\ op.ending = launch[i].ending
      /\ op.teardown = launch[i].teardown /\ op.waiters = launch[i].waiters
      /\ op.reasons = launch[i].reasons /\ op.at = "over"
  BY <1>1 DEF Launch
<1>4. launch' = [launch EXCEPT ![i] = op]
  BY DEF Abandon
<1>5. Stay /\ UNCHANGED <<game, screen>>
  BY DEF Abandon
<1> HIDE DEF op
<1> QED BY <1>2, <1>3, <1>4, <1>5, UnmovedKeeps

LEMMA FailLaunchKeeps ==
  ASSUME IInv, NEW i \in Launches, Owns(i), NEW op, Sound(op), ~op.ending, ~op.accepted,
         ~launch[i].accepted, NEW kinds, FailLaunch(i, op, kinds),
         Transition(kinds \o <<"TEARING_DOWN">>) => kind' = "TEARING_DOWN" /\ threw' = FALSE,
         UNCHANGED <<current, nextId, result, away>>,
         game' \in [Ids -> {"none", "live", "gone"}],
         \A j \in Ids : game'[j] = "live" <=> IF j = i THEN op.handle ELSE game[j] = "live",
         screen' \in Screen, screen'.of = current
  PROVE  IInv'
<1> DEFINE over == [op EXCEPT !.at = "over"]
<1>1. Sound(over)
  BY OverSound
<1>2. ~over.ending /\ ~over.accepted /\ over.handle = op.handle
  BY DEF Sound, Launch
<1>3. launch' = [launch EXCEPT ![i] = TornDown(over, "fail")] /\ kind' = "TEARING_DOWN" /\ threw' = FALSE
  BY DEF FailLaunch, EndLaunch
<1>4. "fail" \in Waiters /\ i = current
  BY DEF Waiters, Owns
<1> HIDE DEF over
<1> QED BY <1>1, <1>2, <1>3, <1>4, EndedKeeps

LEMMA CatchLaunchKeeps ==
  ASSUME IInv, NEW i \in Launches, Owns(i), launch[i].at # "over", NEW outcome,
         CatchLaunch(i, outcome), UNCHANGED <<current, nextId, result, game, screen, away>>
  PROVE  IInv'
<1>1. CASE launch' = [launch EXCEPT ![i].at = "over"] /\ Stay
  BY <1>1, AbandonKeeps DEF Abandon
<1>2. CASE FailLaunch(i, launch[i], <<>>)
  <2>1. Sound(launch[i]) /\ ~launch[i].ending /\ ~launch[i].accepted
    BY Owner
  <2>2. Transition(<<>> \o <<"TEARING_DOWN">>) => kind' = "TEARING_DOWN" /\ threw' = FALSE
    BY Owner, EndTransitions
  <2>3. /\ game' \in [Ids -> {"none", "live", "gone"}] /\ screen' \in Screen
        /\ screen'.of = current
        /\ \A j \in Ids : game'[j] = "live" <=> IF j = i THEN launch[i].handle ELSE game[j] = "live"
    BY Owner DEF IInv, TypeOK, GamesAreHandled
  <2> QED BY <1>2, <2>1, <2>2, <2>3, FailLaunchKeeps
<1> QED BY <1>1, <1>2 DEF CatchLaunch

LEMMA LaunchModuleKeeps ==
  ASSUME IInv, NEW i \in Launches, Owns(i), launch[i].at # "over",
         NEW op, Sound(op), op.game = launch[i].game, ~op.ending, ~op.accepted,
         op.handle = launch[i].handle,
         NEW kinds, LaunchModule(i, op, kinds),
         Transition(kinds \o <<"LAUNCHING">>) => kind' = "LAUNCHING" /\ threw' = FALSE,
         Transition((kinds \o <<"LAUNCHING">>) \o <<"TEARING_DOWN">>)
           => kind' = "TEARING_DOWN" /\ threw' = FALSE,
         UNCHANGED <<current, nextId, result, away>>
  PROVE  IInv'
<1>1. i = current /\ i \in Ids /\ ~launch[i].accepted
  BY Owner
<1>2. Show("surface", i) => screen' \in Screen /\ screen'.of = current
                            /\ screen' = [shows |-> "surface", of |-> current]
  BY <1>1, Shown
<1>3. /\ game \in [Ids -> {"none", "live", "gone"}]
      /\ \A j \in Ids : game[j] = "live" <=> j \in Launches /\ launch[j].handle
  BY DEF IInv, TypeOK, GamesAreHandled
<1> DEFINE held == [op EXCEPT !.handle = TRUE]
<1>4. /\ Sound(held) /\ ~held.ending /\ ~held.accepted /\ held.handle = TRUE
  BY DEF Sound, Launch
<1>5. CASE /\ launch' = [launch EXCEPT ![i] = [op EXCEPT !.at = "ready", !.handle = TRUE]]
           /\ game' = [game EXCEPT ![i] = "live"]
           /\ Transition(kinds \o <<"LAUNCHING">>)
           /\ Show("surface", i)
  <2> DEFINE ready == [op EXCEPT !.at = "ready", !.handle = TRUE]
  <2>1. /\ Sound(ready) /\ ~ready.ending /\ ~ready.accepted /\ ready.at = "ready"
        /\ ready.handle = TRUE
    BY DEF Sound, Launch
  <2>2. launch' = [launch EXCEPT ![i] = ready]
    BY <1>5
  <2> HIDE DEF ready
  <2>3. kind' = "LAUNCHING" /\ threw' = FALSE
    BY <1>5
  <2>4. InCharge(ready, kind') /\ kind' \in LaunchKinds
    BY <2>1, <2>3 DEF InCharge, LaunchKinds
  <2>5. ScreenShowsState' /\ GatesAreApplied'
    BY <1>2, <1>5, <2>3 DEF ScreenShowsState, GatesAreApplied
  <2>6. /\ game' \in [Ids -> {"none", "live", "gone"}] /\ away' \subseteq Reasons
        /\ \A j \in Ids : game'[j] = "live" <=> IF j = i THEN ready.handle ELSE game[j] = "live"
    BY <1>3, <1>5, <2>1 DEF IInv, TypeOK
  <2> QED BY <1>1, <1>2, <1>5, <2>1, <2>2, <2>3, <2>4, <2>5, <2>6, AlteredKeeps
<1>6. CASE /\ FailLaunch(i, op, kinds \o <<"LAUNCHING">>)
           /\ Show("surface", i)
           /\ UNCHANGED game
  <2>1. /\ game' \in [Ids -> {"none", "live", "gone"}]
        /\ \A j \in Ids : game'[j] = "live" <=> IF j = i THEN op.handle ELSE game[j] = "live"
    BY <1>3, <1>6
  <2> QED BY <1>1, <1>2, <1>6, <2>1, FailLaunchKeeps
<1>7. CASE /\ FailLaunch(i, [op EXCEPT !.handle = TRUE], kinds \o <<"LAUNCHING">>)
           /\ game' = [game EXCEPT ![i] = "live"]
           /\ Show("surface", i)
  <2>1. /\ game' \in [Ids -> {"none", "live", "gone"}]
        /\ \A j \in Ids : game'[j] = "live" <=> IF j = i THEN held.handle ELSE game[j] = "live"
    BY <1>3, <1>4, <1>7
  <2>2. FailLaunch(i, held, kinds \o <<"LAUNCHING">>)
    BY <1>7
  <2> HIDE DEF held
  <2> QED BY <1>1, <1>2, <1>4, <1>7, <2>1, <2>2, FailLaunchKeeps
<1> QED BY <1>5, <1>6, <1>7 DEF LaunchModule

LEMMA LoadSettlesKeeps ==
  ASSUME IInv, NEW i \in Launches, NEW outcome, LoadSettles(i, outcome)
  PROVE  IInv'
<1>1. UNCHANGED <<current, nextId, result, away>> /\ launch[i].at = "loading"
  BY DEF LoadSettles
<1>2. CASE ~Owns(i) /\ Abandon(i)
  BY <1>1, <1>2, AbandonKeeps
<1>3. CASE /\ Owns(i)
           /\ launch' = [launch EXCEPT ![i].at = "session"]
           /\ Transition(<<"ACQUIRING_SESSION">>)
           /\ UNCHANGED <<game, screen>>
  <2> DEFINE op == [launch[i] EXCEPT !.at = "session"]
  <2>1. /\ i = current /\ kind = "LOADING_MODULE" /\ Sound(launch[i]) /\ ~launch[i].ending
        /\ ~launch[i].accepted /\ ~threw
    BY <1>1, <1>3, Owner
  <2>2. /\ Sound(op) /\ ~op.ending /\ ~op.accepted /\ op.at = "session"
        /\ op.handle = launch[i].handle
    BY <2>1 DEF Sound, Launch
  <2>3. kind' = "ACQUIRING_SESSION" /\ threw' = FALSE
    BY <1>3, <2>1, OneTransition, AllowedMoves
  <2>4. launch' = [launch EXCEPT ![i] = op]
    BY <1>3
  <2> HIDE DEF op
  <2>5. InCharge(op, kind') /\ kind' \in LaunchKinds
    BY <2>2, <2>3 DEF InCharge, LaunchKinds
  <2>6. ScreenShowsState' /\ GatesAreApplied'
    BY <1>1, <1>3, <2>1, <2>3 DEF IInv, ScreenShowsState, GatesAreApplied
  <2>7. /\ game' \in [Ids -> {"none", "live", "gone"}] /\ screen' \in Screen
        /\ away' \subseteq Reasons
        /\ \A j \in Ids : game'[j] = "live" <=> IF j = i THEN op.handle ELSE game[j] = "live"
    BY <1>1, <1>3, <2>2 DEF IInv, TypeOK, GamesAreHandled
  <2> QED BY <1>1, <2>1, <2>2, <2>3, <2>4, <2>5, <2>6, <2>7, AlteredKeeps
<1>4. CASE Owns(i) /\ LaunchModule(i, launch[i], <<"ACQUIRING_SESSION">>)
  <2>1. /\ kind = "LOADING_MODULE" /\ Sound(launch[i]) /\ ~launch[i].ending
        /\ ~launch[i].accepted /\ ~threw
    BY <1>1, <1>4, Owner
  <2>2. /\ Transition(<<"ACQUIRING_SESSION">> \o <<"LAUNCHING">>)
             => kind' = "LAUNCHING" /\ threw' = FALSE
        /\ Transition((<<"ACQUIRING_SESSION">> \o <<"LAUNCHING">>) \o <<"TEARING_DOWN">>)
             => kind' = "TEARING_DOWN" /\ threw' = FALSE
    BY <2>1, EndTransitions
  <2> QED BY <1>1, <1>4, <2>1, <2>2, LaunchModuleKeeps
<1>5. CASE Owns(i) /\ CatchLaunch(i, outcome) /\ UNCHANGED <<game, screen>>
  BY <1>1, <1>5, CatchLaunchKeeps
<1> QED BY <1>2, <1>3, <1>4, <1>5 DEF LoadSettles

LEMMA SessionSettlesKeeps ==
  ASSUME IInv, NEW i \in Launches, NEW outcome, SessionSettles(i, outcome)
  PROVE  IInv'
<1>1. UNCHANGED <<current, nextId, result, away>> /\ launch[i].at = "session"
  BY DEF SessionSettles
<1>2. CASE ~Owns(i) /\ Abandon(i)
  BY <1>1, <1>2, AbandonKeeps
<1>3. ASSUME Owns(i)
      PROVE  /\ kind = "ACQUIRING_SESSION" /\ Sound(launch[i]) /\ ~launch[i].ending
             /\ ~launch[i].accepted /\ ~threw /\ i = current
  BY <1>1, <1>3, Owner
<1>4. CASE Owns(i) /\ LaunchModule(i, [launch[i] EXCEPT !.ticketed = outcome = "ticketed"], <<>>)
  <2> DEFINE op == [launch[i] EXCEPT !.ticketed = outcome = "ticketed"]
  <2>1. /\ Sound(op) /\ op.game = launch[i].game /\ ~op.ending /\ ~op.accepted
        /\ op.handle = launch[i].handle
    BY <1>3, <1>4 DEF Sound, Launch
  <2>2. /\ Transition(<<>> \o <<"LAUNCHING">>) => kind' = "LAUNCHING" /\ threw' = FALSE
        /\ Transition((<<>> \o <<"LAUNCHING">>) \o <<"TEARING_DOWN">>)
             => kind' = "TEARING_DOWN" /\ threw' = FALSE
    BY <1>3, <1>4, EndTransitions
  <2>3. LaunchModule(i, op, <<>>)
    BY <1>4
  <2> HIDE DEF op
  <2> QED BY <1>1, <1>4, <2>1, <2>2, <2>3, LaunchModuleKeeps
<1>5. CASE Owns(i) /\ FailLaunch(i, launch[i], <<>>) /\ UNCHANGED <<game, screen>>
  <2>1. Transition(<<>> \o <<"TEARING_DOWN">>) => kind' = "TEARING_DOWN" /\ threw' = FALSE
    BY <1>3, <1>5, EndTransitions DEF LaunchKinds
  <2>2. /\ game' \in [Ids -> {"none", "live", "gone"}] /\ screen' \in Screen
        /\ screen'.of = current
        /\ \A j \in Ids : game'[j] = "live" <=> IF j = i THEN launch[i].handle ELSE game[j] = "live"
    BY <1>5, Owner DEF IInv, TypeOK, GamesAreHandled
  <2> QED BY <1>1, <1>3, <1>5, <2>1, <2>2, FailLaunchKeeps
<1> QED BY <1>2, <1>4, <1>5 DEF SessionSettles

LEMMA ReadySettlesKeeps ==
  ASSUME IInv, NEW i \in Launches, NEW outcome, ReadySettles(i, outcome)
  PROVE  IInv'
<1>1. UNCHANGED <<current, nextId, result, away>> /\ launch[i].at = "ready"
  BY DEF ReadySettles
<1>2. CASE ~Owns(i) /\ Abandon(i)
  BY <1>1, <1>2, AbandonKeeps
<1>3. CASE /\ Owns(i)
           /\ launch' = [launch EXCEPT ![i].at = "resumed"]
           /\ Stay
           /\ UNCHANGED <<game, screen>>
  <2> DEFINE op == [launch[i] EXCEPT !.at = "resumed"]
  <2>1. Sound(launch[i]) /\ ~launch[i].accepted
    BY <1>1, <1>3, Owner
  <2>2. /\ Sound(op) /\ op.at = "resumed"
        /\ op.game = launch[i].game /\ op.handle = launch[i].handle
        /\ op.accepted = launch[i].accepted /\ op.ending = launch[i].ending
        /\ op.teardown = launch[i].teardown /\ op.waiters = launch[i].waiters
        /\ op.reasons = launch[i].reasons
    BY <2>1 DEF Sound, Launch
  <2>3. launch' = [launch EXCEPT ![i] = op]
    BY <1>3
  <2> HIDE DEF op
  <2> QED BY <1>1, <1>3, <2>2, <2>3, UnmovedKeeps
<1>4. CASE Owns(i) /\ CatchLaunch(i, outcome) /\ UNCHANGED <<game, screen>>
  BY <1>1, <1>4, CatchLaunchKeeps
<1> QED BY <1>2, <1>3, <1>4 DEF ReadySettles

LEMMA EnterPlayingKeeps ==
  ASSUME IInv, NEW i \in Launches, EnterPlaying(i)
  PROVE  IInv'
<1>1. UNCHANGED <<current, nextId, result, away>> /\ launch[i].at = "resumed"
  BY DEF EnterPlaying
<1>2. CASE ~Owns(i) /\ Abandon(i)
  BY <1>1, <1>2, AbandonKeeps
<1>3. CASE Owns(i) /\ ~(~Owns(i) /\ Abandon(i))
  <2> DEFINE met == IF CanSuspend(launch[i].game) THEN away ELSE launch[i].reasons
             op == [launch[i] EXCEPT !.at = "over", !.reasons = met]
  <2>1. /\ i = current /\ kind = "LAUNCHING" /\ Sound(launch[i]) /\ ~launch[i].ending
        /\ ~launch[i].accepted /\ ~threw
    BY <1>1, <1>3, Owner
  <2>2. met \in SUBSET Reasons
    BY <2>1 DEF IInv, TypeOK, Sound, Launch
  <2>3. /\ launch' = [launch EXCEPT ![i].at = "over", ![i].reasons = met]
        /\ Transition(<<"PLAYING">>) /\ UNCHANGED <<game, screen>>
    BY <1>3 DEF EnterPlaying
  <2>4. launch' = [launch EXCEPT ![i] = op]
    BY <2>3
  <2>5. CanSuspend(launch[i].game) => met = away
    OBVIOUS
  <2> HIDE DEF met
  <2>6. /\ Sound(op) /\ ~op.ending /\ ~op.accepted /\ op.at = "over"
        /\ op.handle = launch[i].handle /\ op.reasons = met /\ op.game = launch[i].game
    BY <2>1, <2>2 DEF Sound, Launch
  <2>7. kind' = "PLAYING" /\ threw' = FALSE
    BY <2>1, <2>3, OneTransition, AllowedMoves
  <2> HIDE DEF op
  <2>8. InCharge(op, kind') /\ kind' \in LaunchKinds
    BY <2>6, <2>7 DEF InCharge, LaunchKinds
  <2>9. ScreenShowsState'
    BY <1>1, <2>1, <2>3, <2>7 DEF IInv, ScreenShowsState
  <2>10. GatesAreApplied'
    BY <1>1, <2>1, <2>4, <2>5, <2>6 DEF GatesAreApplied, CanSuspend, Launches
  <2>11. /\ game' \in [Ids -> {"none", "live", "gone"}] /\ screen' \in Screen
         /\ away' \subseteq Reasons
         /\ \A j \in Ids : game'[j] = "live" <=> IF j = i THEN op.handle ELSE game[j] = "live"
    BY <1>1, <2>3, <2>6 DEF IInv, TypeOK, GamesAreHandled
  <2> QED BY <1>1, <2>1, <2>4, <2>6, <2>7, <2>8, <2>9, <2>10, <2>11, AlteredKeeps
<1> QED BY <1>2, <1>3 DEF EnterPlaying

-----------------------------------------------------------------------------
(* The end of a launch *)

LEMMA AcceptCompletionKeeps ==
  ASSUME IInv, NEW i \in Launches, NEW valid \in BOOLEAN, AcceptCompletion(i, valid)
  PROVE  IInv'
<1>1. /\ UNCHANGED <<current, nextId, result, game, screen, away>>
      /\ Owns(i) /\ ~launch[i].accepted
  BY DEF AcceptCompletion
<1>2. /\ i = current /\ Sound(launch[i]) /\ ~launch[i].ending /\ screen.of = current /\ ~threw
  BY <1>1, Owner
<1>3. CASE launch' = [launch EXCEPT ![i].failing = TRUE] /\ Stay
  <2> DEFINE op == [launch[i] EXCEPT !.failing = TRUE]
  <2>1. /\ Sound(op) /\ op.at = launch[i].at
        /\ op.game = launch[i].game /\ op.handle = launch[i].handle
        /\ op.accepted = launch[i].accepted /\ op.ending = launch[i].ending
        /\ op.teardown = launch[i].teardown /\ op.waiters = launch[i].waiters
        /\ op.reasons = launch[i].reasons
    BY <1>2 DEF Sound, Launch
  <2>2. launch' = [launch EXCEPT ![i] = op]
    BY <1>3
  <2> HIDE DEF op
  <2> QED BY <1>1, <1>3, <2>1, <2>2, UnmovedKeeps
<1>4. CASE /\ kind = "PLAYING"
           /\ nextId \in Ids
           /\ EndLaunch(i, [launch[i] EXCEPT !.accepted = TRUE], <<"COMPLETING">>, "complete")
  <2> DEFINE op == [launch[i] EXCEPT !.accepted = TRUE]
  <2>1. launch[i].at = "over"
    BY <1>1, <1>2, <1>4, Owner DEF Sound, Launch
  <2>2. /\ Sound(op) /\ ~op.ending /\ op.accepted /\ op.handle = launch[i].handle
    BY <1>2, <2>1 DEF Sound, Launch
  <2>3. kind' = "TEARING_DOWN" /\ threw' = FALSE
    BY <1>2, <1>4, EndTransitions DEF EndLaunch
  <2>4. launch' = [launch EXCEPT ![i] = TornDown(op, "complete")]
    BY <1>4 DEF EndLaunch
  <2> HIDE DEF op
  <2>5. /\ game' \in [Ids -> {"none", "live", "gone"}] /\ screen' \in Screen
        /\ screen'.of = current
        /\ \A j \in Ids : game'[j] = "live" <=> IF j = i THEN op.handle ELSE game[j] = "live"
    BY <1>1, <1>2, <2>2 DEF IInv, TypeOK, GamesAreHandled
  <2>6. "complete" \in Waiters
    BY DEF Waiters
  <2> QED BY <1>1, <1>2, <1>4, <2>2, <2>3, <2>4, <2>5, <2>6, EndedKeeps
<1> QED BY <1>3, <1>4 DEF AcceptCompletion

(* The launch in charge is ended as it is, by a failure, Cancel or destroy().*)
LEMMA OwnerEndsKeeps ==
  ASSUME IInv, NEW i \in Launches, Owns(i), NEW op, Sound(op), ~op.ending,
         op.handle = launch[i].handle, op.accepted = launch[i].accepted,
         NEW waiter \in Waiters \ {"complete"},
         EndLaunch(i, op, <<>>, waiter),
         UNCHANGED <<current, nextId, result, game, screen, away>>
  PROVE  IInv'
<1>1. /\ i = current /\ kind \in LaunchKinds /\ screen.of = current /\ ~threw
      /\ launch[i].accepted => nextId \in Ids
  BY Owner
<1>2. kind' = "TEARING_DOWN" /\ threw' = FALSE
  BY <1>1, EndTransitions DEF EndLaunch
<1>3. launch' = [launch EXCEPT ![i] = TornDown(op, waiter)]
  BY DEF EndLaunch
<1>4. /\ game' \in [Ids -> {"none", "live", "gone"}] /\ screen' \in Screen
      /\ screen'.of = current
      /\ \A j \in Ids : game'[j] = "live" <=> IF j = i THEN op.handle ELSE game[j] = "live"
  BY <1>1 DEF IInv, TypeOK, GamesAreHandled
<1> QED BY <1>1, <1>2, <1>3, <1>4, EndedKeeps

LEMMA FailCompletionKeeps ==
  ASSUME IInv, NEW i \in Launches, FailCompletion(i)
  PROVE  IInv'
<1> DEFINE op == [launch[i] EXCEPT !.failing = FALSE]
<1>1. UNCHANGED <<current, nextId, result, game, screen, away>>
  BY DEF FailCompletion
<1>2. Sound(launch[i]) /\ launch[i] \in Launch
  BY DEF IInv, Charge, Sound
<1>3. /\ Sound(op) /\ op.at = launch[i].at
      /\ op.game = launch[i].game /\ op.handle = launch[i].handle
      /\ op.accepted = launch[i].accepted /\ op.ending = launch[i].ending
      /\ op.teardown = launch[i].teardown /\ op.waiters = launch[i].waiters
      /\ op.reasons = launch[i].reasons
  BY <1>2 DEF Sound, Launch
<1>4. \/ Owns(i) /\ ~launch[i].ending /\ EndLaunch(i, op, <<>>, "fail")
      \/ launch' = [launch EXCEPT ![i] = op] /\ Stay
  BY DEF FailCompletion
<1> HIDE DEF op
<1>5. CASE Owns(i) /\ ~launch[i].ending /\ EndLaunch(i, op, <<>>, "fail")
  <2>1. "fail" \in Waiters \ {"complete"}
    BY DEF Waiters
  <2> QED BY <1>1, <1>3, <1>5, <2>1, OwnerEndsKeeps
<1>6. CASE launch' = [launch EXCEPT ![i] = op] /\ Stay
  BY <1>1, <1>3, <1>6, UnmovedKeeps
<1> QED BY <1>4, <1>5, <1>6

LEMMA CancelLaunchKeeps ==
  ASSUME IInv, NEW i \in Launches, CancelLaunch(i)
  PROVE  IInv'
<1>1. /\ Owns(i) /\ EndLaunch(i, launch[i], <<>>, "cancel")
      /\ UNCHANGED <<current, nextId, result, game, screen, away>>
  BY DEF CancelLaunch
<1>2. Sound(launch[i]) /\ ~launch[i].ending
  BY <1>1, Owner
<1>3. "cancel" \in Waiters \ {"complete"}
  BY DEF Waiters
<1> QED BY <1>1, <1>2, <1>3, OwnerEndsKeeps

LEMMA TeardownSettlesKeeps ==
  ASSUME IInv, NEW i \in Launches, TeardownSettles(i)
  PROVE  IInv'
<1> DEFINE op == [launch[i] EXCEPT !.teardown = "settled", !.handle = FALSE, !.reasons = {}]
<1>1. /\ Stay /\ UNCHANGED <<current, nextId, result, screen, away>>
      /\ launch[i].teardown = "running" /\ game' = [game EXCEPT ![i] = "gone"]
      /\ launch' = [launch EXCEPT ![i] = op]
  BY DEF TeardownSettles
<1>2. Sound(launch[i]) /\ launch[i] \in Launch
  BY DEF IInv, Charge, Sound
<1>3. i = current
  BY <1>1 DEF IInv, Charge, Retired
<1>4. launch[i].ending /\ kind = "TEARING_DOWN"
  BY <1>1, <1>2, <1>3 DEF Sound, IInv, Charge, InCharge
<1>5. /\ Sound(op) /\ op.ending /\ op.accepted = launch[i].accepted /\ ~op.handle
      /\ op.waiters = launch[i].waiters
  BY <1>1, <1>2, <1>4 DEF Sound, Launch
<1> HIDE DEF op
<1>6. InCharge(op, kind') /\ kind' \in LaunchKinds
  BY <1>1, <1>3, <1>4, <1>5 DEF IInv, Charge, InCharge, Stay, LaunchKinds
<1>7. ScreenShowsState' /\ GatesAreApplied'
  BY <1>1, <1>4 DEF IInv, ScreenShowsState, GatesAreApplied, Stay
<1>8. /\ game' \in [Ids -> {"none", "live", "gone"}] /\ screen' \in Screen
      /\ away' \subseteq Reasons /\ threw' = FALSE
      /\ \A j \in Ids : game'[j] = "live" <=> IF j = i THEN op.handle ELSE game[j] = "live"
  BY <1>1, <1>5 DEF IInv, TypeOK, Stay, NoTransitionThrows
<1> QED BY <1>1, <1>3, <1>5, <1>6, <1>7, <1>8, AlteredKeeps

-----------------------------------------------------------------------------
(* Whoever waited for a teardown goes on *)

LEMMA AfterTeardownKeeps ==
  ASSUME IInv, NEW i \in Launches, NEW waiter, AfterTeardown(i, waiter)
  PROVE  /\ i = current \/ current \notin Launches
         /\ i = current => kind = "TEARING_DOWN"
         /\ waiter # "destroy" => i = current
         /\ waiter = "complete" => launch[i].accepted /\ nextId \in Ids
         /\ Launches' = Launches
         /\ \A j \in Launches : /\ Sound(launch'[j]) /\ Retired(launch'[j])
                                /\ launch'[j].handle = launch[j].handle
                                /\ launch'[j].accepted = launch[j].accepted
                                /\ launch'[j].at = launch[j].at
<1> DEFINE op == [launch[i] EXCEPT !.waiters = Tail(@)]
<1>1. /\ launch[i].teardown = "settled" /\ launch[i].waiters # <<>>
      /\ waiter = Head(launch[i].waiters)
      /\ launch' = [launch EXCEPT ![i] = op]
  BY DEF AfterTeardown, DueWaiter
<1>2. Sound(launch[i]) /\ Patient(launch[i].waiters)
  BY DEF IInv, Charge, Sound
<1>3. waiter = launch[i].waiters[1]
  BY <1>1, <1>2, PatientTail
<1>4. i = current \/ current \notin Launches
  BY <1>1 DEF IInv, Charge
<1>5. i = current => kind = "TEARING_DOWN"
  BY <1>1, <1>2 DEF IInv, Charge, InCharge, Sound
<1>6. waiter # "destroy" => i = current
  BY <1>1, <1>3, DestroysArePatient DEF IInv, Charge, Retired
<1>7. waiter = "complete" => launch[i].accepted /\ nextId \in Ids
  BY <1>1, <1>2, <1>3, <1>6 DEF Sound, IInv, Charge, InCharge
<1>8. /\ Sound(op) /\ Retired(op) /\ op.at = launch[i].at /\ op.handle = launch[i].handle
      /\ op.accepted = launch[i].accepted
  BY <1>1, <1>2, PoppedSound
<1> HIDE DEF op
<1>9. /\ Launches' = Launches /\ launch'[i] = op
      /\ \A j \in Launches \ {i} : launch'[j] = launch[j]
  BY <1>1 DEF Launches
<1>10. \A j \in Launches \ {i} : Sound(launch[j]) /\ Retired(launch[j])
  BY <1>4 DEF IInv, Charge
<1> QED BY <1>4, <1>5, <1>6, <1>7, <1>8, <1>9, <1>10

(* The results as they are. *)
LEMMA ResultsStand ==
  ASSUME IInv
  PROVE  /\ Launches \cap Results = {} /\ Launches \cup Results = 1 .. (nextId - 1)
         /\ nextId \in 1 .. (MaxOps + 1)
         /\ \A r \in Results : /\ result[r] \in ResultOp /\ result[r].of \in Launches
                               /\ launch[result[r].of].accepted
         /\ \A r, s \in Results : result[r].of = result[s].of => r = s
BY DEF IInv, TypeOK, Charge, ResultsFollow, ResultsAreEarned, Launches, Results

(* A waiter that finds itself overtaken was not the last in charge: only   *)
(* calls of destroy() are.                                                 *)
LEMMA NobodyIsOvertaken ==
  ASSUME IInv, NEW i \in Launches, NEW waiter \in Waiters \ {"destroy"},
         AfterTeardown(i, waiter)
  PROVE  ~Overtaken(i) /\ i = current /\ kind = "TEARING_DOWN" /\ ~threw
BY AfterTeardownKeeps DEF Overtaken, IInv, NoTransitionThrows

(* The shell is left to a screen without an operation. *)
LEMMA EmptiedKeeps ==
  ASSUME IInv, Launches' = Launches,
         \A j \in Launches : /\ Sound(launch'[j]) /\ Retired(launch'[j])
                             /\ launch'[j].handle = launch[j].handle
                             /\ launch'[j].accepted = launch[j].accepted
                             /\ launch'[j].at = launch[j].at,
         Results' = Results,
         \A r \in Results : result'[r] \in ResultOp /\ result'[r].of = result[r].of,
         UNCHANGED <<nextId, game, away>>,
         current' = 0, threw' = FALSE,
         NEW what, NEW i \in Ids \cup {0}, Show(what, i),
         \/ kind' = "SELECTING" /\ what = "selection"
         \/ kind' = "ERROR" /\ what = "error"
         \/ kind' = "DESTROYED" /\ what = "nothing"
  PROVE  IInv'
<1>1. 0 \notin Results
  BY DEF IInv, TypeOK, Results
<1>2. screen' \in Screen /\ screen'.shows = what
  BY Shown
<1>3. ScreenShowsState'
  BY <1>2 DEF ScreenShowsState
<1>4. /\ kind' \in Kinds \ (LaunchKinds \cup {"COMPLETING"})
      /\ current' \in Results' <=> kind' = "RESULTS"
  BY <1>1 DEF Kinds, LaunchKinds
<1>5. \A r, s \in Results' : result'[r].of = result'[s].of => r = s
  BY ResultsStand
<1>6. \A r \in Results' : /\ result'[r] \in ResultOp
                          /\ result'[r].of \in Launches
                          /\ launch[result'[r].of].accepted
  BY ResultsStand
<1>7. Launches \cap Results' = {} /\ Launches \cup Results' = 1 .. (nextId' - 1)
      /\ nextId' \in 1 .. (MaxOps + 1) /\ Results \subseteq Results'
  BY ResultsStand
<1> HIDE DEF Show
<1> QED BY <1>2, <1>3, <1>4, <1>5, <1>6, <1>7, ReleasedKeeps

LEMMA ResultsUntouched ==
  ASSUME IInv, UNCHANGED result
  PROVE  /\ Results' = Results
         /\ \A r \in Results : result'[r] \in ResultOp /\ result'[r].of = result[r].of
BY DEF IInv, TypeOK, Results

LEMMA FinishFailureKeeps ==
  ASSUME IInv, NEW i \in Launches, FinishFailure(i)
  PROVE  IInv'
<1>1. AfterTeardown(i, "fail") /\ UNCHANGED <<nextId, result, game, away>>
  BY DEF FinishFailure
<1>2. "fail" \in Waiters \ {"destroy"}
  BY DEF Waiters
<1>3. ~Overtaken(i) /\ kind = "TEARING_DOWN" /\ ~threw
  BY <1>1, <1>2, NobodyIsOvertaken
<1>4. current' = 0 /\ Transition(<<"ERROR">>) /\ Show("error", i)
  BY <1>3 DEF FinishFailure
<1>5. kind' = "ERROR" /\ threw' = FALSE
  BY <1>3, <1>4, OneTransition, AllowedMoves
<1>6. i \in Ids \cup {0}
  BY BoundsAssumption DEF IInv, TypeOK, Launches, Ids
<1> QED BY <1>1, <1>4, <1>5, <1>6, AfterTeardownKeeps, ResultsUntouched, EmptiedKeeps

LEMMA FinishCancelKeeps ==
  ASSUME IInv, NEW i \in Launches, FinishCancel(i)
  PROVE  IInv'
<1>1. AfterTeardown(i, "cancel") /\ UNCHANGED <<nextId, result, game, away>>
  BY DEF FinishCancel
<1>2. "cancel" \in Waiters \ {"destroy"}
  BY DEF Waiters
<1>3. ~Overtaken(i) /\ kind = "TEARING_DOWN" /\ ~threw
  BY <1>1, <1>2, NobodyIsOvertaken
<1>4. current' = 0 /\ Transition(<<"SELECTING">>) /\ Show("selection", 0)
  BY <1>3 DEF FinishCancel
<1>5. kind' = "SELECTING" /\ threw' = FALSE
  BY <1>3, <1>4, OneTransition, AllowedMoves
<1>6. 0 \in Ids \cup {0}
  OBVIOUS
<1> QED BY <1>1, <1>4, <1>5, <1>6, AfterTeardownKeeps, ResultsUntouched, EmptiedKeeps

(* The synchronous end of destroy(), with nobody in charge.                *)
LEMMA ClosedKeeps ==
  ASSUME Closed(<<>>), ~threw, kind \in {"SELECTING", "RESULTS", "ERROR", "DESTROYED", "TEARING_DOWN"}
  PROVE  current' = 0 /\ Show("nothing", 0) /\ kind' = "DESTROYED" /\ threw' = FALSE
<1>1. <<>> \o <<"DESTROYED">> = <<"DESTROYED">>
  BY Concatenations
<1>2. Transition(<<"DESTROYED">>) /\ current' = 0 /\ Show("nothing", 0)
  BY <1>1 DEF Closed
<1> QED BY <1>2, OneTransition, AllowedMoves

LEMMA FinishDestroyKeeps ==
  ASSUME IInv, NEW i \in Launches, FinishDestroy(i)
  PROVE  IInv'
<1>1. AfterTeardown(i, "destroy") /\ Closed(<<>>) /\ UNCHANGED <<nextId, result, game, away>>
  BY DEF FinishDestroy
<1>2. i = current \/ current \notin Launches
  BY <1>1, AfterTeardownKeeps
<1>3. i = current => kind = "TEARING_DOWN"
  BY <1>1, AfterTeardownKeeps
<1>4. ~threw /\ kind \in {"SELECTING", "RESULTS", "ERROR", "DESTROYED", "TEARING_DOWN"}
  BY <1>2, <1>3 DEF IInv, TypeOK, Charge, LaunchKinds, Kinds, NoTransitionThrows
<1>5. current' = 0 /\ Show("nothing", 0) /\ kind' = "DESTROYED" /\ threw' = FALSE
  BY <1>1, <1>4, ClosedKeeps
<1>6. 0 \in Ids \cup {0}
  OBVIOUS
<1> QED BY <1>1, <1>5, <1>6, AfterTeardownKeeps, ResultsUntouched, EmptiedKeeps

LEMMA FinishCompletionKeeps ==
  ASSUME IInv, NEW i \in Launches, FinishCompletion(i)
  PROVE  IInv'
<1>1. AfterTeardown(i, "complete") /\ UNCHANGED <<game, away>>
  BY DEF FinishCompletion
<1>2. "complete" \in Waiters \ {"destroy"}
  BY DEF Waiters
<1>3. /\ ~Overtaken(i) /\ kind = "TEARING_DOWN" /\ ~threw /\ i = current
      /\ launch[i].accepted /\ nextId \in Ids
  BY <1>1, <1>2, NobodyIsOvertaken, AfterTeardownKeeps
<1> DEFINE new == nextId
           shown == [game |-> launch[i].game, of |-> i, aborted |-> FALSE,
                     pending |-> launch[i].ticketed,
                     status |-> IF launch[i].ticketed THEN "submitting" ELSE "unranked"]
<1>4. /\ result' = Extend(result, new, shown) /\ current' = new /\ nextId' = new + 1
      /\ Transition(<<"RESULTS">>) /\ Show("results", new)
  BY <1>3 DEF FinishCompletion
<1>5. kind' = "RESULTS" /\ threw' = FALSE
  BY <1>3, <1>4, OneTransition, AllowedMoves
<1>6. /\ new \in Ids /\ new \notin Launches \cup Results /\ i \in Ids
      /\ 1 .. (nextId' - 1) = (1 .. (nextId - 1)) \cup {new}
      /\ nextId' \in 1 .. (MaxOps + 1)
  BY <1>3, <1>4, BoundsAssumption DEF IInv, TypeOK, Launches, Results, Ids
<1>7. shown \in ResultOp /\ shown.of = i
  BY <1>6 DEF ResultOp, IInv, Charge, Sound, Launch
<1> HIDE DEF new, shown
<1>8. /\ Results' = Results \cup {new} /\ result'[new] = shown
      /\ \A r \in Results : result'[r] = result[r]
  BY <1>4, <1>6 DEF Extend, Results
<1>9. \A r \in Results : result[r].of # i
  BY <1>3 DEF IInv, ResultsFollow
<1>10. screen' \in Screen /\ screen' = [shows |-> "results", of |-> new]
  BY <1>4, <1>6, Shown
<1>11. ScreenShowsState'
  BY <1>4, <1>5, <1>8, <1>10 DEF ScreenShowsState
<1>12. \A r \in Results' : /\ result'[r] \in ResultOp /\ result'[r].of \in Launches
                           /\ launch[result'[r].of].accepted
  BY <1>3, <1>7, <1>8, ResultsStand
<1>13. \A r, s \in Results' : result'[r].of = result'[s].of => r = s
  BY <1>7, <1>8, <1>9, ResultsStand
<1>14. /\ Results \subseteq Results' /\ Launches \cap Results' = {}
       /\ Launches \cup Results' = 1 .. (nextId' - 1)
  BY <1>6, <1>8, ResultsStand
<1>15. /\ kind' \in Kinds \ (LaunchKinds \cup {"COMPLETING"})
       /\ current' \in Results' <=> kind' = "RESULTS"
       /\ current' \in Results' \cup {0}
  BY <1>4, <1>5, <1>8 DEF Kinds, LaunchKinds
<1> QED
  BY <1>1, <1>5, <1>6, <1>10, <1>11, <1>12, <1>13, <1>14, <1>15, AfterTeardownKeeps,
     ReleasedKeeps

-----------------------------------------------------------------------------
(* Results, the player and the page *)

(* A result changes what is known of it, nothing else changes.             *)
LEMMA SubmissionSettlesKeeps ==
  ASSUME IInv, NEW i \in Results, NEW status \in {"verified", "rejected", "failed"},
         SubmissionSettles(i, status)
  PROVE  IInv'
<1>1. /\ Results' = Results
      /\ \A r \in Results : result'[r] \in ResultOp /\ result'[r].of = result[r].of
  BY DEF SubmissionSettles, IInv, TypeOK, Results, ResultOp
<1>2. UNCHANGED <<kind, threw, current, nextId, launch, game, screen, away>>
  BY DEF SubmissionSettles, Stay
<1>3. Launches' = Launches
  BY <1>2 DEF Launches
<1>4. TypeOK'
  BY <1>1, <1>2 DEF IInv, TypeOK, Results, Launches
<1>5. Charge'
  BY <1>1, <1>2, <1>3 DEF IInv, Charge, InCharge, Retired
<1>6. ResultsFollow' /\ ResultsAreEarned'
  BY <1>1, <1>2, <1>3 DEF IInv, ResultsFollow, ResultsAreEarned
<1>7. ScreenShowsState' /\ GatesAreApplied' /\ GamesAreHandled' /\ NoTransitionThrows'
  BY <1>1, <1>2, <1>3 DEF IInv, ScreenShowsState, GatesAreApplied, GamesAreHandled,
                           NoTransitionThrows
<1> QED BY <1>4, <1>5, <1>6, <1>7 DEF IInv

LEMMA AbortedResult ==
  ASSUME IInv, NEW i \in Results, result' = [result EXCEPT ![i].aborted = TRUE]
  PROVE  /\ Results' = Results
         /\ \A r \in Results : result'[r] \in ResultOp /\ result'[r].of = result[r].of
BY DEF IInv, TypeOK, Results, ResultOp

(* Once nobody is in charge every launch is retired. *)
LEMMA AllRetired ==
  ASSUME IInv, current \notin Launches, UNCHANGED launch
  PROVE  /\ Launches' = Launches
         /\ \A j \in Launches : /\ Sound(launch'[j]) /\ Retired(launch'[j])
                                /\ launch'[j].handle = launch[j].handle
                                /\ launch'[j].accepted = launch[j].accepted
                                /\ launch'[j].at = launch[j].at
BY DEF IInv, Charge, Launches

LEMMA LeaveScreenKeeps ==
  ASSUME IInv, LeaveScreen
  PROVE  IInv'
<1>1. current' = 0 /\ Show("selection", 0) /\ UNCHANGED <<nextId, launch, game, away>>
  BY DEF LeaveScreen
<1>2. 0 \in Ids \cup {0} /\ 0 \notin Launches
  BY DEF IInv, TypeOK, Launches
<1>3. CASE /\ current \in Results
           /\ result' = [result EXCEPT ![current].aborted = TRUE]
           /\ Transition(<<"TEARING_DOWN", "SELECTING">>)
  <2>1. kind = "RESULTS" /\ current \notin Launches /\ ~threw
    BY <1>3 DEF IInv, Charge, NoTransitionThrows
  <2>2. kind' = "SELECTING" /\ threw' = FALSE
    BY <1>3, <2>1, TwoTransitions, AllowedMoves
  <2> QED BY <1>1, <1>2, <1>3, <2>1, <2>2, AllRetired, AbortedResult, EmptiedKeeps
<1>4. CASE current = 0 /\ kind = "ERROR" /\ Transition(<<"SELECTING">>) /\ UNCHANGED result
  <2>1. ~threw
    BY DEF IInv, NoTransitionThrows
  <2>2. kind' = "SELECTING" /\ threw' = FALSE
    BY <1>4, <2>1, OneTransition, AllowedMoves
  <2> QED BY <1>1, <1>2, <1>4, <2>2, AllRetired, ResultsUntouched, EmptiedKeeps
<1> QED BY <1>3, <1>4 DEF LeaveScreen

LEMMA DestroyKeeps ==
  ASSUME IInv, Destroy
  PROVE  IInv'
<1>1. UNCHANGED <<nextId, game, away>> /\ kind # "DESTROYED" /\ Quiet
  BY DEF Destroy
<1>2. 0 \in Ids \cup {0} /\ 0 \notin Launches
  BY DEF IInv, TypeOK, Launches
<1>3. CASE /\ current \in Launches
           /\ EndLaunch(current, launch[current], <<>>, "destroy")
           /\ UNCHANGED <<current, result, screen>>
  <2> DEFINE op == launch[current]
             t == TornDown(op, "destroy")
  <2>1. Sound(op) /\ InCharge(op, kind) /\ kind \in LaunchKinds /\ ~threw
    BY <1>3 DEF IInv, Charge, NoTransitionThrows
  <2>2. "destroy" \in Waiters /\ (op.ending => op.waiters # <<>>)
    BY <2>1 DEF Waiters, InCharge
  <2>3. /\ Sound(t) /\ t.ending /\ t.waiters # <<>>
        /\ t.handle = op.handle /\ t.accepted = op.accepted
    BY <2>1, <2>2, TornDownSound
  <2>4. launch' = [launch EXCEPT ![current] = t] /\ Transition(<<>> \o <<"TEARING_DOWN">>)
    BY <1>3 DEF EndLaunch
  <2>5. kind' = "TEARING_DOWN" /\ threw' = FALSE
    BY <2>1, <2>4, EndTransitions
  <2>6. InCharge(t, kind') /\ kind' \in LaunchKinds
    BY <2>1, <2>3, <2>5 DEF InCharge, LaunchKinds
  <2>7. screen.of = current
    <3>1. CASE kind \in {"LOADING_MODULE", "ACQUIRING_SESSION"}
      <4>1. screen = [shows |-> "pending", of |-> current]
        BY <3>1 DEF IInv, ScreenShowsState
      <4> QED BY <4>1
    <3>2. CASE kind \in {"LAUNCHING", "PLAYING"}
      <4>1. screen = [shows |-> "surface", of |-> current]
        BY <3>2 DEF IInv, ScreenShowsState
      <4> QED BY <4>1
    <3>3. CASE kind = "TEARING_DOWN"
      BY <3>3 DEF IInv, ScreenShowsState
    <3> QED BY <2>1, <3>1, <3>2, <3>3 DEF LaunchKinds
  <2>8. ScreenShowsState' /\ GatesAreApplied'
    BY <1>3, <2>5, <2>7 DEF ScreenShowsState, GatesAreApplied
  <2>9. /\ game' \in [Ids -> {"none", "live", "gone"}] /\ screen' \in Screen
        /\ away' \subseteq Reasons
        /\ \A j \in Ids : game'[j] = "live" <=> IF j = current THEN t.handle ELSE game[j] = "live"
    BY <1>1, <1>3, <2>3 DEF IInv, TypeOK, GamesAreHandled
  <2> HIDE DEF t
  <2> QED BY <1>1, <1>3, <2>3, <2>4, <2>5, <2>6, <2>8, <2>9, AlteredKeeps
<1>4. CASE /\ current \in Results
           /\ result' = [result EXCEPT ![current].aborted = TRUE]
           /\ Closed(<<>>)
           /\ UNCHANGED launch
  <2>1. kind = "RESULTS" /\ current \notin Launches /\ ~threw
    BY <1>4 DEF IInv, Charge, NoTransitionThrows
  <2>2. current' = 0 /\ Show("nothing", 0) /\ kind' = "DESTROYED" /\ threw' = FALSE
    BY <1>4, <2>1, ClosedKeeps
  <2> QED BY <1>1, <1>2, <1>4, <2>1, <2>2, AllRetired, AbortedResult, EmptiedKeeps
<1>5. CASE current = 0 /\ Closed(<<>>) /\ UNCHANGED <<launch, result>>
  <2>1. /\ kind \in {"SELECTING", "RESULTS", "ERROR", "DESTROYED", "TEARING_DOWN"}
        /\ ~threw
    BY <1>2, <1>5 DEF IInv, TypeOK, Charge, LaunchKinds, Kinds, NoTransitionThrows
  <2>2. current' = 0 /\ Show("nothing", 0) /\ kind' = "DESTROYED" /\ threw' = FALSE
    BY <1>5, <2>1, ClosedKeeps
  <2> QED BY <1>1, <1>2, <1>5, <2>2, AllRetired, ResultsUntouched, EmptiedKeeps
<1> QED BY <1>3, <1>4, <1>5 DEF Destroy

LEMMA GateChangesKeeps ==
  ASSUME IInv, NEW reason \in Reasons, GateChanges(reason)
  PROVE  IInv'
<1> DEFINE now == IF reason \in away THEN away \ {reason} ELSE away \cup {reason}
           hit == /\ kind = "PLAYING"
                  /\ current \in Launches
                  /\ CanSuspend(launch[current].game)
<1>1. /\ away' = now /\ Stay /\ UNCHANGED <<current, nextId, result, game, screen>>
  BY DEF GateChanges
<1>2. now \subseteq Reasons /\ away \subseteq Reasons
  BY DEF IInv, TypeOK
<1>3. CASE hit
  <2> DEFINE met == (launch[current].reasons \ {reason}) \cup (now \cap {reason})
             op == [launch[current] EXCEPT !.reasons = met]
  <2>1. launch' = [launch EXCEPT ![current].reasons = met]
    BY <1>3 DEF GateChanges
  <2>2. launch[current].reasons = away
    BY <1>3 DEF IInv, GatesAreApplied
  <2>3. met = now
    BY <2>2
  <2>4. Sound(launch[current]) /\ InCharge(launch[current], kind) /\ kind \in LaunchKinds
    BY <1>3 DEF IInv, Charge
  <2>5. met \in SUBSET Reasons
    BY <1>2, <2>3
  <2>6. launch' = [launch EXCEPT ![current] = op]
    BY <2>1
  <2> HIDE DEF now, met
  <2>7. /\ Sound(op) /\ op.reasons = met /\ op.handle = launch[current].handle
        /\ op.accepted = launch[current].accepted /\ op.ending = launch[current].ending
        /\ op.waiters = launch[current].waiters /\ op.at = launch[current].at
    BY <2>4, <2>5 DEF Sound, Launch
  <2> HIDE DEF op
  <2>8. InCharge(op, kind') /\ kind' \in LaunchKinds
    BY <1>1, <2>4, <2>7 DEF InCharge, Stay
  <2>9. ScreenShowsState'
    BY <1>1, <1>3 DEF IInv, ScreenShowsState, Stay
  <2>10. GatesAreApplied'
    BY <1>1, <1>3, <2>3, <2>6, <2>7 DEF GatesAreApplied, Launches
  <2>11. /\ game' \in [Ids -> {"none", "live", "gone"}] /\ screen' \in Screen
         /\ away' \subseteq Reasons /\ threw' = FALSE
         /\ \A j \in Ids : game'[j] = "live" <=> IF j = current THEN op.handle ELSE game[j] = "live"
    BY <1>1, <1>2, <1>3, <2>7 DEF IInv, TypeOK, GamesAreHandled, Stay, NoTransitionThrows
  <2> QED BY <1>1, <1>3, <2>6, <2>7, <2>8, <2>9, <2>10, <2>11, AlteredKeeps
<1>4. CASE ~hit
  <2>1. UNCHANGED <<launch, kind, threw>>
    BY <1>4 DEF GateChanges, Stay
  <2>2. Launches' = Launches /\ Results' = Results
    BY <1>1, <2>1 DEF Launches, Results
  <2> HIDE DEF now
  <2>3. TypeOK'
    BY <1>1, <1>2, <2>1 DEF IInv, TypeOK
  <2>4. Charge'
    BY <1>1, <2>1, <2>2 DEF IInv, Charge, InCharge, Retired
  <2>5. ResultsFollow' /\ ResultsAreEarned'
    BY <1>1, <2>1, <2>2 DEF IInv, ResultsFollow, ResultsAreEarned
  <2>6. ScreenShowsState' /\ GamesAreHandled' /\ NoTransitionThrows'
    BY <1>1, <2>1, <2>2 DEF IInv, ScreenShowsState, GamesAreHandled, NoTransitionThrows
  <2>7. GatesAreApplied'
    <3>1. kind = "PLAYING" => current \in Launches
      BY DEF IInv, Charge, LaunchKinds
    <3> QED BY <1>1, <1>4, <2>1, <3>1 DEF GatesAreApplied, CanSuspend
  <2> QED BY <2>3, <2>4, <2>5, <2>6, <2>7 DEF IInv
<1> QED BY <1>3, <1>4

LEMMA StutterKeeps ==
  ASSUME IInv, UNCHANGED vars
  PROVE  IInv'
<1>1. Launches' = Launches /\ Results' = Results
  BY DEF vars, Launches, Results
<1>2. TypeOK' /\ NoTransitionThrows' /\ GatesAreApplied'
  BY DEF IInv, vars, TypeOK, NoTransitionThrows, GatesAreApplied
<1>3. Charge'
  BY <1>1 DEF IInv, vars, Charge, InCharge, Retired
<1>4. GamesAreHandled' /\ ResultsFollow' /\ ResultsAreEarned'
  BY <1>1 DEF IInv, vars, GamesAreHandled, ResultsFollow, ResultsAreEarned
<1>5. ScreenShowsState'
  BY <1>1 DEF IInv, vars, ScreenShowsState
<1> QED BY <1>2, <1>3, <1>4, <1>5 DEF IInv

LEMMA NextKeeps ==
  ASSUME IInv, [Next]_vars
  PROVE  IInv'
<1>1. ASSUME NEW g \in Games, BeginLaunch(g) PROVE IInv'
  BY <1>1, BeginLaunchKeeps
<1>2. ASSUME NEW i \in Launches, Due(i) PROVE IInv'
  BY <1>2, EnterPlayingKeeps, FailCompletionKeeps, FinishFailureKeeps, FinishCancelKeeps,
     FinishCompletionKeeps, FinishDestroyKeeps DEF Due
<1>3. ASSUME NEW i \in Launches, Settles(i) PROVE IInv'
  BY <1>3, LoadSettlesKeeps, SessionSettlesKeeps, ReadySettlesKeeps, TeardownSettlesKeeps
  DEF Settles
<1>4. ASSUME NEW i \in Launches, CancelLaunch(i) PROVE IInv'
  BY <1>4, CancelLaunchKeeps
<1>5. ASSUME NEW i \in Launches, NEW valid \in BOOLEAN, AcceptCompletion(i, valid) PROVE IInv'
  BY <1>5, AcceptCompletionKeeps
<1>6. ASSUME NEW i \in Results, NEW status \in {"verified", "rejected", "failed"},
             SubmissionSettles(i, status)
      PROVE IInv'
  BY <1>6, SubmissionSettlesKeeps
<1>7. CASE LeaveScreen
  BY <1>7, LeaveScreenKeeps
<1>8. CASE Destroy
  BY <1>8, DestroyKeeps
<1>9. ASSUME NEW reason \in Reasons, GateChanges(reason) PROVE IInv'
  BY <1>9, GateChangesKeeps
<1>10. CASE UNCHANGED vars
  BY <1>10, StutterKeeps
<1> QED BY <1>1, <1>2, <1>3, <1>4, <1>5, <1>6, <1>7, <1>8, <1>9, <1>10 DEF Next

-----------------------------------------------------------------------------
(* Theorems *)

(* The shell's state is well-formed, and always that of its one launch or  *)
(* result in charge (current), of which every other launch is a torn-down  *)
(* predecessor.                                                            *)
THEOREM ShellInvariant == Spec => []IInv
<1>1. Init => IInv
  BY InitKeeps
<1>2. IInv /\ [Next]_vars => IInv'
  BY NextKeeps
<1> QED BY <1>1, <1>2, PTL DEF Spec

(* Whatever clicks, settled promises and destroy() calls come in whatever  *)
(* order, transition() is only asked for moves its table lists.            *)
THEOREM NothingThrows == Spec => []NoTransitionThrows
<1>1. IInv => NoTransitionThrows
  BY DEF IInv
<1> QED BY <1>1, ShellInvariant, PTL

(* A game that runs is that of the launch in charge, which holds its       *)
(* handle: hence at most one runs, and its teardown has not settled.       *)
THEOREM LiveIsCurrent == Spec => []LiveGameIsCurrent
<1>1. IInv => LiveGameIsCurrent
  <2> SUFFICES ASSUME IInv, NEW i \in Ids, game[i] = "live"
               PROVE  current = i /\ launch[i].handle
    BY DEF LiveGameIsCurrent
  <2>1. i \in Launches /\ launch[i].handle
    BY DEF IInv, GamesAreHandled
  <2>2. Sound(launch[i]) /\ (i # current => Retired(launch[i]))
    BY <2>1 DEF IInv, Charge
  <2> QED BY <2>1, <2>2 DEF Sound, Retired
<1> QED BY <1>1, ShellInvariant, PTL

(* The root shows what the state machine says, in every state.             *)
THEOREM ScreenFollows == Spec => []ScreenShowsState
<1>1. IInv => ScreenShowsState
  BY DEF IInv
<1> QED BY <1>1, ShellInvariant, PTL

(* A ranked game in play is suspended for exactly the gates that hold.     *)
THEOREM GatesApply == Spec => []GatesAreApplied
<1>1. IInv => GatesAreApplied
  BY DEF IInv
<1> QED BY <1>1, ShellInvariant, PTL

(* Every result has a launch of its own, over and with an accepted         *)
(* completion.                                                             *)
THEOREM ResultsEarned == Spec => []ResultsAreEarned
<1>1. IInv => ResultsAreEarned
  BY DEF IInv
<1> QED BY <1>1, ShellInvariant, PTL

(* The guards of finishFailure, finishCancel and finishCompletion against  *)
(* having been overtaken are never needed: only calls of destroy() resume  *)
(* after somebody else.                                                    *)
Undisputed ==
  \A i \in Launches : DueWaiter(i) /\ Head(launch[i].waiters) # "destroy" => ~Overtaken(i)

THEOREM NobodyIsOvertakenEver == Spec => []Undisputed
<1>1. IInv => Undisputed
  <2> SUFFICES ASSUME IInv, NEW i \in Launches, DueWaiter(i), Head(launch[i].waiters) # "destroy"
               PROVE  ~Overtaken(i)
    BY DEF Undisputed
  <2> DEFINE w == launch[i].waiters
  <2>1. Sound(launch[i]) /\ launch[i].teardown = "settled" /\ w # <<>> /\ Patient(w)
    BY DEF IInv, Charge, Sound, DueWaiter
  <2>2. w[1] # "destroy"
    BY <2>1, PatientTail
  <2>3. ~OnlyDestroys(w)
    BY <2>1, <2>2, DestroysArePatient
  <2>4. i = current
    BY <2>3 DEF IInv, Charge, Retired
  <2>5. kind \in LaunchKinds
    BY <2>4 DEF IInv, Charge
  <2> QED BY <2>4, <2>5 DEF Overtaken, LaunchKinds
<1> QED BY <1>1, ShellInvariant, PTL
=============================================================================
