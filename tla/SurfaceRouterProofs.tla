------------------------- MODULE SurfaceRouterProofs -------------------------
(***************************************************************************)
(* The safety properties of SurfaceRouter for any number of hash changes.  *)
(* A call that is still the newest while it waits finds no active surface, *)
(* so it can show its own (Waiting); a destroy() that empties the root is  *)
(* that of the active surface or one some call waits for, and a call that  *)
(* overtook no such wait has waited for every one there is (Closing); what *)
(* is active, or about to be, is what the hash asks for until the hash     *)
(* changes, which leaves an event behind (Heading).                        *)
(***************************************************************************)
EXTENDS SurfaceRouter, TLAPS

Waits == {"destroying", "importing", "registry"}

(* The newest call has no active surface until it shows its own. *)
Waiting ==
  \A c \in Calls :
    /\ call[c].stage \in Waits => surface[c].life = "none"
    /\ c > routeId => call[c].stage = "none" /\ surface[c].life = "none"
    /\ call[c].stage \in Waits /\ c = routeId => active = Nobody

(* No destroy() is under way behind the back of a call that overtook none. *)
Closing ==
  \A s \in Calls : surface[s].life = "closing" =>
    /\ s = active \/ \E c \in Calls : call[c].stage = "destroying" /\ call[c].previous = s
    /\ \A c \in Calls : c = routeId /\ call[c].stage \in Waits /\ ~call[c].overtook =>
         call[c].stage = "destroying" /\ call[c].previous = s
    /\ ActiveIsLive => call[active].overtook

ActiveWasMade ==
  active # Nobody => active <= routeId /\ surface[active].life # "none"

(* What the hash asks for, or an event that tells of another hash: on its  *)
(* way to the root, and active.                                            *)
NextIsAskedFor ==
  \A c \in Calls : c = routeId /\ call[c].stage \in {"importing", "registry"} =>
    call[c].kind = Route \/ pending > 0

ActiveIsAskedFor ==
  active # Nobody =>
    /\ surface[active].back # "left" => surface[active].kind = Route \/ pending > 0
    /\ surface[active].back = "left" => pending > 0
    /\ surface[active].back = "no" /\ pageShown => surface[active].life = "live"

OnlyViewersGoBack ==
  \A s \in Calls :
    /\ surface[s].back # "no" => surface[s].kind = "replay"
    /\ surface[s].kind = "replay" => surface[s].life # "none"

Heading == NextIsAskedFor /\ ActiveIsAskedFor /\ OnlyViewersGoBack

IInv ==
  /\ TypeOK
  /\ Waiting
  /\ Closing
  /\ ActiveWasMade
  /\ Heading
  /\ NoSurfaceIsForgotten
  /\ RootShowsActive

LEMMA InitEstablishes == Init => IInv
<1> SUFFICES ASSUME Init PROVE IInv
  OBVIOUS
<1>1. TypeOK
  <2>1. /\ call = [c \in Calls |-> [stage |-> "none", previous |-> Nobody, kind |-> "shell", overtook |-> FALSE]]
        /\ surface = [c \in Calls |-> [life |-> "none", kind |-> "shell", back |-> "no"]]
    BY DEF Init
  <2>2. call \in [Calls -> Call]
    BY <2>1 DEF Call, Kinds
  <2>3. surface \in [Calls -> Surface]
    BY <2>1 DEF Surface, Kinds
  <2>4. routeId \in 0 .. MaxRoutes /\ pending \in Nat
    BY MaxRoutesAssumption DEF Init
  <2> QED BY <2>2, <2>3, <2>4 DEF Init, TypeOK
<1>2. \A c \in Calls : /\ call[c].stage = "none"
                       /\ surface[c].life = "none" /\ surface[c].back = "no" /\ surface[c].kind = "shell"
  BY DEF Init
<1>3. Waiting /\ Closing /\ NoSurfaceIsForgotten
  BY <1>2 DEF Waiting, Waits, Closing, NoSurfaceIsForgotten
<1>4. ActiveWasMade /\ RootShowsActive /\ Heading
  BY <1>2 DEF Init, ActiveWasMade, RootShowsActive, ActiveIsLive, Heading, NextIsAskedFor, ActiveIsAskedFor, OnlyViewersGoBack
<1> QED BY <1>1, <1>3, <1>4 DEF IInv

(* From the first check on, a call without an active surface either shows  *)
(* its surface or waits for its import.                                    *)
LEMMA ProceedTypes ==
  ASSUME TypeOK, NEW id \in Calls, NEW calls \in [Calls -> Call], NEW made \in [Calls -> Surface],
         NEW emptied \in Calls \cup {Nobody}, Proceed(id, calls, made, emptied)
  PROVE  /\ active' \in Calls \cup {Nobody}
         /\ root' \in Calls \cup {Nobody}
         /\ call' \in [Calls -> Call]
         /\ surface' \in [Calls -> Surface]
         /\ \A c \in Calls : c # id => call'[c] = calls[c] /\ surface'[c] = made[c]
         /\ call'[id].overtook = calls[id].overtook
         /\ \/ /\ active' = id /\ root' = id /\ call'[id].stage = "over"
               /\ surface'[id] = [life |-> "live", kind |-> Route, back |-> "no"]
            \/ /\ active' = Nobody
               /\ call'[id].stage = "importing" /\ call'[id].kind = Route
               /\ surface'[id] = made[id]
<1>1. Route \in Kinds
  BY DEF TypeOK, Route, Kinds
<1>2. CASE Route = "shell" /\ mode # "fixtures"
  <2>1. /\ active' = id /\ root' = id
        /\ surface' = [made EXCEPT ![id] = [life |-> "live", kind |-> "shell", back |-> "no"]]
        /\ call' = [calls EXCEPT ![id] = [@ EXCEPT !.stage = "over", !.previous = Nobody]]
    BY <1>2 DEF Proceed, Show
  <2>2. surface' \in [Calls -> Surface]
    BY <2>1 DEF Surface, Kinds
  <2>3. call' \in [Calls -> Call] /\ call'[id].stage = "over" /\ call'[id].overtook = calls[id].overtook
    BY <2>1 DEF Call
  <2> QED BY <1>2, <2>1, <2>2, <2>3
<1>3. CASE ~(Route = "shell" /\ mode # "fixtures")
  <2>1. /\ active' = Nobody /\ root' = emptied /\ surface' = made
        /\ call' = [calls EXCEPT ![id] = [@ EXCEPT !.stage = "importing", !.previous = Nobody, !.kind = Route]]
    BY <1>3 DEF Proceed
  <2>2. /\ call' \in [Calls -> Call] /\ call'[id].overtook = calls[id].overtook
        /\ call'[id].stage = "importing" /\ call'[id].kind = Route
    BY <1>1, <2>1 DEF Call
  <2> QED BY <2>1, <2>2
<1> QED BY <1>2, <1>3

(* The lives and the root that destroy() may leave. *)
LEMMA EndingsType ==
  ASSUME TypeOK, NEW s \in Calls, NEW life \in Endings(s)
  PROVE  /\ life \in {"none", "closing", "wedged", "gone"}
         /\ life = "none" => surface[s].life = "none"
         /\ Emptied(s, life) \in Calls \cup {Nobody}
         /\ life # surface[s].life => surface[s].life = "live"
         /\ surface[s].life # "live" => life = surface[s].life /\ Emptied(s, life) = root
BY DEF TypeOK, Surface, Endings, Emptied

LEMMA RenderRouteKeeps ==
  ASSUME IInv, RenderRoute, UNCHANGED <<mode, hash, pageShown>>, pending' \in Nat
  PROVE  IInv'
<1> DEFINE id == routeId + 1
           begun == [call EXCEPT ![id].overtook = EndAwaited]
<1>0. /\ TypeOK /\ id \in Calls /\ routeId' = id /\ routeId \in 0 .. MaxRoutes
      /\ call[id].stage = "none" /\ surface[id].life = "none"
      /\ active # id
  BY MaxRoutesAssumption DEF IInv, TypeOK, RenderRoute, Calls, Waiting, ActiveWasMade, Nobody
<1>1. /\ begun \in [Calls -> Call] /\ begun[id].overtook = EndAwaited
      /\ \A c \in Calls : c # id => begun[c] = call[c]
  <2>1. EndAwaited \in BOOLEAN /\ call \in [Calls -> Call]
    BY <1>0 DEF EndAwaited, TypeOK
  <2> HIDE DEF id
  <2> QED BY <1>0, <2>1 DEF Call
<1>2. surface \in [Calls -> Surface] /\ root \in Calls \cup {Nobody} /\ active \in Calls \cup {Nobody}
  BY <1>0 DEF TypeOK
<1>3. Route' = Route
  BY DEF Route
<1>4. \A c \in Calls : call[c].stage \in Waits \/ c > routeId => c # active
  BY <1>0 DEF IInv, Waiting, ActiveWasMade, Waits, Nobody, Calls
(* A destroy() under way is that of the active surface or overtaken. *)
<1>5. \A s \in Calls : surface[s].life = "closing" /\ s # active => EndAwaited
  BY DEF IInv, Closing, EndAwaited
<1>6. ASSUME NEW made \in [Calls -> Surface], NEW emptied \in Calls \cup {Nobody},
             Proceed(id, begun, made, emptied),
             \A c \in Calls : c # active => made[c] = surface[c],
             active # Nobody => /\ made[active].life = "gone" /\ made[active].kind = surface[active].kind
                                /\ made[active].back = surface[active].back
      PROVE  IInv'
  <2> HIDE DEF begun
  <2>1. /\ active' \in Calls \cup {Nobody} /\ root' \in Calls \cup {Nobody}
        /\ call' \in [Calls -> Call] /\ surface' \in [Calls -> Surface]
        /\ \A c \in Calls : c # id => call'[c] = call[c] /\ surface'[c] = made[c]
        /\ call'[id].overtook = EndAwaited
        /\ \/ /\ active' = id /\ root' = id /\ call'[id].stage = "over"
              /\ surface'[id] = [life |-> "live", kind |-> Route, back |-> "no"]
           \/ /\ active' = Nobody
              /\ call'[id].stage = "importing" /\ call'[id].kind = Route
              /\ surface'[id] = made[id]
    BY <1>0, <1>1, <1>6, ProceedTypes
  <2>2. TypeOK'
    BY <1>0, <2>1 DEF TypeOK, Calls
  <2>3. \A c \in Calls : made[c].life = surface[c].life \/ (c = active /\ made[c].life = "gone")
    BY <1>2, <1>6 DEF Nobody, Calls
  <2>4. \A c \in Calls : made[c].life # "live"
    BY <1>2, <1>6 DEF IInv, NoSurfaceIsForgotten, Nobody, Calls
  <2>5. Waiting'
    <3>1. ASSUME NEW c \in Calls, c # id
          PROVE  /\ call'[c].stage \in Waits => surface'[c].life = "none"
                 /\ c > id => call'[c].stage = "none" /\ surface'[c].life = "none"
      BY <1>0, <1>4, <2>1, <2>3, <3>1 DEF IInv, Waiting, Calls
    <3>2. call'[id].stage \in Waits => surface'[id].life = "none" /\ active' = Nobody
      BY <1>0, <2>1, <2>3 DEF Waits
    <3> QED BY <1>0, <3>1, <3>2 DEF Waiting, Calls
  <2>6. Closing'
    <3> SUFFICES ASSUME NEW s \in Calls, surface'[s].life = "closing"
                 PROVE  /\ \E c \in Calls : call'[c].stage = "destroying" /\ call'[c].previous = s
                        /\ call'[id].overtook
      BY <1>0, <2>1 DEF Closing, ActiveIsLive
    <3>1. surface[s].life = "closing" /\ s # id /\ s # active
      BY <1>0, <1>2, <1>6, <2>1, <2>3 DEF Nobody, Calls
    <3>2. PICK c \in Calls : call[c].stage = "destroying" /\ call[c].previous = s
      BY <3>1 DEF IInv, Closing
    <3>3. c # id
      BY <1>0, <3>2
    <3>4. EndAwaited
      BY <1>5, <3>1
    <3> QED BY <2>1, <3>2, <3>3, <3>4
  <2>7. Heading'
    <3>1. \A s \in Calls : /\ surface'[s].back # "no" => surface'[s].kind = "replay"
                           /\ surface'[s].kind = "replay" => surface'[s].life # "none"
      BY <1>0, <1>2, <1>6, <2>1 DEF IInv, Heading, NextIsAskedFor, ActiveIsAskedFor, OnlyViewersGoBack, Nobody, Calls
    <3>2. \A c \in Calls : c = id /\ call'[c].stage \in {"importing", "registry"} => call'[c].kind = Route'
      BY <1>3, <2>1
    <3>3. active' # Nobody => surface'[active'] = [life |-> "live", kind |-> Route', back |-> "no"]
      BY <1>3, <2>1
    <3> HIDE DEF id
    <3>4. NextIsAskedFor'
      BY <1>0, <3>2 DEF NextIsAskedFor
    <3>5. ActiveIsAskedFor'
      BY <3>3 DEF ActiveIsAskedFor
    <3>6. OnlyViewersGoBack'
      BY <3>1 DEF OnlyViewersGoBack
    <3> QED BY <3>4, <3>5, <3>6 DEF Heading
  <2>8. ActiveWasMade' /\ NoSurfaceIsForgotten' /\ RootShowsActive'
    BY <1>0, <2>1, <2>4 DEF ActiveWasMade, NoSurfaceIsForgotten, RootShowsActive, ActiveIsLive, Nobody, Calls
  <2> QED BY <2>2, <2>5, <2>6, <2>7, <2>8 DEF IInv
<1>7. CASE active = Nobody /\ Proceed(id, begun, surface, root)
  BY <1>2, <1>6, <1>7
<1>8. CASE /\ active # Nobody
           /\ "gone" \in Endings(active)
           /\ Proceed(id, begun, [surface EXCEPT ![active].life = "gone"], Emptied(active, "gone"))
  <2> DEFINE made == [surface EXCEPT ![active].life = "gone"]
  <2>1. active \in Calls
    BY <1>2, <1>8
  <2>2. /\ made \in [Calls -> Surface]
        /\ \A c \in Calls : c # active => made[c] = surface[c]
        /\ made[active].life = "gone" /\ made[active].kind = surface[active].kind
        /\ made[active].back = surface[active].back
    BY <1>2, <2>1 DEF Surface
  <2>3. Emptied(active, "gone") \in Calls \cup {Nobody}
    BY <1>0, <1>8, <2>1, EndingsType
  <2> HIDE DEF made
  <2>4. PICK emptied \in Calls \cup {Nobody} : Proceed(id, begun, made, emptied)
    BY <1>8, <2>3 DEF made
  <2> QED BY <1>6, <2>2, <2>4
<1>9. CASE /\ active # Nobody
           /\ \E life \in Endings(active) \ {"gone"} : surface' = [surface EXCEPT ![active].life = life]
           /\ call' = [begun EXCEPT ![id] = [@ EXCEPT !.stage = "destroying", !.previous = active]]
           /\ active' = Nobody
           /\ UNCHANGED root
  <2> HIDE DEF begun
  <2>1. active \in Calls
    BY <1>2, <1>9
  <2>2. /\ \A c \in Calls : c # id => call'[c] = call[c]
        /\ call'[id].stage = "destroying" /\ call'[id].previous = active
        /\ call'[id].overtook = EndAwaited
        /\ call' \in [Calls -> Call]
    <3>1. PICK q : q = [begun[id] EXCEPT !.stage = "destroying", !.previous = active]
      OBVIOUS
    <3>2. q \in Call /\ q.stage = "destroying" /\ q.previous = active /\ q.overtook = EndAwaited
      BY <1>0, <1>1, <2>1, <3>1 DEF Call
    <3>3. call' = [begun EXCEPT ![id] = q]
      BY <1>9, <3>1
    <3> HIDE DEF id
    <3> QED BY <1>0, <1>1, <3>2, <3>3
  <2>3. /\ \A c \in Calls : c # active => surface'[c] = surface[c]
        /\ surface'[active].life \notin {"live", "none"}
        /\ surface'[active].kind = surface[active].kind /\ surface'[active].back = surface[active].back
        /\ surface' \in [Calls -> Surface]
    <3>1. PICK life \in Endings(active) : surface' = [surface EXCEPT ![active].life = life]
      BY <1>9
    <3>2. life \in {"closing", "wedged", "gone"}
      BY <1>0, <1>2, <1>9, <2>1, <3>1, EndingsType DEF IInv, ActiveWasMade
    <3> QED BY <1>2, <2>1, <3>1, <3>2 DEF Surface
  <2>4. TypeOK'
    BY <1>0, <1>2, <1>9, <2>2, <2>3 DEF TypeOK, Calls
  <2>5. Waiting'
    <3>1. ASSUME NEW c \in Calls, c # id
          PROVE  /\ call'[c].stage \in Waits => surface'[c].life = "none"
                 /\ c > id => call'[c].stage = "none" /\ surface'[c].life = "none"
      BY <1>0, <1>4, <2>1, <2>2, <2>3, <3>1 DEF IInv, Waiting, Calls
    <3>2. surface'[id].life = "none"
      BY <1>0, <2>3
    <3> QED BY <1>0, <1>9, <3>1, <3>2 DEF Waiting, Calls
  <2>6. Closing'
    <3> SUFFICES ASSUME NEW s \in Calls, surface'[s].life = "closing"
                 PROVE  /\ \E c \in Calls : call'[c].stage = "destroying" /\ call'[c].previous = s
                        /\ ~call'[id].overtook => s = active
      BY <1>0, <1>9, <2>2 DEF Closing, ActiveIsLive
    <3>1. CASE s = active
      BY <1>0, <2>2, <3>1
    <3>2. CASE s # active
      <4>1. surface[s].life = "closing"
        BY <2>3, <3>2
      <4>2. PICK c \in Calls : call[c].stage = "destroying" /\ call[c].previous = s
        BY <3>2, <4>1 DEF IInv, Closing
      <4>3. EndAwaited
        BY <1>5, <3>2, <4>1
      <4> QED BY <1>0, <2>2, <4>2, <4>3
    <3> QED BY <3>1, <3>2
  <2>7. Heading'
    BY <1>0, <1>9, <2>2, <2>3 DEF IInv, Heading, NextIsAskedFor, ActiveIsAskedFor, OnlyViewersGoBack
  <2>8. ActiveWasMade' /\ NoSurfaceIsForgotten' /\ RootShowsActive'
    BY <1>9, <2>3 DEF IInv, ActiveWasMade, NoSurfaceIsForgotten, RootShowsActive, ActiveIsLive
  <2> QED BY <2>4, <2>5, <2>6, <2>7, <2>8 DEF IInv
<1> QED BY <1>7, <1>8, <1>9 DEF RenderRoute

(* A call that gets to an end without showing anything. *)
LEMMA ReturnKeeps ==
  ASSUME IInv, NEW id \in Calls, NEW q \in Call, call' = [call EXCEPT ![id] = q],
         call[id].stage \in Waits, q.stage \in {"over", "failed", "registry"},
         q.kind = call[id].kind, q.overtook = call[id].overtook,
         q.stage = "registry" => call[id].stage = "importing",
         call[id].stage = "destroying" => surface[call[id].previous].life # "closing",
         UNCHANGED <<mode, hash, pending, routeId, active, root, surface, pageShown>>
  PROVE  IInv'
<1>1. call \in [Calls -> Call]
  BY DEF IInv, TypeOK
<1>2. call' \in [Calls -> Call] /\ call'[id] = q /\ \A c \in Calls : c # id => call'[c] = call[c]
  BY <1>1
<1>3. TypeOK' /\ \A c \in Calls : call'[c].overtook = call[c].overtook
  BY <1>2 DEF IInv, TypeOK
<1>4. Waiting'
  BY <1>2 DEF IInv, Waiting, Waits
<1>5. Closing'
  <2> SUFFICES ASSUME NEW s \in Calls, surface[s].life = "closing"
               PROVE  /\ s = active \/ \E c \in Calls : call'[c].stage = "destroying" /\ call'[c].previous = s
                      /\ \A c \in Calls : c = routeId /\ call'[c].stage \in Waits /\ ~call'[c].overtook =>
                           call'[c].stage = "destroying" /\ call'[c].previous = s
                      /\ ActiveIsLive => call'[active].overtook
    BY DEF Closing, ActiveIsLive
  <2>1. s = active \/ \E c \in Calls : call'[c].stage = "destroying" /\ call'[c].previous = s
    <3>1. CASE s = active
      BY <3>1
    <3>2. CASE s # active
      <4>1. PICK c \in Calls : call[c].stage = "destroying" /\ call[c].previous = s
        BY <3>2 DEF IInv, Closing
      <4>2. c # id
        BY <4>1
      <4> QED BY <1>2, <4>1, <4>2
    <3> QED BY <3>1, <3>2
  <2>2. ASSUME NEW c \in Calls, c = routeId, call'[c].stage \in Waits, ~call'[c].overtook
        PROVE  call'[c].stage = "destroying" /\ call'[c].previous = s
    <3>1. CASE c = id
      <4>1. call[c].stage = "importing" /\ ~call[c].overtook
        BY <1>2, <1>3, <2>2, <3>1 DEF Waits
      <4> QED BY <2>2, <4>1 DEF IInv, Closing, Waits
    <3>2. CASE c # id
      BY <1>2, <2>2, <3>2 DEF IInv, Closing
    <3> QED BY <3>1, <3>2
  <2>3. ActiveIsLive => call'[active].overtook
    <3>1. ActiveIsLive => active \in Calls
      BY DEF IInv, TypeOK, ActiveIsLive
    <3> QED BY <1>3, <3>1 DEF IInv, Closing
  <2> QED BY <2>1, <2>2, <2>3
<1>6. Heading'
  BY <1>2 DEF IInv, Heading, NextIsAskedFor, ActiveIsAskedFor, OnlyViewersGoBack, Waits, Route
<1>7. ActiveWasMade' /\ NoSurfaceIsForgotten'
  BY DEF IInv, ActiveWasMade, NoSurfaceIsForgotten
<1>8. RootShowsActive'
  <2>1. ActiveIsLive => active \in Calls
    BY DEF IInv, TypeOK, ActiveIsLive
  <2> QED BY <1>3, <2>1 DEF IInv, RootShowsActive, ActiveIsLive
<1> QED BY <1>3, <1>4, <1>5, <1>6, <1>7, <1>8 DEF IInv

(* The newest call goes on after a wait, with nothing active meanwhile.    *)
LEMMA NewestKeeps ==
  ASSUME IInv, call[routeId].stage \in Waits, routeId \in Calls, NEW kind,
         call[routeId].stage = "destroying" => surface[call[routeId].previous].life # "closing",
         kind = Route \/ pending > 0,
         UNCHANGED <<mode, hash, pending, routeId, pageShown>>,
         /\ active' \in Calls \cup {Nobody} /\ root' \in Calls \cup {Nobody}
         /\ call' \in [Calls -> Call] /\ surface' \in [Calls -> Surface],
         \A c \in Calls : c # routeId => call'[c] = call[c] /\ surface'[c] = surface[c],
         call'[routeId].overtook = call[routeId].overtook,
         \/ /\ active' = routeId /\ root' = routeId /\ call'[routeId].stage = "over"
            /\ surface'[routeId] = [life |-> "live", kind |-> kind, back |-> "no"]
         \/ /\ active' = Nobody
            /\ call'[routeId].stage = "importing" /\ call'[routeId].kind = kind
            /\ surface'[routeId] = surface[routeId]
  PROVE  IInv'
<1>1. TypeOK'
  BY DEF IInv, TypeOK
<1>2. active = Nobody /\ surface[routeId].life = "none" /\ routeId # Nobody
  BY DEF IInv, Waiting, Calls, Nobody
<1>3. Waiting'
  BY <1>2 DEF IInv, Waiting, Waits, Calls
<1>4. Closing'
  <2> SUFFICES ASSUME NEW s \in Calls, surface'[s].life = "closing"
               PROVE  /\ \E c \in Calls : call'[c].stage = "destroying" /\ call'[c].previous = s
                      /\ call'[routeId].overtook
    BY DEF Closing, ActiveIsLive
  <2>1. surface[s].life = "closing"
    BY <1>2
  <2>2. PICK c \in Calls : call[c].stage = "destroying" /\ call[c].previous = s
    BY <1>2, <2>1 DEF IInv, Closing, Nobody, Calls
  <2>3. c # routeId
    BY <2>1, <2>2
  <2>4. call[routeId].overtook
    BY <2>1 DEF IInv, Closing
  <2> QED BY <2>2, <2>3, <2>4
<1>5. Heading'
  BY <1>2 DEF IInv, Heading, NextIsAskedFor, ActiveIsAskedFor, OnlyViewersGoBack, Route
<1>6. \A s \in Calls : surface[s].life # "live"
  BY <1>2 DEF IInv, NoSurfaceIsForgotten, Calls, Nobody
<1>7. ActiveWasMade' /\ NoSurfaceIsForgotten' /\ RootShowsActive'
  BY <1>2, <1>6 DEF ActiveWasMade, NoSurfaceIsForgotten, RootShowsActive, ActiveIsLive, Calls, Nobody
<1> QED BY <1>1, <1>3, <1>4, <1>5, <1>7 DEF IInv

LEMMA ContinueKeeps == ASSUME IInv, NEW id \in Calls, Continue(id) PROVE IInv'
<1>1. /\ call[id].stage = "destroying" /\ surface[call[id].previous].life = "gone"
      /\ UNCHANGED <<mode, hash, pending, routeId, pageShown>>
      /\ TypeOK
  BY DEF Continue, IInv
<1>2. CASE id # routeId
  <2>1. PICK q : q = [call[id] EXCEPT !.stage = "over", !.previous = Nobody]
    OBVIOUS
  <2>2. q \in Call /\ q.stage = "over" /\ q.kind = call[id].kind /\ q.overtook = call[id].overtook
    BY <1>1, <2>1 DEF TypeOK, Call
  <2>3. call' = [call EXCEPT ![id] = q] /\ UNCHANGED <<active, root, surface>>
    BY <1>2, <2>1 DEF Continue, Return
  <2> QED BY <1>1, <2>2, <2>3, ReturnKeeps DEF Waits
<1>3. CASE id = routeId
  <2>1. /\ Proceed(id, call, surface, root)
        /\ call \in [Calls -> Call] /\ surface \in [Calls -> Surface] /\ root \in Calls \cup {Nobody}
    BY <1>1, <1>3 DEF Continue, TypeOK
  <2>2. /\ active' \in Calls \cup {Nobody} /\ root' \in Calls \cup {Nobody}
        /\ call' \in [Calls -> Call] /\ surface' \in [Calls -> Surface]
        /\ \A c \in Calls : c # id => call'[c] = call[c] /\ surface'[c] = surface[c]
        /\ call'[id].overtook = call[id].overtook
        /\ \/ /\ active' = id /\ root' = id /\ call'[id].stage = "over"
              /\ surface'[id] = [life |-> "live", kind |-> Route, back |-> "no"]
           \/ /\ active' = Nobody
              /\ call'[id].stage = "importing" /\ call'[id].kind = Route
              /\ surface'[id] = surface[id]
    BY <1>1, <2>1, ProceedTypes
  <2> QED BY <1>1, <1>3, <2>2, NewestKeeps DEF Waits
<1> QED BY <1>2, <1>3

LEMMA ImportedKeeps == ASSUME IInv, NEW id \in Calls, Imported(id) \/ ImportFails(id) PROVE IInv'
<1>1. /\ call[id].stage \in {"importing", "registry"}
      /\ UNCHANGED <<mode, hash, pending, routeId, pageShown>>
      /\ call \in [Calls -> Call] /\ surface \in [Calls -> Surface]
  BY DEF Imported, ImportFails, IInv, TypeOK
<1>2. ASSUME NEW stage \in {"over", "failed", "registry"}, NEW q,
             q = [call[id] EXCEPT !.stage = stage] \/ q = [call[id] EXCEPT !.stage = stage, !.previous = Nobody],
             stage = "registry" => call[id].stage = "importing",
             call' = [call EXCEPT ![id] = q], UNCHANGED <<active, root, surface>>
      PROVE  IInv'
  <2>1. q \in Call /\ q.stage = stage /\ q.kind = call[id].kind /\ q.overtook = call[id].overtook
    BY <1>1, <1>2 DEF Call
  <2> QED BY <1>1, <1>2, <2>1, ReturnKeeps DEF Waits
<1>3. CASE id # routeId /\ Return(id) /\ UNCHANGED <<active, root, surface>>
  BY <1>2, <1>3 DEF Return
<1>4. CASE /\ call[id].stage = "importing"
           /\ call' = [call EXCEPT ![id].stage = "registry"] /\ UNCHANGED <<active, root, surface>>
  BY <1>2, <1>4
<1>5. CASE call' = [call EXCEPT ![id].stage = "failed"] /\ UNCHANGED <<active, root, surface>>
  BY <1>2, <1>5
<1>6. CASE id = routeId /\ Return(id) /\ Show(id, call[id].kind, surface)
  <2>1. /\ call'[id].stage = "over" /\ call'[id].overtook = call[id].overtook
        /\ call' \in [Calls -> Call]
        /\ \A c \in Calls : c # id => call'[c] = call[c]
    BY <1>1, <1>6 DEF Return, Call
  <2>2. call[id].kind \in Kinds
    BY <1>1 DEF Call
  <2>3. /\ active' = id /\ root' = id
        /\ surface'[id] = [life |-> "live", kind |-> call[id].kind, back |-> "no"]
        /\ surface' \in [Calls -> Surface]
        /\ \A c \in Calls : c # id => surface'[c] = surface[c]
    BY <1>1, <1>6, <2>2 DEF Show, Surface
  <2>4. call[id].kind = Route \/ pending > 0
    BY <1>1, <1>6 DEF IInv, Heading, NextIsAskedFor, ActiveIsAskedFor, OnlyViewersGoBack
  <2> QED BY <1>1, <1>6, <2>1, <2>3, <2>4, NewestKeeps DEF Waits
<1> QED BY <1>3, <1>4, <1>5, <1>6 DEF Imported, ImportFails

(* Whoever waits for the destroy() that ends now is the newest call, which *)
(* has shown nothing yet, or was overtaken.                                *)
LEMMA DestroyedKeeps == ASSUME IInv, NEW s \in Calls, Destroyed(s) PROVE IInv'
<1>1. /\ surface[s].life = "closing" /\ root' = Nobody
      /\ surface' = [surface EXCEPT ![s].life = "gone"]
      /\ UNCHANGED <<mode, hash, pending, routeId, active, call, pageShown>>
      /\ surface \in [Calls -> Surface]
  BY DEF Destroyed, IInv, TypeOK
<1>2. /\ surface' \in [Calls -> Surface] /\ surface'[s].life = "gone"
      /\ surface'[s].kind = surface[s].kind /\ surface'[s].back = surface[s].back
      /\ \A c \in Calls : c # s => surface'[c] = surface[c]
  BY <1>1 DEF Surface
<1>3. TypeOK' /\ Waiting'
  BY <1>1, <1>2 DEF IInv, TypeOK, Waiting, Waits
<1>4. active # Nobody => active \in Calls
  BY DEF IInv, TypeOK
<1>5. Closing'
  BY <1>1, <1>2, <1>4 DEF IInv, Closing, ActiveIsLive
<1>6. Heading'
  BY <1>1, <1>2, <1>4 DEF IInv, Heading, NextIsAskedFor, ActiveIsAskedFor, OnlyViewersGoBack, Route
<1>7. ActiveWasMade' /\ NoSurfaceIsForgotten'
  BY <1>1, <1>2, <1>4 DEF IInv, ActiveWasMade, NoSurfaceIsForgotten
<1>8. RootShowsActive'
  <2>1. ActiveIsLive' => ActiveIsLive
    BY <1>1, <1>2, <1>4 DEF ActiveIsLive
  <2> QED BY <1>1, <2>1 DEF IInv, Closing, RootShowsActive
<1> QED BY <1>3, <1>5, <1>6, <1>7, <1>8 DEF IInv

(* The viewer that Back destroys has the root: if anything live is active, *)
(* and has not lost the root, it is this viewer.                           *)
LEMMA EndKeeps ==
  ASSUME IInv, NEW s \in Calls, NEW life \in Endings(s), NEW back \in {"no", "asked", "left"},
         surface[s].life # "none",
         surface' = [surface EXCEPT ![s] = [@ EXCEPT !.life = life, !.back = back]],
         root' = Emptied(s, life),
         \/ back = "asked" /\ surface[s].back = "no" /\ surface[s].kind = "replay"
         \/ back = surface[s].back /\ ~pageShown',
         pageShown' \in BOOLEAN, pageShown' => pageShown,
         UNCHANGED <<mode, hash, pending, routeId, active, call>>
  PROVE  IInv'
<1>1. /\ TypeOK /\ surface \in [Calls -> Surface]
      /\ life \in {"closing", "wedged", "gone"} /\ Emptied(s, life) \in Calls \cup {Nobody}
      /\ life # surface[s].life => surface[s].life = "live"
      /\ surface[s].life # "live" => life = surface[s].life /\ root' = root
  <2>1. TypeOK /\ surface \in [Calls -> Surface]
    BY DEF IInv, TypeOK
  <2> QED BY <2>1, EndingsType
<1>2. /\ surface' \in [Calls -> Surface]
      /\ surface'[s].life = life /\ surface'[s].kind = surface[s].kind /\ surface'[s].back = back
      /\ \A c \in Calls : c # s => surface'[c] = surface[c]
  BY <1>1 DEF Surface
<1>3. TypeOK'
  BY <1>1, <1>2 DEF TypeOK
<1>4. surface[s].life = "live" => s = active
  BY DEF IInv, NoSurfaceIsForgotten
<1>5. active # Nobody => active \in Calls
  BY <1>1 DEF TypeOK
<1>6. s = active => \A c \in Calls : ~(c = routeId /\ call[c].stage \in Waits)
  BY DEF IInv, Waiting, Nobody, Calls
<1>7. Waiting'
  BY <1>1, <1>2 DEF IInv, Waiting
<1>8. ActiveIsLive' => ActiveIsLive /\ active # s /\ root' = root
  BY <1>1, <1>2, <1>4, <1>5 DEF ActiveIsLive
<1>9. Closing'
  <2> SUFFICES ASSUME NEW t \in Calls, surface'[t].life = "closing"
               PROVE  /\ t = active \/ \E c \in Calls : call[c].stage = "destroying" /\ call[c].previous = t
                      /\ \A c \in Calls : c = routeId /\ call[c].stage \in Waits /\ ~call[c].overtook =>
                           call[c].stage = "destroying" /\ call[c].previous = t
                      /\ ActiveIsLive' => call[active].overtook
    BY DEF Closing
  <2>1. CASE surface[t].life = "closing"
    BY <1>8, <2>1 DEF IInv, Closing
  <2>2. CASE surface[t].life # "closing"
    <3>1. t = s /\ s = active
      BY <1>1, <1>2, <1>4, <2>2
    <3> QED BY <1>6, <1>8, <3>1
  <2> QED BY <2>1, <2>2
<1>10. Heading'
  <2>1. \A c \in Calls : surface'[c].kind = surface[c].kind
    BY <1>2
  <2>2. \A c \in Calls : /\ surface'[c].back # "no" => surface'[c].kind = "replay"
                         /\ surface'[c].kind = "replay" => surface'[c].life # "none"
    BY <1>1, <1>2 DEF IInv, Heading, NextIsAskedFor, ActiveIsAskedFor, OnlyViewersGoBack
  <2>3. active # Nobody =>
       /\ surface'[active].back # "left" => surface'[active].kind = Route \/ pending > 0
       /\ surface'[active].back = "left" => pending > 0
       /\ surface'[active].back = "no" /\ pageShown' => surface'[active].life = "live"
    BY <1>2, <1>5 DEF IInv, Heading, NextIsAskedFor, ActiveIsAskedFor, OnlyViewersGoBack
  <2>4. Route' = Route
    BY DEF Route
  <2>5. NextIsAskedFor'
    BY <2>4 DEF IInv, Heading, NextIsAskedFor
  <2>6. ActiveIsAskedFor'
    BY <2>3, <2>4 DEF ActiveIsAskedFor
  <2>7. OnlyViewersGoBack'
    BY <2>2 DEF OnlyViewersGoBack
  <2> QED BY <2>5, <2>6, <2>7 DEF Heading
<1>11. ActiveWasMade' /\ NoSurfaceIsForgotten' /\ RootShowsActive'
  BY <1>1, <1>2, <1>5, <1>8 DEF IInv, ActiveWasMade, NoSurfaceIsForgotten, RootShowsActive
<1> QED BY <1>3, <1>7, <1>9, <1>10, <1>11 DEF IInv

LEMMA BackKeeps == ASSUME IInv, NEW s \in Calls, Back(s) PROVE IInv'
<1>1. PICK life \in Endings(s) :
        /\ surface' = [surface EXCEPT ![s] = [@ EXCEPT !.life = life, !.back = "asked"]]
        /\ root' = Emptied(s, life)
  BY DEF Back
<1>2. /\ surface[s].kind = "replay" /\ surface[s].back = "no"
      /\ UNCHANGED <<mode, hash, pending, routeId, active, call, pageShown>>
      /\ pageShown \in BOOLEAN
  BY DEF Back, IInv, TypeOK
<1>3. surface[s].life # "none"
  BY <1>2 DEF IInv, Heading, NextIsAskedFor, ActiveIsAskedFor, OnlyViewersGoBack
<1> QED BY <1>1, <1>2, <1>3, EndKeeps

LEMMA PageHideKeeps == ASSUME IInv, PageHide PROVE IInv'
<1>1. /\ pageShown' = FALSE /\ pageShown
      /\ UNCHANGED <<mode, hash, pending, routeId, active, call>>
      /\ surface \in [Calls -> Surface] /\ active \in Calls \cup {Nobody}
  BY DEF PageHide, IInv, TypeOK
<1>2. CASE active = Nobody /\ UNCHANGED <<surface, root>>
  <2>1. TypeOK' /\ Waiting' /\ Closing' /\ Heading'
    <3>1. Route' = Route
      BY <1>1 DEF Route
    <3>2. TypeOK' /\ Waiting'
      BY <1>1, <1>2 DEF IInv, TypeOK, Waiting
    <3>4. Closing'
      BY <1>1, <1>2 DEF IInv, Closing, ActiveIsLive
    <3>3. Heading'
      BY <1>1, <1>2, <3>1 DEF IInv, Heading, NextIsAskedFor, ActiveIsAskedFor, OnlyViewersGoBack
    <3> QED BY <3>2, <3>3, <3>4
  <2> QED BY <1>1, <1>2, <2>1 DEF IInv, ActiveWasMade, NoSurfaceIsForgotten, RootShowsActive, ActiveIsLive
<1>3. CASE /\ active # Nobody
           /\ \E life \in Endings(active) :
                /\ surface' = [surface EXCEPT ![active].life = life]
                /\ root' = Emptied(active, life)
  <2>1. PICK life \in Endings(active) :
          surface' = [surface EXCEPT ![active].life = life] /\ root' = Emptied(active, life)
    BY <1>3
  <2>2. active \in Calls /\ surface[active].life # "none"
    BY <1>1, <1>3 DEF IInv, ActiveWasMade
  <2>3. PICK back : back = surface[active].back
    OBVIOUS
  <2>4. back \in {"no", "asked", "left"}
    BY <1>1, <2>2, <2>3 DEF Surface
  <2>5. surface' = [surface EXCEPT ![active] = [@ EXCEPT !.life = life, !.back = back]]
    BY <1>1, <2>1, <2>2, <2>3 DEF Surface
  <2> QED BY <1>1, <2>1, <2>2, <2>3, <2>4, <2>5, EndKeeps
<1> QED BY <1>2, <1>3 DEF PageHide

(* onBack changes the hash of whatever is or will be active: an event      *)
(* tells of it, unless the hash asked for the shell already.               *)
LEMMA OnBackKeeps == ASSUME IInv, NEW s \in Calls, OnBack(s) PROVE IInv'
<1>1. /\ surface[s].life = "gone" /\ surface[s].back = "asked"
      /\ surface' = [surface EXCEPT ![s].back = "left"]
      /\ hash' = "shell"
      /\ pending' \in {pending, pending + 1} /\ (hash = "replay" => pending' > pending)
      /\ UNCHANGED <<mode, routeId, active, root, call, pageShown>>
      /\ surface \in [Calls -> Surface] /\ pending \in Nat /\ hash \in {"shell", "replay"}
      /\ active # Nobody => active \in Calls
  BY DEF OnBack, IInv, TypeOK, Kinds
<1>2. /\ surface' \in [Calls -> Surface] /\ surface'[s].back = "left"
      /\ \A c \in Calls : surface'[c].life = surface[c].life /\ surface'[c].kind = surface[c].kind
      /\ \A c \in Calls : c # s => surface'[c] = surface[c]
  BY <1>1 DEF Surface
<1>3. TypeOK'
  BY <1>1, <1>2 DEF IInv, TypeOK, Kinds
<1>4. Waiting'
  BY <1>1, <1>2 DEF IInv, Waiting
<1>5. ActiveIsLive' <=> ActiveIsLive
  BY <1>1, <1>2 DEF ActiveIsLive
<1>6. Closing' /\ ActiveWasMade' /\ NoSurfaceIsForgotten' /\ RootShowsActive'
  <2>1. Closing'
    BY <1>1, <1>2, <1>5 DEF IInv, Closing
  <2>2. ActiveWasMade' /\ NoSurfaceIsForgotten' /\ RootShowsActive'
    BY <1>1, <1>2, <1>5 DEF IInv, ActiveWasMade, NoSurfaceIsForgotten, RootShowsActive
  <2> QED BY <2>1, <2>2
<1>7. Heading'
  <2>1. pending' > 0 \/ (pending' = pending /\ pending = 0 /\ Route' = Route /\ Route = "shell")
    BY <1>1 DEF Route
  <2>2. surface[s].kind = "replay"
    BY <1>1 DEF IInv, Heading, NextIsAskedFor, ActiveIsAskedFor, OnlyViewersGoBack
  <2>3. s = active => pending' > 0
    BY <1>1, <2>1, <2>2 DEF IInv, Heading, NextIsAskedFor, ActiveIsAskedFor, OnlyViewersGoBack, Nobody, Calls
  <2>4. \A c \in Calls : c = routeId /\ call[c].stage \in {"importing", "registry"} =>
          call[c].kind = Route' \/ pending' > 0
    BY <1>1, <2>1 DEF IInv, Heading, NextIsAskedFor, ActiveIsAskedFor, OnlyViewersGoBack
  <2>5. active # Nobody =>
          /\ surface'[active].back # "left" => surface'[active].kind = Route' \/ pending' > 0
          /\ surface'[active].back = "left" => pending' > 0
          /\ surface'[active].back = "no" /\ pageShown => surface'[active].life = "live"
    BY <1>1, <1>2, <2>1, <2>3 DEF IInv, Heading, NextIsAskedFor, ActiveIsAskedFor, OnlyViewersGoBack
  <2>6. \A c \in Calls : /\ surface'[c].back # "no" => surface'[c].kind = "replay"
                         /\ surface'[c].kind = "replay" => surface'[c].life # "none"
    BY <1>1, <1>2, <2>2 DEF IInv, Heading, NextIsAskedFor, ActiveIsAskedFor, OnlyViewersGoBack
  <2>7. UNCHANGED <<routeId, active, call, pageShown>>
    BY <1>1
  <2>8. NextIsAskedFor'
    BY <2>4, <2>7 DEF NextIsAskedFor
  <2>9. ActiveIsAskedFor'
    BY <2>5, <2>7 DEF ActiveIsAskedFor
  <2>10. OnlyViewersGoBack'
    BY <2>6 DEF OnlyViewersGoBack
  <2> QED BY <2>8, <2>9, <2>10 DEF Heading
<1> QED BY <1>3, <1>4, <1>6, <1>7 DEF IInv

LEMMA ChangeHashKeeps == ASSUME IInv, ChangeHash PROVE IInv'
<1>1. /\ hash' \in Kinds /\ pending' = pending + 1 /\ pending \in Nat
      /\ UNCHANGED <<mode, routeId, active, root, call, surface, pageShown>>
  BY DEF ChangeHash, IInv, TypeOK
<1>2. TypeOK' /\ Waiting' /\ Closing'
  BY <1>1 DEF IInv, TypeOK, Waiting, Closing, ActiveIsLive
<1>3. Heading'
  BY <1>1 DEF IInv, Heading, NextIsAskedFor, ActiveIsAskedFor, OnlyViewersGoBack
<1>4. ActiveWasMade' /\ NoSurfaceIsForgotten' /\ RootShowsActive'
  BY <1>1 DEF IInv, ActiveWasMade, NoSurfaceIsForgotten, RootShowsActive, ActiveIsLive
<1> QED BY <1>2, <1>3, <1>4 DEF IInv

LEMMA NextKeeps == IInv /\ [Next]_routerVars => IInv'
<1> SUFFICES ASSUME IInv, [Next]_routerVars PROVE IInv'
  OBVIOUS
<1>1. CASE ChangeHash
  BY <1>1, ChangeHashKeeps
<1>2. CASE HashChange
  <2>1. pending' \in Nat
    BY <1>2 DEF HashChange, IInv, TypeOK
  <2> QED BY <1>2, <2>1, RenderRouteKeeps DEF HashChange
<1>3. CASE PageHide
  BY <1>3, PageHideKeeps
<1>4. ASSUME NEW s \in Calls, Back(s) \/ OnBack(s) \/ Destroyed(s) PROVE IInv'
  BY <1>4, BackKeeps, OnBackKeeps, DestroyedKeeps
<1>5. ASSUME NEW c \in Calls, Continue(c) \/ Imported(c) \/ ImportFails(c) PROVE IInv'
  BY <1>5, ContinueKeeps, ImportedKeeps
<1>6. CASE UNCHANGED routerVars
  BY <1>6 DEF routerVars, IInv, TypeOK, Waiting, Closing, ActiveWasMade, Heading, NextIsAskedFor, ActiveIsAskedFor, OnlyViewersGoBack, Route,
     NoSurfaceIsForgotten, RootShowsActive, ActiveIsLive
<1> QED BY <1>1, <1>2, <1>3, <1>4, <1>5, <1>6 DEF Next

LEMMA InductiveInvariant == Spec => []IInv
BY InitEstablishes, NextKeeps, PTL DEF Spec

(* Every variable keeps its type. *)
THEOREM RouterTypeCorrect == Spec => []TypeOK
<1>1. IInv => TypeOK
  BY DEF IInv
<1> QED BY <1>1, InductiveInvariant, PTL

(* However often and whenever the hash changes, no surface is left alive   *)
(* that the next change will not destroy.                                  *)
THEOREM NobodyIsForgotten == Spec => []NoSurfaceIsForgotten
<1>1. IInv => NoSurfaceIsForgotten
  BY DEF IInv
<1> QED BY <1>1, InductiveInvariant, PTL

(* A live surface keeps the root, but for one shown by a call that         *)
(* overtook the wait for a destroy(), whatever Back and pagehide destroy.  *)
THEOREM ActiveIsShown == Spec => []RootShowsActive
<1>1. IInv => RootShowsActive
  BY DEF IInv
<1> QED BY <1>1, InductiveInvariant, PTL

(* A page whose surface is gone, or not the one the hash asks for, still   *)
(* has the event or the onBack() to come that renders it anew.             *)
THEOREM NobodyStaysStranded == Spec => []NobodyIsStranded
<1>1. IInv => NobodyIsStranded
  <2> SUFFICES ASSUME IInv, active # Nobody PROVE NobodyIsStranded
    BY DEF NobodyIsStranded
  <2>1. active \in Calls /\ surface[active].back \in {"no", "asked", "left"}
    BY DEF IInv, TypeOK, Surface
  <2> QED BY <2>1 DEF IInv, Heading, NextIsAskedFor, ActiveIsAskedFor, OnlyViewersGoBack, NobodyIsStranded
<1> QED BY <1>1, InductiveInvariant, PTL
=============================================================================
