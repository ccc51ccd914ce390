---------------------------- MODULE CallsProofs ----------------------------
(***************************************************************************)
(* Proofs about Calls for every set of messages and requests, any number   *)
(* of middleware, and whichever calls the array changes during.            *)
(*                                                                         *)
(* Seen without its endpoint and its handler, a call takes only steps of   *)
(* GrpcCall (CallsAreCalls), so the invariants of GrpcCallProofs hold.     *)
(* The endpoint has an invariant of its own (EndpointInv), and so has the  *)
(* handler of the reflection service (LoopsInv).                           *)
(***************************************************************************)
EXTENDS Calls, GrpcCallProofs

\* Every step of a call with its endpoint is a step of the call, or none.
LEMMA CallsAreCalls == CallsNext => [CallNext]_vars
<1> SUFFICES ASSUME CallsNext PROVE [CallNext]_vars
  OBVIOUS
<1>1. (\E m \in Msg : ClientData(m) /\ UNCHANGED Outside) => CallNext
  BY DEF CallNext
<1>2. (ClientEnd \/ MapError \/ ThenCallback \/ CatchCallback \/ CatchLog) => CallNext
  BY DEF CallNext
<1>3. Owner \/ Chained => UNCHANGED vars
  BY DEF Owner, Chained
<1>4. Logic => CallNext
  BY DEF Logic, CallNext
<1>5. Reflects => [CallNext]_vars
  BY DEF Reflects, ReflectionSteps, NextRequest, Respond, BreakOff, EndOfCall, CallNext
<1>6. Finish => CallNext
  BY DEF Finish, CallNext
<1> QED BY <1>1, <1>2, <1>3, <1>4, <1>5, <1>6 DEF CallsNext

LEMMA CallsStep == [CallsNext]_callsVars => [CallNext]_vars
  BY CallsAreCalls DEF callsVars

THEOREM SpecCalls == CallsSpec => CallInit /\ [][CallNext]_vars
<1>1. CallsInit => CallInit
  BY DEF CallsInit
<1> QED BY <1>1, CallsStep, PTL DEF CallsSpec

LEMMA CallsCallInv == CallsSpec => []CallInv
  BY SpecCalls, CallInvInit, CallInvStep, PTL

\* A call is answered once and truthfully, with any middleware around it.
THEOREM CallsAnswered == CallsSpec => [](AnsweredOnce /\ TrueAnswer)
  BY CallsCallInv, AnsweredOnceOfCall, TrueAnswerOfCall, PTL

\* What reads get is what FifoStream promises, whoever reads.
THEOREM CallsFifo == CallsSpec => FifoSpec
<1>1. CallInit => Fifo!Init
  BY DEF CallInit, Init, Fifo!Init
<1>2. [CallNext]_vars => [Next]_streamVars
  BY StreamSteps DEF vars
<1>3. CallInv => IInv
  BY DEF CallInv
<1> QED BY <1>1, <1>2, <1>3, SpecCalls, CallsCallInv, StepFifo, PTL DEF FifoSpec, Fifo!Spec

THEOREM CallsKeepMessages == CallsSpec => [](PendingAreLast /\ NothingLost)
  BY CallsCallInv, PTL DEF CallInv, IInv

-----------------------------------------------------------------------------
(***************************************************************************)
(* The endpoint.  While the loop is at a position, what it has not applied *)
(* lies in front of it (Ahead), and what it has applied lies behind        *)
(* (Behind); Lies(w, i) says that w is at i or further back.               *)
(***************************************************************************)
LEMMA ConsFacts ==
  ASSUME NEW S, NEW s \in Seq(S), NEW e \in S
  PROVE  /\ <<e>> \o s \in Seq(S) /\ Len(<<e>> \o s) = Len(s) + 1
         /\ (<<e>> \o s)[1] = e
         /\ \A i \in 1..Len(s) : (<<e>> \o s)[i + 1] = s[i]
         /\ DOMAIN s = 1..Len(s) /\ DOMAIN (<<e>> \o s) = 1..(Len(s) + 1)
  OBVIOUS

LEMMA ConcatFacts ==
  ASSUME NEW S, NEW s \in Seq(S), NEW t \in Seq(S)
  PROVE  /\ s \o t \in Seq(S) /\ Len(s \o t) = Len(s) + Len(t)
         /\ \A i \in 1..(Len(s) + Len(t)) :
              (s \o t)[i] = IF i <= Len(s) THEN s[i] ELSE t[i - Len(s)]
  OBVIOUS

LEMMA RemoveAtFacts ==
  ASSUME NEW S, NEW s \in Seq(S), NEW p \in 1..Len(s)
  PROVE  /\ RemoveAt(s, p) \in Seq(S) /\ Len(RemoveAt(s, p)) = Len(s) - 1
         /\ \A i \in 1..(Len(s) - 1) :
              RemoveAt(s, p)[i] = IF i < p THEN s[i] ELSE s[i + 1]
<1> DEFINE f == SubSeq(s, 1, p - 1)  b == SubSeq(s, p + 1, Len(s))
<1>1. /\ f \in Seq(S) /\ Len(f) = p - 1 /\ \A i \in 1..(p - 1) : f[i] = s[i]
  OBVIOUS
<1>2. b \in Seq(S) /\ Len(b) = Len(s) - p /\ \A i \in 1..(Len(s) - p) : b[i] = s[p + i]
  OBVIOUS
<1>3. /\ f \o b \in Seq(S) /\ Len(f \o b) = Len(f) + Len(b)
      /\ \A i \in 1..(Len(f) + Len(b)) :
           (f \o b)[i] = IF i <= Len(f) THEN f[i] ELSE b[i - Len(f)]
  <2> HIDE DEF f, b
  <2> QED BY <1>1, <1>2, ConcatFacts
<1>4. ASSUME NEW i \in 1..(Len(s) - 1)
      PROVE  (f \o b)[i] = IF i < p THEN s[i] ELSE s[i + 1]
  <2> HIDE DEF f, b
  <2>1. Len(f) = p - 1 /\ Len(b) = Len(s) - p /\ i \in 1..(Len(f) + Len(b))
    BY <1>1, <1>2
  <2>2. CASE i < p
    BY <1>1, <1>3, <2>1, <2>2
  <2>3. CASE ~(i < p)
    <3> DEFINE k == i - (p - 1)
    <3>1. Len(s) \in Nat /\ p \in Nat /\ i \in Nat /\ Len(f) = p - 1
      BY <2>1
    <3>2. k \in 1..(Len(s) - p) /\ p + k = i + 1 /\ ~(i <= Len(f))
      BY <2>1, <2>3, <3>1
    <3>3. (f \o b)[i] = b[k]
      BY <1>3, <2>1, <3>1, <3>2
    <3> HIDE DEF k
    <3>4. b[k] = s[p + k]
      BY <1>2, <3>2
    <3>5. (f \o b)[i] = s[i + 1]
      BY <3>2, <3>3, <3>4, Zenon
    <3> QED BY <2>3, <3>5, Zenon
  <2> QED BY <2>2, <2>3
<1>5. RemoveAt(s, p) = f \o b
  BY DEF RemoveAt
<1>6. Len(f \o b) = Len(s) - 1
  <2> HIDE DEF f, b
  <2> QED BY <1>1, <1>2, <1>3
<1> HIDE DEF f, b
<1> QED BY <1>3, <1>4, <1>5, <1>6

Lies(w, i) == \E p \in DOMAIN declared : p >= i /\ declared[p] = w

Ahead == "unshift" \notin changes =>
  /\ stage = "applying" => \A w \in kept :
       w \in ToSet(built) \/ w = applying
         \/ \E i \in DOMAIN middleware : i < at /\ middleware[i] = w
  /\ stage \in {"passing", "logic", "answered"} => kept \subseteq ToSet(built)

Behind == "splice" \notin changes =>
  /\ declared = middleware
  /\ \A i, j \in DOMAIN built : i < j => Precedes(built[i], built[j])
  /\ stage = "applying" =>
       /\ Lies(applying, at)
       /\ \A j \in DOMAIN built : Lies(built[j], at + 1) /\ Precedes(applying, built[j])

AtLoop ==
  /\ stage = "arrived" => built = <<>>
  /\ stage \in {"arrived", "applying"} => depth = 0
  /\ stage = "applying" => at > 0 /\ applying \in Middleware

EndpointInv == EndpointTypeOK /\ AtLoop /\ Ahead /\ Behind

LEMMA EndpointInvInit == EndpointInit => EndpointInv
<1> SUFFICES ASSUME EndpointInit PROVE EndpointInv
  OBVIOUS
<1>1. PICK n \in 0..MaxMiddleware : middleware = [i \in 1..n |-> i]
  BY DEF EndpointInit
<1>2. middleware \in Seq(Middleware)
  BY <1>1, EndpointAssumption DEF Middleware
<1>3. built = <<>> /\ Len(built) = 0 /\ DOMAIN built = {}
  BY DEF EndpointInit
<1>4. EndpointTypeOK
  BY <1>2, <1>3 DEF EndpointInit, EndpointTypeOK, Stage
<1> QED BY <1>3, <1>4 DEF EndpointInit, EndpointInv, AtLoop, Ahead, Behind

\* The owner of the array changes it while the loop waits.
LEMMA OwnerKeeps ==
  ASSUME EndpointInv, OwnerChanges
  PROVE  EndpointInv'
<1>1. /\ stage = "applying"
      /\ middleware \in Seq(Middleware) /\ declared \in Seq(Middleware)
      /\ DOMAIN middleware = 1..Len(middleware) /\ DOMAIN declared = 1..Len(declared)
      /\ at \in Nat /\ at > 0 /\ kept \subseteq Middleware
      /\ Len(middleware) \in Nat /\ Len(declared) \in Nat
  <2>1. stage = "applying"
    BY DEF OwnerChanges, Push, Unshift, Splice, MayAdd
  <2>2. middleware \in Seq(Middleware) /\ declared \in Seq(Middleware)
        /\ at \in Nat /\ kept \subseteq Middleware
    BY DEF EndpointInv, EndpointTypeOK
  <2> QED BY <2>1, <2>2 DEF EndpointInv, AtLoop
<1>2. UNCHANGED <<stage, at, applying, built, depth>>
  BY DEF OwnerChanges, Push, Unshift, Splice, chainVars
<1>3. AtLoop'
  BY <1>2 DEF EndpointInv, AtLoop
<1>4. ASSUME NEW w \in Middleware, Push(w)
      PROVE  EndpointTypeOK' /\ Ahead' /\ Behind'
  <2>1. /\ middleware' = Append(middleware, w) /\ declared' = Append(declared, w)
        /\ kept' = kept /\ changes' = changes \cup {"push"}
    BY <1>4 DEF Push
  <2>2. /\ middleware' \in Seq(Middleware) /\ declared' \in Seq(Middleware)
        /\ DOMAIN middleware' = 1..(Len(middleware) + 1)
        /\ DOMAIN declared' = 1..(Len(declared) + 1)
        /\ \A i \in 1..Len(middleware) : middleware'[i] = middleware[i]
        /\ \A i \in 1..Len(declared) : declared'[i] = declared[i]
    BY <1>1, <1>4, <2>1, AppendFacts
  <2>3. EndpointTypeOK'
    BY <1>2, <2>1, <2>2 DEF EndpointInv, EndpointTypeOK
  <2>4. Ahead'
    BY <1>1, <1>2, <2>1, <2>2 DEF EndpointInv, Ahead
  <2>5. \A u, v : Precedes(u, v) => Precedes(u, v)'
    BY <1>1, <2>2 DEF Precedes
  <2>6. \A u, i : Lies(u, i) => Lies(u, i)'
    BY <1>1, <2>2 DEF Lies
  <2>7. Behind'
    BY <1>2, <2>1, <2>5, <2>6 DEF EndpointInv, Behind
  <2> QED BY <2>3, <2>4, <2>7
<1>5. ASSUME NEW w \in Middleware, Unshift(w)
      PROVE  EndpointTypeOK' /\ Ahead' /\ Behind'
  <2>1. /\ middleware' = <<w>> \o middleware /\ declared' = <<w>> \o declared
        /\ kept' = kept /\ changes' = changes \cup {"unshift"}
    BY <1>5 DEF Unshift
  <2>2. /\ middleware' \in Seq(Middleware) /\ declared' \in Seq(Middleware)
        /\ DOMAIN declared' = 1..(Len(declared) + 1)
        /\ \A i \in 1..Len(declared) : declared'[i + 1] = declared[i]
    BY <1>1, <1>5, <2>1, ConsFacts
  <2>3. EndpointTypeOK'
    BY <1>2, <2>1, <2>2 DEF EndpointInv, EndpointTypeOK
  <2>4. Ahead'
    BY <2>1 DEF Ahead
  <2>5. ASSUME NEW u, NEW v, Precedes(u, v) PROVE Precedes(u, v)'
    <3>1. PICK i, j \in 1..Len(declared) : i < j /\ declared[i] = u /\ declared[j] = v
      BY <1>1, <2>5 DEF Precedes
    <3>2. /\ i + 1 \in DOMAIN declared' /\ j + 1 \in DOMAIN declared' /\ i + 1 < j + 1
          /\ declared'[i + 1] = u /\ declared'[j + 1] = v
      BY <1>1, <2>2, <3>1
    <3> QED BY <3>2 DEF Precedes
  <2>6. ASSUME NEW u, NEW i \in Nat, Lies(u, i) PROVE Lies(u, i)'
    <3>1. PICK p \in 1..Len(declared) : p >= i /\ declared[p] = u
      BY <1>1, <2>6 DEF Lies
    <3>2. p + 1 \in DOMAIN declared' /\ p + 1 >= i /\ declared'[p + 1] = u
      BY <1>1, <2>2, <3>1
    <3> QED BY <3>2 DEF Lies
  <2>7. Behind'
    <3>1. at \in Nat /\ at + 1 \in Nat
      BY <1>1
    <3> QED BY <1>2, <2>1, <2>5, <2>6, <3>1 DEF EndpointInv, Behind
  <2> QED BY <2>3, <2>4, <2>7
<1>6. ASSUME NEW p \in DOMAIN middleware, Splice(p)
      PROVE  EndpointTypeOK' /\ Ahead' /\ Behind'
  <2>1. /\ middleware' = RemoveAt(middleware, p) /\ declared' = declared
        /\ kept' = kept \ {middleware[p]} /\ changes' = changes \cup {"splice"}
    BY <1>6 DEF Splice
  <2>2. /\ middleware' \in Seq(Middleware) /\ Len(middleware') = Len(middleware) - 1
        /\ \A i \in 1..(Len(middleware) - 1) :
             middleware'[i] = IF i < p THEN middleware[i] ELSE middleware[i + 1]
        /\ DOMAIN middleware' = 1..(Len(middleware) - 1)
    <3>1. p \in 1..Len(middleware)
      BY <1>1, <1>6
    <3>2. /\ middleware' \in Seq(Middleware) /\ Len(middleware') = Len(middleware) - 1
          /\ \A i \in 1..(Len(middleware) - 1) :
               middleware'[i] = IF i < p THEN middleware[i] ELSE middleware[i + 1]
      <4>1. middleware \in Seq(Middleware)
        BY <1>1
      <4> QED BY ONLY <2>1, <3>1, <4>1, RemoveAtFacts, Zenon
    <3>3. DOMAIN middleware' = 1..Len(middleware')
      BY <3>2
    <3> QED BY <3>2, <3>3
  <2>3. EndpointTypeOK'
    BY <1>2, <2>1, <2>2 DEF EndpointInv, EndpointTypeOK
  <2>4. Ahead'
    <3>1. SUFFICES ASSUME "unshift" \notin changes, NEW w \in kept, w # middleware[p],
                          w \notin ToSet(built), w # applying
                   PROVE  \E i \in DOMAIN middleware' : i < at /\ middleware'[i] = w
      BY <1>1, <1>2, <2>1 DEF Ahead
    <3>2. PICK i \in 1..Len(middleware) : i < at /\ middleware[i] = w
      BY <1>1, <3>1 DEF EndpointInv, Ahead
    <3>3. CASE i < p
      <4>1. i \in DOMAIN middleware' /\ middleware'[i] = w
        BY <1>1, <1>6, <2>2, <3>2, <3>3
      <4> QED BY <3>2, <4>1
    <3>4. CASE i > p
      <4>1. /\ i - 1 \in 1..(Len(middleware) - 1) /\ ~(i - 1 < p) /\ (i - 1) + 1 = i
            /\ i - 1 < at
        BY <1>1, <1>6, <3>2, <3>4
      <4>2. middleware'[i - 1] = w
        BY <2>2, <3>2, <4>1
      <4> QED BY <2>2, <4>1, <4>2
    <3> QED BY <1>1, <1>6, <3>1, <3>2, <3>3, <3>4
  <2>5. Behind'
    BY <2>1 DEF Behind
  <2> QED BY <2>3, <2>4, <2>5
<1> QED BY <1>3, <1>4, <1>5, <1>6 DEF OwnerChanges, EndpointInv

\* The first position of the loop, or the next one.
LEMMA ApplyFacts ==
  ASSUME EndpointInv, NEW i \in Nat, i > 0, ApplyAt(i)
  PROVE  /\ at' = i /\ stage' \in {"applying", "threw"}
         /\ applying' \in Middleware \cup {None}
         /\ stage' = "applying" => /\ applying' \in Middleware /\ i \in DOMAIN middleware
                                   /\ applying' = middleware[i]
<1>1. middleware \in Seq(Middleware)
  BY DEF EndpointInv, EndpointTypeOK
<1> QED BY <1>1 DEF ApplyAt

LEMMA ArriveKeeps ==
  ASSUME EndpointInv, Arrive
  PROVE  EndpointInv'
<1>1. /\ middleware \in Seq(Middleware) /\ Len(middleware) \in Nat
      /\ DOMAIN middleware = 1..Len(middleware)
      /\ stage = "arrived" /\ built = <<>> /\ depth = 0
      /\ at \in Nat /\ applying \in Middleware \cup {None}
  BY DEF EndpointInv, EndpointTypeOK, AtLoop, Arrive
<1>2. /\ middleware' = middleware /\ declared' = declared /\ built' = built
      /\ depth' = depth /\ changes' = changes
      /\ kept' = {middleware[i] : i \in DOMAIN middleware}
  BY DEF Arrive, arrayVars, ToSet
<1>3. kept' \subseteq Middleware
  BY <1>1, <1>2
<1>4. ASSUME at' \in Nat, applying' \in Middleware \cup {None}, stage' \in Stage
      PROVE  EndpointTypeOK'
  BY <1>2, <1>3, <1>4 DEF EndpointInv, EndpointTypeOK
<1>5. CASE middleware = <<>>
  <2>1. stage' = "passing" /\ at' = at /\ applying' = applying
    BY <1>5 DEF Arrive
  <2>2. kept' = {}
    BY <1>1, <1>2, <1>5
  <2>3. EndpointTypeOK'
    BY <1>1, <1>4, <2>1 DEF Stage
  <2>4. AtLoop' /\ Ahead'
    BY <2>1, <2>2 DEF AtLoop, Ahead
  <2>5. Behind'
    <3>1. DOMAIN built' = {} /\ stage' # "applying"
      BY <1>1, <1>2, <2>1
    <3> QED BY <1>2, <3>1 DEF EndpointInv, Behind
  <2> QED BY <2>3, <2>4, <2>5 DEF EndpointInv
<1>6. CASE middleware # <<>>
  <2>1. ApplyAt(Len(middleware)) /\ Len(middleware) > 0
    BY <1>1, <1>6 DEF Arrive
  <2>2. /\ at' = Len(middleware) /\ stage' \in {"applying", "threw"}
        /\ applying' \in Middleware \cup {None}
        /\ stage' = "applying" => applying' \in Middleware /\ applying' = middleware[at']
    BY <1>1, <2>1, ApplyFacts
  <2>3. EndpointTypeOK' /\ AtLoop'
    BY <1>1, <1>2, <1>4, <2>1, <2>2 DEF AtLoop, Stage
  <2>4. Ahead'
    <3>1. ASSUME stage' = "applying", NEW w \in kept'
          PROVE  w = applying' \/ \E i \in DOMAIN middleware' : i < at' /\ middleware'[i] = w
      BY <1>1, <1>2, <2>2, <3>1
    <3> QED BY <2>2, <3>1 DEF Ahead
  <2>5. Behind'
    <3>1. DOMAIN built' = {}
      BY <1>1, <1>2
    <3>2. declared = middleware /\ stage' = "applying" => Lies(applying, at)'
      BY <1>1, <1>2, <2>1, <2>2 DEF Lies
    <3> QED BY <1>2, <3>1, <3>2 DEF EndpointInv, Behind
  <2> QED BY <2>3, <2>4, <2>5 DEF EndpointInv
<1> QED BY <1>5, <1>6

\* A middleware has been applied: its function goes around the others.
LEMMA AppliedKeeps ==
  ASSUME EndpointInv, Applied
  PROVE  EndpointInv'
<1>1. /\ stage = "applying" /\ at \in Nat /\ at > 0 /\ applying \in Middleware
      /\ built \in Seq(Middleware) /\ Len(built) \in Nat /\ DOMAIN built = 1..Len(built)
      /\ depth = 0 /\ depth' = depth
      /\ UNCHANGED <<middleware, declared, kept, changes>>
      /\ built' = <<applying>> \o built
  BY DEF EndpointInv, EndpointTypeOK, AtLoop, Applied, arrayVars, pastVars, Around
<1>2. /\ built' \in Seq(Middleware) /\ DOMAIN built' = 1..(Len(built) + 1)
      /\ built'[1] = applying /\ \A i \in 1..Len(built) : built'[i + 1] = built[i]
      /\ Len(built') = Len(built) + 1
  BY <1>1, ConsFacts
<1>3. ToSet(built') = {applying} \cup ToSet(built)
  <2>1. ASSUME NEW w \in ToSet(built) PROVE w \in ToSet(built')
    <3>1. PICK i \in 1..Len(built) : built[i] = w
      BY <1>1 DEF ToSet
    <3>2. i + 1 \in DOMAIN built' /\ built'[i + 1] = w
      BY <1>1, <1>2, <3>1
    <3> QED BY <3>2 DEF ToSet
  <2>2. applying \in ToSet(built')
    <3>1. 1 \in DOMAIN built'
      BY <1>1, <1>2
    <3> QED BY <1>2, <3>1 DEF ToSet
  <2>3. ASSUME NEW i \in DOMAIN built' PROVE built'[i] \in {applying} \cup ToSet(built)
    <3>1. CASE i = 1
      BY <1>2, <3>1
    <3>2. CASE i # 1
      <4>1. i - 1 \in 1..Len(built) /\ (i - 1) + 1 = i
        BY <1>1, <1>2, <3>2
      <4>2. built'[i] = built[i - 1]
        BY <1>2, <4>1
      <4> QED BY <1>1, <4>1, <4>2 DEF ToSet
    <3> QED BY <3>1, <3>2
  <2> QED BY <2>1, <2>2, <2>3 DEF ToSet
\* the functions made so far, the new one included, are in order
<1>4. "splice" \notin changes =>
        /\ declared = middleware
        /\ \A i, j \in DOMAIN built' : i < j => Precedes(built'[i], built'[j])
        /\ \A j \in DOMAIN built' : Lies(built'[j], at)
  <2>1. SUFFICES ASSUME "splice" \notin changes
                 PROVE  /\ \A i, j \in DOMAIN built' : i < j => Precedes(built'[i], built'[j])
                        /\ \A j \in DOMAIN built' : Lies(built'[j], at)
    BY DEF EndpointInv, Behind
  <2>2. /\ \A i, j \in DOMAIN built : i < j => Precedes(built[i], built[j])
        /\ Lies(applying, at)
        /\ \A j \in DOMAIN built : Lies(built[j], at + 1) /\ Precedes(applying, built[j])
    BY <1>1, <2>1 DEF EndpointInv, Behind
  <2>3. \A w : Lies(w, at + 1) => Lies(w, at)
    <3>1. declared \in Seq(Middleware)
      BY DEF EndpointInv, EndpointTypeOK
    <3>2. \A p \in DOMAIN declared : p \in Nat
      BY <3>1
    <3> QED BY <1>1, <3>2 DEF Lies
  <2>4. ASSUME NEW j \in DOMAIN built', j # 1
        PROVE  j - 1 \in DOMAIN built /\ built'[j] = built[j - 1] /\ j \in Nat
    <3>1. j - 1 \in 1..Len(built) /\ (j - 1) + 1 = j
      BY <1>1, <1>2, <2>4
    <3> QED BY <1>1, <1>2, <3>1
  <2>5. ASSUME NEW i \in DOMAIN built', NEW j \in DOMAIN built', i < j
        PROVE  Precedes(built'[i], built'[j])
    <3>1. j # 1
      BY <1>1, <1>2, <2>5
    <3>2. CASE i = 1
      BY <1>2, <2>2, <2>4, <3>1, <3>2
    <3>3. CASE i # 1
      <4>1. i - 1 < j - 1
        BY <1>1, <1>2, <2>5
      <4> QED BY <2>2, <2>4, <3>1, <3>3, <4>1
    <3> QED BY <3>2, <3>3
  <2>6. ASSUME NEW j \in DOMAIN built' PROVE Lies(built'[j], at)
    BY <1>2, <2>2, <2>3, <2>4
  <2> QED BY <2>5, <2>6
<1>5. CASE LastApplied
  <2>1. stage' = "passing" /\ applying' = None /\ at' = at /\ at = 1
    BY <1>5 DEF Applied, LastApplied
  <2>2. EndpointTypeOK' /\ AtLoop'
    BY <1>1, <1>2, <2>1 DEF EndpointInv, EndpointTypeOK, AtLoop, Stage
  <2>3. Ahead'
    <3>1. ASSUME "unshift" \notin changes, NEW w \in kept PROVE w \in ToSet(built')
      <4>1. \A i \in DOMAIN middleware : ~(i < at)
        <5>1. middleware \in Seq(Middleware)
          BY DEF EndpointInv, EndpointTypeOK
        <5> QED BY <2>1, <5>1
      <4> QED BY <1>1, <1>3, <3>1, <4>1 DEF EndpointInv, Ahead
    <3> QED BY <1>1, <2>1, <3>1 DEF Ahead
  <2>4. Behind'
    BY <1>1, <1>4, <2>1 DEF Behind, Precedes
  <2> QED BY <2>2, <2>3, <2>4 DEF EndpointInv
<1>6. CASE ~LastApplied
  <2>1. ApplyAt(at - 1) /\ at - 1 \in Nat /\ at - 1 > 0
    BY <1>1, <1>6 DEF Applied, LastApplied
  <2>2. /\ at' = at - 1 /\ stage' \in {"applying", "threw"}
        /\ applying' \in Middleware \cup {None}
        /\ stage' = "applying" =>
             /\ applying' \in Middleware /\ at - 1 \in DOMAIN middleware
             /\ applying' = middleware[at - 1]
    BY <2>1, ApplyFacts
  <2>3. EndpointTypeOK' /\ AtLoop'
    BY <1>1, <1>2, <2>1, <2>2 DEF EndpointInv, EndpointTypeOK, AtLoop, Stage
  <2>4. Ahead'
    <3>1. ASSUME "unshift" \notin changes, stage' = "applying", NEW w \in kept,
                 w \notin ToSet(built'), w # applying'
          PROVE  \E i \in DOMAIN middleware : i < at' /\ middleware[i] = w
      <4>1. PICK i \in DOMAIN middleware : i < at /\ middleware[i] = w
        BY <1>1, <1>3, <3>1 DEF EndpointInv, Ahead
      <4>2. i \in Nat
        <5>1. middleware \in Seq(Middleware)
          BY DEF EndpointInv, EndpointTypeOK
        <5> QED BY <5>1
      <4>3. i # at - 1
        BY <2>2, <3>1, <4>1
      <4>4. i < at - 1
        BY <1>1, <4>1, <4>2, <4>3
      <4> QED BY <2>2, <4>1, <4>4
    <3> QED BY <1>1, <2>2, <3>1 DEF Ahead
  <2>5. Behind'
    <3>1. SUFFICES ASSUME "splice" \notin changes
                   PROVE  /\ (\A i, j \in DOMAIN built : i < j => Precedes(built[i], built[j]))'
                          /\ stage' = "applying" =>
                               /\ Lies(applying, at)'
                               /\ (\A j \in DOMAIN built : Lies(built[j], at + 1))'
                               /\ (\A j \in DOMAIN built : Precedes(applying, built[j]))'
      BY <1>1, <1>4 DEF Behind
    <3>2. at' + 1 = at
      BY <1>1, <2>2
    <3>3. ASSUME stage' = "applying" PROVE Lies(applying', at')
      <4>1. at - 1 \in DOMAIN declared /\ at - 1 >= at' /\ declared[at - 1] = applying'
        BY <1>4, <2>1, <2>2, <3>1, <3>3
      <4> QED BY <4>1 DEF Lies
    <3>4. ASSUME stage' = "applying", NEW j \in DOMAIN built'
          PROVE  Precedes(applying', built'[j])
      <4>1. PICK p \in DOMAIN declared : p >= at /\ declared[p] = built'[j]
        BY <1>4, <3>1, <3>4 DEF Lies
      <4>2. p \in Nat
        <5>1. declared \in Seq(Middleware)
          BY DEF EndpointInv, EndpointTypeOK
        <5> QED BY <5>1
      <4>3. at - 1 \in DOMAIN declared /\ at - 1 < p /\ declared[at - 1] = applying'
        BY <1>1, <1>4, <2>2, <3>1, <3>4, <4>1, <4>2
      <4> QED BY <4>1, <4>3 DEF Precedes
    <3>5. (\A i, j \in DOMAIN built : i < j => Precedes(built[i], built[j]))'
      BY <1>1, <1>4, <3>1 DEF Precedes
    <3>6. stage' = "applying" => Lies(applying, at)'
      BY <1>1, <3>3 DEF Lies
    <3>7. (\A j \in DOMAIN built : Lies(built[j], at + 1))'
      BY <1>1, <1>4, <3>1, <3>2 DEF Lies
    <3>8. stage' = "applying" => (\A j \in DOMAIN built : Precedes(applying, built[j]))'
      BY <1>1, <3>4 DEF Precedes
    <3> QED BY <3>5, <3>6, <3>7, <3>8
  <2> QED BY <2>3, <2>4, <2>5 DEF EndpointInv
<1> QED BY <1>5, <1>6

LEMMA OtherStepsKeep ==
  ASSUME EndpointInv,
         ApplyThrows \/ PassOn \/ Intercept("threw") \/ Intercept("answered")
           \/ UNCHANGED endpointVars
  PROVE  EndpointInv'
<1>1. /\ UNCHANGED <<middleware, declared, at, built, kept, changes>>
      /\ stage' = stage \/ stage' \in {"threw", "logic", "answered"}
      /\ applying' = applying \/ applying' = None
  BY DEF ApplyThrows, PassOn, Intercept, endpointVars, arrayVars, chainVars, pastVars
<1>2. /\ stage' # stage => stage' = "threw" \/ stage = "passing"
      /\ stage = "applying" /\ stage' = stage => applying' = applying /\ depth' = depth
      /\ stage = "arrived" => stage' = stage /\ depth' = depth
  BY DEF ApplyThrows, PassOn, Intercept, endpointVars, chainVars
<1>3. depth' \in 0..Len(built)
  <2>1. depth \in 0..Len(built) /\ Len(built) \in Nat
    BY DEF EndpointInv, EndpointTypeOK
  <2>2. depth' = depth \/ (depth < Len(built) /\ depth' = depth + 1)
    BY DEF ApplyThrows, PassOn, Intercept, endpointVars, chainVars
  <2> QED BY <2>1, <2>2
<1>4. EndpointTypeOK'
  BY <1>1, <1>3 DEF EndpointInv, EndpointTypeOK, Stage
<1>5. AtLoop' /\ Ahead'
  BY <1>1, <1>2 DEF EndpointInv, AtLoop, Ahead
<1>6. Behind'
  BY <1>1, <1>2 DEF EndpointInv, Behind, Lies, Precedes
<1> QED BY <1>4, <1>5, <1>6 DEF EndpointInv

LEMMA EndpointInvStep ==
  EndpointInv /\ (EndpointSteps \/ OwnerChanges \/ UNCHANGED endpointVars) => EndpointInv'
  BY OwnerKeeps, ArriveKeeps, AppliedKeeps, OtherStepsKeep DEF EndpointSteps

LEMMA OutsideSteps ==
  [CallsNext]_callsVars => EndpointSteps \/ OwnerChanges \/ UNCHANGED endpointVars
  BY DEF CallsNext, Outside, Owner, Chained, Logic, Reflects, Finish, callsVars

LEMMA CallsEndpointInv == CallsSpec => []EndpointInv
<1>1. CallsInit => EndpointInv
  BY EndpointInvInit DEF CallsInit
<1>2. EndpointInv /\ [CallsNext]_callsVars => EndpointInv'
  BY EndpointInvStep, OutsideSteps
<1> QED BY <1>1, <1>2, PTL DEF CallsSpec

\* chain() passes over no middleware that was in the array all the time,
\* however long the array is and whatever is appended or removed meanwhile.
THEOREM GuardedTrue == CallsSpec => []Guarded
<1>1. EndpointInv => Guarded
  BY DEF EndpointInv, Ahead, Guarded
<1> QED BY <1>1, CallsEndpointInv, PTL

\* The first middleware is called first, however the array grows meanwhile.
THEOREM InOrderTrue == CallsSpec => []InOrder
<1>1. EndpointInv => InOrder
  BY DEF EndpointInv, Behind, InOrder
<1> QED BY <1>1, CallsEndpointInv, PTL

-----------------------------------------------------------------------------
(***************************************************************************)
(* The handler of the reflection service.  It reads one request at a time, *)
(* so the answer it looks at, of the read that comes after as many as it   *)
(* has written responses, is the request with that number (AnswersDue); a  *)
(* 'stream end' there means that there is no such request.                 *)
(***************************************************************************)
Statuses == UNION {Outcomes(Request[m]) : m \in Msg}

LoopsOK ==
  /\ kind = "biDirectional"
  /\ Len(responses) = written
  /\ written <= Len(received) /\ written <= Len(answers) /\ Len(answers) <= written + 1
  /\ \A k \in 1..written : responses[k].to = received[k]
  /\ ended = 1 /\ ~broken => end /\ written = Len(received)
  /\ broken => /\ written < Len(received)
               /\ "throws" \in Outcomes(Request[received[written + 1]])

LoopsInv ==
  /\ service \in {"any", "reflection"}
  /\ responses \in Seq([to : Msg, status : Statuses])
  /\ broken \in BOOLEAN
  /\ service = "reflection" => LoopsOK

LEMMA LoopsInit == CallsInit => LoopsInv
<1> SUFFICES ASSUME CallsInit PROVE LoopsInv
  OBVIOUS
<1>1. /\ responses = <<>> /\ broken = FALSE /\ written = 0 /\ ended = 0
      /\ received = <<>> /\ answers = <<>>
      /\ service \in {"any", "reflection"}
      /\ service = "reflection" => kind = "biDirectional"
  BY DEF CallsInit, CallInit, ReflectionInit, Init
<1>2. Len(responses) = 0 /\ Len(received) = 0 /\ Len(answers) = 0
  BY <1>1
<1>3. responses \in Seq([to : Msg, status : Statuses])
  BY <1>1
<1>4. broken \in BOOLEAN
  BY <1>1, Zenon
<1>5. service = "reflection" => LoopsOK
  BY <1>1, <1>2 DEF LoopsOK
<1> QED BY <1>1, <1>3, <1>4, <1>5 DEF LoopsInv

\* What is not a step of the handler leaves what it has done, and at most
\* adds a request or ends the stream.
LEMMA AroundLoop ==
  ASSUME CallInv, service = "reflection", [CallsNext]_callsVars, ~Reflects
  PROVE  /\ UNCHANGED <<kind, written, ended, responses, broken, service>>
         /\ Len(answers') = Len(answers)
         /\ \/ received' = received /\ (end => end')
            \/ \E m \in Msg : ~end /\ end' = end /\ received' = Append(received, m)
<1> DEFINE Keeps == UNCHANGED <<kind, written, ended, responses, broken, service>>
<1>1. IInv
  BY DEF CallInv
<1>2. ASSUME NEW m \in Msg, ClientData(m) /\ UNCHANGED Outside
      PROVE  Keeps /\ Len(answers') = Len(answers)
             /\ ~end /\ end' = end /\ received' = Append(received, m)
  BY <1>1, <1>2, LengthAfter DEF ClientData, OnData, Outside, callVars, reflectionVars
<1>3. CASE ClientEnd /\ UNCHANGED Outside
  BY <1>1, <1>3, LengthAfter DEF ClientEnd, OnEnd, Outside, callVars, reflectionVars
<1>4. CASE Owner \/ Chained
  BY <1>4 DEF Owner, Chained, vars, callVars, streamVars, reflectionVars
<1>5. CASE Finish
  BY <1>5 DEF Finish, HandlerReturn, HandlerThrow, streamVars, Outside, reflectionVars
<1>6. CASE /\ UNCHANGED Outside
           /\ MapError \/ ThenCallback \/ CatchCallback \/ CatchLog
  BY <1>6 DEF MapError, ThenCallback, CatchCallback, CatchLog, NextLink, streamVars,
              Outside, reflectionVars
<1>7. CASE UNCHANGED callsVars
  BY <1>7 DEF callsVars, vars, callVars, streamVars, reflectionVars
<1>8. ~Logic
  BY DEF Logic, InLogic
<1> QED BY <1>2, <1>3, <1>4, <1>5, <1>6, <1>7, <1>8 DEF CallsNext

LEMMA AroundLoopKeeps ==
  ASSUME CallInv, LoopsInv, service = "reflection", [CallsNext]_callsVars, ~Reflects
  PROVE  LoopsInv'
<1>1. /\ kind' = kind /\ written' = written /\ ended' = ended /\ responses' = responses
      /\ broken' = broken /\ service' = service /\ Len(answers') = Len(answers)
  BY AroundLoop
<1>2. /\ LoopsOK /\ written \in Nat /\ received \in Seq(Msg) /\ Len(received) \in Nat
  BY CallAssumption DEF LoopsInv, CallInv, IInv, TypeOK, WritesOK
<1>3. CASE received' = received /\ (end => end')
  BY <1>1, <1>2, <1>3 DEF LoopsInv, LoopsOK
<1>4. ASSUME NEW m \in Msg, ~end, end' = end, received' = Append(received, m)
      PROVE  LoopsInv'
  <2>1. /\ Len(received') = Len(received) + 1
        /\ \A i \in 1..Len(received) : received'[i] = received[i]
    BY <1>2, <1>4, AppendFacts
  <2>2. \A k \in 1..written : k \in 1..Len(received) /\ responses[k].to = received[k]
    BY <1>2 DEF LoopsOK
  <2>3. broken => written + 1 \in 1..Len(received)
    BY <1>2 DEF LoopsOK
  <2>4. LoopsOK'
    BY <1>1, <1>2, <1>4, <2>1, <2>2, <2>3 DEF LoopsOK
  <2> QED BY <1>1, <2>4 DEF LoopsInv
<1> QED BY <1>3, <1>4, AroundLoop

\* The request the handler looks at is the next one without a response.
LEMMA CurrentIsNext ==
  ASSUME CallInv, LoopsOK, Len(answers) > written
  PROVE  /\ Len(answers) = written + 1 /\ Current = answers[written + 1]
         /\ Current \in Msg => /\ written + 1 <= Len(received)
                               /\ Current = received[written + 1]
         /\ Current = StreamEnd => end /\ written = Len(received)
<1>1. /\ IInv /\ written \in Nat /\ Len(answers) \in Nat /\ Len(received) \in Nat
      /\ DOMAIN answers = 1..Len(answers)
  BY CallAssumption, Counts DEF CallInv, WritesOK
<1>2. Len(answers) = written + 1 /\ answers # <<>> /\ written <= Len(received)
  <2>1. Len(answers) <= written + 1 /\ written <= Len(received)
    BY Zenon DEF LoopsOK
  <2>2. \A n, w \in Nat : n > w /\ n <= w + 1 => n = w + 1 /\ n # 0
    OBVIOUS
  <2>3. Len(answers) = written + 1 /\ Len(answers) # 0
    BY <1>1, <2>1, <2>2, Zenon
  <2>4. answers # <<>>
    <3>1. Len(<<>>) = 0
      OBVIOUS
    <3> QED BY <2>3, <3>1, Zenon
  <2> QED BY <2>1, <2>3, <2>4, Zenon
<1>3. Current = answers[written + 1]
  BY <1>2 DEF Current
<1>4. Current = Fifo!Due(received, end, written + 1)
  <2>1. written + 1 \in 1..Len(answers)
    BY <1>1, <1>2
  <2> QED BY <1>1, <1>3, <2>1 DEF IInv, AnswersDue, Due
<1>5. CASE written + 1 <= Len(received)
  <2>1. Current = received[written + 1]
    BY <1>4, <1>5 DEF Fifo!Due
  <2>2. received[written + 1] \in Msg
    BY <1>1, <1>5 DEF IInv, TypeOK
  <2> QED BY <1>2, <1>3, <1>5, <2>1, <2>2, StreamAssumption
<1>6. CASE ~(written + 1 <= Len(received))
  <2>1. Current = IF end THEN StreamEnd ELSE Waiting
    BY <1>4, <1>6 DEF Fifo!Due
  <2>2. written = Len(received)
    BY <1>1, <1>2, <1>6
  <2> QED BY <1>2, <1>3, <2>1, <2>2, StreamAssumption
<1> QED BY <1>5, <1>6

LEMMA LoopKeeps ==
  ASSUME CallInv, LoopsInv, service = "reflection", Reflects
  PROVE  LoopsInv'
<1>1. /\ LoopsOK /\ IInv /\ written \in Nat /\ Len(received) \in Nat /\ Len(answers) \in Nat
      /\ service' = service
      /\ responses \in Seq([to : Msg, status : Statuses])
  BY CallAssumption, Counts DEF LoopsInv, CallInv, WritesOK, Reflects
<1>2. CASE NextRequest
  <2>1. /\ UNCHANGED <<kind, written, ended, responses, broken>> /\ Len(answers) = written
        /\ received' = received /\ end' = end
    BY <1>2 DEF NextRequest, HandlerRead, Read, callVars, reflectionVars
  <2>2. Len(answers') = written + 1
    BY <1>1, <1>2, <2>1, LengthAfter DEF NextRequest, HandlerRead
  <2> QED BY <1>1, <2>1, <2>2 DEF LoopsInv, LoopsOK
<1>3. CASE Respond
  <2>1. /\ Len(answers) > written /\ Current \in Msg /\ ended = 0 /\ ~broken
        /\ written' = written + 1
        /\ UNCHANGED <<kind, ended, broken, received, answers, end>>
    BY <1>3 DEF Respond, IsRequest, InLoop, HandlerWrite, streamVars
  <2>2. PICK status \in Outcomes(Request[Current]) \ {"throws"} :
          responses' = Append(responses, [to |-> Current, status |-> status])
    BY <1>3 DEF Respond
  <2>3. [to |-> Current, status |-> status] \in [to : Msg, status : Statuses]
    BY <2>1 DEF Statuses
  <2>4. /\ responses' \in Seq([to : Msg, status : Statuses])
        /\ Len(responses') = written + 1
        /\ \A k \in 1..written : responses'[k] = responses[k]
        /\ responses'[written + 1] = [to |-> Current, status |-> status]
    BY <1>1, <2>2, <2>3, AppendFacts DEF LoopsOK
  <2>5. Len(answers) = written + 1 /\ written + 1 <= Len(received)
        /\ Current = received[written + 1]
    BY <1>1, <2>1, CurrentIsNext
  <2>6. \A k \in 1..(written + 1) : responses'[k].to = received[k]
    <3>1. \A k \in 1..written : responses'[k].to = received[k]
      BY <1>1, <2>4 DEF LoopsOK
    <3>2. responses'[written + 1].to = received[written + 1]
      BY <2>4, <2>5
    <3> QED BY <1>1, <3>1, <3>2
  <2>7. LoopsOK'
    BY <1>1, <2>1, <2>4, <2>5, <2>6 DEF LoopsOK
  <2> QED BY <1>1, <2>1, <2>4, <2>7 DEF LoopsInv
<1>4. CASE BreakOff
  <2>1. /\ Len(answers) > written /\ Current \in Msg /\ ended = 0 /\ broken' = TRUE
        /\ "throws" \in Outcomes(Request[Current])
        /\ UNCHANGED <<kind, written, ended, responses, received, answers, end>>
    BY <1>4 DEF BreakOff, IsRequest, InLoop, vars, callVars, streamVars
  <2>2. written + 1 <= Len(received) /\ Current = received[written + 1]
    BY <1>1, <2>1, CurrentIsNext
  <2>3. broken' \in BOOLEAN
    BY <2>1, Zenon
  <2>4. written < Len(received)
    BY <1>1, <2>2
  <2> QED BY <1>1, <2>1, <2>2, <2>3, <2>4 DEF LoopsInv, LoopsOK
<1>5. CASE EndOfCall
  <2>1. /\ broken \/ Current = StreamEnd
        /\ UNCHANGED <<kind, written, responses, broken, received, answers, end>>
        /\ Running
    BY <1>5 DEF EndOfCall, LoopEnds, HandlerEnd, reflectionVars, streamVars
  <2>2. ASSUME ~broken PROVE end /\ written = Len(received)
    <3>1. Current = StreamEnd
      BY <2>1, <2>2
    <3>2. CASE Len(answers) > written
      BY <1>1, <3>1, <3>2, CurrentIsNext
    <3>3. CASE Len(answers) = written
      <4>1. answers # <<>> /\ Len(answers) \in 1..Len(answers)
            /\ Current = answers[Len(answers)]
        <5>1. answers # <<>>
          BY <3>1, StreamAssumption DEF Current
        <5>2. answers \in Seq(Answer)
          BY <1>1 DEF IInv, TypeOK
        <5> QED BY <5>1, <5>2 DEF Current
      <4>2. answers[Len(answers)] = Fifo!Due(received, end, Len(answers))
        BY <1>1, <4>1 DEF IInv, AnswersDue, Due
      <4>3. Len(answers) <= Len(received)
        BY <1>1, <3>3 DEF LoopsOK
      <4>4. answers[Len(answers)] \in Msg
        BY <1>1, <4>1, <4>2, <4>3 DEF IInv, TypeOK, Fifo!Due
      <4> QED BY <3>1, <4>1, <4>4, StreamAssumption
    <3> QED BY <1>1, <3>2, <3>3 DEF LoopsOK
  <2>3. LoopsOK'
    BY <1>1, <2>1, <2>2 DEF LoopsOK
  <2> QED BY <1>1, <2>1, <2>3 DEF LoopsInv
<1> QED BY <1>2, <1>3, <1>4, <1>5 DEF Reflects, ReflectionSteps

LEMMA LoopsStep == CallInv /\ LoopsInv /\ [CallsNext]_callsVars => LoopsInv'
<1> SUFFICES ASSUME CallInv, LoopsInv, [CallsNext]_callsVars PROVE LoopsInv'
  OBVIOUS
<1>1. CASE service = "reflection"
  BY <1>1, LoopKeeps, AroundLoopKeeps
<1>2. CASE service # "reflection"
  <2>1. UNCHANGED <<service, responses, broken>>
    BY <1>2 DEF CallsNext, Outside, Owner, Chained, Logic, Reflects, InLogic, Finish,
                callsVars, reflectionVars
  <2> QED BY <1>2, <2>1 DEF LoopsInv
<1> QED BY <1>1, <1>2

LEMMA CallsLoopsInv == CallsSpec => []LoopsInv
  BY LoopsInit, LoopsStep, CallsCallInv, PTL DEF CallsSpec

\* The k-th response is for the k-th request, whatever the interleaving of
\* the client and the handler; a call that is ended has answered them all, or
\* stopped at the first whose lookup threw.
THEOREM RespondedTrue == CallsSpec => []RespondedInOrder
<1>1. CallInv /\ LoopsInv => RespondedInOrder
  <2> SUFFICES ASSUME CallInv, LoopsInv, service = "reflection"
               PROVE  /\ Len(responses) <= Len(received)
                      /\ \A k \in DOMAIN responses : responses[k].to = received[k]
                      /\ ended = 1 /\ ~broken => Len(responses) = Len(received)
                      /\ broken =>
                           /\ Len(responses) < Len(received)
                           /\ "throws" \in Outcomes(Request[received[Len(responses) + 1]])
    BY DEF RespondedInOrder
  <2>1. LoopsOK /\ DOMAIN responses = 1..Len(responses)
    BY DEF LoopsInv
  <2> QED BY <2>1 DEF LoopsOK
<1> QED BY <1>1, CallsCallInv, CallsLoopsInv, PTL

\* All variables keep their types in every reachable state of a call.
THEOREM CallsTypeTrue == CallsSpec => []CallsTypeOK
<1>1. LoopsInv => ReflectionTypeOK /\ service \in {"any", "reflection"}
  <2> SUFFICES ASSUME LoopsInv PROVE ReflectionTypeOK /\ service \in {"any", "reflection"}
    OBVIOUS
  <2>1. \A k \in DOMAIN responses : responses[k] \in [to : Msg, status : Statuses]
    <3> DEFINE R == [to : Msg, status : Statuses]
    <3>1. responses \in Seq(R)
      BY DEF LoopsInv
    <3> HIDE DEF R
    <3>2. \A k \in DOMAIN responses : responses[k] \in R
      BY <3>1
    <3> QED BY <3>2 DEF R
  <2>2. \A k \in DOMAIN responses : responses[k].to \in Msg
    BY <2>1
  <2> QED BY <2>2, Zenon DEF LoopsInv, ReflectionTypeOK
<1>2. CallInv /\ EndpointInv /\ LoopsInv => CallsTypeOK
  BY <1>1, TypesOfCall DEF CallsTypeOK, EndpointInv
<1> QED BY <1>2, CallsCallInv, CallsEndpointInv, CallsLoopsInv, PTL
=============================================================================
