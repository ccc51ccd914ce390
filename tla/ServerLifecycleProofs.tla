----------------------- MODULE ServerLifecycleProofs -----------------------
(***************************************************************************)
(* Proofs about ServerLifecycle for every set of transports and services.  *)
(***************************************************************************)
EXTENDS ServerLifecycle, TLAPS

\* The types of the variables the arguments below are about.
OpsOK == /\ pc \in [Op -> {"idle", "running", "done", "failed"}]
         /\ pos \in [Op -> 0..N]
         /\ prov \in [Transport -> {"new", "serving", "stopping", "stopped"}]
         /\ registered \in [Transport -> SUBSET Service]
         /\ bound \in [Service -> BOOLEAN]

LEMMA OpNames == /\ "start" \in Op /\ "end" \in Op
                 /\ \A s \in Service : s \in Op /\ s # "start" /\ s # "end"
  BY LifecycleAssumption DEF Op

LEMMA Numbers == N \in Nat /\ N > 0 /\ Transport = 1..N
  BY LifecycleAssumption DEF Transport

-----------------------------------------------------------------------------
\* What an operation that yields or settles does to pc and pos.
LEMMA Moves ==
  ASSUME OpsOK, NEW o \in Op
  PROVE  /\ \A i \in 0..N : YieldsTo(o, i) =>
              /\ pc' \in [Op -> {"idle", "running", "done", "failed"}]
              /\ pos' \in [Op -> 0..N]
              /\ pc'[o] = "running" /\ pos'[o] = i
         /\ \A how \in {"done", "failed"} : Settles(o, how) =>
              /\ pc' \in [Op -> {"idle", "running", "done", "failed"}]
              /\ pos' \in [Op -> 0..N]
              /\ pc'[o] = how
         /\ \A i, how : (YieldsTo(o, i) \/ Settles(o, how)) =>
              \A p \in Op : p # o => pc'[p] = pc[p] /\ pos'[p] = pos[p]
  <1> USE Numbers
  <1>1. ASSUME NEW i \in 0..N, YieldsTo(o, i)
        PROVE  /\ pc' \in [Op -> {"idle", "running", "done", "failed"}]
               /\ pos' \in [Op -> 0..N]
               /\ pc'[o] = "running" /\ pos'[o] = i
    BY <1>1 DEF OpsOK, YieldsTo
  <1>2. ASSUME NEW how \in {"done", "failed"}, Settles(o, how)
        PROVE  /\ pc' \in [Op -> {"idle", "running", "done", "failed"}]
               /\ pos' \in [Op -> 0..N]
               /\ pc'[o] = how
    BY <1>2 DEF OpsOK, Settles
  <1>3. ASSUME NEW i, NEW how, YieldsTo(o, i) \/ Settles(o, how),
               NEW p \in Op, p # o
        PROVE  pc'[p] = pc[p] /\ pos'[p] = pos[p]
    BY <1>3 DEF OpsOK, YieldsTo, Settles
  <1> QED BY <1>1, <1>2, <1>3

\* One step of bind: the service ends up on the transport it yields to.
LEMMA BindFromFacts ==
  ASSUME OpsOK, NEW s \in Service, NEW from \in 0..N, BindFrom(s, from)
  PROVE  /\ pc' \in [Op -> {"idle", "running", "done", "failed"}]
         /\ pos' \in [Op -> 0..N]
         /\ \A p \in Op : p # s => pc'[p] = pc[p] /\ pos'[p] = pos[p]
         /\ registered' \in [Transport -> SUBSET Service]
         /\ \A i \in Transport : registered[i] \subseteq registered'[i]
         /\ pc'[s] = "running" => pos'[s] \in Transport /\ s \in registered'[pos'[s]]
  <1> USE OpNames, Numbers
  <1>1. CASE Settles(s, "done") /\ registered' = registered
    BY <1>1, Moves DEF OpsOK
  <1>2. CASE Settles(s, "failed") /\ registered' = registered
    BY <1>2, Moves DEF OpsOK
  <1>3. ASSUME NEW i \in Remaining(s, from), YieldsTo(s, i),
               registered' = [registered EXCEPT ![i] = @ \cup {s}]
        PROVE  /\ pc' \in [Op -> {"idle", "running", "done", "failed"}]
               /\ pos' \in [Op -> 0..N]
               /\ \A p \in Op : p # s => pc'[p] = pc[p] /\ pos'[p] = pos[p]
               /\ registered' \in [Transport -> SUBSET Service]
               /\ \A j \in Transport : registered[j] \subseteq registered'[j]
               /\ pos'[s] \in Transport /\ s \in registered'[pos'[s]]
    <2>1. i \in Transport /\ i \in 0..N
      BY DEF Remaining, Targets
    <2>2. /\ registered' \in [Transport -> SUBSET Service]
          /\ \A j \in Transport : registered[j] \subseteq registered'[j]
          /\ s \in registered'[i]
      BY <1>3, <2>1 DEF OpsOK
    <2> QED BY <1>3, <2>1, <2>2, Moves
  <1> QED BY <1>1, <1>2, <1>3 DEF BindFrom

\* One step of start and of end: no other operation moves.
LEMMA StartFromFacts ==
  ASSUME OpsOK, NEW from \in 0..N, StartFrom(from)
  PROVE  /\ pc' \in [Op -> {"idle", "running", "done", "failed"}]
         /\ pos' \in [Op -> 0..N]
         /\ \A p \in Op : p # "start" => pc'[p] = pc[p] /\ pos'[p] = pos[p]
         /\ prov' \in [Transport -> {"new", "serving", "stopping", "stopped"}]
         /\ bound' = bound
  <1> USE OpNames, Numbers
  <1>1. CASE from = N /\ Settles("start", "done") /\ Marks("SERVING") /\ UNCHANGED prov
    BY <1>1, Moves DEF OpsOK, Marks
  <1>2. CASE Settles("start", "failed") /\ UNCHANGED <<prov, healthVars, probe>>
    BY <1>2, Moves DEF OpsOK, healthVars
  <1>3. CASE /\ from < N /\ prov' = [prov EXCEPT ![from + 1] = "serving"]
             /\ YieldsTo("start", from + 1) /\ UNCHANGED <<healthVars, probe>>
    <2>1. from + 1 \in 0..N
      BY <1>3
    <2>2. prov' \in [Transport -> {"new", "serving", "stopping", "stopped"}]
      BY <1>3 DEF OpsOK
    <2>3. bound' = bound
      BY <1>3 DEF healthVars
    <2> QED BY <1>3, <2>1, <2>2, <2>3, Moves
  <1> QED BY <1>1, <1>2, <1>3 DEF StartFrom

LEMMA EndFromFacts ==
  ASSUME OpsOK, NEW from \in 0..N, EndFrom(from)
  PROVE  /\ pc' \in [Op -> {"idle", "running", "done", "failed"}]
         /\ pos' \in [Op -> 0..N]
         /\ \A p \in Op : p # "end" => pc'[p] = pc[p] /\ pos'[p] = pos[p]
         /\ prov' \in [Transport -> {"new", "serving", "stopping", "stopped"}]
         /\ bound' = bound
  <1> USE OpNames, Numbers
  <1>1. CASE from = N /\ Settles("end", "done") /\ Marks("NOT_SERVING") /\ UNCHANGED prov
    BY <1>1, Moves DEF OpsOK, Marks
  <1>2. CASE /\ from < N
             /\ prov' = [prov EXCEPT ![from + 1] =
                   IF from + 1 \notin Grpc \/ @ = "stopped" THEN "stopped" ELSE "stopping"]
             /\ YieldsTo("end", from + 1) /\ UNCHANGED <<healthVars, probe>>
    <2>1. from + 1 \in 0..N
      BY <1>2
    <2>2. prov' \in [Transport -> {"new", "serving", "stopping", "stopped"}]
      BY <1>2 DEF OpsOK
    <2>3. bound' = bound
      BY <1>2 DEF healthVars
    <2> QED BY <1>2, <2>1, <2>2, <2>3, Moves
  <1> QED BY <1>1, <1>2 DEF EndFrom

\* The steps that touch neither an operation nor a binding.
Aside == \/ Attach \/ CheckAnswers \/ CheckEmitsElsewhere
         \/ \E i \in Transport : \/ ShutdownDone(i) \/ CallArrives(i)
                                 \/ CallFinishes(i) \/ CallHangs(i) \/ CheckEmits(i)

LEMMA AsideFacts ==
  ASSUME OpsOK, Aside
  PROVE  /\ pc' = pc /\ pos' = pos /\ registered' = registered
         /\ bound' = bound /\ status' = status
         /\ prov' \in [Transport -> {"new", "serving", "stopping", "stopped"}]
         /\ \A i \in Transport : prov[i] = "serving" => prov'[i] = "serving"
  <1>1. CASE Attach
    BY <1>1 DEF Attach, opVars, provVars, OpsOK
  <1>2. CASE CheckAnswers
    BY <1>2 DEF CheckAnswers, opVars, provVars, healthVars, OpsOK
  <1>3. ASSUME NEW i \in Transport, ShutdownDone(i)
        PROVE  /\ pc' = pc /\ pos' = pos /\ registered' = registered
               /\ bound' = bound /\ status' = status
               /\ prov' \in [Transport -> {"new", "serving", "stopping", "stopped"}]
               /\ \A j \in Transport : prov[j] = "serving" => prov'[j] = "serving"
    BY <1>3 DEF ShutdownDone, opVars, healthVars, OpsOK
  <1>4. ASSUME NEW i \in Transport,
               CallArrives(i) \/ CallFinishes(i) \/ CallHangs(i) \/ CheckEmits(i)
        PROVE  UNCHANGED <<opVars, provVars, healthVars>>
    BY <1>4 DEF CallArrives, CallFinishes, CallHangs, CheckEmits
  <1>5. CASE CheckEmitsElsewhere
    BY <1>5 DEF CheckEmitsElsewhere, opVars, provVars, healthVars, OpsOK
  <1> QED BY <1>1, <1>2, <1>3, <1>4, <1>5 DEF Aside, opVars, provVars, healthVars, OpsOK

LEMMA Cases ==
  ASSUME [Next]_vars
  PROVE  \/ \E s \in Service : BindCall(s) \/ BindResume(s)
         \/ StartCall \/ StartResume \/ EndCall \/ EndResume
         \/ Aside \/ UNCHANGED vars
  BY DEF Next, Aside

-----------------------------------------------------------------------------
(***************************************************************************)
(* BoundIsRegistered.  'bound' is emitted one microtask after the provider *)
(* has registered the service: the invariant that makes it inductive says  *)
(* that a running bind is registered on the transport it has yielded to.   *)
(***************************************************************************)
YieldedIsRegistered == \A s \in Service :
  pc[s] = "running" => pos[s] \in Transport /\ s \in registered[pos[s]]

BoundInv == OpsOK /\ YieldedIsRegistered /\ BoundIsRegistered

LEMMA InitBoundInv == Init => BoundInv
  <1> USE OpNames, Numbers
  <1>1. SUFFICES ASSUME Init PROVE BoundInv
    OBVIOUS
  <1>2. OpsOK
    BY <1>1 DEF Init, OpsOK
  <1>3. YieldedIsRegistered
    BY <1>1 DEF Init, YieldedIsRegistered
  <1>4. BoundIsRegistered
    BY <1>1 DEF Init, BoundIsRegistered
  <1> QED BY <1>2, <1>3, <1>4 DEF BoundInv

LEMMA BindKeepsBoundInv ==
  ASSUME BoundInv, NEW s \in Service, BindCall(s) \/ BindResume(s)
  PROVE  BoundInv'
  <1> USE OpNames, Numbers
  <1>1. PICK from \in 0..N : BindFrom(s, from)
    <2>1. 0 \in 0..N /\ pos[s] \in 0..N
      BY DEF BoundInv, OpsOK
    <2> QED BY <2>1 DEF BindCall, BindResume
  <1>2. OpsOK
    BY DEF BoundInv
  <1>3. prov' = prov
    BY DEF BindCall, BindResume
  <1>4. \/ bound' = bound
        \/ bound' = [bound EXCEPT ![s] = TRUE] /\ pc[s] = "running"
    BY DEF BindCall, BindResume, OnBound, healthVars, Resumes
  <1>5. OpsOK'
    <2>1. bound' \in [Service -> BOOLEAN]
      BY <1>2, <1>4 DEF OpsOK
    <2> QED BY <1>1, <1>2, <1>3, <2>1, BindFromFacts DEF OpsOK
  <1>6. YieldedIsRegistered'
    <2>1. ASSUME NEW q \in Service, pc'[q] = "running"
          PROVE  pos'[q] \in Transport /\ q \in registered'[pos'[q]]
      <3>1. CASE q = s
        BY <1>1, <1>2, <2>1, <3>1, BindFromFacts
      <3>2. CASE q # s
        <4>1. pc[q] = "running" /\ pos'[q] = pos[q]
          BY <1>1, <1>2, <2>1, <3>2, BindFromFacts
        <4>2. pos[q] \in Transport /\ q \in registered[pos[q]]
          BY <4>1 DEF BoundInv, YieldedIsRegistered
        <4> QED BY <1>1, <1>2, <4>1, <4>2, BindFromFacts
      <3> QED BY <3>1, <3>2
    <2> QED BY <2>1 DEF YieldedIsRegistered
  <1>7. BoundIsRegistered'
    <2>1. ASSUME NEW q \in Service, bound'[q]
          PROVE  \E i \in Transport : q \in registered'[i]
      <3>1. CASE bound[q]
        BY <1>1, <1>2, <3>1, BindFromFacts DEF BoundInv, BoundIsRegistered
      <3>2. CASE ~bound[q]
        <4>1. q = s /\ pc[s] = "running"
          BY <1>2, <1>4, <2>1, <3>2 DEF OpsOK
        <4>2. pos[s] \in Transport /\ s \in registered[pos[s]]
          BY <4>1 DEF BoundInv, YieldedIsRegistered
        <4> QED BY <1>1, <1>2, <4>1, <4>2, BindFromFacts
      <3> QED BY <3>1, <3>2
    <2> QED BY <2>1 DEF BoundIsRegistered
  <1> QED BY <1>5, <1>6, <1>7 DEF BoundInv

\* start, end and all else leave the registrations and the flags alone.
LEMMA OthersKeepBoundInv ==
  ASSUME BoundInv, StartCall \/ StartResume \/ EndCall \/ EndResume \/ Aside
                   \/ UNCHANGED vars
  PROVE  BoundInv'
  <1> USE OpNames, Numbers
  <1>1. OpsOK /\ 0 \in 0..N /\ pos["start"] \in 0..N /\ pos["end"] \in 0..N
    BY DEF BoundInv, OpsOK
  <1>2. /\ registered' = registered /\ bound' = bound
        /\ pc' \in [Op -> {"idle", "running", "done", "failed"}]
        /\ pos' \in [Op -> 0..N]
        /\ prov' \in [Transport -> {"new", "serving", "stopping", "stopped"}]
        /\ \A s \in Service : pc'[s] = pc[s] /\ pos'[s] = pos[s]
    <2>1. CASE StartCall \/ StartResume
      BY <1>1, <2>1, StartFromFacts DEF StartCall, StartResume
    <2>2. CASE EndCall \/ EndResume
      BY <1>1, <2>2, EndFromFacts DEF EndCall, EndResume
    <2>3. CASE Aside
      BY <1>1, <2>3, AsideFacts DEF OpsOK
    <2>4. CASE UNCHANGED vars
      BY <1>1, <2>4 DEF vars, opVars, provVars, healthVars, OpsOK
    <2> QED BY <2>1, <2>2, <2>3, <2>4
  <1> QED BY <1>1, <1>2 DEF BoundInv, OpsOK, YieldedIsRegistered, BoundIsRegistered

\* What the health says of a service is true however operations overlap or
\* fail: one reported as bound is registered on a transport.
THEOREM BoundTrue == Spec => []BoundIsRegistered
  <1>1. BoundInv /\ [Next]_vars => BoundInv'
    BY Cases, BindKeepsBoundInv, OthersKeepBoundInv
  <1>2. BoundInv => BoundIsRegistered
    BY DEF BoundInv
  <1> QED BY InitBoundInv, <1>1, <1>2, PTL DEF Spec
-----------------------------------------------------------------------------
(***************************************************************************)
(* ServingIsTrue, up to a call of an operation that overlaps another.  It  *)
(* is inductive with what a running start() has done so far (StartedSoFar),*)
(* that no other operation runs meanwhile (OneRuns), and that a health     *)
(* nobody updates is UNKNOWN.                                              *)
(***************************************************************************)
OneRuns == \A o, p \in Op : pc[o] = "running" /\ pc[p] = "running" => o = p
StartedSoFar == pc["start"] = "running" =>
                  \A i \in 1..pos["start"] : prov[i] = "serving"
StatusIsTrue == status = "SERVING" =>
  (\A i \in Transport : prov[i] = "serving") \/ pc["end"] = "running"
UnknownUnlessAttached == ~attached => status # "SERVING"

ServingInv == /\ OpsOK /\ OneRuns /\ StartedSoFar
              /\ UnknownUnlessAttached /\ StatusIsTrue

LEMMA InitServingInv == Init => ServingInv
  <1> USE OpNames, Numbers
  <1>1. SUFFICES ASSUME Init PROVE ServingInv
    OBVIOUS
  <1>2. OpsOK
    BY <1>1 DEF Init, OpsOK
  <1>3. OneRuns /\ StartedSoFar
    BY <1>1 DEF Init, OneRuns, StartedSoFar
  <1>4. UnknownUnlessAttached /\ StatusIsTrue
    BY <1>1 DEF Init, UnknownUnlessAttached, StatusIsTrue
  <1> QED BY <1>2, <1>3, <1>4 DEF ServingInv

\* An operation that moves is the only one that runs.
LEMMA OneRunsKept ==
  ASSUME OneRuns, NEW o \in Op,
         pc[o] = "running" \/ \A p \in Op : pc[p] # "running",
         \A p \in Op : p # o => pc'[p] = pc[p]
  PROVE  OneRuns' /\ \A p \in Op : p # o => pc'[p] # "running"
  BY DEF OneRuns

LEMMA BindKeepsServing ==
  ASSUME ServingInv, ~overlapped', NEW s \in Service, BindCall(s) \/ BindResume(s)
  PROVE  ServingInv'
  <1> USE OpNames, Numbers
  <1>1. PICK from \in 0..N : BindFrom(s, from)
    <2>1. 0 \in 0..N /\ pos[s] \in 0..N
      BY DEF ServingInv, OpsOK
    <2> QED BY <2>1 DEF BindCall, BindResume
  <1>2. OpsOK /\ prov' = prov
    BY DEF ServingInv, BindCall, BindResume
  <1>3. /\ attached' = attached
        /\ status' = status \/ status' = "NOT_SERVING"
        /\ bound' = bound \/ bound' = [bound EXCEPT ![s] = TRUE]
    BY DEF BindCall, BindResume, OnBound, healthVars
  <1>4. OpsOK'
    <2>1. bound' \in [Service -> BOOLEAN]
      BY <1>2, <1>3 DEF OpsOK
    <2> QED BY <1>1, <1>2, <2>1, BindFromFacts DEF OpsOK
  <1>5. OneRuns' /\ \A p \in Op : p # s => pc'[p] = pc[p] /\ pc'[p] # "running"
    <2>1. \A p \in Op : p # s => pc'[p] = pc[p]
      BY <1>1, <1>2, BindFromFacts
    <2>2. pc[s] = "running" \/ \A p \in Op : pc[p] # "running"
      BY DEF BindCall, BindResume, Resumes, Called
    <2> QED BY <2>1, <2>2, OneRunsKept DEF ServingInv
  <1>6. StartedSoFar'
    BY <1>5 DEF StartedSoFar
  <1>7. UnknownUnlessAttached'
    BY <1>3 DEF ServingInv, UnknownUnlessAttached
  <1>8. StatusIsTrue'
    <2>1. pc'["end"] = pc["end"]
      BY <1>5
    <2> QED BY <1>2, <1>3, <2>1 DEF ServingInv, StatusIsTrue
  <1> QED BY <1>4, <1>5, <1>6, <1>7, <1>8 DEF ServingInv

LEMMA StartKeepsServing ==
  ASSUME ServingInv, ~overlapped', StartCall \/ StartResume
  PROVE  ServingInv'
  <1> USE OpNames, Numbers
  <1>1. PICK from \in 0..N : /\ StartFrom(from)
                             /\ \A i \in 1..from : prov[i] = "serving"
    <2>1. 0 \in 0..N /\ pos["start"] \in 0..N /\ 1..0 = {}
      BY DEF ServingInv, OpsOK
    <2>2. CASE StartCall
      BY <2>1, <2>2 DEF StartCall
    <2>3. CASE StartResume
      BY <2>1, <2>3 DEF StartResume, Resumes, ServingInv, StartedSoFar
    <2> QED BY <2>2, <2>3
  <1>2. OpsOK
    BY DEF ServingInv
  <1>3. registered' = registered
    BY DEF StartCall, StartResume
  <1>4. OpsOK'
    BY <1>1, <1>2, <1>3, StartFromFacts DEF OpsOK
  <1>5. OneRuns' /\ \A p \in Op : p # "start" => pc'[p] = pc[p] /\ pc'[p] # "running"
    <2>1. \A p \in Op : p # "start" => pc'[p] = pc[p]
      BY <1>1, <1>2, StartFromFacts
    <2>2. pc["start"] = "running" \/ \A p \in Op : pc[p] # "running"
      BY DEF StartCall, StartResume, Resumes, Called
    <2> QED BY <2>1, <2>2, OneRunsKept DEF ServingInv
  <1>6. CASE from = N /\ Settles("start", "done") /\ Marks("SERVING") /\ prov' = prov
    <2>1. pc'["start"] # "running"
      BY <1>2, <1>6 DEF Settles, OpsOK
    <2>2. StartedSoFar' /\ StatusIsTrue'
      BY <1>1, <1>6, <2>1 DEF StartedSoFar, StatusIsTrue
    <2>3. UnknownUnlessAttached'
      BY <1>6 DEF Marks, ServingInv, UnknownUnlessAttached
    <2> QED BY <1>4, <1>5, <2>2, <2>3 DEF ServingInv
  <1>7. CASE Settles("start", "failed") /\ UNCHANGED <<prov, healthVars, probe>>
    <2>1. pc'["start"] # "running" /\ pc'["end"] = pc["end"]
      BY <1>2, <1>5, <1>7 DEF Settles, OpsOK
    <2>2. StartedSoFar' /\ UnknownUnlessAttached' /\ StatusIsTrue'
      BY <1>7, <2>1 DEF StartedSoFar, healthVars, ServingInv,
                        UnknownUnlessAttached, StatusIsTrue
    <2> QED BY <1>4, <1>5, <2>2 DEF ServingInv
  <1>8. CASE /\ from < N /\ prov' = [prov EXCEPT ![from + 1] = "serving"]
             /\ YieldsTo("start", from + 1) /\ UNCHANGED <<healthVars, probe>>
    <2>1. pos'["start"] = from + 1
      BY <1>2, <1>8 DEF YieldsTo, OpsOK
    <2>2. \A i \in Transport : prov'[i] = IF i = from + 1 THEN "serving" ELSE prov[i]
      BY <1>2, <1>8 DEF OpsOK
    <2>3. StartedSoFar'
      BY <1>1, <1>8, <2>1, <2>2 DEF StartedSoFar
    <2>4. UnknownUnlessAttached'
      BY <1>8 DEF healthVars, ServingInv, UnknownUnlessAttached
    <2>5. StatusIsTrue'
      BY <1>5, <1>8, <2>2 DEF healthVars, ServingInv, StatusIsTrue
    <2> QED BY <1>4, <1>5, <2>3, <2>4, <2>5 DEF ServingInv
  <1> QED BY <1>1, <1>6, <1>7, <1>8 DEF StartFrom

LEMMA EndKeepsServing ==
  ASSUME ServingInv, ~overlapped', EndCall \/ EndResume
  PROVE  ServingInv'
  <1> USE OpNames, Numbers
  <1>1. OpsOK /\ 0 \in 0..N /\ pos["end"] \in 0..N
    BY DEF ServingInv, OpsOK
  <1>2. PICK from \in 0..N : EndFrom(from)
    BY <1>1 DEF EndCall, EndResume
  <1>3. OpsOK'
    BY <1>1, <1>2, EndFromFacts DEF OpsOK, EndCall, EndResume
  <1>4. OneRuns' /\ \A p \in Op : p # "end" => pc'[p] # "running"
    <2>1. \A p \in Op : p # "end" => pc'[p] = pc[p]
      BY <1>1, <1>2, EndFromFacts
    <2>2. pc["end"] = "running" \/ \A p \in Op : pc[p] # "running"
      BY DEF EndCall, EndResume, Resumes, Called
    <2> QED BY <2>1, <2>2, OneRunsKept DEF ServingInv
  <1>5. StartedSoFar'
    BY <1>4 DEF StartedSoFar
  <1>6. UnknownUnlessAttached' /\ StatusIsTrue'
    <2>1. CASE Marks("NOT_SERVING")
      BY <2>1 DEF Marks, ServingInv, UnknownUnlessAttached, StatusIsTrue
    <2>2. CASE from < N /\ YieldsTo("end", from + 1) /\ UNCHANGED <<healthVars, probe>>
      <3>1. pc'["end"] = "running"
        BY <1>1, <2>2 DEF YieldsTo, OpsOK
      <3> QED BY <2>2, <3>1 DEF healthVars, ServingInv, UnknownUnlessAttached,
                                StatusIsTrue
    <2> QED BY <1>2, <2>1, <2>2 DEF EndFrom
  <1> QED BY <1>3, <1>4, <1>5, <1>6 DEF ServingInv

LEMMA AsideKeepsServing ==
  ASSUME ServingInv, Aside \/ UNCHANGED vars
  PROVE  ServingInv'
  <1> USE OpNames, Numbers
  <1>1. OpsOK
    BY DEF ServingInv
  <1>2. /\ pc' = pc /\ pos' = pos /\ registered' = registered
        /\ bound' = bound /\ status' = status
        /\ prov' \in [Transport -> {"new", "serving", "stopping", "stopped"}]
        /\ \A i \in Transport : prov[i] = "serving" => prov'[i] = "serving"
        /\ attached' = attached \/ attached' = TRUE
    <2>1. CASE Aside
      <3>1. attached' = attached \/ attached' = TRUE
        BY <2>1 DEF Aside, Attach, CheckAnswers, ShutdownDone, CallArrives,
                    CallFinishes, CallHangs, CheckEmits, CheckEmitsElsewhere, healthVars
      <3> QED BY <1>1, <2>1, <3>1, AsideFacts
    <2>2. CASE UNCHANGED vars
      BY <1>1, <2>2 DEF vars, opVars, provVars, healthVars, OpsOK
    <2> QED BY <2>1, <2>2
  <1>3. OpsOK' /\ OneRuns'
    BY <1>1, <1>2 DEF OpsOK, ServingInv, OneRuns
  <1>4. StartedSoFar'
    <2>1. ASSUME pc["start"] = "running", NEW i \in 1..pos["start"]
          PROVE  prov'[i] = "serving"
      <3>1. i \in Transport
        BY <1>1 DEF OpsOK
      <3> QED BY <1>2, <2>1, <3>1 DEF ServingInv, StartedSoFar
    <2> QED BY <1>2, <2>1 DEF StartedSoFar
  <1>5. UnknownUnlessAttached' /\ StatusIsTrue'
    BY <1>2 DEF ServingInv, UnknownUnlessAttached, StatusIsTrue
  <1> QED BY <1>3, <1>4, <1>5 DEF ServingInv

\* A step after which no operation has overlapped another.
LEMMA StepKeepsServing ==
  ASSUME overlapped \/ ServingInv, [Next]_vars
  PROVE  (overlapped \/ ServingInv)'
  <1>1. overlapped => overlapped'
    BY DEF Next, vars, opVars, BindCall, BindResume, StartCall, StartResume, EndCall,
           EndResume, Called, Resumes, Attach, ShutdownDone, CallArrives,
           CallFinishes, CallHangs, CheckEmits, CheckEmitsElsewhere, CheckAnswers
  <1>2. SUFFICES ASSUME ~overlapped' PROVE ServingInv'
    OBVIOUS
  <1>3. ServingInv
    BY <1>1, <1>2
  <1> QED BY <1>2, <1>3, Cases, BindKeepsServing, StartKeepsServing, EndKeepsServing,
             AsideKeepsServing

\* As long as operations are called one after the other, the health says
\* SERVING only while every transport serves or an end() is under way,
\* whatever fails, for any number of transports and services.
THEOREM ServingTrue == Spec => []ServingIsTrue
  <1>1. Init => overlapped \/ ServingInv
    BY InitServingInv
  <1>2. (overlapped \/ ServingInv) /\ [Next]_vars => (overlapped \/ ServingInv)'
    BY StepKeepsServing
  <1>3. overlapped \/ ServingInv => ServingIsTrue
    BY DEF ServingInv, StatusIsTrue, ServingIsTrue
  <1> QED BY <1>1, <1>2, <1>3, PTL DEF Spec
-----------------------------------------------------------------------------
(***************************************************************************)
(* Types.  The counters of calls stay within their bound because the calls *)
(* that are answered and those that hang are bounded together, and do not  *)
(* become negative because a check that is under way over gRPC is one of   *)
(* the calls of its transport, which no other call finishes in place of.   *)
(***************************************************************************)
CallsCapped == \A i \in Transport : InFlight(i) <= MaxCalls
CheckIsCall == probe.state = "emitted" /\ probe.at # 0 =>
                 probe.at \in Grpc /\ active[probe.at] >= 1

TypeInv == LifecycleTypeOK /\ CallsCapped /\ CheckIsCall

LEMMA TypeInit == Init => TypeInv
  <1> USE OpNames, Numbers
  <1>1. SUFFICES ASSUME Init PROVE TypeInv
    OBVIOUS
  <1>2. MaxRuns \in Nat /\ MaxCalls \in Nat
    BY LifecycleAssumption
  <1>3. LifecycleTypeOK
    <2>1. /\ pc \in [Op -> {"idle", "running", "done", "failed"}]
          /\ pos \in [Op -> 0..N] /\ runs \in [Op -> 0..MaxRuns]
      BY <1>1, <1>2 DEF Init
    <2>2. /\ registered \in [Transport -> SUBSET Service]
          /\ prov \in [Transport -> {"new", "serving", "stopping", "stopped"}]
          /\ inUse \subseteq Foreign
          /\ active \in [Transport -> 0..MaxCalls] /\ hung \in [Transport -> 0..MaxCalls]
      BY <1>1, <1>2 DEF Init
    <2>3. /\ attached \in BOOLEAN /\ status \in Status
          /\ bound \in [Service -> BOOLEAN]
          /\ svc \in [Service -> [Transport -> {"none", "SERVING", "NOT_SERVING"}]]
      BY <1>1 DEF Init, Status
    <2>4. probe \in [state : {"none", "emitted", "answered"}, at : 0..N,
                     said : Status, answer : Status, rebound : BOOLEAN]
      BY <1>1 DEF Init, Status
    <2>5. overlapped \in BOOLEAN
      BY <1>1, Zenon DEF Init
    <2> QED BY <2>1, <2>2, <2>3, <2>4, <2>5 DEF LifecycleTypeOK
  <1>4. CallsCapped /\ CheckIsCall
    BY <1>1, <1>2 DEF Init, CallsCapped, InFlight, CheckIsCall
  <1> QED BY <1>3, <1>4 DEF TypeInv

\* What remains to be shown of a step that leaves the calls alone.
LEMMA TypeOfOperation ==
  ASSUME TypeInv, NEW o \in Op, (Callable(o) /\ Called(o)) \/ Resumes(o),
         pc' \in [Op -> {"idle", "running", "done", "failed"}], pos' \in [Op -> 0..N],
         registered' \in [Transport -> SUBSET Service],
         prov' \in [Transport -> {"new", "serving", "stopping", "stopped"}],
         inUse' \subseteq inUse, UNCHANGED callVars,
         attached' = attached, status' \in Status, bound' \in [Service -> BOOLEAN],
         svc' \in [Service -> [Transport -> {"none", "SERVING", "NOT_SERVING"}]],
         probe' = probe \/ probe' = [probe EXCEPT !.rebound = TRUE]
  PROVE  TypeInv'
  <1> USE Numbers
  <1>1. runs' \in [Op -> 0..MaxRuns] /\ overlapped' \in BOOLEAN
    <2>1. CASE Callable(o) /\ Called(o)
      BY <2>1, LifecycleAssumption DEF Callable, Called, TypeInv, LifecycleTypeOK
    <2>2. CASE Resumes(o)
      BY <2>2 DEF Resumes, TypeInv, LifecycleTypeOK
    <2> QED BY <2>1, <2>2
  <1>2. /\ probe' \in [state : {"none", "emitted", "answered"}, at : 0..N,
                       said : Status, answer : Status, rebound : BOOLEAN]
        /\ probe'.state = probe.state /\ probe'.at = probe.at
    BY DEF TypeInv, LifecycleTypeOK
  <1>3. LifecycleTypeOK'
    BY <1>1, <1>2 DEF TypeInv, LifecycleTypeOK, callVars
  <1>4. CallsCapped' /\ CheckIsCall'
    BY <1>2 DEF TypeInv, CallsCapped, CheckIsCall, InFlight, callVars
  <1> QED BY <1>3, <1>4 DEF TypeInv

LEMMA TypeOfOperations ==
  ASSUME TypeInv, \/ \E s \in Service : BindCall(s) \/ BindResume(s)
                  \/ StartCall \/ StartResume \/ EndCall \/ EndResume
  PROVE  TypeInv'
  <1> USE OpNames, Numbers
  <1>1. OpsOK /\ 0 \in 0..N /\ \A o \in Op : pos[o] \in 0..N
    BY DEF TypeInv, LifecycleTypeOK, OpsOK
  <1>2. /\ status \in Status /\ "SERVING" \in Status /\ "NOT_SERVING" \in Status
        /\ bound \in [Service -> BOOLEAN]
        /\ svc \in [Service -> [Transport -> {"none", "SERVING", "NOT_SERVING"}]]
    BY DEF TypeInv, LifecycleTypeOK, Status
  <1>3. ASSUME NEW s \in Service, BindCall(s) \/ BindResume(s) PROVE TypeInv'
    <2>1. PICK from \in 0..N : BindFrom(s, from)
      BY <1>1, <1>3 DEF BindCall, BindResume
    <2>2. /\ attached' = attached /\ status' \in Status
          /\ bound' \in [Service -> BOOLEAN] /\ svc' = svc
          /\ probe' = probe \/ probe' = [probe EXCEPT !.rebound = TRUE]
      BY <1>2, <1>3 DEF BindCall, BindResume, OnBound, healthVars
    <2>3. prov' = prov /\ UNCHANGED <<inUse, callVars>>
          /\ \/ Callable(s) /\ Called(s)
             \/ Resumes(s)
      BY <1>3 DEF BindCall, BindResume
    <2>4. prov \in [Transport -> {"new", "serving", "stopping", "stopped"}]
      BY <1>1 DEF OpsOK
    <2> QED BY <1>1, <1>2, <2>1, <2>2, <2>3, <2>4, BindFromFacts, TypeOfOperation
  <1>4. ASSUME NEW st \in Status \ {"UNKNOWN"},
               Marks(st) \/ UNCHANGED <<healthVars, probe>>
        PROVE  /\ attached' = attached /\ status' \in Status /\ probe' = probe
               /\ svc' \in [Service -> [Transport -> {"none", "SERVING", "NOT_SERVING"}]]
    BY <1>2, <1>4 DEF Marks, healthVars, Status
  <1>5. CASE StartCall \/ StartResume
    <2>1. PICK from \in 0..N : StartFrom(from)
      BY <1>1, <1>5 DEF StartCall, StartResume
    <2>2. Marks("SERVING") \/ UNCHANGED <<healthVars, probe>>
      BY <2>1 DEF StartFrom
    <2>3. /\ registered' = registered /\ UNCHANGED <<inUse, callVars>>
          /\ \/ Callable("start") /\ Called("start")
             \/ Resumes("start")
      BY <1>5 DEF StartCall, StartResume
    <2>4. registered \in [Transport -> SUBSET Service]
      BY <1>1 DEF OpsOK
    <2> QED BY <1>1, <1>2, <1>4, <2>1, <2>2, <2>3, <2>4, StartFromFacts,
               TypeOfOperation DEF Status
  <1>6. CASE EndCall \/ EndResume
    <2>1. PICK from \in 0..N : EndFrom(from)
      BY <1>1, <1>6 DEF EndCall, EndResume
    <2>2. Marks("NOT_SERVING") \/ UNCHANGED <<healthVars, probe>>
      BY <2>1 DEF EndFrom
    <2>3. /\ registered' = registered /\ inUse' \subseteq inUse /\ UNCHANGED callVars
          /\ \/ Callable("end") /\ Called("end")
             \/ Resumes("end")
      BY <1>6, <2>1 DEF EndCall, EndResume, EndFrom
    <2>4. registered \in [Transport -> SUBSET Service]
      BY <1>1 DEF OpsOK
    <2> QED BY <1>1, <1>2, <1>4, <2>1, <2>2, <2>3, <2>4, EndFromFacts,
               TypeOfOperation DEF Status
  <1> QED BY <1>3, <1>5, <1>6

\* A call that begins, ends or is given up among those that are counted.
LEMMA Counted ==
  ASSUME NEW m \in Nat, NEW a \in 0..m, NEW h \in 0..m, a + h <= m
  PROVE  /\ a + h < m => a + 1 \in 0..m /\ a + 1 + h <= m
         /\ a >= 1 => /\ a - 1 \in 0..m /\ h + 1 \in 0..m
                      /\ a - 1 + h <= m /\ a - 1 + (h + 1) <= m
  OBVIOUS

\* The steps of calls: each moves one call of one transport.
LEMMA TypeOfCalls ==
  ASSUME TypeInv, Aside
  PROVE  TypeInv'
  <1> USE Numbers
  <1> DEFINE Probe == [state : {"none", "emitted", "answered"}, at : 0..N,
                       said : Status, answer : Status, rebound : BOOLEAN]
  <1>1. MaxCalls \in Nat /\ Grpc \subseteq Transport
    BY LifecycleAssumption
  <1>2. /\ active \in [Transport -> 0..MaxCalls] /\ hung \in [Transport -> 0..MaxCalls]
        /\ \A i \in Transport : InFlight(i) <= MaxCalls
        /\ probe \in Probe /\ status \in Status
    BY DEF TypeInv, LifecycleTypeOK, CallsCapped
  <1>3. CASE Attach
    BY <1>3 DEF Attach, opVars, provVars, callVars, TypeInv, LifecycleTypeOK,
                CallsCapped, CheckIsCall, InFlight
  <1>4. ASSUME NEW i \in Transport, ShutdownDone(i) PROVE TypeInv'
    BY <1>4 DEF ShutdownDone, opVars, callVars, healthVars, TypeInv, LifecycleTypeOK,
                CallsCapped, CheckIsCall, InFlight
  <1>5. ASSUME UNCHANGED <<opVars, provVars, healthVars>>,
               active' \in [Transport -> 0..MaxCalls],
               hung' \in [Transport -> 0..MaxCalls],
               \A i \in Transport : active'[i] + hung'[i] <= MaxCalls,
               probe' \in Probe, CheckIsCall'
        PROVE  TypeInv'
    BY <1>5 DEF opVars, provVars, healthVars, TypeInv, LifecycleTypeOK, CallsCapped,
                InFlight
  <1>6. ASSUME NEW i \in Transport, CallArrives(i) PROVE TypeInv'
    BY <1>1, <1>2, <1>5, <1>6 DEF CallArrives, CanArrive, InFlight, TypeInv, CheckIsCall
  <1>7. ASSUME NEW i \in Transport, CallFinishes(i) \/ CallHangs(i) PROVE TypeInv'
    <2>1. /\ active[i] >= 1
          /\ probe.state = "emitted" /\ probe.at = i => active[i] >= 2
      BY <1>2, <1>7 DEF CallFinishes, CallHangs, OtherCalls
    <2>2. /\ active' = [active EXCEPT ![i] = active[i] - 1] /\ probe' = probe
          /\ hung' = hung \/ hung' = [hung EXCEPT ![i] = hung[i] + 1]
          /\ UNCHANGED <<opVars, provVars, healthVars>>
      BY <1>7 DEF CallFinishes, CallHangs
    <2>3. /\ active' \in [Transport -> 0..MaxCalls]
          /\ hung' \in [Transport -> 0..MaxCalls]
          /\ \A j \in Transport : active'[j] + hung'[j] <= MaxCalls
      <3>1. active[i] \in 1..MaxCalls /\ hung[i] \in 0..MaxCalls
            /\ active[i] + hung[i] <= MaxCalls
        BY <1>1, <1>2, <2>1 DEF InFlight
      <3>2. hung[i] + 1 \in 0..MaxCalls /\ active[i] - 1 \in 0..MaxCalls
        BY <1>1, <3>1, Counted
      <3>3. \A j \in Transport : /\ active'[j] = IF j = i THEN active[i] - 1 ELSE active[j]
                                 /\ \/ hung'[j] = hung[j]
                                    \/ j = i /\ hung'[j] = hung[j] + 1
        BY <1>2, <2>2
      <3>4. \A j \in Transport : active[j] + hung[j] <= MaxCalls
        BY <1>2 DEF InFlight
      <3>5. \A j \in Transport : active'[j] + hung'[j] <= MaxCalls
        <4>1. active'[i] + hung'[i] <= MaxCalls
          <5>1. /\ active[i] - 1 + hung[i] <= MaxCalls
                /\ active[i] - 1 + (hung[i] + 1) <= MaxCalls
            BY <1>1, <1>2, <2>1, <3>1, Counted
          <5>2. active'[i] = active[i] - 1 /\ (hung'[i] = hung[i] \/ hung'[i] = hung[i] + 1)
            BY <3>3
          <5> QED BY <5>1, <5>2
        <4>2. \A j \in Transport : j # i => active'[j] = active[j] /\ hung'[j] = hung[j]
          BY <3>3
        <4> QED BY <3>4, <4>1, <4>2
      <3> QED BY <1>1, <1>2, <2>2, <3>2, <3>5
    <2>4. CheckIsCall'
      BY <1>1, <1>2, <2>1, <2>2 DEF TypeInv, CheckIsCall
    <2> QED BY <1>2, <1>5, <2>2, <2>3, <2>4
  <1>8. ASSUME NEW i \in Transport, CheckEmits(i) PROVE TypeInv'
    <2>1. /\ i \in Grpc /\ InFlight(i) < MaxCalls
          /\ active' = [active EXCEPT ![i] = @ + 1] /\ hung' = hung
          /\ probe' = [state |-> "emitted", at |-> i, said |-> status,
                       answer |-> status, rebound |-> FALSE]
          /\ UNCHANGED <<opVars, provVars, healthVars>>
      BY <1>8 DEF CheckEmits, Emits, CanArrive
    <2>2. probe' \in Probe /\ CheckIsCall'
      BY <1>1, <1>2, <2>1 DEF CheckIsCall
    <2>3. /\ active' \in [Transport -> 0..MaxCalls]
          /\ hung' \in [Transport -> 0..MaxCalls]
          /\ \A j \in Transport : active'[j] + hung'[j] <= MaxCalls
      <3>1. active[i] + 1 \in 0..MaxCalls /\ active[i] + hung[i] < MaxCalls
        BY <1>1, <1>2, <2>1 DEF InFlight
      <3>2. \A j \in Transport : active'[j] = IF j = i THEN active[i] + 1 ELSE active[j]
        BY <1>2, <2>1
      <3>3. \A j \in Transport : active[j] + hung[j] <= MaxCalls
        BY <1>2 DEF InFlight
      <3>4. \A j \in Transport : active'[j] + hung'[j] <= MaxCalls
        BY <1>1, <1>2, <2>1, <3>1, <3>2, <3>3, Counted
      <3> QED BY <1>1, <1>2, <2>1, <3>1, <3>4
    <2> QED BY <1>5, <2>1, <2>2, <2>3
  <1>9. CASE CheckAnswers
    <2>1. probe.at # 0 => probe.at \in Transport /\ active[probe.at] >= 1
      BY <1>1, <1>9 DEF CheckAnswers, TypeInv, CheckIsCall
    <2>2. /\ active' = [i \in Transport |->
                          IF i = probe.at THEN active[i] - 1 ELSE active[i]]
          /\ hung' = hung
          /\ probe' = [probe EXCEPT !.state = "answered", !.answer = status]
          /\ UNCHANGED <<opVars, provVars, healthVars>>
      BY <1>9 DEF CheckAnswers
    <2>3. probe' \in Probe /\ CheckIsCall'
      BY <1>2, <2>2 DEF CheckIsCall
    <2>4. /\ active' \in [Transport -> 0..MaxCalls]
          /\ hung' \in [Transport -> 0..MaxCalls]
          /\ \A j \in Transport : active'[j] + hung'[j] <= MaxCalls
      BY <1>1, <1>2, <2>1, <2>2 DEF InFlight
    <2> QED BY <1>5, <2>2, <2>3, <2>4
  <1>10. CASE CheckEmitsElsewhere
    <2>1. /\ UNCHANGED <<opVars, provVars, callVars, healthVars>>
          /\ probe' = [state |-> "emitted", at |-> 0, said |-> status,
                       answer |-> status, rebound |-> FALSE]
      BY <1>10 DEF CheckEmitsElsewhere, Emits
    <2>2. probe' \in Probe /\ CheckIsCall'
      BY <1>2, <2>1 DEF CheckIsCall
    <2> QED BY <1>2, <1>5, <2>1, <2>2 DEF callVars, InFlight
  <1> QED BY <1>3, <1>4, <1>6, <1>7, <1>8, <1>9, <1>10 DEF Aside

LEMMA TypeStep == TypeInv /\ [Next]_vars => TypeInv'
  <1>1. TypeInv /\ UNCHANGED vars => TypeInv'
    BY DEF vars, opVars, provVars, callVars, healthVars, TypeInv, LifecycleTypeOK,
           CallsCapped, CheckIsCall, InFlight
  <1> QED BY <1>1, Cases, TypeOfOperations, TypeOfCalls

\* No operation and no call takes a variable out of its type: the calls in
\* flight stay countable, whatever a check that waits does meanwhile.
THEOREM TypeTrue == Spec => []LifecycleTypeOK
  <1>1. TypeInv => LifecycleTypeOK
    BY DEF TypeInv
  <1> QED BY TypeInit, TypeStep, <1>1, PTL DEF Spec
-----------------------------------------------------------------------------
(***************************************************************************)
(* PrefixBound.  A bind goes through its transports in their order, and so *)
(* a running one has passed none that the service is not registered on.    *)
(***************************************************************************)
PassedAreRegistered == \A s \in Service : pc[s] = "running" =>
  \A i \in Targets(s) : i <= pos[s] => s \in registered[i]

PrefixInv == OpsOK /\ PassedAreRegistered /\ PrefixBound

LEMMA PrefixInit == Init => PrefixInv
  <1> USE OpNames, Numbers
  <1>1. SUFFICES ASSUME Init PROVE PrefixInv
    OBVIOUS
  <1>2. OpsOK
    BY <1>1, InitBoundInv DEF BoundInv
  <1>3. PassedAreRegistered /\ PrefixBound
    BY <1>1 DEF Init, PassedAreRegistered, PrefixBound, Targets
  <1> QED BY <1>2, <1>3 DEF PrefixInv

LEMMA BindKeepsPrefix ==
  ASSUME PrefixInv, OpsOK', NEW s \in Service, BindCall(s) \/ BindResume(s)
  PROVE  PrefixInv'
  <1> USE OpNames, Numbers
  <1>1. PICK from \in 0..N : /\ BindFrom(s, from)
                             /\ \A i \in Targets(s) : i <= from => s \in registered[i]
    <2>1. CASE BindCall(s)
      <3>1. 0 \in 0..N /\ \A i \in Targets(s) : ~(i <= 0)
        BY DEF Targets
      <3> QED BY <2>1, <3>1 DEF BindCall
    <2>2. CASE BindResume(s)
      <3>1. pos[s] \in 0..N /\ pc[s] = "running"
        BY <2>2 DEF BindResume, Resumes, PrefixInv, OpsOK
      <3> QED BY <2>2, <3>1 DEF BindResume, PrefixInv, PassedAreRegistered
    <2> QED BY <2>1, <2>2
  <1>2. OpsOK
    BY DEF PrefixInv
  <1>3. \A q \in Service : q # s => pc'[q] = pc[q] /\ pos'[q] = pos[q]
    BY <1>1, <1>2, BindFromFacts
  <1>4. CASE registered' = registered /\ pc'[s] # "running"
    BY <1>3, <1>4 DEF PrefixInv, PassedAreRegistered, PrefixBound, Targets
  <1>5. ASSUME NEW i \in Remaining(s, from), \A j \in Remaining(s, from) : i <= j,
               registered' = [registered EXCEPT ![i] = @ \cup {s}], YieldsTo(s, i)
        PROVE  PrefixInv'
    <2>1. i \in Transport /\ i \in 0..N /\ pos'[s] = i
      BY <1>2, <1>5, Moves DEF Remaining, Targets
    <2>2. \A j \in Transport, q \in Service :
            q \in registered'[j] <=> q \in registered[j] \/ (j = i /\ q = s)
      BY <1>2, <1>5, <2>1 DEF OpsOK
    <2>3. \A j \in Targets(s) : j <= i => s \in registered'[j]
      <3>1. SUFFICES ASSUME NEW j \in Targets(s), j <= i PROVE s \in registered'[j]
        OBVIOUS
      <3>2. j \in Transport
        BY DEF Targets
      <3>3. CASE j <= from
        BY <1>1, <2>2, <3>2, <3>3
      <3>4. CASE j > from
        BY <1>5, <2>1, <2>2, <3>1, <3>2, <3>4 DEF Remaining
      <3> QED BY <3>2, <3>3, <3>4
    <2>4. PassedAreRegistered'
      <3>1. SUFFICES ASSUME NEW q \in Service, pc'[q] = "running",
                            NEW j \in Targets(q), j <= pos'[q]
                     PROVE  q \in registered'[j]
        BY DEF PassedAreRegistered, Targets
      <3>2. j \in Transport
        BY DEF Targets
      <3> QED BY <1>3, <2>1, <2>2, <2>3, <3>1, <3>2 DEF PrefixInv, PassedAreRegistered
    <2>5. PrefixBound'
      <3>1. SUFFICES ASSUME NEW q \in Service, NEW j \in Targets(q), NEW k \in Targets(q),
                            j < k, q \in registered'[k]
                     PROVE  q \in registered'[j]
        BY DEF PrefixBound, Targets
      <3>2. j \in Transport /\ k \in Transport
        BY DEF Targets
      <3>3. CASE q \in registered[k]
        BY <2>2, <3>1, <3>2, <3>3 DEF PrefixInv, PrefixBound
      <3>4. CASE q \notin registered[k]
        BY <2>1, <2>2, <2>3, <3>1, <3>2, <3>4
      <3> QED BY <3>3, <3>4
    <2> QED BY <2>4, <2>5 DEF PrefixInv
  <1>6. \A how \in {"done", "failed"} : Settles(s, how) => pc'[s] # "running"
    BY <1>2, Moves
  <1> QED BY <1>1, <1>4, <1>5, <1>6 DEF BindFrom

LEMMA OthersKeepPrefix ==
  ASSUME PrefixInv, OpsOK',
         StartCall \/ StartResume \/ EndCall \/ EndResume \/ Aside \/ UNCHANGED vars
  PROVE  PrefixInv'
  <1> USE OpNames, Numbers
  <1>1. OpsOK /\ 0 \in 0..N /\ pos["start"] \in 0..N /\ pos["end"] \in 0..N
    BY DEF PrefixInv, OpsOK
  <1>2. /\ registered' = registered
        /\ \A s \in Service : pc'[s] = pc[s] /\ pos'[s] = pos[s]
    <2>1. CASE StartCall \/ StartResume
      BY <1>1, <2>1, StartFromFacts DEF StartCall, StartResume
    <2>2. CASE EndCall \/ EndResume
      BY <1>1, <2>2, EndFromFacts DEF EndCall, EndResume
    <2>3. CASE Aside
      BY <1>1, <2>3, AsideFacts
    <2>4. CASE UNCHANGED vars
      BY <2>4 DEF vars, opVars, provVars
    <2> QED BY <2>1, <2>2, <2>3, <2>4
  <1> QED BY <1>2 DEF PrefixInv, PassedAreRegistered, PrefixBound, Targets

\* Wherever a bind is refused, and whatever overlaps it, its service is on a
\* prefix of its transports, for any number of them.
THEOREM PrefixTrue == Spec => []PrefixBound
  <1>1. Init => BoundInv /\ PrefixInv
    BY InitBoundInv, PrefixInit
  <1>2. BoundInv /\ PrefixInv /\ [Next]_vars => (BoundInv /\ PrefixInv)'
    <2>1. BoundInv /\ [Next]_vars => BoundInv' /\ OpsOK'
      BY Cases, BindKeepsBoundInv, OthersKeepBoundInv DEF BoundInv
    <2> QED BY <2>1, Cases, BindKeepsPrefix, OthersKeepPrefix
  <1>3. PrefixInv => PrefixBound
    BY DEF PrefixInv
  <1> QED BY <1>1, <1>2, <1>3, PTL DEF Spec
-----------------------------------------------------------------------------
(***************************************************************************)
(* What end() waits for.  A gRPC transport that has not started or has     *)
(* stopped has no calls (NoCalls); a running end() leaves the gRPC         *)
(* transports it has passed stopped (GrpcEnded), for good, since none      *)
(* starts a second time.  Both hold with any overlap.                      *)
(***************************************************************************)
NoCalls == \A i \in Transport :
  i \notin Grpc \/ prov[i] \in {"new", "stopped"} => active[i] = 0 /\ hung[i] = 0

GrpcEnded == pc["end"] = "running" =>
  /\ pos["end"] \in Transport
  /\ \A i \in Grpc : i < pos["end"] => prov[i] = "stopped"
  /\ pos["end"] \in Grpc => prov[pos["end"]] \in {"stopping", "stopped"}

ShutdownInv == TypeInv /\ NoCalls /\ GrpcEnded

LEMMA ShutdownInit == Init => ShutdownInv
  <1>1. SUFFICES ASSUME Init PROVE ShutdownInv
    OBVIOUS
  <1>2. NoCalls /\ GrpcEnded
    BY <1>1, OpNames DEF Init, NoCalls, GrpcEnded
  <1> QED BY <1>1, <1>2, TypeInit DEF ShutdownInv

LEMMA TypesOfOps == TypeInv => OpsOK
  BY DEF TypeInv, LifecycleTypeOK, OpsOK

\* What an end() at a yield may rely on: all gRPC transports up to there have
\* stopped when it goes on.
LEMMA EndPassed ==
  ASSUME ShutdownInv, EndCall \/ EndResume
  PROVE  \E from \in 0..N : /\ EndFrom(from)
                            /\ \A i \in Grpc : i <= from => prov[i] = "stopped"
                            /\ EndResume => from = pos["end"]
                            /\ EndCall => from = 0
  <1> USE OpNames, Numbers
  <1>1. Grpc \subseteq Transport
    BY LifecycleAssumption
  <1>2. CASE EndCall
    <2>1. 0 \in 0..N /\ ~EndResume /\ \A i \in Grpc : ~(i <= 0)
      BY <1>1, <1>2 DEF EndCall, EndResume, Callable, Resumes
    <2> QED BY <1>2, <2>1 DEF EndCall
  <1>3. CASE EndResume
    <2>1. /\ pc["end"] = "running" /\ ~WaitsForShutdown /\ pos["end"] \in Transport
          /\ EndFrom(pos["end"]) /\ ~EndCall
      BY <1>3 DEF EndCall, EndResume, Callable, Resumes, ShutdownInv, GrpcEnded
    <2>2. \A i \in Grpc : i <= pos["end"] => prov[i] = "stopped"
      BY <1>1, <2>1 DEF ShutdownInv, GrpcEnded, WaitsForShutdown
    <2> QED BY <2>1, <2>2
  <1> QED BY <1>2, <1>3

LEMMA EndKeepsShutdown ==
  ASSUME ShutdownInv, TypeInv', EndCall \/ EndResume
  PROVE  ShutdownInv'
  <1> USE OpNames, Numbers
  <1>1. PICK from \in 0..N : /\ EndFrom(from)
                             /\ \A i \in Grpc : i <= from => prov[i] = "stopped"
    BY EndPassed
  <1>2. OpsOK /\ OpsOK' /\ UNCHANGED callVars /\ Grpc \subseteq Transport
    BY TypesOfOps, LifecycleAssumption DEF ShutdownInv, EndCall, EndResume, TypeInv,
       LifecycleTypeOK, OpsOK
  <1>3. CASE from = N /\ Settles("end", "done") /\ prov' = prov
    <2>1. pc'["end"] # "running"
      BY <1>2, <1>3, Moves
    <2> QED BY <1>2, <1>3, <2>1 DEF ShutdownInv, NoCalls, GrpcEnded, callVars
  <1>4. CASE /\ from < N /\ YieldsTo("end", from + 1)
             /\ prov' = [prov EXCEPT ![from + 1] =
                   IF from + 1 \notin Grpc \/ @ = "stopped" THEN "stopped" ELSE "stopping"]
    <2>1. from + 1 \in Transport /\ pos'["end"] = from + 1
      BY <1>2, <1>4, Moves
    <2>2. /\ \A i \in Transport : i # from + 1 => prov'[i] = prov[i]
          /\ prov'[from + 1] \in {"stopping", "stopped"}
          /\ from + 1 \in Grpc /\ prov'[from + 1] = "stopped" => prov[from + 1] = "stopped"
      BY <1>2, <1>4, <2>1 DEF OpsOK
    <2>3. NoCalls'
      BY <1>2, <2>1, <2>2 DEF ShutdownInv, NoCalls, callVars
    <2>4. GrpcEnded'
      BY <1>1, <1>2, <2>1, <2>2 DEF GrpcEnded
    <2> QED BY <2>3, <2>4 DEF ShutdownInv
  <1> QED BY <1>1, <1>3, <1>4 DEF EndFrom

LEMMA StartKeepsShutdown ==
  ASSUME ShutdownInv, TypeInv', StartCall \/ StartResume
  PROVE  ShutdownInv'
  <1> USE OpNames, Numbers
  <1>1. OpsOK /\ 0 \in 0..N /\ pos["start"] \in 0..N /\ UNCHANGED callVars
    BY TypesOfOps DEF ShutdownInv, OpsOK, StartCall, StartResume
  <1>2. PICK from \in 0..N : StartFrom(from)
    BY <1>1 DEF StartCall, StartResume
  <1>3. pc'["end"] = pc["end"] /\ pos'["end"] = pos["end"]
    BY <1>1, <1>2, StartFromFacts
  <1>4. CASE prov' = prov
    BY <1>1, <1>3, <1>4 DEF ShutdownInv, NoCalls, GrpcEnded, callVars
  <1>5. CASE /\ from < N /\ ~StartFails(from + 1)
             /\ prov' = [prov EXCEPT ![from + 1] = "serving"]
    <2>1. /\ from + 1 \in Transport
          /\ \A i \in Transport : i # from + 1 => prov'[i] = prov[i]
          /\ from + 1 \in Grpc => prov[from + 1] = "new"
      BY <1>1, <1>5 DEF OpsOK, StartFails
    <2>2. NoCalls'
      <3>1. SUFFICES ASSUME NEW i \in Transport, i \notin Grpc \/ prov'[i] \in {"new", "stopped"}
                     PROVE  active[i] = 0 /\ hung[i] = 0
        BY <1>1 DEF NoCalls, callVars
      <3> QED BY <2>1, <3>1 DEF ShutdownInv, NoCalls
    <2>3. GrpcEnded'
      <3>1. SUFFICES ASSUME pc["end"] = "running" PROVE GrpcEnded'
        BY <1>3 DEF GrpcEnded
      <3>2. \A i \in Grpc : i <= pos["end"] => i \in Transport /\ prov'[i] = prov[i]
        BY <2>1, <3>1, LifecycleAssumption DEF ShutdownInv, GrpcEnded
      <3> QED BY <1>3, <3>1, <3>2, LifecycleAssumption DEF ShutdownInv, GrpcEnded
    <2> QED BY <2>2, <2>3 DEF ShutdownInv
  <1> QED BY <1>2, <1>4, <1>5 DEF StartFrom, healthVars

LEMMA BindKeepsShutdown ==
  ASSUME ShutdownInv, TypeInv', NEW s \in Service, BindCall(s) \/ BindResume(s)
  PROVE  ShutdownInv'
  <1> USE OpNames, Numbers
  <1>1. OpsOK /\ 0 \in 0..N /\ pos[s] \in 0..N /\ UNCHANGED callVars /\ prov' = prov
    BY TypesOfOps DEF ShutdownInv, OpsOK, BindCall, BindResume
  <1>2. PICK from \in 0..N : BindFrom(s, from)
    BY <1>1 DEF BindCall, BindResume
  <1>3. pc'["end"] = pc["end"] /\ pos'["end"] = pos["end"]
    BY <1>1, <1>2, BindFromFacts
  <1> QED BY <1>1, <1>3 DEF ShutdownInv, NoCalls, GrpcEnded, callVars

LEMMA AsideKeepsShutdown ==
  ASSUME ShutdownInv, TypeInv', Aside \/ UNCHANGED vars
  PROVE  ShutdownInv'
  <1> USE OpNames, Numbers
  <1>1. OpsOK /\ Grpc \subseteq Transport
        /\ active \in [Transport -> 0..MaxCalls] /\ hung \in [Transport -> 0..MaxCalls]
    BY TypesOfOps, LifecycleAssumption DEF ShutdownInv, TypeInv, LifecycleTypeOK
  <1>2. CASE Attach \/ UNCHANGED vars
    BY <1>2 DEF Attach, vars, opVars, provVars, callVars, ShutdownInv, NoCalls, GrpcEnded
  <1>3. ASSUME NEW i \in Transport, ShutdownDone(i) PROVE ShutdownInv'
    <2>1. /\ prov[i] = "stopping" /\ active[i] = 0 /\ hung[i] = 0
          /\ \A j \in Transport : prov'[j] = IF j = i THEN "stopped" ELSE prov[j]
          /\ UNCHANGED <<pc, pos, active, hung>>
      BY <1>1, <1>3 DEF ShutdownDone, opVars, callVars, OpsOK
    <2>2. NoCalls'
      BY <2>1 DEF ShutdownInv, NoCalls
    <2>3. GrpcEnded'
      BY <1>1, <2>1 DEF ShutdownInv, GrpcEnded
    <2> QED BY <2>2, <2>3 DEF ShutdownInv
  <1>4. ASSUME UNCHANGED <<pc, pos, prov>>, NEW i \in Transport,
               i \in Grpc /\ prov[i] \notin {"new", "stopped"},
               \A j \in Transport : j # i => active'[j] = active[j] /\ hung'[j] = hung[j]
        PROVE  ShutdownInv'
    BY <1>4 DEF ShutdownInv, NoCalls, GrpcEnded
  <1>5. ASSUME NEW i \in Transport, CallArrives(i) \/ CheckEmits(i) PROVE ShutdownInv'
    <2>1. i \in Grpc /\ prov[i] = "serving"
      BY <1>5 DEF CallArrives, CheckEmits, CanArrive
    <2> QED BY <1>1, <1>4, <1>5, <2>1 DEF CallArrives, CheckEmits, opVars, provVars
  <1>6. ASSUME NEW i \in Transport, CallFinishes(i) \/ CallHangs(i) PROVE ShutdownInv'
    <2>1. active[i] # 0
      BY <1>1, <1>6 DEF CallFinishes, CallHangs, OtherCalls
    <2>2. i \in Grpc /\ prov[i] \notin {"new", "stopped"}
      BY <2>1 DEF ShutdownInv, NoCalls
    <2> QED BY <1>1, <1>4, <1>6, <2>2 DEF CallFinishes, CallHangs, opVars, provVars
  <1>7. ASSUME UNCHANGED <<pc, pos, prov, active, hung>> PROVE ShutdownInv'
    BY <1>7 DEF ShutdownInv, NoCalls, GrpcEnded
  <1>8. CASE CheckAnswers /\ probe.at # 0
    <2>1. probe.at \in Grpc /\ active[probe.at] # 0
      BY <1>1, <1>8 DEF CheckAnswers, ShutdownInv, TypeInv, CheckIsCall
    <2>2. probe.at \in Transport /\ prov[probe.at] \notin {"new", "stopped"}
      BY <1>1, <2>1 DEF ShutdownInv, NoCalls
    <2> QED BY <1>1, <1>4, <1>8, <2>1, <2>2 DEF CheckAnswers, opVars, provVars
  <1>9. CASE CheckAnswers /\ probe.at = 0
    <2>1. active' = active
      BY <1>1, <1>9, Numbers DEF CheckAnswers
    <2> QED BY <1>7, <1>9, <2>1 DEF CheckAnswers, opVars, provVars
  <1>10. CASE CheckEmitsElsewhere
    BY <1>7, <1>10 DEF CheckEmitsElsewhere, opVars, provVars, callVars
  <1> QED BY <1>2, <1>3, <1>5, <1>6, <1>8, <1>9, <1>10 DEF Aside

LEMMA ShutdownStep == ShutdownInv /\ [Next]_vars => ShutdownInv'
  <1>1. ShutdownInv /\ [Next]_vars => TypeInv'
    BY TypeStep DEF ShutdownInv
  <1> QED BY <1>1, Cases, BindKeepsShutdown, StartKeepsShutdown, EndKeepsShutdown,
             AsideKeepsShutdown
-----------------------------------------------------------------------------
(***************************************************************************)
(* CheckAgrees.  A check over gRPC that waits is a call on a transport     *)
(* that has started: no end() returns before it, and a start() fails there *)
(* at the latest, so that neither sets the status meanwhile (CheckWaits).  *)
(***************************************************************************)
CheckWaits == probe.state = "emitted" /\ probe.at # 0 =>
  /\ pc["start"] = "running" => pos["start"] < probe.at
  /\ probe.said = status \/ probe.rebound

CheckInv == ShutdownInv /\ CheckWaits /\ CheckAgrees

LEMMA CheckInit == Init => CheckInv
  <1>1. Init => CheckWaits /\ CheckAgrees
    BY DEF Init, CheckWaits, CheckAgrees
  <1> QED BY <1>1, ShutdownInit DEF CheckInv

LEMMA CheckedTransport ==
  ASSUME ShutdownInv, probe.state = "emitted", probe.at # 0
  PROVE  /\ probe.at \in Grpc /\ probe.at \in 1..N
         /\ prov[probe.at] \notin {"new", "stopped"}
  <1>1. probe.at \in Grpc /\ active[probe.at] >= 1
    BY DEF ShutdownInv, TypeInv, CheckIsCall
  <1>2. probe.at \in Transport /\ active[probe.at] # 0
    BY <1>1, LifecycleAssumption
  <1> QED BY <1>1, <1>2, Numbers DEF ShutdownInv, NoCalls

LEMMA StepKeepsCheck ==
  ASSUME CheckInv, [Next]_vars
  PROVE  CheckWaits' /\ CheckAgrees'
  <1> USE OpNames, Numbers
  <1> DEFINE emitted == probe.state = "emitted" /\ probe.at # 0
  <1>1. ShutdownInv /\ OpsOK
    BY TypesOfOps DEF CheckInv, ShutdownInv
  <1>2. 0 \in 0..N /\ pos["start"] \in 0..N /\ pos["end"] \in 0..N
    BY <1>1 DEF OpsOK
  <1>3. ASSUME UNCHANGED <<probe, status>>,
               emitted /\ pc'["start"] = "running" => pos'["start"] < probe.at
        PROVE  CheckWaits' /\ CheckAgrees'
    BY <1>3 DEF CheckInv, CheckWaits, CheckAgrees
  <1>4. ASSUME NEW s \in Service, BindCall(s) \/ BindResume(s)
        PROVE  CheckWaits' /\ CheckAgrees'
    <2>1. PICK from \in 0..N : BindFrom(s, from)
      <3>1. pos[s] \in 0..N
        BY <1>1 DEF OpsOK
      <3> QED BY <1>2, <1>4, <3>1 DEF BindCall, BindResume
    <2>2. pc'["start"] = pc["start"] /\ pos'["start"] = pos["start"]
      BY <1>1, <2>1, BindFromFacts
    <2>3. CASE BindCall(s)
      BY <1>3, <2>2, <2>3 DEF BindCall, healthVars, CheckInv, CheckWaits
    <2>4. CASE BindResume(s)
      <3>1. probe' = [probe EXCEPT !.rebound = TRUE]
        BY <2>4 DEF BindResume, OnBound
      <3>2. probe \in [state : {"none", "emitted", "answered"}, at : 0..N,
                       said : Status, answer : Status, rebound : BOOLEAN]
        BY <1>1 DEF ShutdownInv, TypeInv, LifecycleTypeOK
      <3>3. probe'.state = probe.state /\ probe'.at = probe.at /\ probe'.rebound
        BY <3>1, <3>2
      <3> QED BY <2>2, <3>3 DEF CheckInv, CheckWaits, CheckAgrees
    <2> QED BY <1>4, <2>3, <2>4
  <1>5. CASE StartCall \/ StartResume
    <2>1. PICK from \in 0..N : StartFrom(from) /\ (emitted => from < probe.at)
      <3>1. CASE StartCall
        BY <1>1, <1>2, <3>1, CheckedTransport DEF StartCall
      <3>2. CASE StartResume
        BY <1>2, <3>2 DEF StartResume, Resumes, CheckInv, CheckWaits
      <3> QED BY <1>5, <3>1, <3>2
    <2>2. CASE from = N /\ Marks("SERVING")
      <3>1. ~emitted /\ probe' = probe
        BY <1>1, <2>1, <2>2, CheckedTransport DEF Marks
      <3> QED BY <3>1 DEF CheckInv, CheckWaits, CheckAgrees
    <2>3. CASE Settles("start", "failed") /\ UNCHANGED <<healthVars, probe>>
      <3>1. pc'["start"] # "running"
        BY <1>1, <2>3, Moves
      <3> QED BY <1>3, <2>3, <3>1 DEF healthVars
    <2>4. CASE /\ from < N /\ ~StartFails(from + 1) /\ YieldsTo("start", from + 1)
               /\ UNCHANGED <<healthVars, probe>>
      <3>1. from + 1 \in 0..N /\ pos'["start"] = from + 1
        BY <1>1, <2>4, Moves
      <3>2. emitted => from + 1 < probe.at
        <4>1. SUFFICES ASSUME emitted PROVE from + 1 # probe.at
          BY <1>1, <2>1, CheckedTransport
        <4> QED BY <1>1, <2>4, <4>1, CheckedTransport DEF StartFails
      <3> QED BY <1>3, <2>4, <3>1, <3>2 DEF healthVars
    <2> QED BY <2>1, <2>2, <2>3, <2>4 DEF StartFrom
  <1>6. CASE EndCall \/ EndResume
    <2>1. PICK from \in 0..N : /\ EndFrom(from)
                               /\ \A i \in Grpc : i <= from => prov[i] = "stopped"
      BY <1>1, <1>6, EndPassed
    <2>2. pc'["start"] = pc["start"] /\ pos'["start"] = pos["start"]
      BY <1>1, <2>1, EndFromFacts
    <2>3. CASE from = N /\ Marks("NOT_SERVING")
      <3>1. ~emitted /\ probe' = probe
        BY <1>1, <2>1, <2>3, CheckedTransport DEF Marks
      <3> QED BY <3>1 DEF CheckInv, CheckWaits, CheckAgrees
    <2>4. CASE UNCHANGED <<healthVars, probe>>
      BY <1>3, <2>2, <2>4 DEF healthVars, CheckInv, CheckWaits
    <2> QED BY <2>1, <2>3, <2>4 DEF EndFrom
  <1>7. CASE UNCHANGED vars
    BY <1>3, <1>7 DEF vars, opVars, healthVars, CheckInv, CheckWaits
  <1>8. CASE Aside
    <2>1. pc' = pc /\ pos' = pos /\ status' = status
      BY <1>1, <1>8, AsideFacts
    <2>2. CASE probe' = probe
      BY <1>3, <2>1, <2>2 DEF CheckInv, CheckWaits
    <2>3. ASSUME NEW i \in Transport, CheckEmits(i) PROVE CheckWaits' /\ CheckAgrees'
      <3>1. pc["start"] # "running"
        BY <2>3 DEF CheckEmits, CanArrive, Quiet
      <3>2. probe' = [state |-> "emitted", at |-> i, said |-> status,
                      answer |-> status, rebound |-> FALSE]
        BY <2>3 DEF CheckEmits, Emits
      <3>3. probe'.state = "emitted" /\ probe'.said = status'
        BY <2>1, <3>2
      <3> QED BY <2>1, <3>1, <3>3 DEF CheckWaits, CheckAgrees
    <2>4. CASE CheckAnswers
      <3>1. /\ probe.state = "emitted"
            /\ probe' = [probe EXCEPT !.state = "answered", !.answer = status]
        BY <2>4 DEF CheckAnswers
      <3>2. probe \in [state : {"none", "emitted", "answered"}, at : 0..N,
                       said : Status, answer : Status, rebound : BOOLEAN]
        BY <1>1 DEF ShutdownInv, TypeInv, LifecycleTypeOK
      <3>3. /\ probe'.state = "answered" /\ probe'.answer = status
            /\ probe'.said = probe.said /\ probe'.rebound = probe.rebound
            /\ probe'.at = probe.at
        BY <3>1, <3>2
      <3> QED BY <3>1, <3>3 DEF CheckInv, CheckWaits, CheckAgrees
    <2>5. CASE CheckEmitsElsewhere
      <3>1. probe'.state = "emitted" /\ probe'.at = 0
        BY <2>5 DEF CheckEmitsElsewhere, Emits
      <3> QED BY <3>1 DEF CheckWaits, CheckAgrees
    <2> QED BY <1>8, <2>2, <2>3, <2>4, <2>5 DEF Aside, Attach, ShutdownDone, CallArrives,
               CallFinishes, CallHangs
  <1> QED BY <1>4, <1>5, <1>6, <1>7, <1>8, Cases

\* The status a check over gRPC puts on its topic and the one its caller gets
\* are the same unless a service is bound in between: nothing else sets the
\* status while the call is in flight, with any overlap and any failures,
\* and with checks from elsewhere, of which this is not said.
THEOREM CheckTrue == Spec => []CheckAgrees
  <1>1. CheckInv /\ [Next]_vars => CheckInv'
    BY ShutdownStep, StepKeepsCheck DEF CheckInv
  <1>2. CheckInv => CheckAgrees
    BY DEF CheckInv
  <1> QED BY CheckInit, <1>1, <1>2, PTL DEF Spec
-----------------------------------------------------------------------------
(***************************************************************************)
(* StoppedIsTrue, up to a call of an operation that overlaps another: then *)
(* no start() makes a pipe that end() has passed serve again.              *)
(***************************************************************************)
PipesEnded == pc["end"] = "running" =>
  \A i \in Transport \ Grpc : i <= pos["end"] => prov[i] = "stopped"

StopInv == ShutdownInv /\ (overlapped \/ (ServingInv /\ PipesEnded))

LEMMA StepKeepsPipesEnded ==
  ASSUME ServingInv, PipesEnded, ~overlapped', [Next]_vars
  PROVE  PipesEnded'
  <1> USE OpNames, Numbers
  <1>1. OpsOK /\ 0 \in 0..N /\ pos["start"] \in 0..N /\ pos["end"] \in 0..N
    BY DEF ServingInv, OpsOK
  <1>2. ASSUME NEW s \in Service, BindCall(s) \/ BindResume(s) PROVE PipesEnded'
    <2>1. PICK from \in 0..N : BindFrom(s, from)
      <3>1. pos[s] \in 0..N
        BY <1>1 DEF OpsOK
      <3> QED BY <1>1, <1>2, <3>1 DEF BindCall, BindResume
    <2> QED BY <1>1, <1>2, <2>1, BindFromFacts DEF BindCall, BindResume, PipesEnded
  <1>3. CASE StartCall \/ StartResume
    <2>1. pc["end"] # "running"
      BY <1>3 DEF StartCall, StartResume, Callable, Called, Resumes, ServingInv, OneRuns
    <2>2. pc'["end"] = pc["end"]
      BY <1>1, <1>3, StartFromFacts DEF StartCall, StartResume
    <2> QED BY <2>1, <2>2 DEF PipesEnded
  <1>4. CASE EndCall \/ EndResume
    <2>1. PICK from \in 0..N :
            /\ EndFrom(from)
            /\ \A i \in Transport \ Grpc : i <= from => prov[i] = "stopped"
      <3>1. CASE EndCall
        BY <1>1, <3>1 DEF EndCall
      <3>2. CASE EndResume
        BY <1>1, <3>2 DEF EndResume, Resumes, PipesEnded
      <3> QED BY <1>4, <3>1, <3>2
    <2>2. CASE Settles("end", "done")
      BY <1>1, <2>2, Moves DEF PipesEnded
    <2>3. CASE /\ from < N /\ YieldsTo("end", from + 1)
               /\ prov' = [prov EXCEPT ![from + 1] =
                     IF from + 1 \notin Grpc \/ @ = "stopped" THEN "stopped" ELSE "stopping"]
      <3>1. from + 1 \in Transport /\ pos'["end"] = from + 1
        BY <1>1, <2>3, Moves
      <3>2. \A i \in Transport \ Grpc :
              prov'[i] = IF i = from + 1 THEN "stopped" ELSE prov[i]
        BY <1>1, <2>3, <3>1 DEF OpsOK
      <3> QED BY <2>1, <3>1, <3>2 DEF PipesEnded
    <2> QED BY <2>1, <2>2, <2>3 DEF EndFrom
  <1>5. CASE Aside
    <2>1. pc' = pc /\ pos' = pos
      BY <1>1, <1>5, AsideFacts
    <2>2. \A i \in Transport : prov[i] = "stopped" => prov'[i] = "stopped"
      BY <1>1, <1>5 DEF Aside, Attach, ShutdownDone, CallArrives, CallFinishes, CallHangs,
                        CheckEmits, CheckEmitsElsewhere, CheckAnswers, provVars, OpsOK
    <2> QED BY <2>1, <2>2 DEF PipesEnded
  <1>6. CASE UNCHANGED vars
    BY <1>6 DEF vars, opVars, provVars, PipesEnded
  <1> QED BY <1>2, <1>3, <1>4, <1>5, <1>6, Cases

LEMMA StopInvStep ==
  ASSUME StopInv, [Next]_vars
  PROVE  StopInv'
  <1>1. ShutdownInv'
    BY ShutdownStep DEF StopInv
  <1>2. overlapped => overlapped'
    BY DEF Next, vars, opVars, BindCall, BindResume, StartCall, StartResume, EndCall,
           EndResume, Called, Resumes, Attach, ShutdownDone, CallArrives,
           CallFinishes, CallHangs, CheckEmits, CheckEmitsElsewhere, CheckAnswers
  <1>3. ASSUME ~overlapped' PROVE ServingInv' /\ PipesEnded'
    <2>1. ServingInv /\ PipesEnded /\ ~overlapped
      BY <1>2, <1>3 DEF StopInv
    <2> QED BY <1>3, <2>1, StepKeepsServing, StepKeepsPipesEnded
  <1> QED BY <1>1, <1>3 DEF StopInv

\* The step in which end() returns is one from its last transport.
LEMMA ReturnsStopped ==
  ASSUME StopInv, StopInv', [Next]_vars, EndReturns
  PROVE  \A i \in Transport : prov'[i] = "stopped" /\ InFlight(i)' = 0
  <1> USE OpNames, Numbers
  <1>1. /\ OpsOK /\ pc["end"] = "running" /\ pc'["end"] = "done" /\ PipesEnded
        /\ 0 \in 0..N /\ \A o \in Op : pos[o] \in 0..N
    BY TypesOfOps DEF StopInv, ShutdownInv, EndReturns, OpsOK
  <1>2. EndResume
    <2>1. ASSUME NEW s \in Service, BindCall(s) \/ BindResume(s) PROVE FALSE
      <3>1. PICK from \in 0..N : BindFrom(s, from)
        BY <1>1, <2>1 DEF BindCall, BindResume
      <3> QED BY <1>1, <3>1, BindFromFacts
    <2>2. ~(StartCall \/ StartResume)
      BY <1>1, StartFromFacts DEF StartCall, StartResume
    <2>3. ~EndCall
      BY <1>1 DEF EndCall, Callable
    <2>4. ~Aside
      BY <1>1, AsideFacts
    <2>5. ~UNCHANGED vars
      BY <1>1 DEF vars, opVars
    <2> QED BY <2>1, <2>2, <2>3, <2>4, <2>5, Cases
  <1>3. PICK from \in 0..N : /\ EndFrom(from) /\ from = pos["end"]
                             /\ \A i \in Grpc : i <= from => prov[i] = "stopped"
    BY <1>2, EndPassed DEF StopInv
  <1>4. from = N /\ prov' = prov
    <2>1. ASSUME from < N, YieldsTo("end", from + 1) PROVE FALSE
      <3>1. from + 1 \in 0..N
        BY <2>1
      <3> QED BY <1>1, <2>1, <3>1, Moves
    <2> QED BY <1>3, <2>1 DEF EndFrom
  <1>5. \A i \in Transport : prov'[i] = "stopped"
    BY <1>1, <1>3, <1>4 DEF PipesEnded
  <1> QED BY <1>5 DEF StopInv, ShutdownInv, NoCalls, InFlight

\* As long as operations are called one after the other, 'stopped' is true:
\* when end() returns every transport has stopped and no gRPC call is left.
THEOREM StoppedTrue == Spec => StoppedIsTrue
  <1>1. Init => StopInv
    <2>1. Init => ServingInv /\ PipesEnded
      BY InitServingInv, OpNames DEF Init, PipesEnded
    <2> QED BY <2>1, ShutdownInit DEF StopInv
  <1>2. StopInv /\ [Next]_vars => StopInv'
    BY StopInvStep
  <1>3. StopInv /\ StopInv' /\ [Next]_vars =>
          [EndReturns => \A i \in Transport : prov'[i] = "stopped" /\ InFlight(i)' = 0]_vars
    BY ReturnsStopped
  <1> QED BY <1>1, <1>2, <1>3, PTL DEF Spec, StoppedIsTrue
=============================================================================
