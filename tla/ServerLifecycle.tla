-------------------------- MODULE ServerLifecycle --------------------------
(***************************************************************************)
(* The Server: bind, start and end over the configured transports, the     *)
(* calls its gRPC transports have in flight, and the health that the       *)
(* CommandInterface derives from the events 'bound', 'serving', 'stopped'. *)
(*                                                                         *)
(* Each operation is a coroutine.  It yields to one provider at a time and *)
(* goes on in a microtask when the provider has returned: one action is    *)
(* what follows a yield (the event for this transport) and what leads to   *)
(* the next one (the body of the next provider).  bind and start of the    *)
(* providers never wait for I/O; only tryShutdown does.  Calls arrive and  *)
(* finish when no microtask is left.                                       *)
(*                                                                         *)
(* Transports are numbered 1..N in the order of their configuration.       *)
(***************************************************************************)
EXTENDS Naturals

CONSTANTS
  N,            \* the number of transports
  Grpc,         \* those with provider grpc; the others have provider pipe
  Service,      \* the services of the server's configuration
  Method,       \* their methods
  Config,       \* Config[s][m]: the transports configured for method m of s
  Implemented,  \* Implemented[s]: the methods the service object has
  Known,        \* Known[i]: the services a gRPC transport has loaded protos for
  Foreign,      \* the pipe transports whose address another server may hold
  MaxRuns,      \* bound: calls of each operation
  MaxCalls      \* bound: calls in flight on a transport

Transport == 1..N
Op == Service \cup {"start", "end"}

ASSUME LifecycleAssumption ==
  /\ N \in Nat \ {0} /\ Grpc \subseteq Transport
  /\ "start" \notin Service /\ "end" \notin Service
  /\ Config \in [Service -> [Method -> SUBSET Nat]]
  /\ Implemented \in [Service -> SUBSET Method]
  /\ Known \in [Grpc -> SUBSET Service]
  /\ Foreign \subseteq Transport \ Grpc
  /\ MaxRuns \in Nat /\ MaxCalls \in Nat

VARIABLES
  pc,          \* of each operation: idle, running, done or failed
  pos,         \* the transport a running operation has yielded to
  runs,        \* the number of calls of each operation
  overlapped,  \* history: an operation was called while another was running
  registered,  \* registered[i]: the services bound to transport i
  prov,        \* prov[i]: new, serving, stopping or stopped
  inUse,       \* the pipe transports whose address another server holds
  active,      \* active[i]: gRPC calls in flight on transport i
  hung,        \* hung[i]: gRPC calls that will never be answered
  attached,    \* the CommandInterface listens to the server
  status,      \* health.status
  bound,       \* bound[s]: service[s].bound
  svc,         \* svc[s][i]: service[s].transport[i], "none" if not set
  probe        \* the last health check without a service name, and the gRPC
               \* transport it came over, 0 if none

opVars == <<pc, pos, runs, overlapped>>
provVars == <<registered, prov, inUse>>
callVars == <<active, hung>>
healthVars == <<attached, status, bound, svc>>
vars == <<opVars, provVars, callVars, healthVars, probe>>

Status == {"UNKNOWN", "NOT_SERVING", "SERVING"}

LifecycleTypeOK ==
  /\ pc \in [Op -> {"idle", "running", "done", "failed"}]
  /\ pos \in [Op -> 0..N]
  /\ runs \in [Op -> 0..MaxRuns] /\ overlapped \in BOOLEAN
  /\ registered \in [Transport -> SUBSET Service]
  /\ prov \in [Transport -> {"new", "serving", "stopping", "stopped"}]
  /\ inUse \subseteq Foreign
  /\ active \in [Transport -> 0..MaxCalls] /\ hung \in [Transport -> 0..MaxCalls]
  /\ attached \in BOOLEAN /\ status \in Status
  /\ bound \in [Service -> BOOLEAN]
  /\ svc \in [Service -> [Transport -> {"none", "SERVING", "NOT_SERVING"}]]
  /\ probe \in [state : {"none", "emitted", "answered"}, at : 0..N,
                said : Status, answer : Status, rebound : BOOLEAN]

Init ==
  /\ pc = [o \in Op |-> "idle"] /\ pos = [o \in Op |-> 0]
  /\ runs = [o \in Op |-> 0] /\ overlapped = FALSE
  /\ registered = [i \in Transport |-> {}]
  /\ prov = [i \in Transport |-> "new"]
  /\ inUse \in SUBSET Foreign
  /\ active = [i \in Transport |-> 0] /\ hung = [i \in Transport |-> 0]
  /\ attached = FALSE /\ status = "UNKNOWN"
  /\ bound = [s \in Service |-> FALSE]
  /\ svc = [s \in Service |-> [i \in Transport |-> "none"]]
  /\ probe = [state |-> "none", at |-> 0, said |-> "UNKNOWN",
              answer |-> "UNKNOWN", rebound |-> FALSE]

-----------------------------------------------------------------------------
(* The coroutines.                                                         *)

\* end() waits for the callback of tryShutdown.
\* Mutants: it goes on at once; it passes no callback and waits for ever.
NeverWaits == FALSE
WaitsForEver == pc["end"] = "running" /\ pos["end"] \in Grpc
WaitsForShutdown == /\ pc["end"] = "running" /\ pos["end"] \in Transport
                    /\ prov[pos["end"]] = "stopping"

\* No coroutine has a microtask to run.
Quiet == \A o \in Op : pc[o] = "running" => o = "end" /\ WaitsForShutdown

\* An operation is called again only after it has settled.
Callable(o) == pc[o] # "running" /\ runs[o] < MaxRuns

Called(o) ==
  /\ runs' = [runs EXCEPT ![o] = @ + 1]
  /\ overlapped' = (overlapped \/ \E p \in Op : pc[p] = "running")
Resumes(o) == pc[o] = "running" /\ UNCHANGED <<runs, overlapped>>

YieldsTo(o, i) == /\ pc' = [pc EXCEPT ![o] = "running"]
                  /\ pos' = [pos EXCEPT ![o] = i]
Settles(o, how) == /\ pc' = [pc EXCEPT ![o] = how]
                   /\ pos' = [pos EXCEPT ![o] = 0]

-----------------------------------------------------------------------------
(* The listeners of the CommandInterface.                                  *)

OnBound(s) ==
  /\ IF attached THEN /\ bound' = [bound EXCEPT ![s] = TRUE]
                      /\ status' = "NOT_SERVING"
                 ELSE UNCHANGED <<bound, status>>
  /\ probe' = [probe EXCEPT !.rebound = TRUE]
  /\ UNCHANGED <<attached, svc>>

\* 'serving' and 'stopped' mark all services on all transports.
\* Mutant: 'stopped' has the listener of 'serving'.
MarksServing(st) ==
  /\ attached /\ status' = "SERVING" /\ UNCHANGED <<svc, attached, bound, probe>>
Marks(st) ==
  /\ IF attached THEN /\ status' = st
                      /\ svc' = [s \in Service |-> [i \in Transport |-> st]]
                 ELSE UNCHANGED <<status, svc>>
  /\ UNCHANGED <<attached, bound, probe>>

\* new CommandInterface(server, ...)
Attach == /\ Quiet /\ ~attached
          /\ attached' = TRUE
          /\ UNCHANGED <<opVars, provVars, callVars, status, bound, svc, probe>>

-----------------------------------------------------------------------------
(* bind(name, service)                                                     *)

\* The transports for which the service gets a binding with some method.
Targets(s) == {i \in Transport : \E m \in Implemented[s] : i \in Config[s][m]}

\* A gRPC transport refuses a service it has no proto for; addService refuses
\* one that is registered already and any once the server has started.
BindFails(i, s) == /\ i \in Grpc
                   /\ \/ s \notin Known[i]
                      \/ s \in registered[i]
                      \/ prov[i] # "new"

\* What is left of the loop; mutant: transports that refuse are passed over.
RemainingAccepting(s, from) == {i \in Targets(s) : i > from /\ ~BindFails(i, s)}
Remaining(s, from) == {i \in Targets(s) : i > from}

BindFrom(s, from) ==
  \/ /\ Remaining(s, from) = {}
     /\ Settles(s, "done") /\ UNCHANGED registered
  \/ \E i \in Remaining(s, from) :
       /\ \A j \in Remaining(s, from) : i <= j
       /\ \/ /\ BindFails(i, s)
             /\ Settles(s, "failed") /\ UNCHANGED registered
          \/ /\ ~BindFails(i, s)
             /\ registered' = [registered EXCEPT ![i] = @ \cup {s}]
             /\ YieldsTo(s, i)

\* Mutant: 'bound' is emitted before the provider is asked.
BindCallEmitsFirst(s) ==
  /\ Callable(s) /\ Called(s)
  /\ BindFrom(s, 0)
  /\ OnBound(s)
  /\ UNCHANGED <<prov, inUse, callVars>>
BindCall(s) ==
  /\ Callable(s) /\ Called(s)
  /\ BindFrom(s, 0)
  /\ UNCHANGED <<prov, inUse, callVars, healthVars, probe>>

\* The provider has returned: emit 'bound', go to the next transport.
BindResume(s) ==
  /\ Resumes(s)
  /\ OnBound(s)
  /\ BindFrom(s, pos[s])
  /\ UNCHANGED <<prov, inUse, callVars>>

-----------------------------------------------------------------------------
(* start()                                                                 *)

\* gRPC: a server starts once.  Pipe: the address must be free.
StartFails(i) == IF i \in Grpc THEN prov[i] # "new"
                               ELSE prov[i] = "serving" \/ i \in inUse

StartFrom(from) ==
  \/ /\ from = N
     /\ Settles("start", "done")
     /\ Marks("SERVING") /\ UNCHANGED prov
  \/ /\ from < N /\ StartFails(from + 1)
     /\ Settles("start", "failed")
     /\ UNCHANGED <<prov, healthVars, probe>>
  \/ /\ from < N /\ ~StartFails(from + 1)
     /\ prov' = [prov EXCEPT ![from + 1] = "serving"]
     /\ YieldsTo("start", from + 1)
     /\ UNCHANGED <<healthVars, probe>>

StartCall == /\ Callable("start") /\ Called("start")
             /\ StartFrom(0)
             /\ UNCHANGED <<registered, inUse, callVars>>

StartResume == /\ Resumes("start")
               /\ StartFrom(pos["start"])
               /\ UNCHANGED <<registered, inUse, callVars>>

-----------------------------------------------------------------------------
(* end()                                                                   *)

\* end() of a pipe transport frees its address, whoever holds it.
EndFrom(from) ==
  \/ /\ from = N
     /\ Settles("end", "done")
     /\ Marks("NOT_SERVING") /\ UNCHANGED <<prov, inUse>>
  \/ /\ from < N
     /\ prov' = [prov EXCEPT ![from + 1] =
                   IF from + 1 \notin Grpc \/ @ = "stopped" THEN "stopped" ELSE "stopping"]
     /\ inUse' = inUse \ {from + 1}
     /\ YieldsTo("end", from + 1)
     /\ UNCHANGED <<healthVars, probe>>

EndCall == /\ Callable("end") /\ Called("end")
           /\ EndFrom(0)
           /\ UNCHANGED <<registered, callVars>>

EndResume == /\ Resumes("end") /\ ~WaitsForShutdown
             /\ EndFrom(pos["end"])
             /\ UNCHANGED <<registered, callVars>>

\* tryShutdown calls back when no call is in flight.
ShutdownDone(i) ==
  /\ Quiet /\ prov[i] = "stopping" /\ active[i] = 0 /\ hung[i] = 0
  /\ prov' = [prov EXCEPT ![i] = "stopped"]
  /\ UNCHANGED <<opVars, registered, inUse, callVars, healthVars, probe>>

-----------------------------------------------------------------------------
(* Calls over gRPC.                                                        *)

InFlight(i) == active[i] + hung[i]

CanArrive(i) == /\ Quiet /\ i \in Grpc /\ prov[i] = "serving"
                /\ registered[i] # {} /\ InFlight(i) < MaxCalls

CallArrives(i) ==
  /\ CanArrive(i)
  /\ active' = [active EXCEPT ![i] = @ + 1]
  /\ UNCHANGED <<opVars, provVars, hung, healthVars, probe>>

\* The calls that are no health check.  Mutant: all.
AllCalls(i) == active[i]
OtherCalls(i) ==
  active[i] - (IF probe.state = "emitted" /\ probe.at = i THEN 1 ELSE 0)

CallFinishes(i) ==
  /\ Quiet /\ OtherCalls(i) > 0
  /\ active' = [active EXCEPT ![i] = @ - 1]
  /\ UNCHANGED <<opVars, provVars, hung, healthVars, probe>>

\* A streaming handler throws, or never finishes: nobody answers the call.
CallHangs(i) ==
  /\ Quiet /\ OtherCalls(i) > 0
  /\ active' = [active EXCEPT ![i] = @ - 1]
  /\ hung' = [hung EXCEPT ![i] = @ + 1]
  /\ UNCHANGED <<opVars, provVars, healthVars, probe>>

\* check() without a service name puts the status on the topic, in a gRPC
\* call ...
Emits(i) == /\ attached /\ probe.state # "emitted"
            /\ probe' = [state |-> "emitted", at |-> i, said |-> status,
                         answer |-> status, rebound |-> FALSE]
CheckEmits(i) ==
  /\ CanArrive(i) /\ Emits(i)
  /\ active' = [active EXCEPT ![i] = @ + 1]
  /\ UNCHANGED <<opVars, provVars, hung, healthVars>>

\* ... or in a call over the pipe, for a Kafka command, or for the process
\* itself, which no tryShutdown waits for ...
CheckEmitsElsewhere ==
  /\ Emits(0)
  /\ UNCHANGED <<opVars, provVars, callVars, healthVars>>

\* ... and reads it again, when Kafka has acknowledged, for its caller.
CheckAnswers ==
  /\ Quiet /\ probe.state = "emitted"
  /\ active' = [i \in Transport |-> IF i = probe.at THEN active[i] - 1 ELSE active[i]]
  /\ probe' = [probe EXCEPT !.state = "answered", !.answer = status]
  /\ UNCHANGED <<opVars, provVars, hung, healthVars>>

\* check() with a service name.
CheckService(s) ==
  IF \E i \in Transport : svc[s][i] = "SERVING" THEN "SERVING" ELSE "UNKNOWN"

-----------------------------------------------------------------------------
Next == \/ Attach
        \/ \E s \in Service : BindCall(s) \/ BindResume(s)
        \/ StartCall \/ StartResume \/ EndCall \/ EndResume
        \/ \E i \in Transport : \/ ShutdownDone(i) \/ CallArrives(i)
                                \/ CallFinishes(i) \/ CallHangs(i) \/ CheckEmits(i)
        \/ CheckEmitsElsewhere \/ CheckAnswers

\* Microtasks run; a handler that does not hang finishes; Kafka acknowledges;
\* gRPC calls back when it has nothing left to wait for.
Fairness == /\ \A s \in Service : WF_vars(BindResume(s))
            /\ WF_vars(StartResume) /\ WF_vars(EndResume) /\ WF_vars(CheckAnswers)
            /\ \A i \in Transport : /\ WF_vars(CallFinishes(i))
                                    /\ WF_vars(ShutdownDone(i))

Spec == Init /\ [][Next]_vars /\ Fairness
-----------------------------------------------------------------------------
(***************************************************************************)
(* Properties                                                              *)
(***************************************************************************)
\* SERVING is reported only while every transport serves, or is being shut
\* down by an end() that has not told yet; a start() that failed half way,
\* a second start() and a bind() in between never make it report more.
\* (Up to a call that overlaps another.)
ServingIsTrue ==
  status = "SERVING" /\ ~overlapped =>
    (\A i \in Transport : prov[i] = "serving") \/ pc["end"] = "running"

\* When end() returns, no transport serves any more and no gRPC call is in
\* flight: 'stopped' is true.  (Up to a call that overlaps another.)
EndReturns == ~overlapped /\ pc["end"] = "running" /\ pc'["end"] = "done"
StoppedIsTrue ==
  [][EndReturns => \A i \in Transport : prov'[i] = "stopped" /\ InFlight(i)' = 0]_vars

\* The status a health check over gRPC puts on the topic is the one its
\* caller gets, unless a service was bound in between: the check is a call in
\* flight, so no end() finishes under it, and no start() gets past the
\* transport that serves it.  This holds with any overlap.  A check that is
\* no gRPC call (at = 0) may tell two statuses.
CheckAgrees == probe.state = "answered" /\ probe.at # 0 =>
  (probe.said = probe.answer \/ probe.rebound)

\* A service the health reports as bound is registered on some transport,
\* however the binds, a start and an end interleave or fail.
BoundIsRegistered ==
  \A s \in Service : bound[s] => \E i \in Transport : s \in registered[i]

\* A service is on a prefix of its transports: a bind that failed half way
\* leaves it on those before the one that refused it, and on no other.
PrefixBound == \A s \in Service : \A i, j \in Targets(s) :
  i < j /\ s \in registered[j] => s \in registered[i]

\* end() returns when no call hangs, for calls that arrived before it and
\* whatever else runs.
EndFinishes ==
  pc["end"] = "running" ~> \/ pc["end"] # "running"
                           \/ \E i \in Transport : hung[i] > 0

\* command-interface/index.ts: "If one transports serves the service, set it
\* to SERVING".  The 'serving' listener marks all configured services, those
\* no transport serves too.
ServingIsServed == \A s \in Service : CheckService(s) = "SERVING" =>
  \E i \in Transport : prov[i] \in {"serving", "stopping"} /\ s \in registered[i]
=============================================================================
