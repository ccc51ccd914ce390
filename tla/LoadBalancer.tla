---------------------------- MODULE LoadBalancer ----------------------------
(***************************************************************************)
(* A load balancer over endpoints of the pipe transport: staticPublisher   *)
(* makes one endpoint for each instance, fixedPublisher publishes them     *)
(* again and again, roundRobin or random selects one for each request.     *)
(*                                                                         *)
(* The endpoints are made, all at once, at the first request.  The factory *)
(* makeEndpoint of a pipe client is a generator function: it does not      *)
(* throw when it is called, but when its generator runs, behind the try of *)
(* staticPublisher.  An eager factory throws within the try, and the       *)
(* instance is passed over.                                                *)
(***************************************************************************)
EXTENDS PipeTransport

CONSTANTS
  Instances,       \* the addresses given to staticPublisher, in order
  Balancers,       \* subset of {"roundRobin", "random"}
  Eager            \* subset of BOOLEAN: kinds of factory

ASSUME BalancerAssumption ==
  /\ Instances \in Seq(Addr)
  /\ Balancers \subseteq {"roundRobin", "random"} /\ Eager \subseteq BOOLEAN

VARIABLES
  balancer, eager,
  publisher,   \* the promise of staticPublisher: new, resolved or rejected
  endpoints,   \* the endpoints it has resolved to
  counter      \* of roundRobin: the requests made

balancerVars == <<balancer, eager, publisher, endpoints, counter>>
vars == <<pipeVars, balancerVars>>

Endpoint == [addr : Addr, method : Impl \cup {NoMethod}]

BalancerTypeOK ==
  /\ PipeTypeOK
  /\ balancer \in Balancers /\ eager \in BOOLEAN
  /\ publisher \in {"new", "resolved", "rejected"}
  /\ endpoints \in Seq(Endpoint)
  /\ counter \in 0..MaxCalls

Init ==
  /\ PipeInit
  /\ balancer \in Balancers /\ eager \in Eager
  /\ publisher = "new" /\ endpoints = <<>> /\ counter = 0

-----------------------------------------------------------------------------
\* staticPublisher at the first request: the instances makeEndpoint can make
\* an endpoint for, their order, and the endpoints.
Kept == {i \in DOMAIN Instances : Found(Instances[i]) # NoService}
InTheirOrder == {order \in [1..Cardinality(Kept) -> Kept] :
                   \A m, n \in DOMAIN order : m < n => order[m] < order[n]}
MadeOf(order) == [n \in DOMAIN order |->
  LET a == Instances[order[n]] IN [addr |-> a, method |-> Found(a)]]

\* Mutant: instances are passed over with a lazy factory, too.
FailsIfNone == Kept = {}
Fails == Kept = {} \/ (~eager /\ Kept # DOMAIN Instances)

Publish ==
  \/ /\ publisher # "new" /\ UNCHANGED <<publisher, endpoints>>
  \/ /\ publisher = "new" /\ Fails
     /\ publisher' = "rejected" /\ UNCHANGED endpoints
  \/ /\ publisher = "new" /\ ~Fails
     /\ publisher' = "resolved"
     /\ \E order \in InTheirOrder : endpoints' = MadeOf(order)

\* The endpoints a request may get.  Mutant: the counter is not used.
SelectedFirst(n) == {1}
Selected(n) == IF balancer = "random" THEN 1..n ELSE {(counter % n) + 1}

\* A request: the balancer's next endpoint is called.  When the publisher
\* has failed there is none, now or later.
Request ==
  /\ counter < MaxCalls
  /\ counter' = counter + 1
  /\ Publish
  /\ \/ publisher' = "rejected" /\ UNCHANGED calls
     \/ /\ publisher' = "resolved"
        /\ \E i \in Selected(Len(endpoints')) : Call(i, endpoints'[i].method)
  /\ UNCHANGED <<serverVars, balancer, eager>>

Served(k) == (\E o \in Outcome : MethodEnds(k, o)) /\ UNCHANGED balancerVars

Next == \/ PipeNext /\ UNCHANGED balancerVars
        \/ Request
        \/ \E k \in DOMAIN calls : Served(k)

Spec == Init /\ [][Next]_vars

-----------------------------------------------------------------------------
(***************************************************************************)
(* Properties                                                              *)
(***************************************************************************)
CallsOf(i) == Cardinality({k \in DOMAIN calls : calls[k].endpoint = i})

\* roundRobin spreads the requests evenly, however long they take.
Balanced == balancer = "roundRobin" =>
  \A i, j \in DOMAIN endpoints : CallsOf(i) <= CallsOf(j) + 1

\* Each of the endpoints that are published is for the method that a server
\* serving at its address has bound, and there is one for every instance
\* unless the factory is eager.
EndpointsServed == [][publisher = "new" /\ publisher' = "resolved" =>
  /\ \A i \in DOMAIN endpoints' : \E s \in serving :
       AddrOf[s] = endpoints'[i].addr /\ service[s] = endpoints'[i].method
  /\ eager \/ Len(endpoints') = Len(Instances)]_vars
=============================================================================
