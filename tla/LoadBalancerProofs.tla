------------------------- MODULE LoadBalancerProofs -------------------------
(***************************************************************************)
(* What the list of pipe servers and a balancer over it guarantee, for any *)
(* number of servers, addresses and instances and whatever clients do with *)
(* the endpoints they found.                                               *)
(***************************************************************************)
EXTENDS LoadBalancer, FiniteSetTheorems, TLAPS

\* The inductive invariant: FoundIsServing needs only the types of the list
\* and of the servers that serve.
ListType == at \in [Addr -> Server \cup {Nobody}] /\ serving \subseteq Server
ListInv == ListType /\ FoundIsServing

\* The list starts empty.
LEMMA ListInit == Init => ListInv
  BY DEF Init, PipeInit, ListInv, ListType, FoundIsServing

\* Only start() and end() change the list and the servers that serve.
LEMMA ListNext == ListInv /\ [Next]_vars => ListInv'
<1> SUFFICES ASSUME ListInv, [Next]_vars PROVE ListInv'
  OBVIOUS
<1> USE PipeAssumption DEF ListInv, ListType, FoundIsServing
<1>1. ASSUME UNCHANGED <<at, serving>> PROVE ListInv'
  BY <1>1
<1>2. ASSUME NEW s \in Server, Start(s) PROVE ListInv'
  BY <1>2 DEF Start
<1>3. ASSUME NEW s \in Server, End(s) PROVE ListInv'
  BY <1>3 DEF End, Unlisted
<1>4. CASE PipeNext
  BY <1>4, <1>1, <1>2, <1>3 DEF PipeNext, Bind
<1>5. CASE Request
  BY <1>5, <1>1 DEF Request, serverVars
<1>6. CASE \E k \in DOMAIN calls : Served(k)
  BY <1>6, <1>1 DEF Served, MethodEnds, serverVars
<1>7. CASE UNCHANGED vars
  BY <1>7, <1>1 DEF vars, pipeVars, serverVars
<1> QED
  BY <1>4, <1>5, <1>6, <1>7 DEF Next

\* What a client finds at an address is a server that serves there.
THEOREM FoundTrue == Spec => []FoundIsServing
<1>1. ListInv => FoundIsServing
  BY DEF ListInv
<1> QED
  BY ListInit, ListNext, <1>1, PTL DEF Spec
-----------------------------------------------------------------------------
(***************************************************************************)
(* Responses.                                                              *)
(***************************************************************************)
\* Six things of which a set has six members differ from each other.
LEMMA Two ==
  ASSUME NEW a, NEW b, NEW c, NEW d, NEW e, NEW f,
         Cardinality({a, b, c, d, e, f}) = 6
  PROVE  a # b
<1>1. SUFFICES ASSUME a = b PROVE FALSE
  OBVIOUS
<1> DEFINE S1 == {f}  S2 == S1 \cup {e}  S3 == S2 \cup {d}  S4 == S3 \cup {c}
           S5 == S4 \cup {b}
<1>2. IsFiniteSet(S1) /\ Cardinality(S1) = 1
  BY FS_Singleton, Zenon
<1>3. /\ IsFiniteSet(S2)
      /\ Cardinality(S2) = IF e \in S1 THEN Cardinality(S1) ELSE Cardinality(S1) + 1
  <2> HIDE DEF S1
  <2> QED BY <1>2, FS_AddElement, Zenon
<1>4. /\ IsFiniteSet(S3)
      /\ Cardinality(S3) = IF d \in S2 THEN Cardinality(S2) ELSE Cardinality(S2) + 1
  <2> HIDE DEF S2
  <2> QED BY <1>3, FS_AddElement, Zenon
<1>5. /\ IsFiniteSet(S4)
      /\ Cardinality(S4) = IF c \in S3 THEN Cardinality(S3) ELSE Cardinality(S3) + 1
  <2> HIDE DEF S3
  <2> QED BY <1>4, FS_AddElement, Zenon
<1>6. /\ IsFiniteSet(S5)
      /\ Cardinality(S5) = IF b \in S4 THEN Cardinality(S4) ELSE Cardinality(S4) + 1
  <2> HIDE DEF S4
  <2> QED BY <1>5, FS_AddElement, Zenon
<1>7. {a, b, c, d, e, f} = S5
  BY <1>1
<1>8. Cardinality(S5) <= 5
  <2> HIDE DEF S1, S2, S3, S4, S5
  <2> QED BY <1>2, <1>3, <1>4, <1>5, <1>6
<1> QED BY <1>7, <1>8


LEMMA ResponseNames ==
  /\ PlainError \notin {Nil, Data, Running, NoMethod}
  /\ Data \notin {Nil, Running, NoMethod, Internal, Unimplemented, Thrown}
  /\ ErrorClass \cap {PlainError, Nil, Data, Running, NoMethod} = {}
  /\ Internal \in ErrorClass
<1> DEFINE All == {PlainError, Nil, Data, Unimplemented, Running, Thrown}
<1>1. Cardinality(All) = 6 /\ ErrorClass \cap All = {}
  BY PipeAssumption
<1>2. PlainError # Nil
  BY <1>1, Two
<1>3. Data # PlainError
  <2>1. All = {Data, PlainError, Nil, Unimplemented, Running, Thrown}
    OBVIOUS
  <2> HIDE DEF All
  <2> QED BY <1>1, <2>1, Two
<1>4. PlainError # Running
  <2>1. All = {PlainError, Running, Data, Nil, Unimplemented, Thrown}
    OBVIOUS
  <2> HIDE DEF All
  <2> QED BY <1>1, <2>1, Two
<1>5. Data # Nil
  <2>1. All = {Data, Nil, PlainError, Unimplemented, Running, Thrown}
    OBVIOUS
  <2> HIDE DEF All
  <2> QED BY <1>1, <2>1, Two
<1>6. Data # Running
  <2>1. All = {Data, Running, PlainError, Nil, Unimplemented, Thrown}
    OBVIOUS
  <2> HIDE DEF All
  <2> QED BY <1>1, <2>1, Two
<1>7. Data # Unimplemented
  <2>1. All = {Data, Unimplemented, PlainError, Nil, Running, Thrown}
    OBVIOUS
  <2> HIDE DEF All
  <2> QED BY <1>1, <2>1, Two
<1>8. Data # Thrown
  <2>1. All = {Data, Thrown, PlainError, Nil, Unimplemented, Running}
    OBVIOUS
  <2> HIDE DEF All
  <2> QED BY <1>1, <2>1, Two
<1>9. QED
  BY <1>1, <1>2, <1>3, <1>4, <1>5, <1>6, <1>7, <1>8, PipeAssumption

\* A call runs, has found no method, or is answered as its outcome says.
Answered(c) ==
  \/ c.outcome = Running /\ c.response = Running
  \/ c.outcome = NoMethod /\ c.response = Unimplemented
  \/ c.outcome \in Outcome /\ c.response = ResponseTo(c.outcome)

CallRecord == [endpoint : Nat \ {0}, outcome : Outcome \cup {Running, NoMethod},
               response : Response \cup {Running}]

\* What the publisher and the balancer have done.
PublishInv ==
  /\ publisher \in {"new", "resolved", "rejected"}
  /\ endpoints \in Seq(Endpoint) /\ counter \in 0..MaxCalls
  /\ publisher # "resolved" => calls = <<>> /\ endpoints = <<>>
  /\ publisher = "new" => counter = 0
  /\ publisher = "resolved" => Len(endpoints) > 0 /\ Len(calls) = counter

CallsInv ==
  /\ calls \in Seq(CallRecord)
  /\ \A k \in DOMAIN calls : Answered(calls[k])

ServerType ==
  /\ ListInv
  /\ starts \in 0..MaxStarts
  /\ service \in [Server -> Impl \cup {NoMethod, NoService}]
  /\ balancer \in Balancers /\ eager \in BOOLEAN

BalancerInv == ServerType /\ PublishInv /\ CallsInv

\* The instances that are kept: as many endpoints, one at least unless the
\* publisher fails.
LEMMA KeptSize ==
  /\ IsFiniteSet(Kept) /\ Cardinality(Kept) \in Nat
  /\ Kept # {} => Cardinality(Kept) > 0
  /\ Kept = DOMAIN Instances => Cardinality(Kept) = Len(Instances)
<1>1. Len(Instances) \in Nat /\ DOMAIN Instances = 1..Len(Instances)
  BY BalancerAssumption
<1>2. /\ IsFiniteSet(1..Len(Instances))
      /\ Cardinality(1..Len(Instances)) = Len(Instances)
  <2>1. 1 \in Int /\ Len(Instances) \in Int
    BY <1>1
  <2>2. /\ IsFiniteSet(1..Len(Instances))
        /\ Cardinality(1..Len(Instances)) =
             IF 1 > Len(Instances) THEN 0 ELSE Len(Instances) - 1 + 1
    BY <2>1, FS_Interval, Zenon
  <2>3. QED BY <1>1, <2>2
<1>3. Kept \subseteq 1..Len(Instances)
  BY <1>1 DEF Kept
<1>4. IsFiniteSet(Kept) /\ Cardinality(Kept) \in Nat
  BY <1>2, <1>3, FS_Subset, FS_CardinalityType
<1>5. Kept # {} => Cardinality(Kept) # 0
  BY <1>4, FS_EmptySet
<1>6. QED BY <1>1, <1>2, <1>4, <1>5

\* The endpoints made, one for each kept instance.
LEMMA MadeType ==
  ASSUME ServerType, NEW order \in InTheirOrder
  PROVE  /\ MadeOf(order) \in Seq(Endpoint)
         /\ Len(MadeOf(order)) = Cardinality(Kept)
         /\ \A i \in DOMAIN MadeOf(order) :
              LET e == MadeOf(order)[i] IN
                e.addr \in Addr /\ e.method = Found(e.addr) /\ e.method # NoService
<1>1. Cardinality(Kept) \in Nat
  BY KeptSize
<1>2. order \in [1..Cardinality(Kept) -> Kept]
  BY DEF InTheirOrder
<1>3. ASSUME NEW i \in 1..Cardinality(Kept)
      PROVE  /\ Instances[order[i]] \in Addr
             /\ Found(Instances[order[i]]) \in Impl \cup {NoMethod}
  <2>1. order[i] \in DOMAIN Instances /\ Found(Instances[order[i]]) # NoService
    BY <1>2 DEF Kept
  <2>2. Instances[order[i]] \in Addr
    BY <2>1, BalancerAssumption
  <2>3. QED BY <2>1, <2>2 DEF Found, ServerType, ListInv, ListType
<1>4. /\ DOMAIN MadeOf(order) = 1..Cardinality(Kept)
      /\ \A i \in 1..Cardinality(Kept) :
           MadeOf(order)[i] = [addr |-> Instances[order[i]],
                               method |-> Found(Instances[order[i]])]
  BY <1>2 DEF MadeOf
<1>5. MadeOf(order) \in [1..Cardinality(Kept) -> Endpoint]
  BY <1>2, <1>3 DEF MadeOf, Endpoint
<1>6. NoService \notin Impl \cup {NoMethod}
  BY PipeAssumption
<1>7. QED BY <1>1, <1>3, <1>4, <1>5, <1>6

-----------------------------------------------------------------------------
(* Every step keeps the invariant.                                         *)

LEMMA BalancerInit == Init => BalancerInv
<1> SUFFICES ASSUME Init PROVE BalancerInv
  OBVIOUS
<1>1. MaxCalls \in Nat /\ MaxStarts \in Nat
  BY PipeAssumption
<1>2. balancer \in Balancers /\ eager \in BOOLEAN
  BY BalancerAssumption DEF Init
<1>3. ListInv
  BY ListInit
<1>4. /\ starts \in 0..MaxStarts
      /\ service \in [Server -> Impl \cup {NoMethod, NoService}]
  BY <1>1 DEF Init, PipeInit
<1>5. ServerType
  BY <1>2, <1>3, <1>4, Zenon DEF ServerType
<1>6. PublishInv
  BY <1>1 DEF Init, PipeInit, PublishInv
<1>7. CallsInv
  BY DEF Init, PipeInit, CallsInv
<1>8. QED BY <1>5, <1>6, <1>7 DEF BalancerInv

LEMMA ServerSteps ==
  ASSUME BalancerInv, PipeNext, UNCHANGED balancerVars
  PROVE  BalancerInv'
<1>1. ListInv'
  BY ListNext DEF BalancerInv, ServerType, Next
<1>2. UNCHANGED <<calls, balancer, eager, publisher, endpoints, counter>>
  BY DEF PipeNext, Start, End, Bind, balancerVars
<1>3. /\ starts' \in 0..MaxStarts
      /\ service' \in [Server -> Impl \cup {NoMethod, NoService}]
  BY PipeAssumption DEF BalancerInv, ServerType, PipeNext, Start, End, Bind
<1>4. ServerType'
  BY <1>1, <1>2, <1>3, Zenon DEF BalancerInv, ServerType
<1>5. PublishInv' /\ CallsInv'
  BY <1>2 DEF BalancerInv, PublishInv, CallsInv
<1>6. QED BY <1>4, <1>5 DEF BalancerInv

\* What is published, at the first request and at the later ones.
LEMMA Publishes ==
  ASSUME ServerType, PublishInv, Publish
  PROVE  /\ endpoints' \in Seq(Endpoint)
         /\ publisher' \in {"resolved", "rejected"}
         /\ publisher' = "resolved" => Len(endpoints') > 0
         /\ publisher' = "rejected" => endpoints' = <<>> /\ calls = <<>>
         /\ Len(calls) = counter \/ publisher' = "rejected"
<1>1. CASE publisher # "new" /\ UNCHANGED <<publisher, endpoints>>
  BY <1>1 DEF PublishInv
<1>2. CASE publisher = "new" /\ publisher' = "rejected" /\ UNCHANGED endpoints
  BY <1>2 DEF PublishInv
<1>3. CASE /\ publisher = "new" /\ ~Fails /\ publisher' = "resolved"
           /\ \E order \in InTheirOrder : endpoints' = MadeOf(order)
  <2>1. PICK order \in InTheirOrder : endpoints' = MadeOf(order)
    BY <1>3
  <2>2. MadeOf(order) \in Seq(Endpoint) /\ Len(MadeOf(order)) = Cardinality(Kept)
    BY MadeType
  <2>3. Cardinality(Kept) > 0
    BY <1>3, KeptSize DEF Fails
  <2>4. Len(calls) = counter
    BY <1>3 DEF PublishInv
  <2>5. QED BY <1>3, <2>1, <2>2, <2>3, <2>4
<1>4. QED BY <1>1, <1>2, <1>3 DEF Publish

\* The endpoint selected is one of those published.
LEMMA SelectedType ==
  ASSUME PublishInv, NEW n \in Nat, n > 0, NEW i \in Selected(n)
  PROVE  i \in 1..n
<1>1. counter \in Nat
  BY PipeAssumption DEF PublishInv
<1>2. counter % n \in 0..(n - 1)
  BY <1>1
<1>3. QED BY <1>2 DEF Selected

LEMMA CallType ==
  ASSUME CallsInv, NEW i \in Nat \ {0}, NEW m \in Impl \cup {NoMethod}, Call(i, m)
  PROVE  /\ CallsInv' /\ Len(calls') = Len(calls) + 1
         /\ \A k \in 1..Len(calls) : calls'[k] = calls[k]
         /\ calls'[Len(calls) + 1].endpoint = i
<1> DEFINE c == [endpoint |-> i, outcome |-> IF m = NoMethod THEN NoMethod ELSE Running,
                 response |-> IF m = NoMethod THEN Unimplemented ELSE Running]
<1>1. c \in CallRecord /\ Answered(c) /\ c.endpoint = i
  BY DEF CallRecord, Answered, Response
<1>2. calls' = Append(calls, c)
  BY DEF Call
<1> HIDE DEF c
<1>3. /\ calls' \in Seq(CallRecord) /\ Len(calls') = Len(calls) + 1
      /\ calls'[Len(calls) + 1] = c
      /\ \A k \in 1..Len(calls) : calls'[k] = calls[k]
  BY <1>1, <1>2 DEF CallsInv
<1>4. \A k \in DOMAIN calls' : Answered(calls'[k])
  BY <1>1, <1>3 DEF CallsInv
<1>5. QED BY <1>1, <1>3, <1>4 DEF CallsInv

\* A request: none is called, or the selected one.
LEMMA Requests ==
  ASSUME BalancerInv, Request
  PROVE  /\ BalancerInv' /\ counter' = counter + 1
         /\ \/ publisher' = "rejected"
            \/ /\ publisher' = "resolved"
               /\ publisher = "new" \/ endpoints' = endpoints
               /\ \E i \in Selected(Len(endpoints')), m \in Impl \cup {NoMethod} :
                    i \in 1..Len(endpoints') /\ Call(i, m)
<1> USE DEF BalancerInv
<1>1. ServerType' /\ balancer' = balancer
  BY DEF Request, serverVars, ServerType, ListInv, ListType, FoundIsServing
<1>2. counter' = counter + 1 /\ counter \in Nat /\ counter' \in 0..MaxCalls
  BY PipeAssumption DEF Request, PublishInv
<1>3. /\ endpoints' \in Seq(Endpoint)
      /\ publisher' \in {"resolved", "rejected"}
      /\ publisher' = "resolved" => Len(endpoints') > 0
      /\ publisher' = "rejected" => endpoints' = <<>> /\ calls = <<>>
      /\ Len(calls) = counter \/ publisher' = "rejected"
  BY Publishes DEF Request
<1>4. CASE publisher' = "rejected"
  <2>1. UNCHANGED calls
    BY <1>4 DEF Request
  <2>2. PublishInv' /\ CallsInv'
    BY <1>2, <1>3, <1>4, <2>1 DEF PublishInv, CallsInv
  <2>3. QED BY <1>1, <1>2, <1>4, <2>2
<1>5. CASE publisher' = "resolved"
  <2>1. PICK i \in Selected(Len(endpoints')) : Call(i, endpoints'[i].method)
    BY <1>5 DEF Request
  <2>2. Len(endpoints') \in Nat /\ Len(endpoints') > 0
    BY <1>3, <1>5
  <2>3. i \in 1..Len(endpoints')
    BY <2>1, <2>2, SelectedType
  <2>4. i \in Nat \ {0} /\ endpoints'[i].method \in Impl \cup {NoMethod}
    <3>1. endpoints'[i] \in Endpoint
      BY <1>3, <2>3
    <3>2. endpoints'[i].method \in Impl \cup {NoMethod}
      BY <3>1 DEF Endpoint
    <3>3. QED BY <2>2, <2>3, <3>2
  <2>5. CallsInv' /\ Len(calls') = Len(calls) + 1
    BY <2>1, <2>4, CallType
  <2>6. PublishInv'
    BY <1>2, <1>3, <1>5, <2>5 DEF PublishInv
  <2>7. publisher = "new" \/ endpoints' = endpoints
    BY DEF Request, Publish
  <2>8. QED BY <1>1, <1>2, <1>5, <2>1, <2>3, <2>4, <2>5, <2>6, <2>7
<1>6. QED BY <1>3, <1>4, <1>5

LEMMA ResponseType ==
  ASSUME NEW o \in Outcome
  PROVE  ResponseTo(o) \in Response
  BY ResponseNames DEF ResponseTo, Response, Outcome

\* A method returns or throws.
LEMMA Serves ==
  ASSUME BalancerInv, NEW k \in DOMAIN calls, Served(k)
  PROVE  /\ BalancerInv' /\ UNCHANGED balancerVars /\ Len(calls') = Len(calls)
         /\ \A j \in DOMAIN calls : calls'[j].endpoint = calls[j].endpoint
<1> USE DEF BalancerInv
<1>1. PICK o \in Outcome :
        calls' = [calls EXCEPT ![k].outcome = o, ![k].response = ResponseTo(o)]
  BY DEF Served, MethodEnds
<1>2. ResponseTo(o) \in Response
  BY ResponseType
<1>3. ServerType' /\ UNCHANGED balancerVars
  BY DEF Served, MethodEnds, serverVars, balancerVars, ServerType, ListInv, ListType,
         FoundIsServing
<1>4. /\ calls \in Seq(CallRecord) /\ calls[k] \in CallRecord
      /\ \A j \in DOMAIN calls : Answered(calls[j])
  BY DEF CallsInv
<1> DEFINE c == [calls[k] EXCEPT !.outcome = o, !.response = ResponseTo(o)]
<1>5. calls' = [calls EXCEPT ![k] = c]
  BY <1>1
<1>6. c \in CallRecord /\ c.endpoint = calls[k].endpoint /\ Answered(c)
  BY <1>2, <1>4 DEF CallRecord, Answered
<1> HIDE DEF c
<1>7. /\ calls' \in Seq(CallRecord) /\ Len(calls') = Len(calls)
      /\ calls'[k] = c /\ \A j \in DOMAIN calls \ {k} : calls'[j] = calls[j]
      /\ DOMAIN calls' = DOMAIN calls
  BY <1>4, <1>5, <1>6
<1>8. CallsInv'
  BY <1>4, <1>6, <1>7 DEF CallsInv
<1>11. publisher = "resolved"
  <2>1. calls # <<>>
    OBVIOUS
  <2>2. QED BY <2>1 DEF PublishInv
<1>12. UNCHANGED <<publisher, endpoints, counter>>
  BY <1>3 DEF balancerVars
<1>9. PublishInv'
  BY <1>7, <1>11, <1>12 DEF PublishInv
<1>10. QED BY <1>3, <1>6, <1>7, <1>8, <1>9

LEMMA BalancerStep == BalancerInv /\ [Next]_vars => BalancerInv'
<1> SUFFICES ASSUME BalancerInv, [Next]_vars PROVE BalancerInv'
  OBVIOUS
<1>1. CASE PipeNext /\ UNCHANGED balancerVars
  BY <1>1, ServerSteps
<1>2. CASE Request
  BY <1>2, Requests
<1>3. CASE \E k \in DOMAIN calls : Served(k)
  BY <1>3, Serves
<1>4. CASE UNCHANGED vars
  BY <1>4 DEF vars, pipeVars, serverVars, balancerVars, BalancerInv, ServerType,
              PublishInv, CallsInv, ListInv, ListType, FoundIsServing
<1>5. QED BY <1>1, <1>2, <1>3, <1>4 DEF Next

LEMMA BalancerInvHolds == Spec => []BalancerInv
  BY BalancerInit, BalancerStep, PTL DEF Spec

\* A method that throws a class of errors.ts is answered with that class, any
\* other error object with Internal, and no error passes for data.
THEOREM TrueResponseTrue == Spec => []TrueResponse
<1>1. BalancerInv => TrueResponse
  BY ResponseNames DEF BalancerInv, CallsInv, Answered, TrueResponse, ResponseTo,
                       Outcome
<1>2. QED BY <1>1, BalancerInvHolds, PTL

\* Type correctness: no request selects an endpoint that is not there.
THEOREM TypeTrue == Spec => []BalancerTypeOK
<1>1. BalancerInv => BalancerTypeOK
  BY Zenon DEF BalancerInv, ServerType, ListInv, ListType, PublishInv, CallsInv,
               BalancerTypeOK, PipeTypeOK, CallRecord
<1>2. QED BY <1>1, BalancerInvHolds, PTL

\* The endpoints that are published are for servers that serve, and for all
\* instances unless the factory is eager.
THEOREM EndpointsServedTrue == Spec => EndpointsServed
<1>1. BalancerInv /\ [Next]_vars =>
        [publisher = "new" /\ publisher' = "resolved" =>
           /\ \A i \in DOMAIN endpoints' : \E s \in serving :
                AddrOf[s] = endpoints'[i].addr /\ service[s] = endpoints'[i].method
           /\ eager \/ Len(endpoints') = Len(Instances)]_vars
  <2> SUFFICES ASSUME BalancerInv, Next, publisher = "new", publisher' = "resolved"
               PROVE  /\ \A i \in DOMAIN endpoints' : \E s \in serving :
                           AddrOf[s] = endpoints'[i].addr
                           /\ service[s] = endpoints'[i].method
                      /\ eager \/ Len(endpoints') = Len(Instances)
    OBVIOUS
  <2>1. Request
    <3>1. ~UNCHANGED balancerVars
      BY DEF balancerVars
    <3>2. QED BY <3>1 DEF Next, Served
  <2>2. PICK order \in InTheirOrder : endpoints' = MadeOf(order)
    BY <2>1 DEF Request, Publish
  <2>3. ~Fails
    BY <2>1 DEF Request, Publish
  <2>4. ServerType
    BY DEF BalancerInv
  <2>5. ASSUME NEW i \in DOMAIN endpoints'
        PROVE  \E s \in serving :
                 AddrOf[s] = endpoints'[i].addr /\ service[s] = endpoints'[i].method
    <3>1. PICK e : e = endpoints'[i]
      OBVIOUS
    <3>2. e.addr \in Addr /\ e.method = Found(e.addr) /\ e.method # NoService
      BY <2>2, <2>4, <2>5, <3>1, MadeType
    <3>3. at[e.addr] # Nobody /\ service[at[e.addr]] = e.method
      BY <3>2 DEF Found
    <3>4. at[e.addr] \in serving /\ AddrOf[at[e.addr]] = e.addr
      BY <2>4, <3>2, <3>3 DEF ServerType, ListInv, FoundIsServing
    <3>5. QED BY <3>1, <3>3, <3>4
  <2>6. eager \/ Len(endpoints') = Len(Instances)
    BY <2>2, <2>3, <2>4, MadeType, KeptSize DEF Fails
  <2>7. QED BY <2>5, <2>6
<1>2. QED BY <1>1, BalancerInvHolds, PTL DEF Spec, EndpointsServed

-----------------------------------------------------------------------------
(***************************************************************************)
(* roundRobin.  With n endpoints, after q rounds and r requests more, the  *)
(* first r endpoints have had q + 1 requests and the others q.             *)
(***************************************************************************)
SpreadOver(n) == \E q \in Nat : \A i \in 1..n :
  CallsOf(i) = q + IF i <= counter % n THEN 1 ELSE 0

SpreadInv ==
  balancer = "roundRobin" /\ publisher = "resolved" => SpreadOver(Len(endpoints))

\* The position after the next one of a round of n.
LEMMA NextInRound ==
  ASSUME NEW c \in Nat, NEW n \in Nat, n > 0
  PROVE  (c + 1) % n = IF (c % n) + 1 = n THEN 0 ELSE (c % n) + 1
<1>1. \A k \in Nat : k >= 1 => k * n >= n
  OBVIOUS
<1> DEFINE q == c \div n
           r == c % n
           q1 == (c + 1) \div n
           r1 == (c + 1) % n
<1>2. q \in Nat /\ r \in 0..(n - 1) /\ c = n * q + r
  OBVIOUS
<1>3. q1 \in Nat /\ r1 \in 0..(n - 1) /\ c + 1 = n * q1 + r1
  OBVIOUS
<1> HIDE DEF q, r, q1, r1
<1>4. r + 1 - r1 = n * (q1 - q)
  BY <1>2, <1>3
<1>5. CASE q1 = q
  BY <1>2, <1>3, <1>4, <1>5 DEF r, r1
<1>6. CASE q1 = q + 1
  BY <1>2, <1>3, <1>4, <1>6 DEF r, r1
<1>7. CASE q1 >= q + 2
  BY <1>1, <1>2, <1>3, <1>4, <1>7
<1>8. CASE q1 < q
  BY <1>1, <1>2, <1>3, <1>4, <1>8
<1>9. QED BY <1>2, <1>3, <1>5, <1>6, <1>7, <1>8

\* A call adds one to the calls of its endpoint.
CallSet(j) == {k \in DOMAIN calls : calls[k].endpoint = j}

LEMMA CallsOfType ==
  ASSUME CallsInv, NEW j
  PROVE  IsFiniteSet(CallSet(j)) /\ CallsOf(j) \in Nat /\ CallsOf(j) = Cardinality(CallSet(j))
<1>1. Len(calls) \in Nat /\ DOMAIN calls = 1..Len(calls) /\ Len(calls) \in Int /\ 1 \in Int
  BY DEF CallsInv
<1>2. IsFiniteSet(1..Len(calls))
  BY <1>1, FS_Interval, Zenon
<1>3. CallSet(j) \subseteq 1..Len(calls)
  BY <1>1 DEF CallSet
<1>4. IsFiniteSet(CallSet(j)) /\ Cardinality(CallSet(j)) \in Nat
  BY <1>2, <1>3, FS_Subset, FS_CardinalityType
<1>5. QED BY <1>4 DEF CallSet, CallsOf

LEMMA OneMore ==
  ASSUME CallsInv, NEW i \in Nat \ {0}, NEW m \in Impl \cup {NoMethod}, Call(i, m), NEW j
  PROVE  CallsOf(j)' = CallsOf(j) + IF j = i THEN 1 ELSE 0
<1>1. /\ CallsInv' /\ Len(calls') = Len(calls) + 1
      /\ \A k \in 1..Len(calls) : calls'[k] = calls[k]
      /\ calls'[Len(calls) + 1].endpoint = i
  BY CallType
<1>2. /\ Len(calls) \in Nat /\ DOMAIN calls = 1..Len(calls)
      /\ DOMAIN calls' = 1..(Len(calls) + 1)
  BY <1>1 DEF CallsInv
<1> DEFINE new == Len(calls) + 1
<1>3. new \in Nat /\ new \notin DOMAIN calls /\ DOMAIN calls' = DOMAIN calls \cup {new}
  BY <1>2
<1>4. CASE j = i
  <2>1. CallSet(j)' = CallSet(j) \cup {new} /\ new \notin CallSet(j)
    BY <1>1, <1>2, <1>3, <1>4 DEF CallSet
  <2>2. IsFiniteSet(CallSet(j)) /\ CallsOf(j) = Cardinality(CallSet(j))
    BY CallsOfType
  <2> HIDE DEF new
  <2>3. Cardinality(CallSet(j) \cup {new}) = Cardinality(CallSet(j)) + 1
    BY <2>1, <2>2, FS_AddElement
  <2>4. CallsOf(j)' = Cardinality(CallSet(j)')
    BY DEF CallsOf, CallSet
  <2>5. QED BY <2>1, <2>2, <2>3, <2>4, <1>4
<1>5. CASE j # i
  <2>1. CallSet(j)' = CallSet(j)
    BY <1>1, <1>2, <1>3, <1>5 DEF CallSet
  <2>2. CallsOf(j) = Cardinality(CallSet(j)) /\ CallsOf(j) \in Nat
    BY CallsOfType
  <2>3. CallsOf(j)' = Cardinality(CallSet(j)')
    BY DEF CallsOf, CallSet
  <2>4. QED BY <2>1, <2>2, <2>3, <1>5
<1>6. QED BY <1>4, <1>5

\* The next request goes to the first endpoint that has had one request less.
LEMMA SpreadRequest ==
  ASSUME BalancerInv, SpreadInv, Request
  PROVE  SpreadInv'
<1> SUFFICES ASSUME balancer = "roundRobin", publisher' = "resolved",
                    NEW n, n = Len(endpoints')
             PROVE  SpreadOver(n)'
  BY DEF SpreadInv, SpreadOver, Request
<1>1. /\ BalancerInv' /\ counter' = counter + 1
      /\ publisher = "new" \/ endpoints' = endpoints
  BY Requests
<1>3. n \in Nat /\ n > 0 /\ counter \in Nat
  BY <1>1, PipeAssumption DEF BalancerInv, PublishInv
<1>4. CallsInv
  BY DEF BalancerInv
<1>5. PICK i \in Selected(n), m \in Impl \cup {NoMethod} : i \in 1..n /\ Call(i, m)
  BY Requests
<1>6. i = (counter % n) + 1 /\ i \in Nat \ {0}
  BY <1>3, <1>5 DEF Selected
<1>7. SpreadOver(n)
  <2>1. CASE publisher = "new"
    <3>1. calls = <<>> /\ counter = 0
      BY <2>1 DEF BalancerInv, PublishInv
    <3>2. \A j : CallSet(j) = {}
      BY <3>1 DEF CallSet
    <3>3. \A j : CallsOf(j) = 0
      BY <3>2, <1>4, CallsOfType, FS_EmptySet
    <3>4. counter % n = 0
      BY <3>1, <1>3
    <3>5. \A j \in 1..n : CallsOf(j) = 0 + IF j <= counter % n THEN 1 ELSE 0
      BY <3>3, <3>4
    <3>6. QED BY <3>5 DEF SpreadOver
  <2>2. CASE publisher # "new"
    <3>1. endpoints' = endpoints /\ publisher = "resolved"
      BY <2>2, <1>1 DEF Request, Publish
    <3>2. QED BY <3>1 DEF SpreadInv
  <2>3. QED BY <2>1, <2>2
<1>8. PICK q \in Nat : \A j \in 1..n :
        CallsOf(j) = q + IF j <= counter % n THEN 1 ELSE 0
  BY <1>7 DEF SpreadOver
<1>9. \A j \in 1..n : CallsOf(j)' = CallsOf(j) + IF j = i THEN 1 ELSE 0
  BY <1>4, <1>5, <1>6, OneMore
<1>10. PICK r \in 0..(n - 1) : r = counter % n
  BY <1>3
<1>11. counter' % n = IF r + 1 = n THEN 0 ELSE r + 1
  BY <1>1, <1>3, <1>10, NextInRound
<1>12. \A j \in 1..n : CallsOf(j)' = q + IF j <= r + 1 THEN 1 ELSE 0
  BY <1>3, <1>6, <1>8, <1>9, <1>10
<1>13. CASE r + 1 = n
  <2>1. \A j \in 1..n : CallsOf(j)' = (q + 1) + IF j <= counter' % n THEN 1 ELSE 0
    BY <1>3, <1>11, <1>12, <1>13
  <2>2. q + 1 \in Nat
    OBVIOUS
  <2>3. QED BY <2>1, <2>2 DEF SpreadOver
<1>14. CASE r + 1 # n
  <2>1. \A j \in 1..n : CallsOf(j)' = q + IF j <= counter' % n THEN 1 ELSE 0
    BY <1>3, <1>11, <1>12, <1>14
  <2>2. QED BY <2>1 DEF SpreadOver
<1>15. QED BY <1>13, <1>14

LEMMA SpreadStep == BalancerInv /\ SpreadInv /\ [Next]_vars => SpreadInv'
<1> SUFFICES ASSUME BalancerInv, SpreadInv, [Next]_vars PROVE SpreadInv'
  OBVIOUS
<1>1. CASE Request
  BY <1>1, SpreadRequest
<1>2. ASSUME UNCHANGED balancerVars, \A j : CallSet(j)' = CallSet(j)
      PROVE  SpreadInv'
  <2>1. \A j : CallsOf(j)' = CallsOf(j)
    BY <1>2 DEF CallsOf, CallSet
  <2>2. QED BY <1>2, <2>1 DEF SpreadInv, SpreadOver, balancerVars
<1>3. CASE PipeNext /\ UNCHANGED balancerVars
  BY <1>2, <1>3 DEF PipeNext, Start, End, Bind, CallSet
<1>4. CASE \E k \in DOMAIN calls : Served(k)
  <2>1. /\ UNCHANGED balancerVars /\ Len(calls') = Len(calls) /\ BalancerInv'
        /\ \A j \in DOMAIN calls : calls'[j].endpoint = calls[j].endpoint
    BY <1>4, Serves
  <2>2. DOMAIN calls' = DOMAIN calls
    BY <2>1 DEF BalancerInv, CallsInv
  <2>3. QED BY <1>2, <2>1, <2>2 DEF CallSet
<1>5. CASE UNCHANGED vars
  BY <1>2, <1>5 DEF vars, pipeVars, CallSet
<1>6. QED BY <1>1, <1>3, <1>4, <1>5 DEF Next

\* roundRobin spreads the requests evenly over any number of endpoints.
THEOREM BalancedTrue == Spec => []Balanced
<1>1. Init => SpreadInv
  BY DEF Init, SpreadInv
<1>2. BalancerInv /\ SpreadInv => Balanced
  <2> SUFFICES ASSUME BalancerInv, SpreadInv, balancer = "roundRobin",
                      NEW i \in DOMAIN endpoints, NEW j \in DOMAIN endpoints
               PROVE  CallsOf(i) <= CallsOf(j) + 1
    BY DEF Balanced
  <2>1. i \in 1..Len(endpoints) /\ j \in 1..Len(endpoints)
    BY DEF BalancerInv, PublishInv
  <2>2. publisher = "resolved"
    BY DEF BalancerInv, PublishInv
  <2>3. PICK q \in Nat : \A k \in 1..Len(endpoints) :
          CallsOf(k) = q + IF k <= counter % Len(endpoints) THEN 1 ELSE 0
    BY <2>2 DEF SpreadInv, SpreadOver
  <2>4. \A k \in 1..Len(endpoints) : CallsOf(k) = q \/ CallsOf(k) = q + 1
    BY <2>3
  <2>5. QED BY <2>1, <2>4
<1>3. QED BY <1>1, <1>2, SpreadStep, BalancerInvHolds, PTL DEF Spec

=============================================================================
