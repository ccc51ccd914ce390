------------------------------- MODULE Calls -------------------------------
(***************************************************************************)
(* A gRPC call on its way through the server: the stream of requests and   *)
(* the promise chain of GrpcCall, the endpoint with its middleware around  *)
(* the method that is called, and as that method either any business       *)
(* logic or the handler of the reflection service.  Middleware here acts   *)
(* around what it is given and does not read or write the stream itself.   *)
(***************************************************************************)
EXTENDS Reflection, Endpoint

CONSTANT ArrayChanges   \* bound: the kinds of calls during which the array changes

ASSUME CallsAssumption == ArrayChanges \subseteq AllKinds

VARIABLE service    \* whose method is called: any or reflection

callsVars == <<vars, reflectionVars, endpointVars, service>>

CallsTypeOK ==
  /\ CallTypeOK /\ EndpointTypeOK /\ ReflectionTypeOK
  /\ service \in {"any", "reflection"}

CallsInit ==
  /\ CallInit /\ EndpointInit /\ ReflectionInit
  /\ service \in {"any"} \cup {r \in {"reflection"} : kind = "biDirectional"}

-----------------------------------------------------------------------------
(* The client and the engine do not look at the endpoint.                  *)
Outside == <<reflectionVars, endpointVars, service>>

(* The endpoint around the logic.                                          *)
Owner == kind \in ArrayChanges /\ OwnerChanges /\ UNCHANGED <<vars, reflectionVars, service>>
Chained == EndpointSteps /\ UNCHANGED <<vars, reflectionVars, service>>

InLogic(s) == stage = "logic" /\ service = s

Logic == /\ InLogic("any")
         /\ HandlerRead \/ HandlerWrite \/ HandlerEnd
         /\ UNCHANGED Outside

Reflects == /\ InLogic("reflection")
            /\ ReflectionSteps
            /\ UNCHANGED <<endpointVars, service>>

\* What the logic did, or what a middleware around it makes of it.
MayReturn == \/ stage = "answered"
             \/ InLogic("any")
             \/ InLogic("reflection") /\ ended = 1
MayThrow == \/ stage = "threw"
            \/ InLogic("any")
            \/ InLogic("reflection") /\ ended = 1 /\ built # <<>>

Finish == /\ \/ MayReturn /\ HandlerReturn
             \/ MayThrow /\ \E e \in Thrown : HandlerThrow(e)
          /\ UNCHANGED Outside

-----------------------------------------------------------------------------
CallsNext ==
  \/ \E m \in Msg : ClientData(m) /\ UNCHANGED Outside
  \/ ClientEnd /\ UNCHANGED Outside
  \/ Owner \/ Chained \/ Logic \/ Reflects \/ Finish
  \/ MapError /\ UNCHANGED Outside
  \/ ThenCallback /\ UNCHANGED Outside
  \/ CatchCallback /\ UNCHANGED Outside
  \/ CatchLog /\ UNCHANGED Outside

\* As CallFairness; middleware goes on, and so does the handler of the
\* reflection service when its read is answered.
CallsFairness ==
  /\ WF_callsVars(ClientEnd /\ UNCHANGED Outside)
  /\ WF_callsVars(Chained) /\ WF_callsVars(Reflects) /\ SF_callsVars(Finish)
  /\ WF_callsVars(Settle /\ UNCHANGED Outside)

CallsSpec == CallsInit /\ [][CallsNext]_callsVars /\ CallsFairness
-----------------------------------------------------------------------------
(***************************************************************************)
(* Properties                                                              *)
(***************************************************************************)
\* The k-th response is for the k-th request, and when the call is ended all
\* requests have one, those that were still queued when the client ended its
\* stream included, unless a lookup threw: then the one that made it throw
\* is the first without a response.
RespondedInOrder == service = "reflection" =>
  /\ Len(responses) <= Len(received)
  /\ \A k \in DOMAIN responses : responses[k].to = received[k]
  /\ ended = 1 /\ ~broken => Len(responses) = Len(received)
  /\ broken => /\ Len(responses) < Len(received)
               /\ "throws" \in Outcomes(Request[received[Len(responses) + 1]])

\* A reflection call that gets through the middleware is ended by its
\* handler, whatever it is asked, once its client ends the stream.
EndsItsCall == InLogic("reflection") ~> ended = 1
=============================================================================
