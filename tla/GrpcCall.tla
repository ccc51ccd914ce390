------------------------------ MODULE GrpcCall ------------------------------
(***************************************************************************)
(* One gRPC call from its arrival to its answer, for the four kinds of     *)
(* endpoint wrapServerEndpoint chooses from.  A handler reads the stream   *)
(* of GrpcStream, writes, ends the call, and at last returns or throws;    *)
(* then the promise that co() made runs through the .then and .catch links *)
(* its kind has, one link per step, and calls back.                        *)
(*                                                                         *)
(* A reply is what the endpoint passes to the callback of the call: Result *)
(* for (null, result), a status class for an error that carries a code,    *)
(* Uncoded for an error that carries none, Nothing for neither.            *)
(***************************************************************************)
EXTENDS GrpcStream, FiniteSets

CONSTANTS
  Kinds,            \* the kinds of endpoint called
  ErrorClass,       \* the classes of errors.ts in the map of status codes
  Internal,         \* the class whose code is INTERNAL
  PlainError,       \* an error object of any other class
  Nil,              \* null or undefined, thrown or rejected with
  Result, Uncoded, Nothing, Pending,
  CallbackMayThrow, \* whether gRPC's callback may throw
  MaxWrites         \* bound: messages a handler writes

Thrown == ErrorClass \cup {PlainError, Nil}
AllKinds == {"normal", "requestStream", "responseStream", "biDirectional"}

ASSUME CallAssumption ==
  /\ Kinds \subseteq AllKinds
  /\ Internal \in ErrorClass
  /\ MaxWrites \in Nat
  /\ CallbackMayThrow \in BOOLEAN
  /\ Cardinality({PlainError, Nil, Result, Uncoded, Nothing, Pending}) = 6
  /\ ErrorClass \cap {PlainError, Nil, Result, Uncoded, Nothing, Pending} = {}
  /\ Result \notin [error : ErrorClass]

VARIABLES
  kind,     \* which endpoint serves the call
  outcome,  \* of the handler: Pending, Result or what it threw
  promise,  \* the last settled promise of the chain
  link,     \* the number of links of the chain that have run
  replies,  \* the arguments of each call of the callback
  faults,   \* the number of callbacks that threw
  written,  \* call.write()s of the handler
  ended     \* call.end()s of the handler

callVars == <<kind, outcome, promise, link, replies, faults, written, ended>>
vars == <<streamVars, callVars>>

ReadsRequests == kind \in {"requestStream", "biDirectional"}
Writes == kind \in {"responseStream", "biDirectional"}

Fulfilled(v) == [ok |-> TRUE, value |-> v]
Rejected(v) == [ok |-> FALSE, value |-> v]

\* The links behind co(): .catch maps an error, .then calls back, and so on.
\* Mutants: the last .catch calls back again; no .catch in front of .then.
ChainCallingTwice == [normal |-> <<"mapError", "callback", "callbackError">>,
                      requestStream  |-> <<"callback", "callbackError">>,
                      responseStream |-> <<>>, biDirectional |-> <<>>]
ChainUncaught == [normal |-> <<"callback", "log">>, requestStream |-> <<"callback">>,
                  responseStream |-> <<>>, biDirectional |-> <<>>]
Chain == [normal         |-> <<"mapError", "callback", "log">>,
          requestStream  |-> <<"callback", "callbackError">>,
          responseStream |-> <<>>,
          biDirectional  |-> <<>>]

CallTypeOK ==
  /\ TypeOK
  /\ kind \in Kinds
  /\ outcome \in Thrown \cup {Pending, Result}
  /\ promise \in [ok : BOOLEAN, value : Thrown \cup {Pending, Result, Nothing}]
                   \cup [ok : {TRUE}, value : [error : ErrorClass]]
  /\ link \in 0..Len(Chain[kind])
  /\ replies \in Seq(ErrorClass \cup {Result, Uncoded, Nothing})
  /\ faults \in 0..2 /\ written \in 0..MaxWrites /\ ended \in 0..1

CallInit ==
  /\ Init
  /\ kind \in Kinds
  /\ outcome = Pending /\ promise = Fulfilled(Pending) /\ link = 0
  /\ replies = <<>> /\ faults = 0 /\ written = 0 /\ ended = 0

-----------------------------------------------------------------------------
\* The handler runs when none of its reads is waiting.
Running == /\ outcome = Pending
           /\ \A k \in DOMAIN answers : answers[k] # Waiting

ClientData(m) == ReadsRequests /\ OnData(m) /\ UNCHANGED callVars
ClientEnd == ReadsRequests /\ OnEnd /\ UNCHANGED callVars

\* read(): of the handler, or of a co() it has forked.
HandlerRead == ReadsRequests /\ outcome = Pending /\ Read /\ UNCHANGED callVars

HandlerWrite ==
  /\ Writes /\ Running /\ ended = 0 /\ written < MaxWrites
  /\ written' = written + 1
  /\ UNCHANGED <<streamVars, kind, outcome, promise, link, replies, faults, ended>>

HandlerEnd ==
  /\ Writes /\ Running /\ ended = 0
  /\ ended' = 1
  /\ UNCHANGED <<streamVars, kind, outcome, promise, link, replies, faults, written>>

HandlerReturn ==
  /\ Running
  /\ outcome' = Result /\ promise' = Fulfilled(Result)
  /\ UNCHANGED <<streamVars, kind, link, replies, faults, written, ended>>

\* An exception of the business logic, of a middleware, or of a read that
\* found the end of the stream.
HandlerThrow(e) ==
  /\ Running
  /\ outcome' = e /\ promise' = Rejected(e)
  /\ UNCHANGED <<streamVars, kind, link, replies, faults, written, ended>>

-----------------------------------------------------------------------------
(* The promise chain.                                                      *)
NextLink(l) == /\ outcome # Pending
               /\ link < Len(Chain[kind])
               /\ Chain[kind][link + 1] = l
               /\ link' = link + 1
               /\ UNCHANGED <<streamVars, kind, outcome, written, ended>>

\* A link that does not apply passes the promise on.
Skip == UNCHANGED <<promise, replies, faults>>

\* callback(r): gRPC sends it, or throws.
CallBack(r) ==
  /\ replies' = Append(replies, r)
  /\ \/ promise' = Fulfilled(Nothing) /\ UNCHANGED faults
     \/ CallbackMayThrow /\ promise' = Rejected(PlainError) /\ faults' = faults + 1

\* The status of an error: that of its class in errorMap, else INTERNAL.
\* Mutant: every error is INTERNAL.
StatusAlwaysInternal(e) == Internal
StatusOf(e) == IF e \in ErrorClass THEN e ELSE Internal

\* .catch of a normal endpoint; setting err.code fails on null and undefined.
MapError ==
  /\ NextLink("mapError")
  /\ IF promise.ok THEN Skip
     ELSE /\ promise' = IF promise.value = Nil THEN Rejected(PlainError)
                        ELSE Fulfilled([error |-> StatusOf(promise.value)])
          /\ UNCHANGED <<replies, faults>>

\* .then of both kinds that have a callback.
ReplyOf(v) == IF v = Result THEN Result ELSE v.error

ThenCallback ==
  /\ NextLink("callback")
  /\ IF ~promise.ok THEN Skip ELSE CallBack(ReplyOf(promise.value))

\* .catch of a request stream: an error without a code, or no error at all.
CatchCallback ==
  /\ NextLink("callbackError")
  /\ IF promise.ok THEN Skip
     ELSE CallBack(IF promise.value = Nil THEN Nothing ELSE Uncoded)

\* The last .catch of a normal endpoint logs.
CatchLog ==
  /\ NextLink("log")
  /\ IF promise.ok THEN Skip
     ELSE promise' = Fulfilled(Nothing) /\ UNCHANGED <<replies, faults>>

HandlerFinish == HandlerReturn \/ \E e \in Thrown : HandlerThrow(e)
Settle == MapError \/ ThenCallback \/ CatchCallback \/ CatchLog

CallNext == \/ \E m \in Msg : ClientData(m)
            \/ ClientEnd
            \/ HandlerRead \/ HandlerWrite \/ HandlerEnd
            \/ HandlerReturn \/ \E e \in Thrown : HandlerThrow(e)
            \/ MapError \/ ThenCallback \/ CatchCallback \/ CatchLog

\* The client ends its stream, business logic that is not waiting for a read
\* finishes, and the engine runs the links of a settled promise.
CallFairness == WF_vars(ClientEnd) /\ SF_vars(HandlerFinish) /\ WF_vars(Settle)

CallSpec == CallInit /\ [][CallNext]_vars /\ CallFairness
-----------------------------------------------------------------------------
(***************************************************************************)
(* Properties                                                              *)
(***************************************************************************)
\* A call is answered once, however its handler ends.  Only a request stream
\* whose callback threw calls it again, because its .catch is behind .then;
\* endpoints without a callback never answer through one.
AnsweredOnce ==
  /\ kind = "normal" => Len(replies) <= 1
  /\ kind = "requestStream" => Len(replies) <= 1 + faults
  /\ kind \in {"responseStream", "biDirectional"} => replies = <<>>

\* The first answer tells what became of the handler: a result only if it
\* returned, and for a normal endpoint the status of the class it threw.
TrueAnswer == replies # <<>> =>
  /\ (replies[1] = Result) <=> (outcome = Result)
  /\ kind = "normal" /\ outcome \in ErrorClass => replies[1] = outcome
  /\ kind = "normal" /\ outcome = PlainError => replies[1] = Internal

\* A handler never hangs in read(): it returns or throws in the end, because
\* the end of the stream releases all reads, earlier and later ones.
HandlersFinish == outcome = Pending ~> outcome # Pending

\* When a handler returned or threw an error object, the client of a normal
\* endpoint or of a request stream gets a result or an error.
GetsAnswer ==
  (/\ kind \in {"normal", "requestStream"} /\ outcome \notin {Pending, Nil})
     ~> \E i \in DOMAIN replies : replies[i] # Nothing

\* README.md says that a response always includes a result or an error.  The
\* code has no link that ends a response stream or a bidirectional call whose
\* handler threw, and none that answers when null was thrown.
ResultOrError ==
  (outcome \in Thrown) ~> \/ ended = 1
                          \/ \E i \in DOMAIN replies : replies[i] # Nothing
=============================================================================
