# A verification of chassis-srv

TLA+ models of the microservice chassis in `src/`, checked with TLC on small
instances, and theorems about them checked with TLAPS. Paths below are
relative to the root of the repository.

## 1. Inventory of the system

The chassis is single-threaded JavaScript: generators driven by `co`, and
promises. Two operations interleave only where one of them *yields* (or
*awaits*); between two yields code is atomic. Continuations of settled promises
are microtasks and run before the next event of the network, which decides what
can come between two steps.

| Component (source) | State it keeps | Operations | What makes it correct |
|---|---|---|---|
| **gRPC transport server** (`src/microservice/transport/provider/grpc/index.ts`) | for each streaming call: `requests`, `fns`, `end`; for each server the gRPC core's services and calls | `bind`, `start`, `end`; the four kinds of endpoint; `read`, `write`, `end` of a call | messages reach the handler once and in order; no read hangs; each call is answered once and truly |
| **gRPC reflection** (`.../grpc/reflection.ts`) | none but the loop over its call | `serverReflectionInfo` | the loop ends with the stream; an answer for each request |
| **Pipe transport** (`.../pipe/index.ts`) | the list `servers` of the process; `service` of each server | `bind`, `start`, `end` of servers; `makeEndpoint`, `end` of clients; calls | clients find what serves; a start or an end leaves other servers alone; true responses |
| **Server** (`src/microservice/server.ts`) | `transport`, `middleware`, event listeners | `bind`, `start`, `end`; events `bound`, `serving`, `stopped` | the events tell the truth about the transports, when operations fail half way or overlap |
| **Endpoint and middleware chain** (`src/microservice/endpoint.ts`, `server.ts`) | the array of middleware, shared by reference | `chain`, the endpoint of a method | middleware runs from first to last, once, around the business logic |
| **Load balancers** (`src/microservice/loadbalancer/`) | publisher promise, counter | `staticPublisher`, `fixedPublisher`, `roundRobin`, `random` | endpoints for all instances; even distribution |
| **CommandInterface** (`src/command-interface/index.ts`) | `health.status`, `service[s].bound`, `service[s].transport[t]`, listeners on the topics | `check`, `version`, `reset`, `restore`, `command` | the health is true; restore replays what was asked for and tells when it is done; reset empties the databases |
| **ArangoDB provider** (`src/database/provider/arango/index.ts`) | connection; collections live in the database | `connect`, `query` with its creation of collections, document operations | an operation on a missing collection succeeds; no effect twice; retries; a filter selects what it means |
| **NeDB provider** (`src/database/provider/nedb/index.ts`) | the data stores | document operations | the same documents and answers as the other provider |
| **Registries, cache, configuration, logger, errors** (`src/database/index.ts`, `src/cache`, `src/config`, `src/logger`, `src/microservice/errors.ts`) | maps from names to constructors; the configuration singleton | `register`, `get`, `load` | one configuration for all |

How they interact. `Server.bind` wraps each method of the business logic with the
middleware and hands it to the providers of the transports it is configured for;
gRPC then calls the wrapper of `wrapServerEndpoint` for each request. The
`CommandInterface` listens to the events of the `Server` and is itself bound to
it as a service, so that a health check is a gRPC call of the server it asks
about. `restore` and `reset` work on the databases and on Kafka topics. Pipe
clients share one list with the pipe servers of the process; publishers make
endpoints from clients, balancers choose among them.

What is hard here: the two queues of a request stream that fill each other; the
end of a stream while reads wait; promise chains whose links throw; operations
over several transports that fail at one of them, while calls run; the status
that an event sets and a check reads before and after it waits; the listeners
that `restore` registers, resets and removes while messages arrive; the shared
list of pipe servers; an array of middleware that changes while an endpoint is
built of it; two databases that are to behave as one. `PROJECT.json` lists each of these hazards at its line, with
the properties that would catch it or the reason why none does.

## 2. Modules

| Module | Models | Composition |
|---|---|---|
| `FifoStream` | abstract: what a reader of a request stream may rely on | refined by `GrpcStream` |
| `GrpcStream` | `requests`, `fns` and `end` of a streaming call (request stream and bidirectional endpoints have the same code) | |
| `GrpcCall` | a call of any kind from its arrival to its answer: the handler, and the promise chain behind it | extends `GrpcStream` |
| `Endpoint` | the endpoint `makeEndpoint` puts around a method, and `chain()` over an array of middleware that its owner changes | |
| `Reflection` | the handler `serverReflectionInfo` and the outcomes of its methods | extends `GrpcCall` |
| `Calls` | a call from the wire through its stream and its middleware to any method, or to that of the reflection service | extends `Reflection` and `Endpoint` |
| `ServerLifecycle` | `Server.bind/start/end` over gRPC and pipe providers, calls in flight, and the health of the `CommandInterface` | |
| `Restore` | the command `restore` on one topic, with its listeners | |
| `PipeTransport` | the list of pipe servers, endpoints of clients, calls | |
| `LoadBalancer` | `staticPublisher`, `fixedPublisher`, `roundRobin`, `random` | extends `PipeTransport` |
| `ArangoQuery` | `query()` of the ArangoDB provider, with the collection it creates, for inserts that run at the same time | |
| `Reset` | the command `reset`: the loop over the configured databases, `connect` with its attempts, `truncate` | extends `ArangoQuery` |
| `Filters` | the filters of both database providers: the AQL condition `buildFilter` makes, the query NeDB gets, and what MongoDB means by them | |
| `Documents` | all operations on one collection, on both providers at once | extends `Filters` |
| `GrpcStreamProofs`, `ServerLifecycleProofs`, `RestoreProofs`, `LoadBalancerProofs`, `ResetProofs`, `DocumentsProofs` | the theorems | extend the module they are about |
| `GrpcCallProofs`, `CallsProofs` | the theorems about a call | extend their module and `GrpcStreamProofs`; `CallsProofs` extends `GrpcCallProofs` too, whose lemmas hold in it as they stand |
| `MC*` | instances for TLC | extend the module they check |

Operators whose name ends in what they do wrong (`QueuedInFront`, `NeverWaits`,
...) stand directly before the definition they vary. They are mutants: with one of
them in the place of its definition TLC must find the property violated that
`PROJECT.json` pairs with it.

### GrpcStream and GrpcCall

`received` and `answers` are histories (what `data` events carried, and what the
k-th `read()` got, `Waiting` until it is answered); `requests`, `fns` and `end` are
the variables of the code, `fns` holding the number of the read in place of its
callback. A listener and the thunk of a read run to completion, hence `OnData`,
`OnEnd` and `Read` are one action each. Several reads can be pending, since a
handler may yield an array of reads or fork them with `co`.

In `GrpcCall` a handler reads, writes, ends the call, and at last returns or
throws; then `link` walks through the `.then` and `.catch` links of the kind of
endpoint (`Chain`), with `promise` as the promise so far. Errors are the classes
of `errors.ts` with a status in `errorMap`, any other error object
(`PlainError`), and null or undefined (`Nil`), which can be thrown too. gRPC's
`callback` may throw. The branch `if (!endpoint)` of the normal endpoint is left
out: `wrapServerEndpoint` never passes a missing endpoint.

### Endpoint, Reflection and Calls

`Endpoint` follows one request: `chain()` reads `middleware[i]`, yields to it, and goes
on with `i - 1` of whatever the array then is; `built` lists the middleware of the
functions made so far. The owner may push, unshift and splice between two of
these reads. Then the request enters the functions one by one (`PassOn`), unless
one throws or answers itself (`Intercept`).

`Reflection` gives the actions of a handler: `NextRequest`, `Respond` and `EndOfCall` are
`HandlerRead`, `HandlerWrite` and `HandlerEnd` of `GrpcCall` with the guards of the loop, and
`BreakOff` leaves it when a lookup throws. A request is its method and whether what
it names exists; `Outcomes` gives the status of the response, or `"throws"`.
`fileByFileName` can only fail: what it calls `parser` is an array of names.

`Calls` composes the two with the stream and the promise chain: the handler of
`GrpcCall` runs only once the endpoint has been built and the request has come
through it, and returns what the logic or a middleware around it returns. The
theorems about `GrpcStream` hold in it as they stand, since `Calls` moves the stream
by its actions only.

### ServerLifecycle

Each service's `bind`, and `start` and `end`, is a coroutine with a position `pos[o]`
in the list of transports. An action goes from one yield to the next: what follows
the provider's return (emit `bound` for a bind), and the provider's next body.
The bodies of `bind` and `start` never wait, so a coroutine suspended there has a
microtask to run, and no call arrives before it has (`Quiet`); only
`tryShutdown` waits for calls. A check without a service name is two actions,
since it awaits Kafka between its two reads of the status. It may be a gRPC call,
which is then in flight meanwhile (`CheckEmits`), or come over the pipe, as a Kafka
command or from the process itself (`CheckEmitsElsewhere`), for which no operation of
the server waits; the model has one check at a time. `end` of the pipe provider frees
its address, whoever holds it, so that a later `start` may succeed. An operation is called again only after its last call has
settled. Not in the repository, and assumed of gRPC: `addService` refuses a
registered service, and any after `start`; a second `start` throws; `tryShutdown`
calls back when no call is left. Operations may overlap at any time;
`overlapped` records that one was called while another was running, because two of
the properties (`ServingIsTrue`, `StoppedIsTrue`) are about operations that are called
one after the other.

### Restore

`restore()` runs through its three event names with two yields for each: `On` (the
listener is registered) and `Reset` (the consumer goes back). Each call of a
listener is a token `inv[o][stage]` that moves from handling its message to the
response to the removal of the listeners, one awaited call at a time. The Kafka
client is external, and the code that uses it leaves three things open: whether
`$reset(event, offset)` moves the consumer of the topic or one for the event,
whether the client waits for a listener before it hands out the next message, and
where a consumer stands when the command comes: at the end of the topic, or before a
message it has still to hand out (`Positions`; `began` keeps it), as it may be when the
service itself listens to the topic, or as it was committed. Between `On` and the first
`Reset` such a message meets the listener of the restore (`Unread`). A consumer reads on
without a listener of the restore too, since the service may have its own. A message is its event and its offset, and all messages of
the topic are about one document; `stored` is what the two collections that
the handlers name hold of it.

### PipeTransport and LoadBalancer

`at` is the list; an address with a dot is a path for lodash (`_.set`, `_.get`,
`_.unset`) but not for the check `servers[this.addr]`, which therefore never finds
it in use (`Dotted`): there `start` replaces the server that serves. All endpoints of a `staticPublisher` are made when the first
request asks for one, in one step, since no `makeEndpoint` yields. A pipe client's
`makeEndpoint` is a generator function: it throws outside of the try that
`staticPublisher` has around its factory, and one instance without a server makes
every request fail; with an eager factory the instance is passed over.

### ArangoQuery and Reset

Each `yield` of a request to ArangoDB ends an action. A request has its effect or
not, and can fail in both cases, with an error of class `Errors`: one with a message
that is not about the collection, or one with an empty message, which `query()`
takes for a missing collection and `reset()` for success. The operation modelled is
`insert`, with one document, for which being done twice matters most; the other
operations on a collection go through the same `query()`. `errorMsg` holds the class of its error.
`connect` is part of the command: `Connect`, `CreateDatabase` and `Sleep` are its
three yields. What `msleep` returns is not in the repository; if `co` cannot yield
it, the first failed attempt is the last (`sleepYields`). Another service may
create a database meanwhile; none drops a database or a collection, as no code of
the chassis does.

### Filters and Documents

`Documents` calls each operation on both providers and keeps what each has stored
and answered. A document has an id and a field `f`; a value has a type and a number
that orders it among those of its type, 0 being the one that JavaScript takes for
false. `Filters` has the three readings of a filter: `AqlHolds` for what `buildFilter`
and `buildField` make of it (the first operator whose operand is not falsy), with the
order AQL has for values of different types; `NedbHolds` and `NedbThrows` for what the
NeDB library matches after `convertToRegexp`; `Meant` for MongoDB's, which README.md
names as the model of the filters. All three are recursive functions on the set
`Filter`, which with each filter has those it joins (none of them empty, as the code
would build nothing of them), and on `Condition`, which with each condition has
the one it negates; `FilterDepth` and `ConditionDepth` say that they are finite
objects, and carry the induction of the proofs. `used` records the first use that the providers
do not have in common, where the history ends; they are listed below.

The module also supposes that ids are not empty, that documents bring no `_key` of
their own, that `findByID` gets different ids, and that no `$not` stands around an affix
(these are raw text for the AQL builder, which is external).

The uses:

* `filter`: several operators on a field, an operand or plain number 0, an
  order between values of different types, `$eq`, `$not` and `$inAttr`, which NeDB
  does not know, numbers in a list, an affix in other capitals (NeDB's regular
  expression ignores case);
* `page`: a limit of 0, an offset without a limit;
* `collision`: an id that differs from another in `/` and `_` only;
* `duplicate`: an insert of an id that exists; `list`: an upsert of a member of an
  inserted list; `partial`: an upsert without a field the stored document has;
  `id`: an update of the id itself.

Leaving out any one of these makes TLC find a history where the providers differ.

## 3. Runs

`tlc -workers 2 -config X.cfg M` in this directory. Deadlock is not checked: the
systems may stop (a stream ends, a call is answered, operations are used up).

| Run | Shows |
|---|---|
| `Calls` | Every message is delivered once and in order (`NothingLost`), the pending callbacks are those of the last reads (`PendingAreLast`), and the stream implements `FifoStream` (`FifoSpec`); no middleware is passed over and the request meets it in the order declared (`Guarded`, `InOrder`); the call is answered once (`AnsweredOnce`, with the one exception that a callback which throws is called again for a request stream) and truly (`TrueAnswer`); handlers do not hang in reads (`HandlersFinish`); clients of the two kinds with a callback get an answer (`GetsAnswer`); the reflection handler answers its requests in order, those still queued when the client ends its stream too, and ends its call (`RespondedInOrder`, `EndsItsCall`). |
| `GrpcCallStreams` | *Violation.* A response stream or bidirectional handler that throws leaves its call open, against README.md:69. |
| `Server` | Operations in any order and overlap, up to two of each: a bound service is registered (`BoundIsRegistered`), a failed bind leaves a prefix (`PrefixBound`), a check over gRPC gives one status unless a service is bound while it waits (`CheckAgrees`; one that comes another way may give two); until one operation overlaps another SERVING is true (`ServingIsTrue`) and `stopped` is true (`StoppedIsTrue`). `end()` finishes unless a call hangs (`EndFinishes`). |
| `ServerUnbound` | *Violation.* A service that no transport serves is reported as SERVING, against the comment in `check`. |
| `RestoreSafety` | With consumers that may be behind, live messages and failures, only messages asked for are handled, and before the requested offset only those a consumer had not read (`OnlyAskedFor`), none more often than its listener sees the topic (`ReplaysBounded`), and the answer is that of a last message (`ResponseIsLast`). |
| `RestoreReplay` | Without failures, on longer topics, with clients that wait and that do not: with one consumer that waits for its listeners, and no event after those the command saw, all Created messages are handled before the answer (`CreatedReplayed`); each message is handled as often as its listener sees the topic at most, which with a consumer for each event that was at the end is once (`ReplaysBounded`). A live message, or a Created one at the end of the topic that had not been read, may be answered between the first `on` and its `$reset`, before anything is replayed: `CreatedReplayed` excludes the two. There is an answer when the last message has a handler and is not ignored (`RestoreAnswers`). |
| `RestoreLost` | *Violation.* `restore` has been through its loop, no listener is left, and a message was never handled: the listener of the last one took off all listeners before the last `$reset`, against command-interface.md:47. |
| `RestoreCollections` | *Violation.* A document whose messages are all handled, once and in order, is in no collection as they left it, against command-interface.md:47. |
| `LoadBalancer` | Clients find only servers that serve (`FoundIsServing`), responses are true (`TrueResponse`), endpoints are made for all instances from servers that serve (`EndpointsServed`), requests are spread evenly (`Balanced`). |
| `PipeEnded` | *Violation.* `end()` of a server whose start failed takes another one off the list. |
| `Reset` | While collections are created and emptied and requests fail: no document is stored twice (`AppliedOnce`), an insert without a failed request is refused only if another one created its collection (`FailsOnlyWhenRaced`); a reset that tells success has removed what was there when it was called (`OldGone`), and every reset ends (`ResetEnds`). |
| `Documents` | As long as what is asked is common to both, the two providers hold the same documents, each once, and give the same answers (`SameDocuments`); a filter with one operator for a field selects in ArangoDB exactly what it means, and one with more, without `$not`, at least that (`SelectsMeant`). |

Bounds. Three messages, four reads and three of them pending fill and empty both
queues of a stream in each order. The three messages are reflection requests of
three kinds: always answered, not found, and one whose lookup may throw. The array
of middleware has up to two members when the request arrives and three in all, and
changes in calls of the normal kind only (`ArrayChanges`), since nothing in the
endpoint depends on the kind. `ServerLifecycle` has three
transports (gRPC, pipe, gRPC), a service on all of them, one that the last
transport refuses, one on none, two calls of each operation, and one call in flight on each
gRPC transport: a failure can come before, between and after successes, and for `end()` to
wait one call is enough, as it may arrive again and again; the theorems hold for any number.
`Restore` has topics of up to three messages, which is one for each event, with consumers
before the last message or at the end; or of two messages and a live one where failures are
allowed and consumers are anywhere, and then no Modified ones, whose handler is to `OnlyAskedFor` and `ResponseIsLast`
what those of Created and Deleted are, and a client that waits for its listeners. That
these two hold when it does not wait is shown by the theorems only; `ReplaysBounded` is
checked for both in `RestoreReplay`. Its bounds are reached: with one less TLC finds them
violated. `LoadBalancer` has two instances and three requests, so that roundRobin
wraps around, two servers that share an address, and two starts. `Reset` has two
databases with one of another provider between them, two collections, two inserts
into the same collection, which is what a race on its creation needs, and two
attempts, of which one is not the last; each database and collection may exist or
not at first. `Documents` has three ids, two of which share a key, three values of two
types with a 0, a filter for each operator and each way to join them, and one
list of two documents; its histories are complete up to any length. Its filters are
nested twice at most and have two entries at most, which the theorems about it are
not bound to.

Fairness. A client ends its request stream; business logic that is not waiting
for a read returns or throws (strong fairness, because a pending read may come and go);
middleware goes on, throws or answers, and so does the reflection handler;
microtasks run; Kafka and the database answer; a consumer with a listener of the
restore reads the messages of its topic; gRPC calls `tryShutdown` back; for `Reset` only the steps of the command
are fair. A handler that hangs is an action of its own
(`CallHangs`) and not excluded. The rest, clients' calls and operators' calls of
`bind`, `start`, `end`, is not assumed to happen, nor is a change of the array of
middleware. `LoadBalancer` and `Documents` state no fairness and no liveness.

## 4. Proofs

`tlapm M.tla` in this directory. The theorems hold for all values of the constants
that satisfy the assumptions named in the modules. Besides the types and ranges of
the constants these say only that different names are different things: the
markers of `GrpcCall` and `PipeTransport` (`Pending`, `Result`, `Running`, ...) and the
error classes do not coincide, a result of a handler is not an error object, a
missing method is no error. Every invariant and every action property that a
passing run checks is proved. The least obvious assumption is `FiltersAssumption`: what
a filter joins and a condition negates is in the set again and less deep, which
is true of every finite object.

* `GrpcStreamProofs`. The conjunction of `TypeOK`, `PendingAreLast`,
  `NeverBothQueued` and `NothingLost` is proved invariant with one addition:
  `AnswersDue`, which says what every answer is (the message of its number, `Waiting`,
  or the end of the stream once the messages are used up). Without it the step
  relation of `FifoStream` could not be matched.
  From it follow `TypeCorrect`, `MessagesKept`, `CallbacksKept`, and
  `ImplementsFifo`, where `OnData`, `OnEnd` and `Read` map to steps of the abstract
  stream.
* `GrpcCallProofs`. `AnsweredOnceTrue` and `TrueAnswerTrue`. The replies of a call say
  nothing of the links that are still to run; the invariant `ChainInv` gives, for
  each kind of endpoint and each value of `link`, what `promise` and `replies` are,
  given what became of the handler.
* `CallsProofs`. Each step of `Calls` moves the stream and the promise chain by a step of
  `GrpcStream` or `GrpcCall` or leaves them alone (`SpecCalls`), so `CallInv` holds here too:
  `CallsAnswered`, `CallsFifo`, `CallsKeepMessages`. `GuardedTrue` and `InOrderTrue`: whatever
  is kept and has not been applied lies in the array before `at` (`Ahead`), and what has been applied
  was declared behind all that lies before `at` (`Behind`), unless a member was added in front or taken
  off. `RespondedTrue`: the reads of the loop and its responses differ by the request it is at
  (`LoopsOK`), and an ended stream with an unanswered read is an exhausted one.
  `CallsTypeTrue`.
* `ServerLifecycleProofs`. `BoundTrue`: a bind that has yielded to a transport has
  registered its service there, so that `bound` is true when it is emitted; this
  holds with any overlap. `ServingTrue`: while no operation has overlapped another, a start
  at position `i` has all transports up to `i` serving, nothing but `end` makes a
  transport leave that state, and `end` is running from its first yield until it
  has told; hence the status SERVING is true. For this the invariant also says
  that at most one operation runs. `StoppedTrue`: the transports behind the position of
  an `end` that runs alone have stopped and have no calls. `CheckTrue`: a check over gRPC that waits
  is a call in flight, hence its transport serves and no start or end can tell a new status,
  with any overlap of the operations and whatever other checks run. (For these the proof has
  nothing to rest on, and TLC finds two statuses.) `PrefixTrue` and `TypeTrue`.
* `RestoreProofs`. Every listener call that was ever started is counted (`Delivered`),
  and so are those that have handled their message (`Later`). `RestoreInv` says that only
  what is on the topic, not ignored and of an event with a handler is started (`Asked`), and
  that only a message that has been handled and is at or behind the target gets to the
  later stages (`Last`); from it follows `ResponseTrue`. `PhaseInv` bounds the calls of each message
  by the part of the loop that `restore` has been through: those of a consumer that had
  not read it, and one for each reset its listener has seen, counted as the consumer passes
  it. From it follow `OnlyAskedForTrue`, `ReplaysBoundedTrue`, and the four calls at a stage in
  `TypeTrue`, for consumers at any position. `CreatedReplayedTrue` follows the single consumer:
  not reset yet, sweeping over the topic with the Created listener on it, or done
  (`SweepInv`). That proof failed at first: a live event, or an unread Created one at the end,
  may be answered before the first reset, which the property excludes.
* `LoadBalancerProofs`. `FoundTrue`, from the fact that only `start` and `end`
  change the list and the servers that serve; `EndpointsServedTrue` from
  it and the definition of what is kept. `TrueResponseTrue` and `TypeTrue`: as many calls as
  requests once the publisher has resolved, to one endpoint at least, and each call runs or is
  answered as its outcome says. `BalancedTrue`: after `q` rounds and `r` requests the first `r`
  endpoints have had `q + 1` calls and the others `q` (`SpreadInv`).
* `ResetProofs`. `StoredOnce` and `RefusedOnlyByRace`, with any number of inserts
  and whatever the reset does. The invariant says where an operation can be once its
  document is stored (`Once`: its collection exists, hence it cannot reach the second
  query) and once its collection exists (`Race`). `OldGoneTrue`: what was stored when the
  command was called and is in a database the loop has left is gone, in the one it is at it can
  only be in the collections still to be truncated (`EmptiedSoFar`), as nothing is stored a second time.
  `TypeTrue`.

* `DocumentsProofs`. `SameDocumentsTrue`, `SelectsMeantTrue` and `TypeTrue`, for filters and
  conditions of any depth. What a recursive definition computes needs induction, and the
  induction theorems of the library take an operator, which the provers cannot instantiate;
  the least-number principle in terms of sets they can (`LeastOf`), and it gives
  induction over the depth (`InductionOn`) and, since a recursive function is a `CHOOSE`,
  that there is one to choose: functions that are right below each depth agree, and their
  union is it (`RecursionOn`). Each function of `Filters` is then shown to be what its definition
  says (`FieldEntriesDef`, `AqlHoldsDef`, ..., `NedbThrowsDef`). With that, `CommonConditionAgrees` compares
  `buildField` with NeDB operator by operator, `CommonFilterAgrees` does it for filters, and
  `SelectsWhatItMeans` compares `buildFilter` with the meaning. The stores are finite and have
  a key once whatever is called (`StoresInv`). `SameDocuments` is not inductive: that the next
  operation does the same to both also needs that the keys in ArangoDB are those of the
  ids, that an `_id` in NeDB which is not generated is the id, and that
  no id is in NeDB twice (`Together`). Each operation keeps this if it makes a common use; the
  counts follow, because both stores have every document once (`SameCount`).

What is model-checked only: the liveness properties (`HandlersFinish`, `GetsAnswer`,
`EndsItsCall`, `EndFinishes`, `RestoreAnswers`, `ResetEnds`), which are out of the
prover's reach. The theorems speak of the models with their bounds
(`MaxCalls`, `MaxLive`, ...) as constants of any size.

## 5. Findings

The violation runs are disagreements between the code and what its documents,
comments or errors say; `PROJECT.json` quotes the lines. Seen while modelling, without
a run: a restore whose last offset is ignored never answers, because its listener
returns before it compares offsets (command-interface/index.ts:218; `RestoreAnswers`
excludes it); a restore may answer at a message it had not asked for, before it has
replayed anything (command-interface/index.ts:226; `CreatedReplayed` excludes it), and handle
messages before the requested offset that its consumer had not read (`OnlyAskedFor` excludes
them); a normal endpoint whose handler rejects with null or undefined never calls back
(grpc/index.ts:64; `GetsAnswer` excludes it); a server at an address with a dot starts although
the address is in use and takes it (pipe/index.ts:69; `ServingIsFound` excludes it); of two
operators on a field `buildField` takes the first, so that `delete` removes what the second
excludes (arango/index.ts:140; `SelectsMeant` excludes it); in NeDB an upsert of a document
that was inserted in a list creates a second one (nedb/index.ts:71; `SameDocuments` excludes it);
a check
that is no gRPC call may put one status on the topic and answer another
(command-interface/index.ts:342-346; `CheckAgrees` excludes it); `check` of a
service never answers NOT_SERVING (command-interface/index.ts:357-363); an
insert that NeDB refuses throws once more out of the library's callback
(nedb/index.ts:78), where nobody catches it; two ids that differ in `/` and `_` only are one
document for ArangoDB (arango/index.ts:37); middleware added in front of the array
while `chain()` runs makes it pass one over, and one removed may make it apply
another twice (endpoint.ts:7); `Client.end` of the pipe sets `this.connected`, its
endpoints read `this.state.connected` (pipe/index.ts:144,183).

## 6. Not modelled, and the plan

Left out for good: loading proto files and credentials, opening the files of NeDB,
the descriptors of reflection (pure conversions and I/O), logger, cache and
database registries (maps from names to constructors), the configuration singleton
(one variable that the last of two racing loads sets), the commands `version` and
`reconfigure` and the dispatch of commands (no state).

Of modelled parts: in the database providers sorting and the choice of fields,
dates, text that spells a number or has the characters of a regular expression,
lists of upserts, what `update` and `insert` return, and operations that run at the
same time (`ArangoQuery` has those of the one step that can be interleaved); of
`restore` several topics, a second restore of the same topic and what the listeners of
the service itself do (that its consumer reads on for them is modelled); in `Calls` middleware that reads or writes the stream itself.

What would come next: restores that run at the same time on one topic, and services
that listen to it.
