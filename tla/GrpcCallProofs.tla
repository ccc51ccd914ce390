--------------------------- MODULE GrpcCallProofs ---------------------------
(***************************************************************************)
(* Proofs about GrpcCall for every set of kinds of endpoints, of messages  *)
(* and of classes of errors.                                               *)
(*                                                                         *)
(* How a call is answered is an invariant of its promise chain: ChainInv   *)
(* gives, for each link that has run, the promise, the replies and the     *)
(* faults that the outcome of the handler leads to.  The stream of the     *)
(* call takes only steps of GrpcStream, so what GrpcStreamProofs shows of  *)
(* it holds here, too.                                                     *)
(***************************************************************************)
EXTENDS GrpcCall, GrpcStreamProofs, FiniteSetTheorems

Quiet == replies = <<>> /\ faults = 0
CalledBack(r) == /\ replies = <<r>>
                 /\ \/ faults = 0 /\ promise = Fulfilled(Nothing)
                    \/ faults = 1 /\ promise = Rejected(PlainError)

\* The handler has not left, or it has and no link has run.
HandlerRuns == link = 0 /\ Quiet /\ outcome = Pending /\ promise = Fulfilled(Pending)
HandlerLeft ==
  /\ link = 0 /\ Quiet /\ outcome \in Thrown \cup {Result}
  /\ promise = IF outcome = Result THEN Fulfilled(Result) ELSE Rejected(outcome)

\* The links of a normal endpoint: mapError, callback, log.
MappedPromise == IF outcome = Result THEN Fulfilled(Result)
                 ELSE IF outcome = Nil THEN Rejected(PlainError)
                 ELSE Fulfilled([error |-> StatusOf(outcome)])
ReplyDue == IF outcome = Result THEN Result ELSE StatusOf(outcome)
NormalChain ==
  \/ link = 1 /\ Quiet /\ promise = MappedPromise
  \/ link = 2 /\ outcome = Nil /\ Quiet /\ promise = Rejected(PlainError)
  \/ link = 2 /\ outcome # Nil /\ CalledBack(ReplyDue)
  \/ link = 3 /\ outcome = Nil /\ Quiet /\ promise = Fulfilled(Nothing)
  \/ /\ link = 3 /\ outcome # Nil /\ replies = <<ReplyDue>>
     /\ faults \in 0..1 /\ promise = Fulfilled(Nothing)

\* The links of a request stream: callback, callbackError.
StreamChain ==
  \/ link = 1 /\ outcome = Result /\ CalledBack(Result)
  \/ link = 1 /\ outcome # Result /\ Quiet /\ promise = Rejected(outcome)
  \/ /\ link = 2 /\ outcome = Result
     /\ \/ faults = 0 /\ replies = <<Result>>
        \/ faults \in 1..2 /\ replies = Append(<<Result>>, Uncoded)
     /\ promise \in {Fulfilled(Nothing), Rejected(PlainError)}
  \/ /\ link = 2 /\ outcome # Result
     /\ faults \in 0..1 /\ replies \in {<<Nothing>>, <<Uncoded>>}
     /\ promise \in {Fulfilled(Nothing), Rejected(PlainError)}

ChainInv ==
  /\ kind \in Kinds /\ outcome \in Thrown \cup {Pending, Result}
  /\ \/ HandlerRuns
     \/ HandlerLeft
     \/ outcome # Pending /\ kind = "normal" /\ NormalChain
     \/ outcome # Pending /\ kind = "requestStream" /\ StreamChain

WritesOK == written \in 0..MaxWrites /\ ended \in 0..1

CallInv == IInv /\ ChainInv /\ WritesOK

-----------------------------------------------------------------------------
\* Six things of which a set has six members differ from each other.
LEMMA Two ==
  ASSUME NEW a, NEW b, NEW c, NEW d, NEW e, NEW f,
         Cardinality({a, b, c, d, e, f}) = 6
  PROVE  a # b
<1>1. SUFFICES ASSUME a = b PROVE FALSE
  OBVIOUS
<1> DEFINE S1 == {f}  S2 == S1 \cup {e}  S3 == S2 \cup {d}  S4 == S3 \cup {c}
           S5 == S4 \cup {b}
<1>2. IsFiniteSet(S1) /\ Cardinality(S1) = 1
  BY FS_Singleton, Zenon
<1>3. /\ IsFiniteSet(S2)
      /\ Cardinality(S2) = IF e \in S1 THEN Cardinality(S1) ELSE Cardinality(S1) + 1
  <2> HIDE DEF S1
  <2> QED BY <1>2, FS_AddElement, Zenon
<1>4. /\ IsFiniteSet(S3)
      /\ Cardinality(S3) = IF d \in S2 THEN Cardinality(S2) ELSE Cardinality(S2) + 1
  <2> HIDE DEF S2
  <2> QED BY <1>3, FS_AddElement, Zenon
<1>5. /\ IsFiniteSet(S4)
      /\ Cardinality(S4) = IF c \in S3 THEN Cardinality(S3) ELSE Cardinality(S3) + 1
  <2> HIDE DEF S3
  <2> QED BY <1>4, FS_AddElement, Zenon
<1>6. /\ IsFiniteSet(S5)
      /\ Cardinality(S5) = IF b \in S4 THEN Cardinality(S4) ELSE Cardinality(S4) + 1
  <2> HIDE DEF S4
  <2> QED BY <1>5, FS_AddElement, Zenon
<1>7. {a, b, c, d, e, f} = S5
  BY <1>1
<1>8. Cardinality(S5) <= 5
  <2> HIDE DEF S1, S2, S3, S4, S5
  <2> QED BY <1>2, <1>3, <1>4, <1>5, <1>6
<1> QED BY <1>7, <1>8

\* The constants that name results and errors are different things.
LEMMA Names ==
  /\ PlainError # Nil
  /\ Result \notin Thrown \cup {Uncoded, Nothing, Pending}
  /\ Pending \notin Thrown \cup {Uncoded, Nothing, Result}
  /\ Nil \notin ErrorClass /\ PlainError \notin ErrorClass
  /\ Uncoded \notin ErrorClass /\ Nothing \notin ErrorClass
  /\ Internal \in ErrorClass /\ Result \notin [error : ErrorClass]
<1> DEFINE All == {PlainError, Nil, Result, Uncoded, Nothing, Pending}
<1>1. Cardinality(All) = 6 /\ ErrorClass \cap All = {}
  BY CallAssumption
<1>2. PlainError # Nil
  BY <1>1, Two
<1>3. Result # PlainError /\ Pending # PlainError
  <2>1. /\ All = {Result, PlainError, Nil, Uncoded, Nothing, Pending}
        /\ All = {Pending, PlainError, Nil, Result, Uncoded, Nothing}
    OBVIOUS
  <2> HIDE DEF All
  <2> QED BY <1>1, <2>1, Two
<1>4. Result # Nil /\ Pending # Nil
  <2>1. /\ All = {Result, Nil, PlainError, Uncoded, Nothing, Pending}
        /\ All = {Pending, Nil, PlainError, Result, Uncoded, Nothing}
    OBVIOUS
  <2> HIDE DEF All
  <2> QED BY <1>1, <2>1, Two
<1>5. Result # Uncoded /\ Result # Nothing
  <2>1. /\ All = {Result, Uncoded, PlainError, Nil, Nothing, Pending}
        /\ All = {Result, Nothing, PlainError, Nil, Uncoded, Pending}
    OBVIOUS
  <2> HIDE DEF All
  <2> QED BY <1>1, <2>1, Two
<1>6. Result # Pending
  <2>1. All = {Result, Pending, PlainError, Nil, Uncoded, Nothing}
    OBVIOUS
  <2> HIDE DEF All
  <2> QED BY <1>1, <2>1, Two
<1>7. Pending # Uncoded /\ Pending # Nothing
  <2>1. /\ All = {Pending, Uncoded, PlainError, Nil, Nothing, Result}
        /\ All = {Pending, Nothing, PlainError, Nil, Uncoded, Result}
    OBVIOUS
  <2> HIDE DEF All
  <2> QED BY <1>1, <2>1, Two
<1> QED BY <1>1, <1>2, <1>3, <1>4, <1>5, <1>6, <1>7, CallAssumption DEF Thrown

\* Which link runs next.
LEMMA Links ==
  ASSUME ChainInv, NEW l, NextLink(l)
  PROVE  /\ link' = link + 1 /\ UNCHANGED <<streamVars, kind, outcome, written, ended>>
         /\ outcome # Pending
         /\ \/ kind = "normal" /\ link = 0 /\ l = "mapError"
            \/ kind = "normal" /\ link = 1 /\ l = "callback"
            \/ kind = "normal" /\ link = 2 /\ l = "log"
            \/ kind = "requestStream" /\ link = 0 /\ l = "callback"
            \/ kind = "requestStream" /\ link = 1 /\ l = "callbackError"
<1>1. /\ Chain["normal"] = <<"mapError", "callback", "log">>
      /\ Chain["requestStream"] = <<"callback", "callbackError">>
      /\ Chain["responseStream"] = <<>> /\ Chain["biDirectional"] = <<>>
  BY DEF Chain
<1>2. kind \in {"normal", "requestStream", "responseStream", "biDirectional"}
  BY CallAssumption DEF ChainInv, AllKinds
<1>3. link \in 0..3
  BY DEF ChainInv, HandlerRuns, HandlerLeft, NormalChain, StreamChain
<1>4. /\ outcome # Pending /\ link < Len(Chain[kind]) /\ Chain[kind][link + 1] = l
      /\ link' = link + 1 /\ UNCHANGED <<streamVars, kind, outcome, written, ended>>
  BY DEF NextLink
<1>5. CASE kind = "normal"
  BY <1>1, <1>3, <1>4, <1>5
<1>6. CASE kind = "requestStream"
  BY <1>1, <1>3, <1>4, <1>6
<1>7. CASE kind \in {"responseStream", "biDirectional"}
  BY <1>1, <1>3, <1>4, <1>7
<1> QED BY <1>2, <1>5, <1>6, <1>7

\* The replies of a call have two members at most.
LEMMA One == ASSUME NEW S, NEW x \in S
             PROVE  <<x>> \in Seq(S) /\ Len(<<x>>) = 1 /\ <<x>>[1] = x
  OBVIOUS

LEMMA Pair ==
  ASSUME NEW S, NEW x \in S, NEW y \in S
  PROVE  /\ Append(<<x>>, y) \in Seq(S) /\ Len(Append(<<x>>, y)) = 2
         /\ Append(<<x>>, y)[1] = x
<1>1. <<x>> \in Seq(S) /\ Len(<<x>>) = 1 /\ <<x>>[1] = x
  OBVIOUS
<1>2. /\ Append(<<x>>, y) \in Seq(S) /\ Len(Append(<<x>>, y)) = 1 + 1
      /\ \A i \in 1..1 : Append(<<x>>, y)[i] = <<x>>[i]
  BY <1>1, AppendFacts
<1> QED BY <1>1, <1>2

LEMMA CallbackFacts ==
  ASSUME NEW r, CallBack(r), Quiet
  PROVE  CalledBack(r)'
<1>1. replies' = <<r>>
  BY DEF CallBack, Quiet
<1>2. \/ faults' = 0 /\ promise' = Fulfilled(Nothing)
      \/ faults' = 1 /\ promise' = Rejected(PlainError)
  BY DEF CallBack, Quiet
<1> QED BY <1>1, <1>2 DEF CalledBack, Fulfilled, Rejected

LEMMA MapErrorKeeps ==
  ASSUME ChainInv, MapError
  PROVE  ChainInv'
<1>1. /\ link = 0 /\ link' = 1 /\ kind = "normal" /\ outcome # Pending
      /\ kind' = kind /\ outcome' = outcome
  BY Links DEF MapError
<1>2. HandlerLeft
  BY <1>1 DEF ChainInv, HandlerRuns, NormalChain
<1>3. Quiet' /\ promise' = MappedPromise
  <2>1. CASE outcome = Result
    BY <1>2, <2>1 DEF MapError, HandlerLeft, MappedPromise, Fulfilled, Skip, Quiet
  <2>2. CASE outcome # Result
    BY <1>2, <2>2 DEF MapError, HandlerLeft, MappedPromise, Rejected, Quiet
  <2> QED BY <2>1, <2>2
<1>4. NormalChain'
  BY <1>1, <1>3 DEF NormalChain, MappedPromise
<1> QED BY <1>1, <1>4 DEF ChainInv

LEMMA ThenCallbackKeeps ==
  ASSUME ChainInv, ThenCallback
  PROVE  ChainInv'
<1>1. /\ link' = link + 1 /\ outcome # Pending
      /\ kind' = kind /\ outcome' = outcome
      /\ \/ link = 1 /\ kind = "normal"
         \/ link = 0 /\ kind = "requestStream"
  BY Links DEF ThenCallback
<1>2. CASE kind = "normal"
  <2>1. Quiet /\ promise = MappedPromise
    BY <1>1, <1>2 DEF ChainInv, HandlerRuns, HandlerLeft, NormalChain
  <2>2. CASE outcome = Nil
    <3>1. promise = Rejected(PlainError)
      BY <2>1, <2>2, Names DEF MappedPromise, Thrown
    <3>2. promise' = promise /\ Quiet'
      BY <2>1, <3>1 DEF ThenCallback, Rejected, Skip, Quiet
    <3> QED BY <1>1, <1>2, <2>2, <3>1, <3>2 DEF ChainInv, NormalChain, Rejected
  <2>3. CASE outcome # Nil
    <3>1. CallBack(ReplyDue)
      <4>1. CASE outcome = Result
        BY <2>1, <4>1 DEF ThenCallback, MappedPromise, Fulfilled, ReplyOf, ReplyDue
      <4>2. CASE outcome # Result
        <5>1. promise = Fulfilled([error |-> StatusOf(outcome)])
          BY <2>1, <2>3, <4>2 DEF MappedPromise
        <5>2. StatusOf(outcome) \in ErrorClass
          BY Names DEF StatusOf
        <5>3. promise.value # Result
          BY <5>1, <5>2, Names DEF Fulfilled
        <5> QED BY <4>2, <5>1, <5>3 DEF ThenCallback, Fulfilled, ReplyOf, ReplyDue
      <4> QED BY <4>1, <4>2
    <3>2. CalledBack(ReplyDue)'
      <4>1. ReplyDue' = ReplyDue
        BY <1>1 DEF ReplyDue
      <4> QED BY <2>1, <3>1, <4>1, CallbackFacts DEF CalledBack
    <3> QED BY <1>1, <1>2, <2>3, <3>2 DEF ChainInv, NormalChain
  <2> QED BY <2>2, <2>3
<1>3. CASE kind = "requestStream"
  <2>1. HandlerLeft
    BY <1>1, <1>3 DEF ChainInv, HandlerRuns, StreamChain
  <2>2. CASE outcome = Result
    <3>1. CallBack(Result) /\ Quiet
      BY <2>1, <2>2 DEF ThenCallback, HandlerLeft, Fulfilled, ReplyOf
    <3> QED BY <1>1, <1>3, <2>2, <3>1, CallbackFacts DEF ChainInv, StreamChain, CalledBack
  <2>3. CASE outcome # Result
    <3>1. Quiet' /\ promise' = Rejected(outcome)
      BY <2>1, <2>3 DEF ThenCallback, HandlerLeft, Rejected, Skip, Quiet
    <3> QED BY <1>1, <1>3, <2>3, <3>1 DEF ChainInv, StreamChain, Rejected
  <2> QED BY <2>2, <2>3
<1> QED BY <1>1, <1>2, <1>3

LEMMA CatchCallbackKeeps ==
  ASSUME ChainInv, CatchCallback
  PROVE  ChainInv'
<1>1. /\ link = 1 /\ link' = 2 /\ kind = "requestStream" /\ outcome # Pending
      /\ kind' = kind /\ outcome' = outcome
  BY Links DEF CatchCallback
<1>2. StreamChain
  BY <1>1 DEF ChainInv, HandlerRuns, HandlerLeft
<1>3. StreamChain'
  <2>1. CASE outcome = Result
    <3>1. CalledBack(Result)
      BY <1>1, <1>2, <2>1 DEF StreamChain
    <3>2. CASE faults = 0
      <4>1. UNCHANGED <<promise, replies, faults>> /\ promise = Fulfilled(Nothing)
        BY <3>1, <3>2 DEF CalledBack, CatchCallback, Skip, Fulfilled
      <4> QED BY <1>1, <2>1, <3>1, <3>2, <4>1 DEF StreamChain, CalledBack, Fulfilled
    <3>3. CASE faults = 1
      <4>1. promise = Rejected(PlainError) /\ replies = <<Result>>
        BY <3>1, <3>3 DEF CalledBack
      <4>2. CallBack(Uncoded)
        BY <4>1, Names DEF CatchCallback, Rejected
      <4>3. replies' = Append(<<Result>>, Uncoded)
        BY <4>1, <4>2 DEF CallBack
      <4>4. faults' \in 1..2 /\ promise' \in {Fulfilled(Nothing), Rejected(PlainError)}
        BY <3>3, <4>2 DEF CallBack
      <4> QED BY <1>1, <2>1, <4>3, <4>4 DEF StreamChain, Fulfilled, Rejected
    <3> QED BY <3>1, <3>2, <3>3 DEF CalledBack
  <2>2. CASE outcome # Result
    <3>1. Quiet /\ promise = Rejected(outcome)
      BY <1>1, <1>2, <2>2 DEF StreamChain
    <3>2. PICK r \in {Nothing, Uncoded} : CallBack(r)
      BY <3>1 DEF CatchCallback, Rejected
    <3>3. /\ replies' \in {<<Nothing>>, <<Uncoded>>} /\ faults' \in 0..1
          /\ promise' \in {Fulfilled(Nothing), Rejected(PlainError)}
      BY <3>1, <3>2 DEF CallBack, Quiet
    <3> QED BY <1>1, <2>2, <3>3 DEF StreamChain, Fulfilled, Rejected
  <2> QED BY <2>1, <2>2
<1> QED BY <1>1, <1>3 DEF ChainInv

LEMMA CatchLogKeeps ==
  ASSUME ChainInv, CatchLog
  PROVE  ChainInv'
<1>1. /\ link = 2 /\ link' = 3 /\ kind = "normal" /\ outcome # Pending
      /\ kind' = kind /\ outcome' = outcome
  BY Links DEF CatchLog
<1>2. NormalChain
  BY <1>1 DEF ChainInv, HandlerRuns, HandlerLeft
<1>3. UNCHANGED <<replies, faults>> /\ promise' = Fulfilled(Nothing)
  BY <1>1, <1>2 DEF CatchLog, NormalChain, CalledBack, Skip, Fulfilled, Rejected
<1>4. NormalChain'
  BY <1>1, <1>2, <1>3 DEF NormalChain, CalledBack, Quiet, ReplyDue, Fulfilled
<1> QED BY <1>1, <1>4 DEF ChainInv

-----------------------------------------------------------------------------
\* Every step of a call is one of its stream, of its handler or of a link.
LEMMA CallInvInit == CallInit => CallInv
<1> SUFFICES ASSUME CallInit PROVE CallInv
  OBVIOUS
<1>1. IInv
  BY InitIInv DEF CallInit
<1>2. ChainInv
  BY DEF CallInit, ChainInv, HandlerRuns, Quiet
<1>3. WritesOK
  BY CallAssumption DEF CallInit, WritesOK
<1> QED BY <1>1, <1>2, <1>3 DEF CallInv

LEMMA StreamSteps ==
  ASSUME CallNext
  PROVE  [Next]_streamVars
<1>1. ASSUME NEW m \in Msg, ClientData(m) PROVE Next
  BY <1>1 DEF ClientData, Next
<1>2. ClientEnd \/ HandlerRead => Next
  BY DEF ClientEnd, HandlerRead, Next
<1>3. HandlerWrite \/ HandlerEnd \/ HandlerReturn \/ (\E e \in Thrown : HandlerThrow(e))
        => UNCHANGED streamVars
  BY DEF HandlerWrite, HandlerEnd, HandlerReturn, HandlerThrow
<1>4. MapError \/ ThenCallback \/ CatchCallback \/ CatchLog => UNCHANGED streamVars
  BY DEF MapError, ThenCallback, CatchCallback, CatchLog, NextLink
<1> QED BY <1>1, <1>2, <1>3, <1>4 DEF CallNext

LEMMA LeavingKeeps ==
  ASSUME ChainInv, HandlerFinish
  PROVE  ChainInv'
<1>1. HandlerRuns
  BY Names DEF HandlerFinish, HandlerReturn, HandlerThrow, Running, ChainInv, HandlerLeft
<1>2. /\ kind' = kind /\ link' = link /\ Quiet'
      /\ outcome' \in Thrown \cup {Result}
  BY <1>1 DEF HandlerFinish, HandlerReturn, HandlerThrow, HandlerRuns, Quiet
<1>3. promise' = IF outcome' = Result THEN Fulfilled(Result) ELSE Rejected(outcome')
  <2>1. CASE HandlerReturn
    BY <2>1 DEF HandlerReturn
  <2>2. ASSUME NEW e \in Thrown, HandlerThrow(e)
        PROVE  outcome' # Result /\ promise' = Rejected(outcome')
    BY <2>2, Names DEF HandlerThrow
  <2> QED BY <2>1, <2>2 DEF HandlerFinish
<1>4. HandlerLeft'
  BY <1>1, <1>2, <1>3 DEF HandlerRuns, HandlerLeft, Fulfilled, Rejected
<1> QED BY <1>2, <1>4 DEF ChainInv

LEMMA ChainStep ==
  ASSUME ChainInv, [CallNext]_vars
  PROVE  ChainInv'
<1>1. CASE HandlerFinish
  BY <1>1, LeavingKeeps
<1>2. CASE MapError \/ ThenCallback \/ CatchCallback \/ CatchLog
  BY <1>2, MapErrorKeeps, ThenCallbackKeeps, CatchCallbackKeeps, CatchLogKeeps
<1>3. CASE UNCHANGED <<kind, outcome, promise, link, replies, faults>>
  <2>1. /\ kind' = kind /\ outcome' = outcome /\ promise' = promise /\ link' = link
        /\ replies' = replies /\ faults' = faults
    BY <1>3
  <2>2. Quiet' = Quiet /\ MappedPromise' = MappedPromise /\ ReplyDue' = ReplyDue
    BY <2>1 DEF Quiet, MappedPromise, ReplyDue
  <2>3. \A r : CalledBack(r)' = CalledBack(r)
    BY <2>1 DEF CalledBack
  <2>4. HandlerRuns' = HandlerRuns /\ HandlerLeft' = HandlerLeft
    BY <2>1, <2>2 DEF HandlerRuns, HandlerLeft
  <2>5. NormalChain => NormalChain'
    BY <2>1, <2>2 DEF NormalChain, CalledBack
  <2>6. StreamChain => StreamChain'
    BY <2>1, <2>2 DEF StreamChain, CalledBack
  <2> QED BY <2>1, <2>4, <2>5, <2>6 DEF ChainInv
<1>4. HandlerFinish \/ MapError \/ ThenCallback \/ CatchCallback \/ CatchLog
        \/ UNCHANGED <<kind, outcome, promise, link, replies, faults>>
  <2>1. (\E m \in Msg : ClientData(m)) \/ ClientEnd \/ HandlerRead
          => UNCHANGED <<kind, outcome, promise, link, replies, faults>>
    BY DEF ClientData, ClientEnd, HandlerRead, callVars
  <2>2. HandlerWrite \/ HandlerEnd
          => UNCHANGED <<kind, outcome, promise, link, replies, faults>>
    BY DEF HandlerWrite, HandlerEnd
  <2>3. UNCHANGED vars => UNCHANGED <<kind, outcome, promise, link, replies, faults>>
    BY DEF vars, callVars
  <2> QED BY <2>1, <2>2, <2>3 DEF CallNext, HandlerFinish
<1> QED BY <1>1, <1>2, <1>3, <1>4

LEMMA WritesStep ==
  ASSUME WritesOK, [CallNext]_vars
  PROVE  WritesOK'
<1>1. HandlerWrite => written' \in 0..MaxWrites /\ ended' = ended
  BY CallAssumption DEF HandlerWrite, WritesOK
<1>2. HandlerEnd => written' = written /\ ended' = 1
  BY DEF HandlerEnd
<1>3. \/ HandlerWrite \/ HandlerEnd
      \/ written' = written /\ ended' = ended
  BY DEF CallNext, ClientData, ClientEnd, HandlerRead, HandlerReturn, HandlerThrow,
         MapError, ThenCallback, CatchCallback, CatchLog, NextLink, vars, callVars
<1> QED BY <1>1, <1>2, <1>3 DEF WritesOK

LEMMA CallInvStep == CallInv /\ [CallNext]_vars => CallInv'
<1> SUFFICES ASSUME CallInv, [CallNext]_vars PROVE CallInv'
  OBVIOUS
<1>1. [Next]_streamVars
  BY StreamSteps DEF vars
<1> QED BY <1>1, StepIInv, ChainStep, WritesStep DEF CallInv

-----------------------------------------------------------------------------
\* What the invariant gives.
LEMMA TypesOfCall == CallInv => CallTypeOK
<1> SUFFICES ASSUME CallInv PROVE CallTypeOK
  OBVIOUS
<1>1. TypeOK /\ kind \in Kinds /\ outcome \in Thrown \cup {Pending, Result}
      /\ written \in 0..MaxWrites /\ ended \in 0..1
  BY DEF CallInv, IInv, ChainInv, WritesOK
<1>2. StatusOf(outcome) \in ErrorClass
  BY Names DEF StatusOf
<1> DEFINE V == Thrown \cup {Pending, Result, Nothing}
           P == [ok : BOOLEAN, value : V] \cup [ok : {TRUE}, value : [error : ErrorClass]]
           R == ErrorClass \cup {Result, Uncoded, Nothing}
<1>3. /\ \A v \in V : Fulfilled(v) \in P /\ Rejected(v) \in P
      /\ Fulfilled([error |-> StatusOf(outcome)]) \in P
  BY <1>2 DEF Fulfilled, Rejected
<1>4. ReplyDue \in R
  BY <1>2 DEF ReplyDue
<1>5. faults \in 0..2 /\ link \in 0..3
  BY DEF CallInv, ChainInv, HandlerRuns, HandlerLeft, NormalChain, StreamChain, CalledBack,
         Quiet
<1>6. replies \in Seq(R)
  <2>1. \/ replies = <<>> \/ replies = <<ReplyDue>> \/ replies = <<Result>>
        \/ replies = <<Nothing>> \/ replies = <<Uncoded>>
        \/ replies = Append(<<Result>>, Uncoded)
    BY Zenon DEF CallInv, ChainInv, HandlerRuns, HandlerLeft, NormalChain, StreamChain,
                 CalledBack, Quiet
  <2>2. Uncoded \in R /\ Nothing \in R /\ Result \in R
    OBVIOUS
  <2> HIDE DEF R
  <2>3. /\ <<ReplyDue>> \in Seq(R) /\ <<Result>> \in Seq(R) /\ <<Nothing>> \in Seq(R)
        /\ <<Uncoded>> \in Seq(R) /\ Append(<<Result>>, Uncoded) \in Seq(R)
        /\ <<>> \in Seq(R)
    BY <1>4, <2>2
  <2> QED BY <2>1, <2>3
<1>7. promise \in P
  <2>1. PlainError \in V /\ Nothing \in V /\ Result \in V /\ Pending \in V
        /\ outcome \in V
    BY <1>1 DEF Thrown
  <2>2. MappedPromise \in P
    BY <1>3, <2>1 DEF MappedPromise
  <2> HIDE DEF P, V
  <2> QED BY <1>3, <2>1, <2>2 DEF CallInv, ChainInv, HandlerRuns, HandlerLeft, NormalChain,
                                  StreamChain, CalledBack
<1>8. link \in 0..Len(Chain[kind])
  <2>1. /\ link \in 0..0 \/ (kind = "normal" /\ link \in 0..3)
                         \/ (kind = "requestStream" /\ link \in 0..2)
    BY DEF CallInv, ChainInv, HandlerRuns, HandlerLeft, NormalChain, StreamChain
  <2>2. Len(Chain["normal"]) = 3 /\ Len(Chain["requestStream"]) = 2
        /\ Len(Chain["responseStream"]) = 0 /\ Len(Chain["biDirectional"]) = 0
    BY DEF Chain
  <2>3. kind \in {"normal", "requestStream", "responseStream", "biDirectional"}
    BY <1>1, CallAssumption DEF AllKinds
  <2> QED BY <2>1, <2>2, <2>3
<1> QED BY <1>1, <1>5, <1>6, <1>7, <1>8 DEF CallTypeOK

LEMMA AnsweredOnceOfCall == CallInv => AnsweredOnce
<1> SUFFICES ASSUME CallInv PROVE AnsweredOnce
  OBVIOUS
<1>1. /\ Len(<<>>) = 0 /\ Len(<<ReplyDue>>) = 1 /\ Len(<<Result>>) = 1
      /\ Len(<<Nothing>>) = 1 /\ Len(<<Uncoded>>) = 1
  OBVIOUS
<1>2. Len(Append(<<Result>>, Uncoded)) = 2
  BY Pair
<1>3. HandlerRuns \/ HandlerLeft => replies = <<>> /\ faults = 0
  BY DEF HandlerRuns, HandlerLeft, Quiet
<1>4. NormalChain => Len(replies) \in 0..1
  <2>1. NormalChain => replies = <<>> \/ replies = <<ReplyDue>>
    BY Zenon DEF NormalChain, Quiet, CalledBack
  <2> QED BY <1>1, <2>1
<1>5. StreamChain => /\ Len(replies) \in 0..2 /\ faults \in 0..2
                     /\ Len(replies) = 2 => faults # 0
  <2>1. StreamChain => \/ replies = <<>> /\ faults = 0
                       \/ replies \in {<<Result>>, <<Nothing>>, <<Uncoded>>} /\ faults \in 0..1
                       \/ replies = Append(<<Result>>, Uncoded) /\ faults \in 1..2
    BY DEF StreamChain, Quiet, CalledBack
  <2> QED BY <1>1, <1>2, <2>1
<1>6. \/ replies = <<>> /\ Len(replies) \in 0..0 /\ faults \in 0..0
      \/ kind = "normal" /\ NormalChain
      \/ kind = "requestStream" /\ StreamChain
  BY <1>1, <1>3 DEF CallInv, ChainInv
<1>7. \/ replies = <<>> /\ Len(replies) \in 0..0 /\ faults \in 0..0
      \/ kind = "normal" /\ Len(replies) \in 0..1
      \/ /\ kind = "requestStream" /\ Len(replies) \in 0..2 /\ faults \in 0..2
         /\ Len(replies) = 2 => faults # 0
  BY <1>4, <1>5, <1>6, Zenon
<1>8. \A i, f : /\ i \in 0..0 /\ f \in 0..0 => i <= 1 /\ i <= 1 + f
                /\ i \in 0..1 => i <= 1
                /\ i \in 0..2 /\ f \in 0..2 /\ (i = 2 => f # 0) => i <= 1 + f
  OBVIOUS
<1> QED BY <1>7, <1>8, Zenon DEF AnsweredOnce

LEMMA TrueAnswerOfCall == CallInv => TrueAnswer
<1> SUFFICES ASSUME CallInv, replies # <<>> PROVE
       /\ (replies[1] = Result) <=> (outcome = Result)
       /\ kind = "normal" /\ outcome \in ErrorClass => replies[1] = outcome
       /\ kind = "normal" /\ outcome = PlainError => replies[1] = Internal
  BY DEF TrueAnswer
<1>1. outcome \in Thrown \cup {Result}
  BY DEF CallInv, ChainInv, HandlerRuns, HandlerLeft, Quiet
<1>2. CASE kind = "normal"
  <2>1. replies = <<ReplyDue>>
    BY <1>2 DEF CallInv, ChainInv, HandlerRuns, HandlerLeft, NormalChain, Quiet, CalledBack
  <2>2. replies[1] = ReplyDue
    BY <2>1
  <2> QED BY <1>1, <2>2, Names DEF ReplyDue, StatusOf, Thrown
<1>3. CASE kind # "normal"
  <2>1. StreamChain
    BY <1>3 DEF CallInv, ChainInv, HandlerRuns, HandlerLeft, Quiet
  <2>2. CASE outcome = Result
    <3>1. replies = <<Result>> \/ replies = Append(<<Result>>, Uncoded)
      BY <2>1, <2>2 DEF StreamChain, CalledBack, Quiet
    <3>2. <<Result>>[1] = Result /\ Append(<<Result>>, Uncoded)[1] = Result
      BY Pair
    <3> QED BY <1>3, <2>2, <3>1, <3>2
  <2>3. CASE outcome # Result
    <3>1. replies = <<Nothing>> \/ replies = <<Uncoded>>
      BY <2>1, <2>3 DEF StreamChain, CalledBack, Quiet
    <3> QED BY <1>3, <2>3, <3>1, Names
  <2> QED BY <2>2, <2>3
<1> QED BY <1>2, <1>3

-----------------------------------------------------------------------------
THEOREM SpecCallInv == CallSpec => []CallInv
  BY CallInvInit, CallInvStep, PTL DEF CallSpec

\* A call is answered once, however its handler ends and whatever the client
\* sends meanwhile, unless the callback itself throws.
THEOREM AnsweredOnceTrue == CallSpec => []AnsweredOnce
  BY SpecCallInv, AnsweredOnceOfCall, PTL

\* The first answer of a call is a result exactly if its handler returned one,
\* and the status of a normal endpoint is that of the error thrown.
THEOREM TrueAnswerTrue == CallSpec => []TrueAnswer
  BY SpecCallInv, TrueAnswerOfCall, PTL
=============================================================================
