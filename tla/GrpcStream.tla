----------------------------- MODULE GrpcStream -----------------------------
(***************************************************************************)
(* The request stream of a gRPC call as makeRequestStreamServerEndpoint    *)
(* and makeBiDirectionalStreamServerEndpoint keep it: messages that no     *)
(* read has taken (requests), callbacks of reads that no message has       *)
(* answered (fns) and the flag end.  Each 'data' and 'end' listener and    *)
(* each thunk of a read runs to completion, so each is one action.         *)
(***************************************************************************)
EXTENDS Naturals, Sequences

CONSTANTS Msg, Waiting, StreamEnd,
          MaxData,      \* bound: messages a client sends
          MaxReads,     \* bound: reads a handler makes
          MaxWaiting    \* bound: reads a handler has pending at a time

ASSUME StreamAssumption ==
  /\ MaxData \in Nat /\ MaxReads \in Nat /\ MaxWaiting \in Nat
  /\ Waiting \notin Msg /\ StreamEnd \notin Msg /\ Waiting # StreamEnd

VARIABLES received,   \* history: the messages 'data' events carried
          requests,   \* messages queued for a later read
          fns,        \* the pending reads (by their number), oldest first
          end,        \* the 'end' event has been seen
          answers     \* history: answers[k] is what the k-th read got

streamVars == <<received, requests, fns, end, answers>>

Answer == Msg \cup {Waiting, StreamEnd}

TypeOK == /\ received \in Seq(Msg)
          /\ requests \in Seq(Msg)
          /\ fns \in Seq(Nat)
          /\ end \in BOOLEAN
          /\ answers \in Seq(Answer)

Init == /\ received = <<>> /\ requests = <<>> /\ fns = <<>>
        /\ end = FALSE /\ answers = <<>>

\* requests.push(req); mutant: unshift in its place.
QueuedInFront(m) == <<m>> \o requests
Queued(m) == Append(requests, m)

\* call.on('data'): the oldest pending read takes the message, else it waits.
OnData(m) ==
  /\ ~end
  /\ Len(received) < MaxData
  /\ received' = Append(received, m)
  /\ IF fns # <<>>
     THEN /\ answers' = [answers EXCEPT ![Head(fns)] = m]
          /\ fns' = Tail(fns)
          /\ UNCHANGED requests
     ELSE /\ requests' = Queued(m)
          /\ UNCHANGED <<fns, answers>>
  /\ UNCHANGED end

\* The loop of 'end' over fns; mutant: the callbacks dropped, never called.
ReleasedNone == answers
Released == [k \in DOMAIN answers |->
               IF \E i \in DOMAIN fns : fns[i] = k THEN StreamEnd ELSE answers[k]]

\* call.on('end'): every pending read is told that the stream has ended.
\* Mutant: the end of the stream is queued like a message.
OnEndQueued ==
  /\ ~end
  /\ end' = TRUE
  /\ requests' = Append(requests, StreamEnd)
  /\ UNCHANGED <<received, fns, answers>>
OnEnd ==
  /\ ~end
  /\ end' = TRUE
  /\ answers' = Released
  /\ fns' = <<>>
  /\ UNCHANGED <<received, requests>>

\* The last branch of the thunk: nothing is queued and more may come.
\* Mutant: the flag is not looked at.
MustWaitUnlessQueued == requests = <<>>
MustWait == requests = <<>> /\ ~end

\* The thunk of read(): a queued message, 'stream end', or wait.
Read ==
  /\ Len(answers) < MaxReads
  /\ Len(fns) < MaxWaiting
  /\ \/ /\ requests # <<>>
        /\ answers' = Append(answers, Head(requests))
        /\ requests' = Tail(requests)
        /\ UNCHANGED fns
     \/ /\ requests = <<>> /\ end
        /\ answers' = Append(answers, StreamEnd)
        /\ UNCHANGED <<requests, fns>>
     \/ /\ MustWait
        /\ answers' = Append(answers, Waiting)
        /\ fns' = Append(fns, Len(answers) + 1)
        /\ UNCHANGED requests
  /\ UNCHANGED <<received, end>>

Next == (\E m \in Msg : OnData(m)) \/ OnEnd \/ Read

\* A client ends its request stream at some time; nothing else is assumed.
Spec == Init /\ [][Next]_streamVars /\ WF_streamVars(OnEnd)

-----------------------------------------------------------------------------
(***************************************************************************)
(* Properties                                                              *)
(***************************************************************************)
\* The number of reads that are answered: the pending ones are the last.
Settled == Len(answers) - Len(fns)

\* Pending reads and queued messages never exist together (a read must not
\* wait while a message is there), and after 'end' no read is left pending.
NeverBothQueued == /\ requests = <<>> \/ fns = <<>>
                   /\ end => fns = <<>>

\* The pending reads are exactly the last ones made, in the order of the
\* calls, and exactly these have no answer: no callback is lost or run twice.
PendingAreLast ==
  /\ Len(fns) <= Len(answers)
  /\ \A i \in DOMAIN fns : fns[i] = Settled + i
  /\ \A k \in DOMAIN answers : (answers[k] = Waiting) <=> (k > Settled)

\* Every message of the client is in an answer or still queued, in order:
\* nothing is lost, duplicated or overtaken between the two queues.
NothingLost ==
  /\ \A k \in DOMAIN answers : answers[k] \in Msg => k <= Len(received)
  /\ Len(requests) = IF Settled < Len(received) THEN Len(received) - Settled ELSE 0
  /\ \A i \in DOMAIN requests : requests[i] = received[Settled + i]

\* read() keeps the promise of FifoStream.
Fifo == INSTANCE FifoStream WITH closed <- end
FifoSpec == Fifo!Spec

\* A read that waits is answered once the client ends its stream.
ReadsReturn == \A k \in 1..MaxReads :
  (k <= Len(answers)) ~> (k <= Len(answers) /\ answers[k] # Waiting)
=============================================================================
