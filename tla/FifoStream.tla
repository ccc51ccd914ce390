----------------------------- MODULE FifoStream -----------------------------
(***************************************************************************)
(* What the read() of a request stream promises a streaming handler: the   *)
(* k-th read is answered with the k-th message of the client, or with      *)
(* 'stream end' when the client has half-closed after fewer messages; it   *)
(* waits in every other case, and in no other case.  There is no queue     *)
(* here: the answers are a function of what the client has done so far.    *)
(***************************************************************************)
EXTENDS Naturals, Sequences

CONSTANTS Msg,        \* the messages a client can send
          Waiting,    \* the answer of a read that is still pending
          StreamEnd   \* the answer 'stream end'

VARIABLES received,   \* the messages of the client, in order
          closed,     \* the client has half-closed
          answers     \* answers[k]: the answer of the k-th read

fifoVars == <<received, closed, answers>>

\* The answer due to the k-th read after a client sent rcv.
Due(rcv, cls, k) == IF k <= Len(rcv) THEN rcv[k]
                    ELSE IF cls THEN StreamEnd ELSE Waiting

Answered(n) == answers' = [k \in 1..n |-> Due(received', closed', k)]

Init == received = <<>> /\ closed = FALSE /\ answers = <<>>

Deliver == /\ ~closed
           /\ \E m \in Msg : received' = Append(received, m)
           /\ UNCHANGED closed
           /\ Answered(Len(answers))

Close == /\ ~closed
         /\ closed' = TRUE
         /\ UNCHANGED received
         /\ Answered(Len(answers))

Ask == /\ UNCHANGED <<received, closed>>
       /\ Answered(Len(answers) + 1)

Next == Deliver \/ Close \/ Ask

Spec == Init /\ [][Next]_fifoVars
=============================================================================
