-------------------------- MODULE GrpcStreamProofs --------------------------
(***************************************************************************)
(* Proofs about GrpcStream for every set of messages and every bound.      *)
(*                                                                         *)
(* The invariants of the module are not inductive by themselves: that a    *)
(* pending read takes the right message needs the number of answered reads *)
(* to be tied to the number of messages.  AnswersDue says it: each answer, *)
(* Waiting included, is the one FifoStream computes from the history.      *)
(***************************************************************************)
EXTENDS GrpcStream, TLAPS

Due(k) == Fifo!Due(received, end, k)

\* Each read so far has the answer FifoStream gives it.
AnswersDue == \A k \in 1..Len(answers) : answers[k] = Due(k)

IInv == /\ TypeOK
        /\ NeverBothQueued
        /\ PendingAreLast
        /\ NothingLost
        /\ AnswersDue

\* The facts about finite sequences the steps need, element by element.
LEMMA AppendFacts ==
  ASSUME NEW S, NEW s \in Seq(S), NEW e \in S
  PROVE  /\ Append(s, e) \in Seq(S)
         /\ Len(Append(s, e)) = Len(s) + 1
         /\ \A i \in 1..Len(s) : Append(s, e)[i] = s[i]
         /\ Append(s, e)[Len(s) + 1] = e
  OBVIOUS

LEMMA AppendNat ==
  ASSUME NEW s \in Seq(Nat), NEW e \in Nat, NEW t, t = Append(s, e)
  PROVE  /\ t \in Seq(Nat) /\ Len(t) = Len(s) + 1
         /\ DOMAIN t = 1..(Len(s) + 1)
         /\ \A i \in 1..Len(s) : t[i] = s[i]
         /\ t[Len(s) + 1] = e
  OBVIOUS

LEMMA TailFacts ==
  ASSUME NEW S, NEW s \in Seq(S), s # <<>>
  PROVE  /\ Tail(s) \in Seq(S)
         /\ Head(s) \in S /\ Head(s) = s[1]
         /\ Len(s) \in Nat \ {0} /\ Len(Tail(s)) = Len(s) - 1
         /\ \A i \in 1..Len(Tail(s)) : Tail(s)[i] = s[i + 1]
  OBVIOUS

LEMMA InitIInv == Init => IInv
  <1>1. SUFFICES ASSUME Init PROVE IInv
    OBVIOUS
  <1>2. /\ Len(received) = 0 /\ Len(requests) = 0 /\ Len(fns) = 0
        /\ Len(answers) = 0
        /\ DOMAIN fns = {} /\ DOMAIN requests = {} /\ DOMAIN answers = {}
    BY <1>1 DEF Init
  <1>3. TypeOK
    <2>1. end \in BOOLEAN
      BY <1>1, Zenon DEF Init
    <2>2. received \in Seq(Msg) /\ requests \in Seq(Msg)
          /\ fns \in Seq(Nat) /\ answers \in Seq(Answer)
      BY <1>1 DEF Init
    <2> QED BY <2>1, <2>2, Zenon DEF TypeOK
  <1>4. Settled = 0
    BY <1>2 DEF Settled
  <1>5. NeverBothQueued /\ PendingAreLast /\ NothingLost
    BY <1>1, <1>2, <1>4 DEF Init, NeverBothQueued, PendingAreLast, NothingLost
  <1>6. AnswersDue
    <2>1. 1..Len(answers) = {}
      BY <1>2
    <2> QED BY <2>1 DEF AnswersDue
  <1> QED BY <1>3, <1>5, <1>6 DEF IInv
-----------------------------------------------------------------------------
\* The step: one lemma per action, after three facts about the two queues.
LEMMA Counts ==
  ASSUME IInv
  PROVE  /\ Len(received) \in Nat /\ Len(requests) \in Nat
         /\ Len(fns) \in Nat /\ Len(answers) \in Nat
         /\ Settled \in Nat /\ Settled + Len(fns) = Len(answers)
         /\ DOMAIN received = 1..Len(received)
         /\ DOMAIN requests = 1..Len(requests)
         /\ DOMAIN fns = 1..Len(fns) /\ DOMAIN answers = 1..Len(answers)
         /\ Waiting \notin Msg /\ StreamEnd \notin Msg /\ Waiting # StreamEnd
  BY StreamAssumption DEF IInv, TypeOK, PendingAreLast, Settled

\* A read waits only when every message has been taken and more may come.
LEMMA PendingFact ==
  ASSUME IInv, fns # <<>>
  PROVE  Settled = Len(received) /\ ~end /\ requests = <<>>
  <1> USE Counts
  <1>1. ~end /\ requests = <<>>
    BY DEF IInv, NeverBothQueued
  <1>2. Len(fns) > 0
    BY DEF IInv, TypeOK
  <1>3. answers[Settled + 1] = Waiting /\ answers[Settled + 1] = Due(Settled + 1)
    BY <1>2 DEF IInv, PendingAreLast, AnswersDue
  <1>4. Settled >= Len(received)
    <2>1. SUFFICES ASSUME Settled + 1 \in 1..Len(received) PROVE FALSE
      OBVIOUS
    <2>2. Due(Settled + 1) = received[Settled + 1]
      BY <2>1 DEF Due, Fifo!Due
    <2>3. received[Settled + 1] \in Msg
      BY <2>1 DEF IInv, TypeOK
    <2> QED BY <1>3, <2>2, <2>3
  <1>5. Settled <= Len(received)
    <2>1. SUFFICES ASSUME Settled > Len(received) PROVE FALSE
      OBVIOUS
    <2>2. answers[Settled] # Waiting /\ answers[Settled] = Due(Settled)
      BY <2>1 DEF IInv, PendingAreLast, AnswersDue
    <2>3. Due(Settled) = Waiting
      BY <2>1, <1>1 DEF Due, Fifo!Due
    <2> QED BY <2>2, <2>3
  <1> QED BY <1>1, <1>4, <1>5

\* What is queued is what comes after the answered reads.
LEMMA QueuedFact ==
  ASSUME IInv, requests # <<>>
  PROVE  /\ fns = <<>> /\ Settled = Len(answers)
         /\ Settled + Len(requests) = Len(received)
         /\ \A i \in 1..Len(requests) : requests[i] = received[Settled + i]
  <1> USE Counts
  <1>1. fns = <<>> /\ Len(fns) = 0
    BY DEF IInv, NeverBothQueued
  <1>2. Len(requests) > 0
    BY DEF IInv, TypeOK
  <1> QED BY <1>1, <1>2 DEF IInv, NothingLost

LEMMA NoneQueuedFact ==
  ASSUME IInv, requests = <<>>
  PROVE  Len(received) <= Settled
  <1>1. Len(requests) = 0
    OBVIOUS
  <1> QED BY <1>1, Counts DEF IInv, NothingLost
\* 'data' with a pending read: the oldest one, Settled + 1, gets the message.
LEMMA OnDataPending ==
  ASSUME IInv, NEW m \in Msg, OnData(m), fns # <<>>
  PROVE  IInv'
  <1> USE Counts
  <1> DEFINE S == Settled
  <1>1. /\ S = Len(received) /\ ~end /\ requests = <<>> /\ Len(requests) = 0
    BY PendingFact
  <1>2. /\ received' = Append(received, m) /\ received' \in Seq(Msg)
        /\ Len(received') = S + 1
        /\ \A i \in 1..S : received'[i] = received[i]
        /\ received'[S + 1] = m
    BY <1>1, AppendFacts DEF OnData, IInv, TypeOK
  <1>3. /\ fns' = Tail(fns) /\ fns' \in Seq(Nat) /\ Len(fns) > 0
        /\ Len(fns') = Len(fns) - 1 /\ DOMAIN fns' = 1..Len(fns')
        /\ \A i \in 1..Len(fns') : fns'[i] = fns[i + 1]
        /\ Head(fns) = fns[1] /\ fns[1] = S + 1
    <2>1. fns \in Seq(Nat) /\ fns' = Tail(fns)
      BY DEF OnData, IInv, TypeOK
    <2>2. Len(fns) > 0 /\ fns[1] = S + 1
      BY <2>1 DEF IInv, PendingAreLast
    <2> QED BY <2>1, <2>2, TailFacts
  <1>4. /\ answers' = [answers EXCEPT ![S + 1] = m]
        /\ requests' = requests /\ end' = end
    BY <1>3 DEF OnData
  <1>5. /\ answers' \in Seq(Answer) /\ Len(answers') = Len(answers)
        /\ DOMAIN answers' = 1..Len(answers)
        /\ answers'[S + 1] = m
        /\ \A k \in 1..Len(answers) : k # S + 1 => answers'[k] = answers[k]
    BY <1>3, <1>4 DEF IInv, TypeOK, Answer
  <1>6. Settled' = S + 1
    BY <1>3, <1>5 DEF Settled
  <1>7. TypeOK'
    BY <1>2, <1>3, <1>4, <1>5 DEF IInv, TypeOK
  <1>8. NeverBothQueued'
    BY <1>1, <1>4 DEF NeverBothQueued
  <1>9. PendingAreLast'
    <2>1. Len(fns') <= Len(answers')
      BY <1>3, <1>5
    <2>2. ASSUME NEW i \in DOMAIN fns' PROVE fns'[i] = Settled' + i
      <3>1. i + 1 \in DOMAIN fns /\ fns'[i] = fns[i + 1]
        BY <1>3
      <3> QED BY <1>3, <1>6, <3>1 DEF IInv, PendingAreLast
    <2>3. ASSUME NEW k \in DOMAIN answers'
          PROVE answers'[k] = Waiting <=> k > Settled'
      <3>1. answers[k] = Waiting <=> k > S
        BY <1>5 DEF IInv, PendingAreLast
      <3> QED BY <1>5, <1>6, <3>1
    <2> QED BY <2>1, <2>2, <2>3 DEF PendingAreLast
  <1>10. NothingLost'
    <2>1. ASSUME NEW k \in DOMAIN answers', answers'[k] \in Msg
          PROVE k <= Len(received')
      <3>1. k # S + 1 => k <= Len(received)
        BY <1>5, <2>1 DEF IInv, NothingLost
      <3> QED BY <1>1, <1>2, <1>5, <3>1
    <2> QED BY <1>1, <1>2, <1>4, <1>6, <2>1 DEF NothingLost
  <1>11. AnswersDue'
    <2>1. SUFFICES ASSUME NEW k \in 1..Len(answers) PROVE answers'[k] = Due(k)'
      BY <1>5 DEF AnswersDue
    <2>2. answers[k] = Due(k)
      BY DEF IInv, AnswersDue
    <2> QED BY <1>1, <1>2, <1>4, <1>5, <2>2 DEF Due, Fifo!Due
  <1> QED BY <1>7, <1>8, <1>9, <1>10, <1>11 DEF IInv

\* 'data' without a pending read: the message is queued behind the others.
LEMMA OnDataQueued ==
  ASSUME IInv, NEW m \in Msg, OnData(m), fns = <<>>
  PROVE  IInv'
  <1> USE Counts
  <1> DEFINE S == Settled
  <1>1. Len(fns) = 0 /\ S = Len(answers) /\ DOMAIN fns = {}
    OBVIOUS
  <1>2. /\ ~end /\ received' = Append(received, m)
        /\ requests' = Append(requests, m)
        /\ fns' = fns /\ answers' = answers /\ end' = end
    BY DEF OnData, Queued
  <1>3. /\ received' \in Seq(Msg) /\ Len(received') = Len(received) + 1
        /\ \A i \in 1..Len(received) : received'[i] = received[i]
        /\ received'[Len(received) + 1] = m
    BY <1>2, AppendFacts DEF IInv, TypeOK
  <1>4. /\ requests' \in Seq(Msg) /\ Len(requests') = Len(requests) + 1
        /\ DOMAIN requests' = 1..(Len(requests) + 1)
        /\ \A i \in 1..Len(requests) : requests'[i] = requests[i]
        /\ requests'[Len(requests) + 1] = m
    BY <1>2, AppendFacts DEF IInv, TypeOK
  <1>5. /\ Settled' = S
        /\ \A k \in 1..S : answers[k] # Waiting
    BY <1>1, <1>2 DEF IInv, Settled, PendingAreLast
  \* no read has been told 'stream end': the answered reads have messages
  <1>6. S <= Len(received)
    <2>1. SUFFICES ASSUME S > Len(received) PROVE FALSE
      OBVIOUS
    <2>2. answers[S] = Due(S) /\ answers[S] # Waiting
      BY <1>1, <1>5, <2>1 DEF IInv, AnswersDue
    <2> QED BY <1>2, <2>1, <2>2 DEF Due, Fifo!Due
  <1>7. Len(received) = S + Len(requests)
    BY <1>6 DEF IInv, NothingLost
  <1>8. TypeOK'
    BY <1>2, <1>3, <1>4 DEF IInv, TypeOK
  <1>9. NeverBothQueued' /\ PendingAreLast'
    BY <1>1, <1>2, <1>5 DEF IInv, NeverBothQueued, PendingAreLast, Settled
  <1>10. NothingLost'
    <2>1. ASSUME NEW i \in DOMAIN requests' PROVE requests'[i] = received'[S + i]
      <3>1. CASE i \in 1..Len(requests)
        <4>1. requests[i] = received[S + i] /\ S + i \in 1..Len(received)
          BY <1>7, <3>1 DEF IInv, NothingLost
        <4> QED BY <1>3, <1>4, <3>1, <4>1
      <3>2. CASE i = Len(requests) + 1
        BY <1>3, <1>4, <1>7, <3>2
      <3> QED BY <1>4, <3>1, <3>2
    <2>2. \A k \in DOMAIN answers' : answers'[k] \in Msg => k <= Len(received')
      BY <1>2, <1>3 DEF IInv, NothingLost
    <2> QED BY <1>3, <1>4, <1>5, <1>7, <2>1, <2>2 DEF NothingLost
  <1>11. AnswersDue'
    <2>1. SUFFICES ASSUME NEW k \in 1..Len(answers) PROVE answers'[k] = Due(k)'
      BY <1>2 DEF AnswersDue
    <2>2. answers[k] = Due(k)
      BY DEF IInv, AnswersDue
    <2> QED BY <1>1, <1>2, <1>3, <1>6, <2>2 DEF Due, Fifo!Due
  <1> QED BY <1>8, <1>9, <1>10, <1>11 DEF IInv

\* 'end': every pending read, and no other, turns into 'stream end'.
LEMMA OnEndStep ==
  ASSUME IInv, OnEnd
  PROVE  IInv'
  <1> USE Counts
  <1> DEFINE S == Settled
  <1>1. /\ ~end /\ end' = TRUE /\ fns' = <<>> /\ Len(fns') = 0 /\ DOMAIN fns' = {}
        /\ answers' = Released /\ received' = received /\ requests' = requests
    BY DEF OnEnd
  <1>2. \A k \in 1..Len(answers) : (\E i \in DOMAIN fns : fns[i] = k) <=> k > S
    <2>1. SUFFICES ASSUME NEW k \in 1..Len(answers)
                   PROVE (\E i \in DOMAIN fns : fns[i] = k) <=> k > S
      OBVIOUS
    <2>2. ASSUME NEW i \in DOMAIN fns, fns[i] = k PROVE k > S
      BY <2>2 DEF IInv, PendingAreLast
    <2>3. ASSUME k > S PROVE k - S \in DOMAIN fns /\ fns[k - S] = k
      BY <2>3 DEF IInv, PendingAreLast
    <2> QED BY <2>2, <2>3
  <1>3. /\ DOMAIN answers' = 1..Len(answers)
        /\ \A k \in 1..Len(answers) :
             answers'[k] = IF k > S THEN StreamEnd ELSE answers[k]
    BY <1>1, <1>2 DEF Released
  <1>4. answers' \in Seq(Answer) /\ Len(answers') = Len(answers)
    <2>1. answers' = [k \in 1..Len(answers) |->
                        IF k > S THEN StreamEnd ELSE answers[k]]
      BY <1>1, <1>2 DEF Released
    <2>2. \A k \in 1..Len(answers) :
             (IF k > S THEN StreamEnd ELSE answers[k]) \in Answer
      BY DEF IInv, TypeOK, Answer
    <2> QED BY <2>1, <2>2
  <1>5. Settled' = Len(answers)
    BY <1>1, <1>4 DEF Settled
  <1>6. TypeOK'
    <2>1. end' \in BOOLEAN
      BY <1>1, Zenon
    <2>2. fns' \in Seq(Nat)
      BY <1>1
    <2>3. received' \in Seq(Msg) /\ requests' \in Seq(Msg)
      BY <1>1 DEF IInv, TypeOK
    <2> QED BY <1>4, <2>1, <2>2, <2>3, Zenon DEF TypeOK
  <1>7. NeverBothQueued'
    BY <1>1 DEF NeverBothQueued
  <1>8. PendingAreLast'
    BY <1>1, <1>3, <1>4, <1>5 DEF IInv, PendingAreLast
  <1>9. NothingLost'
    <2>1. \A k \in DOMAIN answers' : answers'[k] \in Msg => k <= Len(received')
      BY <1>1, <1>3 DEF IInv, NothingLost
    <2>2. CASE fns = <<>>
      <3>1. S = Len(answers)
        BY <2>2
      <3> QED BY <1>1, <1>5, <2>1, <3>1 DEF IInv, NothingLost
    <2>3. CASE fns # <<>>
      BY <1>1, <1>5, <2>1, <2>3, PendingFact DEF NothingLost
    <2> QED BY <2>2, <2>3
  <1>10. AnswersDue'
    <2>1. SUFFICES ASSUME NEW k \in 1..Len(answers) PROVE answers'[k] = Due(k)'
      BY <1>4 DEF AnswersDue
    <2>2. answers[k] = Due(k) /\ (answers[k] = Waiting <=> k > S)
      BY DEF IInv, AnswersDue, PendingAreLast
    <2>3. k <= Len(received) => received[k] \in Msg
      BY DEF IInv, TypeOK
    <2> QED BY <1>1, <1>3, <2>2, <2>3 DEF Due, Fifo!Due
  <1> QED BY <1>6, <1>7, <1>8, <1>9, <1>10 DEF IInv
\* A read that finds a message takes the first one queued.
LEMMA ReadQueued ==
  ASSUME IInv, requests # <<>>, UNCHANGED <<received, end, fns>>,
         answers' = Append(answers, Head(requests)), requests' = Tail(requests)
  PROVE  IInv'
  <1> USE Counts
  <1> DEFINE n == Len(answers)
  <1>1. Len(fns) = 0 /\ Settled = n /\ n + Len(requests) = Len(received)
    BY QueuedFact
  <1>2. /\ received' = received /\ requests' \in Seq(Msg) /\ Len(requests) \in Nat \ {0}
        /\ Len(requests') = Len(requests) - 1
        /\ DOMAIN requests' = 1..Len(requests')
        /\ \A i \in 1..Len(requests') : requests'[i] = requests[i + 1]
        /\ Head(requests) = requests[1] /\ Head(requests) \in Msg
    BY TailFacts DEF IInv, TypeOK
  <1>3. Head(requests) = received[n + 1] /\ n + 1 <= Len(received)
    BY <1>1, <1>2, QueuedFact
  <1>4. Head(requests) \in Answer
    BY <1>2 DEF Answer
  <1>5. /\ answers' \in Seq(Answer) /\ Len(answers') = n + 1
        /\ DOMAIN answers' = 1..(n + 1)
        /\ \A k \in 1..n : answers'[k] = answers[k]
        /\ answers'[n + 1] = received[n + 1] /\ answers'[n + 1] \in Msg
    BY <1>2, <1>3, <1>4, AppendFacts DEF IInv, TypeOK
  <1>6. Settled' = n + 1
    BY <1>1, <1>5 DEF Settled
  <1>7. TypeOK'
    BY <1>2, <1>5 DEF IInv, TypeOK
  <1>8. NeverBothQueued'
    BY <1>1 DEF NeverBothQueued
  <1>9. PendingAreLast'
    BY <1>1, <1>5, <1>6 DEF IInv, PendingAreLast
  <1>10. NothingLost'
    <2>1. ASSUME NEW i \in DOMAIN requests'
          PROVE requests'[i] = received[n + 1 + i]
      <3>1. i + 1 \in 1..Len(requests)
        BY <1>2
      <3>2. requests[i + 1] = received[n + (i + 1)]
        BY <1>1, <3>1, QueuedFact
      <3> QED BY <1>2, <3>2
    <2>2. \A k \in DOMAIN answers' : answers'[k] \in Msg => k <= Len(received)
      BY <1>3, <1>5 DEF IInv, NothingLost
    <2>3. Len(requests') = Len(received) - (n + 1) /\ Len(received) >= n + 1
      <3>1. Len(requests') = Len(requests) - 1 /\ Len(requests) \in Nat \ {0}
        BY <1>2
      <3>2. n + Len(requests) = Len(received)
        BY <1>1
      <3>3. n \in Nat
        OBVIOUS
      <3> HIDE DEF n
      <3> QED BY ONLY <3>1, <3>2, <3>3
    <2>4. received' = received
      BY <1>2
    <2>5. Len(requests') = IF Settled' < Len(received')
                           THEN Len(received') - Settled' ELSE 0
      <3>1. n \in Nat
        OBVIOUS
      <3> HIDE DEF n
      <3> QED BY ONLY <1>6, <2>3, <2>4, <3>1
    <2> QED BY ONLY <1>6, <2>1, <2>2, <2>4, <2>5 DEF NothingLost
  <1>11. AnswersDue'
    <2>1. SUFFICES ASSUME NEW k \in 1..(n + 1) PROVE answers'[k] = Due(k)'
      BY <1>5 DEF AnswersDue
    <2>2. CASE k \in 1..n
      BY <1>5, <2>2 DEF IInv, AnswersDue, Due, Fifo!Due
    <2>3. CASE k = n + 1
      BY <1>3, <1>5, <2>3 DEF Due, Fifo!Due
    <2> QED BY <2>2, <2>3
  <1> QED BY <1>7, <1>8, <1>9, <1>10, <1>11 DEF IInv

\* A read that finds nothing is told 'stream end', or waits.
LEMMA ReadEmpty ==
  ASSUME IInv, requests = <<>>, UNCHANGED <<received, end, requests>>,
         \/ end /\ answers' = Append(answers, StreamEnd) /\ fns' = fns
         \/ ~end /\ answers' = Append(answers, Waiting)
                 /\ fns' = Append(fns, Len(answers) + 1)
  PROVE  IInv'
  <1> USE Counts
  <1> DEFINE n == Len(answers)
             a == IF end THEN StreamEnd ELSE Waiting
  <1>1. Len(requests) = 0 /\ Len(received) <= Settled
    BY NoneQueuedFact
  <1>2. /\ answers' = Append(answers, a) /\ answers' \in Seq(Answer)
        /\ Len(answers') = n + 1 /\ DOMAIN answers' = 1..(n + 1)
        /\ \A k \in 1..n : answers'[k] = answers[k]
        /\ answers'[n + 1] = a
    <2>1. answers' = Append(answers, a) /\ a \in Answer
      BY DEF Answer
    <2> QED BY <2>1, AppendFacts DEF IInv, TypeOK
  <1>3. CASE end
    <2>1. fns = <<>> /\ Settled = n /\ Len(fns) = 0
      BY <1>3 DEF IInv, NeverBothQueued
    <2>2. Settled' = n + 1
      BY <1>2, <1>3, <2>1 DEF Settled
    <2>3. TypeOK'
      BY <1>2, <1>3 DEF IInv, TypeOK
    <2>4. NeverBothQueued' /\ PendingAreLast'
      BY <1>2, <1>3, <2>1, <2>2 DEF IInv, NeverBothQueued, PendingAreLast
    <2>5. NothingLost'
      BY <1>1, <1>2, <1>3, <2>1, <2>2 DEF IInv, NothingLost
    <2>6. AnswersDue'
      <3>1. SUFFICES ASSUME NEW k \in 1..(n + 1) PROVE answers'[k] = Due(k)'
        BY <1>2 DEF AnswersDue
      <3> QED BY <1>1, <1>2, <1>3, <2>1 DEF IInv, AnswersDue, Due, Fifo!Due
    <2> QED BY <2>3, <2>4, <2>5, <2>6 DEF IInv
  <1>4. CASE ~end
    <2>1. /\ fns' \in Seq(Nat)
          /\ Len(fns') = Len(fns) + 1 /\ DOMAIN fns' = 1..(Len(fns) + 1)
          /\ \A i \in 1..Len(fns) : fns'[i] = fns[i]
          /\ fns'[Len(fns) + 1] = n + 1
      <3>1. fns \in Seq(Nat) /\ n + 1 \in Nat /\ fns' = Append(fns, n + 1)
        BY <1>4 DEF IInv, TypeOK
      <3> QED BY ONLY <3>1, AppendNat
    <2>2. Settled' = Settled
      <3>1. Len(answers') = Len(answers) + 1 /\ Len(fns') = Len(fns) + 1
        BY <1>2, <2>1
      <3> QED BY <3>1 DEF Settled
    <2>3. TypeOK'
      BY <1>2, <2>1 DEF IInv, TypeOK
    <2>4. NeverBothQueued'
      BY <1>4 DEF NeverBothQueued
    <2>5. PendingAreLast'
      <3>1. \A i \in DOMAIN fns' : fns'[i] = Settled + i
        <4>1. \A i \in 1..Len(fns) : fns[i] = Settled + i
          BY DEF IInv, PendingAreLast
        <4> QED BY <2>1, <4>1
      <3>2. \A k \in DOMAIN answers' : answers'[k] = Waiting <=> k > Settled
        BY <1>2, <1>4 DEF IInv, PendingAreLast
      <3>3. Len(fns') <= Len(answers')
        BY <1>2, <2>1
      <3> QED BY <2>2, <3>1, <3>2, <3>3 DEF PendingAreLast
    <2>6. NothingLost'
      BY <1>1, <1>2, <1>4, <2>2 DEF IInv, NothingLost
    <2>7. AnswersDue'
      <3>1. SUFFICES ASSUME NEW k \in 1..(n + 1) PROVE answers'[k] = Due(k)'
        BY <1>2 DEF AnswersDue
      <3> QED BY <1>1, <1>2, <1>4 DEF IInv, AnswersDue, Due, Fifo!Due
    <2> QED BY <2>3, <2>4, <2>5, <2>6, <2>7 DEF IInv
  <1> QED BY <1>3, <1>4
LEMMA StepIInv == IInv /\ [Next]_streamVars => IInv'
  <1> SUFFICES ASSUME IInv, [Next]_streamVars PROVE IInv'
    OBVIOUS
  <1>1. ASSUME NEW m \in Msg, OnData(m) PROVE IInv'
    BY <1>1, OnDataPending, OnDataQueued
  <1>2. CASE OnEnd
    BY <1>2, OnEndStep
  <1>3. CASE Read
    <2>1. CASE requests # <<>>
      BY <1>3, <2>1, ReadQueued DEF Read, MustWait
    <2>2. CASE requests = <<>>
      BY <1>3, <2>2, ReadEmpty DEF Read, MustWait
    <2> QED BY <2>1, <2>2
  <1>4. CASE UNCHANGED streamVars
    BY <1>4 DEF streamVars, IInv, TypeOK, NeverBothQueued, PendingAreLast,
                NothingLost, AnswersDue, Due, Fifo!Due, Settled
  <1> QED BY <1>1, <1>2, <1>3, <1>4 DEF Next

THEOREM SpecIInv == Spec => []IInv
  BY InitIInv, StepIInv, PTL DEF Spec

\* The variables keep their types in every reachable state.
THEOREM TypeCorrect == Spec => []TypeOK
  BY SpecIInv, PTL DEF IInv

\* No message of the client is lost, duplicated or overtaken, whatever the
\* interleaving of 'data', 'end' and read().
THEOREM MessagesKept == Spec => []NothingLost
  BY SpecIInv, PTL DEF IInv

\* No callback of a read is lost or run twice, and none is pending while a
\* message is queued or after the end of the stream.
THEOREM CallbacksKept == Spec => [](PendingAreLast /\ NeverBothQueued)
  BY SpecIInv, PTL DEF IInv
-----------------------------------------------------------------------------
(***************************************************************************)
(* The queues implement FifoStream.  AnswersDue holds after the step too,  *)
(* so the new answers are the due ones; what is left is which of Deliver,  *)
(* Close and Ask the step is.                                              *)
(***************************************************************************)
LEMMA LengthAfter ==
  ASSUME IInv
  PROVE  /\ \A m \in Msg : OnData(m) => Len(answers') = Len(answers)
         /\ OnEnd => Len(answers') = Len(answers)
         /\ Read => Len(answers') = Len(answers) + 1
  <1> USE Counts
  <1>1. ASSUME NEW m \in Msg, OnData(m) PROVE Len(answers') = Len(answers)
    BY <1>1 DEF OnData, IInv, TypeOK
  <1>2. ASSUME OnEnd PROVE Len(answers') = Len(answers)
    <2>1. answers' = Released
      BY <1>2 DEF OnEnd
    <2> QED BY <2>1 DEF Released
  <1>3. ASSUME Read PROVE Len(answers') = Len(answers) + 1
    <2>1. \/ requests # <<>> /\ answers' = Append(answers, Head(requests))
          \/ answers' = Append(answers, StreamEnd)
          \/ answers' = Append(answers, Waiting)
      BY <1>3 DEF Read
    <2>2. answers \in Seq(Answer)
      BY DEF IInv, TypeOK
    <2> QED BY <2>1, <2>2
  <1> QED BY <1>1, <1>2, <1>3

LEMMA StepFifo == IInv /\ IInv' /\ [Next]_streamVars => [Fifo!Next]_(Fifo!fifoVars)
  <1> SUFFICES ASSUME IInv, IInv', [Next]_streamVars
               PROVE  [Fifo!Next]_(Fifo!fifoVars)
    OBVIOUS
  <1>1. answers' = [k \in 1..Len(answers') |-> Fifo!Due(received', end', k)]
    <2>1. IInv' => answers' = [k \in 1..Len(answers') |-> Due(k)']
      BY DEF IInv, TypeOK, AnswersDue
    <2> QED BY <2>1 DEF Due
  <1>2. ASSUME NEW m \in Msg, OnData(m) PROVE Fifo!Deliver
    <2>1. ~end /\ received' = Append(received, m) /\ end' = end
      BY <1>2 DEF OnData
    <2>2. Len(answers') = Len(answers)
      BY <1>2, LengthAfter
    <2> QED BY ONLY <1>1, <2>1, <2>2, m \in Msg DEF Fifo!Deliver, Fifo!Answered
  <1>3. ASSUME OnEnd PROVE Fifo!Close
    <2>1. ~end /\ end' = TRUE /\ received' = received
      BY <1>3 DEF OnEnd
    <2>2. Len(answers') = Len(answers)
      BY <1>3, LengthAfter
    <2> QED BY ONLY <1>1, <2>1, <2>2 DEF Fifo!Close, Fifo!Answered
  <1>4. ASSUME Read PROVE Fifo!Ask
    <2>1. received' = received /\ end' = end
      BY <1>4 DEF Read
    <2>2. Len(answers') = Len(answers) + 1
      BY <1>4, LengthAfter
    <2> QED BY ONLY <1>1, <2>1, <2>2 DEF Fifo!Ask, Fifo!Answered
  <1>5. UNCHANGED streamVars => UNCHANGED Fifo!fifoVars
    BY DEF streamVars, Fifo!fifoVars
  <1> QED BY <1>2, <1>3, <1>4, <1>5 DEF Next, Fifo!Next

\* read() of a streaming handler is a FIFO stream: the k-th read gets the
\* k-th message, or 'stream end' if there are fewer and the client is done.
THEOREM ImplementsFifo == Spec => FifoSpec
  <1>1. Init => Fifo!Init
    BY DEF Init, Fifo!Init
  <1> QED BY <1>1, SpecIInv, StepFifo, PTL DEF Spec, FifoSpec, Fifo!Spec
=============================================================================
