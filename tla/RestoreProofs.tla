--------------------------- MODULE RestoreProofs ---------------------------
(***************************************************************************)
(* The restore handles only the messages it was asked for, and those that  *)
(* a consumer had not read; each only as often as its listener sees the    *)
(* topic.  It answers with the last message, and with one consumer that    *)
(* waits has by then handled every Created message.  For topics, offsets   *)
(* and positions of the consumers of any size, while services emit more.   *)
(***************************************************************************)
EXTENDS Restore, TLAPS

\* The listener calls for offset o that have been started, and those that
\* have handled the message and are still to answer or to remove listeners.
Delivered(o) == inv[o][1] + handled[o]
Later(o) == inv[o][2] + inv[o][3] + inv[o][4] + inv[o][5]

TopicInv ==
  /\ log \in Seq(Event) /\ Len(log) <= target + 1 + MaxLive
  /\ target \in -1..(MaxLog - 1) /\ target < Len(log)
  /\ base \in 0..(target + 1) /\ ignore \subseteq Offset
  /\ cursor \in [Consumer -> Nat] /\ began \in [Consumer -> Nat]
  /\ \A c \in Consumer : cursor[c] <= Len(log) /\ began[c] <= target + 1

StateInv ==
  /\ perEvent \in BOOLEAN /\ awaited \in BOOLEAN
  /\ turn \in 1..5 /\ registered \in BOOLEAN
  /\ listening \subseteq Restorable
  /\ inv \in [Offset -> [Stage -> Nat]]
  /\ handled \in [Offset -> Nat]
  /\ responses \subseteq Offset

\* A message is started only if it is on the topic, not ignored, and of an
\* event with a handler; only one that has been handled, at or behind the
\* target, gets to the later stages and is answered.
Asked(o) ==
  Delivered(o) > 0 => o < Len(log) /\ o \notin ignore /\ At(o) \in Restorable
Last(o) ==
  /\ Later(o) <= handled[o]
  /\ Later(o) > 0 => o >= target
  /\ o \in responses => o >= target /\ handled[o] > 0

CountInv == \A o \in Offset : Asked(o) /\ Last(o)

RestoreInv == TopicInv /\ StateInv /\ CountInv

-----------------------------------------------------------------------------
(* What the model's operators do.                                          *)

LEMMA Sizes == MaxLog \in Nat /\ MaxLive \in Nat /\ Offset \subseteq Nat
  BY RestoreAssumption DEF Offset

LEMMA NamesType == \A n \in 1..3 : EventNames[n] \in Restorable
  BY DEF EventNames, Restorable

LEMMA ConsumerType == \A e \in Restorable : ConsumerOf(e) \in Consumer
  BY DEF ConsumerOf, Consumer

\* The message at a consumer's position, when there is one, is in the model's
\* bounds.
LEMMA OffsetOfCursor ==
  ASSUME TopicInv, NEW c \in Consumer, cursor[c] < Len(log)
  PROVE  cursor[c] \in Offset /\ At(cursor[c]) \in Event
<1>1. cursor[c] \in Nat /\ Len(log) \in Nat
  BY DEF TopicInv
<1>2. cursor[c] + 1 \in 1..Len(log)
  BY <1>1
<1>3. At(cursor[c]) \in Event
  BY <1>2 DEF TopicInv, At
<1>4. cursor[c] <= MaxLog + MaxLive - 1
  BY <1>1, Sizes DEF TopicInv
<1>5. QED BY <1>1, <1>3, <1>4, Sizes DEF Offset

\* A listener call goes from one stage to another, or ends.
LEMMA GoesMoves ==
  ASSUME inv \in [Offset -> [Stage -> Nat]], NEW o \in Offset,
         NEW st \in Stage, NEW to \in Stage, st # to, inv[o][st] > 0,
         Goes(o, st, to)
  PROVE  /\ inv' \in [Offset -> [Stage -> Nat]]
         /\ \A x \in Offset \ {o} : inv'[x] = inv[x]
         /\ inv'[o][st] = inv[o][st] - 1 /\ inv'[o][to] = inv[o][to] + 1
         /\ \A s \in Stage \ {st, to} : inv'[o][s] = inv[o][s]
<1> DEFINE f == [inv[o] EXCEPT ![st] = @ - 1, ![to] = @ + 1]
<1>1. inv[o] \in [Stage -> Nat] /\ inv[o][st] - 1 \in Nat /\ inv[o][to] + 1 \in Nat
  OBVIOUS
<1>2. /\ f \in [Stage -> Nat]
      /\ f[st] = inv[o][st] - 1 /\ f[to] = inv[o][to] + 1
      /\ \A s \in Stage \ {st, to} : f[s] = inv[o][s]
  BY <1>1
<1>3. inv' = [inv EXCEPT ![o] = f]
  BY DEF Goes
<1>4. QED BY <1>2, <1>3

LEMMA EndsMoves ==
  ASSUME inv \in [Offset -> [Stage -> Nat]], NEW o \in Offset,
         NEW st \in Stage, inv[o][st] > 0, Ends(o, st)
  PROVE  /\ inv' \in [Offset -> [Stage -> Nat]]
         /\ \A x \in Offset \ {o} : inv'[x] = inv[x]
         /\ inv'[o][st] = inv[o][st] - 1
         /\ \A s \in Stage \ {st} : inv'[o][s] = inv[o][s]
<1> DEFINE f == [inv[o] EXCEPT ![st] = inv[o][st] - 1]
<1>1. inv[o] \in [Stage -> Nat]
  OBVIOUS
<1>2. /\ f \in [Stage -> Nat] /\ f[st] = inv[o][st] - 1
      /\ \A s \in Stage \ {st} : f[s] = inv[o][s]
  BY <1>1
<1>3. inv' = [inv EXCEPT ![o] = f]
  BY DEF Ends
<1>4. QED BY <1>2, <1>3

-----------------------------------------------------------------------------
(* What the steps of a listener call do to the counts.                     *)

\* The counts of o after a step that moves none of its calls.
LEMMA SameCounts ==
  ASSUME NEW x \in Offset, inv'[x] = inv[x], handled'[x] = handled[x]
  PROVE  Delivered(x)' = Delivered(x) /\ Later(x)' = Later(x)
  BY DEF Delivered, Later

LEMMA HandleCounts ==
  ASSUME TopicInv, StateInv, NEW o \in Offset, Handle(o)
  PROVE  /\ inv' \in [Offset -> [Stage -> Nat]] /\ handled' \in [Offset -> Nat]
         /\ \A x \in Offset : handled[x] <= handled'[x]
         /\ Delivered(o)' = Delivered(o) /\ Delivered(o) > 0
         /\ handled'[o] = handled[o] + 1
         /\ inv'[o][1] = inv[o][1] - 1
         /\ \/ Later(o)' = Later(o)
            \/ Later(o)' = Later(o) + 1 /\ o >= target
         /\ \A x \in Offset \ {o} : inv'[x] = inv[x] /\ handled'[x] = handled[x]
<1>1. handled[o] \in Nat /\ inv[o] \in [Stage -> Nat] /\ inv[o][1] > 0
  BY DEF StateInv, Handle
<1>2. /\ handled' \in [Offset -> Nat] /\ handled'[o] = handled[o] + 1
      /\ \A x \in Offset \ {o} : handled'[x] = handled[x]
  BY <1>1 DEF StateInv, Handle
<1>3. \A x \in Offset : handled[x] <= handled'[x]
  BY <1>1, <1>2 DEF StateInv
<1>7. Delivered(o) > 0
  BY <1>1 DEF Delivered, Stage
<1>4. CASE IsLast(o)
  <2>1. 1 \in Stage /\ 2 \in Stage /\ Goes(o, 1, 2) /\ o >= target
    BY <1>4 DEF Handle, Stage, IsLast
  <2>2. /\ inv' \in [Offset -> [Stage -> Nat]]
        /\ \A x \in Offset \ {o} : inv'[x] = inv[x]
        /\ inv'[o][1] = inv[o][1] - 1 /\ inv'[o][2] = inv[o][2] + 1
        /\ \A s \in Stage \ {1, 2} : inv'[o][s] = inv[o][s]
    BY <2>1, <1>1, GoesMoves DEF StateInv
  <2>3. Delivered(o)' = Delivered(o) /\ Later(o)' = Later(o) + 1
    BY <2>2, <1>1, <1>2 DEF Delivered, Later, Stage
  <2>4. QED BY <2>1, <2>2, <2>3, <1>2, <1>3, <1>7
<1>5. CASE ~IsLast(o)
  <2>1. 1 \in Stage /\ Ends(o, 1)
    BY <1>5 DEF Handle, Stage
  <2>2. /\ inv' \in [Offset -> [Stage -> Nat]]
        /\ \A x \in Offset \ {o} : inv'[x] = inv[x]
        /\ inv'[o][1] = inv[o][1] - 1
        /\ \A s \in Stage \ {1} : inv'[o][s] = inv[o][s]
    BY <2>1, <1>1, EndsMoves DEF StateInv
  <2>5. \A s \in 2..5 : inv'[o][s] = inv[o][s]
    BY <2>2 DEF Stage
  <2>6. Later(o)' = Later(o)
    BY <2>5 DEF Later
  <2>3. Delivered(o)' = Delivered(o) /\ Later(o)' = Later(o)
    BY <2>1, <2>2, <2>6, <1>1, <1>2 DEF Delivered
  <2>4. QED BY <2>2, <2>3, <1>2, <1>3, <1>7
<1>6. QED BY <1>4, <1>5

\* Answering and removing listeners moves a call on or ends it.
LEMMA LaterCounts ==
  ASSUME StateInv, NEW o \in Offset, NEW st \in 2..5, inv[o][st] > 0,
         (st < 5 /\ Goes(o, st, st + 1)) \/ Ends(o, st)
  PROVE  /\ inv' \in [Offset -> [Stage -> Nat]]
         /\ \A x \in Offset : inv'[x][1] = inv[x][1]
         /\ Later(o) > 0 /\ (Later(o)' = Later(o) \/ Later(o)' = Later(o) - 1)
         /\ \A x \in Offset \ {o} : inv'[x] = inv[x]
<1>1. inv[o] \in [Stage -> Nat] /\ st \in Stage /\ inv \in [Offset -> [Stage -> Nat]]
  BY DEF StateInv, Stage
<1>2. CASE st < 5 /\ Goes(o, st, st + 1)
  <2>1. st + 1 \in Stage /\ st # st + 1
    BY <1>2 DEF Stage
  <2>2. /\ inv' \in [Offset -> [Stage -> Nat]]
        /\ \A x \in Offset \ {o} : inv'[x] = inv[x]
        /\ inv'[o][st] = inv[o][st] - 1 /\ inv'[o][st + 1] = inv[o][st + 1] + 1
        /\ \A s \in Stage \ {st, st + 1} : inv'[o][s] = inv[o][s]
    BY <2>1, <1>1, <1>2, GoesMoves
  <2>3. Later(o) > 0 /\ Later(o)' = Later(o) /\ inv'[o][1] = inv[o][1]
    BY <2>2, <1>1, <1>2 DEF Later, Stage
  <2>4. QED BY <2>2, <2>3
<1>3. CASE Ends(o, st)
  <2>2. /\ inv' \in [Offset -> [Stage -> Nat]]
        /\ \A x \in Offset \ {o} : inv'[x] = inv[x]
        /\ inv'[o][st] = inv[o][st] - 1
        /\ \A s \in Stage \ {st} : inv'[o][s] = inv[o][s]
    BY <1>1, <1>3, EndsMoves
  <2>3. Later(o) > 0 /\ Later(o)' = Later(o) - 1 /\ inv'[o][1] = inv[o][1]
    BY <2>2, <1>1 DEF Later, Stage
  <2>4. QED BY <2>2, <2>3
<1>4. QED BY <1>2, <1>3

-----------------------------------------------------------------------------
(* Every step keeps the invariant.                                         *)

LEMMA RestoreInit == Init => RestoreInv
<1> SUFFICES ASSUME Init PROVE RestoreInv
  OBVIOUS
<1>1. PICK n \in 0..MaxLog : log \in [1..n -> OnTopic]
  BY DEF Init
<1>2. log \in Seq(Event) /\ Len(log) = n /\ n \in Nat
  BY <1>1, Sizes, RestoreAssumption
<1>3. TopicInv
  BY <1>1, <1>2, Sizes DEF Init, TopicInv
<1>4. perEvent \in BOOLEAN /\ awaited \in BOOLEAN
  BY RestoreAssumption DEF Init
<1>10. inv \in [Offset -> [Stage -> Nat]]
  BY DEF Init
<1>9. /\ handled \in [Offset -> Nat] /\ turn \in 1..5
      /\ listening \subseteq Restorable /\ responses \subseteq Offset
  BY DEF Init
<1>11. registered \in BOOLEAN
  BY DEF Init
<1>5. StateInv
  BY <1>4, <1>9, <1>10, <1>11, Zenon DEF StateInv
<1>6. \A o \in Offset : Delivered(o) = 0 /\ Later(o) = 0
  BY DEF Init, Delivered, Later, Stage
<1>7. CountInv
  BY <1>6 DEF CountInv, Asked, Last, Init
<1>8. QED BY <1>3, <1>5, <1>7 DEF RestoreInv

LEMMA OnKeeps ==
  ASSUME RestoreInv, On
  PROVE  RestoreInv'
<1>1. TopicInv'
  BY DEF RestoreInv, TopicInv, On, constVars
<1>2. turn \in 1..3
  BY DEF RestoreInv, StateInv, On
<1>3. StateInv'
  BY <1>2, NamesType, Zenon DEF RestoreInv, StateInv, On, constVars, doneVars
<1>4. CountInv'
  BY DEF RestoreInv, CountInv, Asked, Last, Delivered, Later, At, On, constVars, doneVars
<1>5. QED BY <1>1, <1>3, <1>4 DEF RestoreInv

LEMMA ResetKeeps ==
  ASSUME RestoreInv, Reset
  PROVE  RestoreInv'
<1> DEFINE c == ConsumerOf(EventNames[turn])
<1>1. turn \in 1..3 /\ c \in Consumer
  BY NamesType, ConsumerType DEF RestoreInv, StateInv, Reset
<1>2. base \in Nat /\ base <= Len(log)
  BY DEF RestoreInv, TopicInv
<1>3. /\ cursor' \in [Consumer -> Nat] /\ cursor'[c] = base
      /\ \A d \in Consumer \ {c} : cursor'[d] = cursor[d]
  BY <1>1, <1>2 DEF RestoreInv, TopicInv, Reset, ResetTo
<1>4. TopicInv'
  BY <1>2, <1>3 DEF RestoreInv, TopicInv, Reset, constVars
<1>5. turn' \in 1..5
  BY <1>1 DEF Reset
<1>6. StateInv'
  BY <1>5, Zenon DEF RestoreInv, StateInv, Reset, constVars, doneVars
<1>7. CountInv'
  BY DEF RestoreInv, CountInv, Asked, Last, Delivered, Later, At, Reset,
         constVars, doneVars
<1>8. QED BY <1>4, <1>6, <1>7 DEF RestoreInv

LEMMA FailsKeeps ==
  ASSUME RestoreInv, RestoreFails
  PROVE  RestoreInv'
<1>1. TopicInv'
  BY DEF RestoreInv, TopicInv, RestoreFails, constVars
<1>2. turn' \in 1..5
  BY DEF RestoreFails
<1>3. StateInv'
  BY <1>2, Zenon DEF RestoreInv, StateInv, RestoreFails, constVars, doneVars
<1>4. CountInv'
  BY DEF RestoreInv, CountInv, Asked, Last, Delivered, Later, At, RestoreFails,
         constVars, doneVars
<1>5. QED BY <1>1, <1>3, <1>4 DEF RestoreInv

LEMMA LiveKeeps ==
  ASSUME RestoreInv, NEW e \in OnTopic, Live(e)
  PROVE  RestoreInv'
<1>1. e \in Event /\ log \in Seq(Event) /\ Len(log) \in Nat
  BY RestoreAssumption DEF RestoreInv, TopicInv
<1>2. /\ log' \in Seq(Event) /\ Len(log') = Len(log) + 1
      /\ \A o \in Nat : o < Len(log) => log'[o + 1] = log[o + 1]
  BY <1>1 DEF Live
<1>3. base \in Nat /\ target \in Int /\ MaxLive \in Nat
  BY Sizes DEF RestoreInv, TopicInv
<1>4. \A c \in Consumer : cursor[c] <= Len(log) + 1
  BY <1>1, <1>3 DEF RestoreInv, TopicInv
<1>5. TopicInv'
  <2>1. Len(log') <= target + 1 + MaxLive /\ target < Len(log')
    BY <1>1, <1>2, <1>3 DEF Live, RestoreInv, TopicInv
  <2>2. QED BY <2>1, <1>2, <1>4 DEF RestoreInv, TopicInv, Live, constVars
<1>6. StateInv'
  BY DEF RestoreInv, StateInv, Live, constVars, doneVars
<1>7. ASSUME NEW o \in Offset PROVE Asked(o)' /\ Last(o)'
  <2>1. Delivered(o)' = Delivered(o) /\ Later(o)' = Later(o)
    BY SameCounts DEF Live, doneVars
  <2>2. CASE Delivered(o) > 0
    <3>1. o \in Nat /\ o < Len(log)
      BY <2>2, Sizes DEF RestoreInv, CountInv, Asked
    <3>2. At(o)' = At(o) /\ o < Len(log')
      BY <3>1, <1>1, <1>2 DEF At
    <3>3. Asked(o)'
      BY <3>2, <2>1 DEF Asked, RestoreInv, CountInv, Live, constVars
    <3>4. QED BY <3>3, <2>1 DEF Last, RestoreInv, CountInv, Live, constVars, doneVars
  <2>3. CASE ~(Delivered(o) > 0)
    BY <2>1, <2>3 DEF Asked, Last, RestoreInv, CountInv, Live, constVars, doneVars
  <2>4. QED BY <2>2, <2>3
<1>8. QED BY <1>5, <1>6, <1>7 DEF RestoreInv, CountInv

\* A call is started.
LEMMA StartsCall ==
  ASSUME inv \in [Offset -> [Stage -> Nat]], NEW o \in Offset, 1 \in Stage,
         inv' = [inv EXCEPT ![o][1] = @ + 1]
  PROVE  /\ inv' \in [Offset -> [Stage -> Nat]]
         /\ inv'[o][1] = inv[o][1] + 1
         /\ \A s \in Stage \ {1} : inv'[o][s] = inv[o][s]
         /\ \A x \in Offset \ {o} : inv'[x] = inv[x]
  OBVIOUS

\* What a delivery does: the consumer moves on from offset o, and one call is
\* started when the message is one of those the command asked for.
Taken(c, o) == At(o) \in EventsOf(c) \cap listening /\ o \notin ignore

LEMMA Delivers ==
  ASSUME RestoreInv, NEW c \in Consumer, Deliver(c), NEW o, o = cursor[c]
  PROVE  /\ o \in Offset /\ o < Len(log)
         /\ inv' \in [Offset -> [Stage -> Nat]]
         /\ \A x \in Offset \ {o} : inv'[x] = inv[x]
         /\ Later(o)' = Later(o)
         /\ Taken(c, o) => inv'[o][1] = inv[o][1] + 1
         /\ ~Taken(c, o) => inv'[o] = inv[o]
         /\ cursor' \in [Consumer -> Nat] /\ cursor'[c] = o + 1
         /\ \A d \in Consumer \ {c} : cursor'[d] = cursor[d]
<1>1. o < Len(log)
  BY DEF Deliver
<1>2. o \in Offset
  BY <1>1, OffsetOfCursor DEF RestoreInv
<1>3. o \in Nat /\ cursor \in [Consumer -> Nat]
  BY DEF RestoreInv, TopicInv
<1>4. /\ cursor' \in [Consumer -> Nat] /\ cursor'[c] = o + 1
      /\ \A d \in Consumer \ {c} : cursor'[d] = cursor[d]
  BY <1>3 DEF Deliver
<1>5. inv \in [Offset -> [Stage -> Nat]] /\ 1 \in Stage
  BY DEF RestoreInv, StateInv, Stage
<1>6. inv' = IF Taken(c, o) THEN [inv EXCEPT ![o][1] = @ + 1] ELSE inv
  BY DEF Deliver, Taken, IsIgnored
<1>7. CASE Taken(c, o)
  <2>1. /\ inv' \in [Offset -> [Stage -> Nat]]
        /\ inv'[o][1] = inv[o][1] + 1
        /\ \A s \in Stage \ {1} : inv'[o][s] = inv[o][s]
        /\ \A x \in Offset \ {o} : inv'[x] = inv[x]
    BY <1>7, <1>6, <1>2, <1>5, StartsCall
  <2>2. \A s \in 2..5 : inv'[o][s] = inv[o][s]
    BY <2>1 DEF Stage
  <2>3. Later(o)' = Later(o)
    BY <2>2 DEF Later
  <2>4. QED BY <1>1, <1>2, <1>4, <1>7, <2>1, <2>3
<1>8. CASE ~Taken(c, o)
  <2>1. inv' = inv
    BY <1>6, <1>8
  <2>2. Later(o)' = Later(o)
    BY <2>1 DEF Later
  <2>3. QED BY <1>1, <1>2, <1>4, <1>5, <1>8, <2>1, <2>2
<1>9. QED BY <1>7, <1>8

\* The events of a consumer's messages, and the consumer of an event.
LEMMA EventsConsumer ==
  ASSUME NEW c \in Consumer, perEvent \in BOOLEAN
  PROVE  /\ \A e \in EventsOf(c) : ConsumerOf(e) = c
         /\ perEvent => EventsOf(c) \subseteq {c}
         /\ ~perEvent /\ EventsOf(c) # {} => c = "topic" /\ EventsOf(c) = Event
  BY DEF EventsOf, ConsumerOf, Consumer, Restorable

LEMMA DeliverKeeps ==
  ASSUME RestoreInv, NEW c \in Consumer, Deliver(c)
  PROVE  RestoreInv'
<1> PICK o : o = cursor[c]
  OBVIOUS
<1>1. /\ o \in Offset /\ o < Len(log)
      /\ inv' \in [Offset -> [Stage -> Nat]]
      /\ \A x \in Offset \ {o} : inv'[x] = inv[x]
      /\ Later(o)' = Later(o)
      /\ Taken(c, o) => inv'[o][1] = inv[o][1] + 1
      /\ ~Taken(c, o) => inv'[o] = inv[o]
      /\ cursor' \in [Consumer -> Nat] /\ cursor'[c] = o + 1
      /\ \A d \in Consumer \ {c} : cursor'[d] = cursor[d]
  BY Delivers
<1>2. /\ o \in Nat /\ Len(log) \in Nat
      /\ \A d \in Consumer : cursor[d] <= Len(log) /\ cursor[d] \in Nat
  BY DEF RestoreInv, TopicInv
<1>3. TopicInv'
  <2>1. \A d \in Consumer : cursor'[d] <= Len(log)
    BY <1>1, <1>2
  <2>2. QED BY <1>1, <2>1 DEF RestoreInv, TopicInv, Deliver, constVars
<1>4. StateInv'
  <2>1. UNCHANGED <<perEvent, awaited, turn, registered, listening, handled, responses>>
    BY DEF Deliver, constVars, doneVars
  <2>2. QED BY <1>1, <2>1 DEF RestoreInv, StateInv
<1>5. /\ handled' = handled /\ log' = log /\ ignore' = ignore
      /\ target' = target /\ responses' = responses
  BY DEF Deliver, constVars, doneVars
<1>6. \A x \in Offset : At(x)' = At(x)
  BY <1>5 DEF At
<1>7. ASSUME NEW x \in Offset, inv'[x] = inv[x] PROVE Asked(x)' /\ Last(x)'
  <2>1. Delivered(x)' = Delivered(x) /\ Later(x)' = Later(x)
    BY <1>5, <1>7, SameCounts
  <2>2. QED BY <2>1, <1>5, <1>6 DEF RestoreInv, CountInv, Asked, Last
<1>8. ASSUME Taken(c, o) PROVE Asked(o)' /\ Last(o)'
  <2>1. o \notin ignore /\ At(o) \in Restorable
    BY <1>8 DEF Taken, RestoreInv, StateInv
  <2>2. Asked(o)'
    BY <2>1, <1>1, <1>5, <1>6 DEF Asked
  <2>3. Last(o)'
    BY <1>1, <1>5 DEF RestoreInv, CountInv, Last
  <2>4. QED BY <2>2, <2>3
<1>9. \A x \in Offset : Asked(x)' /\ Last(x)'
  BY <1>1, <1>7, <1>8
<1>10. QED BY <1>3, <1>4, <1>9 DEF RestoreInv, CountInv

\* A step of a listener call, other than starting one.
LEMMA CallsKeep ==
  ASSUME RestoreInv, NEW o \in Offset,
         UNCHANGED <<log, constVars, turn, registered, cursor>>,
         listening' \subseteq Restorable, responses' \subseteq Offset,
         inv' \in [Offset -> [Stage -> Nat]], handled' \in [Offset -> Nat],
         \A x \in Offset : Delivered(x)' = Delivered(x),
         \A x \in Offset : Last(x)'
  PROVE  RestoreInv'
<1>1. TopicInv'
  BY DEF RestoreInv, TopicInv, constVars
<1>2. StateInv'
  BY DEF RestoreInv, StateInv, constVars
<1>3. ASSUME NEW x \in Offset PROVE Asked(x)'
  <2>1. At(x)' = At(x)
    BY DEF At
  <2>2. QED BY <2>1 DEF Asked, RestoreInv, CountInv, constVars
<1>4. QED BY <1>1, <1>2, <1>3 DEF RestoreInv, CountInv

LEMMA HandleKeeps ==
  ASSUME RestoreInv, NEW o \in Offset, Handle(o)
  PROVE  RestoreInv'
<1>1. /\ inv' \in [Offset -> [Stage -> Nat]] /\ handled' \in [Offset -> Nat]
      /\ \A x \in Offset : handled[x] <= handled'[x]
      /\ Delivered(o)' = Delivered(o) /\ handled'[o] = handled[o] + 1
      /\ \/ Later(o)' = Later(o)
         \/ Later(o)' = Later(o) + 1 /\ o >= target
      /\ \A x \in Offset \ {o} : inv'[x] = inv[x] /\ handled'[x] = handled[x]
  BY HandleCounts DEF RestoreInv
<1>2. UNCHANGED <<log, constVars, turn, registered, cursor, listening, responses>>
  BY DEF Handle
<1>3. handled[o] \in Nat /\ Later(o) \in Nat
  BY DEF RestoreInv, StateInv, Later, Stage
<1>4. target' = target
  BY <1>2 DEF constVars
<1>5. ASSUME NEW x \in Offset PROVE Delivered(x)' = Delivered(x) /\ Last(x)'
  <2>1. CASE x = o
    <3>1. Last(o)
      BY DEF RestoreInv, CountInv
    <3>2. QED BY <2>1, <3>1, <1>1, <1>2, <1>3, <1>4 DEF Last
  <2>2. CASE x # o
    <3>1. Delivered(x)' = Delivered(x) /\ Later(x)' = Later(x)
      BY <2>2, <1>1, SameCounts
    <3>2. QED BY <2>2, <3>1, <1>1, <1>2, <1>4 DEF Last, RestoreInv, CountInv
  <2>3. QED BY <2>1, <2>2
<1>6. listening' \subseteq Restorable /\ responses' \subseteq Offset
  BY <1>2 DEF RestoreInv, StateInv
<1>7. QED BY <1>1, <1>2, <1>5, <1>6, CallsKeep

\* Answering, and removing the listeners of an event.
LEMMA LaterKeeps ==
  ASSUME RestoreInv, NEW o \in Offset, NEW st \in 2..5, inv[o][st] > 0,
         (st < 5 /\ Goes(o, st, st + 1)) \/ Ends(o, st),
         UNCHANGED <<log, constVars, turn, registered, cursor, doneVars>>,
         listening' \subseteq listening, responses' \subseteq responses \cup {o}
  PROVE  RestoreInv'
<1>1. /\ inv' \in [Offset -> [Stage -> Nat]]
      /\ \A x \in Offset : inv'[x][1] = inv[x][1]
      /\ Later(o) > 0 /\ (Later(o)' = Later(o) \/ Later(o)' = Later(o) - 1)
      /\ \A x \in Offset \ {o} : inv'[x] = inv[x]
  BY LaterCounts DEF RestoreInv
<1>2. handled' = handled /\ target' = target
  BY DEF doneVars, constVars
<1>3. \A x \in Offset : Delivered(x)' = Delivered(x)
  BY <1>1, <1>2 DEF Delivered
<1>4. ASSUME NEW x \in Offset PROVE Last(x)'
  <2>1. Last(x) /\ handled[x] \in Nat /\ Later(x) \in Nat
    BY DEF RestoreInv, CountInv, StateInv, Later, Stage
  <2>2. CASE x = o
    BY <2>1, <2>2, <1>1, <1>2 DEF Last
  <2>3. CASE x # o
    <3>1. Later(x)' = Later(x)
      BY <2>3, <1>1, <1>2, SameCounts
    <3>2. QED BY <2>1, <2>3, <3>1, <1>2 DEF Last
  <2>4. QED BY <2>2, <2>3
<1>5. /\ listening' \subseteq Restorable /\ responses' \subseteq Offset
      /\ handled' \in [Offset -> Nat]
  BY <1>2 DEF RestoreInv, StateInv
<1>6. QED BY <1>1, <1>3, <1>4, <1>5, CallsKeep

LEMMA RespondKeeps ==
  ASSUME RestoreInv, NEW o \in Offset, Respond(o)
  PROVE  RestoreInv'
<1>1. 2 \in 2..5 /\ 2 < 5 /\ inv[o][2] > 0 /\ (Goes(o, 2, 2 + 1) \/ Ends(o, 2))
  BY DEF Respond
<1>2. QED BY <1>1, LaterKeeps DEF Respond

LEMMA RemoveKeeps ==
  ASSUME RestoreInv, NEW o \in Offset, NEW st \in Stage, Remove(o, st)
  PROVE  RestoreInv'
<1>1. st \in 2..5 /\ inv[o][st] > 0
  BY DEF Remove, Stage
<1>2. (st < 5 /\ Goes(o, st, st + 1)) \/ Ends(o, st)
  BY DEF Remove
<1>3. QED BY <1>1, <1>2, LaterKeeps DEF Remove

LEMMA RestoreStep == RestoreInv /\ [Next]_vars => RestoreInv'
<1> SUFFICES ASSUME RestoreInv, [Next]_vars PROVE RestoreInv'
  OBVIOUS
<1>1. CASE On \/ Reset \/ RestoreFails
  BY <1>1, OnKeeps, ResetKeeps, FailsKeeps
<1>2. CASE \E c \in Consumer : Deliver(c)
  BY <1>2, DeliverKeeps
<1>3. CASE \E e \in OnTopic : Live(e)
  BY <1>3, LiveKeeps
<1>4. CASE \E o \in Offset : Handle(o) \/ Respond(o)
  BY <1>4, HandleKeeps, RespondKeeps
<1>5. CASE \E o \in Offset, st \in Stage : Remove(o, st)
  BY <1>5, RemoveKeeps
<1>6. CASE UNCHANGED vars
  BY <1>6 DEF vars, constVars, doneVars, RestoreInv, TopicInv, StateInv, CountInv,
              Asked, Last, Delivered, Later, At
<1>7. QED BY <1>1, <1>2, <1>3, <1>4, <1>5, <1>6 DEF Next

LEMMA RestoreInvHolds == Spec => []RestoreInv
  BY RestoreInit, RestoreStep, PTL DEF Spec

-----------------------------------------------------------------------------
(***************************************************************************)
(* What the restore promises.                                              *)
(***************************************************************************)
LEMMA TouchedDelivered ==
  ASSUME RestoreInv, NEW o \in Touched
  PROVE  o \in Offset /\ Delivered(o) > 0
<1>1. o \in Offset /\ (handled[o] > 0 \/ \E st \in Stage : inv[o][st] > 0)
  BY DEF Touched, Calls
<1>2. handled[o] \in Nat /\ \A st \in 1..5 : inv[o][st] \in Nat
  BY <1>1 DEF RestoreInv, StateInv, Stage
<1>3. handled[o] > 0 => Delivered(o) > 0
  BY <1>2 DEF Delivered
<1>4. CASE \E st \in Stage : inv[o][st] > 0
  <2>1. PICK st \in 1..5 : inv[o][st] > 0
    BY <1>4 DEF Stage
  <2>2. CASE st = 1
    BY <1>1, <1>2, <2>1, <2>2 DEF Delivered
  <2>3. CASE st \in 2..5
    <3>5. \A s \in 2..5 : inv[o][s] <= Later(o) /\ inv[o][s] \in Nat
      BY <1>2 DEF Later
    <3>6. Later(o) \in Nat
      BY <1>2 DEF Later
    <3>1. Later(o) > 0
      BY <2>1, <2>3, <3>5, <3>6
    <3>2. Later(o) <= handled[o] /\ Later(o) \in Nat
      BY <1>1, <3>6 DEF RestoreInv, CountInv, Last
    <3>3. handled[o] > 0
      BY <1>2, <3>1, <3>2
    <3>4. QED BY <1>1, <1>3, <3>3
  <2>4. QED BY <2>2, <2>3
<1>5. QED BY <1>1, <1>3, <1>4

\* A restoreResponse tells an offset at or behind the end of the topic that
\* the command saw, and its message has been handled.
THEOREM ResponseTrue == Spec => []ResponseIsLast
<1>1. RestoreInv => ResponseIsLast
  BY DEF RestoreInv, StateInv, CountInv, Last, ResponseIsLast
<1>2. QED BY <1>1, RestoreInvHolds, PTL

-----------------------------------------------------------------------------
(***************************************************************************)
(* How often a message is handled.  k is the number of times the consumer  *)
(* of an event has been reset; it is known while the loop goes on.  Before *)
(* the first reset a consumer reads from where it began, later from the    *)
(* requested offset.                                                       *)
(***************************************************************************)
Index(e) == IF e = "Created" THEN 1 ELSE IF e = "Modified" THEN 2 ELSE 3

\* The resets after which an event gets its listener, and the first that lets
\* the listener see the topic from the requested offset on.
Before(e) == IF perEvent THEN 0 ELSE Index(e) - 1
First(e) == IF perEvent \/ e # "Deleted" THEN 1 ELSE 2
Done(e) == IF perEvent THEN (IF turn > Index(e) THEN 1 ELSE 0) ELSE turn - 1
Most == IF perEvent THEN 1 ELSE 3

\* The calls for offset o of event e there can be after k resets.
Backlog(o, e, k) ==
  IF Before(e) = 0 /\ o >= began[ConsumerOf(e)] /\ (k > 0 \/ cursor[ConsumerOf(e)] > o)
  THEN 1 ELSE 0
Sought(o, e, k) ==
  IF o < base \/ k < First(e) THEN 0
  ELSE k - First(e) + IF cursor[ConsumerOf(e)] > o THEN 1 ELSE 0

Phase(e, k) ==
  /\ k <= Most /\ (turn # 5 => k = Done(e))
  /\ IF k = 0 THEN cursor[ConsumerOf(e)] >= began[ConsumerOf(e)]
              ELSE cursor[ConsumerOf(e)] >= base
  /\ e \in listening => k >= Before(e)
  /\ \A o \in Offset : o < Len(log) /\ At(o) = e =>
       Delivered(o) <= Backlog(o, e, k) + Sought(o, e, k)

PhaseInv == \A e \in Restorable : \E k \in Nat : Phase(e, k)

LEMMA IndexName ==
  /\ \A e \in Restorable : Index(e) \in 1..3 /\ EventNames[Index(e)] = e
  /\ \A n \in 1..3 : Index(EventNames[n]) = n
  BY DEF Index, EventNames, Restorable

LEMMA PhaseTypes ==
  ASSUME RestoreInv, NEW e \in Restorable
  PROVE  /\ ConsumerOf(e) \in Consumer /\ Index(e) \in 1..3
         /\ cursor[ConsumerOf(e)] \in Nat /\ began[ConsumerOf(e)] \in Nat
         /\ base \in Nat /\ Len(log) \in Nat /\ turn \in 1..5
         /\ perEvent \in BOOLEAN
         /\ \A o \in Offset : o \in Nat /\ Delivered(o) \in Nat
<1>1. \A o \in Offset : o \in Nat /\ handled[o] \in Nat /\ inv[o][1] \in Nat
  BY Sizes DEF RestoreInv, StateInv, Stage
<1>2. \A o \in Offset : Delivered(o) \in Nat
  BY <1>1 DEF Delivered
<1>3. ConsumerOf(e) \in Consumer /\ Index(e) \in 1..3
  BY ConsumerType, IndexName
<1>4. QED BY <1>1, <1>2, <1>3 DEF RestoreInv, TopicInv, StateInv

\* Handling, answering and removing start no call.
LEMMA CallSteps ==
  ASSUME RestoreInv, NEW o \in Offset, NEW st \in Stage,
         Handle(o) \/ Respond(o) \/ Remove(o, st)
  PROVE  \A x \in Offset : Delivered(x)' = Delivered(x)
<1>1. CASE Handle(o)
  BY <1>1, HandleCounts DEF RestoreInv, Delivered
<1>2. CASE Respond(o)
  <2>1. 2 \in 2..5 /\ 2 < 5 /\ inv[o][2] > 0 /\ (Goes(o, 2, 2 + 1) \/ Ends(o, 2))
    BY <1>2 DEF Respond
  <2>2. \A x \in Offset : inv'[x][1] = inv[x][1]
    BY <2>1, LaterCounts DEF RestoreInv
  <2>3. QED BY <2>2, <1>2 DEF Delivered, Respond, doneVars
<1>3. CASE Remove(o, st)
  <2>1. st \in 2..5 /\ inv[o][st] > 0 /\ ((st < 5 /\ Goes(o, st, st + 1)) \/ Ends(o, st))
    BY <1>3 DEF Remove, Stage
  <2>2. \A x \in Offset : inv'[x][1] = inv[x][1]
    BY <2>1, LaterCounts DEF RestoreInv
  <2>3. QED BY <2>2, <1>3 DEF Delivered, Remove, doneVars
<1>4. QED BY <1>1, <1>2, <1>3

LEMMA PhaseInit == Init => PhaseInv
<1> SUFFICES ASSUME Init, NEW e \in Restorable PROVE Phase(e, 0)
  BY DEF PhaseInv
<1>1. RestoreInv
  BY RestoreInit
<1>2. \A o \in Offset : Delivered(o) = 0
  BY DEF Init, Delivered, Stage
<1>3. /\ cursor[ConsumerOf(e)] = began[ConsumerOf(e)] /\ turn = 1 /\ listening = {}
      /\ cursor[ConsumerOf(e)] \in Nat /\ Index(e) \in 1..3
  BY <1>1, PhaseTypes DEF Init
<1>4. /\ 0 <= Most /\ Done(e) = 0
  BY <1>3 DEF Most, Done
<1>5. \A o \in Offset : 0 <= Backlog(o, e, 0) + Sought(o, e, 0)
  BY DEF Backlog, Sought, First
<1>6. QED BY <1>2, <1>3, <1>4, <1>5 DEF Phase

\* A step that starts no call and moves no consumer.
LEMMA PhaseKept ==
  ASSUME RestoreInv, NEW e \in Restorable, NEW k \in Nat, Phase(e, k),
         UNCHANGED <<perEvent, base, began, cursor>>,
         turn' = turn \/ turn' = 5,
         e \in listening' => e \in listening \/ k >= Before(e),
         \A o \in Offset : Delivered(o)' = Delivered(o),
         \A o \in Offset : Delivered(o) > 0 /\ o < Len(log)' => o < Len(log) /\ At(o)' = At(o)
  PROVE  Phase(e, k)'
<1>1. /\ Most' = Most /\ Before(e)' = Before(e) /\ First(e)' = First(e)
      /\ ConsumerOf(e)' = ConsumerOf(e)
  BY DEF Most, Before, First, ConsumerOf
<1>2. turn' # 5 => Done(e)' = Done(e)
  BY DEF Done
<1>3. \A o \in Offset : Backlog(o, e, k)' = Backlog(o, e, k) /\ Sought(o, e, k)' = Sought(o, e, k)
  BY <1>1 DEF Backlog, Sought
<1>4. \A o \in Offset : Backlog(o, e, k) + Sought(o, e, k) \in Nat
  BY PhaseTypes DEF Backlog, Sought, First
<1>5. ASSUME NEW o \in Offset, o < Len(log)', At(o)' = e
      PROVE  Delivered(o) <= Backlog(o, e, k) + Sought(o, e, k)
  <2>1. CASE Delivered(o) = 0
    BY <2>1, <1>4
  <2>2. CASE Delivered(o) # 0
    BY <2>2, <1>5, PhaseTypes DEF Phase
  <2>3. QED BY <2>1, <2>2
<1>6. k <= Most' /\ (turn' # 5 => k = Done(e)')
  BY <1>1, <1>2 DEF Phase
<1>7. IF k = 0 THEN cursor'[ConsumerOf(e)'] >= began'[ConsumerOf(e)']
               ELSE cursor'[ConsumerOf(e)'] >= base'
  BY <1>1 DEF Phase
<1>8. e \in listening' => k >= Before(e)'
  BY <1>1 DEF Phase
<1>9. \A o \in Offset : o < Len(log)' /\ At(o)' = e =>
        Delivered(o)' <= Backlog(o, e, k)' + Sought(o, e, k)'
  BY <1>3, <1>5
<1>10. QED BY <1>6, <1>7, <1>8, <1>9 DEF Phase

\* A reset: what the consumer hands out again is allowed once more.
LEMMA PhaseReset ==
  ASSUME RestoreInv, Reset, NEW e \in Restorable, NEW k \in Nat, Phase(e, k)
  PROVE  \E n \in Nat : Phase(e, n)'
<1> DEFINE c == ConsumerOf(e)
<1>1. /\ c \in Consumer /\ Index(e) \in 1..3 /\ cursor[c] \in Nat /\ began[c] \in Nat
      /\ base \in Nat /\ turn \in 1..3 /\ turn' = turn + 1 /\ perEvent \in BOOLEAN
      /\ \A o \in Offset : o \in Nat /\ Delivered(o) \in Nat
  BY PhaseTypes DEF Reset
<1>2. UNCHANGED <<perEvent, base, began, log, listening, inv, handled>>
  BY DEF Reset, constVars, doneVars
<1>3. /\ Most' = Most /\ Before(e)' = Before(e) /\ First(e)' = First(e) /\ c' = c
      /\ \A o \in Offset : Delivered(o)' = Delivered(o) /\ At(o)' = At(o)
  BY <1>2 DEF Most, Before, First, ConsumerOf, Delivered, At
<1>4. k = Done(e) /\ k <= Most
  BY <1>1 DEF Phase
<1>5. CASE perEvent /\ EventNames[turn] # e
  <2>1. cursor'[c] = cursor[c]
    BY <1>1, <1>5 DEF Reset, ConsumerOf, RestoreInv, TopicInv
  <2>2. Index(e) # turn
    BY <1>5, IndexName
  <2>3. Done(e)' = Done(e)
    BY <1>1, <1>2, <1>5, <2>2 DEF Done
  <2>4. \A o \in Offset : /\ Backlog(o, e, k)' = Backlog(o, e, k)
                          /\ Sought(o, e, k)' = Sought(o, e, k)
    BY <1>2, <1>3, <2>1 DEF Backlog, Sought
  <2>5. Phase(e, k)'
    BY <1>2, <1>3, <1>4, <2>1, <2>3, <2>4 DEF Phase
  <2>6. QED BY <2>5
<1>6. CASE ~(perEvent /\ EventNames[turn] # e)
  <2>1. cursor'[c] = base
    BY <1>1, <1>6 DEF Reset, ResetTo, ConsumerOf, RestoreInv, TopicInv
  <2>2. Done(e)' = k + 1 /\ k + 1 <= Most'
    <3>1. CASE perEvent
      <4>1. Index(e) = turn
        BY <1>1, <1>6, <3>1, IndexName
      <4>2. QED BY <1>1, <1>2, <1>4, <3>1, <4>1 DEF Done, Most
    <3>2. CASE ~perEvent
      BY <1>1, <1>2, <1>4, <3>2 DEF Done, Most
    <3>3. QED BY <3>1, <3>2
  <2>3. ASSUME NEW o \in Offset, o < Len(log)', At(o)' = e
        PROVE  Delivered(o)' <= Backlog(o, e, k + 1)' + Sought(o, e, k + 1)'
    <3>1. Delivered(o) <= Backlog(o, e, k) + Sought(o, e, k)
      BY <1>2, <1>3, <2>3 DEF Phase
    <3>2. First(e) \in 1..2
      BY DEF First
    <3>3. Backlog(o, e, k) \in Nat /\ Backlog(o, e, k)' \in Nat
      BY DEF Backlog
    <3>4. Backlog(o, e, k) <= Backlog(o, e, k + 1)'
      BY <1>2, <1>3 DEF Backlog
    <3>5. Sought(o, e, k) <= Sought(o, e, k + 1)'
      BY <1>1, <1>2, <1>3, <3>2 DEF Sought
    <3>6. /\ Backlog(o, e, k) \in Nat /\ Backlog(o, e, k + 1)' \in Nat
          /\ Sought(o, e, k) \in Nat /\ Sought(o, e, k + 1)' \in Nat
      BY <1>1, <1>3, <3>2 DEF Backlog, Sought
    <3>7. QED BY <1>1, <1>3, <3>1, <3>4, <3>5, <3>6
  <2>4. Before(e) \in Nat
    BY <1>1 DEF Before
  <2>5. e \in listening' => k + 1 >= Before(e)'
    BY <1>2, <1>3, <2>4 DEF Phase
  <2>6. Phase(e, k + 1)'
    BY <1>1, <1>2, <1>3, <2>1, <2>2, <2>3, <2>5 DEF Phase
  <2>7. QED BY <2>6
<1>7. QED BY <1>5, <1>6

\* A delivery starts a call only for a listener that is there, and at an
\* offset that the consumer has begun at or has been reset to.
LEMMA PhaseDeliver ==
  ASSUME RestoreInv, NEW c \in Consumer, Deliver(c),
         NEW e \in Restorable, NEW k \in Nat, Phase(e, k)
  PROVE  Phase(e, k)'
<1> PICK o : o = cursor[c]
  OBVIOUS
<1> DEFINE d == ConsumerOf(e)
<1>1. /\ o \in Offset /\ o < Len(log) /\ o \in Nat
      /\ inv' \in [Offset -> [Stage -> Nat]]
      /\ \A x \in Offset \ {o} : inv'[x] = inv[x]
      /\ Taken(c, o) => inv'[o][1] = inv[o][1] + 1
      /\ ~Taken(c, o) => inv'[o] = inv[o]
      /\ cursor'[c] = o + 1
      /\ \A x \in Consumer \ {c} : cursor'[x] = cursor[x]
  BY Delivers, Sizes
<1>2. UNCHANGED <<perEvent, base, began, log, turn, listening, handled>>
  BY DEF Deliver, constVars, doneVars
<1>3. /\ d \in Consumer /\ Index(e) \in 1..3 /\ cursor[d] \in Nat /\ began[d] \in Nat
      /\ base \in Nat /\ perEvent \in BOOLEAN
      /\ \A x \in Offset : x \in Nat /\ Delivered(x) \in Nat
  BY PhaseTypes
<1>4. /\ Most' = Most /\ Before(e)' = Before(e) /\ First(e)' = First(e) /\ d' = d
      /\ Done(e)' = Done(e) /\ \A x \in Offset : At(x)' = At(x)
  BY <1>2 DEF Most, Before, First, ConsumerOf, Done, At
<1>5. cursor'[d] \in Nat /\ cursor[d] <= cursor'[d]
  <2>1. CASE d = c
    <3>1. cursor[d] = o /\ cursor'[d] = o + 1
      BY <1>1, <2>1
    <3>2. QED BY <1>1, <3>1
  <2>2. CASE d # c
    <3>1. cursor'[d] = cursor[d]
      BY <1>1, <1>3, <2>2
    <3>2. QED BY <1>3, <3>1
  <2>3. QED BY <2>1, <2>2
<1>6. First(e) \in 1..2 /\ Before(e) \in Nat
  BY <1>3 DEF First, Before
<1>7. ASSUME NEW x \in Offset
      PROVE  /\ Backlog(x, e, k) <= Backlog(x, e, k)' /\ Sought(x, e, k) <= Sought(x, e, k)'
             /\ Backlog(x, e, k) \in Nat /\ Backlog(x, e, k)' \in Nat
             /\ Sought(x, e, k) \in Nat /\ Sought(x, e, k)' \in Nat
  <2>1. x \in Nat /\ (cursor[d] > x => cursor'[d] > x)
    BY <1>3, <1>5
  <2>2. Backlog(x, e, k) <= Backlog(x, e, k)'
    BY <1>2, <1>4, <2>1 DEF Backlog
  <2>3. Sought(x, e, k) <= Sought(x, e, k)'
    BY <1>2, <1>4, <1>6, <2>1 DEF Sought
  <2>4. QED BY <1>4, <1>6, <2>2, <2>3 DEF Backlog, Sought
<1>8. ASSUME NEW x \in Offset, inv'[x] = inv[x], x < Len(log)', At(x)' = e
      PROVE  Delivered(x)' <= Backlog(x, e, k)' + Sought(x, e, k)'
  <2>1. Delivered(x)' = Delivered(x)
    BY <1>2, <1>8, SameCounts
  <2>2. Delivered(x) <= Backlog(x, e, k) + Sought(x, e, k)
    BY <1>2, <1>4, <1>8 DEF Phase
  <2>3. QED BY <1>3, <1>7, <2>1, <2>2
<1>9. ASSUME Taken(c, o), At(o) = e
      PROVE  Delivered(o)' <= Backlog(o, e, k)' + Sought(o, e, k)'
  <2>1. d = c /\ e \in listening
    BY <1>3, <1>9, EventsConsumer DEF Taken
  <2>2. handled[o] \in Nat /\ inv[o][1] \in Nat /\ inv'[o][1] = inv[o][1] + 1
    BY <1>1, <1>9 DEF RestoreInv, StateInv, Stage
  <2>3. Delivered(o)' = Delivered(o) + 1
    BY <1>2, <2>2 DEF Delivered
  <2>4. Delivered(o) <= Backlog(o, e, k) + Sought(o, e, k)
    BY <1>1, <1>9 DEF Phase
  <2>5. k >= Before(e) /\ ~(cursor[d] > o) /\ cursor'[d] > o
    BY <1>1, <2>1 DEF Phase
  <2>6. CASE k = 0
    <3>1. Before(e) = 0 /\ o >= began[d]
      BY <1>6, <2>1, <2>5, <2>6 DEF Phase
    <3>2. Backlog(o, e, k) = 0 /\ Backlog(o, e, k)' = 1
      BY <1>2, <1>4, <2>5, <2>6, <3>1 DEF Backlog
    <3>3. QED BY <1>1, <1>3, <1>7, <2>3, <2>4, <3>2
  <2>7. CASE k # 0
    <3>1. o >= base /\ k >= First(e)
      <4>1. o >= base
        BY <2>1, <2>7 DEF Phase
      <4>2. k >= First(e)
        BY <2>5, <2>7, <1>3 DEF First, Before, Index
      <4>3. QED BY <4>1, <4>2
    <3>2. Sought(o, e, k) = k - First(e) /\ Sought(o, e, k)' = k - First(e) + 1
      BY <1>1, <1>2, <1>3, <1>4, <1>6, <2>5, <3>1 DEF Sought
    <3>3. Sought(o, e, k)' = Sought(o, e, k) + 1
      BY <1>6, <3>2
    <3>4. QED BY <1>1, <1>3, <1>7, <2>3, <2>4, <3>3
  <2>8. QED BY <2>6, <2>7
<1>10. \A x \in Offset : x < Len(log)' /\ At(x)' = e =>
         Delivered(x)' <= Backlog(x, e, k)' + Sought(x, e, k)'
  BY <1>1, <1>4, <1>8, <1>9
<1>11. IF k = 0 THEN cursor'[d] >= began[d] ELSE cursor'[d] >= base
  BY <1>3, <1>5 DEF Phase
<1>12. QED BY <1>2, <1>4, <1>10, <1>11 DEF Phase

LEMMA PhaseStep == RestoreInv /\ PhaseInv /\ [Next]_vars => PhaseInv'
<1> SUFFICES ASSUME RestoreInv, [Next]_vars, NEW e \in Restorable,
                    NEW k \in Nat, Phase(e, k)
             PROVE  \E n \in Nat : Phase(e, n)'
  BY DEF PhaseInv
<1>1. CASE Reset
  BY <1>1, PhaseReset
<1>2. CASE \E c \in Consumer : Deliver(c)
  BY <1>2, PhaseDeliver
<1>3. CASE On
  <2>1. UNCHANGED <<perEvent, base, began, cursor, log, inv, handled, turn>>
    BY <1>3 DEF On, constVars, doneVars
  <2>2. \A x \in Offset : Delivered(x)' = Delivered(x) /\ At(x)' = At(x)
    BY <2>1 DEF Delivered, At
  <2>3. turn \in 1..3 /\ listening' = listening \cup {EventNames[turn]}
    BY <1>3, PhaseTypes DEF On
  <2>4. e \in listening' => e \in listening \/ k >= Before(e)
    <3>1. CASE EventNames[turn] = e
      <4>1. Index(e) = turn /\ k = Done(e)
        BY <2>3, <3>1, IndexName DEF Phase
      <4>2. k >= Before(e)
        BY <2>3, <4>1, PhaseTypes DEF Done, Before
      <4>3. QED BY <4>2
    <3>2. CASE EventNames[turn] # e
      BY <2>3, <3>2
    <3>3. QED BY <3>1, <3>2
  <2>5. QED BY <2>1, <2>2, <2>4, PhaseKept
<1>4. CASE RestoreFails \/ UNCHANGED vars
  <2>1. UNCHANGED <<perEvent, base, began, cursor, log, inv, handled, listening>>
    BY <1>4 DEF RestoreFails, vars, constVars, doneVars
  <2>2. \A x \in Offset : Delivered(x)' = Delivered(x) /\ At(x)' = At(x)
    BY <2>1 DEF Delivered, At
  <2>3. turn' = turn \/ turn' = 5
    BY <1>4 DEF RestoreFails, vars
  <2>4. QED BY <2>1, <2>2, <2>3, PhaseKept
<1>5. CASE \E x \in OnTopic : Live(x)
  <2>1. PICK x \in Event : log' = Append(log, x)
    BY <1>5, RestoreAssumption DEF Live
  <2>2. UNCHANGED <<perEvent, base, began, cursor, inv, handled, turn, listening>>
    BY <1>5 DEF Live, constVars, doneVars
  <2>3. \A o \in Offset : Delivered(o)' = Delivered(o)
    BY <2>2 DEF Delivered
  <2>4. ASSUME NEW o \in Offset, Delivered(o) > 0
        PROVE  o < Len(log) /\ At(o)' = At(o)
    <3>1. o < Len(log) /\ o \in Nat /\ log \in Seq(Event) /\ Len(log) \in Nat
      BY <2>4, Sizes DEF RestoreInv, TopicInv, CountInv, Asked
    <3>2. QED BY <2>1, <3>1 DEF At
  <2>5. QED BY <2>2, <2>3, <2>4, PhaseKept
<1>6. CASE \E o \in Offset, st \in Stage : Handle(o) \/ Respond(o) \/ Remove(o, st)
  <2>1. UNCHANGED <<perEvent, base, began, cursor, log, turn>> /\ listening' \subseteq listening
    BY <1>6 DEF Handle, Respond, Remove, constVars
  <2>2. \A o \in Offset : Delivered(o)' = Delivered(o) /\ At(o)' = At(o)
    BY <1>6, <2>1, CallSteps DEF At
  <2>3. QED BY <2>1, <2>2, PhaseKept
<1>7. 1 \in Stage
  BY DEF Stage
<1>8. QED BY <1>1, <1>2, <1>3, <1>4, <1>5, <1>6, <1>7 DEF Next

LEMMA PhaseInvHolds == Spec => []PhaseInv
  BY PhaseInit, PhaseStep, RestoreInvHolds, PTL DEF Spec

\* What a message has been started, in terms of the property.
LEMMA DeliveredBounded ==
  ASSUME RestoreInv, PhaseInv, NEW o \in Offset, Delivered(o) > 0
  PROVE  /\ o \notin ignore /\ At(o) \in Restorable
         /\ Delivered(o) <= (IF o >= base THEN Replays(At(o)) ELSE 0)
                             + (IF Unread(o) THEN 1 ELSE 0)
<1>1. o < Len(log) /\ o \notin ignore /\ At(o) \in Restorable
  BY DEF RestoreInv, CountInv, Asked
<1> DEFINE e == At(o)
<1>2. PICK k \in Nat : Phase(e, k)
  BY <1>1 DEF PhaseInv
<1>3. /\ Index(e) \in 1..3 /\ cursor[ConsumerOf(e)] \in Nat /\ began[ConsumerOf(e)] \in Nat
      /\ base \in Nat /\ perEvent \in BOOLEAN /\ o \in Nat /\ Delivered(o) \in Nat
  BY <1>1, PhaseTypes
<1>4. Delivered(o) <= Backlog(o, e, k) + Sought(o, e, k) /\ k <= Most
  BY <1>1, <1>2 DEF Phase
<1>5. First(e) \in 1..2 /\ Most - First(e) + 1 = Replays(e)
  BY <1>3 DEF First, Most, Replays
<1>6. Before(e) = 0 => perEvent \/ e = "Created"
  BY <1>1, <1>3 DEF Before, Index
<1>7. Backlog(o, e, k) \in Nat /\ Backlog(o, e, k) <= (IF Unread(o) THEN 1 ELSE 0)
  BY <1>6 DEF Backlog, Unread
<1>8. Most \in Nat
  BY DEF Most
<1>9. Sought(o, e, k) \in Nat /\ Sought(o, e, k) <= (IF o >= base THEN Replays(e) ELSE 0)
  <2>1. CASE o < base \/ k < First(e)
    <3>1. Sought(o, e, k) = 0
      BY <2>1 DEF Sought
    <3>2. QED BY <3>1 DEF Replays
  <2>2. CASE ~(o < base \/ k < First(e))
    <3>1. o >= base /\ k >= First(e)
      BY <1>3, <1>5, <2>2
    <3>2. Sought(o, e, k) = k - First(e) \/ Sought(o, e, k) = k - First(e) + 1
      BY <1>3, <1>5, <2>2 DEF Sought
    <3>3. QED BY <1>4, <1>5, <1>8, <3>1, <3>2
  <2>3. QED BY <2>1, <2>2
<1>10. /\ (IF o >= base THEN Replays(e) ELSE 0) \in Nat
       /\ (IF Unread(o) THEN 1 ELSE 0) \in Nat
  BY DEF Replays
<1>11. QED BY <1>1, <1>3, <1>4, <1>7, <1>9, <1>10

\* Only messages the command asked for are handled, and what a consumer that
\* was behind hands out before its first reset, wherever the consumers stood
\* and whatever the services emit meanwhile.
THEOREM OnlyAskedForTrue == Spec => []OnlyAskedFor
<1>1. RestoreInv /\ PhaseInv => OnlyAskedFor
  <2> SUFFICES ASSUME RestoreInv, PhaseInv, NEW o \in Touched
               PROVE  o \notin ignore /\ At(o) \in Restorable /\ (o >= base \/ Unread(o))
    BY DEF OnlyAskedFor
  <2>1. o \in Offset /\ Delivered(o) > 0
    BY TouchedDelivered
  <2>2. At(o) \in Restorable
    BY <2>1, DeliveredBounded
  <2>3. Delivered(o) \in Nat
    BY <2>1, <2>2, PhaseTypes
  <2>4. QED BY <2>1, <2>3, DeliveredBounded
<1>2. QED BY <1>1, RestoreInvHolds, PhaseInvHolds, PTL

\* No message is handled more often than its listener sees the topic, and
\* once more if its consumer had not read it: with one consumer or with one
\* for each event, while resets, removals and live messages cross.
THEOREM ReplaysBoundedTrue == Spec => []ReplaysBounded
<1>1. RestoreInv /\ PhaseInv => ReplaysBounded
  <2> SUFFICES ASSUME RestoreInv, PhaseInv, NEW o \in Touched
               PROVE  handled[o] <= (IF o >= base THEN Replays(At(o)) ELSE 0)
                                    + (IF Unread(o) THEN 1 ELSE 0)
    BY DEF ReplaysBounded
  <2>1. o \in Offset /\ Delivered(o) > 0
    BY TouchedDelivered
  <2>2. handled[o] \in Nat /\ inv[o][1] \in Nat
    BY <2>1 DEF RestoreInv, StateInv, Stage
  <2>3. handled[o] <= Delivered(o) /\ Delivered(o) \in Nat
    BY <2>2 DEF Delivered
  <2>4. /\ (IF o >= base THEN Replays(At(o)) ELSE 0) \in Nat
        /\ (IF Unread(o) THEN 1 ELSE 0) \in Nat
    BY DEF Replays
  <2>5. QED BY <2>1, <2>2, <2>3, <2>4, DeliveredBounded
<1>2. QED BY <1>1, RestoreInvHolds, PhaseInvHolds, PTL

-----------------------------------------------------------------------------
(* Types: no message has more calls at a stage than it can be handled.     *)

StoredType == stored \in [Collection -> {"absent", "created", "modified"}]

LEMMA StoredStep == RestoreInv /\ StoredType /\ [Next]_vars => StoredType'
<1> SUFFICES ASSUME RestoreInv, StoredType, [Next]_vars PROVE StoredType'
  OBVIOUS
<1>1. CASE \E o \in Offset : Handle(o)
  <2>1. PICK o \in Offset : Handle(o)
    BY <1>1
  <2>2. At(o) \in Restorable
    BY <2>1, HandleCounts DEF RestoreInv, CountInv, Asked
  <2>3. QED BY <2>1, <2>2 DEF Handle, After, StoredType, Restorable, Collection
<1>2. CASE UNCHANGED stored
  BY <1>2 DEF StoredType
<1>3. QED BY <1>1, <1>2 DEF Next, On, Reset, RestoreFails, Deliver, Live, Respond,
                            Remove, vars, doneVars

LEMMA StagesBounded ==
  ASSUME RestoreInv, PhaseInv, NEW o \in Offset, NEW st \in Stage
  PROVE  inv[o][st] \in 0..4
<1>1. /\ handled[o] \in Nat /\ \A s \in 1..5 : inv[o][s] \in Nat
      /\ Delivered(o) \in Nat /\ Later(o) \in Nat
  BY DEF RestoreInv, StateInv, Stage, Delivered, Later
<1>2. /\ (IF o >= base THEN Replays(At(o)) ELSE 0) \in 0..3
      /\ (IF Unread(o) THEN 1 ELSE 0) \in 0..1
  BY DEF Replays
<1>3. Delivered(o) > 0 => Delivered(o) <= 4
  BY <1>1, <1>2, DeliveredBounded
<1>4. inv[o][1] <= 4 /\ handled[o] <= 4
  BY <1>1, <1>3 DEF Delivered
<1>5. \A s \in 2..5 : inv[o][s] <= Later(o)
  BY <1>1 DEF Later
<1>6. Later(o) <= handled[o]
  BY DEF RestoreInv, CountInv, Last
<1>7. CASE st = 1
  BY <1>1, <1>4, <1>7
<1>8. CASE st \in 2..5
  <2>1. inv[o][st] \in Nat /\ inv[o][st] <= Later(o)
    BY <1>1, <1>5, <1>8
  <2>2. QED BY <2>1, <1>1, <1>4, <1>6
<1>9. QED BY <1>7, <1>8 DEF Stage

\* Type correctness; no message has more than four calls at a stage.
THEOREM TypeTrue == Spec => []RestoreTypeOK
<1>1. Init => StoredType
  BY DEF Init, StoredType
<1>2. RestoreInv /\ PhaseInv /\ StoredType => RestoreTypeOK
  <2> SUFFICES ASSUME RestoreInv, PhaseInv, StoredType PROVE RestoreTypeOK
    OBVIOUS
  <2>1. inv \in [Offset -> [Stage -> 0..4]]
    <3>1. \A o \in Offset : inv[o] \in [Stage -> 0..4]
      BY StagesBounded DEF RestoreInv, StateInv
    <3>2. QED BY <3>1 DEF RestoreInv, StateInv
  <2>2. /\ Len(log) \in Nat /\ Len(log) <= MaxLog + MaxLive
        /\ base \in 0..MaxLog /\ target \in -1..(MaxLog - 1)
    BY Sizes DEF RestoreInv, TopicInv
  <2>3. \A c \in Consumer : cursor[c] \in 0..(MaxLog + MaxLive)
    BY <2>2, Sizes DEF RestoreInv, TopicInv
  <2>4. cursor \in [Consumer -> 0..(MaxLog + MaxLive)]
    BY <2>3 DEF RestoreInv, TopicInv
  <2>5. \A c \in Consumer : began[c] \in 0..MaxLog
    BY <2>2, Sizes DEF RestoreInv, TopicInv
  <2>6. began \in [Consumer -> 0..MaxLog]
    BY <2>5 DEF RestoreInv, TopicInv
  <2>7. QED BY <2>1, <2>2, <2>4, <2>6, Zenon DEF RestoreInv, TopicInv, StateInv, StoredType,
                                          RestoreTypeOK
<1>3. QED BY <1>1, <1>2, StoredStep, RestoreInvHolds, PhaseInvHolds, PTL DEF Spec

-----------------------------------------------------------------------------
(***************************************************************************)
(* One consumer that waits, nothing emitted since the command began, and   *)
(* the last message not one that the Created listener gets before a reset: *)
(* the consumer has not been reset yet; or every message to be restored    *)
(* before it has been started, and the last one only after all others have *)
(* been handled; or all of them have.                                      *)
(***************************************************************************)
Created == Wanted("Created")

NotBegun ==
  /\ turn \in {1, 5} /\ responses = {}
  /\ cursor["topic"] >= began["topic"] /\ listening \subseteq {"Created"}
  /\ turn = 1 /\ registered => "Created" \in listening
  /\ \A o \in Offset : Calls(o) \subseteq {1} /\ (o = target => Calls(o) = {})

Sweeps ==
  /\ turn # 1 /\ "Created" \in listening /\ responses = {}
  /\ \A o \in Offset : Calls(o) \subseteq {1}
  /\ \A o \in Created : o < cursor["topic"] => handled[o] > 0 \/ inv[o][1] > 0
  /\ \A t \in Offset : t = target /\ inv[t][1] > 0 =>
       \A o \in Created : o = target \/ handled[o] > 0

Swept == \A o \in Created : handled[o] > 0

AsSeen == /\ ~perEvent /\ awaited /\ Len(log) = target + 1
          /\ ~(At(target) = "Created" /\ Unread(target))

SweepInv == AsSeen => NotBegun \/ Sweeps \/ Swept

\* No handled message is forgotten; what is to be restored stays the same
\* while the services emit nothing.
LEMMA HandledStays ==
  ASSUME RestoreInv, [Next]_vars, NEW o \in Offset, handled[o] > 0
  PROVE  handled'[o] > 0
<1>1. CASE \E x \in Offset : Handle(x)
  <2>1. PICK x \in Offset : Handle(x)
    BY <1>1
  <2>2. handled[o] <= handled'[o] /\ handled'[o] \in Nat
    BY <2>1, HandleCounts DEF RestoreInv
  <2>3. QED BY <2>2 DEF RestoreInv, StateInv
<1>2. CASE handled' = handled
  BY <1>2
<1>3. QED BY <1>1, <1>2 DEF Next, On, Reset, RestoreFails, Deliver, Live, Respond,
                            Remove, vars, doneVars

LEMMA SeenBefore ==
  ASSUME RestoreInv, [Next]_vars, AsSeen'
  PROVE  /\ AsSeen /\ log' = log /\ target' = target /\ Created' = Created
         /\ \A e \in OnTopic : ~Live(e)
<1>1. /\ log \in Seq(Event) /\ Len(log) \in Nat /\ target \in Int
      /\ target < Len(log)
  BY DEF RestoreInv, TopicInv
<1>2. UNCHANGED constVars
  BY DEF Next, On, Reset, RestoreFails, Deliver, Live, Handle, Respond, Remove, vars
<1>3. ASSUME NEW e \in OnTopic, Live(e) PROVE FALSE
  <2>1. e \in Event
    BY RestoreAssumption
  <2>2. Len(log') = Len(log) + 1
    BY <1>1, <1>3, <2>1 DEF Live
  <2>3. Len(log') = target + 1
    BY <1>2 DEF AsSeen, constVars
  <2>4. QED BY <1>1, <2>2, <2>3
<1>4. log' = log
  BY <1>3 DEF Next, On, Reset, RestoreFails, Deliver, Handle, Respond, Remove, vars
<1>5. QED BY <1>2, <1>3, <1>4 DEF AsSeen, constVars, Created, Wanted, At, Unread,
                                  ConsumerOf

LEMMA CreatedOffsets ==
  ASSUME RestoreInv
  PROVE  \A o \in Created :
           /\ o \in Offset /\ o \in Nat /\ o <= target /\ o >= base
           /\ o \notin ignore /\ At(o) = "Created"
<1>1. /\ target \in -1..(MaxLog - 1) /\ base \in Nat
      /\ MaxLog \in Nat /\ MaxLive \in Nat
  BY Sizes DEF RestoreInv, TopicInv
<1>2. QED BY <1>1 DEF Created, Wanted, Offset

\* The loop of restore(): the first reset starts to replay the topic.
LEMMA SweepLoop ==
  ASSUME RestoreInv, AsSeen, On \/ Reset \/ RestoreFails, Created' = Created
  PROVE  /\ NotBegun => NotBegun' \/ Sweeps'
         /\ Sweeps => Sweeps'
<1>1. turn \in 1..3 /\ registered \in BOOLEAN
  BY DEF RestoreInv, StateInv, On, Reset, RestoreFails
<1>2. UNCHANGED <<constVars, log, inv, handled, responses>>
  BY DEF On, Reset, RestoreFails, doneVars
<1>3. /\ \A o \in Offset : Calls(o)' = Calls(o)
      /\ target' = target
  BY <1>2 DEF Calls, constVars
<1>4. CASE On
  <2>1. /\ turn' = turn /\ cursor' = cursor
        /\ listening' = listening \cup {EventNames[turn]} /\ registered' = TRUE
    BY <1>4 DEF On
  <2>2. turn = 1 => "Created" \in listening'
    BY <2>1 DEF EventNames
  <2>3. NotBegun => NotBegun'
    <3> SUFFICES ASSUME NotBegun PROVE NotBegun'
      OBVIOUS
    <3>1. turn = 1
      BY <1>1 DEF NotBegun
    <3>2. listening' \subseteq {"Created"}
      BY <2>1, <3>1 DEF NotBegun, EventNames
    <3>3. began' = began
      BY <1>2 DEF constVars
    <3>4. QED BY <2>1, <2>2, <3>2, <3>3, <1>2, <1>3 DEF NotBegun
  <2>4. Sweeps => Sweeps'
    BY <2>1, <1>2, <1>3 DEF Sweeps
  <2>5. QED BY <2>3, <2>4
<1>5. CASE Reset
  <2>1. /\ turn' = turn + 1 /\ registered = TRUE /\ listening' = listening
        /\ cursor'["topic"] = base
    BY <1>5 DEF Reset, ResetTo, ConsumerOf, AsSeen, RestoreInv, TopicInv, Consumer
  <2>2. \A o \in Created : ~(o < cursor'["topic"])
    BY <2>1, CreatedOffsets DEF RestoreInv, TopicInv
  <2>3. turn' # 1
    BY <1>1, <2>1
  <2>4. NotBegun => Sweeps'
    <3> SUFFICES ASSUME NotBegun PROVE Sweeps'
      OBVIOUS
    <3>1. "Created" \in listening' /\ responses' = {}
      BY <1>1, <1>2, <2>1 DEF NotBegun
    <3>2. \A o \in Offset : Calls(o)' \subseteq {1} /\ (o = target' => ~(inv'[o][1] > 0))
      BY <1>2, <1>3 DEF NotBegun, Calls, Stage
    <3>3. QED BY <2>2, <2>3, <3>1, <3>2 DEF Sweeps
  <2>5. Sweeps => Sweeps'
    BY <2>1, <2>2, <2>3, <1>2, <1>3 DEF Sweeps
  <2>6. QED BY <2>4, <2>5
<1>6. CASE RestoreFails
  <2>1. turn' = 5 /\ cursor' = cursor /\ listening' = listening
    BY <1>6 DEF RestoreFails
  <2>2. NotBegun => NotBegun'
    <3>1. began' = began
      BY <1>2 DEF constVars
    <3>2. QED BY <2>1, <3>1, <1>2, <1>3 DEF NotBegun
  <2>3. Sweeps => Sweeps'
    BY <2>1, <1>2, <1>3 DEF Sweeps
  <2>4. QED BY <2>2, <2>3
<1>7. QED BY <1>4, <1>5, <1>6

\* What a delivery of the single consumer does to the calls.
LEMMA OneDelivers ==
  ASSUME RestoreInv, AsSeen, NEW c \in Consumer, Deliver(c), NEW o, o = cursor[c]
  PROVE  /\ c = "topic" /\ EventsOf(c) = Event
         /\ o \in Offset /\ o < Len(log) /\ o \in Nat /\ target \in Int
         /\ inv' \in [Offset -> [Stage -> Nat]]
         /\ \A x \in Offset \ {o} : inv'[x] = inv[x]
         /\ Taken(c, o) => inv'[o][1] = inv[o][1] + 1
         /\ ~Taken(c, o) => inv'[o] = inv[o]
         /\ cursor'[c] = o + 1
         /\ \A s \in Stage \ {1} : inv'[o][s] = inv[o][s]
<1>1. c = "topic" /\ EventsOf(c) = Event
  BY EventsConsumer DEF AsSeen, Deliver, RestoreInv, StateInv
<1>2. target \in Int
  BY Sizes DEF RestoreInv, TopicInv
<1>3. /\ o \in Offset /\ o < Len(log) /\ o \in Nat
      /\ inv' \in [Offset -> [Stage -> Nat]]
      /\ \A x \in Offset \ {o} : inv'[x] = inv[x]
      /\ Taken(c, o) => inv'[o][1] = inv[o][1] + 1
      /\ ~Taken(c, o) => inv'[o] = inv[o]
      /\ cursor'[c] = o + 1
  BY Delivers, Sizes
<1>4. \A s \in Stage \ {1} : inv'[o][s] = inv[o][s]
  <2>1. CASE Taken(c, o)
    <3>1. inv' = [inv EXCEPT ![o][1] = @ + 1]
      BY <2>1 DEF Deliver, Taken, IsIgnored
    <3>2. inv \in [Offset -> [Stage -> Nat]] /\ 1 \in Stage
      BY DEF RestoreInv, StateInv, Stage
    <3>3. QED BY <1>3, <3>1, <3>2, StartsCall
  <2>2. CASE ~Taken(c, o)
    BY <1>3, <2>2
  <2>3. QED BY <2>1, <2>2
<1>5. QED BY <1>1, <1>2, <1>3, <1>4

\* Before the first reset the listener gets what the consumer had not read,
\* and that is not the last message.
LEMMA NotBegunDeliver ==
  ASSUME RestoreInv, AsSeen, NotBegun, NEW c \in Consumer, Deliver(c)
  PROVE  NotBegun'
<1> PICK o : o = cursor[c]
  OBVIOUS
<1>1. /\ c = "topic" /\ EventsOf(c) = Event
      /\ o \in Offset /\ o < Len(log) /\ o \in Nat /\ target \in Int
      /\ inv' \in [Offset -> [Stage -> Nat]]
      /\ \A x \in Offset \ {o} : inv'[x] = inv[x]
      /\ ~Taken(c, o) => inv'[o] = inv[o]
      /\ cursor'[c] = o + 1
      /\ \A s \in Stage \ {1} : inv'[o][s] = inv[o][s]
  BY OneDelivers
<1>2. UNCHANGED <<constVars, log, turn, registered, listening, responses>>
  BY DEF Deliver
<1>3. target' = target /\ began' = began
  BY <1>2 DEF constVars
<1>4. began["topic"] \in Nat /\ o >= began["topic"]
  BY <1>1 DEF NotBegun, RestoreInv, TopicInv
<1>5. o = target => ~Taken(c, o)
  <2> SUFFICES ASSUME o = target, Taken(c, o) PROVE FALSE
    OBVIOUS
  <2>1. At(o) = "Created"
    BY DEF Taken, NotBegun
  <2>2. Unread(o)
    BY <1>4, <2>1 DEF Unread, ConsumerOf, AsSeen
  <2>3. QED BY <2>1, <2>2 DEF AsSeen
<1>6. ASSUME NEW x \in Offset
      PROVE  Calls(x)' \subseteq {1} /\ (x = target => Calls(x)' = {})
  <2>1. CASE inv'[x] = inv[x]
    BY <2>1 DEF NotBegun, Calls
  <2>2. CASE inv'[x] # inv[x]
    <3>1. x = o /\ x # target
      BY <1>1, <1>5, <2>2
    <3>2. QED BY <1>1, <3>1 DEF NotBegun, Calls
  <2>3. QED BY <2>1, <2>2
<1>7. cursor'["topic"] >= began'["topic"]
  BY <1>1, <1>3, <1>4
<1>8. QED BY <1>2, <1>3, <1>6, <1>7 DEF NotBegun

\* Once it has been reset the consumer hands out the next message only when
\* all calls have returned, and that of a Created message to its listener.
LEMMA SweepDeliver ==
  ASSUME RestoreInv, AsSeen, Sweeps, NEW c \in Consumer, Deliver(c), Created' = Created
  PROVE  Sweeps'
<1> PICK o : o = cursor[c]
  OBVIOUS
<1>1. /\ o \in Offset /\ o < Len(log) /\ o \in Nat /\ target \in Int
      /\ inv' \in [Offset -> [Stage -> Nat]]
      /\ \A x \in Offset \ {o} : inv'[x] = inv[x]
      /\ Taken(c, o) => inv'[o][1] = inv[o][1] + 1
      /\ ~Taken(c, o) => inv'[o] = inv[o]
      /\ cursor'[c] = o + 1
      /\ \A s \in Stage \ {1} : inv'[o][s] = inv[o][s]
  BY OneDelivers
<1>2. c = "topic" /\ EventsOf(c) = Event
  BY OneDelivers
<1>4. UNCHANGED <<constVars, log, turn, listening, handled, responses>>
  BY DEF Deliver, doneVars
<1>5. target' = target /\ \A x \in Offset : inv[x] \in [Stage -> Nat]
  BY <1>4 DEF constVars, RestoreInv, StateInv
<1>6. \A x \in Offset : Calls(x) = {}
  <2> SUFFICES ASSUME NEW x \in Offset, Calls(x) # {} PROVE FALSE
    OBVIOUS
  <2>1. At(x) \notin Event
    BY <1>2 DEF Deliver, AsSeen, Idle
  <2>2. x \in Touched
    BY DEF Touched
  <2>3. At(x) \in Restorable
    BY <2>2, TouchedDelivered DEF RestoreInv, CountInv, Asked
  <2>4. QED BY <2>1, <2>3 DEF Event
<1>7. \A x \in Offset : inv[x][1] = 0
  BY <1>5, <1>6 DEF Calls, Stage
<1>8. \A x \in Created : x < o => handled[x] > 0
  BY <1>2, <1>7, CreatedOffsets DEF Sweeps
<1>9. o \in Created => inv'[o][1] > 0
  <2>1. ASSUME o \in Created PROVE Taken(c, o)
    BY <1>2, <2>1, CreatedOffsets DEF Taken, Sweeps, Event, Restorable
  <2>2. QED BY <1>1, <1>7, <2>1
<1>10. \A x \in Offset : Calls(x)' \subseteq {1}
  <2> SUFFICES ASSUME NEW x \in Offset, NEW s \in Stage, inv'[x][s] > 0 PROVE s = 1
    BY DEF Calls
  <2>1. s # 1 => inv'[x][s] = inv[x][s]
    BY <1>1
  <2>2. QED BY <2>1, <1>6 DEF Calls
<1>11. \A x \in Created' : x < cursor'["topic"] => handled'[x] > 0 \/ inv'[x][1] > 0
  <2> SUFFICES ASSUME NEW x \in Created, x < o + 1
               PROVE  handled[x] > 0 \/ inv'[x][1] > 0
    BY <1>1, <1>2, <1>4
  <2>1. x \in Nat /\ (x < o \/ x = o)
    BY <1>1, CreatedOffsets
  <2>2. QED BY <2>1, <1>8, <1>9
<1>12. ASSUME NEW t \in Offset, t = target, inv'[t][1] > 0, NEW x \in Created
       PROVE  x = target \/ handled[x] > 0
  <2>1. t = o
    BY <1>1, <1>7, <1>12
  <2>2. x \in Nat /\ (x < o \/ x = o)
    BY <1>1, <1>12, <2>1, CreatedOffsets
  <2>3. QED BY <2>1, <2>2, <1>8, <1>12
<1>13. QED BY <1>4, <1>5, <1>10, <1>11, <1>12 DEF Sweeps

\* While no call answers, handling a message other than the last ends a call.
LEMMA OneHandles ==
  ASSUME RestoreInv, AsSeen, NEW o \in Offset, Handle(o)
  PROVE  /\ \A x \in Offset : handled[x] \in Nat /\ handled'[x] \in Nat
         /\ \A x \in Offset : handled[x] > 0 => handled'[x] > 0
         /\ handled'[o] > 0 /\ inv[o][1] > 0 /\ 1 \in Stage
         /\ target \in Int /\ o \in Nat
         /\ \A x \in Offset \ {o} : inv'[x] = inv[x] /\ handled'[x] = handled[x]
         /\ o # target => Calls(o)' \subseteq Calls(o)
<1>1. /\ inv' \in [Offset -> [Stage -> Nat]] /\ handled' \in [Offset -> Nat]
      /\ \A x \in Offset : handled[x] <= handled'[x]
      /\ Delivered(o) > 0 /\ handled'[o] = handled[o] + 1
      /\ inv'[o][1] = inv[o][1] - 1
      /\ \A x \in Offset \ {o} : inv'[x] = inv[x] /\ handled'[x] = handled[x]
  BY HandleCounts DEF RestoreInv
<1>2. inv[o][1] > 0 /\ 1 \in Stage /\ o \in Nat /\ target \in Int /\ Len(log) = target + 1
  BY Sizes DEF Handle, Stage, AsSeen, RestoreInv, TopicInv
<1>3. \A x \in Offset : handled[x] \in Nat /\ handled'[x] \in Nat
  BY <1>1 DEF RestoreInv, StateInv
<1>4. o < target + 1
  BY <1>1, <1>2 DEF RestoreInv, CountInv, Asked
<1>5. \A x \in Offset : handled[x] > 0 => handled'[x] > 0
  BY <1>1, <1>3
<1>6. handled'[o] > 0
  BY <1>1, <1>3
<1>7. ASSUME o # target PROVE Calls(o)' \subseteq Calls(o)
  <2>1. ~IsLast(o) /\ Ends(o, 1)
    BY <1>2, <1>4, <1>7 DEF Handle, IsLast
  <2>2. \A s \in Stage \ {1} : inv'[o][s] = inv[o][s]
    BY <1>2, <2>1, EndsMoves DEF RestoreInv, StateInv
  <2>3. QED BY <1>2, <2>2 DEF Calls
<1>8. QED BY <1>1, <1>2, <1>3, <1>5, <1>6, <1>7

LEMMA NotBegunHandle ==
  ASSUME RestoreInv, AsSeen, NotBegun, NEW o \in Offset, Handle(o)
  PROVE  NotBegun'
<1>1. UNCHANGED <<constVars, log, turn, registered, listening, cursor, responses>>
  BY DEF Handle
<1>2. target' = target /\ began' = began
  BY <1>1 DEF constVars
<1>3. o # target
  BY OneHandles DEF NotBegun, Calls
<1>4. \A x \in Offset : Calls(x)' \subseteq Calls(x)
  <2>1. \A x \in Offset \ {o} : Calls(x)' = Calls(x)
    BY OneHandles DEF Calls
  <2>2. QED BY <1>3, <2>1, OneHandles
<1>5. QED BY <1>1, <1>2, <1>4 DEF NotBegun

\* The call that handles the last message ends the replay.
LEMMA SweepHandle ==
  ASSUME RestoreInv, AsSeen, Sweeps, NEW o \in Offset, Handle(o), Created' = Created
  PROVE  Sweeps' \/ Swept'
<1>1. /\ \A x \in Offset : handled[x] \in Nat /\ handled'[x] \in Nat
      /\ \A x \in Offset : handled[x] > 0 => handled'[x] > 0
      /\ handled'[o] > 0 /\ inv[o][1] > 0
      /\ target \in Int /\ o \in Nat
      /\ \A x \in Offset \ {o} : inv'[x] = inv[x] /\ handled'[x] = handled[x]
      /\ o # target => Calls(o)' \subseteq Calls(o)
  BY OneHandles
<1>2. UNCHANGED <<constVars, log, turn, listening, cursor, responses>> /\ target' = target
  BY DEF Handle, constVars
<1>3. CASE o = target
  BY <1>1, <1>3, CreatedOffsets DEF Sweeps, Swept
<1>4. CASE o # target
  <2>1. \A x \in Offset : Calls(x)' \subseteq {1}
    <3>1. \A x \in Offset \ {o} : Calls(x)' = Calls(x)
      BY <1>1 DEF Calls
    <3>2. QED BY <1>1, <1>4, <3>1 DEF Sweeps
  <2>2. \A x \in Created : x < cursor["topic"] => handled'[x] > 0 \/ inv'[x][1] > 0
    BY <1>1, CreatedOffsets DEF Sweeps
  <2>3. \A t \in Offset : t = target /\ inv'[t][1] > 0 =>
          \A x \in Created : x = target \/ handled'[x] > 0
    BY <1>1, <1>4, CreatedOffsets DEF Sweeps
  <2>4. Sweeps'
    BY <1>2, <2>1, <2>2, <2>3 DEF Sweeps
  <2>5. QED BY <2>4
<1>5. QED BY <1>3, <1>4

LEMMA SweepLater ==
  ASSUME NEW o \in Offset, NEW st \in Stage, Respond(o) \/ Remove(o, st)
  PROVE  ~NotBegun /\ ~Sweeps
<1>1. \E s \in Stage : s # 1 /\ inv[o][s] > 0
  BY DEF Respond, Remove, Stage
<1>2. QED BY <1>1 DEF NotBegun, Sweeps, Calls

LEMMA SweepStep == RestoreInv /\ SweepInv /\ [Next]_vars => SweepInv'
<1> SUFFICES ASSUME RestoreInv, SweepInv, [Next]_vars, AsSeen'
             PROVE  NotBegun' \/ Sweeps' \/ Swept'
  BY DEF SweepInv
<1>1. /\ AsSeen /\ log' = log /\ target' = target /\ Created' = Created
      /\ \A e \in OnTopic : ~Live(e)
  BY SeenBefore
<1>2. NotBegun \/ Sweeps \/ Swept
  BY <1>1 DEF SweepInv
<1>3. CASE Swept
  BY <1>1, <1>3, HandledStays, CreatedOffsets DEF Swept
<1>4. CASE (NotBegun \/ Sweeps) /\ (On \/ Reset \/ RestoreFails)
  BY <1>1, <1>4, SweepLoop
<1>5. CASE (NotBegun \/ Sweeps) /\ \E c \in Consumer : Deliver(c)
  BY <1>1, <1>5, SweepDeliver, NotBegunDeliver
<1>6. CASE (NotBegun \/ Sweeps) /\ \E o \in Offset : Handle(o)
  BY <1>1, <1>6, SweepHandle, NotBegunHandle
<1>7. ASSUME \E o \in Offset, st \in Stage : Respond(o) \/ Remove(o, st)
      PROVE  ~(NotBegun \/ Sweeps)
  BY <1>7, SweepLater
<1>8. CASE (NotBegun \/ Sweeps) /\ UNCHANGED vars
  <2>1. UNCHANGED <<constVars, log, turn, registered, listening, cursor, inv, handled,
                    responses>>
    BY <1>8 DEF vars, doneVars
  <2>2. /\ \A o \in Offset : Calls(o)' = Calls(o)
        /\ target' = target /\ began' = began
    BY <2>1 DEF Calls, constVars
  <2>3. (NotBegun => NotBegun') /\ (Sweeps => Sweeps')
    BY <1>1, <2>1, <2>2 DEF NotBegun, Sweeps
  <2>4. QED BY <1>8, <2>3
<1>9. 1 \in Stage
  BY DEF Stage
<1>10. QED BY <1>1, <1>2, <1>3, <1>4, <1>5, <1>6, <1>7, <1>8, <1>9 DEF Next

\* One consumer that waits for its listeners, wherever it stood: every Created
\* message up to the end of the topic has been handled when the restore
\* answers, although the resets replay them and the listeners are removed
\* while they are read; unless a live message, or a Created one at the end of
\* the topic that had not been read, was there to be answered at once.
THEOREM CreatedReplayedTrue == Spec => []CreatedReplayed
<1>1. Init => SweepInv
  BY DEF Init, SweepInv, NotBegun, Calls, Stage, Consumer
<1>2. SweepInv => CreatedReplayed
  BY DEF SweepInv, AsSeen, NotBegun, Sweeps, Swept, Created, CreatedReplayed
<1>3. QED BY <1>1, <1>2, SweepStep, RestoreInvHolds, PTL DEF Spec

=============================================================================
