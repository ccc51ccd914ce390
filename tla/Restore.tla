------------------------------ MODULE Restore ------------------------------
(***************************************************************************)
(* The restore command of the CommandInterface on one resource topic.      *)
(*                                                                         *)
(* restore() reads the end of the topic, then for each of the events       *)
(* Created, Modified and Deleted registers a listener and resets the       *)
(* consumer to the requested offset.  It returns while messages are still  *)
(* read; the listener that handles the last one answers on the command     *)
(* topic and takes all listeners off.                                      *)
(*                                                                         *)
(* The Kafka client is not part of the repository.  restore() does not say *)
(* whether $reset(event, offset) moves the consumer of the topic or one of *)
(* the event, nor whether the client waits for a listener before it hands  *)
(* out the next message: PerEvent and Awaited hold the cases considered.   *)
(* Nor does it know where a consumer stands: one may be behind the end of  *)
(* the topic, and reads on for listeners the service has itself.           *)
(***************************************************************************)
EXTENDS Naturals, Integers, Sequences, FiniteSets

CONSTANTS
  PerEvent,      \* subset of BOOLEAN: a consumer for each event, or one
  Awaited,       \* subset of BOOLEAN: the client waits for listeners, or not
  OnTopic,       \* bound: the events services emit on the topic
  MaxLog,        \* bound: messages on the topic when restore begins
  MaxLive,       \* bound: messages services emit during the restore
  MaxBehind,     \* bound: messages a consumer has still to read at first
  MaxIgnored,    \* bound: ignored offsets
  MayFail        \* whether calls to Kafka may fail

\* The keys of makeResourcesRestoreSetup, in their order.
EventNames == <<"Created", "Modified", "Deleted">>
Restorable == {"Created", "Modified", "Deleted"}
Event == Restorable \cup {"Other"}

ASSUME RestoreAssumption ==
  /\ OnTopic \subseteq Event
  /\ PerEvent \subseteq BOOLEAN /\ Awaited \subseteq BOOLEAN
  /\ MaxLog \in Nat /\ MaxLive \in Nat /\ MaxBehind \in Nat /\ MaxIgnored \in Nat
  /\ MayFail \in BOOLEAN

\* The resource's name, and that with an 's'.
Collection == {"resource", "resources"}

Consumer == Restorable \cup {"topic"}

Offset == 0..(MaxLog + MaxLive - 1)

\* What a listener has left to do: handle the message, answer, and take off
\* the listeners of the first, the second and the third event.
Stage == 1..5

VARIABLES
  log,        \* the events on the topic, from offset 0; all for one resource
  base,       \* payload[resource].offset
  ignore,     \* payload[resource].ignore_offset
  perEvent, awaited,
  began,      \* history: where each consumer stood when restore() began
  target,     \* targetOffset
  turn,       \* the event name restore() is at; 4: done; 5: failed
  registered, \* in this turn the listener has been registered
  listening,  \* the events with a restore listener
  cursor,     \* the next offset each consumer reads
  inv,        \* inv[o][st]: listener calls for offset o that are at stage st
  handled,    \* history: handled[o], calls whose handler finished
  stored,     \* the document in each collection: absent, created or modified
  responses   \* the offsets told in restoreResponse

doneVars == <<handled, stored>>
constVars == <<base, ignore, perEvent, awaited, began, target>>
vars == <<log, constVars, turn, registered, listening, cursor, inv, doneVars,
          responses>>

RestoreTypeOK ==
  /\ log \in Seq(Event) /\ Len(log) <= MaxLog + MaxLive
  /\ base \in 0..MaxLog /\ ignore \subseteq Offset
  /\ perEvent \in BOOLEAN /\ awaited \in BOOLEAN /\ target \in -1..(MaxLog - 1)
  /\ turn \in 1..5 /\ registered \in BOOLEAN
  /\ listening \subseteq Restorable
  /\ cursor \in [Consumer -> 0..(MaxLog + MaxLive)]
  /\ began \in [Consumer -> 0..MaxLog]
  /\ inv \in [Offset -> [Stage -> 0..4]]
  /\ handled \in [Offset -> Nat]
  /\ stored \in [Collection -> {"absent", "created", "modified"}]
  /\ responses \subseteq Offset

ConsumerOf(e) == IF perEvent THEN e ELSE "topic"

\* The events whose messages consumer c hands out.
EventsOf(c) == IF c = "topic" THEN (IF perEvent THEN {} ELSE Event)
               ELSE IF perEvent THEN {c} ELSE {}

\* Where a consumer may stand: before a message it hands out, or at the end.
Positions(c) == {Len(log)} \cup
  {n \in 0..(Len(log) - 1) : n + MaxBehind >= Len(log) /\ log[n + 1] \in EventsOf(c)}

Init ==
  /\ \E n \in 0..MaxLog : log \in [1..n -> OnTopic]
  /\ base \in 0..Len(log)
  /\ ignore \in {S \in SUBSET Offset : Cardinality(S) <= MaxIgnored}
  /\ perEvent \in PerEvent /\ awaited \in Awaited
  /\ target = Len(log) - 1
  /\ turn = 1 /\ registered = FALSE
  /\ listening = {}
  /\ cursor \in [Consumer -> 0..Len(log)]
  /\ \A c \in Consumer : cursor[c] \in Positions(c)
  /\ began = cursor
  /\ inv = [o \in Offset |-> [st \in Stage |-> 0]]
  /\ handled = [o \in Offset |-> 0]
  /\ stored = [c \in Collection |-> "absent"]
  /\ responses = {}

-----------------------------------------------------------------------------
(* restore(): the loop over the event names.                               *)

On == /\ turn <= 3 /\ ~registered
      /\ registered' = TRUE
      /\ listening' = listening \cup {EventNames[turn]}
      /\ UNCHANGED <<log, constVars, turn, cursor, inv, doneVars, responses>>

\* The offset a consumer is set to.  Mutant: the one after it.
AfterBase == base + 1
ResetTo == base

\* Mutant: the consumer is reset again and again.
ResetAgain == /\ turn <= 3 /\ registered
              /\ cursor' = [cursor EXCEPT ![ConsumerOf(EventNames[turn])] = ResetTo]
              /\ UNCHANGED <<log, constVars, turn, registered, listening, inv,
                             doneVars, responses>>
Reset == /\ turn <= 3 /\ registered
         /\ cursor' = [cursor EXCEPT ![ConsumerOf(EventNames[turn])] = ResetTo]
         /\ turn' = turn + 1 /\ registered' = FALSE
         /\ UNCHANGED <<log, constVars, listening, inv, doneVars, responses>>

\* on() or $reset() rejects: the error is told as event 'restoreCommand'.
RestoreFails == /\ MayFail /\ turn <= 3
                /\ turn' = 5 /\ registered' = FALSE
                /\ UNCHANGED <<log, constVars, listening, cursor, inv, doneVars, responses>>

-----------------------------------------------------------------------------
(* The Kafka client.                                                       *)

At(o) == log[o + 1]

Calls(o) == {st \in Stage : inv[o][st] > 0}

\* All listeners of consumer c have returned.
Idle(c) == \A o \in Offset : Calls(o) # {} => At(o) \notin EventsOf(c)

\* _.includes(ignoreOffsets, ctx.offset).  Mutant: only those after target.
IsIgnoredAfter(o) == o \in ignore /\ o > target
IsIgnored(o) == o \in ignore

\* A message is handed to its listener, if there is one; that returns at
\* once when the offset is ignored, else starts to handle the message.
Deliver(c) ==
  /\ EventsOf(c) # {}
  /\ cursor[c] < Len(log)
  /\ awaited => Idle(c)
  /\ LET o == cursor[c]
         taken == At(o) \in EventsOf(c) \cap listening /\ ~IsIgnored(o)
     IN inv' = IF taken THEN [inv EXCEPT ![o][1] = @ + 1] ELSE inv
  /\ cursor' = [cursor EXCEPT ![c] = @ + 1]
  /\ UNCHANGED <<log, constVars, turn, registered, listening, doneVars,
                 responses>>

\* A service emits an event of the topic while the restore is under way.
Live(e) == /\ Len(log) < target + 1 + MaxLive
           /\ log' = Append(log, e)
           /\ UNCHANGED <<constVars, turn, registered, listening, cursor, inv,
                          doneVars, responses>>

-----------------------------------------------------------------------------
(* listenUntil, the listener.                                              *)

Goes(o, st, to) == inv' = [inv EXCEPT ![o][st] = @ - 1, ![o][to] = @ + 1]
Ends(o, st) == inv' = [inv EXCEPT ![o][st] = @ - 1]

\* ctx.offset >= targetOffset.  Mutants: >, and always.
IsLater(o) == o > target
IsAny(o) == o >= 0
IsLast(o) == o >= target

\* What the handlers of makeResourcesRestoreSetup do to the document; only
\* the first adds an 's' to the name.  A second insert is refused.
After(e) ==
  CASE e = "Created" -> [stored EXCEPT !["resources"] = IF @ = "absent" THEN "created" ELSE @]
    [] e = "Modified" -> [stored EXCEPT !["resource"] = IF @ = "absent" THEN @ ELSE "modified"]
    [] e = "Deleted" -> [stored EXCEPT !["resource"] = "absent"]

\* await listener(...) is over: an exception of the database is dropped.
Handle(o) ==
  /\ inv[o][1] > 0
  /\ handled' = [handled EXCEPT ![o] = @ + 1]
  /\ \/ stored' = After(At(o))
     \/ MayFail /\ UNCHANGED stored
  /\ IF IsLast(o) THEN Goes(o, 1, 2) ELSE Ends(o, 1)
  /\ UNCHANGED <<log, constVars, turn, registered, listening, cursor, responses>>

\* emit('restoreResponse'): when it rejects the listeners stay.
Respond(o) ==
  /\ inv[o][2] > 0
  /\ \/ responses' = responses \cup {o} /\ Goes(o, 2, 3)
     \/ MayFail /\ Ends(o, 2) /\ UNCHANGED responses
  /\ UNCHANGED <<log, constVars, turn, registered, listening, cursor, doneVars>>

\* await removeAllListeners(name), one event name after the other.
Remove(o, st) ==
  /\ st >= 3 /\ inv[o][st] > 0
  /\ listening' = listening \ {EventNames[st - 2]}
  /\ IF st < 5 THEN Goes(o, st, st + 1) ELSE Ends(o, st)
  /\ UNCHANGED <<log, constVars, turn, registered, cursor, doneVars, responses>>

-----------------------------------------------------------------------------
Restoring == On \/ Reset

Next == \/ On \/ Reset \/ RestoreFails
        \/ \E c \in Consumer : Deliver(c)
        \/ \E e \in OnTopic : Live(e)
        \/ \E o \in Offset : Handle(o) \/ Respond(o)
        \/ \E o \in Offset, st \in Stage : Remove(o, st)

\* Kafka and the database answer; a consumer with a listener reads what is
\* there.
Fairness == /\ WF_vars(Restoring)
            /\ \A c \in Consumer :
                 WF_vars(EventsOf(c) \cap listening # {} /\ Deliver(c))
            /\ \A o \in Offset : /\ WF_vars(Handle(o)) /\ WF_vars(Respond(o))
                                 /\ \A st \in Stage : WF_vars(Remove(o, st))

Spec == Init /\ [][Next]_vars /\ Fairness

-----------------------------------------------------------------------------
(***************************************************************************)
(* Properties                                                              *)
(***************************************************************************)
Touched == {o \in Offset : handled[o] > 0 \/ Calls(o) # {}}

\* Its consumer had not read the message yet when restore() began, and a
\* listener of the restore is there before the consumer is reset: that of the
\* only event of a consumer, or of the first event.
Unread(o) == /\ o >= began[ConsumerOf(At(o))]
             /\ perEvent \/ At(o) = "Created"

\* Nothing is handled that is ignored or of an event without a handler, and
\* nothing before the requested offset but what a consumer, which was behind,
\* hands out between on() and $reset(); whatever the services emit then.
OnlyAskedFor == \A o \in Touched :
  /\ o \notin ignore /\ At(o) \in Restorable
  /\ o >= base \/ Unread(o)

\* The offset of a restoreResponse is at or behind the end of the topic the
\* command saw, and its own message has been handled.
ResponseIsLast == \A o \in responses : o >= target /\ handled[o] > 0

Wanted(e) == {o \in base..target : o \notin ignore /\ At(o) = e}

\* With one consumer that waits for its listeners, and no event after those
\* the command saw, all Created messages up to the end of the topic have been
\* handled when the restore answers, although every $reset replays them: the
\* Created listener is the first.  (Between the first on() and its $reset a
\* live event may be answered before anything is replayed, and so may the
\* last message if it is a Created one that the consumer had not read.)
CreatedReplayed ==
  /\ ~perEvent /\ awaited /\ Len(log) = target + 1
  /\ responses # {}
  /\ ~(At(target) = "Created" /\ Unread(target))
  => \A o \in Wanted("Created") : handled[o] > 0

\* The times the listener of an event may see the topic from the requested
\* offset on.  A consumer of its own is reset for it once.  A single one is
\* reset three times: the listener of Modified comes while it reads from the
\* first reset, that of Deleted while it reads from the second.
Replays(e) == IF perEvent THEN 1 ELSE IF e = "Deleted" THEN 2 ELSE 3

\* No message is handled more often than its listener sees the topic, and
\* once more if the consumer had not read it: with a consumer for each event
\* that was at the end, no message the command saw is handled twice.
ReplaysBounded == \A o \in Touched :
  handled[o] <= (IF o >= base THEN Replays(At(o)) ELSE 0)
                + (IF Unread(o) THEN 1 ELSE 0)

\* A restore whose last message has a handler and is not ignored answers,
\* however the listeners' removal and restore()'s own loop interleave.
RestoreAnswers ==
  (base <= target /\ target \notin ignore /\ At(target) \in Restorable)
     ~> (responses # {})

\* restore() has been through its loop, and no listener is left or will be.
Over == /\ turn = 4 /\ listening = {}
        /\ \A o \in Offset : Calls(o) = {}

\* command-interface.md: "The same events are re-processed in order to
\* restore all data".  The listener of the last message takes off all the
\* others, those that have not seen their messages too: what is then left is
\* not handled any more.
AllReplayed == Over =>
  \A e \in Restorable : \A o \in Wanted(e) : handled[o] > 0

\* The same sentence, of the database: a document whose messages have all been
\* handled, in order and once, is afterwards in a collection as the last of
\* them left it.  Its Created message puts it in one collection, the others
\* look for it in another.
Replayed[n \in 0..(MaxLog + MaxLive)] ==
  IF n = 0 THEN "absent"
  ELSE CASE log[n] = "Created" -> IF Replayed[n - 1] = "absent" THEN "created"
                                  ELSE Replayed[n - 1]
         [] log[n] = "Modified" -> IF Replayed[n - 1] = "absent" THEN "absent"
                                   ELSE "modified"
         [] log[n] = "Deleted" -> "absent"
         [] OTHER -> Replayed[n - 1]

DocumentRestored ==
  responses # {} /\ awaited /\ (\A o \in 0..target : handled[o] = 1) =>
    \E c \in Collection : stored[c] = Replayed[target + 1]
=============================================================================
