----------------------------- MODULE Reflection -----------------------------
(***************************************************************************)
(* The handler serverReflectionInfo of the service ServerReflection, on    *)
(* the bidirectional call of GrpcCall: it reads one request, answers it    *)
(* and reads the next, until the stream ends or a lookup throws; then it   *)
(* ends the call.  A request is what tells its answers apart: the method   *)
(* it asks for, whether what it names exists, and whether the extension    *)
(* number it gives is used.                                                *)
(***************************************************************************)
EXTENDS GrpcCall

CONSTANT Request    \* Request[m]: the reflection request in message m

Methods == {"none", "unknown", "fileByFilename", "fileContainingSymbol",
            "fileContainingExtension", "allExtensionNumbersOfType", "listServices"}

ASSUME RequestAssumption ==
  Request \in [Msg -> [method : Methods, found : BOOLEAN, used : BOOLEAN]]

VARIABLES
  responses,  \* history: what was written, and for which request
  broken      \* a lookup threw: openCall is false

reflectionVars == <<responses, broken>>

ReflectionTypeOK ==
  /\ \A k \in DOMAIN responses : responses[k].to \in Msg
  /\ broken \in BOOLEAN

ReflectionInit == responses = <<>> /\ broken = FALSE

-----------------------------------------------------------------------------
(* What the methods return for a request, or that they throw.              *)

Descriptor == {"OK", "throws"}    \* whether the library can describe it

\* The names of files are looked for among the keys of an array, and a match
\* is handed to a parser that does not exist.
FileByFileName(r) == IF r.found THEN {"throws"} ELSE {"NOT_FOUND"}

FindProtoFileByPath(r) == IF r.found THEN Descriptor ELSE {"NOT_FOUND"}

\* The table of the fields of a type may not have been made.
FileContainingExtension(r) ==
  IF ~r.found THEN {"NOT_FOUND"}
  ELSE IF r.used THEN Descriptor ELSE {"NOT_FOUND", "throws"}

AllExtensionNumbersOfType(r) == IF r.found THEN Descriptor ELSE {"NOT_FOUND"}

ListServices == {"OK"}

Outcomes(r) == CASE r.method = "none" -> {"INVALID_ARGUMENT"}
                 [] r.method = "unknown" -> {"UNIMPLEMENTED"}
                 [] r.method = "fileByFilename" -> FileByFileName(r)
                 [] r.method = "fileContainingSymbol" -> FindProtoFileByPath(r)
                 [] r.method = "fileContainingExtension" -> FileContainingExtension(r)
                 [] r.method = "allExtensionNumbersOfType" -> AllExtensionNumbersOfType(r)
                 [] OTHER -> ListServices

-----------------------------------------------------------------------------
(* The loop.                                                               *)

Current == IF answers = <<>> THEN Waiting ELSE answers[Len(answers)]
InLoop == Running /\ ended = 0 /\ ~broken

\* The read of the loop; all messages read before have been answered.
NextRequest ==
  /\ InLoop /\ Len(answers) = written
  /\ HandlerRead
  /\ UNCHANGED reflectionVars

IsRequest == InLoop /\ Len(answers) > written /\ Current \in Msg

Respond ==
  /\ IsRequest
  /\ \E status \in Outcomes(Request[Current]) \ {"throws"} :
       responses' = Append(responses, [to |-> Current, status |-> status])
  /\ HandlerWrite
  /\ UNCHANGED broken

\* A lookup throws: the loop is left, and the request gets no response.
BreakOff ==
  /\ IsRequest /\ "throws" \in Outcomes(Request[Current])
  /\ broken' = TRUE
  /\ UNCHANGED <<vars, responses>>

\* Mutants: a stream that has ended is not read any more; after a lookup
\* that threw the call is not ended.
LoopEndsWithStream == broken \/ end
LoopEndsUnbroken == Current = StreamEnd
LoopEnds == broken \/ Current = StreamEnd

EndOfCall ==
  /\ LoopEnds
  /\ HandlerEnd
  /\ UNCHANGED reflectionVars

ReflectionSteps == NextRequest \/ Respond \/ BreakOff \/ EndOfCall
=============================================================================
