------------------------- MODULE MCServerLifecycle -------------------------
(***************************************************************************)
(* ServerLifecycle with one gRPC transport in front of a pipe and another  *)
(* gRPC transport.  The service cmd has a method on each of them; part is  *)
(* configured for the first and the last one, which has no proto for it,   *)
(* so that its bind fails half way; idle is configured for a transport     *)
(* that does not exist, and so is never bound to any.                      *)
(***************************************************************************)
EXTENDS ServerLifecycle

CONSTANTS cmd, part, idle, run

MCService == {cmd, part, idle}
MCMethod == {run}
MCGrpc == {1, 3}
MCConfig == [s \in MCService |-> [m \in MCMethod |->
               CASE s = cmd -> {1, 2, 3} [] s = part -> {1, 3} [] OTHER -> {N + 1}]]
MCImplemented == [s \in MCService |-> MCMethod]
MCKnown == [i \in MCGrpc |-> IF i = 1 THEN {cmd, part} ELSE {cmd}]
MCForeign == {2}
=============================================================================
