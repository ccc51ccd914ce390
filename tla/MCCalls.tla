------------------------------ MODULE MCCalls ------------------------------
(***************************************************************************)
(* Calls with three messages at most, of three kinds: a request that is    *)
(* always answered, one for an unknown symbol, and one whose lookup may    *)
(* throw; two mapped error classes; and an array with two members at most  *)
(* at its start and three in all.                                          *)
(***************************************************************************)
EXTENDS Calls

CONSTANTS list, lost, held, NotFound

MCMsg == {list, lost, held}
MCErrorClass == {NotFound, Internal}
Asks(m, f, u) == [method |-> m, found |-> f, used |-> u]
MCRequest == [m \in MCMsg |->
                CASE m = list -> Asks("listServices", FALSE, FALSE)
                  [] m = lost -> Asks("fileContainingSymbol", FALSE, FALSE)
                  [] OTHER -> Asks("fileContainingExtension", TRUE, TRUE)]
=============================================================================
