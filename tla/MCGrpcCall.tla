----------------------------- MODULE MCGrpcCall -----------------------------
(***************************************************************************)
(* GrpcCall with one message and two mapped error classes: what a handler  *)
(* reads does not influence how its call is answered.                      *)
(***************************************************************************)
EXTENDS GrpcCall

CONSTANTS m1, NotFound
MCMsg == {m1}
MCErrorClass == {NotFound, Internal}
=============================================================================
