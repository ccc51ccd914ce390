----------------------------- MODULE MCRestore -----------------------------
(***************************************************************************)
(* Restore on every topic of up to MaxLog messages, from every offset.     *)
(***************************************************************************)
EXTENDS Restore

AllEvents == Event
FirstAndLast == {"Created", "Deleted", "Other"}

Either == {TRUE, FALSE}
OnlyOne == {FALSE}
Waits == {TRUE}
=============================================================================
