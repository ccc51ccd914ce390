------------------------------ MODULE MCReset ------------------------------
(***************************************************************************)
(* Reset of two ArangoDB databases with a NeDB one between them, while two *)
(* operations insert a document into the same collection of the first.     *)
(***************************************************************************)
EXTENDS Reset

CONSTANTS d1, d2, c1, c2, w1, w2
MCDb == {d1, d2}
MCColl == {c1, c2}
MCWriter == {w1, w2}
MCTarget == [w \in MCWriter |-> <<d1, c1>>]
MCConfigured == <<d1, "nedb", d2>>
=============================================================================
