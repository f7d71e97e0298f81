------------------------ MODULE MCNamespaceRegistry ------------------------
(* Three calls on one namespace, or two names the script goes through: a    *)
(* check and a write of one call can have both a create and a delete of the *)
(* others between them.                                                     *)
EXTENDS NamespaceRegistry, TLC

CONSTANTS c1, c2, c3, n1, n2

MCCalls == {c1, c2, c3}
MCNames == {n1, n2}
MCSeedOrder == <<n1, n2>>
Interchangeable == Permutations(MCCalls)
=============================================================================
