---------------------------- MODULE MCWalService ----------------------------
(* Two requests of one namespace, and the smallest times with which a       *)
(* request can both beat the cleanup and lose against it.                   *)
EXTENDS WalService, TLC

CONSTANTS r1, r2, n1

MCRequests == {r1, r2}
MCNamespaces == {n1}
MCNamespaceOf == [r \in Requests |-> n1]
Interchangeable == Permutations({r1, r2})
=============================================================================
