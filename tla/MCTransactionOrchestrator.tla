--------------------- MODULE MCTransactionOrchestrator ---------------------
(* Three transactions, two of them in one namespace, so that one gauge is  *)
(* shared and one is not.                                                  *)
EXTENDS TransactionOrchestrator

CONSTANTS t1, t2, t3, n1, n2

MCTxns == {t1, t2, t3}
MCNamespaces == {n1, n2}
MCNamespaceOf == [t \in Txns |-> IF t = t3 THEN n2 ELSE n1]
=============================================================================
