------------------- MODULE TransactionOrchestratorProofs -------------------
(***************************************************************************)
(* Proofs about TransactionOrchestrator for every set of transactions and  *)
(* namespaces, every timeout and every lateness of the timer.              *)
(*                                                                         *)
(* The inductive invariant comes in three layers.  QueueInv says that a    *)
(* half in the microtask queue is the only one for its transaction, and    *)
(* that the transaction is still in the table; it is inductive by itself.  *)
(* AccountInv (gauge and counters) and TimeInv (ages) are each inductive   *)
(* on top of it.                                                           *)
(***************************************************************************)
EXTENDS TransactionOrchestrator, FiniteSetTheorems, TLAPS

\* The table holds exactly the ids whose history says "active".
TableIsDecision ==
    \A t \in Txns : t \in activeTransactions <=> decision[t] = "active"

QueueInv ==
    /\ activeTransactions \in SUBSET Txns
    /\ microtasks \in SUBSET Microtask
    /\ decision \in [Txns -> Decisions]
    /\ TableIsDecision
    /\ LookupStaysValid

AccountInv ==
    /\ IsFiniteSet(activeTransactions)
    /\ gauge \in [Namespaces -> Nat]
    /\ counter \in [Namespaces -> [Statuses -> Nat]]
    /\ GaugeMatchesTable
    /\ CountersBalance

\* A transaction that no cleanup half is about to settle was not an orphan
\* when the cleanup last ran.
SweptInTime ==
    \A t \in activeTransactions :
        \/ age[t] <= Timeout + sinceSweep
        \/ \E m \in microtasks : m.txn = t

TimeInv ==
    /\ age \in [Txns -> Nat]
    /\ sinceSweep \in 0 .. Period + Jitter
    /\ OnlyOrphansAreCleaned
    /\ OrphansAreReaped
    /\ SweptInTime

-----------------------------------------------------------------------------
(* The queue.                                                              *)

LEMMA QueueInit == Init => QueueInv
BY DEF Init, QueueInv, TableIsDecision, LookupStaysValid, Decisions

\* Settling the transaction of a queued half and dropping the half keeps
\* QueueInv, whatever the outcome.
LEMMA QueueSettle ==
    ASSUME QueueInv, NEW m \in microtasks, NEW status \in {"committed", "rolled_back"},
           microtasks' = microtasks \ {m}, Settle(m.txn, status)
    PROVE  QueueInv'
BY DEF QueueInv, Settle, TableIsDecision, LookupStaysValid, Decisions, Microtask

\* Queueing a half of a transaction that has none, and is in the table.
LEMMA QueueCall ==
    ASSUME QueueInv, NEW t \in Txns, MayCall(t), Found(t),
           NEW op \in {"commit", "reject", "rollback"},
           microtasks' = microtasks \cup {[op |-> op, txn |-> t, by |-> "caller"]},
           UNCHANGED <<activeTransactions, decision>>
    PROVE  QueueInv'
BY DEF QueueInv, MayCall, Found, TableIsDecision, LookupStaysValid, Microtask

LEMMA QueueNext == QueueInv /\ [Next]_vars => QueueInv'
<1> SUFFICES ASSUME QueueInv, [Next]_vars PROVE QueueInv'
    OBVIOUS
<1>1. ASSUME NEW t \in Txns, Begin(t) PROVE QueueInv'
    BY <1>1 DEF Begin, QueueInv, TableIsDecision, LookupStaysValid, Decisions
<1>2. ASSUME NEW t \in Txns, NEW valid \in BOOLEAN, CallCommit(t, valid)
      PROVE  QueueInv'
    BY <1>2, QueueCall DEF CallCommit
<1>3. ASSUME NEW t \in Txns, CallRollback(t) PROVE QueueInv'
    BY <1>3, QueueCall DEF CallRollback
<1>4. ASSUME NEW m \in microtasks, FinishCommit(m) PROVE QueueInv'
    BY <1>4, QueueSettle DEF FinishCommit
<1>5. ASSUME NEW m \in microtasks, FinishRollback(m) PROVE QueueInv'
    BY <1>5, QueueSettle DEF FinishRollback
<1>6. ASSUME NEW m \in microtasks, RejectCommit(m) PROVE QueueInv'
    BY <1>6 DEF RejectCommit, Found, QueueInv, TableIsDecision, LookupStaysValid,
                Microtask
<1>7. ASSUME Cleanup PROVE QueueInv'
    BY <1>7 DEF Cleanup, Orphans, QueueInv, TableIsDecision, LookupStaysValid,
                Microtask
<1>8. ASSUME Tick PROVE QueueInv'
    BY <1>8 DEF Tick, QueueInv, TableIsDecision, LookupStaysValid
<1>9. ASSUME Restart PROVE QueueInv'
    BY <1>9 DEF Restart, QueueInv, TableIsDecision, LookupStaysValid, Decisions
<1>10. ASSUME UNCHANGED vars PROVE QueueInv'
    BY <1>10 DEF vars, QueueInv, TableIsDecision, LookupStaysValid
<1>11. QED
    BY <1>1, <1>2, <1>3, <1>4, <1>5, <1>6, <1>7, <1>8, <1>9, <1>10
       DEF Next, Call, RunMicrotask

LEMMA QueueIsSafe == Spec => []QueueInv
BY QueueInit, QueueNext, PTL DEF Spec

\* Between the two halves of a commit or a rollback nobody else settles the
\* transaction: what was found before the await is there after it.
THEOREM LookupStaysValidThm == Spec => []LookupStaysValid
<1>1. QueueInv => LookupStaysValid
    BY DEF QueueInv
<1>2. QED
    BY <1>1, QueueIsSafe, PTL

-----------------------------------------------------------------------------
(* The gauge and the counters.                                             *)

\* How the number of entries of a namespace changes when an id enters the
\* table or leaves it.
LEMMA ActiveInType ==
    ASSUME IsFiniteSet(activeTransactions), NEW n
    PROVE  IsFiniteSet(ActiveIn(n)) /\ Cardinality(ActiveIn(n)) \in Nat
<1>1. ActiveIn(n) \in SUBSET activeTransactions
    BY DEF ActiveIn
<1>2. QED
    BY <1>1, FS_Subset, FS_CardinalityType

LEMMA ActiveInAdd ==
    ASSUME IsFiniteSet(activeTransactions), NEW t \in Txns,
           t \notin activeTransactions,
           activeTransactions' = activeTransactions \cup {t}
    PROVE  /\ IsFiniteSet(activeTransactions')
           /\ \A n : Cardinality(ActiveIn(n)') =
                 Cardinality(ActiveIn(n)) + (IF n = NamespaceOf[t] THEN 1 ELSE 0)
<1>1. IsFiniteSet(activeTransactions')
    BY FS_AddElement
<1>2. ASSUME NEW n
      PROVE  Cardinality(ActiveIn(n)') =
                 Cardinality(ActiveIn(n)) + (IF n = NamespaceOf[t] THEN 1 ELSE 0)
    <2>1. IsFiniteSet(ActiveIn(n)) /\ Cardinality(ActiveIn(n)) \in Nat
        BY ActiveInType
    <2>2. CASE n = NamespaceOf[t]
        <3>1. ActiveIn(n)' = ActiveIn(n) \cup {t}
            BY <2>2 DEF ActiveIn
        <3>2. t \notin ActiveIn(n)
            BY DEF ActiveIn
        <3>3. Cardinality(ActiveIn(n) \cup {t}) = Cardinality(ActiveIn(n)) + 1
            BY <2>1, <3>2, FS_AddElement
        <3>4. QED
            BY <2>2, <3>1, <3>3
    <2>3. CASE n # NamespaceOf[t]
        <3>1. ActiveIn(n)' = ActiveIn(n)
            BY <2>3 DEF ActiveIn
        <3>2. QED
            BY <2>1, <2>3, <3>1
    <2>4. QED
        BY <2>2, <2>3
<1>3. QED
    BY <1>1, <1>2

LEMMA ActiveInRemove ==
    ASSUME IsFiniteSet(activeTransactions), NEW t \in activeTransactions,
           activeTransactions' = activeTransactions \ {t}
    PROVE  /\ IsFiniteSet(activeTransactions')
           /\ \A n : Cardinality(ActiveIn(n)') =
                 Cardinality(ActiveIn(n)) - (IF n = NamespaceOf[t] THEN 1 ELSE 0)
<1>1. IsFiniteSet(activeTransactions')
    BY FS_RemoveElement
<1>2. ASSUME NEW n
      PROVE  Cardinality(ActiveIn(n)') =
                 Cardinality(ActiveIn(n)) - (IF n = NamespaceOf[t] THEN 1 ELSE 0)
    <2>1. IsFiniteSet(ActiveIn(n)) /\ Cardinality(ActiveIn(n)) \in Nat
        BY ActiveInType
    <2>2. CASE n = NamespaceOf[t]
        <3>1. ActiveIn(n)' = ActiveIn(n) \ {t}
            BY <2>2 DEF ActiveIn
        <3>2. t \in ActiveIn(n)
            BY <2>2 DEF ActiveIn
        <3>3. Cardinality(ActiveIn(n) \ {t}) = Cardinality(ActiveIn(n)) - 1
            BY <2>1, <3>2, FS_RemoveElement
        <3>4. QED
            BY <2>2, <3>1, <3>3
    <2>3. CASE n # NamespaceOf[t]
        <3>1. ActiveIn(n)' = ActiveIn(n)
            BY <2>3 DEF ActiveIn
        <3>2. QED
            BY <2>1, <2>3, <3>1
    <2>4. QED
        BY <2>2, <2>3
<1>3. QED
    BY <1>1, <1>2

LEMMA AccountInit == Init => AccountInv
<1> SUFFICES ASSUME Init PROVE AccountInv
    OBVIOUS
<1>1. \A n : ActiveIn(n) = {}
    BY DEF Init, ActiveIn
<1>2. IsFiniteSet({}) /\ Cardinality({}) = 0
    BY FS_EmptySet
<1>3. QED
    BY <1>1, <1>2 DEF Init, AccountInv, GaugeMatchesTable, CountersBalance, Statuses

\* The gauge is decremented for an entry that is there, so it cannot drop
\* below the number of entries that are left.
LEMMA AccountSettle ==
    ASSUME QueueInv, AccountInv, NEW m \in microtasks,
           NEW status \in {"committed", "rolled_back"}, Settle(m.txn, status)
    PROVE  AccountInv'
<1> DEFINE t == m.txn
           k(n) == IF n = NamespaceOf[t] THEN 1 ELSE 0
<1>1. t \in activeTransactions /\ t \in Txns /\ NamespaceOf[t] \in Namespaces
    BY NamespaceAssumption DEF QueueInv, LookupStaysValid
<1>2. /\ IsFiniteSet(activeTransactions')
      /\ \A n : Cardinality(ActiveIn(n)') = Cardinality(ActiveIn(n)) - k(n)
    BY <1>1, ActiveInRemove DEF AccountInv, Settle
<1>3. \A n : /\ Cardinality(ActiveIn(n)) \in Nat
             /\ Cardinality(ActiveIn(n)') \in Nat
    BY <1>2, ActiveInType, FS_CardinalityType, FS_Subset DEF AccountInv, ActiveIn
<1>4. gauge' \in [Namespaces -> Nat] /\ GaugeMatchesTable'
    <2>1. gauge' = [gauge EXCEPT ![NamespaceOf[t]] = @ - 1]
        BY DEF Settle
    <2>2. \A n \in Namespaces : gauge'[n] = gauge[n] - k(n)
        BY <1>1, <2>1 DEF AccountInv
    <2>3. \A n \in Namespaces : gauge'[n] = Cardinality(ActiveIn(n)')
        BY <1>2, <2>2 DEF AccountInv, GaugeMatchesTable
    <2>4. gauge' = [n \in Namespaces |-> gauge'[n]]
        BY <2>1 DEF AccountInv
    <2>5. QED
        BY <1>3, <2>3, <2>4 DEF GaugeMatchesTable
<1>5. counter' \in [Namespaces -> [Statuses -> Nat]] /\ CountersBalance'
    <2>1. counter' = [counter EXCEPT ![NamespaceOf[t]][status] = @ + 1]
        BY DEF Settle, Count
    <2>2. counter' \in [Namespaces -> [Statuses -> Nat]]
        BY <1>1, <2>1 DEF AccountInv, Statuses
    <2>3. \A n \in Namespaces :
            /\ counter'[n]["started"] = counter[n]["started"]
            /\ counter'[n]["committed"] + counter'[n]["rolled_back"]
                 = counter[n]["committed"] + counter[n]["rolled_back"] + k(n)
        BY <1>1, <2>1 DEF AccountInv, Statuses
    <2>4. \A n \in Namespaces : /\ counter[n]["started"] \in Nat
                                /\ counter[n]["committed"] \in Nat
                                /\ counter[n]["rolled_back"] \in Nat
                                /\ counter'[n]["committed"] \in Nat
                                /\ counter'[n]["rolled_back"] \in Nat
        BY <2>2 DEF AccountInv, Statuses
    <2>5. CountersBalance'
        BY <1>2, <1>3, <2>3, <2>4 DEF AccountInv, CountersBalance
    <2>6. QED
        BY <2>2, <2>5
<1>6. QED
    BY <1>2, <1>4, <1>5 DEF AccountInv

LEMMA AccountBegin ==
    ASSUME QueueInv, AccountInv, NEW t \in Txns, Begin(t)
    PROVE  AccountInv'
<1> DEFINE k(n) == IF n = NamespaceOf[t] THEN 1 ELSE 0
<1>1. t \notin activeTransactions /\ NamespaceOf[t] \in Namespaces
    BY NamespaceAssumption DEF Begin, QueueInv, TableIsDecision
<1>2. /\ IsFiniteSet(activeTransactions')
      /\ \A n : Cardinality(ActiveIn(n)') = Cardinality(ActiveIn(n)) + k(n)
    BY <1>1, ActiveInAdd DEF AccountInv, Begin
<1>3. \A n : Cardinality(ActiveIn(n)) \in Nat
    BY ActiveInType DEF AccountInv
<1>4. gauge' \in [Namespaces -> Nat] /\ GaugeMatchesTable'
    <2>1. gauge' = [gauge EXCEPT ![NamespaceOf[t]] = @ + 1]
        BY DEF Begin
    <2>2. \A n \in Namespaces : gauge'[n] = gauge[n] + k(n)
        BY <1>1, <2>1 DEF AccountInv
    <2>3. \A n \in Namespaces : gauge'[n] = Cardinality(ActiveIn(n)')
        BY <1>2, <2>2 DEF AccountInv, GaugeMatchesTable
    <2>4. QED
        BY <1>1, <2>1, <2>3 DEF AccountInv, GaugeMatchesTable
<1>5. counter' \in [Namespaces -> [Statuses -> Nat]] /\ CountersBalance'
    <2>1. counter' = [counter EXCEPT ![NamespaceOf[t]]["started"] = @ + 1]
        BY DEF Begin, Count
    <2>2. counter' \in [Namespaces -> [Statuses -> Nat]]
        BY <1>1, <2>1 DEF AccountInv, Statuses
    <2>3. \A n \in Namespaces :
            /\ counter'[n]["started"] = counter[n]["started"] + k(n)
            /\ counter'[n]["committed"] = counter[n]["committed"]
            /\ counter'[n]["rolled_back"] = counter[n]["rolled_back"]
        BY <1>1, <2>1 DEF AccountInv, Statuses
    <2>4. \A n \in Namespaces : /\ counter[n]["started"] \in Nat
                                /\ counter[n]["committed"] \in Nat
                                /\ counter[n]["rolled_back"] \in Nat
        BY DEF AccountInv, Statuses
    <2>5. ASSUME NEW n \in Namespaces
          PROVE  counter'[n]["started"] = counter'[n]["committed"]
                   + counter'[n]["rolled_back"] + Cardinality(ActiveIn(n)')
        <3>1. counter[n]["started"] = counter[n]["committed"]
                + counter[n]["rolled_back"] + Cardinality(ActiveIn(n))
            BY DEF AccountInv, CountersBalance
        <3>2. Cardinality(ActiveIn(n)') = Cardinality(ActiveIn(n)) + k(n)
            BY <1>2
        <3>3. Cardinality(ActiveIn(n)) \in Nat /\ k(n) \in {0, 1}
            BY <1>3
        <3>4. QED
            BY <2>3, <2>4, <3>1, <3>2, <3>3
    <2>6. QED
        BY <2>2, <2>5 DEF CountersBalance
<1>6. QED
    BY <1>2, <1>4, <1>5 DEF AccountInv

\* What neither begins nor settles leaves the accounts alone.
LEMMA AccountSame ==
    ASSUME AccountInv, UNCHANGED <<activeTransactions, gauge, counter>>
    PROVE  AccountInv'
BY DEF AccountInv, GaugeMatchesTable, CountersBalance, ActiveIn

LEMMA AccountNext == QueueInv /\ AccountInv /\ [Next]_vars => AccountInv'
<1> SUFFICES ASSUME QueueInv, AccountInv, [Next]_vars PROVE AccountInv'
    OBVIOUS
<1>1. ASSUME NEW t \in Txns, Begin(t) PROVE AccountInv'
    BY <1>1, AccountBegin
<1>2. ASSUME NEW t \in Txns, NEW valid \in BOOLEAN, CallCommit(t, valid)
      PROVE  AccountInv'
    BY <1>2, AccountSame DEF CallCommit
<1>3. ASSUME NEW t \in Txns, CallRollback(t) PROVE AccountInv'
    BY <1>3, AccountSame DEF CallRollback
<1>4. ASSUME NEW m \in microtasks, FinishCommit(m) PROVE AccountInv'
    BY <1>4, AccountSettle DEF FinishCommit
<1>5. ASSUME NEW m \in microtasks, FinishRollback(m) PROVE AccountInv'
    BY <1>5, AccountSettle DEF FinishRollback
<1>6. ASSUME NEW m \in microtasks, RejectCommit(m) PROVE AccountInv'
    BY <1>6, AccountSame DEF RejectCommit
<1>7. ASSUME Cleanup PROVE AccountInv'
    BY <1>7, AccountSame DEF Cleanup
<1>8. ASSUME Tick PROVE AccountInv'
    BY <1>8, AccountSame DEF Tick
<1>9. ASSUME Restart PROVE AccountInv'
    <2>1. \A n : ActiveIn(n)' = {}
        BY <1>9 DEF Restart, ActiveIn
    <2>2. IsFiniteSet({}) /\ Cardinality({}) = 0
        BY FS_EmptySet
    <2>3. gauge' = [n \in Namespaces |-> 0] /\ activeTransactions' = {}
        BY <1>9 DEF Restart
    <2>4. counter' = [n \in Namespaces |-> [s \in Statuses |-> 0]]
        BY <1>9 DEF Restart
    <2>5. \A n : Cardinality(ActiveIn(n)') = 0
        BY <2>1, <2>2
    <2>6. IsFiniteSet(activeTransactions') /\ GaugeMatchesTable'
        BY <2>2, <2>3, <2>5 DEF GaugeMatchesTable
    <2>7. CountersBalance'
        BY <2>4, <2>5 DEF CountersBalance, Statuses
    <2>8. QED
        BY <2>3, <2>4, <2>6, <2>7 DEF AccountInv
<1>10. ASSUME UNCHANGED vars PROVE AccountInv'
    BY <1>10, AccountSame DEF vars
<1>11. QED
    BY <1>1, <1>2, <1>3, <1>4, <1>5, <1>6, <1>7, <1>8, <1>9, <1>10
       DEF Next, Call, RunMicrotask

LEMMA AccountsAreSafe == Spec => []AccountInv
<1>1. Init => AccountInv
    BY AccountInit
<1>2. QED
    BY <1>1, QueueIsSafe, AccountNext, PTL DEF Spec

\* The gauge of active transactions is exact, for any number of requests.
THEOREM GaugeMatchesTableThm == Spec => []GaugeMatchesTable
<1>1. AccountInv => GaugeMatchesTable
    BY DEF AccountInv
<1>2. QED
    BY <1>1, AccountsAreSafe, PTL

\* Every transaction counted as started is counted once as settled, or is
\* still active.
THEOREM CountersBalanceThm == Spec => []CountersBalance
<1>1. AccountInv => CountersBalance
    BY DEF AccountInv
<1>2. QED
    BY <1>1, AccountsAreSafe, PTL

-----------------------------------------------------------------------------
(* Ages and the timer.                                                     *)

LEMMA PeriodFacts ==
    /\ Timeout \in Nat
    /\ Period \in Nat
    /\ Period >= 1
    /\ Jitter \in Nat
    /\ Timeout = 2 * Period
BY TimeAssumption DEF Period

LEMMA TimeInit == Init => TimeInv
BY PeriodFacts
   DEF Init, TimeInv, OnlyOrphansAreCleaned, OrphansAreReaped, SweptInTime

\* Settling one transaction leaves the ages of the others, and the halves
\* that settle them, as they are.
LEMMA TimeSettle ==
    ASSUME QueueInv, TimeInv, NEW m \in microtasks, NEW status,
           microtasks' = microtasks \ {m}, Settle(m.txn, status)
    PROVE  TimeInv'
<1>1. m.txn \in Txns
    BY DEF QueueInv, LookupStaysValid
<1>2. age' \in [Txns -> Nat] /\ sinceSweep' = sinceSweep
    BY <1>1 DEF TimeInv, Settle
<1>3. \A t \in Txns : t # m.txn => age'[t] = age[t]
    BY <1>1 DEF TimeInv, Settle
<1>4. activeTransactions' = activeTransactions \ {m.txn}
    BY DEF Settle
<1>5. OnlyOrphansAreCleaned'
    BY <1>3 DEF TimeInv, OnlyOrphansAreCleaned, QueueInv, LookupStaysValid
<1>6. OrphansAreReaped'
    BY <1>3, <1>4 DEF TimeInv, OrphansAreReaped, QueueInv
<1>7. SweptInTime'
    BY <1>2, <1>3, <1>4 DEF TimeInv, SweptInTime, QueueInv
<1>8. QED
    BY <1>2, <1>5, <1>6, <1>7 DEF TimeInv

\* What touches neither ages nor the table, and leaves every half of the
\* cleanup and a half for every transaction that had one.
LEMMA TimeSame ==
    ASSUME TimeInv, UNCHANGED <<activeTransactions, age, sinceSweep>>,
           \A m \in microtasks' : m.by = "cleanup" =>
               \E m0 \in microtasks : m0.by = "cleanup" /\ m0.txn = m.txn,
           \A m0 \in microtasks : \E m \in microtasks' : m.txn = m0.txn
    PROVE  TimeInv'
<1>1. OnlyOrphansAreCleaned'
    BY DEF TimeInv, OnlyOrphansAreCleaned
<1>2. OrphansAreReaped'
    BY DEF TimeInv, OrphansAreReaped
<1>3. SweptInTime'
    BY DEF TimeInv, SweptInTime
<1>4. QED
    BY <1>1, <1>2, <1>3 DEF TimeInv

LEMMA TimeBegin ==
    ASSUME QueueInv, TimeInv, NEW t \in Txns, Begin(t)
    PROVE  TimeInv'
<1>1. age' \in [Txns -> Nat] /\ age'[t] = 0 /\ sinceSweep' = sinceSweep
    BY DEF TimeInv, Begin
<1>2. \A u \in Txns : u # t => age'[u] = age[u]
    BY DEF TimeInv, Begin
<1>3. OnlyOrphansAreCleaned'
    BY <1>2 DEF Begin, MayCall, TimeInv, OnlyOrphansAreCleaned, QueueInv,
                LookupStaysValid
<1>4. OrphansAreReaped'
    BY <1>1, <1>2, PeriodFacts DEF Begin, TimeInv, OrphansAreReaped, QueueInv
<1>5. SweptInTime'
    BY <1>1, <1>2, PeriodFacts DEF Begin, TimeInv, SweptInTime, QueueInv
<1>6. QED
    BY <1>1, <1>3, <1>4, <1>5 DEF TimeInv

\* The sweep queues a half for everything older than the timeout.
LEMMA TimeCleanup ==
    ASSUME QueueInv, TimeInv, Cleanup
    PROVE  TimeInv'
<1>1. microtasks' = {[op |-> "rollback", txn |-> t, by |-> "cleanup"] : t \in Orphans}
    BY DEF Cleanup
<1>2. UNCHANGED <<age, activeTransactions>> /\ sinceSweep' = 0
    BY DEF Cleanup
<1>3. OnlyOrphansAreCleaned'
    BY <1>1, <1>2 DEF OnlyOrphansAreCleaned, Orphans
<1>4. OrphansAreReaped'
    BY <1>2 DEF TimeInv, OrphansAreReaped
<1>5. SweptInTime'
    <2>1. SUFFICES ASSUME NEW t \in activeTransactions, ~(age[t] <= Timeout)
                   PROVE  \E m \in microtasks' : m.txn = t
        BY <1>2, PeriodFacts DEF SweptInTime
    <2>2. t \in Orphans
        BY <2>1, PeriodFacts DEF Orphans, TimeInv, QueueInv
    <2>3. [op |-> "rollback", txn |-> t, by |-> "cleanup"] \in microtasks'
        BY <1>1, <2>2
    <2>4. QED
        BY <2>3
<1>6. QED
    BY <1>2, <1>3, <1>4, <1>5, PeriodFacts DEF TimeInv

\* Time passes only while the queue is empty and no sweep is overdue.
LEMMA TimeTick ==
    ASSUME QueueInv, TimeInv, Tick
    PROVE  TimeInv'
<1>1. /\ microtasks = {} /\ microtasks' = {}
      /\ activeTransactions' = activeTransactions
      /\ sinceSweep' = sinceSweep + 1
      /\ sinceSweep < Period + Jitter
    BY DEF Tick
<1>2. /\ age' \in [Txns -> Nat]
      /\ \A t \in activeTransactions : age'[t] = age[t] + 1
    BY DEF Tick, TimeInv, QueueInv
<1>3. \A t \in activeTransactions :
        /\ age[t] \in Nat
        /\ age[t] <= Timeout + sinceSweep
    BY <1>1 DEF TimeInv, SweptInTime, QueueInv
<1>4. sinceSweep' \in 0 .. Period + Jitter
    BY <1>1, PeriodFacts DEF TimeInv
<1>5. OnlyOrphansAreCleaned'
    BY <1>1 DEF OnlyOrphansAreCleaned
<1>6. OrphansAreReaped' /\ SweptInTime'
    BY <1>1, <1>2, <1>3, PeriodFacts DEF TimeInv, OrphansAreReaped, SweptInTime
<1>7. QED
    BY <1>2, <1>4, <1>5, <1>6 DEF TimeInv

LEMMA TimeNext == QueueInv /\ TimeInv /\ [Next]_vars => TimeInv'
<1> SUFFICES ASSUME QueueInv, TimeInv, [Next]_vars PROVE TimeInv'
    OBVIOUS
<1>1. ASSUME NEW t \in Txns, Begin(t) PROVE TimeInv'
    BY <1>1, TimeBegin
<1>2. ASSUME NEW t \in Txns, NEW valid \in BOOLEAN, CallCommit(t, valid)
      PROVE  TimeInv'
    BY <1>2, TimeSame DEF CallCommit
<1>3. ASSUME NEW t \in Txns, CallRollback(t) PROVE TimeInv'
    BY <1>3, TimeSame DEF CallRollback
<1>4. ASSUME NEW m \in microtasks, FinishCommit(m) PROVE TimeInv'
    BY <1>4, TimeSettle DEF FinishCommit
<1>5. ASSUME NEW m \in microtasks, FinishRollback(m) PROVE TimeInv'
    BY <1>5, TimeSettle DEF FinishRollback
<1>6. ASSUME NEW m \in microtasks, RejectCommit(m) PROVE TimeInv'
    <2> DEFINE r == [m EXCEPT !.op = "rollback"]
    <2>1. r.txn = m.txn /\ r.by = m.by
        BY DEF QueueInv, Microtask
    <2>2. microtasks' = (microtasks \ {m}) \cup {r}
        BY <1>6 DEF RejectCommit, Found, QueueInv, LookupStaysValid
    <2>3. UNCHANGED <<activeTransactions, age, sinceSweep>>
        BY <1>6 DEF RejectCommit
    <2> HIDE DEF r
    <2>4. QED
        BY <2>1, <2>2, <2>3, TimeSame
<1>7. ASSUME Cleanup PROVE TimeInv'
    BY <1>7, TimeCleanup
<1>8. ASSUME Tick PROVE TimeInv'
    BY <1>8, TimeTick
<1>9. ASSUME Restart PROVE TimeInv'
    BY <1>9, PeriodFacts
       DEF Restart, TimeInv, OnlyOrphansAreCleaned, OrphansAreReaped, SweptInTime
<1>10. ASSUME UNCHANGED vars PROVE TimeInv'
    BY <1>10, TimeSame DEF vars
<1>11. QED
    BY <1>1, <1>2, <1>3, <1>4, <1>5, <1>6, <1>7, <1>8, <1>9, <1>10
       DEF Next, Call, RunMicrotask

LEMMA TimesAreSafe == Spec => []TimeInv
<1>1. Init => TimeInv
    BY TimeInit
<1>2. QED
    BY <1>1, QueueIsSafe, TimeNext, PTL DEF Spec

\* No transaction stays in the table for longer than its timeout, one period
\* of the cleanup and the lateness of the timer, whatever its caller does.
THEOREM OrphansAreReapedThm == Spec => []OrphansAreReaped
<1>1. TimeInv => OrphansAreReaped
    BY DEF TimeInv
<1>2. QED
    BY <1>1, TimesAreSafe, PTL

\* The cleanup rolls back nothing younger than the timeout.
THEOREM OnlyOrphansAreCleanedThm == Spec => []OnlyOrphansAreCleaned
<1>1. TimeInv => OnlyOrphansAreCleaned
    BY DEF TimeInv
<1>2. QED
    BY <1>1, TimesAreSafe, PTL

\* Types; that the gauge is a natural number is the exactness of the gauge.
THEOREM TypeCorrect == Spec => []TypeOK
<1>1. QueueInv /\ AccountInv /\ TimeInv => TypeOK
    BY DEF QueueInv, AccountInv, TimeInv, TypeOK
<1>2. QED
    BY <1>1, QueueIsSafe, AccountsAreSafe, TimesAreSafe, PTL

-----------------------------------------------------------------------------
(* The service keeps the promise of TransactionLifecycle.                  *)

LEMMA StepIsPromised ==
    QueueInv /\ [Next]_vars => [Promise!Next]_decision
<1> SUFFICES ASSUME QueueInv, [Next]_vars PROVE [Promise!Next]_decision
    OBVIOUS
<1> USE DEF Promise!Next, Promise!Begin, Promise!Commit, Promise!RollBack,
            Promise!Die, Promise!Open
<1>1. ASSUME NEW t \in Txns, Begin(t) PROVE Promise!Next
    BY <1>1 DEF Begin
<1>2. ASSUME NEW t \in Txns, NEW valid \in BOOLEAN, CallCommit(t, valid)
      PROVE  UNCHANGED decision
    BY <1>2 DEF CallCommit
<1>3. ASSUME NEW t \in Txns, CallRollback(t) PROVE UNCHANGED decision
    BY <1>3 DEF CallRollback
<1>4. ASSUME NEW m \in microtasks PROVE m.txn \in Txns /\ decision[m.txn] = "active"
    BY DEF QueueInv, LookupStaysValid, TableIsDecision
<1>5. ASSUME NEW m \in microtasks, FinishCommit(m) PROVE Promise!Next
    BY <1>4, <1>5 DEF FinishCommit, Settle
<1>6. ASSUME NEW m \in microtasks, FinishRollback(m) PROVE Promise!Next
    BY <1>4, <1>6 DEF FinishRollback, Settle
<1>7. ASSUME NEW m \in microtasks, RejectCommit(m) PROVE UNCHANGED decision
    BY <1>7 DEF RejectCommit
<1>8. ASSUME Cleanup \/ Tick \/ UNCHANGED vars PROVE UNCHANGED decision
    BY <1>8 DEF Cleanup, Tick, vars
<1>9. ASSUME Restart PROVE Promise!Next
    BY <1>9 DEF Restart
<1>10. QED
    BY <1>1, <1>2, <1>3, <1>5, <1>6, <1>7, <1>8, <1>9
       DEF Next, Call, RunMicrotask

\* A transaction is begun once and settled once, for good, also when callers
\* and the cleanup settle at the same time: the service implements
\* TransactionLifecycle, with the history of each id as its phase.
THEOREM PromiseKeptThm == Spec => PromiseKept
<1>1. Init => Promise!Init
    BY DEF Init, Promise!Init
<1>2. QED
    BY <1>1, QueueIsSafe, StepIsPromised, PTL DEF Spec, PromiseKept, Promise!Spec
=============================================================================
