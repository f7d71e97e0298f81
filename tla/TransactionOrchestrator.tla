---------------------- MODULE TransactionOrchestrator ----------------------
(***************************************************************************)
(* TransactionOrchestratorService: the in-memory table of the transactions *)
(* that writeToLog has open, with its Prometheus gauge and counter, and    *)
(* the timer that rolls back the ones nobody finished.                     *)
(*                                                                         *)
(* The service runs on one JavaScript thread.  A method runs up to its     *)
(* first `await`; the rest of it is a microtask.  Everything the methods   *)
(* await is already settled, so no I/O happens in between, and Node empties*)
(* the microtask queue before it starts the next timer or I/O callback.    *)
(* That order is all that keeps commitTransaction and rollbackTransaction, *)
(* which look the transaction up BEFORE the await and delete it and        *)
(* decrement the gauge AFTER it, from settling a transaction twice, so the *)
(* module keeps the two halves apart: Call... is the first half, Finish... *)
(* the second, and microtasks holds what is between them.                  *)
(*                                                                         *)
(* Callers are the most general ones the API admits: each transaction has  *)
(* one sequential caller, which may commit or roll back at any time, also  *)
(* an id that is not active.  Replies of several requests may arrive in one*)
(* socket read, so first halves of different callers can be queued         *)
(* together; the cleanup timer is a callback of its own.                   *)
(*                                                                         *)
(* Time is counted in ticks.  The code compares Date.now() with the start  *)
(* time of a transaction and nothing else, so the model keeps the age.     *)
(***************************************************************************)
EXTENDS Integers, FiniteSets

CONSTANTS
    Txns,           \* the transaction ids that requests generate
    Namespaces,     \* the values of the metrics' namespace label
    NamespaceOf,    \* the namespace in each transaction's context
    Timeout,        \* transactionTimeoutMs, in ticks
    Jitter          \* how late a due timer may fire, in ticks

ASSUME NamespaceAssumption == NamespaceOf \in [Txns -> Namespaces]

ASSUME TimeAssumption ==
    /\ Timeout \in Nat \ {0}
    /\ Timeout % 2 = 0
    /\ Jitter \in Nat

Period == Timeout \div 2    \* the delay of the cleanup's setInterval

Statuses == {"started", "committed", "rolled_back"}

Decisions == {"unused", "active", "committed", "rolled_back", "lost"}

VARIABLES
    activeTransactions, \* keys of the Map of that name
    age,                \* Date.now() - startTime of an active transaction
    gauge,              \* wal_active_transactions, per namespace
    counter,            \* wal_transactions_total, per namespace and status
    microtasks,         \* second halves of commit and rollback, queued
    sinceSweep,         \* time since the cleanup callback last ran
    decision            \* history: what became of each id

vars == <<activeTransactions, age, gauge, counter, microtasks, sinceSweep,
          decision>>

Microtask == [op : {"commit", "reject", "rollback"}, txn : Txns,
              by : {"caller", "cleanup"}]

TypeOK ==
    /\ activeTransactions \in SUBSET Txns
    /\ age \in [Txns -> Nat]
    /\ gauge \in [Namespaces -> Nat]
    /\ counter \in [Namespaces -> [Statuses -> Nat]]
    /\ microtasks \in SUBSET Microtask
    /\ sinceSweep \in Nat
    /\ decision \in [Txns -> Decisions]

Init ==
    /\ activeTransactions = {}
    /\ age = [t \in Txns |-> 0]
    /\ gauge = [n \in Namespaces |-> 0]
    /\ counter = [n \in Namespaces |-> [s \in Statuses |-> 0]]
    /\ microtasks = {}
    /\ sinceSweep = 0
    /\ decision = [t \in Txns |-> "unused"]

-----------------------------------------------------------------------------
(* The caller's side.                                                      *)

\* Node runs a caller's code when no microtask of the cleanup callback is
\* left, and the caller awaits its own calls.
MayCall(t) == \A m \in microtasks : m.by = "caller" /\ m.txn # t

Count(t, status) ==
    counter' = [counter EXCEPT ![NamespaceOf[t]][status] = @ + 1]

\* beginTransaction.  Ids are generated per request and not used again.
Begin(t) ==
    /\ decision[t] = "unused"
    /\ MayCall(t)
    /\ activeTransactions' = activeTransactions \cup {t}
    /\ age' = [age EXCEPT ![t] = 0]
    /\ gauge' = [gauge EXCEPT ![NamespaceOf[t]] = @ + 1]
    /\ Count(t, "started")
    /\ decision' = [decision EXCEPT ![t] = "active"]
    /\ UNCHANGED <<microtasks, sinceSweep>>

\* activeTransactions.get(transactionId) found something.
Found(t) == t \in activeTransactions

\* commitTransaction up to `await this.validateCommitData(...)`; the queued
\* half depends on whether the commit data passed.  When the id is not
\* active the call returns at once and changes nothing.
CallCommit(t, valid) ==
    /\ MayCall(t)
    /\ Found(t)
    /\ microtasks' = microtasks \cup
         {[op |-> IF valid THEN "commit" ELSE "reject", txn |-> t,
           by |-> "caller"]}
    /\ UNCHANGED <<activeTransactions, age, gauge, counter, sinceSweep,
                   decision>>

\* mutant: no lookup before the await
CallRollback_NoLookup(t) ==
    /\ MayCall(t)
    /\ decision[t] # "unused"
    /\ microtasks' = microtasks \cup
         {[op |-> "rollback", txn |-> t, by |-> "caller"]}
    /\ UNCHANGED <<activeTransactions, age, gauge, counter, sinceSweep,
                   decision>>

\* rollbackTransaction up to `await this.performRollbackOperations(...)`.
CallRollback(t) ==
    /\ MayCall(t)
    /\ Found(t)
    /\ microtasks' = microtasks \cup
         {[op |-> "rollback", txn |-> t, by |-> "caller"]}
    /\ UNCHANGED <<activeTransactions, age, gauge, counter, sinceSweep,
                   decision>>

-----------------------------------------------------------------------------
(* The microtasks.                                                         *)

\* What commit and rollback share after their await: delete the entry,
\* decrement the gauge, count the outcome.  Nothing is looked up again.
Settle(t, status) ==
    /\ activeTransactions' = activeTransactions \ {t}
    /\ age' = [age EXCEPT ![t] = 0]
    /\ gauge' = [gauge EXCEPT ![NamespaceOf[t]] = @ - 1]
    /\ Count(t, status)
    /\ decision' = [decision EXCEPT ![t] = status]
    /\ UNCHANGED sinceSweep

FinishCommit(m) ==
    /\ m \in microtasks
    /\ m.op = "commit"
    /\ microtasks' = microtasks \ {m}
    /\ Settle(m.txn, "committed")

\* mutant: the rollback is not counted
FinishRollback_NotCounted(m) ==
    /\ m \in microtasks
    /\ m.op = "rollback"
    /\ microtasks' = microtasks \ {m}
    /\ activeTransactions' = activeTransactions \ {m.txn}
    /\ age' = [age EXCEPT ![m.txn] = 0]
    /\ gauge' = [gauge EXCEPT ![NamespaceOf[m.txn]] = @ - 1]
    /\ decision' = [decision EXCEPT ![m.txn] = "rolled_back"]
    /\ UNCHANGED <<counter, sinceSweep>>

\* mutant: what the cleanup's rollback awaits is never resolved
FinishRollback_Hangs(m) ==
    /\ m \in microtasks
    /\ m.op = "rollback"
    /\ m.by = "caller"
    /\ microtasks' = microtasks \ {m}
    /\ Settle(m.txn, "rolled_back")

FinishRollback(m) ==
    /\ m \in microtasks
    /\ m.op = "rollback"
    /\ microtasks' = microtasks \ {m}
    /\ Settle(m.txn, "rolled_back")

\* commitTransaction's catch: the commit data were refused, so it awaits a
\* rollbackTransaction of its own, which looks the transaction up again.
RejectCommit(m) ==
    /\ m \in microtasks
    /\ m.op = "reject"
    /\ microtasks' = (microtasks \ {m}) \cup
         (IF Found(m.txn) THEN {[m EXCEPT !.op = "rollback"]} ELSE {})
    /\ UNCHANGED <<activeTransactions, age, gauge, counter, sinceSweep,
                   decision>>

-----------------------------------------------------------------------------
(* The cleanup timer, time, and the process.                               *)

\* mutants: one tick too early, one period too late
Orphans_TooEarly == {t \in activeTransactions : age[t] >= Timeout}
Orphans_TooLate == {t \in activeTransactions : age[t] > Timeout + Period}

Orphans == {t \in activeTransactions : age[t] > Timeout}

\* mutant: the callback cuts into the queued halves of callers
Cleanup_Preempts ==
    /\ sinceSweep >= Period
    /\ microtasks' = microtasks \cup
         {[op |-> "rollback", txn |-> t, by |-> "cleanup"] : t \in Orphans}
    /\ sinceSweep' = 0
    /\ UNCHANGED <<activeTransactions, age, gauge, counter, decision>>

\* The setInterval callback: it calls rollbackTransaction for every orphan
\* and does not await it.  Node rearms the timer from when it ran.
Cleanup ==
    /\ microtasks = {}
    /\ sinceSweep >= Period
    /\ microtasks' = {[op |-> "rollback", txn |-> t, by |-> "cleanup"] :
                        t \in Orphans}
    /\ sinceSweep' = 0
    /\ UNCHANGED <<activeTransactions, age, gauge, counter, decision>>

\* Microtasks take no time, and a due timer fires within Jitter.
Tick ==
    /\ microtasks = {}
    /\ sinceSweep < Period + Jitter
    /\ sinceSweep' = sinceSweep + 1
    /\ age' = [t \in Txns |->
                 IF t \in activeTransactions THEN age[t] + 1 ELSE age[t]]
    /\ UNCHANGED <<activeTransactions, gauge, counter, microtasks, decision>>

\* The process dies and a new one starts.  Nothing is persisted: the table,
\* the metrics and the timer begin again, and no outcome is ever recorded
\* for what was active.
Restart ==
    /\ activeTransactions' = {}
    /\ age' = [t \in Txns |-> 0]
    /\ gauge' = [n \in Namespaces |-> 0]
    /\ counter' = [n \in Namespaces |-> [s \in Statuses |-> 0]]
    /\ microtasks' = {}
    /\ sinceSweep' = 0
    /\ decision' = [t \in Txns |->
                      IF decision[t] = "active" THEN "lost" ELSE decision[t]]

-----------------------------------------------------------------------------
Call ==
    \E t \in Txns :
        \/ Begin(t)
        \/ \E valid \in BOOLEAN : CallCommit(t, valid)
        \/ CallRollback(t)

RunMicrotask ==
    \E m \in microtasks : FinishCommit(m) \/ RejectCommit(m) \/ FinishRollback(m)

Next == Call \/ RunMicrotask \/ Cleanup \/ Tick \/ Restart

Spec == Init /\ [][Next]_vars

\* The event loop always runs queued microtasks and due timers, and time
\* passes.  Nothing is assumed of the callers: a send may hang for ever.
Fairness == WF_vars(RunMicrotask) /\ WF_vars(Cleanup) /\ WF_vars(Tick)

FairSpec == Spec /\ Fairness

-----------------------------------------------------------------------------
(* Properties.                                                             *)

ActiveIn(n) == {t \in activeTransactions : NamespaceOf[t] = n}

\* wal_active_transactions is the number of table entries of its namespace,
\* whatever the order in which callers and the cleanup settle them: no
\* transaction is decremented twice and none is forgotten.
GaugeMatchesTable == \A n \in Namespaces : gauge[n] = Cardinality(ActiveIn(n))

\* The counters balance: every transaction counted as started is counted
\* once as committed or rolled back, or is still in the table.
CountersBalance ==
    \A n \in Namespaces :
        counter[n]["started"] = counter[n]["committed"]
            + counter[n]["rolled_back"] + Cardinality(ActiveIn(n))

\* No entry outlives the timeout by more than one period of the cleanup and
\* the lateness of its timer, even if its caller never comes back.
OrphansAreReaped ==
    \A t \in activeTransactions : age[t] <= Timeout + Period + Jitter

\* A queued half always belongs to a transaction that is still in the
\* table, and no two of them to the same one: the lookup before the await
\* is still good when the half runs.
LookupStaysValid ==
    /\ \A m \in microtasks : m.txn \in activeTransactions
    /\ \A m1, m2 \in microtasks : m1.txn = m2.txn => m1 = m2

\* The cleanup only ever rolls back transactions older than the timeout.
OnlyOrphansAreCleaned ==
    \A m \in microtasks : m.by = "cleanup" => age[m.txn] > Timeout

\* Every transaction leaves the table, whether or not anyone finishes it.
EveryTransactionSettles ==
    \A t \in Txns : t \in activeTransactions ~> t \notin activeTransactions

\* The promise of the service to its callers.
Promise == INSTANCE TransactionLifecycle WITH phase <- decision

\* Every behaviour of the service keeps that promise: each id is begun at
\* most once and settled at most once, and a settled id stays as it is.
PromiseKept == Promise!Spec
=============================================================================
