-------------------------- MODULE WalServiceProofs --------------------------
(***************************************************************************)
(* WalService implements the most general caller of the orchestrator, so   *)
(* what is proved of the orchestrator alone holds inside the service.      *)
(* On top of that, RequestInv is what holds of each request: where it is,  *)
(* what it has queued, what the client was told and what Redis has.        *)
(***************************************************************************)
EXTENDS WalService, TLAPS

\* What is proved of the orchestrator, for the service's instance of it.
Shown == INSTANCE TransactionOrchestratorProofs WITH Txns <- Requests

\* What a Redis send returns passes the check of commit, so no commit of the
\* service takes the path of refused data.
LEMMA RedisResultIsValid == CommitDataIsValid(RedisResult) = TRUE
  BY DEF CommitDataIsValid, DurabilityStatus, RedisResult, Durability

\* Every action of the service is one of the orchestrator or does not touch
\* it.
LEMMA StepIsAdmissible == Next => [Orchestrator!Next]_Orchestrator!vars
<1> SUFFICES ASSUME Next PROVE [Orchestrator!Next]_Orchestrator!vars
  OBVIOUS
<1> USE DEF orchestratorVars, Orchestrator!vars
<1>1. ASSUME NEW r \in Requests, Orchestrator!Begin(r)
      PROVE  Orchestrator!Next
  BY <1>1 DEF Orchestrator!Next, Orchestrator!Call
<1>2. ASSUME NEW r \in Requests, Handle(r)
      PROVE  [Orchestrator!Next]_Orchestrator!vars
  <2>1. CASE Receive(r) \/ Looked(r) \/ Rejected(r) \/ Refused(r) \/ QueryFails(r)
    BY <2>1 DEF Receive, Looked, Rejected, Refused, QueryFails
  <2>2. CASE Validated(r) \/ \E healthy \in BOOLEAN : Pinged(r, healthy)
    <3>1. UNCHANGED orchestratorVars \/ Orchestrator!Begin(r)
      BY <2>2 DEF Validated, Pinged, BeginAndSend
    <3> QED
      BY <1>1, <3>1
  <2>3. CASE Appended(r)
    <3>1. UNCHANGED orchestratorVars \/ Orchestrator!CallCommit(r, TRUE)
      BY <2>3, RedisResultIsValid, Zenon DEF Appended
    <3> QED
      BY <3>1 DEF Orchestrator!Next, Orchestrator!Call
  <2>4. CASE SendFails(r) \/ MockAnswers(r)
    <3>1. UNCHANGED orchestratorVars \/ Orchestrator!CallRollback(r)
      BY <2>4 DEF SendFails, MockAnswers
    <3> QED
      BY <3>1 DEF Orchestrator!Next, Orchestrator!Call
  <2>5. CASE Committed(r) \/ Undone(r) \/ Aborted(r)
    <3>1. \E m \in microtasks :
            Orchestrator!FinishCommit(m) \/ Orchestrator!FinishRollback(m)
      BY <2>5 DEF Committed, Undone, Aborted
    <3> QED
      BY <3>1 DEF Orchestrator!Next, Orchestrator!RunMicrotask
  <2> QED
    BY <1>2, <2>1, <2>2, <2>3, <2>4, <2>5 DEF Handle
<1>3. ASSUME NEW r \in Requests, RedisAppends(r)
      PROVE  [Orchestrator!Next]_Orchestrator!vars
  BY <1>3 DEF RedisAppends
<1>4. CASE Administer
  BY <1>4 DEF Administer
<1>5. CASE CleanupTimer \/ TimePasses \/ Crash
  BY <1>5 DEF CleanupTimer, TimePasses, Crash, Orchestrator!Next
<1>6. CASE CleanupRollsBack
  BY <1>6 DEF CleanupRollsBack, Orchestrator!Next, Orchestrator!RunMicrotask
<1> QED
  BY <1>2, <1>3, <1>4, <1>5, <1>6 DEF Next

\* writeToLog, the crash and the timers use the orchestrator as its module
\* assumes of callers: a call only where Node could make it, one sequential
\* caller per transaction, and no second half that was not queued.
THEOREM UsesOrchestratorThm == Spec => UsesOrchestrator
<1>1. Init => Orchestrator!Init
  BY DEF Init
<1>2. [Next]_vars => [Orchestrator!Next]_Orchestrator!vars
  <2>1. CASE Next
    BY <2>1, StepIsAdmissible
  <2>2. CASE UNCHANGED vars
    BY <2>2 DEF vars, orchestratorVars, Orchestrator!vars
  <2> QED
    BY <2>1, <2>2
<1> QED
  BY <1>1, <1>2, PTL DEF Spec, UsesOrchestrator, Orchestrator!Spec

-----------------------------------------------------------------------------
(* What the service inherits.                                              *)

LEMMA ShownAssumptions == Shown!NamespaceAssumption /\ Shown!TimeAssumption
  BY RequestAssumption DEF Shown!NamespaceAssumption, Shown!TimeAssumption

\* The two instances are of the same module.
LEMMA SameInit == Orchestrator!Init => Shown!Init
  BY DEF Orchestrator!Init, Shown!Init, Orchestrator!Statuses, Shown!Statuses

LEMMA SameNext ==
    [Orchestrator!Next]_Orchestrator!vars => [Shown!Next]_Shown!vars
<1> USE DEF Orchestrator!MayCall, Shown!MayCall, Orchestrator!Found, Shown!Found,
            Orchestrator!Count, Shown!Count, Orchestrator!Settle, Shown!Settle
<1>1. ASSUME NEW t \in Requests
      PROVE  /\ Orchestrator!Begin(t) => Shown!Begin(t)
             /\ Orchestrator!CallRollback(t) => Shown!CallRollback(t)
             /\ \A valid : Orchestrator!CallCommit(t, valid) => Shown!CallCommit(t, valid)
  BY DEF Orchestrator!Begin, Shown!Begin, Orchestrator!CallRollback,
         Shown!CallRollback, Orchestrator!CallCommit, Shown!CallCommit
<1>2. Orchestrator!Call => Shown!Call
  BY <1>1 DEF Orchestrator!Call, Shown!Call
<1>3. ASSUME NEW m \in microtasks
      PROVE  /\ Orchestrator!FinishCommit(m) => Shown!FinishCommit(m)
             /\ Orchestrator!FinishRollback(m) => Shown!FinishRollback(m)
             /\ Orchestrator!RejectCommit(m) => Shown!RejectCommit(m)
  BY DEF Orchestrator!FinishCommit, Shown!FinishCommit,
         Orchestrator!FinishRollback, Shown!FinishRollback,
         Orchestrator!RejectCommit, Shown!RejectCommit
<1>4. Orchestrator!RunMicrotask => Shown!RunMicrotask
  BY <1>3 DEF Orchestrator!RunMicrotask, Shown!RunMicrotask
<1>5. Orchestrator!Cleanup => Shown!Cleanup
  BY DEF Orchestrator!Cleanup, Shown!Cleanup, Orchestrator!Orphans,
         Shown!Orphans, Orchestrator!Period, Shown!Period
<1>6. Orchestrator!Tick => Shown!Tick
  BY DEF Orchestrator!Tick, Shown!Tick, Orchestrator!Period, Shown!Period
<1>7. Orchestrator!Restart => Shown!Restart
  BY DEF Orchestrator!Restart, Shown!Restart, Orchestrator!Statuses, Shown!Statuses
<1> QED
  BY <1>2, <1>4, <1>5, <1>6, <1>7
     DEF Orchestrator!Next, Shown!Next, Orchestrator!vars, Shown!vars

LEMMA ServiceIsShown == Spec => Shown!Spec
<1>1. Init => Shown!Init
  BY SameInit DEF Init
<1>2. [Next]_vars => [Shown!Next]_Shown!vars
  <2>1. CASE Next
    BY <2>1, StepIsAdmissible, SameNext
  <2>2. CASE UNCHANGED vars
    BY <2>2 DEF vars, orchestratorVars, Shown!vars
  <2> QED
    BY <2>1, <2>2
<1> QED
  BY <1>1, <1>2, PTL DEF Spec, Shown!Spec

\* A half that is queued is the only one of its transaction, which is in the
\* table; the table holds what was begun and has no outcome yet.
LEMMA QueueIsSafe == Spec => []Shown!QueueInv
  BY ServiceIsShown, Shown!QueueIsSafe, ShownAssumptions, PTL

LEMMA OrchestratorTypes == Spec => []Orchestrator!TypeOK
<1>1. Shown!TypeOK => Orchestrator!TypeOK
  BY DEF Shown!TypeOK, Orchestrator!TypeOK, Shown!Statuses, Orchestrator!Statuses,
         Shown!Microtask, Orchestrator!Microtask, Shown!Decisions,
         Orchestrator!Decisions
<1>2. Shown!Spec => []Shown!TypeOK
  BY Shown!TypeCorrect, ShownAssumptions
<1> QED
  BY <1>1, <1>2, ServiceIsShown, PTL

-----------------------------------------------------------------------------
(* The invariant of each request.                                          *)

TypeInv ==
    /\ registry \in [Namespaces -> Configs \cup {Absent}]
    /\ pc \in [Requests -> Waiting \cup {"new", "answered", "dead"}]
    /\ producer \in [Requests -> Backends \cup {"kafka", "sqs", None}]
    /\ reply \in [Requests -> [status : {None, "accepted"} \cup Errors,
                               durable : {None} \cup Durability,
                               errorType : {None} \cup Exceptions]]
    /\ activeMessages \in [Namespaces -> Nat]
    /\ copies \in [Requests -> 0 .. MaxCopies]
    /\ seen \in [Requests -> SUBSET (Backends \cup {"enabled"})]

\* Before its transaction begins nothing of a request is anywhere; one that
\* went to Redis and one that went to a mock stay apart; its answer, its
\* outcome and the stream agree; and the halves it queued are those it
\* waits for.
RequestOK(r) ==
    /\ pc[r] \in {"new", "lookup", "validate", "ping"} => decision[r] = "unused"
    /\ pc[r] \in {"validate", "ping"} => producer[r] \in Backends
    /\ pc[r] = "ping" => producer[r] = "redis"
    /\ pc[r] \in {"xadd", "commit", "abort"} =>
           producer[r] = "redis" /\ decision[r] # "unused"
    /\ pc[r] \in {"mock", "undo"} => producer[r] # "redis"
    /\ pc[r] = "mock" => Orchestrator!MayCall(r) /\ Orchestrator!Found(r)
    /\ pc[r] = "commit" => copies[r] > 0
    /\ pc[r] = "answered" => r \notin activeTransactions
    /\ reply[r] # Unanswered => pc[r] = "answered"
    /\ copies[r] > 0 => producer[r] = "redis" /\ decision[r] # "unused"
    /\ Succeeded(r) /\ producer[r] = "redis" => copies[r] > 0
    /\ decision[r] = "committed" => Succeeded(r) /\ copies[r] > 0
    /\ \A m \in microtasks : m.txn = r /\ m.by = "caller" =>
           \/ m.op = "commit" /\ pc[r] = "commit"
           \/ m.op = "rollback" /\ pc[r] \in {"undo", "abort"}

RequestInv == TypeInv /\ \A r \in Requests : RequestOK(r)

LEMMA RequestInit == Init => RequestInv
<1> SUFFICES ASSUME Init PROVE RequestInv
  OBVIOUS
<1>1. TypeInv
  BY RequestAssumption DEF Init, TypeInv, Unanswered, None
<1>2. ASSUME NEW r \in Requests PROVE RequestOK(r)
  BY DEF Init, RequestOK, Succeeded, Unanswered, None, Orchestrator!Init
<1> QED
  BY <1>1, <1>2 DEF RequestInv

\* A producer is chosen among the three, and Redis only when it is healthy.
LEMMA SelectProducerType ==
    ASSUME NEW backend \in {"redis", "kafka", "sqs"}, NEW healthy \in BOOLEAN
    PROVE  /\ SelectProducer(backend, healthy) \in {"redis", "kafka", "sqs"}
           /\ SelectProducer(backend, healthy) = "redis" => healthy
<1> DEFINE order == <<backend>> \o FallbackOrder(backend)
           good == {i \in DOMAIN order : order[i] # "redis" \/ healthy}
           first == CHOOSE i \in good : \A j \in good : i <= j
<1>1. /\ DOMAIN order = 1 .. 3
      /\ \A i \in 1 .. 3 : order[i] \in {"redis", "kafka", "sqs"}
      /\ order[1] # "redis" \/ order[2] # "redis"
  BY DEF FallbackOrder
<1>2. \E i \in good : \A j \in good : i <= j
  <2>1. CASE 1 \in good
    BY <1>1, <2>1
  <2>2. CASE 1 \notin good
    BY <1>1, <2>2
  <2> QED
    BY <2>1, <2>2
<1> HIDE DEF order, good
<1>3. first \in good
  BY <1>2
<1>4. SelectProducer(backend, healthy) = order[first]
  BY DEF SelectProducer, order, good
<1> QED
  BY <1>1, <1>3, <1>4 DEF good

\* What a step of another request leaves alone.
LEMMA OtherRequest ==
    ASSUME NEW q \in Requests, RequestOK(q),
           pc'[q] = pc[q], producer'[q] = producer[q], reply'[q] = reply[q],
           copies'[q] = copies[q], decision'[q] = decision[q],
           q \in activeTransactions' <=> q \in activeTransactions,
           \A m \in microtasks' : m \in microtasks \/ (m.by = "caller" /\ m.txn # q)
    PROVE  RequestOK(q)'
  BY DEF RequestOK, Succeeded, Orchestrator!MayCall, Orchestrator!Found

\* The facts about the queue that the steps need.
LEMMA QueueFacts ==
    ASSUME Shown!QueueInv
    PROVE  /\ decision \in [Requests -> {"unused", "active", "committed",
                                         "rolled_back", "lost"}]
           /\ \A r \in Requests : r \in activeTransactions <=> decision[r] = "active"
           /\ \A m \in microtasks : m.txn \in activeTransactions /\ m.txn \in Requests
           /\ \A m1, m2 \in microtasks : m1.txn = m2.txn => m1 = m2
  BY DEF Shown!QueueInv, Shown!Decisions, Shown!TableIsDecision,
         Shown!LookupStaysValid

\* A step of request r, whose own facts are shown first.
LEMMA StepOf ==
    ASSUME RequestInv, NEW r \in Requests, TypeInv', RequestOK(r)',
           \A q \in Requests \ {r} :
               /\ pc'[q] = pc[q] /\ producer'[q] = producer[q]
               /\ reply'[q] = reply[q] /\ copies'[q] = copies[q]
               /\ decision'[q] = decision[q]
               /\ q \in activeTransactions' <=> q \in activeTransactions,
           \A m \in microtasks' : m \in microtasks \/ (m.by = "caller" /\ m.txn = r)
    PROVE  RequestInv'
  BY OtherRequest DEF RequestInv

LEMMA RowType ==
    ASSUME TypeInv, NEW r \in Requests
    PROVE  /\ Facts(Row(r)) \subseteq Backends \cup {"enabled"}
           /\ Found(r) => Row(r).backend \in Backends
<1>1. Row(r) = Absent \/ Row(r) \in Configs
  BY RequestAssumption DEF TypeInv, Row
<1> QED
  BY <1>1 DEF Facts, Found, Configs

\* The steps before a transaction: the request goes on, or is turned away.
LEMMA EarlySteps ==
    ASSUME Shown!QueueInv, RequestInv, NEW r \in Requests,
           Receive(r) \/ Looked(r) \/ Rejected(r) \/ Refused(r) \/ QueryFails(r)
    PROVE  RequestInv'
<1> USE DEF Goto, Throw, Forget, orchestratorVars
<1>1. TypeInv /\ RequestOK(r)
  BY DEF RequestInv
<1>2. CASE Receive(r)
  <2>1. TypeInv'
    BY <1>1, <1>2, RowType DEF Receive, TypeInv, Waiting
  <2>2. RequestOK(r)'
    BY <1>1, <1>2 DEF Receive, TypeInv, RequestOK, Succeeded
  <2>3. /\ \A q \in Requests \ {r} : pc'[q] = pc[q]
        /\ UNCHANGED <<producer, reply, copies, decision, activeTransactions, microtasks>>
    BY <1>1, <1>2 DEF Receive, TypeInv
  <2> QED
    BY <2>1, <2>2, <2>3, StepOf
<1>3. CASE Looked(r)
  <2>1. TypeInv'
    BY <1>1, <1>3, RowType DEF Looked, TypeInv, Waiting
  <2>2. RequestOK(r)'
    BY <1>1, <1>3, RowType DEF Looked, TypeInv, RequestOK, Succeeded, Unanswered, None
  <2>3. /\ \A q \in Requests \ {r} : pc'[q] = pc[q] /\ producer'[q] = producer[q]
        /\ UNCHANGED <<reply, copies, decision, activeTransactions, microtasks>>
    BY <1>1, <1>3 DEF Looked, TypeInv
  <2> QED
    BY <2>1, <2>2, <2>3, StepOf
<1>4. ASSUME NEW error \in Exceptions, pc[r] \in {"lookup", "validate"},
             Throw(r, error), UNCHANGED <<registry, producer, copies, orchestratorVars>>
      PROVE  RequestInv'
  <2>1. TypeInv'
    BY <1>1, <1>4 DEF TypeInv, Waiting, Errors, None
  <2>2. RequestOK(r)'
    BY <1>1, <1>4, QueueFacts DEF TypeInv, RequestOK, Succeeded
  <2>3. /\ \A q \in Requests \ {r} : pc'[q] = pc[q] /\ reply'[q] = reply[q]
        /\ UNCHANGED <<producer, copies, decision, activeTransactions, microtasks>>
    BY <1>1, <1>4 DEF TypeInv
  <2> QED
    BY <2>1, <2>2, <2>3, StepOf
<1>5. CASE Rejected(r) \/ Refused(r) \/ QueryFails(r)
  <2>1. \E error \in Exceptions : Throw(r, error)
    BY <1>5 DEF Rejected, Refused, QueryFails, Exceptions, Errors
  <2>2. /\ pc[r] \in {"lookup", "validate"}
        /\ UNCHANGED <<registry, producer, copies, orchestratorVars>>
    BY <1>5 DEF Rejected, Refused, QueryFails
  <2> QED
    BY <1>4, <2>1, <2>2
<1> QED
  BY <1>2, <1>3, <1>5

\* The transaction begins and the message goes out.
LEMMA SendSteps ==
    ASSUME Shown!QueueInv, RequestInv, NEW r \in Requests,
           Validated(r) \/ \E healthy \in BOOLEAN : Pinged(r, healthy)
    PROVE  RequestInv'
<1>1. TypeInv /\ RequestOK(r)
  BY DEF RequestInv
<1>2. ASSUME NEW backend \in Backends \cup {"kafka", "sqs"},
             pc[r] \in {"validate", "ping"}, BeginAndSend(r, backend)
      PROVE  RequestInv'
  <2> USE DEF BeginAndSend, Goto, Forget, Orchestrator!Begin
  <2>1. TypeInv'
    BY <1>1, <1>2 DEF TypeInv, Waiting
  <2>2. RequestOK(r)'
    BY <1>1, <1>2, QueueFacts
       DEF TypeInv, RequestOK, Succeeded, Unanswered, None, Orchestrator!MayCall,
           Orchestrator!Found
  <2>3. /\ \A q \in Requests \ {r} :
              /\ pc'[q] = pc[q] /\ producer'[q] = producer[q]
              /\ decision'[q] = decision[q]
              /\ q \in activeTransactions' <=> q \in activeTransactions
        /\ UNCHANGED <<reply, copies, microtasks>>
    BY <1>1, <1>2, QueueFacts DEF TypeInv
  <2> QED
    BY <2>1, <2>2, <2>3, StepOf
<1>3. CASE Validated(r)
  <2>1. CASE producer[r] = "redis"
    <3> USE DEF Validated, Goto, orchestratorVars
    <3>1. TypeInv'
      BY <1>1, <1>3, <2>1 DEF TypeInv, Waiting
    <3>2. RequestOK(r)'
      BY <1>1, <1>3, <2>1 DEF TypeInv, RequestOK, Succeeded
    <3>3. /\ \A q \in Requests \ {r} : pc'[q] = pc[q]
          /\ UNCHANGED <<producer, reply, copies, decision, activeTransactions, microtasks>>
      BY <1>1, <1>3, <2>1 DEF TypeInv
    <3> QED
      BY <3>1, <3>2, <3>3, StepOf
  <2>2. CASE producer[r] # "redis"
    <3>1. pc[r] = "validate" /\ BeginAndSend(r, SelectProducer(producer[r], FALSE))
      BY <1>3, <2>2 DEF Validated
    <3>2. SelectProducer(producer[r], FALSE) \in {"kafka", "sqs"}
      <4>1. producer[r] \in {"redis", "kafka", "sqs"}
        BY <1>1, <3>1, RequestAssumption DEF RequestOK
      <4> QED
        BY <4>1, SelectProducerType
    <3> QED
      BY <1>2, <3>1, <3>2
  <2> QED
    BY <2>1, <2>2
<1>4. ASSUME NEW healthy \in BOOLEAN, Pinged(r, healthy) PROVE RequestInv'
  <2>1. pc[r] = "ping" /\ BeginAndSend(r, SelectProducer("redis", healthy))
    BY <1>4 DEF Pinged
  <2>2. SelectProducer("redis", healthy) \in Backends \cup {"kafka", "sqs"}
    BY <1>1, <2>1, SelectProducerType DEF RequestOK
  <2> QED
    BY <1>2, <2>1, <2>2
<1> QED
  BY <1>3, <1>4

LEMMA DurabilityStatusType ==
    ASSUME NEW result PROVE DurabilityStatus(result) \in Durability
  BY DEF DurabilityStatus, Durability

\* An answer of either kind to a request whose transaction is settled.
LEMMA AnswerStep ==
    ASSUME Shown!QueueInv, Shown!QueueInv', RequestInv, NEW r \in Requests,
           \/ \E error \in Exceptions : Throw(r, error) /\ decision'[r] # "committed"
           \/ /\ \E result : Accept(r, result)
              /\ producer[r] = "redis" => copies[r] > 0
              /\ decision'[r] = "committed" => copies[r] > 0,
           decision[r] # "unused" => decision'[r] # "unused",
           r \notin activeTransactions',
           UNCHANGED <<registry, producer, copies>>,
           \A q \in Requests \ {r} : decision'[q] = decision[q],
           microtasks' \subseteq microtasks
    PROVE  RequestInv'
<1> USE DEF Goto, Throw, Accept, Forget
<1>1. TypeInv /\ RequestOK(r)
  BY DEF RequestInv
<1>2. TypeInv'
  <2>1. ASSUME NEW error \in Exceptions, Throw(r, error) PROVE TypeInv'
    BY <1>1, <2>1 DEF TypeInv, Errors, None
  <2>2. ASSUME NEW result, Accept(r, result) PROVE TypeInv'
    <3>1. NamespaceOf[r] \in Namespaces
      BY RequestAssumption
    <3>2. /\ activeMessages' \in [Namespaces -> Nat]
          /\ reply' \in [Requests -> [status : {None, "accepted"} \cup Errors,
                                      durable : {None} \cup Durability,
                                      errorType : {None} \cup Exceptions]]
      BY <1>1, <2>2, <3>1, DurabilityStatusType DEF TypeInv
    <3> QED
      BY <1>1, <2>2, <3>2 DEF TypeInv
  <2> QED
    BY <2>1, <2>2
<1>3. \A m \in microtasks' : m.txn # r
  BY DEF Shown!QueueInv, Shown!LookupStaysValid
<1>4. RequestOK(r)'
  BY <1>1, <1>3 DEF TypeInv, RequestOK, Succeeded, Unanswered, None, Errors
<1>5. \A q \in Requests \ {r} :
        /\ pc'[q] = pc[q] /\ reply'[q] = reply[q]
        /\ q \in activeTransactions' <=> q \in activeTransactions
  BY <1>1 DEF TypeInv, Shown!QueueInv, Shown!TableIsDecision
<1> QED
  BY <1>2, <1>4, <1>5, StepOf

\* A half is queued, and the request waits for it.
LEMMA QueueStep ==
    ASSUME Shown!QueueInv, RequestInv, NEW r \in Requests,
           NEW label \in {"commit", "undo", "abort"}, Goto(r, label),
           \/ pc[r] = "xadd" /\ label = "commit" /\ copies[r] > 0
              /\ Orchestrator!CallCommit(r, TRUE)
           \/ pc[r] = "xadd" /\ label = "abort" /\ Orchestrator!CallRollback(r)
           \/ pc[r] = "mock" /\ label = "undo" /\ Orchestrator!CallRollback(r),
           UNCHANGED <<registry, producer, reply, activeMessages, copies, seen>>
    PROVE  RequestInv'
<1> USE DEF Goto, Orchestrator!CallCommit, Orchestrator!CallRollback
<1>1. TypeInv /\ RequestOK(r)
  BY DEF RequestInv
<1>2. TypeInv'
  BY <1>1 DEF TypeInv, Waiting
<1>3. RequestOK(r)'
  BY <1>1, QueueFacts
     DEF TypeInv, RequestOK, Succeeded, Unanswered, None, Orchestrator!MayCall
<1>4. /\ \A q \in Requests \ {r} : pc'[q] = pc[q]
      /\ \A m \in microtasks' : m \in microtasks \/ (m.by = "caller" /\ m.txn = r)
      /\ UNCHANGED <<decision, activeTransactions>>
  BY <1>1 DEF TypeInv
<1> QED
  BY <1>2, <1>3, <1>4, StepOf

\* The replies of the producers, and what follows the orchestrator's calls.
LEMMA LateSteps ==
    ASSUME Shown!QueueInv, Shown!QueueInv', RequestInv, NEW r \in Requests,
           \/ Appended(r) \/ SendFails(r) \/ MockAnswers(r)
           \/ Committed(r) \/ Undone(r) \/ Aborted(r)
    PROVE  RequestInv'
<1>1. TypeInv /\ RequestOK(r)
  BY DEF RequestInv
<1>2. "RedisError" \in Exceptions
  BY DEF Exceptions
<1>3. pc[r] = "xadd" => decision[r] # "committed"
  BY <1>1 DEF RequestOK, Succeeded, Unanswered, None
<1>4. CASE Appended(r) /\ ~Orchestrator!CallCommit(r, CommitDataIsValid(RedisResult))
  BY <1>1, <1>4, AnswerStep DEF Appended, Orchestrator!Found, orchestratorVars
<1>5. CASE Appended(r) /\ Orchestrator!CallCommit(r, CommitDataIsValid(RedisResult))
  <2>1. Orchestrator!CallCommit(r, TRUE)
    BY <1>5, RedisResultIsValid, Zenon
  <2>2. Goto(r, "commit") /\ UNCHANGED <<reply, activeMessages, seen>>
    BY <1>5 DEF Appended, Orchestrator!CallCommit, Orchestrator!Found
  <2>3. pc[r] = "xadd" /\ copies[r] > 0 /\ UNCHANGED <<registry, producer, copies>>
    BY <1>5 DEF Appended
  <2> QED
    BY <2>1, <2>2, <2>3, QueueStep
<1>6. CASE SendFails(r)
  <2>1. CASE Orchestrator!CallRollback(r) /\ Goto(r, "abort")
    <3>1. UNCHANGED <<reply, activeMessages, seen>>
      BY <1>6, <2>1 DEF SendFails, Orchestrator!CallRollback, Orchestrator!Found
    <3> QED
      BY <1>6, <2>1, <3>1, QueueStep DEF SendFails
  <2>2. CASE ~Orchestrator!Found(r) /\ Throw(r, "RedisError") /\ UNCHANGED orchestratorVars
    BY <1>2, <1>3, <1>6, <2>2, AnswerStep
       DEF SendFails, Orchestrator!Found, orchestratorVars
  <2> QED
    BY <1>6, <2>1, <2>2 DEF SendFails
<1>7. CASE MockAnswers(r)
  BY <1>7, QueueStep DEF MockAnswers
<1>8. ASSUME NEW m \in microtasks, m.txn = r, NEW status \in {"committed", "rolled_back"},
             microtasks' = microtasks \ {m}, Orchestrator!Settle(r, status)
      PROVE  /\ decision'[r] = status
             /\ r \notin activeTransactions'
             /\ \A q \in Requests \ {r} : decision'[q] = decision[q]
  BY <1>8, QueueFacts DEF Orchestrator!Settle
<1>9. CASE Committed(r)
  BY <1>1, <1>8, <1>9, AnswerStep
     DEF Committed, Orchestrator!FinishCommit, RequestOK
<1>10. CASE Undone(r)
  BY <1>1, <1>8, <1>10, AnswerStep
     DEF Undone, Orchestrator!FinishRollback, RequestOK
<1>11. CASE Aborted(r)
  BY <1>2, <1>8, <1>11, AnswerStep DEF Aborted, Orchestrator!FinishRollback
<1> QED
  BY <1>4, <1>5, <1>6, <1>7, <1>9, <1>10, <1>11

\* Redis, the administrator, the timers and the crash.
LEMMA OtherSteps ==
    ASSUME Shown!QueueInv, Shown!QueueInv', RequestInv,
           \/ \E r \in Requests : RedisAppends(r)
           \/ Administer \/ CleanupTimer \/ CleanupRollsBack \/ TimePasses \/ Crash
           \/ UNCHANGED vars
    PROVE  RequestInv'
<1>1. TypeInv /\ \A q \in Requests : RequestOK(q)
  BY DEF RequestInv
<1>2. ASSUME NEW r \in Requests, RedisAppends(r) PROVE RequestInv'
  <2>1. TypeInv'
    BY <1>1, <1>2, RequestAssumption DEF RedisAppends, TypeInv
  <2>2. RequestOK(r)'
    BY <1>1, <1>2, RequestAssumption
       DEF RedisAppends, TypeInv, RequestOK, Succeeded, orchestratorVars,
           Orchestrator!MayCall, Orchestrator!Found
  <2>3. /\ \A q \in Requests \ {r} : copies'[q] = copies[q]
        /\ UNCHANGED <<pc, producer, reply, decision, activeTransactions, microtasks>>
    BY <1>1, <1>2 DEF RedisAppends, TypeInv, orchestratorVars
  <2> QED
    BY <2>1, <2>2, <2>3, StepOf
<1>3. ASSUME TypeInv', UNCHANGED <<pc, producer, reply, copies, decision,
                                   activeTransactions, microtasks>>
      PROVE  RequestInv'
  BY <1>1, <1>3, OtherRequest DEF RequestInv
<1>4. CASE Administer
  <2>1. TypeInv'
    <3>1. ASSUME NEW n \in Namespaces, NEW row \in Configs \cup {Absent}
          PROVE  Facts(row) \subseteq Backends \cup {"enabled"}
      BY DEF Facts, Configs
    <3> QED
      BY <1>1, <1>4, <3>1 DEF Administer, TypeInv
  <2> QED
    BY <1>3, <1>4, <2>1 DEF Administer, orchestratorVars
<1>5. CASE TimePasses \/ UNCHANGED vars
  <2>1. UNCHANGED requestVars /\ UNCHANGED <<decision, activeTransactions, microtasks>>
    BY <1>5 DEF TimePasses, vars, orchestratorVars, Orchestrator!Tick
  <2> QED
    BY <1>1, <1>3, <2>1 DEF requestVars, TypeInv
<1>6. CASE CleanupTimer
  <2>1. TypeInv'
    BY <1>1, <1>6 DEF CleanupTimer, requestVars, TypeInv
  <2>2. ASSUME NEW q \in Requests PROVE RequestOK(q)'
    BY <1>1, <1>6
       DEF CleanupTimer, requestVars, LoopIsIdle, Orchestrator!Cleanup, RequestOK,
           Succeeded
  <2> QED
    BY <2>1, <2>2 DEF RequestInv
<1>7. CASE CleanupRollsBack
  <2> PICK m \in microtasks : m.by = "cleanup" /\ Orchestrator!FinishRollback(m)
    BY <1>7 DEF CleanupRollsBack
  <2>1. TypeInv'
    BY <1>1, <1>7 DEF CleanupRollsBack, requestVars, TypeInv
  <2>2. ASSUME NEW q \in Requests, q # m.txn PROVE RequestOK(q)'
    BY <1>1, <1>7, <2>2, QueueFacts, OtherRequest
       DEF CleanupRollsBack, requestVars, Orchestrator!FinishRollback,
           Orchestrator!Settle
  <2>3. RequestOK(m.txn)'
    BY <1>1, <1>7, QueueFacts
       DEF CleanupRollsBack, requestVars, Orchestrator!FinishRollback,
           Orchestrator!Settle, RequestOK, Succeeded, Orchestrator!MayCall
  <2> QED
    BY <2>1, <2>2, <2>3 DEF RequestInv
<1>8. CASE Crash
  <2>1. TypeInv'
    BY <1>1, <1>8 DEF Crash, TypeInv, Waiting
  <2>2. ASSUME NEW q \in Requests PROVE RequestOK(q)'
    BY <1>1, <1>8, QueueFacts
       DEF Crash, Orchestrator!Restart, TypeInv, RequestOK, Succeeded, Waiting,
           Unanswered, None
  <2> QED
    BY <2>1, <2>2 DEF RequestInv
<1> QED
  BY <1>2, <1>4, <1>5, <1>6, <1>7, <1>8

LEMMA RequestNext ==
    Shown!QueueInv /\ Shown!QueueInv' /\ RequestInv /\ [Next]_vars => RequestInv'
<1> SUFFICES ASSUME Shown!QueueInv, Shown!QueueInv', RequestInv, [Next]_vars
             PROVE  RequestInv'
  OBVIOUS
<1>1. ASSUME NEW r \in Requests, Handle(r) PROVE RequestInv'
  BY <1>1, EarlySteps, SendSteps, LateSteps DEF Handle
<1> QED
  BY <1>1, OtherSteps DEF Next

LEMMA RequestsAreSafe == Spec => []RequestInv
  BY RequestInit, RequestNext, QueueIsSafe, PTL DEF Spec

\* Types, those of the orchestrator included.
THEOREM TypeCorrect == Spec => []TypeOK
<1>1. RequestInv /\ Orchestrator!TypeOK => TypeOK
  BY DEF RequestInv, TypeInv, TypeOK
<1> QED
  BY <1>1, RequestsAreSafe, OrchestratorTypes, PTL

\* No path out of writeToLog leaves a transaction for the cleanup.
THEOREM AnsweredLeavesNothingOpenThm == Spec => []AnsweredLeavesNothingOpen
<1>1. RequestInv => AnsweredLeavesNothingOpen
  BY DEF RequestInv, RequestOK, AnsweredLeavesNothingOpen
<1> QED
  BY <1>1, RequestsAreSafe, PTL

\* What counts as committed is in the stream.
THEOREM CommittedIsStoredThm == Spec => []CommittedIsStored
<1>1. RequestInv => CommittedIsStored
  BY DEF RequestInv, RequestOK, CommittedIsStored
<1> QED
  BY <1>1, RequestsAreSafe, PTL

\* Who was told of an error has no committed transaction.
THEOREM FailedIsNotCommittedThm == Spec => []FailedIsNotCommitted
<1>1. RequestInv => FailedIsNotCommitted
  BY DEF RequestInv, RequestOK, FailedIsNotCommitted, Failed, Succeeded, Errors
<1> QED
  BY <1>1, RequestsAreSafe, PTL

\* What was accepted and went to Redis is in the stream.
THEOREM AcceptedByRedisIsStoredThm == Spec => []AcceptedByRedisIsStored
<1>1. RequestInv => AcceptedByRedisIsStored
  BY DEF RequestInv, RequestOK, AcceptedByRedisIsStored
<1> QED
  BY <1>1, RequestsAreSafe, PTL

\* The timer never comes between a mock's answer and its rollback.
THEOREM CallsAreAdmissibleThm == Spec => []CallsAreAdmissible
<1>1. RequestInv => CallsAreAdmissible
  BY DEF RequestInv, RequestOK, CallsAreAdmissible
<1> QED
  BY <1>1, RequestsAreSafe, PTL

-----------------------------------------------------------------------------
(* Whose turn it is.                                                       *)

\* A handler of one request touches no other: neither what the client of the
\* other knows, nor its transaction, nor the halves it has queued.
LEMMA HandleFrame ==
    ASSUME Shown!QueueInv, TypeInv, Orchestrator!TypeOK, NEW r \in Requests, Handle(r)
    PROVE  /\ \A q \in Requests \ {r} :
                /\ pc'[q] = pc[q] /\ producer'[q] = producer[q] /\ reply'[q] = reply[q]
                /\ decision'[q] = decision[q] /\ age'[q] = age[q]
                /\ q \in activeTransactions' <=> q \in activeTransactions
           /\ \A m : m.txn # r => (m \in microtasks' <=> m \in microtasks)
           /\ UNCHANGED copies
<1> USE DEF Goto, Throw, Accept
<1>1. age \in [Requests -> Nat]
  BY DEF Orchestrator!TypeOK
<1>2. CASE Receive(r) \/ Looked(r) \/ Rejected(r) \/ Refused(r) \/ QueryFails(r)
  BY <1>2
     DEF Receive, Looked, Rejected, Refused, QueryFails, TypeInv, orchestratorVars
<1>3. CASE Validated(r) \/ \E healthy \in BOOLEAN : Pinged(r, healthy)
  <2>1. CASE \E backend : BeginAndSend(r, backend)
    BY <1>1, <2>1, QueueFacts DEF BeginAndSend, Orchestrator!Begin, TypeInv
  <2>2. CASE Validated(r) /\ producer[r] = "redis"
    BY <2>2 DEF Validated, TypeInv, orchestratorVars
  <2> QED
    BY <1>3, <2>1, <2>2 DEF Validated, Pinged
<1>4. CASE Appended(r) \/ SendFails(r) \/ MockAnswers(r)
  BY <1>4
     DEF Appended, SendFails, MockAnswers, TypeInv, orchestratorVars,
         Orchestrator!CallCommit, Orchestrator!CallRollback
<1>5. CASE Committed(r) \/ Undone(r) \/ Aborted(r)
  <2>1. /\ \E m \in microtasks :
             /\ m.txn = r /\ microtasks' = microtasks \ {m}
             /\ \E status : Orchestrator!Settle(r, status)
        /\ UNCHANGED copies
    BY <1>5 DEF Committed, Undone, Aborted, Orchestrator!FinishCommit,
                Orchestrator!FinishRollback
  <2>2. \A q \in Requests \ {r} :
          pc'[q] = pc[q] /\ producer'[q] = producer[q] /\ reply'[q] = reply[q]
    BY <1>5 DEF Committed, Undone, Aborted, TypeInv
  <2> QED
    BY <1>1, <2>1, <2>2, QueueFacts DEF Orchestrator!Settle
<1> QED
  BY <1>2, <1>3, <1>4, <1>5 DEF Handle

\* A request that waits for the orchestrator has its half in the queue, a
\* dead one has nothing open, a transaction is lost only with its request,
\* and only one whose message went to Redis grows older.
WaitOK(r) ==
    /\ pc[r] \in {"commit", "undo", "abort"} => HalfOf(r) \in microtasks
    /\ pc[r] = "dead" => r \notin activeTransactions
    /\ decision[r] = "lost" => pc[r] = "dead"
    /\ r \notin activeTransactions \/ producer[r] # "redis" => age[r] = 0

WaitInv == \A r \in Requests : WaitOK(r)

LEMMA WaitHandle ==
    ASSUME Shown!QueueInv, RequestInv, Orchestrator!TypeOK, WaitInv,
           NEW r \in Requests, Handle(r)
    PROVE  WaitInv'
<1> USE DEF Goto, Throw, Accept, Orchestrator!TypeOK, TypeInv
<1>1. TypeInv /\ RequestOK(r) /\ WaitOK(r)
  BY DEF RequestInv, WaitInv
<1>2. ASSUME NEW q \in Requests, q # r PROVE WaitOK(q)'
  <2>1. HalfOf(q).txn = q /\ (pc'[q] = pc[q] => HalfOf(q)' = HalfOf(q))
    BY DEF HalfOf
  <2> QED
    BY <1>1, <1>2, <2>1, HandleFrame DEF WaitInv, WaitOK
<1>3. WaitOK(r)'
  <2>1. CASE Receive(r) \/ Looked(r) \/ Rejected(r) \/ Refused(r) \/ QueryFails(r)
    BY <1>1, <2>1, QueueFacts
       DEF Receive, Looked, Rejected, Refused, QueryFails, orchestratorVars,
           RequestOK, WaitOK
  <2>2. CASE Validated(r) \/ \E healthy \in BOOLEAN : Pinged(r, healthy)
    <3>1. CASE UNCHANGED orchestratorVars
      BY <1>1, <2>2, <3>1, QueueFacts
         DEF Validated, Pinged, BeginAndSend, orchestratorVars, RequestOK, WaitOK,
             Orchestrator!Begin
    <3>2. CASE \E backend : BeginAndSend(r, backend)
      <4>1. age'[r] = 0 /\ pc'[r] \in {"xadd", "mock"} /\ decision'[r] = "active"
        BY <1>1, <3>2, QueueFacts DEF BeginAndSend, Orchestrator!Begin
      <4> QED
        BY <4>1 DEF WaitOK
    <3> QED
      BY <2>2, <3>1, <3>2 DEF Validated, Pinged
  <2>3. CASE Appended(r)
    <3>1. CASE Orchestrator!CallCommit(r, TRUE)
      BY <1>1, <2>3, <3>1 DEF Appended, Orchestrator!CallCommit, Orchestrator!Found,
                              WaitOK, HalfOf
    <3>2. CASE UNCHANGED orchestratorVars /\ pc'[r] = "answered"
      BY <1>1, <2>3, <3>2 DEF Appended, orchestratorVars, WaitOK
    <3> QED
      BY <1>1, <2>3, <3>1, <3>2, RedisResultIsValid, Zenon DEF Appended
  <2>4. CASE SendFails(r) \/ MockAnswers(r)
    BY <1>1, <2>4
       DEF SendFails, MockAnswers, orchestratorVars, WaitOK, HalfOf,
           Orchestrator!CallRollback, Orchestrator!Found
  <2>5. CASE Committed(r) \/ Undone(r) \/ Aborted(r)
    <3>1. pc'[r] = "answered"
      BY <1>1, <2>5 DEF Committed, Undone, Aborted
    <3>2. \E status \in {"committed", "rolled_back"} : Orchestrator!Settle(r, status)
      BY <2>5 DEF Committed, Undone, Aborted, Orchestrator!FinishCommit,
                  Orchestrator!FinishRollback
    <3>3. age'[r] = 0 /\ decision'[r] # "lost"
      BY <3>2, QueueFacts DEF Orchestrator!Settle
    <3> QED
      BY <3>1, <3>3 DEF WaitOK
  <2> QED
    BY <2>1, <2>2, <2>3, <2>4, <2>5 DEF Handle
<1> QED
  BY <1>2, <1>3 DEF WaitInv

LEMMA WaitNext ==
    /\ Shown!QueueInv /\ RequestInv /\ Orchestrator!TypeOK /\ WaitInv /\ [Next]_vars
    => WaitInv'
<1> SUFFICES ASSUME Shown!QueueInv, RequestInv, Orchestrator!TypeOK, WaitInv,
                    [Next]_vars
             PROVE  WaitInv'
  OBVIOUS
<1> USE DEF HalfOf
<1>1. ASSUME NEW r \in Requests, Handle(r) PROVE WaitInv'
  BY <1>1, WaitHandle
<1>2. ASSUME NEW q \in Requests PROVE WaitOK(q) /\ RequestOK(q) /\ TypeInv
  BY DEF WaitInv, RequestInv
<1>3. CASE \/ \E r \in Requests : RedisAppends(r)
           \/ Administer \/ UNCHANGED vars
  <2>1. UNCHANGED <<pc, producer, age, activeTransactions, microtasks, decision>>
    BY <1>3 DEF RedisAppends, Administer, vars, requestVars, orchestratorVars
  <2> QED
    BY <1>2, <2>1 DEF WaitInv, WaitOK
<1>4. CASE CleanupTimer
  BY <1>2, <1>4
     DEF CleanupTimer, LoopIsIdle, Orchestrator!Cleanup, requestVars, WaitInv, WaitOK
<1>5. CASE CleanupRollsBack
  BY <1>2, <1>5, QueueFacts
     DEF CleanupRollsBack, Orchestrator!FinishRollback, Orchestrator!Settle,
         Orchestrator!TypeOK, requestVars, WaitInv, WaitOK
<1>6. CASE TimePasses
  <2>1. UNCHANGED <<pc, producer, activeTransactions, microtasks, decision>> /\ microtasks = {}
    BY <1>6 DEF TimePasses, LoopIsIdle, Orchestrator!Tick, requestVars
  <2>2. ASSUME NEW q \in Requests, q \in activeTransactions
        PROVE  producer[q] = "redis"
    <3>1. pc[q] \in {"xadd", "commit", "abort", "mock", "undo"}
      BY <1>2, <2>2, QueueFacts DEF RequestOK, WaitOK, TypeInv, Waiting
    <3>2. pc[q] # "mock"
      BY <1>6 DEF TimePasses, LoopIsIdle
    <3>3. pc[q] # "undo"
      BY <1>2, <2>1 DEF WaitOK
    <3> QED
      BY <1>2, <3>1, <3>2, <3>3 DEF RequestOK
  <2>3. \A q \in Requests :
          age'[q] = IF q \in activeTransactions THEN age[q] + 1 ELSE age[q]
    BY <1>6 DEF TimePasses, Orchestrator!Tick
  <2> QED
    BY <1>2, <2>1, <2>2, <2>3 DEF WaitInv, WaitOK
<1>7. CASE Crash
  <2>1. ASSUME NEW q \in Requests, decision[q] = "active" PROVE pc'[q] = "dead"
    BY <1>2, <1>7, <2>1, QueueFacts DEF Crash, TypeInv, RequestOK, WaitOK, Waiting
  <2> QED
    BY <1>2, <1>7, <2>1, QueueFacts
       DEF Crash, Orchestrator!Restart, TypeInv, Waiting, WaitInv, WaitOK
<1> QED
  BY <1>1, <1>3, <1>4, <1>5, <1>6, <1>7 DEF Next

LEMMA WaitIsSafe == Spec => []WaitInv
<1>1. Init => WaitInv
  BY DEF Init, WaitInv, WaitOK, Orchestrator!Init
<1> QED
  BY <1>1, WaitNext, RequestsAreSafe, QueueIsSafe, OrchestratorTypes, PTL DEF Spec

\* A request that waits for the orchestrator has not been forgotten: neither
\* the cleanup, nor another request, nor the answer to one takes its half.
THEOREM NobodyWaitsInVainThm == Spec => []NobodyWaitsInVain
<1>1. WaitInv => NobodyWaitsInVain
  BY DEF WaitInv, WaitOK, NobodyWaitsInVain
<1> QED
  BY <1>1, WaitIsSafe, PTL

-----------------------------------------------------------------------------
(* The two reads of the namespace.                                         *)

\* While a request looks at its namespace, it has seen what is so now, what
\* its first row said and, once it has passed, that it was enabled.
SeenOK(r) ==
    /\ pc[r] \in {"lookup", "validate", "ping"} => Facts(Row(r)) \subseteq seen[r]
    /\ pc[r] \in {"validate", "ping"} => producer[r] \in seen[r]
    /\ pc[r] = "ping" => "enabled" \in seen[r]

SeenInv == \A r \in Requests : SeenOK(r)

LEMMA FoundFacts ==
    ASSUME NEW r, Found(r)
    PROVE  Row(r).backend \in Facts(Row(r)) /\ (Row(r).enabled => "enabled" \in Facts(Row(r)))
  BY DEF Found, Facts

LEMMA SeenHandle ==
    ASSUME RequestInv, SeenInv, NEW r \in Requests, Handle(r)
    PROVE  SeenInv'
<1> USE DEF Goto
<1>1. TypeInv /\ \A q \in Requests : SeenOK(q)
  BY DEF RequestInv, SeenInv
<1>2. registry' = registry
  BY DEF Handle, Receive, Looked, Rejected, Validated, Refused, QueryFails,
         Pinged, BeginAndSend, Appended, SendFails, MockAnswers, Committed,
         Undone, Aborted
<1>3. ASSUME NEW q \in Requests, q # r PROVE SeenOK(q)'
  <2>1. pc'[q] = pc[q] /\ producer'[q] = producer[q] /\ seen'[q] = seen[q]
    BY <1>1, <1>3
       DEF Handle, Receive, Looked, Rejected, Validated, Refused, QueryFails,
           Pinged, BeginAndSend, Appended, SendFails, MockAnswers, Committed,
           Undone, Aborted, Throw, Accept, Forget, TypeInv
  <2> QED
    BY <1>1, <1>2, <2>1 DEF SeenOK, Row
<1>4. SeenOK(r)'
  <2>1. CASE Receive(r)
    BY <1>1, <2>1 DEF Receive, TypeInv, SeenOK, Row
  <2>2. CASE Looked(r)
    BY <1>1, <1>2, <2>2, FoundFacts DEF Looked, TypeInv, SeenOK, Row
  <2>3. CASE Validated(r) /\ producer[r] = "redis"
    BY <1>1, <1>2, <2>3, FoundFacts DEF Validated, TypeInv, SeenOK, Row
  <2>4. CASE ~Receive(r) /\ ~Looked(r) /\ ~(Validated(r) /\ producer[r] = "redis")
    <3>1. pc'[r] \in {"xadd", "mock", "commit", "undo", "abort", "answered"}
      BY <1>1, <2>4
         DEF Handle, Rejected, Validated, Refused, QueryFails, Pinged,
             BeginAndSend, Appended, SendFails, MockAnswers, Committed, Undone,
             Aborted, Throw, Accept, TypeInv
    <3> QED
      BY <3>1 DEF SeenOK
  <2> QED
    BY <2>1, <2>2, <2>3, <2>4
<1> QED
  BY <1>3, <1>4 DEF SeenInv

LEMMA SeenNext == RequestInv /\ SeenInv /\ [Next]_vars => SeenInv'
<1> SUFFICES ASSUME RequestInv, SeenInv, [Next]_vars PROVE SeenInv'
  OBVIOUS
<1>1. TypeInv /\ \A q \in Requests : SeenOK(q)
  BY DEF RequestInv, SeenInv
<1>2. ASSUME NEW r \in Requests, Handle(r) PROVE SeenInv'
  BY <1>2, SeenHandle
<1>3. ASSUME UNCHANGED <<registry, pc, producer, seen>> PROVE SeenInv'
  BY <1>1, <1>3 DEF SeenInv, SeenOK, Row
<1>4. CASE Administer
  <2> PICK n \in Namespaces, row \in Configs \cup {Absent} :
        /\ registry' = [registry EXCEPT ![n] = row]
        /\ seen' = [r \in Requests |->
                      IF NamespaceOf[r] = n /\ pc[r] \in {"lookup", "validate", "ping"}
                      THEN seen[r] \cup Facts(row) ELSE seen[r]]
    BY <1>4 DEF Administer
  <2>1. UNCHANGED <<pc, producer>>
    BY <1>4 DEF Administer
  <2>2. ASSUME NEW q \in Requests PROVE SeenOK(q)'
    <3>1. seen[q] \subseteq seen'[q]
      OBVIOUS
    <3>2. pc[q] \in {"lookup", "validate", "ping"} => Facts(Row(q))' \subseteq seen'[q]
      <4>1. CASE NamespaceOf[q] = n
        <5>1. Row(q)' = row
          BY <1>1, <4>1 DEF TypeInv, Row
        <5> QED
          BY <4>1, <5>1 DEF Facts
      <4>2. CASE NamespaceOf[q] # n
        <5>1. Row(q)' = Row(q)
          BY <1>1, <4>2, RequestAssumption DEF TypeInv, Row
        <5> QED
          BY <1>1, <3>1, <5>1 DEF SeenOK, Facts
      <4> QED
        BY <4>1, <4>2
    <3> QED
      BY <1>1, <2>1, <3>1, <3>2 DEF SeenOK
  <2> QED
    BY <2>2 DEF SeenInv
<1>5. CASE Crash
  BY <1>1, <1>5 DEF Crash, SeenInv, SeenOK, TypeInv, Waiting
<1>6. CASE \/ \E r \in Requests : RedisAppends(r)
           \/ CleanupTimer \/ CleanupRollsBack \/ TimePasses \/ UNCHANGED vars
  BY <1>3, <1>6
     DEF RedisAppends, CleanupTimer, CleanupRollsBack, TimePasses, vars, requestVars
<1> QED
  BY <1>2, <1>4, <1>5, <1>6 DEF Next

\* A transaction begins in no other step than these.
LEMMA OnlyTheseBegin ==
    ASSUME Shown!QueueInv, [Next]_vars, NEW r \in Requests,
           decision[r] = "unused", decision'[r] = "active"
    PROVE  Validated(r) \/ \E healthy \in BOOLEAN : Pinged(r, healthy)
<1> USE DEF orchestratorVars
<1>1. ASSUME NEW t, NEW status \in {"committed", "rolled_back"},
             Orchestrator!Settle(t, status)
      PROVE  FALSE
  BY <1>1, QueueFacts DEF Orchestrator!Settle
<1>2. ASSUME NEW m,
             Orchestrator!FinishCommit(m) \/ Orchestrator!FinishRollback(m)
      PROVE  FALSE
  BY <1>1, <1>2 DEF Orchestrator!FinishCommit, Orchestrator!FinishRollback
<1>3. decision' # decision
  OBVIOUS
<1>4. ASSUME NEW q \in Requests, Handle(q)
      PROVE  Validated(r) \/ \E healthy \in BOOLEAN : Pinged(r, healthy)
  <2>1. Validated(q) \/ \E healthy \in BOOLEAN : Pinged(q, healthy)
    BY <1>2, <1>3, <1>4
       DEF Handle, Receive, Looked, Rejected, Refused, QueryFails, Appended,
           SendFails, MockAnswers, Committed, Undone, Aborted,
           Orchestrator!CallCommit, Orchestrator!CallRollback
  <2>2. \E backend : BeginAndSend(q, backend)
    BY <1>3, <2>1 DEF Validated, Pinged
  <2>3. q = r
    BY <2>2, QueueFacts DEF BeginAndSend, Orchestrator!Begin
  <2> QED
    BY <2>1, <2>3
<1>5. CASE Crash
  BY <1>5 DEF Crash, Orchestrator!Restart
<1>6. CASE CleanupRollsBack
  BY <1>2, <1>6 DEF CleanupRollsBack
<1>7. CASE \/ \E q \in Requests : RedisAppends(q)
           \/ Administer \/ CleanupTimer \/ TimePasses \/ UNCHANGED vars
  BY <1>3, <1>7
     DEF RedisAppends, Administer, CleanupTimer, TimePasses, vars,
         Orchestrator!Cleanup, Orchestrator!Tick
<1> QED
  BY <1>4, <1>5, <1>6, <1>7 DEF Next

\* Whoever edits the namespace, and whenever: the backend a message goes to
\* and the permission to send it were so while its request was under way.
THEOREM WritesFollowTheNamespaceThm == Spec => WritesFollowTheNamespace
<1> DEFINE Follows ==
        \A r \in Requests :
            decision[r] = "unused" /\ decision'[r] = "active"
                => {producer[r], "enabled"} \subseteq seen[r]
<1>1. Init => SeenInv
  BY DEF Init, SeenInv, SeenOK
<1>2. SeenInv /\ Shown!QueueInv /\ [Next]_vars => [Follows]_vars
  <2> SUFFICES ASSUME SeenInv, Shown!QueueInv, [Next]_vars,
                      NEW r \in Requests, decision[r] = "unused", decision'[r] = "active"
               PROVE  {producer[r], "enabled"} \subseteq seen[r]
    OBVIOUS
  <2>1. SeenOK(r)
    BY DEF SeenInv
  <2>2. Validated(r) \/ \E healthy \in BOOLEAN : Pinged(r, healthy)
    BY OnlyTheseBegin
  <2>3. CASE Validated(r)
    BY <2>1, <2>3, FoundFacts DEF Validated, SeenOK
  <2>4. CASE \E healthy \in BOOLEAN : Pinged(r, healthy)
    BY <2>1, <2>4 DEF Pinged, SeenOK
  <2> QED
    BY <2>2, <2>3, <2>4
<1>3. Spec => []SeenInv
  BY <1>1, RequestsAreSafe, SeenNext, PTL DEF Spec
<1> QED
  BY <1>2, <1>3, QueueIsSafe, PTL DEF Spec, WritesFollowTheNamespace

-----------------------------------------------------------------------------
(* What the service takes a send for.                                      *)

\* The abstract step of one request, from how its own send goes on.
LEMMA SendStep ==
    ASSUME NEW r \in Requests, UNCHANGED copies,
           \A q \in Requests \ {r} : SendOf(q)' = SendOf(q),
           \/ SendOf(r)' = SendOf(r)
           \/ SendOf(r) = "unsent" /\ SendOf(r)' = "pending"
           \/ SendOf(r) = "pending" /\ SendOf(r)' = "resolved" /\ copies[r] > 0
           \/ SendOf(r) = "pending" /\ SendOf(r)' = "rejected"
    PROVE  [Send!Next]_Send!vars
<1> DEFINE send == [q \in Requests |-> SendOf(q)]
<1>1. send' = [send EXCEPT ![r] = SendOf(r)']
  OBVIOUS
<1>2. Stored' = Stored
  BY DEF Stored
<1>3. send[r] = SendOf(r)
  OBVIOUS
<1> HIDE DEF send
<1>4. CASE SendOf(r)' = SendOf(r)
  <2>1. send' = send
    BY <1>4 DEF send
  <2> QED
    BY <1>2, <2>1 DEF send, Send!vars
<1>5. CASE SendOf(r) = "unsent" /\ SendOf(r)' = "pending"
  <2>1. Send!Call(r)
    BY <1>1, <1>2, <1>3, <1>5 DEF send, Send!Call
  <2> QED
    BY <2>1 DEF Send!Next
<1>6. CASE SendOf(r) = "pending" /\ SendOf(r)' = "resolved" /\ copies[r] > 0
  <2>1. Send!Resolve(r)
    BY <1>1, <1>2, <1>3, <1>6 DEF send, Send!Resolve, Stored
  <2> QED
    BY <2>1 DEF Send!Next
<1>7. CASE SendOf(r) = "pending" /\ SendOf(r)' = "rejected"
  <2>1. Send!Reject(r)
    BY <1>1, <1>2, <1>3, <1>7 DEF send, Send!Reject
  <2> QED
    BY <2>1 DEF Send!Next
<1> QED
  BY <1>4, <1>5, <1>6, <1>7

LEMMA SendHandle ==
    ASSUME Shown!QueueInv, Orchestrator!TypeOK, RequestInv, RequestInv',
           NEW r \in Requests, Handle(r)
    PROVE  [Send!Next]_Send!vars
<1> USE DEF Goto, Throw, Accept
<1>1. TypeInv /\ RequestOK(r) /\ RequestOK(r)'
  BY DEF RequestInv
<1>2. \A q \in Requests \ {r} :
        /\ pc'[q] = pc[q] /\ producer'[q] = producer[q] /\ reply'[q] = reply[q]
        /\ decision'[q] = decision[q]
  BY <1>1, HandleFrame
<1>3. \A q \in Requests \ {r} : SendOf(q)' = SendOf(q)
  BY <1>2 DEF SendOf, Succeeded
<1>4. UNCHANGED copies
  BY <1>1, HandleFrame
<1>5. \/ SendOf(r)' = SendOf(r)
      \/ SendOf(r) = "unsent" /\ SendOf(r)' = "pending"
      \/ SendOf(r) = "pending" /\ SendOf(r)' = "resolved" /\ copies[r] > 0
      \/ SendOf(r) = "pending" /\ SendOf(r)' = "rejected"
  <2> USE DEF SendOf, Succeeded, TypeInv
  <2>1. CASE Receive(r) \/ Looked(r) \/ Rejected(r) \/ Refused(r) \/ QueryFails(r)
    <3>1. /\ decision[r] = "unused" /\ decision'[r] = "unused"
          /\ pc[r] \in {"new", "lookup", "validate"}
          /\ pc'[r] \in {"lookup", "validate", "answered"}
      BY <1>1, <2>1
         DEF Receive, Looked, Rejected, Refused, QueryFails, RequestOK, orchestratorVars
    <3> QED
      BY <3>1
  <2>2. CASE Validated(r) \/ \E healthy \in BOOLEAN : Pinged(r, healthy)
    <3>1. pc[r] \in {"validate", "ping"} /\ pc'[r] \in {"ping", "xadd", "mock"}
      BY <1>1, <2>2 DEF Validated, Pinged, BeginAndSend
    <3> QED
      BY <3>1
  <2>3. CASE Appended(r)
    <3>1. /\ pc[r] = "xadd" /\ copies[r] > 0
          /\ \/ pc'[r] = "commit"
             \/ pc'[r] = "answered" /\ reply'[r].status = "accepted"
          /\ producer'[r] = "redis" /\ decision'[r] # "unused"
      BY <1>1, <2>3
         DEF Appended, RequestOK, orchestratorVars, Orchestrator!CallCommit
    <3> QED
      BY <3>1
  <2>4. CASE SendFails(r)
    <3>1. /\ pc[r] = "xadd"
          /\ \/ pc'[r] = "abort"
             \/ pc'[r] = "answered" /\ reply'[r].status # "accepted"
          /\ producer'[r] = "redis" /\ decision'[r] # "unused"
      BY <1>1, <2>4
         DEF SendFails, RequestOK, orchestratorVars, Orchestrator!CallRollback
    <3> QED
      BY <3>1
  <2>5. CASE MockAnswers(r)
    BY <1>1, <2>5 DEF MockAnswers
  <2>6. ASSUME NEW status \in {"committed", "rolled_back"}, Orchestrator!Settle(r, status)
        PROVE  decision'[r] # "unused"
    BY <2>6, QueueFacts DEF Orchestrator!Settle
  <2>7. CASE Committed(r)
    <3>1. /\ pc[r] = "commit" /\ pc'[r] = "answered"
          /\ reply'[r].status = "accepted"
          /\ producer'[r] = "redis" /\ decision'[r] # "unused"
      BY <1>1, <2>6, <2>7 DEF Committed, RequestOK, Orchestrator!FinishCommit
    <3> QED
      BY <3>1
  <2>8. CASE Undone(r)
    <3>1. pc[r] = "undo" /\ pc'[r] = "answered" /\ producer'[r] # "redis"
      BY <1>1, <2>8 DEF Undone, RequestOK
    <3> QED
      BY <3>1
  <2>9. CASE Aborted(r)
    <3>1. /\ pc[r] = "abort" /\ pc'[r] = "answered"
          /\ reply'[r].status # "accepted"
          /\ producer'[r] = "redis" /\ decision'[r] # "unused"
      BY <1>1, <2>6, <2>9 DEF Aborted, RequestOK, Orchestrator!FinishRollback
    <3> QED
      BY <3>1
  <2> QED
    BY <2>1, <2>2, <2>3, <2>4, <2>5, <2>7, <2>8, <2>9 DEF Handle
<1> QED
  BY <1>3, <1>4, <1>5, SendStep

LEMMA StepIsPromised ==
    /\ Shown!QueueInv /\ Orchestrator!TypeOK /\ RequestInv /\ RequestInv' /\ [Next]_vars
    => [Send!Next]_Send!vars
<1> SUFFICES ASSUME Shown!QueueInv, Orchestrator!TypeOK, RequestInv, RequestInv', [Next]_vars
             PROVE  [Send!Next]_Send!vars
  OBVIOUS
<1>1. TypeInv /\ \A q \in Requests : RequestOK(q)
  BY DEF RequestInv
<1>2. ASSUME NEW r \in Requests, Handle(r) PROVE [Send!Next]_Send!vars
  BY <1>2, SendHandle
<1>3. ASSUME NEW r \in Requests, RedisAppends(r) PROVE Send!Next
  <2>1. SendOf(r) # "unsent"
    BY <1>1, <1>3 DEF RedisAppends, RequestOK, SendOf, TypeInv, Waiting
  <2>2. \A q \in Requests : SendOf(q)' = SendOf(q)
    BY <1>3 DEF RedisAppends, SendOf, Succeeded, orchestratorVars
  <2>3. Stored' = Stored \cup {r}
    BY <1>1, <1>3, RequestAssumption DEF RedisAppends, TypeInv, Stored
  <2>4. Send!Store(r)
    BY <2>1, <2>2, <2>3 DEF Send!Store
  <2> QED
    BY <2>4 DEF Send!Next
<1>4. CASE Crash
  <2> DEFINE lost == {q \in Requests : pc'[q] = "dead"}
  <2>1. ASSUME NEW q \in Requests
        PROVE  SendOf(q)' = IF q \in lost THEN "lost" ELSE SendOf(q)
    BY <1>1, <1>4, QueueFacts
       DEF Crash, Orchestrator!Restart, SendOf, Succeeded, TypeInv, Waiting
  <2>2. UNCHANGED copies
    BY <1>4 DEF Crash
  <2>3. Send!Die
    BY <2>1, <2>2 DEF Send!Die, Stored
  <2> QED
    BY <2>3 DEF Send!Next
<1>5. CASE \/ Administer \/ CleanupTimer \/ CleanupRollsBack \/ TimePasses
           \/ UNCHANGED vars
  <2>1. UNCHANGED <<pc, producer, reply, copies>>
    BY <1>5
       DEF Administer, CleanupTimer, CleanupRollsBack, TimePasses, vars, requestVars
  <2>2. \A q \in Requests : decision'[q] = "unused" <=> decision[q] = "unused"
    <3>1. CASE CleanupRollsBack
      BY <3>1, QueueFacts
         DEF CleanupRollsBack, Orchestrator!FinishRollback, Orchestrator!Settle
    <3>2. CASE ~CleanupRollsBack
      BY <1>5, <3>2
         DEF Administer, CleanupTimer, TimePasses, vars, orchestratorVars,
             Orchestrator!Cleanup, Orchestrator!Tick
    <3> QED
      BY <3>1, <3>2
  <2>3. \A q \in Requests : SendOf(q)' = SendOf(q)
    BY <2>1, <2>2 DEF SendOf, Succeeded
  <2> QED
    BY <2>1, <2>3 DEF Send!vars, Stored
<1> QED
  BY <1>2, <1>3, <1>4, <1>5 DEF Next

\* writeToLog and its clients see a send as MessageSend describes it: an
\* outcome once and for good, and success only for what is in the stream.
THEOREM SendsAsPromisedThm == Spec => SendsAsPromised
<1>1. Init => Send!Init
  BY RequestAssumption DEF Init, Send!Init, SendOf, Stored, Orchestrator!Init
<1> QED
  BY <1>1, StepIsPromised, RequestsAreSafe, QueueIsSafe, OrchestratorTypes, PTL
     DEF Spec, SendsAsPromised, Send!Spec

-----------------------------------------------------------------------------
(* What a client sees.                                                     *)

\* Until its answer a living request's client has been told nothing.
LEMMA AnswerFacts ==
    ASSUME TypeInv, NEW r \in Requests, RequestOK(r)
    PROVE  /\ pc[r] \in Waiting \cup {"new"} => AnswerOf(r) = "none"
           /\ pc[r] = "dead" => AnswerOf(r) = "never"
  BY DEF TypeInv, RequestOK, AnswerOf, Succeeded, Failed, Errors, Waiting,
         Unanswered, None

\* What it is told by either kind of answer.
LEMMA ToldByStep ==
    ASSUME TypeInv, NEW r \in Requests
    PROVE  /\ \A error \in Exceptions : Throw(r, error) => AnswerOf(r)' = "refused"
           /\ \A result : Accept(r, result) => AnswerOf(r)' = "accepted"
  BY DEF TypeInv, Throw, Accept, Goto, AnswerOf, Succeeded, Failed, Errors

\* The client's view of a step of r that appends nothing: only r's part of it
\* can change.
LEMMA ClientFrame ==
    ASSUME Shown!QueueInv, TypeInv, Orchestrator!TypeOK, NEW r \in Requests, Handle(r)
    PROVE  /\ [q \in Requests |-> AnswerOf(q)]' =
                  [[q \in Requests |-> AnswerOf(q)] EXCEPT ![r] = AnswerOf(r)']
           /\ decision' = [decision EXCEPT ![r] = decision'[r]]
           /\ SentToRedis' = (SentToRedis \ {r}) \cup
                  (IF producer'[r] = "redis" /\ decision'[r] # "unused" THEN {r} ELSE {})
           /\ Overdue' = (Overdue \ {r}) \cup (IF age'[r] > Timeout THEN {r} ELSE {})
           /\ Stored' = Stored
<1>1. \A q \in Requests \ {r} :
        /\ pc'[q] = pc[q] /\ producer'[q] = producer[q] /\ reply'[q] = reply[q]
        /\ decision'[q] = decision[q] /\ age'[q] = age[q]
  BY HandleFrame
<1>2. \A q \in Requests \ {r} : AnswerOf(q)' = AnswerOf(q)
  BY <1>1 DEF AnswerOf, Succeeded, Failed
<1>3. Stored' = Stored
  BY HandleFrame DEF Stored
<1>4. /\ decision = [q \in Requests |-> decision[q]]
      /\ decision' = [q \in Requests |-> decision'[q]]
  <2>1. decision \in [Requests -> Orchestrator!Decisions]
    BY DEF Orchestrator!TypeOK
  <2>2. \/ UNCHANGED decision
        \/ \E t, status : decision' = [decision EXCEPT ![t] = status]
    BY DEF Handle, Receive, Looked, Rejected, Validated, Refused, QueryFails,
           Pinged, BeginAndSend, Appended, SendFails, MockAnswers, Committed,
           Undone, Aborted, orchestratorVars, Orchestrator!Begin,
           Orchestrator!CallCommit, Orchestrator!CallRollback,
           Orchestrator!FinishCommit, Orchestrator!FinishRollback,
           Orchestrator!Settle
  <2> QED
    BY <2>1, <2>2
<1>5. decision' = [decision EXCEPT ![r] = decision'[r]]
  BY <1>1, <1>4
<1>6. SentToRedis' = (SentToRedis \ {r}) \cup
          (IF producer'[r] = "redis" /\ decision'[r] # "unused" THEN {r} ELSE {})
  BY <1>1 DEF SentToRedis
<1>7. Overdue' = (Overdue \ {r}) \cup (IF age'[r] > Timeout THEN {r} ELSE {})
  BY <1>1 DEF Overdue
<1>8. [q \in Requests |-> AnswerOf(q)]' =
          [[q \in Requests |-> AnswerOf(q)] EXCEPT ![r] = AnswerOf(r)']
  BY <1>2
<1> QED
  BY <1>3, <1>5, <1>6, <1>7, <1>8

\* Nothing the client can see has changed.
LEMMA ClientStutter ==
    ASSUME Shown!QueueInv, RequestInv, Orchestrator!TypeOK, WaitInv,
           NEW r \in Requests, Handle(r), AnswerOf(r)' = AnswerOf(r),
           UNCHANGED <<decision, age>>,
           producer'[r] = producer[r] \/ decision[r] = "unused"
    PROVE  UNCHANGED Client!vars
<1>1. TypeInv
  BY DEF RequestInv
<1>2. [q \in Requests |-> AnswerOf(q)]' = [q \in Requests |-> AnswerOf(q)]
  BY <1>1, ClientFrame
<1>3. Overdue' = Overdue
  BY DEF Overdue
<1>4. SentToRedis' = SentToRedis
  BY <1>1, ClientFrame DEF SentToRedis
<1> QED
  BY <1>1, <1>2, <1>3, <1>4, ClientFrame DEF Client!vars

\* The steps before the transaction, and the one that begins it.
LEMMA ClientEarly ==
    ASSUME Shown!QueueInv, RequestInv, Orchestrator!TypeOK, WaitInv,
           NEW r \in Requests, Handle(r),
           \/ Receive(r) \/ Looked(r) \/ Rejected(r) \/ Refused(r) \/ QueryFails(r)
           \/ Validated(r) \/ \E healthy \in BOOLEAN : Pinged(r, healthy)
    PROVE  [Client!Next]_Client!vars
<1>1. TypeInv /\ RequestOK(r) /\ WaitOK(r)
  BY DEF RequestInv, WaitInv
<1>2. AnswerOf(r) = "none" /\ decision[r] = "unused" /\ age[r] = 0
  <2>1. pc[r] \in {"new", "lookup", "validate", "ping"}
    BY DEF Receive, Looked, Rejected, Refused, QueryFails, Validated, Pinged
  <2> QED
    BY <1>1, <2>1, AnswerFacts, QueueFacts DEF RequestOK, WaitOK, Waiting
<1>3. ASSUME UNCHANGED <<reply, decision, age>>,
             pc'[r] \in {"lookup", "validate", "ping"}
      PROVE  UNCHANGED Client!vars
  <2>1. AnswerOf(r)' = AnswerOf(r)
    BY <1>1, <1>2, <1>3 DEF AnswerOf, Succeeded, Failed
  <2> QED
    BY <1>2, <1>3, <2>1, ClientStutter
<1>4. CASE Receive(r) \/ Looked(r) \/ (Validated(r) /\ producer[r] = "redis")
  BY <1>1, <1>3, <1>4 DEF Receive, Looked, Validated, Goto, TypeInv, orchestratorVars
<1>5. ASSUME NEW error \in Exceptions, Throw(r, error),
             UNCHANGED <<producer, decision, age>>
      PROVE  Client!Refuse(r)
  <2>1. AnswerOf(r)' = "refused"
    BY <1>1, <1>5, ToldByStep
  <2>2. SentToRedis' = SentToRedis /\ Overdue' = Overdue
    BY <1>5 DEF SentToRedis, Overdue
  <2> QED
    BY <1>1, <1>2, <1>5, <2>1, <2>2, ClientFrame
       DEF Client!Refuse, Client!Waits, Client!Answer
<1>6. CASE Rejected(r) \/ Refused(r) \/ QueryFails(r)
  <2>1. \E error \in Exceptions : Throw(r, error)
    BY <1>6 DEF Rejected, Refused, QueryFails, Exceptions, Errors
  <2>2. UNCHANGED <<producer, decision, age>>
    BY <1>6 DEF Rejected, Refused, QueryFails, orchestratorVars
  <2> QED
    BY <1>5, <2>1, <2>2 DEF Client!Next
<1>7. ASSUME NEW backend, BeginAndSend(r, backend) PROVE Client!Begin(r)
  <2>1. pc'[r] \in {"xadd", "mock"} /\ reply' = reply
    BY <1>1, <1>7 DEF BeginAndSend, Goto, TypeInv
  <2>2. AnswerOf(r)' = AnswerOf(r)
    BY <1>1, <1>2, <2>1 DEF AnswerOf, Succeeded, Failed
  <2>3. decision' = [decision EXCEPT ![r] = "active"] /\ age'[r] = 0
    BY <1>7 DEF BeginAndSend, Orchestrator!Begin, Orchestrator!TypeOK
  <2>4. Overdue' = Overdue
    <3>1. ~(0 > Timeout)
      BY RequestAssumption
    <3>2. r \notin Overdue
      BY <1>2, <3>1 DEF Overdue
    <3>3. Overdue' = Overdue \ {r}
      BY <1>1, <2>3, <3>1, ClientFrame
    <3> QED
      BY <3>2, <3>3
  <2>5. SentToRedis' \in {SentToRedis, SentToRedis \cup {r}}
    BY <1>1, <1>2, ClientFrame DEF SentToRedis
  <2>6. [q \in Requests |-> AnswerOf(q)]' = [q \in Requests |-> AnswerOf(q)]
    BY <1>1, <2>2, ClientFrame
  <2> QED
    BY <1>1, <1>2, <2>3, <2>4, <2>5, <2>6, ClientFrame DEF Client!Begin, Client!Waits
<1>8. CASE (Validated(r) /\ producer[r] # "redis") \/ \E healthy \in BOOLEAN : Pinged(r, healthy)
  <2>1. \E backend : BeginAndSend(r, backend)
    BY <1>8 DEF Validated, Pinged
  <2> QED
    BY <1>7, <2>1 DEF Client!Next
<1> QED
  BY <1>4, <1>6, <1>8

\* A request whose transaction ends now: its outcome, and its time.
LEMMA ClientSettles ==
    ASSUME Shown!QueueInv, RequestInv, Orchestrator!TypeOK, WaitInv,
           NEW r \in Requests, Handle(r), UNCHANGED producer,
           NEW m \in microtasks, m.txn = r, NEW outcome \in {"committed", "rolled_back"},
           Orchestrator!Settle(m.txn, outcome)
    PROVE  /\ decision[r] = "active"
           /\ Client!Settle(r, outcome)
           /\ SentToRedis' = SentToRedis /\ Stored' = Stored
<1>1. TypeInv
  BY DEF RequestInv
<1>2. decision[r] = "active"
  BY QueueFacts
<1>3. decision' = [decision EXCEPT ![r] = outcome] /\ decision'[r] = outcome
  BY QueueFacts DEF Orchestrator!Settle
<1>4. age'[r] = 0
  BY DEF Orchestrator!Settle, Orchestrator!TypeOK
<1>5. Overdue' = Overdue \ {r}
  <2>1. ~(0 > Timeout)
    BY RequestAssumption
  <2> QED
    BY <1>1, <1>4, <2>1, ClientFrame
<1>6. SentToRedis' = SentToRedis
  BY <1>1, <1>2, <1>3, ClientFrame DEF SentToRedis
<1> QED
  BY <1>1, <1>2, <1>3, <1>5, <1>6, ClientFrame DEF Client!Settle, Client!Open

\* The replies of the producers, and what follows the orchestrator's calls.
LEMMA ClientLate ==
    ASSUME Shown!QueueInv, RequestInv, Orchestrator!TypeOK, WaitInv,
           NEW r \in Requests, Handle(r),
           \/ Appended(r) \/ SendFails(r) \/ MockAnswers(r)
           \/ Committed(r) \/ Undone(r) \/ Aborted(r)
    PROVE  [Client!Next]_Client!vars
<1> USE DEF Client!Answer, Client!Waits
<1>1. TypeInv /\ RequestOK(r) /\ WaitOK(r)
  BY DEF RequestInv, WaitInv
<1>2. pc[r] \in {"xadd", "mock", "commit", "undo", "abort"} /\ AnswerOf(r) = "none"
  <2>1. pc[r] \in {"xadd", "mock", "commit", "undo", "abort"}
    BY DEF Appended, SendFails, MockAnswers, Committed, Undone, Aborted
  <2> QED
    BY <1>1, <2>1, AnswerFacts DEF Waiting
<1>3. ASSUME pc'[r] \in {"commit", "undo", "abort"},
             UNCHANGED <<producer, reply, decision, age>>
      PROVE  UNCHANGED Client!vars
  <2>1. AnswerOf(r)' = AnswerOf(r)
    BY <1>1, <1>2, <1>3 DEF AnswerOf, Succeeded, Failed
  <2> QED
    BY <1>3, <2>1, ClientStutter
\* The call that waits for its half changes nothing yet.
<1>4. ASSUME Appended(r) \/ SendFails(r) \/ MockAnswers(r),
             Orchestrator!CallRollback(r) \/ Orchestrator!CallCommit(r, TRUE)
      PROVE  UNCHANGED Client!vars
  <2>1. Orchestrator!Found(r) /\ UNCHANGED <<decision, age>>
    BY <1>4 DEF Orchestrator!CallRollback, Orchestrator!CallCommit
  <2>2. pc'[r] \in {"commit", "undo", "abort"} /\ UNCHANGED <<producer, reply>>
    BY <1>1, <1>4, <2>1 DEF Appended, SendFails, MockAnswers, Goto, TypeInv
  <2> QED
    BY <1>3, <2>1, <2>2
<1>5. ASSUME pc[r] = "xadd", ~Orchestrator!Found(r)
      PROVE  r \in SentToRedis /\ decision[r] = "rolled_back"
  <2>1. producer[r] = "redis" /\ decision[r] \notin {"unused", "active"}
    BY <1>1, <1>5, QueueFacts DEF RequestOK, Orchestrator!Found
  <2>2. decision[r] \notin {"committed", "lost"}
    BY <1>1, <1>5 DEF RequestOK, WaitOK, Succeeded, Unanswered, None
  <2> QED
    BY <2>1, <2>2, QueueFacts DEF SentToRedis
<1>6. ASSUME pc[r] = "xadd", UNCHANGED <<producer, orchestratorVars>>
      PROVE  UNCHANGED <<decision, SentToRedis, Overdue>>
  BY <1>6 DEF orchestratorVars, SentToRedis, Overdue
<1>7. CASE Appended(r) /\ ~Orchestrator!Found(r)
  <2>1. /\ pc[r] = "xadd" /\ copies[r] > 0 /\ UNCHANGED <<producer, orchestratorVars>>
        /\ Accept(r, RedisResult)
    BY <1>7 DEF Appended, Orchestrator!CallCommit
  <2>2. AnswerOf(r)' = "accepted" /\ r \in Stored
    BY <1>1, <2>1, ToldByStep DEF Stored
  <2>3. Client!AcceptLate(r)
    BY <1>1, <1>2, <1>5, <1>6, <1>7, <2>1, <2>2, ClientFrame DEF Client!AcceptLate
  <2> QED
    BY <2>3 DEF Client!Next
<1>8. CASE SendFails(r) /\ ~Orchestrator!Found(r)
  <2>1. /\ pc[r] = "xadd" /\ UNCHANGED <<producer, orchestratorVars>>
        /\ Throw(r, "RedisError")
    BY <1>8 DEF SendFails, Orchestrator!CallRollback
  <2>2. AnswerOf(r)' = "refused"
    BY <1>1, <2>1, ToldByStep DEF Exceptions
  <2>3. Client!Refuse(r)
    BY <1>1, <1>2, <1>5, <1>6, <1>8, <2>1, <2>2, ClientFrame DEF Client!Refuse
  <2> QED
    BY <2>3 DEF Client!Next
<1>9. CASE Committed(r)
  <2>1. AnswerOf(r)' = "accepted"
    BY <1>1, <1>9, ToldByStep DEF Committed
  <2>2. PICK m \in microtasks : m.txn = r /\ Orchestrator!FinishCommit(m)
    BY <1>9 DEF Committed
  <2>3. /\ Client!Settle(r, "committed") /\ decision[r] = "active"
        /\ SentToRedis' = SentToRedis /\ Stored' = Stored
    BY <1>9, <2>2, ClientSettles DEF Committed, Orchestrator!FinishCommit
  <2>4. r \in SentToRedis /\ r \in Stored
    BY <1>1, <1>9, <2>3 DEF Committed, RequestOK, SentToRedis, Stored
  <2>5. Client!Complete(r)
    BY <1>1, <1>2, <2>1, <2>3, <2>4, ClientFrame DEF Client!Complete
  <2> QED
    BY <2>5 DEF Client!Next
<1>10. CASE Undone(r)
  <2>1. AnswerOf(r)' = "accepted"
    BY <1>1, <1>10, ToldByStep DEF Undone
  <2>2. PICK m \in microtasks : m.txn = r /\ Orchestrator!FinishRollback(m)
    BY <1>10 DEF Undone
  <2>3. Client!Settle(r, "rolled_back") /\ SentToRedis' = SentToRedis /\ Stored' = Stored
    BY <1>10, <2>2, ClientSettles DEF Undone, Orchestrator!FinishRollback
  <2>4. r \notin SentToRedis
    BY <1>1, <1>10 DEF Undone, RequestOK, SentToRedis
  <2>5. Client!AcceptUnkept(r)
    BY <1>1, <1>2, <2>1, <2>3, <2>4, ClientFrame DEF Client!AcceptUnkept
  <2> QED
    BY <2>5 DEF Client!Next
<1>11. CASE Aborted(r)
  <2>1. AnswerOf(r)' = "refused"
    BY <1>1, <1>11, ToldByStep DEF Aborted, Exceptions
  <2>2. PICK m \in microtasks : m.txn = r /\ Orchestrator!FinishRollback(m)
    BY <1>11 DEF Aborted
  <2>3. /\ Client!Settle(r, "rolled_back") /\ decision[r] = "active"
        /\ SentToRedis' = SentToRedis /\ Stored' = Stored
    BY <1>11, <2>2, ClientSettles DEF Aborted, Orchestrator!FinishRollback
  <2>4. r \in SentToRedis
    BY <1>1, <1>11, <2>3 DEF Aborted, RequestOK, SentToRedis
  <2>5. Client!Abort(r)
    BY <1>1, <1>2, <2>1, <2>3, <2>4, ClientFrame DEF Client!Abort
  <2> QED
    BY <2>5 DEF Client!Next
<1>12. CASE Appended(r) \/ SendFails(r) \/ MockAnswers(r)
  <2>1. \/ Orchestrator!CallRollback(r) \/ Orchestrator!CallCommit(r, TRUE)
        \/ (Appended(r) \/ SendFails(r)) /\ ~Orchestrator!Found(r)
    BY <1>12, RedisResultIsValid, Zenon DEF Appended, SendFails, MockAnswers
  <2> QED
    BY <1>4, <1>7, <1>8, <1>12, <2>1
<1> QED
  BY <1>9, <1>10, <1>11, <1>12

\* Redis, the timers and the crash, as a client could tell them.
LEMMA ClientOther ==
    ASSUME Shown!QueueInv, RequestInv, Orchestrator!TypeOK, WaitInv,
           Shown!OnlyOrphansAreCleaned,
           \/ \E r \in Requests : RedisAppends(r)
           \/ Administer \/ CleanupTimer \/ CleanupRollsBack \/ TimePasses \/ Crash
           \/ UNCHANGED vars
    PROVE  [Client!Next]_Client!vars
<1> USE DEF SentToRedis, Stored, Overdue
<1>1. ASSUME NEW q \in Requests PROVE TypeInv /\ RequestOK(q) /\ WaitOK(q)
  BY DEF RequestInv, WaitInv
<1>2. ASSUME UNCHANGED <<pc, reply>> PROVE \A q \in Requests : AnswerOf(q)' = AnswerOf(q)
  BY <1>2 DEF AnswerOf, Succeeded, Failed
<1>3. \A q \in Requests : age[q] > Timeout => q \in SentToRedis /\ decision[q] = "active"
  <2>1. ~(0 > Timeout)
    BY RequestAssumption
  <2> QED
    BY <1>1, <2>1, QueueFacts DEF WaitOK
<1>4. ASSUME NEW r \in Requests, RedisAppends(r) PROVE Client!Store(r)
  <2>1. Stored' = Stored \cup {r}
    BY <1>1, <1>4, RequestAssumption DEF RedisAppends, TypeInv
  <2>2. UNCHANGED <<pc, producer, reply, decision, age>>
    BY <1>4 DEF RedisAppends, orchestratorVars
  <2> QED
    BY <1>2, <1>4, <2>1, <2>2 DEF RedisAppends, Client!Store
<1>5. CASE Administer \/ CleanupTimer \/ UNCHANGED vars
  <2>1. UNCHANGED <<pc, producer, reply, copies, decision, age>>
    BY <1>5 DEF Administer, CleanupTimer, Orchestrator!Cleanup, vars, requestVars,
                orchestratorVars
  <2> QED
    BY <1>2, <2>1 DEF Client!vars
<1>6. CASE CleanupRollsBack
  <2> PICK m \in microtasks : m.by = "cleanup" /\ Orchestrator!FinishRollback(m)
    BY <1>6 DEF CleanupRollsBack
  <2> DEFINE t == m.txn
  <2>1. t \in Requests /\ decision[t] = "active" /\ age[t] > Timeout
    BY QueueFacts DEF Shown!OnlyOrphansAreCleaned
  <2>2. UNCHANGED <<pc, producer, reply, copies>>
    BY <1>6 DEF CleanupRollsBack, requestVars
  <2>3. AnswerOf(t) = "none"
    <3>1. pc[t] \in Waiting \cup {"new"}
      BY <1>1, <2>1, QueueFacts DEF TypeInv, RequestOK, WaitOK
    <3> QED
      BY <1>1, <2>1, <3>1, AnswerFacts
  <2>4. /\ decision' = [decision EXCEPT ![t] = "rolled_back"]
        /\ age' = [age EXCEPT ![t] = 0]
    BY DEF Orchestrator!FinishRollback, Orchestrator!Settle
  <2>5. SentToRedis' = SentToRedis
    BY <2>1, <2>2, <2>4, QueueFacts
  <2>6. Overdue' = Overdue \ {t}
    <3>1. ~(0 > Timeout)
      BY RequestAssumption
    <3>2. \A q \in Requests : age'[q] = IF q = t THEN 0 ELSE age[q]
      BY <2>4 DEF Orchestrator!TypeOK
    <3> HIDE DEF t
    <3> QED
      BY <3>1, <3>2
  <2>7. Client!Settle(t, "rolled_back")
    BY <2>1, <2>4, <2>6 DEF Client!Settle, Client!Open
  <2>8. Client!TimeOut(t)
    BY <1>2, <1>3, <2>1, <2>2, <2>3, <2>5, <2>7 DEF Client!TimeOut, Client!Waits
  <2> QED
    BY <2>1, <2>8 DEF Client!Next
<1>7. CASE TimePasses
  <2>1. /\ UNCHANGED <<pc, producer, reply, copies, decision>>
        /\ \A q \in Requests :
             age'[q] = IF q \in activeTransactions THEN age[q] + 1 ELSE age[q]
    BY <1>7 DEF TimePasses, Orchestrator!Tick, requestVars
  <2>2. \A q \in Requests : age[q] \in Nat /\ Timeout \in Nat
    BY RequestAssumption DEF Orchestrator!TypeOK
  <2>3. Overdue \subseteq Overdue'
    BY <2>1, <2>2
  <2>4. ASSUME NEW q \in Requests, age'[q] > Timeout
        PROVE  q \in SentToRedis /\ decision[q] = "active"
    <3>1. WaitOK(q)' /\ (q \in activeTransactions <=> decision[q] = "active")
      BY <1>7, WaitNext, QueueFacts DEF WaitInv, Next
    <3>2. q \in activeTransactions' <=> q \in activeTransactions
      BY <1>7 DEF TimePasses, Orchestrator!Tick
    <3>3. ~(0 > Timeout)
      BY RequestAssumption
    <3> QED
      BY <2>1, <2>4, <3>1, <3>2, <3>3 DEF WaitOK
  <2>5. Client!GrowOld
    BY <1>2, <2>1, <2>3, <2>4 DEF Client!GrowOld, Client!Open
  <2> QED
    BY <2>5 DEF Client!Next
<1>8. CASE Crash
  <2> DEFINE gone == {q \in Requests : pc[q] \in Waiting}
  <2>1. /\ UNCHANGED <<producer, reply, copies>>
        /\ decision' = [q \in Requests |->
                          IF decision[q] = "active" THEN "lost" ELSE decision[q]]
        /\ age' = [q \in Requests |-> 0]
        /\ pc' = [q \in Requests |-> IF pc[q] \in Waiting THEN "dead" ELSE pc[q]]
    BY <1>8 DEF Crash, Orchestrator!Restart
  <2>2. ASSUME NEW q \in Requests
        PROVE  AnswerOf(q)' = IF q \in gone THEN "never" ELSE AnswerOf(q)
    <3>1. pc'[q] = (IF q \in gone THEN "dead" ELSE pc[q]) /\ reply' = reply
      BY <2>1
    <3> HIDE DEF gone
    <3>2. CASE q \in gone
      <4>1. reply[q] = Unanswered
        BY <1>1, <3>2 DEF gone, RequestOK, Waiting
      <4> QED
        BY <3>1, <3>2, <4>1 DEF AnswerOf, Succeeded, Failed, Unanswered, None, Errors
    <3>3. CASE q \notin gone
      BY <3>1, <3>3 DEF AnswerOf, Succeeded, Failed
    <3> QED
      BY <3>2, <3>3
  <2>3. \A q \in gone : AnswerOf(q) = "none"
    BY <1>1, AnswerFacts
  <2>4. \A q \in Requests : decision[q] = "active" => q \in gone
    BY <1>1, QueueFacts DEF TypeInv, RequestOK, WaitOK
  <2>5. SentToRedis' = SentToRedis
    BY <2>1
  <2>6. Overdue' = {}
    <3>1. ~(0 > Timeout)
      BY RequestAssumption
    <3> QED
      BY <2>1, <3>1
  <2> HIDE DEF gone
  <2>7. Client!Die
    <3>1. /\ gone \in SUBSET {q \in Requests : Client!Waits(q)}
          /\ Client!Open \subseteq gone
          /\ [q \in Requests |-> AnswerOf(q)]' =
                 [q \in Requests |-> IF q \in gone THEN "never"
                                     ELSE [p \in Requests |-> AnswerOf(p)][q]]
      BY <2>2, <2>3, <2>4 DEF Client!Waits, Client!Open, gone
    <3>2. decision' = [q \in Requests |-> IF q \in Client!Open THEN "lost" ELSE decision[q]]
      BY <2>1 DEF Client!Open
    <3>3. Stored' = Stored
      BY <2>1
    <3> QED
      BY <2>5, <2>6, <3>1, <3>2, <3>3 DEF Client!Die
  <2> QED
    BY <2>7 DEF Client!Next
<1> QED
  BY <1>4, <1>5, <1>6, <1>7, <1>8 DEF Client!Next

LEMMA StepIsDurable ==
    /\ Shown!QueueInv /\ RequestInv /\ Orchestrator!TypeOK /\ WaitInv
    /\ Shown!OnlyOrphansAreCleaned /\ [Next]_vars
    => [Client!Next]_Client!vars
<1> SUFFICES ASSUME Shown!QueueInv, RequestInv, Orchestrator!TypeOK, WaitInv,
                    Shown!OnlyOrphansAreCleaned, [Next]_vars
             PROVE  [Client!Next]_Client!vars
  OBVIOUS
<1>1. ASSUME NEW r \in Requests, Handle(r) PROVE [Client!Next]_Client!vars
  BY <1>1, ClientEarly, ClientLate DEF Handle
<1> QED
  BY <1>1, ClientOther DEF Next

\* Answer, outcome and stream part only where DurableWrite says so: however
\* requests, replies, the cleanup and crashes are interleaved.
THEOREM WritesAreDurableThm == Spec => WritesAreDurable
<1>1. Init => Client!Init
  BY RequestAssumption
     DEF Init, Client!Init, AnswerOf, Succeeded, Failed, Errors, Unanswered, None,
         SentToRedis, Stored, Overdue, Orchestrator!Init
<1>2. Spec => []Shown!OnlyOrphansAreCleaned
  BY ServiceIsShown, Shown!OnlyOrphansAreCleanedThm, ShownAssumptions, PTL
<1> QED
  BY <1>1, <1>2, StepIsDurable, RequestsAreSafe, QueueIsSafe, OrchestratorTypes,
     WaitIsSafe, PTL
     DEF Spec, WritesAreDurable, Client!Spec

-----------------------------------------------------------------------------
(* What follows for the service from what is proved of the orchestrator    *)
(* and of DurableWrite by themselves.                                      *)

\* Gauge and counters are exact inside the service too: no path of writeToLog
\* settles a transaction twice, forgets one or leaves one uncounted.
THEOREM ServiceMetricsAreExact ==
    Spec => [](Orchestrator!GaugeMatchesTable /\ Orchestrator!CountersBalance)
<1>1. Shown!GaugeMatchesTable => Orchestrator!GaugeMatchesTable
  BY DEF Shown!GaugeMatchesTable, Orchestrator!GaugeMatchesTable,
         Shown!ActiveIn, Orchestrator!ActiveIn,
         Shown!Cardinality, Orchestrator!Cardinality
<1>2. Shown!CountersBalance => Orchestrator!CountersBalance
  BY DEF Shown!CountersBalance, Orchestrator!CountersBalance,
         Shown!ActiveIn, Orchestrator!ActiveIn,
         Shown!Cardinality, Orchestrator!Cardinality
<1>3. Spec => []Shown!GaugeMatchesTable
  BY ServiceIsShown, Shown!GaugeMatchesTableThm, ShownAssumptions, PTL
<1>4. Spec => []Shown!CountersBalance
  BY ServiceIsShown, Shown!CountersBalanceThm, ShownAssumptions, PTL
<1> QED
  BY <1>1, <1>2, <1>3, <1>4, PTL

\* No write of the service leaves an entry in the table for longer than the
\* timeout, one period of the cleanup and the lateness of its timer, and the
\* cleanup takes only what is older than the timeout.
THEOREM ServiceReapsOrphans ==
    Spec => [](Orchestrator!OrphansAreReaped /\ Orchestrator!OnlyOrphansAreCleaned)
<1>1. Shown!OrphansAreReaped => Orchestrator!OrphansAreReaped
  BY DEF Shown!OrphansAreReaped, Orchestrator!OrphansAreReaped,
         Shown!Period, Orchestrator!Period
<1>2. Shown!OnlyOrphansAreCleaned => Orchestrator!OnlyOrphansAreCleaned
  BY DEF Shown!OnlyOrphansAreCleaned, Orchestrator!OnlyOrphansAreCleaned
<1>3. Spec => []Shown!OrphansAreReaped
  BY ServiceIsShown, Shown!OrphansAreReapedThm, ShownAssumptions, PTL
<1>4. Spec => []Shown!OnlyOrphansAreCleaned
  BY ServiceIsShown, Shown!OnlyOrphansAreCleanedThm, ShownAssumptions, PTL
<1> QED
  BY <1>1, <1>2, <1>3, <1>4, PTL

\* What is proved of a durable write, for the service's instance of it.
Told == INSTANCE DurableWriteProofs WITH
    Writes <- Requests,
    answer <- [r \in Requests |-> AnswerOf(r)],
    transaction <- decision,
    kept <- SentToRedis,
    stored <- Stored,
    overdue <- Overdue

LEMMA ServiceIsTold == Spec => Told!Spec
<1>1. Client!Init => Told!Init
  BY DEF Client!Init, Told!Init
<1>2. [Client!Next]_Client!vars => [Told!Next]_Told!vars
  <2> USE DEF Client!Waits, Told!Waits, Client!Open, Told!Open, Client!Answer,
              Told!Answer, Client!Settle, Told!Settle
  <2>1. ASSUME NEW w \in Requests
        PROVE  /\ Client!Begin(w) => Told!Begin(w)
               /\ Client!Refuse(w) => Told!Refuse(w)
               /\ Client!Abort(w) => Told!Abort(w)
               /\ Client!Complete(w) => Told!Complete(w)
               /\ Client!AcceptLate(w) => Told!AcceptLate(w)
               /\ Client!AcceptUnkept(w) => Told!AcceptUnkept(w)
               /\ Client!TimeOut(w) => Told!TimeOut(w)
               /\ Client!Store(w) => Told!Store(w)
    BY DEF Client!Begin, Told!Begin, Client!Refuse, Told!Refuse, Client!Abort,
           Told!Abort, Client!Complete, Told!Complete, Client!AcceptLate,
           Told!AcceptLate, Client!AcceptUnkept, Told!AcceptUnkept,
           Client!TimeOut, Told!TimeOut, Client!Store, Told!Store
  <2>2. (Client!GrowOld => Told!GrowOld) /\ (Client!Die => Told!Die)
    BY DEF Client!GrowOld, Told!GrowOld, Client!Die, Told!Die
  <2> QED
    BY <2>1, <2>2 DEF Client!Next, Told!Next, Client!vars, Told!vars
<1>3. Client!Spec => Told!Spec
  BY <1>1, <1>2, PTL DEF Client!Spec, Told!Spec
<1> QED
  BY <1>3, WritesAreDurableThm, PTL DEF WritesAreDurable

\* The three ways for a request to be accepted: stored and committed, stored
\* but given up by the cleanup (finding 1), or sent to a mock (finding 2).
AcceptedIsExplained ==
    \A r \in Requests : Succeeded(r) =>
        \/ decision[r] = "committed" /\ producer[r] = "redis" /\ copies[r] > 0
        \/ decision[r] = "rolled_back" /\ producer[r] = "redis" /\ copies[r] > 0
        \/ decision[r] = "rolled_back" /\ producer[r] # "redis"

\* A transaction that is rolled back while its request still waits is older
\* than the timeout and its message went to Redis: no shorter delay, no mock
\* and no crash brings a request into finding 1.
GivenUpWhenOverdue ==
    [][\A r \in Requests :
         /\ decision[r] = "active" /\ decision'[r] = "rolled_back"
         /\ pc'[r] \in Waiting
         => age[r] > Timeout /\ producer[r] = "redis"]_vars

\* Findings 1 and 2 are all there is: every other acceptance is a commit.
THEOREM ServiceExplainsAcceptance == Spec => []AcceptedIsExplained
<1>1. RequestInv /\ Told!AcceptedIsExplained => AcceptedIsExplained
  <2> SUFFICES ASSUME RequestInv, Told!AcceptedIsExplained,
                      NEW r \in Requests, Succeeded(r)
               PROVE  \/ decision[r] = "committed" /\ producer[r] = "redis" /\ copies[r] > 0
                      \/ decision[r] = "rolled_back" /\ producer[r] = "redis" /\ copies[r] > 0
                      \/ decision[r] = "rolled_back" /\ producer[r] # "redis"
    BY DEF AcceptedIsExplained
  <2>1. AnswerOf(r) = "accepted"
    BY DEF AnswerOf, Succeeded, RequestInv, RequestOK, Unanswered, None, Failed, Errors
  <2> QED
    BY <2>1 DEF Told!AcceptedIsExplained, Told!Explained, Stored, SentToRedis
<1>2. Spec => []Told!AcceptedIsExplained
  BY ServiceIsTold, Told!AcceptedIsExplainedThm, PTL
<1> QED
  BY <1>1, <1>2, RequestsAreSafe, PTL

\* Only what is overdue, and went to Redis, is given up while its client
\* waits, so nothing else leads to an acceptance without a commit.
THEOREM ServiceGivesUpWhenOverdue == Spec => GivenUpWhenOverdue
<1> DEFINE InTime == \A w \in Requests :
             /\ decision[w] = "active" /\ decision'[w] = "rolled_back"
             /\ [r \in Requests |-> AnswerOf(r)]'[w] = "none"
             => w \in Overdue /\ w \in SentToRedis
           Late == \A r \in Requests :
             /\ decision[r] = "active" /\ decision'[r] = "rolled_back"
             /\ pc'[r] \in Waiting
             => age[r] > Timeout /\ producer[r] = "redis"
<1>1. Spec => [][InTime]_Told!vars
  <2>1. Told!GivenUpWhenOverdue => [][InTime]_Told!vars
    BY PTL DEF Told!GivenUpWhenOverdue
  <2> QED
    BY <2>1, ServiceIsTold, Told!GivenUpWhenOverdueThm, PTL
<1>2. RequestInv' /\ [InTime]_Told!vars => [Late]_vars
  <2> SUFFICES ASSUME RequestInv', [InTime]_Told!vars, NEW r \in Requests,
                      decision[r] = "active", decision'[r] = "rolled_back",
                      pc'[r] \in Waiting
               PROVE  age[r] > Timeout /\ producer[r] = "redis"
    OBVIOUS
  <2>1. InTime
    BY DEF Told!vars
  <2>2. AnswerOf(r)' = "none"
    <3>1. reply'[r] = Unanswered
      BY DEF RequestInv, RequestOK, Waiting
    <3> QED
      BY <3>1 DEF AnswerOf, Succeeded, Failed, Errors, Unanswered, None, Waiting
  <2> QED
    BY <2>1, <2>2 DEF Overdue, SentToRedis
<1> QED
  BY <1>1, <1>2, RequestsAreSafe, PTL DEF GivenUpWhenOverdue
=============================================================================
