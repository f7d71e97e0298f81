----------------------------- MODULE WalService -----------------------------
(***************************************************************************)
(* WalService.writeToLog: what one POST /wal/write does, for several       *)
(* requests at once, together with the transaction orchestrator, the       *)
(* namespace table (Postgres), the producers and the Redis stream.         *)
(*                                                                         *)
(* A request runs from one I/O reply to the next.  The replies it waits    *)
(* for are the two reads of its namespace, the PING of the Redis health    *)
(* check and the XADD; between those, everything runs without giving way   *)
(* to a timer or to another reply, except that the orchestrator's second   *)
(* halves are microtasks of their own (module TransactionOrchestrator).    *)
(*                                                                         *)
(* Of a request's key, payload and target the model keeps nothing: where   *)
(* the code checks them, they may pass or not.                             *)
(*                                                                         *)
(* The Kafka and SQS producers are the factory's mocks: they are always    *)
(* healthy, they answer at once and they store nothing.                    *)
(*                                                                         *)
(* Outside src/ and hence assumed: the namespace row may change at any     *)
(* time; Redis may append a command it was sent at any time after, again   *)
(* when ioredis sends it again after a lost connection, and its reply may  *)
(* be an error, late or missing.  No command timeout is configured.        *)
(***************************************************************************)
EXTENDS Integers, Sequences, FiniteSets

CONSTANTS
    Requests,       \* the requests; each begins at most one transaction
    Namespaces,     \* the namespaces requests name in their DTO
    NamespaceOf,    \* dto.namespace of each request
    Backends,       \* the backends a namespace may be configured with
    Timeout,        \* as in TransactionOrchestrator
    Jitter,
    MaxCopies       \* bound: how often one command may reach the stream

ASSUME RequestAssumption ==
    /\ NamespaceOf \in [Requests -> Namespaces]
    /\ Backends \subseteq {"redis", "kafka", "sqs"}
    /\ Timeout \in Nat \ {0} /\ Timeout % 2 = 0 /\ Jitter \in Nat
    /\ MaxCopies \in Nat \ {0}

Absent == [absent |-> TRUE]     \* no row of that name
Configs == [backend : Backends, enabled : BOOLEAN]
Errors == {"BadRequest", "NamespaceNotFound", "InternalServerError"}
Exceptions == Errors \cup {"NotFound", "ValidationError", "QueryFailedError",
                           "RedisError"}
Durability == {"persisted", "acknowledged", "scheduled", "failed"}

VARIABLES
    registry,       \* the namespace table
    pc,             \* where each request is
    producer,       \* the backend of its namespace, then the one chosen
    reply,          \* what the client was told
    activeMessages, \* wal_active_messages, per namespace
    copies,         \* how often its message is in a Redis stream
    seen,           \* history: what was so of its namespace, at some moment
                    \* since it was received: its backend, "enabled"
    \* the orchestrator's
    activeTransactions, age, gauge, counter, microtasks, sinceSweep, decision

requestVars == <<registry, pc, producer, reply, activeMessages, copies, seen>>
orchestratorVars == <<activeTransactions, age, gauge, counter, microtasks,
                      sinceSweep, decision>>
vars == <<requestVars, orchestratorVars>>

Orchestrator == INSTANCE TransactionOrchestrator WITH Txns <- Requests

\* An answer: its status, the durability a success reports, and the class
\* of exception behind a failure, which wal_requests_total counts.
None == "none"
Unanswered == [status |-> None, durable |-> None, errorType |-> None]

\* Waiting: for a reply ("lookup", "validate", "ping", "xadd"), for the next
\* microtask ("mock"), for the orchestrator ("commit", "undo", "abort").
Waiting == {"lookup", "validate", "ping", "xadd", "mock", "commit", "undo", "abort"}

TypeOK ==
    /\ registry \in [Namespaces -> Configs \cup {Absent}]
    /\ pc \in [Requests -> Waiting \cup {"new", "answered", "dead"}]
    /\ producer \in [Requests -> Backends \cup {"kafka", "sqs", None}]
    /\ reply \in [Requests -> [status : {None, "accepted"} \cup Errors,
                               durable : {None} \cup Durability,
                               errorType : {None} \cup Exceptions]]
    /\ activeMessages \in [Namespaces -> Nat]
    /\ copies \in [Requests -> 0 .. MaxCopies]
    /\ seen \in [Requests -> SUBSET (Backends \cup {"enabled"})]
    /\ Orchestrator!TypeOK

Init ==
    /\ registry \in [Namespaces -> Configs \cup {Absent}]
    /\ pc = [r \in Requests |-> "new"]
    /\ producer = [r \in Requests |-> None]
    /\ reply = [r \in Requests |-> Unanswered]
    /\ activeMessages = [n \in Namespaces |-> 0]
    /\ copies = [r \in Requests |-> 0]
    /\ seen = [r \in Requests |-> {}]
    /\ Orchestrator!Init

-----------------------------------------------------------------------------
(* Helpers.                                                                *)

Row(r) == registry[NamespaceOf[r]]
Found(r) == Row(r) # Absent

Facts(row) ==
    IF row = Absent THEN {}
    ELSE {row.backend} \cup IF row.enabled THEN {"enabled"} ELSE {}

\* Once a request is sent or answered, what it saw is forgotten.
Forget(r) == seen' = [seen EXCEPT ![r] = {}]

\* A callback of the event loop starts only when all microtasks have run.
\* Replies of several requests can come in one read of the socket, so for a
\* reply it is enough that the orchestrator lets the request call it.
LoopIsIdle_IgnoringMocks == microtasks = {}     \* mutant: mocks are not awaited

\* mutant: no callback runs while a request waits for Redis
LoopIsIdle_AwaitsRedis ==
    microtasks = {} /\ \A r \in Requests : pc[r] \notin {"mock", "xadd"}

LoopIsIdle == microtasks = {} /\ \A r \in Requests : pc[r] # "mock"

Goto(r, label) == pc' = [pc EXCEPT ![r] = label]

\* writeToLog throws, its outer catch maps the exception: BadRequest and
\* NamespaceNotFound pass through, everything else becomes a 500.
Throw(r, error) ==
    /\ Goto(r, "answered")
    /\ reply' = [reply EXCEPT ![r] =
                   [status |-> IF error \in {"BadRequest", "NamespaceNotFound"}
                               THEN error ELSE "InternalServerError",
                    durable |-> None,
                    errorType |-> error]]
    /\ Forget(r)
    /\ UNCHANGED activeMessages

\* The fields of a send result that writeToLog looks at.
RedisResult == [success |-> TRUE, durable |-> TRUE, messageId |-> TRUE]
MockResult == [success |-> FALSE, durable |-> TRUE, messageId |-> TRUE]

\* Nothing a producer returns is `scheduled`, so the last case is the
\* function's default.
DurabilityStatus(result) ==
    IF result.durable \/ result.messageId THEN "persisted" ELSE "acknowledged"

\* mutant: the gauge is decremented at the end, and incremented nowhere
Accept_Dec(r, result) ==
    /\ Goto(r, "answered")
    /\ activeMessages' = [activeMessages EXCEPT ![NamespaceOf[r]] = @ - 1]
    /\ reply' = [reply EXCEPT ![r] =
                   [status |-> "accepted",
                    durable |-> DurabilityStatus(result),
                    errorType |-> None]]
    /\ UNCHANGED seen

\* What follows the commit: count, audit, answer 202.
Accept(r, result) ==
    /\ Goto(r, "answered")
    /\ activeMessages' = [activeMessages EXCEPT ![NamespaceOf[r]] = @ + 1]
    /\ reply' = [reply EXCEPT ![r] =
                   [status |-> "accepted",
                    durable |-> DurabilityStatus(result),
                    errorType |-> None]]
    /\ UNCHANGED seen

\* validateCommitData: the message is the transaction's and there is a
\* result, whatever writeToLog does, so only the durability can be wrong.
CommitDataIsValid(result) == DurabilityStatus(result) \in Durability

FallbackOrder(backend) ==
    CASE backend = "redis" -> <<"kafka", "sqs">>
      [] backend = "kafka" -> <<"redis", "sqs">>
      [] backend = "sqs" -> <<"kafka", "redis">>

\* The first healthy one of the primary and its fallbacks.
SelectProducer(backend, redisIsHealthy) ==
    LET order == <<backend>> \o FallbackOrder(backend)
        healthy == {i \in DOMAIN order : order[i] # "redis" \/ redisIsHealthy}
    IN  order[CHOOSE i \in healthy : \A j \in healthy : i <= j]

\* Begin the transaction and hand the message to the producer: an XADD goes
\* out, or a mock's promise is already resolved.
BeginAndSend(r, backend) ==
    /\ Orchestrator!Begin(r)
    /\ producer' = [producer EXCEPT ![r] = backend]
    /\ Goto(r, IF backend = "redis" THEN "xadd" ELSE "mock")
    /\ Forget(r)
    /\ UNCHANGED <<registry, reply, activeMessages, copies>>

-----------------------------------------------------------------------------
(* One request.                                                            *)

\* The controller calls writeToLog, which sends its first namespace query.
Receive(r) ==
    /\ pc[r] = "new"
    /\ LoopIsIdle
    /\ Goto(r, "lookup")
    /\ seen' = [seen EXCEPT ![r] = Facts(Row(r))]
    /\ UNCHANGED <<registry, producer, reply, activeMessages, copies>>
    /\ UNCHANGED orchestratorVars

\* mutant: the backend is that of a row read earlier, by anybody
Looked_Cached(r) ==
    /\ pc[r] = "lookup"
    /\ Orchestrator!MayCall(r)
    /\ Found(r)
    /\ \E backend \in Backends : producer' = [producer EXCEPT ![r] = backend]
    /\ Goto(r, "validate")
    /\ UNCHANGED <<registry, reply, activeMessages, copies, seen>>
    /\ UNCHANGED orchestratorVars

\* The first row arrives and validateAndEnrichMessage is content with it.
\* Its backend is what selectProducer will use; the second query goes out.
Looked(r) ==
    /\ pc[r] = "lookup"
    /\ Orchestrator!MayCall(r)
    /\ Found(r)
    /\ producer' = [producer EXCEPT ![r] = Row(r).backend]
    /\ Goto(r, "validate")
    /\ UNCHANGED <<registry, reply, activeMessages, copies, seen>>
    /\ UNCHANGED orchestratorVars

\* It is not: no such namespace, a malformed API key, or a payload that
\* breaks the schema rules.
Rejected(r) ==
    /\ pc[r] = "lookup"
    /\ Orchestrator!MayCall(r)
    /\ \/ ~Found(r) /\ Throw(r, "NamespaceNotFound")
       \/ Found(r) /\ Throw(r, "BadRequest")
    /\ UNCHANGED <<registry, producer, copies, orchestratorVars>>

\* The second row arrives and passes NamespaceService.validateRequest.  A
\* health check of Redis is a PING; the mocks need none.
Validated(r) ==
    /\ pc[r] = "validate"
    /\ Orchestrator!MayCall(r)
    /\ Found(r)
    /\ Row(r).enabled
    /\ IF producer[r] = "redis"
       THEN /\ Goto(r, "ping")
            /\ UNCHANGED <<registry, producer, reply, activeMessages, copies,
                           seen, orchestratorVars>>
       ELSE BeginAndSend(r, SelectProducer(producer[r], FALSE))

\* It does not pass: not found any more, disabled, or over a limit.
Refused(r) ==
    /\ pc[r] = "validate"
    /\ Orchestrator!MayCall(r)
    /\ \/ ~Found(r) /\ Throw(r, "NotFound")
       \/ Found(r) /\ ~Row(r).enabled /\ Throw(r, "BadRequest")
       \/ Found(r) /\ Row(r).enabled /\ Throw(r, "ValidationError")
    /\ UNCHANGED <<registry, producer, copies, orchestratorVars>>

\* Either namespace query fails.
QueryFails(r) ==
    /\ pc[r] \in {"lookup", "validate"}
    /\ Orchestrator!MayCall(r)
    /\ Throw(r, "QueryFailedError")
    /\ UNCHANGED <<registry, producer, copies, orchestratorVars>>

\* The PING is answered, or fails: selectProducer takes Redis or a fallback.
Pinged(r, healthy) ==
    /\ pc[r] = "ping"
    /\ Orchestrator!MayCall(r)
    /\ BeginAndSend(r, SelectProducer("redis", healthy))

\* The XADD succeeds: commit.  If the cleanup was faster there is nothing
\* to commit, the call returns at once, and the request goes on.
Appended(r) ==
    /\ pc[r] = "xadd"
    /\ copies[r] > 0
    /\ Orchestrator!MayCall(r)
    /\ \/ /\ Orchestrator!CallCommit(r, CommitDataIsValid(RedisResult))
          /\ Goto(r, "commit")
          /\ UNCHANGED <<reply, activeMessages, seen>>
       \/ /\ ~Orchestrator!Found(r)
          /\ Accept(r, RedisResult)
          /\ UNCHANGED orchestratorVars
    /\ UNCHANGED <<registry, producer, copies>>

\* mutant: the catch does not roll back
SendFails_NoRollback(r) ==
    /\ pc[r] = "xadd"
    /\ Throw(r, "RedisError")
    /\ UNCHANGED <<registry, producer, copies, orchestratorVars>>

\* mutant: the catch does not throw the error on
SendFails_Swallowed(r) ==
    /\ pc[r] = "xadd"
    /\ ~Orchestrator!Found(r)
    /\ Accept(r, RedisResult)
    /\ UNCHANGED <<registry, producer, copies, orchestratorVars>>

\* mutant: the rollback of what the cleanup has taken never returns
SendFails_Waits(r) ==
    /\ pc[r] = "xadd"
    /\ Orchestrator!MayCall(r)
    /\ Goto(r, "abort")
    /\ \/ Orchestrator!CallRollback(r)
       \/ ~Orchestrator!Found(r) /\ UNCHANGED orchestratorVars
    /\ UNCHANGED <<registry, producer, reply, activeMessages, copies, seen>>

\* The XADD is rejected: the inner catch rolls back and throws the error on.
SendFails(r) ==
    /\ pc[r] = "xadd"
    /\ Orchestrator!MayCall(r)
    /\ \/ /\ Orchestrator!CallRollback(r)
          /\ Goto(r, "abort")
          /\ UNCHANGED <<reply, activeMessages, seen>>
       \/ /\ ~Orchestrator!Found(r)
          /\ Throw(r, "RedisError")
          /\ UNCHANGED orchestratorVars
    /\ UNCHANGED <<registry, producer, copies>>

\* mutant: a mock's result passes for a success
MockAnswers_Commits(r) ==
    /\ pc[r] = "mock"
    /\ Orchestrator!CallCommit(r, TRUE)
    /\ Goto(r, "commit")
    /\ UNCHANGED <<registry, producer, reply, activeMessages, copies, seen>>

\* A mock has answered.  Its result has no `success`, so writeToLog rolls
\* the transaction back, and then goes on to commit it.
MockAnswers(r) ==
    /\ pc[r] = "mock"
    /\ ~MockResult.success
    /\ Orchestrator!CallRollback(r)
    /\ Goto(r, "undo")
    /\ UNCHANGED <<registry, producer, reply, activeMessages, copies, seen>>

\* mutant: an error after the commit reaches the outer catch
Committed_ThenThrows(r) ==
    /\ pc[r] = "commit"
    /\ \E m \in microtasks : m.txn = r /\ Orchestrator!FinishCommit(m)
    /\ Throw(r, "RedisError")
    /\ UNCHANGED <<registry, producer, copies>>

\* The orchestrator has committed: the rest of writeToLog.
Committed(r) ==
    /\ pc[r] = "commit"
    /\ \E m \in microtasks : m.txn = r /\ Orchestrator!FinishCommit(m)
    /\ Accept(r, RedisResult)
    /\ UNCHANGED <<registry, producer, copies>>

\* mutant: the commit that follows overrides the rollback
Undone_Commits(r) ==
    /\ pc[r] = "undo"
    /\ \E m \in microtasks :
         m.txn = r /\ m.op = "rollback" /\ microtasks' = microtasks \ {m}
    /\ Orchestrator!Settle(r, "committed")
    /\ Accept(r, MockResult)
    /\ UNCHANGED <<registry, producer, copies>>

\* mutant: nothing awaits the rollback to go on
Undone_Hangs(r) ==
    /\ pc[r] = "undo"
    /\ \E m \in microtasks : m.txn = r /\ Orchestrator!FinishRollback(m)
    /\ UNCHANGED requestVars

\* The rollback of a result without `success` is done.  The commit that
\* follows finds no transaction and returns, and the request is accepted.
Undone(r) ==
    /\ pc[r] = "undo"
    /\ \E m \in microtasks : m.txn = r /\ Orchestrator!FinishRollback(m)
    /\ Accept(r, MockResult)
    /\ UNCHANGED <<registry, producer, copies>>

\* The catch's rollback is done: throw on.
Aborted(r) ==
    /\ pc[r] = "abort"
    /\ \E m \in microtasks : m.txn = r /\ Orchestrator!FinishRollback(m)
    /\ Throw(r, "RedisError")
    /\ UNCHANGED <<registry, producer, copies>>

-----------------------------------------------------------------------------
(* The environment and the timers.                                         *)

\* Redis appends a command it was sent, whether or not its client still
\* waits for it or its process still lives.
RedisAppends(r) ==
    /\ producer[r] = "redis"
    /\ decision[r] # "unused"
    /\ copies[r] < MaxCopies
    /\ copies' = [copies EXCEPT ![r] = @ + 1]
    /\ UNCHANGED <<registry, pc, producer, reply, activeMessages, seen>>
    /\ UNCHANGED orchestratorVars

\* Someone edits the namespace table.
Administer ==
    /\ \E n \in Namespaces, row \in Configs \cup {Absent} :
         /\ registry' = [registry EXCEPT ![n] = row]
         /\ seen' = [r \in Requests |->
                       IF NamespaceOf[r] = n /\ pc[r] \in {"lookup", "validate", "ping"}
                       THEN seen[r] \cup Facts(row) ELSE seen[r]]
    /\ UNCHANGED <<pc, producer, reply, activeMessages, copies>>
    /\ UNCHANGED orchestratorVars

CleanupTimer == LoopIsIdle /\ Orchestrator!Cleanup /\ UNCHANGED requestVars

\* A microtask of the cleanup.
CleanupRollsBack ==
    /\ \E m \in microtasks : m.by = "cleanup" /\ Orchestrator!FinishRollback(m)
    /\ UNCHANGED requestVars

TimePasses == LoopIsIdle /\ Orchestrator!Tick /\ UNCHANGED requestVars

Crash ==
    /\ Orchestrator!Restart
    /\ pc' = [r \in Requests |-> IF pc[r] \in Waiting THEN "dead" ELSE pc[r]]
    /\ activeMessages' = [n \in Namespaces |-> 0]
    /\ seen' = [r \in Requests |-> {}]
    /\ UNCHANGED <<registry, producer, reply, copies>>

Handle(r) ==
    \/ Receive(r) \/ Looked(r) \/ Rejected(r) \/ Validated(r) \/ Refused(r)
    \/ QueryFails(r)
    \/ \E healthy \in BOOLEAN : Pinged(r, healthy)
    \/ Appended(r) \/ SendFails(r) \/ MockAnswers(r)
    \/ Committed(r) \/ Undone(r) \/ Aborted(r)

Next ==
    \/ \E r \in Requests : Handle(r) \/ RedisAppends(r)
    \/ Administer
    \/ CleanupTimer \/ CleanupRollsBack \/ TimePasses \/ Crash

Spec == Init /\ [][Next]_vars

\* Node runs what follows a settled promise, and due timers.  Nothing is
\* assumed of Postgres, Redis or clients: a reply may never come.
Continue(r) == MockAnswers(r) \/ Committed(r) \/ Undone(r) \/ Aborted(r)

Fairness ==
    /\ \A r \in Requests : WF_vars(Continue(r))
    /\ WF_vars(CleanupRollsBack) /\ WF_vars(CleanupTimer) /\ WF_vars(TimePasses)

FairSpec == Spec /\ Fairness

-----------------------------------------------------------------------------
(* Properties.                                                             *)

Succeeded(r) == reply[r].status = "accepted"
Failed(r) == reply[r].status \in Errors

\* Whatever happened to a request, once it is answered its transaction is
\* no longer in the orchestrator's table: no path out of writeToLog leaves
\* it for the cleanup.
AnsweredLeavesNothingOpen ==
    \A r \in Requests : pc[r] = "answered" => r \notin activeTransactions

\* A transaction counts as committed only when its message is in the
\* stream; in particular no mock is ever committed.
CommittedIsStored ==
    \A r \in Requests : decision[r] = "committed" => copies[r] > 0

\* A client that was told of an error never has a committed transaction.
FailedIsNotCommitted ==
    \A r \in Requests : Failed(r) => decision[r] # "committed"

\* A request that went to Redis is accepted only when its message is in the
\* stream, also when its transaction was cleaned up in the meantime.
AcceptedByRedisIsStored ==
    \A r \in Requests :
        Succeeded(r) /\ producer[r] = "redis" => copies[r] > 0

\* When a request is about to call the orchestrator from a microtask, no
\* half of the cleanup is queued: the timer cannot come between a mock's
\* answer and the rollback that follows it.
CallsAreAdmissible ==
    \A r \in Requests : pc[r] = "mock" =>
        Orchestrator!MayCall(r) /\ Orchestrator!Found(r)

\* writeToLog uses the orchestrator as its callers may, so everything shown
\* of the orchestrator holds inside the service.
UsesOrchestrator == Orchestrator!Spec

\* Its liveness too, when only the event loop is fair: requests that hang in
\* Redis or Postgres for ever keep neither the timer nor a queued half from
\* running, so every transaction leaves the table all the same.
DrivesOrchestrator == Orchestrator!FairSpec

\* Once a producer has answered, the client is: neither the timer, other
\* requests nor the administrator can hold the answer up.
AnswersGetThrough ==
    \A r \in Requests :
        pc[r] \in {"mock", "commit", "undo", "abort"}
            ~> pc[r] \in {"answered", "dead"}

\* The half of commit or rollback that a request has queued and waits for.
HalfOf(r) ==
    [op |-> IF pc[r] = "commit" THEN "commit" ELSE "rollback",
     txn |-> r, by |-> "caller"]

\* No wake-up is lost: whatever else runs, a request that waits for the
\* orchestrator finds the half that lets it go on in the queue.
NobodyWaitsInVain ==
    \A r \in Requests :
        pc[r] \in {"commit", "undo", "abort"} => HalfOf(r) \in microtasks

\* The backend a message goes to and the permission to send it come from two
\* reads of the namespace, and the namespace may change around them.  Still,
\* when a message is sent, its namespace has had that backend, or the one
\* this is the fallback of, and has been enabled, while the request was
\* under way: neither read is answered by what held before it.
WritesFollowTheNamespace ==
    [][\A r \in Requests :
         decision[r] = "unused" /\ decision'[r] = "active"
             => {producer[r], "enabled"} \subseteq seen[r]]_vars

\* What the service relies on when it sends to Redis.  A promise whose
\* process died is nobody's.
SendOf(r) ==
    CASE pc[r] = "dead" -> "lost"
      [] pc[r] = "xadd" -> "pending"
      [] pc[r] = "commit" -> "resolved"
      [] pc[r] = "abort" -> "rejected"
      [] pc[r] = "answered" /\ producer[r] = "redis" /\ decision[r] # "unused" ->
           IF Succeeded(r) THEN "resolved" ELSE "rejected"
      [] OTHER -> "unsent"

Stored == {r \in Requests : copies[r] > 0}

Send == INSTANCE MessageSend WITH
    Messages <- Requests,
    send <- [r \in Requests |-> SendOf(r)],
    stored <- Stored

\* writeToLog takes the outcome of a send for no more than what
\* RedisProducer is shown to deliver, and for no less: the client's answer
\* is the send's, through timeouts and late replies.
SendsAsPromised == Send!Spec

AnswerOf(r) ==
    CASE pc[r] = "dead" -> "never"
      [] Succeeded(r) -> "accepted"
      [] Failed(r) -> "refused"
      [] OTHER -> "none"

SentToRedis == {r \in Requests : producer[r] = "redis" /\ decision[r] # "unused"}
Overdue == {r \in Requests : age[r] > Timeout}

Client == INSTANCE DurableWrite WITH
    Writes <- Requests,
    answer <- [r \in Requests |-> AnswerOf(r)],
    transaction <- decision,
    kept <- SentToRedis,
    stored <- Stored,
    overdue <- Overdue

\* What a client is told, what its transaction is counted as and what is in
\* the stream fit together as DurableWrite says, through late answers,
\* fallbacks, cleanups and crashes: there are no other ways to part.
WritesAreDurable == Client!Spec

\* EXPECTED TO FAIL.  "Commit a transaction after successful processing"
\* (transaction-orchestrator.service.ts:101): an accepted write that went
\* to Redis has its transaction committed.
AcceptedByRedisIsCommitted ==
    \A r \in Requests :
        Succeeded(r) /\ producer[r] = "redis" => decision[r] = "committed"

\* EXPECTED TO FAIL.  "Check if message was successfully persisted"
\* (wal.service.ts:742): a client told `persisted` has its message stored.
PersistedIsStored ==
    \A r \in Requests : reply[r].durable = "persisted" => copies[r] > 0

\* EXPECTED TO FAIL.  ValidationError carries status 400
\* (error.types.ts:69): a request refused with one, for being over a limit
\* of its namespace, is not answered as an internal error.
ValidationErrorsAreClientErrors ==
    \A r \in Requests :
        reply[r].errorType = "ValidationError" =>
            reply[r].status # "InternalServerError"

\* EXPECTED TO FAIL.  wal_active_messages is the "Number of active messages
\* being processed" (metrics.module.ts:26).
ActiveMessagesAreInProcess ==
    \A n \in Namespaces :
        activeMessages[n] <= Cardinality({r \in Requests :
            NamespaceOf[r] = n /\ pc[r] \in Waiting})
=============================================================================
