------------------------ MODULE RedisProducerProofs ------------------------
(***************************************************************************)
(* Proofs about RedisProducer for any number of sends.  ClientInv relates  *)
(* the flag to the client, SendInv each send to the headers it has and to  *)
(* what Redis was told, and StreamInv the stream to what was appended.     *)
(***************************************************************************)
EXTENDS RedisProducer, TLAPS

SendTypes ==
    /\ headers \in [Sends -> SUBSET {"ttl", "delay"}]
    /\ pc \in [Sends -> Waiting \cup {"idle", "sent", "failed", "unhealthy", "lost"}]
    /\ pinged \in SUBSET Sends /\ issued \in SUBSET Sends
    /\ appended \in SUBSET Sends /\ delayed \in SUBSET Sends

\* A send that calls connect() is the only one, has made no health check,
\* and the client is between the call and the event that ends it.
ClientInv ==
    /\ client \in {"connecting", "open", "ready", "broken", "closing",
                   "aborting", "reconnecting", "end"}
    /\ isConnected \in BOOLEAN
    /\ FlagIsAccurate
    /\ \A s \in Sends : pc[s] = "connect" => client \notin {"reconnecting", "end"}
    /\ \A s, t \in Sends : pc[s] = "connect" /\ pc[t] = "connect" => s = t
    /\ \A s \in pinged : pc[s] \notin {"idle", "connect"}

\* Past its XADD a message was appended, and each further command is one
\* that its headers ask for.
SendInv ==
    \A s \in Sends :
        /\ s \in issued => pc[s] \notin {"idle", "ping", "connect", "unhealthy"}
        /\ s \in appended => s \in issued
        /\ pc[s] \in {"expire", "zadd", "sent"} => s \in appended
        /\ pc[s] = "expire" => "ttl" \in headers[s]
        /\ pc[s] = "sent" /\ "delay" \in headers[s] => s \in delayed
        /\ s \in delayed => s \in appended

StreamInv ==
    /\ inStream \in SUBSET Sends
    /\ expires \in BOOLEAN
    /\ expires => \E s \in appended : "ttl" \in headers[s]
    /\ OnlyTtlLosesMessages

Inv == SendTypes /\ ClientInv /\ SendInv /\ StreamInv

LEMMA InvInit == Init => Inv
BY DEF Init, Inv, SendTypes, ClientInv, SendInv, StreamInv, FlagIsAccurate,
       OnlyTtlLosesMessages

\* A step that leaves Redis alone keeps what holds of the stream.
LEMMA StreamSame ==
    ASSUME StreamInv, UNCHANGED <<headers, redisVars>> PROVE StreamInv'
BY DEF StreamInv, redisVars, OnlyTtlLosesMessages

LEMMA StartStep ==
    ASSUME Inv, NEW s \in Sends, pc[s] \in {"idle", "ping"}, Start(s),
           pc[s] = "idle" => s \notin pinged,
           pc[s] = "ping" => client \in {"ready", "closing"},
           UNCHANGED <<isConnected, connectionStatus, headers, pinged, redisVars>>
    PROVE  Inv'
<1> USE DEF Start, Issue, Goto, redisVars
<1>1. SendTypes'
    BY DEF Inv, SendTypes, Waiting
<1>2. ClientInv'
    BY DEF Inv, SendTypes, ClientInv, FlagIsAccurate
<1>3. SendInv'
    BY DEF Inv, SendTypes, SendInv
<1>4. StreamInv'
    BY StreamSame DEF Inv
<1>5. QED
    BY <1>1, <1>2, <1>3, <1>4 DEF Inv

\* The answers and failures of the commands.
LEMMA AnsweredStep ==
    ASSUME Inv, NEW s \in Sends, Answered(s) \/ CommandFails(s)
    PROVE  Inv'
<1> USE DEF Goto, AfterXadd, AfterExpire
<1>1. SendTypes'
    BY DEF Inv, SendTypes, Waiting, Answered, CommandFails
<1>2. ClientInv'
    BY DEF Inv, SendTypes, ClientInv, FlagIsAccurate, Answered, CommandFails
<1>3. SendInv'
    BY DEF Inv, SendTypes, SendInv, Answered, CommandFails
<1>4. StreamInv'
    <2>0. expires \in BOOLEAN
        BY DEF Inv, StreamInv
    <2>1. pc[s] = "expire" => \E t \in appended : "ttl" \in headers[t]
        BY DEF Inv, SendInv
    <2>2. expires' \in BOOLEAN /\ (expires' => expires \/ pc[s] = "expire")
        <3>1. CASE Answered(s)
            <4>1. \/ expires' = expires
                  \/ pc[s] = "expire" /\ expires' = (inStream # {})
                BY <3>1 DEF Answered
            <4>2. CASE pc[s] # "expire"
                BY <2>0, <4>1, <4>2
            <4>3. CASE pc[s] = "expire"
                <5>1. expires' \in BOOLEAN
                    BY <2>0, <4>1
                <5>2. QED
                    BY <4>3, <5>1
            <4>4. QED
                BY <4>2, <4>3
        <3>2. CASE CommandFails(s)
            <4>1. \/ expires' = expires
                  \/ expires' = (expires \/ (pc[s] = "expire" /\ inStream # {}))
                BY <3>2, Zenon DEF CommandFails
            <4>2. CASE pc[s] # "expire"
                BY <2>0, <4>1, <4>2
            <4>3. CASE pc[s] = "expire"
                <5>1. expires' \in BOOLEAN
                    BY <2>0, <4>1
                <5>2. QED
                    BY <4>3, <5>1
            <4>4. QED
                BY <4>2, <4>3
        <3>3. QED
            BY <3>1, <3>2
    <2>3. UNCHANGED <<headers, appended, inStream>>
        BY DEF Answered, CommandFails
    <2>4. QED
        BY <2>1, <2>2, <2>3 DEF Inv, StreamInv, OnlyTtlLosesMessages
<1>5. QED
    BY <1>1, <1>2, <1>3, <1>4 DEF Inv

LEMMA HealthStep ==
    ASSUME Inv, NEW s \in Sends, HealthCheck(s) \/ PingFails(s)
    PROVE  Inv'
<1> USE DEF Goto, redisVars, HealthCheck, PingFails
<1>1. SendTypes'
    BY DEF Inv, SendTypes, Waiting
<1>2. ClientInv'
    BY DEF Inv, SendTypes, ClientInv, FlagIsAccurate
<1>3. SendInv'
    BY DEF Inv, SendTypes, SendInv
<1>4. StreamInv'
    BY StreamSame DEF Inv
<1>5. QED
    BY <1>1, <1>2, <1>3, <1>4 DEF Inv

\* The events of the client.
LEMMA EventStep ==
    ASSUME Inv, ClientEvent
    PROVE  Inv'
<1> USE DEF ClientEvent, Connected, Ready, SocketError, Close, Reconnect,
            Disconnect, sendVars, redisVars, Leaving
<1>1. SendTypes'
    BY DEF Inv, SendTypes, Waiting
<1>2. ClientInv'
    <2>1. CASE Connected \/ SocketError \/ Reconnect
        <3>1. CASE Connected
            BY <3>1 DEF Inv, ClientInv, FlagIsAccurate
        <3>2. CASE SocketError
            BY <3>2 DEF Inv, ClientInv, FlagIsAccurate
        <3>3. CASE Reconnect
            BY <3>3 DEF Inv, ClientInv, FlagIsAccurate
        <3>4. QED
            BY <2>1, <3>1, <3>2, <3>3
    <2>2. CASE Ready
        <3>1. isConnected = TRUE
            BY <2>2 DEF Inv, ClientInv, FlagIsAccurate
        <3>2. isConnected' = TRUE
            BY <2>2, <3>1, Zenon DEF Ready
        <3>3. QED
            BY <2>2, <3>2 DEF Inv, SendTypes, ClientInv, FlagIsAccurate
    <2>3. CASE Close
        BY <2>3 DEF Inv, SendTypes, ClientInv, FlagIsAccurate
    <2>4. CASE Disconnect
        BY <2>4 DEF Inv, SendTypes, ClientInv, FlagIsAccurate
    <2>5. QED
        BY <2>1, <2>2, <2>3, <2>4
<1>3. SendInv'
    BY DEF Inv, SendTypes, SendInv
<1>4. StreamInv'
    BY StreamSame DEF Inv
<1>5. QED
    BY <1>1, <1>2, <1>3, <1>4 DEF Inv

\* Redis appends a message or drops the stream.
LEMMA RedisStep ==
    ASSUME Inv, Expire \/ \E s \in Sends : Append(s)
    PROVE  Inv'
<1> USE DEF Expire, Append, sendVars
<1>1. SendTypes' /\ ClientInv' /\ SendInv'
    BY DEF Inv, SendTypes, ClientInv, FlagIsAccurate, SendInv
<1>2. StreamInv'
    <2>1. CASE Expire
        BY <2>1 DEF Inv, SendTypes, StreamInv, OnlyTtlLosesMessages
    <2>2. ASSUME NEW s \in Sends, Append(s) PROVE StreamInv'
        <3>1. inStream' \in SUBSET Sends /\ expires' \in BOOLEAN
            BY <2>2 DEF Inv, StreamInv
        <3>2. appended \subseteq appended' /\ headers' = headers /\ expires' = expires
            BY <2>2
        <3>3. inStream = appended => inStream' = appended'
            BY <2>2
        <3>4. QED
            BY <3>1, <3>2, <3>3 DEF Inv, StreamInv, OnlyTtlLosesMessages
    <2>3. QED
        BY <2>1, <2>2
<1>3. QED
    BY <1>1, <1>2 DEF Inv

LEMMA CrashStep ==
    ASSUME Inv, Crash
    PROVE  Inv'
<1> USE DEF Crash
<1>1. SendTypes'
    BY DEF Inv, SendTypes, Waiting
<1>2. ClientInv'
    BY DEF Inv, SendTypes, ClientInv, FlagIsAccurate, Waiting
<1>3. SendInv'
    BY DEF Inv, SendTypes, SendInv, Waiting
<1>4. StreamInv'
    <2>1. ASSUME NEW s \in Sends, pc[s] = "expire"
          PROVE  \E t \in appended : "ttl" \in headers[t]
        BY <2>1 DEF Inv, SendInv
    <2>2. QED
        BY <2>1 DEF Inv, StreamInv, OnlyTtlLosesMessages
<1>5. QED
    BY <1>1, <1>2, <1>3, <1>4 DEF Inv

LEMMA InvNext == Inv /\ [Next]_vars => Inv'
<1> SUFFICES ASSUME Inv, [Next]_vars PROVE Inv'
    OBVIOUS
<1>1. ASSUME NEW s \in Sends, Send(s) \/ Pong(s) PROVE Inv'
    <2>1. pc[s] = "idle" => s \notin pinged
        BY DEF Inv, ClientInv
    <2>2. QED
        BY <1>1, <2>1, StartStep DEF Send, Pong
<1>2. CASE UNCHANGED vars
    BY <1>2 DEF vars, sendVars, redisVars, Inv, SendTypes, ClientInv,
                FlagIsAccurate, SendInv, StreamInv, OnlyTtlLosesMessages
<1>3. QED
    BY <1>1, <1>2, HealthStep, AnsweredStep, EventStep, RedisStep, CrashStep DEF Next

LEMMA InvIsSafe == Spec => []Inv
BY InvInit, InvNext, PTL DEF Spec

\* Types of all variables; the gauge's labels are set to 0 and 1 only.
THEOREM TypeCorrect == Spec => []TypeOK
<1> DEFINE GaugeType == connectionStatus \in [Labels -> {0, 1}]
<1>1. Init => GaugeType
    BY DEF Init
<1>2. GaugeType /\ [Next]_vars => GaugeType'
    BY DEF Next, Send, HealthCheck, Pong, PingFails, Answered, CommandFails,
           Append, ClientEvent, Connected, Ready, SocketError, Close, Reconnect,
           Disconnect, Expire, Crash, SetStatus, Labels, vars
<1>3. Inv /\ GaugeType => TypeOK
    BY DEF Inv, SendTypes, ClientInv, StreamInv, TypeOK
<1>4. QED
    BY <1>1, <1>2, <1>3, InvIsSafe, PTL DEF Spec

\* The flag that send trusts is right between any two events.
THEOREM FlagIsAccurateThm == Spec => []FlagIsAccurate
<1>1. Inv => FlagIsAccurate
    BY DEF Inv, ClientInv
<1>2. QED
    BY <1>1, InvIsSafe, PTL

\* A send that resolves has its message in the stream's history.
THEOREM SentWasAppendedThm == Spec => []SentWasAppended
<1>1. Inv => SentWasAppended
    BY DEF Inv, SendInv, SentWasAppended
<1>2. QED
    BY <1>1, InvIsSafe, PTL

\* A delayed message whose send resolves is scheduled.
THEOREM DelayedIsScheduledThm == Spec => []DelayedIsScheduled
<1>1. Inv => DelayedIsScheduled
    BY DEF Inv, SendInv, DelayedIsScheduled
<1>2. QED
    BY <1>1, InvIsSafe, PTL

\* Nothing is scheduled that was not appended, whatever fails or crashes.
THEOREM ScheduledWasAppendedThm == Spec => []ScheduledWasAppended
<1>1. Inv => ScheduledWasAppended
    BY DEF Inv, SendTypes, SendInv, ScheduledWasAppended
<1>2. QED
    BY <1>1, InvIsSafe, PTL

\* No send that made a health check is ever refused its connect().
THEOREM HealthySendsDoNotConnectThm == Spec => []HealthySendsDoNotConnect
<1>1. Inv => HealthySendsDoNotConnect
    BY DEF Inv, ClientInv, HealthySendsDoNotConnect
<1>2. QED
    BY <1>1, InvIsSafe, PTL

\* A stream that nobody sends a ttl header to keeps every message.
THEOREM OnlyTtlLosesMessagesThm == Spec => []OnlyTtlLosesMessages
<1>1. Inv => OnlyTtlLosesMessages
    BY DEF Inv, StreamInv
<1>2. QED
    BY <1>1, InvIsSafe, PTL

-----------------------------------------------------------------------------
(* send implements MessageSend.                                            *)

\* The abstract step of one send, while the stream stays as it is.
LEMMA OneSend ==
    ASSUME NEW s \in Sends, UNCHANGED appended,
           \A t \in Sends \ {s} : SendOf(t)' = SendOf(t),
           \/ SendOf(s)' = SendOf(s)
           \/ SendOf(s) = "unsent" /\ SendOf(s)' = "pending"
           \/ SendOf(s) = "pending" /\ SendOf(s)' = "resolved" /\ s \in appended
           \/ SendOf(s) \in {"unsent", "pending"} /\ SendOf(s)' = "rejected"
    PROVE  [Promise!Next]_Promise!vars
<1> DEFINE send == [t \in Sends |-> SendOf(t)]
<1>1. send' = [send EXCEPT ![s] = SendOf(s)']
    OBVIOUS
<1>2. send[s] = SendOf(s)
    OBVIOUS
<1> HIDE DEF send
<1>3. CASE SendOf(s)' = SendOf(s)
    <2>1. send' = send
        BY <1>3 DEF send
    <2>2. QED
        BY <2>1 DEF send, Promise!vars
<1>4. CASE SendOf(s) = "unsent" /\ SendOf(s)' = "pending"
    <2>1. Promise!Call(s)
        BY <1>1, <1>2, <1>4 DEF send, Promise!Call
    <2>2. QED
        BY <2>1 DEF Promise!Next
<1>5. CASE SendOf(s) = "pending" /\ SendOf(s)' = "resolved" /\ s \in appended
    <2>1. Promise!Resolve(s)
        BY <1>1, <1>2, <1>5 DEF send, Promise!Resolve
    <2>2. QED
        BY <2>1 DEF Promise!Next
<1>6. CASE SendOf(s) \in {"unsent", "pending"} /\ SendOf(s)' = "rejected"
    <2>1. Promise!Reject(s)
        BY <1>1, <1>2, <1>6 DEF send, Promise!Reject
    <2>2. QED
        BY <2>1 DEF Promise!Next
<1>7. QED
    BY <1>3, <1>4, <1>5, <1>6

\* What changes no send and nothing of what reached the stream changes
\* nothing that the contract speaks of.
LEMMA NothingPromised ==
    (\A t \in Sends : SendOf(t)' = SendOf(t)) /\ UNCHANGED appended
        => UNCHANGED Promise!vars
    BY DEF Promise!vars

\* Every step of the service is a step of the contract, or none.
LEMMA StepIsPromised == Inv /\ Inv' /\ [Next]_vars => [Promise!Next]_Promise!vars
<1> SUFFICES ASSUME Inv, Inv', [Next]_vars PROVE [Promise!Next]_Promise!vars
    OBVIOUS
<1>1. ASSUME NEW s \in Sends,
             \/ Send(s) \/ HealthCheck(s) \/ Pong(s) \/ PingFails(s)
             \/ Answered(s) \/ CommandFails(s)
      PROVE  [Promise!Next]_Promise!vars
    <2>1. pc' = [pc EXCEPT ![s] = pc'[s]] /\ UNCHANGED appended
        BY <1>1 DEF Inv, SendTypes, Send, HealthCheck, Pong, PingFails, Answered,
                    CommandFails, Start, Issue, Goto, redisVars
    <2>2. \A t \in Sends \ {s} : SendOf(t)' = SendOf(t)
        BY <2>1 DEF Inv, SendTypes, SendOf
    <2>3. CASE Send(s) \/ Pong(s)
        <3>1. pc[s] \in {"idle", "ping"} /\ pc'[s] \in {"xadd", "connect", "failed"}
            BY <2>3 DEF Inv, SendTypes, Send, Pong, Start, Issue, Goto
        <3>2. QED
            BY <2>1, <2>2, <3>1, OneSend DEF SendOf
    <2>4. CASE HealthCheck(s) \/ PingFails(s)
        <3>1. pc[s] \in {"idle", "ping"} /\ pc'[s] \in {"ping", "unhealthy"}
            BY <2>4 DEF Inv, SendTypes, HealthCheck, PingFails, Goto
        <3>2. QED
            BY <2>1, <2>2, <3>1, OneSend DEF SendOf
    <2>5. CASE Answered(s)
        <3>1. /\ pc[s] \in {"xadd", "expire", "zadd"}
              /\ pc'[s] \in {"expire", "zadd", "sent"}
              /\ s \in appended
            BY <2>5 DEF Inv, SendTypes, SendInv, Answered, AfterXadd, AfterExpire, Goto
        <3>2. QED
            BY <2>1, <2>2, <3>1, OneSend DEF SendOf
    <2>6. CASE CommandFails(s)
        <3>1. pc[s] \in {"xadd", "expire", "zadd"} /\ pc'[s] = "failed"
            BY <2>6 DEF Inv, SendTypes, CommandFails, Goto
        <3>2. QED
            BY <2>1, <2>2, <3>1, OneSend DEF SendOf
    <2>7. QED
        BY <1>1, <2>3, <2>4, <2>5, <2>6
<1>2. ASSUME NEW s \in Sends, Append(s) PROVE Promise!Next
    <2>1. SendOf(s) # "unsent"
        BY <1>2 DEF Inv, SendTypes, SendInv, Append, Waiting, SendOf
    <2>2. \A t \in Sends : SendOf(t)' = SendOf(t)
        BY <1>2 DEF Append, sendVars, SendOf
    <2>3. Promise!Store(s)
        BY <1>2, <2>1, <2>2 DEF Append, Promise!Store
    <2>4. QED
        BY <2>3 DEF Promise!Next
<1>3. CASE Close
    <2>1. UNCHANGED appended
        BY <1>3 DEF Close, redisVars
    <2>2. CASE \E s \in Sends : pc[s] = "connect"
        <3> PICK s \in Sends : pc[s] = "connect"
            BY <2>2
        <3>1. \A t \in Sends \ {s} : pc'[t] = pc[t]
            BY <1>3 DEF Inv, SendTypes, ClientInv, Close
        <3>2. pc'[s] = "failed"
            BY <1>3 DEF Close
        <3>3. \A t \in Sends \ {s} : SendOf(t)' = SendOf(t)
            BY <3>1 DEF SendOf
        <3>4. SendOf(s) = "pending" /\ SendOf(s)' = "rejected"
            BY <3>2 DEF SendOf
        <3>5. QED
            BY <2>1, <3>3, <3>4, OneSend
    <2>3. CASE ~ \E s \in Sends : pc[s] = "connect"
        <3>1. \A t \in Sends : pc'[t] = pc[t]
            BY <1>3, <2>3 DEF Close
        <3>2. \A t \in Sends : SendOf(t)' = SendOf(t)
            BY <3>1 DEF SendOf
        <3>3. QED
            BY <2>1, <3>2, NothingPromised
    <2>4. QED
        BY <2>2, <2>3
<1>4. CASE Ready
    <2>1. \A t \in Sends : SendOf(t)' = SendOf(t)
        BY <1>4 DEF Ready, SendOf
    <2>2. QED
        BY <1>4, <2>1, NothingPromised DEF Ready, redisVars
<1>5. CASE Crash
    <2> DEFINE lost == {s \in Sends : pc'[s] = "lost"}
    <2>1. \A t \in Sends : SendOf(t)' = IF t \in lost THEN "lost" ELSE SendOf(t)
        BY <1>5 DEF Crash, Inv, SendTypes, SendOf
    <2>2. lost \in SUBSET Sends /\ UNCHANGED appended
        BY <1>5 DEF Crash
    <2> HIDE DEF lost
    <2>3. Promise!Die
        BY <2>1, <2>2 DEF Promise!Die
    <2>4. QED
        BY <2>3 DEF Promise!Next
<1>6. CASE \/ Connected \/ SocketError \/ Reconnect \/ Disconnect \/ Expire
           \/ UNCHANGED vars
    <2>1. UNCHANGED <<pc, appended>>
        BY <1>6 DEF Connected, SocketError, Reconnect, Disconnect, Expire, sendVars,
                    redisVars, vars
    <2>2. \A t \in Sends : SendOf(t)' = SendOf(t)
        BY <2>1 DEF SendOf
    <2>3. QED
        BY <2>1, <2>2, NothingPromised
<1>7. QED
    BY <1>1, <1>2, <1>3, <1>4, <1>5, <1>6 DEF Next, ClientEvent

\* RedisProducerService.send keeps the contract that writeToLog uses.
THEOREM PromiseKeptThm == Spec => PromiseKept
<1>1. Init => Promise!Init
    BY DEF Init, Promise!Init, SendOf
<1>2. QED
    BY <1>1, StepIsPromised, InvIsSafe, PTL DEF Spec, PromiseKept, Promise!Spec
=============================================================================
