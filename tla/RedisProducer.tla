--------------------------- MODULE RedisProducer ---------------------------
(***************************************************************************)
(* RedisProducerService: how send and healthCheck use the one ioredis      *)
(* client, and the isConnected flag and connection gauge that its event    *)
(* handlers keep.                                                          *)
(*                                                                         *)
(* The client is not under src/.  Its states stand for what ioredis does   *)
(* as this service configures it: it connects by itself when it is made    *)
(* (configuration.ts sets no lazyConnect), retries for ever after a close, *)
(* queues commands while it is not ready, resends unanswered ones, and its *)
(* connect() refuses to start while a connection is on its way or up.      *)
(* A socket error is followed by a close; an event's handlers and the      *)
(* promise reactions to it run before the next event.                      *)
(*                                                                         *)
(* A crash of the process may come at any time; a new one starts with a    *)
(* new client, and Redis keeps what it has and what it was sent.           *)
(***************************************************************************)
EXTENDS Naturals, FiniteSets

CONSTANT Sends      \* calls of send, all for one topic and hence one stream

VARIABLES
    client,             \* the ioredis connection
    isConnected,
    connectionStatus,   \* gauge redis_connection_status per label, 0 if unset
    headers,            \* which of the headers ttl and delay a send has
    pinged,             \* the sends whose caller made a health check first
    pc,                 \* what each send awaits
    issued,             \* the sends whose XADD went to the client
    appended,           \* history: the messages Redis ever appended
    inStream,           \* the messages in wal:<topic>:messages
    expires,            \* that key has a time to live
    delayed             \* the messages in wal:<topic>:delayed

redisVars == <<appended, inStream, expires, delayed>>
sendVars == <<headers, pinged, pc, issued>>
vars == <<client, isConnected, connectionStatus, sendVars, redisVars>>

Labels == {"connected", "error", "disconnected"}

\* disconnect was called and the close is still to come.
Leaving == {"closing", "aborting"}

\* What a send waits for; after a failed PING there is no send.
Waiting == {"ping", "connect", "xadd", "expire", "zadd"}

TypeOK ==
    /\ client \in {"connecting", "open", "ready", "broken", "closing",
                   "aborting", "reconnecting", "end"}
    /\ isConnected \in BOOLEAN
    /\ connectionStatus \in [Labels -> {0, 1}]
    /\ headers \in [Sends -> SUBSET {"ttl", "delay"}]
    /\ pc \in [Sends -> Waiting \cup {"idle", "sent", "failed", "unhealthy", "lost"}]
    /\ {pinged, issued, appended, inStream, delayed} \subseteq SUBSET Sends
    /\ expires \in BOOLEAN

Init ==
    /\ client = "connecting"
    /\ isConnected = FALSE
    /\ connectionStatus = [l \in Labels |-> 0]
    /\ headers \in [Sends -> SUBSET {"ttl", "delay"}]
    /\ pinged = {}
    /\ pc = [s \in Sends |-> "idle"]
    /\ issued = {}
    /\ appended = {}
    /\ inStream = {}
    /\ expires = FALSE
    /\ delayed = {}

\* mutant: inc for set
SetStatus_Inc(label, value) ==
    connectionStatus' = [connectionStatus EXCEPT ![label] = @ + value]

SetStatus(label, value) ==
    connectionStatus' = [connectionStatus EXCEPT ![label] = value]

Goto(s, label) == pc' = [pc EXCEPT ![s] = label]

-----------------------------------------------------------------------------
(* send and healthCheck.                                                   *)

\* mutant: the ttl header is not asked for
AfterXadd_Expires(s) == "expire"

\* mutant: a ttl makes send forget the delay
AfterExpire_NoDelay(s) == "sent"

\* What send awaits once its XADD, then once its EXPIRE is answered.
AfterExpire(s) == IF "delay" \in headers[s] THEN "zadd" ELSE "sent"
AfterXadd(s) == IF "ttl" \in headers[s] THEN "expire" ELSE AfterExpire(s)

\* mutants: the XADD is not awaited; the delayed entry is made first
Issue_NotAwaited(s) ==
    /\ Goto(s, AfterXadd(s))
    /\ issued' = issued \cup {s}
Issue_ScheduleFirst(s) ==
    /\ Goto(s, IF "delay" \in headers[s] THEN "zadd" ELSE "xadd")
    /\ issued' = issued \cup {s}

Issue(s) ==
    /\ Goto(s, "xadd")
    /\ issued' = issued \cup {s}

\* ensureConnection.  Without the flag it calls connect(), which only starts
\* when the client is between two connections and otherwise rejects.
Start(s) ==
    \/ /\ isConnected
       /\ Issue(s)
       /\ UNCHANGED client
    \/ /\ ~isConnected
       /\ client \in {"reconnecting", "end"}
       /\ client' = "connecting"
       /\ Goto(s, "connect")
       /\ UNCHANGED issued
    \/ /\ ~isConnected
       /\ client \notin {"reconnecting", "end"}
       /\ Goto(s, "failed")
       /\ UNCHANGED <<client, issued>>

\* send, called without a health check.
Send(s) ==
    /\ pc[s] = "idle"
    /\ Start(s)
    /\ UNCHANGED <<isConnected, connectionStatus, headers, pinged, redisVars>>

\* mutant: the health check is not awaited
HealthCheck_NotAwaited(s) ==
    /\ pc[s] = "idle"
    /\ pinged' = pinged \cup {s}
    /\ Start(s)
    /\ UNCHANGED <<isConnected, connectionStatus, headers, redisVars>>

\* What writeToLog does: it calls healthCheck first, which sends a PING.
HealthCheck(s) ==
    /\ pc[s] = "idle"
    /\ pinged' = pinged \cup {s}
    /\ Goto(s, "ping")
    /\ UNCHANGED <<client, isConnected, connectionStatus, headers, issued,
                   redisVars>>

\* PONG; the send follows before the client's next event.
Pong(s) ==
    /\ pc[s] = "ping"
    /\ client \in {"ready", "closing"}
    /\ Start(s)
    /\ UNCHANGED <<isConnected, connectionStatus, headers, pinged, redisVars>>

\* The PING fails: healthCheck is false, and this producer is not used.
PingFails(s) ==
    /\ pc[s] = "ping"
    /\ Goto(s, "unhealthy")
    /\ UNCHANGED <<client, isConnected, connectionStatus, headers, pinged,
                   issued, redisVars>>

\* An answer to XADD, EXPIRE or ZADD.
Answered(s) ==
    /\ client \in {"ready", "closing"}
    /\ \/ /\ pc[s] = "xadd"
          /\ s \in appended
          /\ Goto(s, AfterXadd(s))
          /\ UNCHANGED <<expires, delayed>>
       \/ /\ pc[s] = "expire"
          /\ expires' = (inStream # {})
          /\ Goto(s, AfterExpire(s))
          /\ UNCHANGED delayed
       \/ /\ pc[s] = "zadd"
          /\ delayed' = delayed \cup {s}
          /\ Goto(s, "sent")
          /\ UNCHANGED expires
    /\ UNCHANGED <<client, isConnected, connectionStatus, headers, pinged,
                   issued, appended, inStream>>

\* mutant: the catch does not throw the error on
CommandFails_Swallowed(s) ==
    /\ pc[s] \in {"xadd", "expire", "zadd"}
    /\ Goto(s, "sent")
    /\ UNCHANGED <<client, isConnected, connectionStatus, headers, pinged,
                   issued, appended, inStream, expires, delayed>>

\* A command is rejected: an error reply, or the connection was lost and its
\* retries are used up, in which case Redis may have executed it.  send
\* throws, whatever it has done before.
CommandFails(s) ==
    /\ pc[s] \in {"xadd", "expire", "zadd"}
    /\ Goto(s, "failed")
    /\ expires' \in {expires, expires \/ (pc[s] = "expire" /\ inStream # {})}
    /\ delayed' \in {delayed, IF pc[s] = "zadd" THEN delayed \cup {s} ELSE delayed}
    /\ UNCHANGED <<client, isConnected, connectionStatus, headers, pinged,
                   issued, appended, inStream>>

-----------------------------------------------------------------------------
(* The client's events and the service's handlers.                         *)

\* 'connect', also for a connection that disconnect found under way.
Connected ==
    /\ client \in {"connecting", "aborting"}
    /\ client' = IF client = "aborting" THEN "closing" ELSE "open"
    /\ isConnected' = TRUE
    /\ SetStatus("connected", 1)
    /\ UNCHANGED <<sendVars, redisVars>>

\* 'ready', on which connect() resolves: ensureConnection sets the flag and
\* its send goes on.
Ready ==
    /\ client = "open"
    /\ client' = "ready"
    /\ LET waiting == {s \in Sends : pc[s] = "connect"} IN
       /\ isConnected' = (isConnected \/ waiting # {})
       /\ pc' = [s \in Sends |-> IF s \in waiting THEN "xadd" ELSE pc[s]]
       /\ issued' = issued \cup waiting
    /\ UNCHANGED <<connectionStatus, headers, pinged, redisVars>>

\* 'error'
SocketError ==
    /\ client \in {"connecting", "open", "ready"} \cup Leaving
    /\ client' = IF client \in Leaving THEN client ELSE "broken"
    /\ isConnected' = FALSE
    /\ SetStatus("error", 0)
    /\ UNCHANGED <<sendVars, redisVars>>

\* mutant: only an error clears the flag
Close_KeepsFlag ==
    /\ client \in {"connecting", "open", "ready", "broken"} \cup Leaving
    /\ client' = IF client \in Leaving THEN "end" ELSE "reconnecting"
    /\ SetStatus("disconnected", 0)
    /\ pc' = [s \in Sends |-> IF pc[s] = "connect" THEN "failed" ELSE pc[s]]
    /\ UNCHANGED <<isConnected, headers, pinged, issued, redisVars>>

\* 'close', on which connect() rejects.
Close ==
    /\ client \in {"connecting", "open", "ready", "broken"} \cup Leaving
    /\ client' = IF client \in Leaving THEN "end" ELSE "reconnecting"
    /\ isConnected' = FALSE
    /\ SetStatus("disconnected", 0)
    /\ pc' = [s \in Sends |-> IF pc[s] = "connect" THEN "failed" ELSE pc[s]]
    /\ UNCHANGED <<headers, pinged, issued, redisVars>>

\* ioredis's own retry timer.
Reconnect ==
    /\ client = "reconnecting"
    /\ client' = "connecting"
    /\ UNCHANGED <<isConnected, connectionStatus, sendVars, redisVars>>

\* disconnect.  The connection closes a little later; between connections
\* there is none to close.
Disconnect ==
    /\ client' = CASE client \in {"reconnecting", "end"} -> client
                   [] client \in {"connecting", "aborting"} -> "aborting"
                   [] OTHER -> "closing"
    /\ isConnected' = FALSE
    /\ SetStatus("disconnected", 0)
    /\ UNCHANGED <<sendVars, redisVars>>

-----------------------------------------------------------------------------
(* Redis.                                                                  *)

\* An XADD may take effect any time after it was issued, also when its send
\* has been told that it failed.
Append(s) ==
    /\ s \in issued
    /\ s \notin appended
    /\ appended' = appended \cup {s}
    /\ inStream' = inStream \cup {s}
    /\ UNCHANGED <<client, isConnected, connectionStatus, sendVars, expires,
                   delayed>>

\* The time to live is the stream's, so all its messages go at once.
Expire ==
    /\ expires
    /\ expires' = FALSE
    /\ inStream' = {}
    /\ UNCHANGED <<client, isConnected, connectionStatus, sendVars, appended,
                   delayed>>

\* Commands of the dead process that Redis had received take effect, those
\* still on their way do not; for XADD, Append covers both.
Crash ==
    /\ client' = "connecting"
    /\ isConnected' = FALSE
    /\ connectionStatus' = [l \in Labels |-> 0]
    /\ pc' = [s \in Sends |-> IF pc[s] \in Waiting THEN "lost" ELSE pc[s]]
    /\ \E executed \in SUBSET {s \in Sends : pc[s] \in {"expire", "zadd"}} :
         /\ expires' = \/ expires
                       \/ inStream # {} /\ \E s \in executed : pc[s] = "expire"
         /\ delayed' = delayed \cup {s \in executed : pc[s] = "zadd"}
    /\ UNCHANGED <<headers, pinged, issued, appended, inStream>>

ClientEvent ==
    Connected \/ Ready \/ SocketError \/ Close \/ Reconnect \/ Disconnect

Next ==
    \/ \E s \in Sends :
         \/ Send(s) \/ HealthCheck(s) \/ Pong(s) \/ PingFails(s)
         \/ Answered(s) \/ CommandFails(s) \/ Append(s)
    \/ ClientEvent
    \/ Expire
    \/ Crash

Spec == Init /\ [][Next]_vars

-----------------------------------------------------------------------------
(* Properties.                                                             *)

\* Between two events the flag says whether the client has a connection: no
\* order of events, of a send's own connect() and of disconnect leaves it up
\* without one, or down with one that nobody asked to close.
FlagIsAccurate ==
    /\ isConnected => client \in {"open", "ready", "closing"}
    /\ client \in {"open", "ready"} => isConnected

\* A send that succeeds has its message appended, through reconnections.
SentWasAppended == \A s \in Sends : pc[s] = "sent" => s \in appended

\* A delayed message is scheduled when its send succeeds, with a ttl or not.
DelayedIsScheduled ==
    \A s \in Sends : pc[s] = "sent" /\ "delay" \in headers[s] => s \in delayed

\* What is scheduled refers to a message that was appended, even when the
\* send failed half-way.
ScheduledWasAppended == delayed \subseteq appended

\* A send that follows a health check never has to connect: connect() would
\* be refused to all but the first of several such sends.
HealthySendsDoNotConnect == \A s \in pinged : pc[s] # "connect"

\* Messages vanish from the stream only after one with a ttl header went
\* in: EXPIRE is set on the key that all messages of the topic share, so a
\* send without the header must never get to it.
OnlyTtlLosesMessages ==
    inStream # appended => \E s \in appended : "ttl" \in headers[s]

\* Where the caller's view of a send stands.
SendOf(s) ==
    CASE pc[s] \in {"idle", "ping", "unhealthy"} -> "unsent"
      [] pc[s] \in {"connect", "xadd", "expire", "zadd"} -> "pending"
      [] pc[s] = "sent" -> "resolved"
      [] pc[s] = "failed" -> "rejected"
      [] pc[s] = "lost" -> "lost"

Promise == INSTANCE MessageSend WITH
    Messages <- Sends,
    send <- [s \in Sends |-> SendOf(s)],
    stored <- appended

\* send keeps the contract of IProducer, of which writeToLog is shown to
\* need no more: whatever the connection does, it resolves once and only
\* for a message that is in the stream.
PromiseKept == Promise!Spec

\* EXPECTED TO FAIL.  "Redis connection status (1=connected, 0=disconnected)"
\* (metrics.module.ts:62): 1 under `connected` means there is a connection.
GaugeTellsConnection ==
    connectionStatus["connected"] = 1 => client \in {"open", "ready", "closing"}
=============================================================================
