---------------------------- MODULE MessageSend ----------------------------
(***************************************************************************)
(* IProducer.send for messages that go to Redis, as the code that calls it *)
(* may rely on it.  A send that resolves has its message in the stream.    *)
(* One that rejects says nothing of the message: it may be there, or get   *)
(* there later.  When the process dies, nobody learns how a send ended.    *)
(***************************************************************************)
CONSTANT Messages

VARIABLES
    send,       \* how far the call for each message has come
    stored      \* the messages that ever reached the stream

vars == <<send, stored>>

Init ==
    /\ send = [m \in Messages |-> "unsent"]
    /\ stored = {}

Call(m) ==
    /\ send[m] = "unsent"
    /\ send' = [send EXCEPT ![m] = "pending"]
    /\ UNCHANGED stored

Store(m) ==
    /\ send[m] # "unsent"
    /\ stored' = stored \cup {m}
    /\ UNCHANGED send

Resolve(m) ==
    /\ send[m] = "pending"
    /\ m \in stored
    /\ send' = [send EXCEPT ![m] = "resolved"]
    /\ UNCHANGED stored

\* A send may be refused at once, when there is no connection to send on.
Reject(m) ==
    /\ send[m] \in {"unsent", "pending"}
    /\ send' = [send EXCEPT ![m] = "rejected"]
    /\ UNCHANGED stored

\* The process dies, and with it the promises of some of the calls.
Die ==
    /\ \E lost \in SUBSET Messages :
         send' = [m \in Messages |-> IF m \in lost THEN "lost" ELSE send[m]]
    /\ UNCHANGED stored

Next ==
    \/ \E m \in Messages : Call(m) \/ Store(m) \/ Resolve(m) \/ Reject(m)
    \/ Die

Spec == Init /\ [][Next]_vars
=============================================================================
