---------------------------- MODULE DurableWrite ----------------------------
(***************************************************************************)
(* A write as its client sees it: its answer, the outcome its transaction  *)
(* has in the metrics and whether its message is in the stream, and nothing*)
(* of how writeToLog gets there.                                           *)
(*                                                                         *)
(* The plain promise would be that a write is accepted when, and only when,*)
(* it is stored and committed.  The service keeps less than that, and the  *)
(* module says how much less: AcceptLate and AcceptUnkept are the two ways *)
(* for a write to be accepted without being committed, and a write that is *)
(* refused, or never answered, may be stored all the same.                 *)
(***************************************************************************)
CONSTANT Writes

VARIABLES
    answer,         \* what the client was told
    transaction,    \* what became of its transaction
    kept,           \* the writes that went to a store that keeps them
    stored,         \* the writes the store has
    overdue         \* the open ones that are older than the timeout

vars == <<answer, transaction, kept, stored, overdue>>

Open == {w \in Writes : transaction[w] = "active"}
Waits(w) == answer[w] = "none"

Init ==
    /\ answer = [w \in Writes |-> "none"]
    /\ transaction = [w \in Writes |-> "unused"]
    /\ kept = {}
    /\ stored = {}
    /\ overdue = {}

Answer(w, what) == answer' = [answer EXCEPT ![w] = what]

\* The transaction of w ends, and with it its time.
Settle(w, outcome) ==
    /\ w \in Open
    /\ transaction' = [transaction EXCEPT ![w] = outcome]
    /\ overdue' = overdue \ {w}

Begin(w) ==
    /\ Waits(w)
    /\ transaction[w] = "unused"
    /\ transaction' = [transaction EXCEPT ![w] = "active"]
    /\ kept' \in {kept, kept \cup {w}}
    /\ UNCHANGED <<answer, stored, overdue>>

\* The write is turned away: before its transaction begins, or after the
\* cleanup has ended it.
Refuse(w) ==
    /\ Waits(w)
    /\ transaction[w] \in {"unused", "rolled_back"}
    /\ Answer(w, "refused")
    /\ UNCHANGED <<transaction, kept, stored, overdue>>

\* The store reports a failure: the transaction ends as the client learns.
Abort(w) ==
    /\ Waits(w) /\ w \in kept
    /\ Settle(w, "rolled_back")
    /\ Answer(w, "refused")
    /\ UNCHANGED <<kept, stored>>

\* What a write is for.
Complete(w) ==
    /\ Waits(w) /\ w \in kept /\ w \in stored
    /\ Settle(w, "committed")
    /\ Answer(w, "accepted")
    /\ UNCHANGED <<kept, stored>>

\* The store's success comes after the cleanup: stored, and not committed.
AcceptLate(w) ==
    /\ Waits(w) /\ w \in kept /\ w \in stored
    /\ transaction[w] = "rolled_back"
    /\ Answer(w, "accepted")
    /\ UNCHANGED <<transaction, kept, stored, overdue>>

\* The write went to a mock, which keeps nothing.
AcceptUnkept(w) ==
    /\ Waits(w) /\ w \notin kept
    /\ Settle(w, "rolled_back")
    /\ Answer(w, "accepted")
    /\ UNCHANGED <<kept, stored>>

\* The cleanup gives up a write whose client still waits.  It is always one
\* that went to a store: a mock answers before any timer can run.
TimeOut(w) ==
    /\ Waits(w) /\ w \in kept /\ w \in overdue
    /\ Settle(w, "rolled_back")
    /\ UNCHANGED <<answer, kept, stored>>

\* The store takes a write it was sent, at any time after.
Store(w) ==
    /\ w \in kept
    /\ stored' = stored \cup {w}
    /\ UNCHANGED <<answer, transaction, kept, overdue>>

GrowOld ==
    /\ overdue' \in SUBSET (Open \cap kept)
    /\ overdue \subseteq overdue'
    /\ UNCHANGED <<answer, transaction, kept, stored>>

\* The process dies.  Clients with an open transaction, and maybe others,
\* never get an answer.
Die ==
    /\ \E gone \in SUBSET {w \in Writes : Waits(w)} :
         /\ Open \subseteq gone
         /\ answer' = [w \in Writes |-> IF w \in gone THEN "never" ELSE answer[w]]
    /\ transaction' = [w \in Writes |->
                         IF w \in Open THEN "lost" ELSE transaction[w]]
    /\ overdue' = {}
    /\ UNCHANGED <<kept, stored>>

Next ==
    \/ \E w \in Writes :
         \/ Begin(w) \/ Refuse(w) \/ Abort(w) \/ Complete(w)
         \/ AcceptLate(w) \/ AcceptUnkept(w) \/ TimeOut(w) \/ Store(w)
    \/ GrowOld \/ Die

Spec == Init /\ [][Next]_vars
=============================================================================
