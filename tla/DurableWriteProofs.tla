------------------------- MODULE DurableWriteProofs -------------------------
(***************************************************************************)
(* What a client may conclude from its answer, and that the specification  *)
(* of a durable write is one of a transaction's life and of a send.        *)
(***************************************************************************)
EXTENDS DurableWrite, TLAPS

Answers == {"none", "accepted", "refused", "never"}
Outcomes == {"unused", "active", "committed", "rolled_back", "lost"}

TypeOK ==
    /\ answer \in [Writes -> Answers]
    /\ transaction \in [Writes -> Outcomes]
    /\ kept \subseteq Writes
    /\ stored \subseteq kept
    /\ overdue \subseteq Open \cap kept

\* The three ways to be accepted: stored and committed, stored and given up
\* by the cleanup before the store answered, or kept by nobody.
Explained(w) ==
    \/ transaction[w] = "committed" /\ w \in kept /\ w \in stored
    \/ transaction[w] = "rolled_back" /\ w \in kept /\ w \in stored
    \/ transaction[w] = "rolled_back" /\ w \notin kept

WriteOK(w) ==
    /\ transaction[w] = "unused" => w \notin kept
    /\ transaction[w] = "active" => Waits(w)
    /\ transaction[w] = "committed" => answer[w] = "accepted"
    /\ transaction[w] = "lost" => answer[w] = "never"
    /\ transaction[w] = "rolled_back" /\ w \notin kept => answer[w] = "accepted"
    /\ answer[w] = "accepted" => Explained(w)

Inv == TypeOK /\ \A w \in Writes : WriteOK(w)

LEMMA InvInit == Init => Inv
  BY DEF Init, Inv, TypeOK, WriteOK, Answers, Outcomes, Open

\* A step that concerns one write leaves the others as they are.
LEMMA InvStep ==
    ASSUME Inv, NEW w \in Writes,
           \/ Begin(w) \/ Refuse(w) \/ Abort(w) \/ Complete(w)
           \/ AcceptLate(w) \/ AcceptUnkept(w) \/ TimeOut(w) \/ Store(w)
    PROVE  Inv'
<1> USE DEF Begin, Refuse, Abort, Complete, AcceptLate, AcceptUnkept, TimeOut,
            Store, Answer, Settle, Waits, Open
<1>1. TypeOK
  BY DEF Inv
<1>2. TypeOK'
  BY <1>1 DEF TypeOK, Answers, Outcomes
<1>3. WriteOK(w)'
  BY <1>1 DEF Inv, TypeOK, WriteOK, Explained, Outcomes
<1>4. ASSUME NEW v \in Writes, v # w PROVE WriteOK(v)'
  BY <1>1, <1>4 DEF Inv, TypeOK, WriteOK, Explained
<1> QED
  BY <1>2, <1>3, <1>4 DEF Inv

LEMMA InvNext == Inv /\ [Next]_vars => Inv'
<1> SUFFICES ASSUME Inv, [Next]_vars PROVE Inv'
  OBVIOUS
<1>1. CASE GrowOld \/ UNCHANGED vars
  BY <1>1 DEF GrowOld, vars, Inv, TypeOK, WriteOK, Explained, Waits, Open
<1>2. CASE Die
  <2>1. TypeOK'
    BY <1>2 DEF Die, Inv, TypeOK, Answers, Outcomes, Open
  <2>2. ASSUME NEW w \in Writes PROVE WriteOK(w)'
    BY <1>2 DEF Die, Inv, TypeOK, WriteOK, Explained, Waits, Open
  <2> QED
    BY <2>1, <2>2 DEF Inv
<1> QED
  BY <1>1, <1>2, InvStep DEF Next

LEMMA InvIsSafe == Spec => []Inv
  BY InvInit, InvNext, PTL DEF Spec

-----------------------------------------------------------------------------
(* What an answer says.                                                    *)

\* A committed transaction is that of a write that is stored and accepted.
CommittedIsDurable ==
    \A w \in Writes :
        transaction[w] = "committed" => answer[w] = "accepted" /\ w \in stored

\* No accepted write is left open, unexplained or, if it went to a store
\* that keeps it, without its message.
AcceptedIsExplained ==
    \A w \in Writes : answer[w] = "accepted" => Explained(w)

\* Every answered write's transaction has ended, or never began.
AnsweredIsSettled ==
    \A w \in Writes : ~Waits(w) => transaction[w] # "active"

\* What counts as committed is stored, and its client knows.
THEOREM CommittedIsDurableThm == Spec => []CommittedIsDurable
<1>1. Inv => CommittedIsDurable
  BY DEF Inv, WriteOK, Explained, CommittedIsDurable
<1> QED
  BY <1>1, InvIsSafe, PTL

\* The three ways to be accepted are all there are.
THEOREM AcceptedIsExplainedThm == Spec => []AcceptedIsExplained
<1>1. Inv => AcceptedIsExplained
  BY DEF Inv, WriteOK, AcceptedIsExplained
<1> QED
  BY <1>1, InvIsSafe, PTL

\* An answer leaves no transaction open.
THEOREM AnsweredIsSettledThm == Spec => []AnsweredIsSettled
<1>1. Inv => AnsweredIsSettled
  BY DEF Inv, WriteOK, AnsweredIsSettled
<1> QED
  BY <1>1, InvIsSafe, PTL

\* An answer is given once, and with it the outcome of the transaction is
\* final: neither a late reply, a second append nor a crash changes them.
AnswersAreFinal ==
    [][\A w \in Writes :
         ~Waits(w) => answer'[w] = answer[w] /\ transaction'[w] = transaction[w]]_vars

\* A transaction whose client still waits is rolled back only when it is
\* older than the timeout, so a write can be accepted and not committed only
\* if the store took longer than that, or keeps nothing.
GivenUpWhenOverdue ==
    [][\A w \in Writes :
         /\ transaction[w] = "active" /\ transaction'[w] = "rolled_back"
         /\ answer'[w] = "none"
         => w \in overdue /\ w \in kept]_vars

\* Answers and outcomes are final.
THEOREM AnswersAreFinalThm == Spec => AnswersAreFinal
<1> DEFINE Final == \A w \in Writes :
             ~Waits(w) => answer'[w] = answer[w] /\ transaction'[w] = transaction[w]
<1>1. Inv /\ [Next]_vars => [Final]_vars
  <2> SUFFICES ASSUME Inv, Next, NEW w \in Writes, ~Waits(w)
               PROVE  answer'[w] = answer[w] /\ transaction'[w] = transaction[w]
    OBVIOUS
  <2>1. CASE GrowOld
    BY <2>1 DEF GrowOld
  <2>2. CASE Die
    BY <2>2 DEF Die, Inv, TypeOK, WriteOK, Waits, Open
  <2>3. ASSUME NEW v \in Writes,
               \/ Begin(v) \/ Refuse(v) \/ Abort(v) \/ Complete(v)
               \/ AcceptLate(v) \/ AcceptUnkept(v) \/ TimeOut(v) \/ Store(v)
        PROVE  answer'[w] = answer[w] /\ transaction'[w] = transaction[w]
    BY <2>3 DEF Begin, Refuse, Abort, Complete, AcceptLate, AcceptUnkept,
                TimeOut, Store, Answer, Settle, Waits, Inv, TypeOK
  <2> QED
    BY <2>1, <2>2, <2>3 DEF Next
<1> QED
  BY <1>1, InvIsSafe, PTL DEF Spec, AnswersAreFinal

\* Only what is overdue is given up while its client waits.
THEOREM GivenUpWhenOverdueThm == Spec => GivenUpWhenOverdue
<1> DEFINE InTime == \A w \in Writes :
             /\ transaction[w] = "active" /\ transaction'[w] = "rolled_back"
             /\ answer'[w] = "none"
             => w \in overdue /\ w \in kept
<1>1. Inv /\ [Next]_vars => [InTime]_vars
  <2> SUFFICES ASSUME Inv, Next, NEW w \in Writes, transaction[w] = "active",
                      transaction'[w] = "rolled_back", answer'[w] = "none"
               PROVE  w \in overdue /\ w \in kept
    OBVIOUS
  <2>1. CASE GrowOld \/ Die
    BY <2>1 DEF GrowOld, Die, Open
  <2>2. ASSUME NEW v \in Writes,
               \/ Begin(v) \/ Refuse(v) \/ Abort(v) \/ Complete(v)
               \/ AcceptLate(v) \/ AcceptUnkept(v) \/ TimeOut(v) \/ Store(v)
        PROVE  w \in overdue /\ w \in kept
    BY <2>2 DEF Begin, Refuse, Abort, Complete, AcceptLate, AcceptUnkept,
                TimeOut, Store, Answer, Settle, Inv, TypeOK
  <2> QED
    BY <2>1, <2>2 DEF Next
<1> QED
  BY <1>1, InvIsSafe, PTL DEF Spec, GivenUpWhenOverdue

-----------------------------------------------------------------------------
(* The transaction's life and the send, seen in the write.                 *)

Lifecycle == INSTANCE TransactionLifecycle WITH Txns <- Writes, phase <- transaction

\* The outcome of a send, as the client of a write that went to a store
\* learns it.
SendOf(w) ==
    CASE w \notin kept -> "unsent"
      [] w \in kept /\ Waits(w) -> "pending"
      [] w \in kept /\ answer[w] = "accepted" -> "resolved"
      [] w \in kept /\ answer[w] = "refused" -> "rejected"
      [] OTHER -> "lost"

Send == INSTANCE MessageSend WITH
    Messages <- Writes,
    send <- [w \in Writes |-> SendOf(w)],
    stored <- stored

\* A write's transaction lives as the orchestrator promises.
THEOREM WriteIsTransaction == Spec => Lifecycle!Spec
<1>1. Init => Lifecycle!Init
  BY DEF Init, Lifecycle!Init
<1>2. [Next]_vars => [Lifecycle!Next]_transaction
  <2> SUFFICES ASSUME [Next]_vars PROVE [Lifecycle!Next]_transaction
    OBVIOUS
  <2> USE DEF Lifecycle!Next, Lifecycle!Begin, Lifecycle!Commit,
              Lifecycle!RollBack, Lifecycle!Die, Lifecycle!Open, Open
  <2>1. ASSUME NEW w \in Writes, Begin(w) PROVE Lifecycle!Begin(w)
    BY <2>1 DEF Begin
  <2>2. ASSUME NEW w \in Writes, Complete(w) PROVE Lifecycle!Commit(w)
    BY <2>2 DEF Complete, Settle
  <2>3. ASSUME NEW w \in Writes, Abort(w) \/ AcceptUnkept(w) \/ TimeOut(w)
        PROVE  Lifecycle!RollBack(w)
    BY <2>3 DEF Abort, AcceptUnkept, TimeOut, Settle
  <2>4. CASE Die
    BY <2>4 DEF Die
  <2>5. ASSUME NEW w \in Writes, Refuse(w) \/ AcceptLate(w) \/ Store(w)
        PROVE  UNCHANGED transaction
    BY <2>5 DEF Refuse, AcceptLate, Store
  <2>6. CASE GrowOld \/ UNCHANGED vars
    BY <2>6 DEF GrowOld, vars
  <2> QED
    BY <2>1, <2>2, <2>3, <2>4, <2>5, <2>6 DEF Next
<1> QED
  BY <1>1, <1>2, PTL DEF Spec, Lifecycle!Spec

\* The abstract step of one write, from how its own send goes on.
LEMMA SendStep ==
    ASSUME NEW w \in Writes, UNCHANGED stored,
           \A v \in Writes \ {w} : SendOf(v)' = SendOf(v),
           \/ SendOf(w)' = SendOf(w)
           \/ SendOf(w) = "unsent" /\ SendOf(w)' = "pending"
           \/ SendOf(w) = "pending" /\ SendOf(w)' = "resolved" /\ w \in stored
           \/ SendOf(w) = "pending" /\ SendOf(w)' = "rejected"
    PROVE  [Send!Next]_Send!vars
<1> DEFINE send == [v \in Writes |-> SendOf(v)]
<1>1. send' = [send EXCEPT ![w] = SendOf(w)'] /\ send[w] = SendOf(w)
  OBVIOUS
<1>2. SendOf(w)' = SendOf(w) => send' = send
  OBVIOUS
<1> HIDE DEF send
<1>3. CASE SendOf(w)' = SendOf(w)
  BY <1>2, <1>3 DEF send, Send!vars
<1>4. CASE SendOf(w) = "unsent" /\ SendOf(w)' = "pending"
  <2>1. Send!Call(w)
    BY <1>1, <1>4 DEF send, Send!Call
  <2> QED
    BY <2>1 DEF Send!Next
<1>5. CASE SendOf(w) = "pending" /\ SendOf(w)' = "resolved" /\ w \in stored
  <2>1. Send!Resolve(w)
    BY <1>1, <1>5 DEF send, Send!Resolve
  <2> QED
    BY <2>1 DEF Send!Next
<1>6. CASE SendOf(w) = "pending" /\ SendOf(w)' = "rejected"
  <2>1. Send!Reject(w)
    BY <1>1, <1>6 DEF send, Send!Reject
  <2> QED
    BY <2>1 DEF Send!Next
<1> QED
  BY <1>3, <1>4, <1>5, <1>6

LEMMA WriteStepIsSend == Inv /\ [Next]_vars => [Send!Next]_Send!vars
<1> SUFFICES ASSUME Inv, [Next]_vars PROVE [Send!Next]_Send!vars
  OBVIOUS
<1>1. TypeOK /\ \A w \in Writes : WriteOK(w)
  BY DEF Inv
<1>2. ASSUME NEW w \in Writes,
             \/ Begin(w) \/ Refuse(w) \/ Abort(w) \/ Complete(w)
             \/ AcceptLate(w) \/ AcceptUnkept(w) \/ TimeOut(w)
      PROVE  [Send!Next]_Send!vars
  <2> USE DEF Begin, Refuse, Abort, Complete, AcceptLate, AcceptUnkept,
              TimeOut, Answer, Settle, Waits
  <2>1. ASSUME NEW v \in Writes \ {w} PROVE SendOf(v)' = SendOf(v)
    BY <1>1, <1>2 DEF TypeOK, SendOf
  <2>2. UNCHANGED stored
    BY <1>2
  <2>3. CASE Begin(w) \/ TimeOut(w)
    <3>1. SendOf(w)' = SendOf(w) \/ (SendOf(w) = "unsent" /\ SendOf(w)' = "pending")
      BY <1>1, <2>3 DEF TypeOK, WriteOK, SendOf
    <3> QED
      BY <2>1, <2>2, <3>1, SendStep
  <2>4. CASE Refuse(w) \/ Abort(w)
    <3>1. SendOf(w)' = SendOf(w) \/ (SendOf(w) = "pending" /\ SendOf(w)' = "rejected")
      BY <1>1, <2>4 DEF TypeOK, SendOf
    <3> QED
      BY <2>1, <2>2, <3>1, SendStep
  <2>5. CASE Complete(w) \/ AcceptLate(w)
    <3>1. SendOf(w) = "pending" /\ SendOf(w)' = "resolved" /\ w \in stored
      BY <1>1, <2>5 DEF TypeOK, SendOf
    <3> QED
      BY <2>1, <2>2, <3>1, SendStep
  <2>6. CASE AcceptUnkept(w)
    <3>1. SendOf(w)' = SendOf(w)
      BY <1>1, <2>6 DEF TypeOK, SendOf
    <3> QED
      BY <2>1, <2>2, <3>1, SendStep
  <2> QED
    BY <1>2, <2>3, <2>4, <2>5, <2>6
<1>3. ASSUME NEW w \in Writes, Store(w) PROVE Send!Next
  <2>1. SendOf(w) # "unsent"
    BY <1>1, <1>3 DEF Store, SendOf, Waits, TypeOK, Answers
  <2>2. \A v \in Writes : SendOf(v)' = SendOf(v)
    BY <1>3 DEF Store, SendOf, Waits
  <2>3. Send!Store(w)
    BY <1>3, <2>1, <2>2 DEF Store, Send!Store
  <2> QED
    BY <2>3 DEF Send!Next
<1>4. CASE Die
  <2> PICK gone \in SUBSET {w \in Writes : Waits(w)} :
        answer' = [w \in Writes |-> IF w \in gone THEN "never" ELSE answer[w]]
    BY <1>4 DEF Die
  <2>1. UNCHANGED <<kept, stored>>
    BY <1>4 DEF Die
  <2>2. ASSUME NEW w \in Writes
        PROVE  SendOf(w)' = IF w \in gone \cap kept THEN "lost" ELSE SendOf(w)
    BY <1>1, <2>1 DEF TypeOK, SendOf, Waits
  <2>3. Send!Die
    BY <2>1, <2>2 DEF Send!Die
  <2> QED
    BY <2>3 DEF Send!Next
<1>5. CASE GrowOld \/ UNCHANGED vars
  <2>1. UNCHANGED <<answer, kept, stored>>
    BY <1>5 DEF GrowOld, vars
  <2> QED
    BY <2>1 DEF SendOf, Waits, Send!vars
<1> QED
  BY <1>2, <1>3, <1>4, <1>5 DEF Next

\* For a write to a store that keeps it, the client's answer is a send's.
THEOREM WriteIsSend == Spec => Send!Spec
<1>1. Init => Send!Init
  BY DEF Init, Send!Init, SendOf
<1> QED
  BY <1>1, WriteStepIsSend, InvIsSafe, PTL DEF Spec, Send!Spec
=============================================================================
