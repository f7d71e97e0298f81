---------------------- MODULE NamespaceRegistryProofs ----------------------
(***************************************************************************)
(* Proofs about NamespaceRegistry for any finite sets of calls and names   *)
(* and any order of the script.  CallInv says where each call stands,      *)
(* SeedInv what the script has behind it, RaceInv which saves meet a row,  *)
(* StatsInv how far each count is off; RowsAreAccounted is inductive once  *)
(* CallInv holds.                                                          *)
(***************************************************************************)
EXTENDS NamespaceRegistry, FiniteSetTheorems, SequenceTheorems, TLAPS

Step(c) ==
    \/ Begin(c) \/ BeginSeed(c) \/ SeedFinds(c)
    \/ CreateChecks(c) \/ SaveSelects(c) \/ SaveInserts(c) \/ InsertRefused(c)
    \/ SaveOverwrites(c)
    \/ UpdateChecks(c) \/ UpdateWrites(c) \/ UpdateReadsBack(c)
    \/ DeleteChecks(c) \/ DeleteWrites(c)
    \/ BeginStats(c) \/ CountTotal(c) \/ CountEnabled(c) \/ StatsAnswer(c)
    \/ QueryFails(c)

\* The finite sets that are counted.
LEMMA TableIsFinite ==
    /\ IsFiniteSet(Rows) /\ IsFiniteSet(EnabledRows)
    /\ Cardinality(Rows) \in Nat /\ Cardinality(EnabledRows) \in Nat
<1>1. Rows \in SUBSET Names /\ EnabledRows \in SUBSET Names
    BY DEF Rows, EnabledRows
<1>2. IsFiniteSet(Rows) /\ IsFiniteSet(EnabledRows)
    BY <1>1, FiniteAssumption, FS_Subset
<1>3. QED
    BY <1>2, FS_CardinalityType

LEMMA NameIsName ==
    ASSUME TypeOK, NEW c \in Calls, todo[c] # <<>> PROVE Name(c) \in Names
BY HeadTailProperties DEF TypeOK, Name

\* A statement changes one row, to a value of the table.
LEMMA WriteTypes ==
    ASSUME TypeOK, NEW c \in Calls, todo[c] # <<>>,
           NEW value \in Enabled \cup {"absent"}, Write(c, value)
    PROVE  /\ rows' \in [Names -> Enabled \cup {"absent"}]
           /\ missed' \in [Calls -> Nat]
BY NameIsName DEF TypeOK, Write

\* The two outcomes of NextSeed.
SeedEnds(c) ==
    /\ pc' = [pc EXCEPT ![c] = "done"]
    /\ answer' = [answer EXCEPT ![c] = "ok"]
    /\ Len(todo[c]) = 1
    /\ UNCHANGED <<initial, op, todo, counts>>

SeedGoesOn(c) ==
    /\ pc' = [pc EXCEPT ![c] = "exists"]
    /\ todo' \in [Calls -> Seq(Names)]
    /\ \A d \in Calls \ {c} : todo'[d] = todo[d]
    /\ todo'[c] # <<>>
    /\ Len(todo[c]) \in Nat /\ Len(todo'[c]) = Len(todo[c]) - 1
    /\ \A i \in 1 .. Len(todo'[c]) : todo'[c][i] = todo[c][i + 1]
    /\ UNCHANGED <<initial, op, answer, counts>>

LEMMA NextSeedTypes ==
    ASSUME TypeOK, NEW c \in Calls, todo[c] # <<>>, NextSeed(c)
    PROVE  SeedEnds(c) \/ SeedGoesOn(c)
<1>1. CASE Len(todo[c]) = 1 /\ Answer(c, "ok")
    BY <1>1 DEF Answer, SeedEnds
<1>2. CASE /\ Len(todo[c]) > 1
           /\ todo' = [todo EXCEPT ![c] = Tail(@)]
           /\ pc' = [pc EXCEPT ![c] = "exists"]
           /\ UNCHANGED <<initial, op, answer, counts>>
    <2> DEFINE s == todo[c]
               t == Tail(s)
    <2>1. s \in Seq(Names) /\ s # <<>>
        BY DEF TypeOK
    <2>2. /\ t \in Seq(Names) /\ Len(t) = Len(s) - 1
          /\ \A i \in 1 .. Len(t) : t[i] = s[i + 1]
        BY <2>1, HeadTailProperties
    <2>3. Len(s) \in Nat /\ Len(s) > 1
        BY <2>1, <1>2
    <2>4. /\ todo'[c] = t /\ \A d \in Calls \ {c} : todo'[d] = todo[d]
          /\ todo' \in [Calls -> Seq(Names)]
        BY <1>2, <2>2 DEF TypeOK
    <2> HIDE DEF t
    <2>5. t # <<>>
        BY <2>2, <2>3
    <2>6. QED
        BY <1>2, <2>2, <2>3, <2>4, <2>5 DEF SeedGoesOn
<1>3. QED
    BY <1>1, <1>2 DEF NextSeed

\* The types of what a statement may change besides its call's progress.
WrittenTypes ==
    /\ rows' \in [Names -> Enabled \cup {"absent"}]
    /\ made' \in [Calls -> SUBSET Names]
    /\ missed' \in [Calls -> Nat]

LEMMA ReadTypes == TypeOK /\ OnlyReads => WrittenTypes
BY DEF TypeOK, OnlyReads, WrittenTypes

LEMMA GotoTypes ==
    ASSUME TypeOK, WrittenTypes, NEW c \in Calls, pc[c] \in Awaiting \ {"count"},
           NEW label \in Awaiting, Goto(c, label)
    PROVE  TypeOK'
<1>1. todo[c] # <<>> /\ answer[c] = None
    BY DEF TypeOK, Awaiting
<1>2. QED
    BY <1>1 DEF TypeOK, WrittenTypes, Goto, Awaiting

LEMMA AnswerTypes ==
    ASSUME TypeOK, WrittenTypes, NEW c \in Calls, pc[c] \in Awaiting,
           NEW value \in {"ok", "deleted", "nothingDeleted", "Conflict", "NotFound",
                          "DuplicateKey", "Error", "QueryFailed"},
           Answer(c, value)
    PROVE  TypeOK'
BY DEF TypeOK, WrittenTypes, Answer, Awaiting, None

LEMMA GoesOnTypes ==
    ASSUME TypeOK, WrittenTypes, NEW c \in Calls, pc[c] \in Awaiting, SeedGoesOn(c)
    PROVE  TypeOK'
<1>1. answer[c] = None
    BY DEF TypeOK, Awaiting
<1>2. QED
    BY <1>1 DEF TypeOK, WrittenTypes, SeedGoesOn, Awaiting

LEMMA ReadingStepTypes ==
    ASSUME TypeOK, NEW c \in Calls,
           \/ CreateChecks(c) \/ SaveSelects(c) \/ InsertRefused(c) \/ UpdateChecks(c)
           \/ UpdateReadsBack(c) \/ DeleteChecks(c) \/ StatsAnswer(c)
    PROVE  TypeOK'
<1> USE DEF Awaiting
<1>1. OnlyReads
    BY DEF CreateChecks, SaveSelects, InsertRefused, UpdateChecks, UpdateReadsBack,
           DeleteChecks, StatsAnswer
<1>2. CASE StatsAnswer(c)
    BY <1>1, <1>2, ReadTypes, AnswerTypes DEF StatsAnswer
<1>3. CASE ~StatsAnswer(c)
    <2>1. pc[c] \in Awaiting \ {"count"}
        BY <1>3 DEF CreateChecks, SaveSelects, InsertRefused, UpdateChecks,
                    UpdateReadsBack, DeleteChecks
    <2>2. \/ \E label \in Awaiting : Goto(c, label)
          \/ \E value \in {"ok", "Conflict", "NotFound", "DuplicateKey", "Error"} :
               Answer(c, value)
        BY <1>3 DEF CreateChecks, SaveSelects, InsertRefused, UpdateChecks,
                    UpdateReadsBack, DeleteChecks
    <2>3. CASE \E label \in Awaiting : Goto(c, label)
        BY <1>1, <2>1, <2>3, ReadTypes, GotoTypes
    <2>4. CASE \E value \in {"ok", "Conflict", "NotFound", "DuplicateKey", "Error"} :
                 Answer(c, value)
        BY <1>1, <2>1, <2>4, ReadTypes, AnswerTypes
    <2>5. QED
        BY <2>2, <2>3, <2>4
<1>4. QED
    BY <1>2, <1>3

\* A count that arrives.
LEMMA CountTypes ==
    ASSUME NEW C, NEW f \in [C -> [total : Nat \cup {NotYet}, enabled : Nat \cup {NotYet}]],
           NEW c \in C, NEW k \in Nat
    PROVE  /\ [f EXCEPT ![c].total = k]
                 \in [C -> [total : Nat \cup {NotYet}, enabled : Nat \cup {NotYet}]]
           /\ [f EXCEPT ![c].enabled = k]
                 \in [C -> [total : Nat \cup {NotYet}, enabled : Nat \cup {NotYet}]]
OBVIOUS

LEMMA TypesKept == ASSUME TypeOK, NEW c \in Calls, Step(c) PROVE TypeOK'
<1> USE DEF Awaiting
<1>1. CASE Begin(c)
    BY <1>1 DEF TypeOK, Begin, OnlyReads, None
<1>2. CASE BeginSeed(c)
    BY <1>2, SeedAssumption DEF TypeOK, BeginSeed, OnlyReads, None
<1>3. CASE SeedFinds(c)
    <2>1. pc[c] \in Awaiting \ {"count"} /\ todo[c] # <<>> /\ OnlyReads
        BY <1>3 DEF TypeOK, SeedFinds
    <2>2. CASE Present(c)
        <3>1. NextSeed(c)
            BY <1>3, <2>2 DEF SeedFinds
        <3>2. CASE SeedEnds(c)
            BY <2>1, <3>2, ReadTypes, AnswerTypes DEF SeedEnds, Answer
        <3>3. CASE SeedGoesOn(c)
            BY <2>1, <3>3, GoesOnTypes, ReadTypes
        <3>4. QED
            BY <2>1, <3>1, <3>2, <3>3, NextSeedTypes
    <2>3. CASE ~Present(c)
        BY <1>3, <2>1, <2>3, ReadTypes, GotoTypes DEF SeedFinds
    <2>4. QED
        BY <2>2, <2>3
<1>4. CASE \/ CreateChecks(c) \/ SaveSelects(c) \/ InsertRefused(c) \/ UpdateChecks(c)
          \/ UpdateReadsBack(c) \/ DeleteChecks(c) \/ StatsAnswer(c)
    BY <1>4, ReadingStepTypes
<1>5. CASE SaveInserts(c) \/ SaveOverwrites(c)
    <2>1. pc[c] \in {"insert", "overwrite"} /\ Saved(c)
        BY <1>5 DEF SaveInserts, SaveOverwrites
    <2>2. PICK value \in Enabled \cup {"absent"} : Write(c, value)
        BY <1>5 DEF SaveInserts, SaveOverwrites, Data, Enabled
    <2>3. todo[c] # <<>>
        BY <2>1 DEF TypeOK
    <2>4. WrittenTypes
        <3>1. made' \in [Calls -> SUBSET Names]
            BY <2>1, <2>3, NameIsName DEF TypeOK, Saved
        <3>2. QED
            BY <2>2, <2>3, <3>1, WriteTypes DEF WrittenTypes
    <2>5. CASE op[c] = "seed"
        <3>1. NextSeed(c)
            BY <2>1, <2>5 DEF Saved
        <3>2. CASE SeedEnds(c)
            BY <2>1, <2>4, <3>2, AnswerTypes DEF SeedEnds, Answer
        <3>3. CASE SeedGoesOn(c)
            BY <2>1, <2>3, <2>4, <3>3, GoesOnTypes
        <3>4. QED
            BY <2>3, <3>1, <3>2, <3>3, NextSeedTypes
    <2>6. CASE op[c] # "seed"
        BY <2>1, <2>4, <2>6, AnswerTypes DEF Saved
    <2>7. QED
        BY <2>5, <2>6
<1>6. CASE UpdateWrites(c)
    <2>1. PICK value \in Enabled \cup {"absent"} : Write(c, value)
        BY <1>6 DEF UpdateWrites, Data, Enabled
    <2>2. todo[c] # <<>>
        BY <1>6 DEF TypeOK, UpdateWrites
    <2>3. WrittenTypes
        BY <1>6, <2>1, <2>2, WriteTypes DEF TypeOK, UpdateWrites, WrittenTypes
    <2>4. QED
        BY <1>6, <2>3, GotoTypes DEF UpdateWrites
<1>7. CASE DeleteWrites(c)
    <2>1. todo[c] # <<>>
        BY <1>7 DEF TypeOK, DeleteWrites
    <2>2. WrittenTypes
        BY <1>7, <2>1, WriteTypes DEF TypeOK, DeleteWrites, WrittenTypes
    <2>3. QED
        BY <1>7, <2>2, AnswerTypes DEF DeleteWrites
<1>8. CASE QueryFails(c)
    <2>1. pc[c] \in Awaiting /\ Answer(c, "QueryFailed") /\ UNCHANGED made
        BY <1>8 DEF QueryFails
    <2>2. CASE UNCHANGED <<rows, missed>>
        BY <2>1, <2>2, ReadTypes, AnswerTypes DEF OnlyReads
    <2>3. CASE \E value \in Enabled \cup {"absent"} :
                 pc[c] # "count" /\ Write(c, value)
        <3>1. todo[c] # <<>>
            BY <2>1, <2>3 DEF TypeOK
        <3>2. WrittenTypes
            BY <2>1, <2>3, <3>1, WriteTypes DEF TypeOK, WrittenTypes
        <3>3. QED
            BY <2>1, <3>2, AnswerTypes
    <2>4. QED
        BY <1>8, <2>2, <2>3 DEF QueryFails, Data, Enabled
<1>9. CASE BeginStats(c)
    BY <1>9 DEF TypeOK, BeginStats, OnlyReads, None
<1>10. CASE CountTotal(c)
    <2>1. PICK k \in Nat : counts' = [counts EXCEPT ![c].total = k]
        BY <1>10, TableIsFinite DEF CountTotal
    <2>2. counts' \in [Calls -> [total : Nat \cup {NotYet}, enabled : Nat \cup {NotYet}]]
        BY <2>1, CountTypes DEF TypeOK
    <2>3. QED
        BY <1>10, <2>2 DEF TypeOK, CountTotal, OnlyReads
<1>11. CASE CountEnabled(c)
    <2>1. PICK k \in Nat : counts' = [counts EXCEPT ![c].enabled = k]
        BY <1>11, TableIsFinite DEF CountEnabled
    <2>2. counts' \in [Calls -> [total : Nat \cup {NotYet}, enabled : Nat \cup {NotYet}]]
        BY <2>1, CountTypes DEF TypeOK
    <2>3. QED
        BY <1>11, <2>2 DEF TypeOK, CountEnabled, OnlyReads
<1>12. QED
    BY <1>1, <1>2, <1>3, <1>4, <1>5, <1>6, <1>7, <1>8, <1>9, <1>10, <1>11
    DEF Step

LEMMA NextIsStep == Next <=> \E c \in Calls : Step(c)
BY DEF Next, Step

LEMMA TypesAtFirst == Init => TypeOK
BY DEF Init, TypeOK, Uncounted, NotYet, None, Rows, Awaiting

LEMMA TypesAreSafe == Spec => []TypeOK
<1>1. TypeOK /\ [Next]_vars => TypeOK'
    <2>1. TypeOK /\ UNCHANGED vars => TypeOK'
        BY DEF TypeOK, vars
    <2>2. QED
        BY <2>1, NextIsStep, TypesKept
<1>2. QED
    BY <1>1, TypesAtFirst, PTL DEF Spec

-----------------------------------------------------------------------------
(* Where each call stands.                                                 *)

Control(c) ==
    /\ op[c] = None <=> pc[c] = "new"
    /\ pc[c] \in {"select", "insert", "overwrite"} => op[c] \in Makers
    /\ pc[c] \in {"update", "find"} => op[c] = "update"
    /\ pc[c] = "delete" => op[c] = "delete"
    /\ pc[c] = "exists" => op[c] \in {"create", "update", "delete", "seed"}
    /\ pc[c] = "count" => op[c] = "stats"
    /\ made[c] # {} => op[c] \in Makers
    /\ op[c] = "create" /\ answer[c] = None => made[c] = {}

\* The script has the last names of its list before it, and has made none of
\* those.
Behind(c) == IF answer[c] = "ok" THEN Len(SeedOrder)
                                 ELSE Len(SeedOrder) - Len(todo[c])

Place(c) ==
    op[c] = "seed" =>
        /\ Len(todo[c]) \in 1 .. Len(SeedOrder)
        /\ \A i \in 1 .. Len(todo[c]) :
             todo[c][i] = SeedOrder[Len(SeedOrder) - Len(todo[c]) + i]
        /\ answer[c] = "ok" => Len(todo[c]) = 1
        /\ \A n \in made[c] : \E i \in 1 .. Behind(c) : n = SeedOrder[i]

CallInv == TypeOK /\ \A c \in Calls : Control(c) /\ Place(c)

\* A step of c leaves what the others do alone.
Frame(c) ==
    /\ UNCHANGED initial
    /\ \A d \in Calls \ {c} :
         /\ op'[d] = op[d] /\ todo'[d] = todo[d] /\ pc'[d] = pc[d]
         /\ answer'[d] = answer[d] /\ made'[d] = made[d] /\ counts'[d] = counts[d]

LEMMA StepFrame ==
    ASSUME TypeOK, NEW c \in Calls, Step(c)
    PROVE  Frame(c) /\ answer[c] = None /\ pc[c] # "done"
<1> USE DEF OnlyReads, Goto, Answer, NextSeed
<1>1. pc[c] # "done"
    BY DEF Step, Begin, BeginSeed, SeedFinds, CreateChecks, SaveSelects, SaveInserts,
           InsertRefused, SaveOverwrites, UpdateChecks, UpdateWrites, UpdateReadsBack,
           DeleteChecks, DeleteWrites, BeginStats, CountTotal, CountEnabled,
           StatsAnswer, QueryFails, Awaiting
<1>2. CASE Begin(c) \/ BeginSeed(c) \/ BeginStats(c)
    BY <1>2, <1>1 DEF Begin, BeginSeed, BeginStats, Frame, TypeOK
<1>3. CASE SeedFinds(c) \/ CreateChecks(c)
    BY <1>3, <1>1 DEF SeedFinds, CreateChecks, Frame, TypeOK
<1>4. CASE SaveSelects(c) \/ InsertRefused(c)
    BY <1>4, <1>1 DEF SaveSelects, InsertRefused, Frame, TypeOK
<1>5. CASE SaveInserts(c) \/ SaveOverwrites(c)
    BY <1>5, <1>1 DEF SaveInserts, SaveOverwrites, Saved, Frame, TypeOK
<1>6. CASE UpdateChecks(c) \/ UpdateReadsBack(c) \/ DeleteChecks(c)
    BY <1>6, <1>1 DEF UpdateChecks, UpdateReadsBack, DeleteChecks, Frame, TypeOK
<1>7. CASE UpdateWrites(c) \/ DeleteWrites(c)
    BY <1>7, <1>1 DEF UpdateWrites, DeleteWrites, Frame, TypeOK
<1>8. CASE QueryFails(c)
    BY <1>8, <1>1 DEF QueryFails, Frame, TypeOK
<1>9. CASE CountTotal(c) \/ CountEnabled(c) \/ StatsAnswer(c)
    BY <1>9, <1>1 DEF CountTotal, CountEnabled, StatsAnswer, Frame, TypeOK
<1>10. QED
    BY <1>2, <1>3, <1>4, <1>5, <1>6, <1>7, <1>8, <1>9 DEF Step

LEMMA ControlKept ==
    ASSUME CallInv, NEW c \in Calls, Step(c) PROVE Control(c)'
<1> USE DEF OnlyReads, Goto, Answer, NextSeed, Control, Makers, None
<1>1. TypeOK /\ Control(c) /\ pc[c] # "done" /\ answer[c] = None
    BY StepFrame DEF CallInv
<1>2. CASE Begin(c) \/ BeginSeed(c) \/ BeginStats(c)
    BY <1>2, <1>1 DEF Begin, BeginSeed, BeginStats, TypeOK
<1>3. CASE SeedFinds(c) \/ CreateChecks(c)
    BY <1>3, <1>1 DEF SeedFinds, CreateChecks, TypeOK
<1>4. CASE SaveSelects(c) \/ InsertRefused(c)
    BY <1>4, <1>1 DEF SaveSelects, InsertRefused, TypeOK
<1>5. CASE SaveInserts(c) \/ SaveOverwrites(c)
    BY <1>5, <1>1 DEF SaveInserts, SaveOverwrites, Saved, TypeOK
<1>6. CASE UpdateChecks(c) \/ UpdateReadsBack(c) \/ DeleteChecks(c)
    BY <1>6, <1>1 DEF UpdateChecks, UpdateReadsBack, DeleteChecks, TypeOK
<1>7. CASE UpdateWrites(c) \/ DeleteWrites(c)
    BY <1>7, <1>1 DEF UpdateWrites, DeleteWrites, TypeOK
<1>8. CASE QueryFails(c)
    BY <1>8, <1>1 DEF QueryFails, Awaiting, TypeOK
<1>9. CASE CountTotal(c) \/ CountEnabled(c) \/ StatsAnswer(c)
    BY <1>9, <1>1 DEF CountTotal, CountEnabled, StatsAnswer, TypeOK
<1>10. QED
    BY <1>2, <1>3, <1>4, <1>5, <1>6, <1>7, <1>8, <1>9 DEF Step

\* Counting down from k of L names.
LEMMA Countdown ==
    ASSUME NEW L \in Nat, NEW k \in 1 .. L
    PROVE  /\ k \in Nat /\ 1 \in 1 .. k
           /\ L - k \in Nat /\ (L - k) + 1 \in 1 .. L
           /\ k - 1 # 0 => k - 1 \in 1 .. L
           /\ L - (k - 1) = (L - k) + 1
           /\ \A i \in 1 .. (k - 1) :
                i + 1 \in 1 .. k /\ L - k + (i + 1) = L - (k - 1) + i
OBVIOUS

\* The name that the script is at is the next of its list.
LEMMA SeedIsAt ==
    ASSUME CallInv, NEW c \in Calls, op[c] = "seed", answer[c] # "ok"
    PROVE  /\ Len(SeedOrder) \in Nat
           /\ Behind(c) \in Nat /\ Behind(c) + 1 \in 1 .. Len(SeedOrder)
           /\ Behind(c) = Len(SeedOrder) - Len(todo[c])
           /\ Name(c) = SeedOrder[Behind(c) + 1]
<1>1. Len(SeedOrder) \in Nat
    BY SeedAssumption, LenProperties
<1>2. /\ Len(todo[c]) \in 1 .. Len(SeedOrder)
      /\ \A i \in 1 .. Len(todo[c]) :
             todo[c][i] = SeedOrder[Len(SeedOrder) - Len(todo[c]) + i]
    BY DEF CallInv, Place
<1>3. todo[c][1] = SeedOrder[Len(SeedOrder) - Len(todo[c]) + 1]
    BY <1>1, <1>2, Countdown
<1>4. Name(c) = todo[c][1]
    BY DEF Name
<1>5. QED
    <2>1. Behind(c) = Len(SeedOrder) - Len(todo[c])
        BY DEF Behind
    <2>2. QED
        BY <1>1, <1>2, <1>3, <1>4, <2>1, Countdown

LEMMA NotMadeYet ==
    ASSUME CallInv, NEW c \in Calls, op[c] \in Makers, answer[c] = None
    PROVE  Name(c) \notin made[c]
<1>1. CASE op[c] = "create"
    BY <1>1 DEF CallInv, Control
<1>2. CASE op[c] = "seed"
    <2>1. \A n \in made[c] : \E i \in 1 .. Behind(c) : n = SeedOrder[i]
        BY <1>2 DEF CallInv, Place
    <2>2. \A i \in 1 .. Behind(c) : SeedOrder[i] # Name(c)
        BY <1>2, SeedIsAt, SeedAssumption DEF None
    <2>3. QED
        BY <2>1, <2>2
<1>3. QED
    BY <1>1, <1>2 DEF Makers

\* The script goes one name further, whether it made that one or not.
LEMMA PlaceAdvances ==
    ASSUME CallInv, NEW c \in Calls, op[c] = "seed", pc[c] # "done",
           SeedEnds(c) \/ SeedGoesOn(c)
    PROVE  /\ Behind(c)' = Behind(c) + 1
           /\ Len(todo'[c]) \in 1 .. Len(SeedOrder)
           /\ \A i \in 1 .. Len(todo'[c]) :
                todo'[c][i] = SeedOrder[Len(SeedOrder) - Len(todo'[c]) + i]
           /\ answer'[c] = "ok" => Len(todo'[c]) = 1
<1>1. answer[c] = None
    BY DEF CallInv, TypeOK
<1>2. /\ Len(SeedOrder) \in Nat /\ Behind(c) = Len(SeedOrder) - Len(todo[c])
      /\ Behind(c) \in Nat
    BY <1>1, SeedIsAt DEF None
<1>3. /\ Len(todo[c]) \in 1 .. Len(SeedOrder)
      /\ \A i \in 1 .. Len(todo[c]) :
             todo[c][i] = SeedOrder[Len(SeedOrder) - Len(todo[c]) + i]
    BY DEF CallInv, Place
<1>4. CASE SeedEnds(c)
    <2>1. answer'[c] = "ok" /\ todo'[c] = todo[c] /\ Len(todo[c]) = 1
        BY <1>4 DEF SeedEnds, CallInv, TypeOK
    <2>2. QED
        BY <1>2, <1>3, <2>1 DEF Behind
<1>5. CASE SeedGoesOn(c)
    <2> DEFINE t == todo'[c]
    <2>1. /\ Len(t) = Len(todo[c]) - 1 /\ answer'[c] = None
          /\ \A i \in 1 .. Len(t) : t[i] = todo[c][i + 1]
        BY <1>1, <1>5 DEF SeedGoesOn
    <2>2. Len(t) # 0
        <3>1. t \in Seq(Names) /\ t # <<>>
            BY <1>5 DEF SeedGoesOn
        <3>2. QED
            BY <3>1, EmptySeq
    <2>3. Behind(c)' = Len(SeedOrder) - Len(t)
        BY <2>1 DEF Behind, None
    <2> HIDE DEF t
    <2>4. Len(t) \in 1 .. Len(SeedOrder)
        BY <1>2, <1>3, <2>1, <2>2, Countdown
    <2>5. ASSUME NEW i \in 1 .. Len(t) PROVE t[i] = SeedOrder[Len(SeedOrder) - Len(t) + i]
        <3>1. i + 1 \in 1 .. Len(todo[c]) /\ t[i] = todo[c][i + 1]
            BY <1>2, <1>3, <2>1, Countdown
        <3>2. t[i] = SeedOrder[Len(SeedOrder) - Len(todo[c]) + (i + 1)]
            BY <1>3, <3>1
        <3>3. Len(SeedOrder) - Len(todo[c]) + (i + 1) = Len(SeedOrder) - Len(t) + i
            BY <1>2, <1>3, <2>1, Countdown
        <3>4. QED
            BY <3>2, <3>3
    <2>6. Len(SeedOrder) - Len(t) = Behind(c) + 1
        BY <1>2, <1>3, <2>1, Countdown
    <2>7. QED
        BY <2>1, <2>3, <2>4, <2>5, <2>6 DEF t, None
<1>6. QED
    BY <1>4, <1>5

\* What a step does to a run of the script.
SeedBegins(c) ==
    op[c] = None /\ todo' = [todo EXCEPT ![c] = SeedOrder]
        /\ answer' = answer /\ made' = made /\ pc'[c] = "exists"

SeedStays(c) ==
    /\ op[c] = "seed" /\ todo' = todo /\ made' = made
    /\ answer'[c] # "ok"
    /\ pc'[c] = "overwrite" => Present(c)

SeedAdvances(c) ==
    /\ op[c] = "seed" /\ todo[c] # <<>>
    /\ SeedEnds(c) \/ SeedGoesOn(c)
    /\ \/ made' = made /\ rows' = rows /\ Present(c)
       \/ /\ made' = [made EXCEPT ![c] = @ \cup {Name(c)}]
          /\ pc[c] = "overwrite" \/ (\E value \in Enabled : Write(c, value))

LEMMA SeedSteps ==
    ASSUME CallInv, NEW c \in Calls, Step(c), op'[c] = "seed"
    PROVE  SeedBegins(c) \/ SeedStays(c) \/ SeedAdvances(c)
<1> USE DEF OnlyReads, Goto, Answer
<1>1. TypeOK /\ Control(c) /\ answer[c] = None
    BY StepFrame DEF CallInv
<1>2. CASE BeginSeed(c)
    BY <1>1, <1>2 DEF BeginSeed, SeedBegins, Control, TypeOK
<1>3. CASE Begin(c) \/ BeginStats(c)
    BY <1>1, <1>3 DEF Begin, BeginStats, TypeOK
<1>4. CASE SeedFinds(c)
    <2>1. CASE Present(c)
        <3>1. todo[c] # <<>> /\ NextSeed(c)
            BY <1>1, <1>4, <2>1 DEF SeedFinds, TypeOK, Awaiting
        <3>2. SeedEnds(c) \/ SeedGoesOn(c)
            BY <1>1, <3>1, NextSeedTypes
        <3>3. QED
            BY <1>4, <2>1, <3>1, <3>2 DEF SeedFinds, SeedAdvances
    <2>2. CASE ~Present(c)
        BY <1>1, <1>4, <2>2 DEF SeedFinds, SeedStays, TypeOK, None
    <2>3. QED
        BY <2>1, <2>2
<1>5. CASE SaveInserts(c) \/ SaveOverwrites(c)
    <2>1. op[c] \in Makers /\ todo[c] # <<>> /\ Saved(c)
        BY <1>1, <1>5 DEF SaveInserts, SaveOverwrites, Control, TypeOK, Awaiting
    <2>2. op[c] = "seed" /\ NextSeed(c)
        BY <2>1 DEF Saved, Makers
    <2>3. SeedEnds(c) \/ SeedGoesOn(c)
        BY <1>1, <2>1, <2>2, NextSeedTypes
    <2>4. pc[c] = "overwrite" \/ (\E value \in Enabled : Write(c, value))
        BY <1>5, <2>2 DEF SaveInserts, SaveOverwrites, Data, Enabled
    <2>5. QED
        BY <2>1, <2>2, <2>3, <2>4 DEF Saved, SeedAdvances
<1>6. CASE SaveSelects(c)
    BY <1>1, <1>6 DEF SaveSelects, SeedStays, TypeOK, None
<1>7. CASE InsertRefused(c) \/ QueryFails(c)
    BY <1>1, <1>7 DEF InsertRefused, QueryFails, SeedStays, TypeOK, None
<1>8. CASE CreateChecks(c) \/ UpdateChecks(c) \/ DeleteChecks(c)
    BY <1>8 DEF CreateChecks, UpdateChecks, DeleteChecks
<1>9. CASE UpdateWrites(c) \/ UpdateReadsBack(c) \/ DeleteWrites(c)
    BY <1>1, <1>9 DEF UpdateWrites, UpdateReadsBack, DeleteWrites, Control
<1>10. CASE CountTotal(c) \/ CountEnabled(c) \/ StatsAnswer(c)
    BY <1>1, <1>10 DEF CountTotal, CountEnabled, StatsAnswer, Control
<1>11. QED
    BY <1>2, <1>3, <1>4, <1>5, <1>6, <1>7, <1>8, <1>9, <1>10 DEF Step

LEMMA PlaceKept ==
    ASSUME CallInv, NEW c \in Calls, Step(c) PROVE Place(c)'
<1> SUFFICES ASSUME op'[c] = "seed"
             PROVE  /\ Len(todo'[c]) \in 1 .. Len(SeedOrder)
                    /\ \A i \in 1 .. Len(todo'[c]) :
                         todo'[c][i] = SeedOrder[Len(SeedOrder) - Len(todo'[c]) + i]
                    /\ answer'[c] = "ok" => Len(todo'[c]) = 1
                    /\ \A n \in made'[c] : \E i \in 1 .. Behind(c)' : n = SeedOrder[i]
    BY DEF Place
<1>1. TypeOK /\ Control(c) /\ answer[c] = None /\ pc[c] # "done"
    BY StepFrame DEF CallInv
<1>2. CASE SeedBegins(c)
    <2>1. todo'[c] = SeedOrder /\ answer'[c] = None /\ made'[c] = {}
        BY <1>1, <1>2 DEF SeedBegins, TypeOK, Control, Makers, None
    <2>2. Len(SeedOrder) \in Nat \ {0}
        BY SeedAssumption, EmptySeq
    <2>3. QED
        BY <2>1, <2>2 DEF None
<1>3. CASE SeedStays(c)
    <2>1. Behind(c)' = Behind(c)
        BY <1>1, <1>3 DEF SeedStays, Behind, None
    <2>2. QED
        BY <1>3, <2>1 DEF SeedStays, CallInv, Place
<1>4. CASE SeedAdvances(c)
    <2>1. /\ Behind(c)' = Behind(c) + 1
          /\ Len(todo'[c]) \in 1 .. Len(SeedOrder)
          /\ \A i \in 1 .. Len(todo'[c]) :
               todo'[c][i] = SeedOrder[Len(SeedOrder) - Len(todo'[c]) + i]
          /\ answer'[c] = "ok" => Len(todo'[c]) = 1
        BY <1>1, <1>4, PlaceAdvances DEF SeedAdvances
    <2>2. Behind(c) \in Nat /\ Name(c) = SeedOrder[Behind(c) + 1]
        BY <1>1, <1>4, SeedIsAt DEF SeedAdvances, None
    <2>3. \A n \in made[c] : \E i \in 1 .. Behind(c) : n = SeedOrder[i]
        BY <1>4 DEF SeedAdvances, CallInv, Place
    <2>4. \A n \in made'[c] : n \in made[c] \/ n = Name(c)
        BY <1>1, <1>4 DEF SeedAdvances, TypeOK
    <2>5. \A i \in 1 .. Behind(c) : i \in 1 .. Behind(c) + 1
        BY <2>2
    <2>6. Behind(c) + 1 \in 1 .. Behind(c) + 1
        BY <2>2
    <2>7. \A n \in made'[c] : \E i \in 1 .. Behind(c) + 1 : n = SeedOrder[i]
        BY <2>2, <2>3, <2>4, <2>5, <2>6
    <2>8. QED
        BY <2>1, <2>7
<1>5. QED
    BY <1>2, <1>3, <1>4, SeedSteps

LEMMA CallInvKept ==
    ASSUME CallInv, NEW c \in Calls, Step(c) PROVE CallInv'
<1>1. TypeOK'
    BY TypesKept DEF CallInv
<1>2. Control(c)' /\ Place(c)'
    BY ControlKept, PlaceKept
<1>3. ASSUME NEW d \in Calls \ {c} PROVE Control(d)' /\ Place(d)'
    <2>1. /\ op'[d] = op[d] /\ todo'[d] = todo[d] /\ pc'[d] = pc[d]
          /\ answer'[d] = answer[d] /\ made'[d] = made[d]
        BY <1>3, StepFrame DEF CallInv, Frame
    <2>2. Control(d) /\ Place(d)
        BY DEF CallInv
    <2>3. Control(d)'
        BY <2>1, <2>2 DEF Control
    <2>4. Place(d)'
        BY <2>1, <2>2 DEF Place, Behind
    <2>5. QED
        BY <2>3, <2>4
<1>4. QED
    BY <1>1, <1>2, <1>3 DEF CallInv

LEMMA CallInvIsSafe == Spec => []CallInv
<1>1. Init => CallInv
    BY TypesAtFirst DEF Init, CallInv, Control, Place, Makers, None
<1>2. CallInv /\ UNCHANGED vars => CallInv'
    BY DEF CallInv, TypeOK, Control, Place, Behind, vars
<1>3. CallInv /\ [Next]_vars => CallInv'
    BY <1>2, NextIsStep, CallInvKept
<1>4. QED
    BY <1>1, <1>3, PTL DEF Spec

-----------------------------------------------------------------------------
(* What a step does to the table.                                          *)

Leaves(c) == UNCHANGED <<rows, missed>> /\ answer'[c] # "deleted"

Removes(c) ==
    /\ todo[c] # <<>>
    /\ Write(c, "absent")
    /\ op[c] = "delete"
    /\ answer'[c] \in {"deleted", "nothingDeleted", "QueryFailed"}
    /\ answer'[c] = "deleted" => Present(c)
    /\ answer'[c] = "nothingDeleted" => ~Present(c)
    /\ UNCHANGED <<op, todo, counts>>

Puts(c) ==
    /\ todo[c] # <<>>
    /\ \E value \in Enabled : Write(c, value)
    /\ answer'[c] # "deleted"
    /\ ~Present(c) =>
         /\ op[c] \in Makers
         /\ \/ Name(c) \in made'[c]
            \/ answer'[c] = "QueryFailed" /\ todo' = todo
    /\ UNCHANGED <<op, counts>>

LEMMA IdleWrite ==
    ASSUME TypeOK, NEW c \in Calls, todo[c] # <<>>, ~Present(c), Write(c, "absent")
    PROVE  UNCHANGED <<rows, missed>>
BY NameIsName DEF TypeOK, Present, Rows, Write

LEMMA StepRows ==
    ASSUME CallInv, NEW c \in Calls, Step(c)
    PROVE  Leaves(c) \/ Removes(c) \/ Puts(c)
<1> USE DEF OnlyReads, Goto, Answer
<1>1. TypeOK /\ Control(c) /\ answer[c] = None /\ pc[c] # "done"
    BY StepFrame DEF CallInv
<1>2. CASE Begin(c) \/ BeginSeed(c) \/ BeginStats(c)
    BY <1>1, <1>2 DEF Begin, BeginSeed, BeginStats, Leaves, None
<1>3. CASE SeedFinds(c) \/ CreateChecks(c) \/ SaveSelects(c)
    BY <1>1, <1>3 DEF SeedFinds, NextSeed, CreateChecks, SaveSelects, Leaves, TypeOK, None
<1>4. CASE InsertRefused(c) \/ UpdateChecks(c) \/ UpdateReadsBack(c) \/ DeleteChecks(c)
    BY <1>1, <1>4 DEF InsertRefused, UpdateChecks, UpdateReadsBack, DeleteChecks, Leaves,
                      TypeOK, None
<1>5. CASE SaveInserts(c) \/ SaveOverwrites(c) \/ UpdateWrites(c)
    <2>1. todo[c] # <<>> /\ answer'[c] # "deleted" /\ UNCHANGED <<op, counts>>
        BY <1>1, <1>5 DEF SaveInserts, SaveOverwrites, UpdateWrites, Saved, NextSeed,
                          TypeOK, Awaiting, None
    <2>2. CASE pc[c] \in {"overwrite", "update"} /\ ~Present(c)
        <3>1. Write(c, "absent")
            BY <1>5, <2>2 DEF SaveInserts, SaveOverwrites, UpdateWrites
        <3>2. QED
            BY <1>1, <2>1, <2>2, <3>1, IdleWrite DEF Leaves
    <2>3. CASE pc[c] = "insert" \/ Present(c)
        <3>1. \E value \in Enabled : Write(c, value)
            BY <1>5, <2>3 DEF SaveInserts, SaveOverwrites, UpdateWrites, Data, Enabled
        <3>2. ASSUME ~Present(c) PROVE op[c] \in Makers /\ Name(c) \in made'[c]
            <4>1. pc[c] = "insert" /\ Saved(c)
                BY <1>5, <2>3, <3>2 DEF SaveInserts, SaveOverwrites, UpdateWrites
            <4>2. made'[c] = made[c] \cup {Name(c)}
                BY <1>1, <4>1 DEF Saved, TypeOK
            <4>3. QED
                BY <1>1, <4>1, <4>2 DEF Control
        <3>3. QED
            BY <2>1, <3>1, <3>2 DEF Puts
    <2>4. QED
        BY <1>5, <2>2, <2>3 DEF SaveInserts, SaveOverwrites, UpdateWrites
<1>6. CASE DeleteWrites(c)
    BY <1>1, <1>6 DEF DeleteWrites, Removes, Control, TypeOK, Awaiting
<1>7. CASE QueryFails(c)
    <2>1. answer'[c] = "QueryFailed" /\ UNCHANGED <<op, todo, counts>>
        BY <1>1, <1>7 DEF QueryFails, TypeOK
    <2>2. CASE UNCHANGED <<rows, missed>>
        BY <2>1, <2>2 DEF Leaves
    <2>3. CASE pc[c] = "delete" /\ Write(c, "absent")
        BY <1>1, <2>1, <2>3 DEF Removes, Control, TypeOK, Awaiting
    <2>4. CASE /\ \/ pc[c] = "insert" /\ ~Present(c)
                  \/ pc[c] \in {"update", "overwrite"} /\ Present(c)
               /\ \E value \in Data(c) : Write(c, value)
        BY <1>1, <2>1, <2>4 DEF Puts, Control, TypeOK, Awaiting, Data, Enabled
    <2>5. QED
        BY <1>7, <2>2, <2>3, <2>4 DEF QueryFails
<1>8. CASE CountTotal(c) \/ CountEnabled(c) \/ StatsAnswer(c)
    BY <1>1, <1>8 DEF CountTotal, CountEnabled, StatsAnswer, Leaves, TypeOK, None
<1>9. QED
    BY <1>2, <1>3, <1>4, <1>5, <1>6, <1>7, <1>8 DEF Step

\* The row of a name other than c's stays as it is.
LEMMA OneRow ==
    ASSUME CallInv, NEW c \in Calls, todo[c] # <<>>,
           NEW value \in Enabled \cup {"absent"}, Write(c, value)
    PROVE  /\ Name(c) \in Names
           /\ \A n \in Names \ {Name(c)} : n \in Rows' <=> n \in Rows
           /\ Name(c) \in Rows' <=> value # "absent"
BY NameIsName DEF CallInv, TypeOK, Rows, Write

\* What the properties collect of the calls, over a step of c.
LEMMA Collected ==
    ASSUME CallInv, NEW c \in Calls, Step(c), NEW n \in Names
    PROVE  /\ Created(n) \cup Unclear(n, Makers) \subseteq (Created(n) \cup Unclear(n, Makers))'
           /\ Unclear(n, {"delete"}) \subseteq Unclear(n, {"delete"})'
           /\ Deleted(n) \subseteq Deleted(n)' /\ Deleted(n)' \subseteq Deleted(n) \cup {c}
           /\ c \notin Deleted(n) /\ c \notin Unclear(n, Makers)
<1>1. /\ Frame(c) /\ answer[c] = None
      /\ \A d \in Calls \ {c} : Name(d)' = Name(d)
    BY StepFrame DEF CallInv, Frame, Name
<1>2. made[c] \subseteq made'[c]
    BY DEF CallInv, TypeOK, OnlyReads, Saved, Step, Begin, BeginSeed, SeedFinds,
           CreateChecks, SaveSelects, SaveInserts, InsertRefused, SaveOverwrites,
           UpdateChecks, UpdateWrites, UpdateReadsBack, DeleteChecks, DeleteWrites,
           BeginStats, CountTotal, CountEnabled, StatsAnswer, QueryFails
<1>3. QED
    BY <1>1, <1>2 DEF Created, Unclear, Deleted, Frame, None

-----------------------------------------------------------------------------
(* RowsAreAccounted.                                                       *)

\* The finite sets of calls that are counted.
LEMMA CallsAreFinite ==
    ASSUME NEW S \in SUBSET Calls
    PROVE  IsFiniteSet(S) /\ Cardinality(S) \in Nat
BY FiniteAssumption, FS_Subset, FS_CardinalityType

Makings(n) == Created(n) \cup Unclear(n, Makers)

\* A set has a name once or not at all.
LEMMA AtMostOne ==
    ASSUME NEW S, NEW n
    PROVE  Cardinality(S \cap {n}) = IF n \in S THEN 1 ELSE 0
<1>1. CASE n \in S
    <2>1. S \cap {n} = {n}
        BY <1>1
    <2>2. QED
        BY <1>1, <2>1, FS_Singleton
<1>2. CASE n \notin S
    <2>1. S \cap {n} = {}
        BY <1>2
    <2>2. QED
        BY <1>2, <2>1, FS_EmptySet
<1>3. QED
    BY <1>1, <1>2

LEMMA Counted ==
    ASSUME NEW n
    PROVE  /\ Deleted(n) \in SUBSET Calls /\ Makings(n) \in SUBSET Calls
           /\ Cardinality(Rows \cap {n}) = IF n \in Rows THEN 1 ELSE 0
           /\ Cardinality(initial \cap {n}) = IF n \in initial THEN 1 ELSE 0
BY AtMostOne DEF Deleted, Makings, Created, Unclear

LEMMA AccountKept ==
    ASSUME CallInv, RowsAreAccounted, NEW c \in Calls, Step(c)
    PROVE  RowsAreAccounted'
<1> SUFFICES ASSUME NEW n \in Names
             PROVE  (Ended(n) <= Cardinality(Makings(n)) + Cardinality(initial \cap {n}))'
    BY DEF RowsAreAccounted, Makings
<1> DEFINE D == Cardinality(Deleted(n))
           M == Cardinality(Makings(n))
           row == IF n \in Rows THEN 1 ELSE 0
           first == IF n \in initial THEN 1 ELSE 0
<1>1. D + row <= M + first
    BY Counted DEF RowsAreAccounted, Ended, Makings
<1>2. initial' = initial
    BY StepFrame DEF CallInv, Frame
<1>3. D \in Nat /\ M \in Nat /\ D' \in Nat /\ M' \in Nat
    BY Counted, CallsAreFinite DEF Deleted, Makings, Created, Unclear
<1>4. M <= M'
    <2>1. Makings(n) \subseteq Makings(n)'
        BY Collected DEF Makings
    <2>2. IsFiniteSet(Makings(n)')
        BY CallsAreFinite DEF Makings, Created, Unclear
    <2>3. QED
        BY <2>1, <2>2, FS_Subset
<1>5. D' + row' <= M' + first
    <2>1. CASE Deleted(n)' = Deleted(n) /\ (n \in Rows' => n \in Rows)
        BY <1>1, <1>3, <1>4, <2>1
    <2>2. CASE Leaves(c)
        <3>1. Deleted(n)' = Deleted(n)
            BY <2>2, Collected DEF Leaves, Deleted
        <3>2. Rows' = Rows
            BY <2>2 DEF Leaves, Rows
        <3>3. QED
            BY <2>1, <3>1, <3>2
    <2>3. CASE Removes(c)
        <3>1. /\ \A m \in Names \ {Name(c)} : m \in Rows' <=> m \in Rows
              /\ Name(c) \notin Rows' /\ Name(c)' = Name(c)
            BY <2>3, OneRow DEF Removes, Name
        <3>2. CASE c \notin Deleted(n)'
            <4>1. Deleted(n)' = Deleted(n)
                BY <3>2, Collected
            <4>2. QED
                BY <2>1, <3>1, <4>1
        <3>3. CASE c \in Deleted(n)'
            <4>1. n = Name(c) /\ n \in Rows /\ n \notin Rows'
                BY <2>3, <3>1, <3>3 DEF Deleted, Removes, Present
            <4>2. Deleted(n)' = Deleted(n) \cup {c} /\ c \notin Deleted(n)
                BY <3>3, Collected
            <4>3. IsFiniteSet(Deleted(n))
                BY CallsAreFinite DEF Deleted
            <4>4. D' = D + 1
                BY <4>2, <4>3, FS_AddElement
            <4>5. QED
                BY <1>1, <1>3, <1>4, <4>1, <4>4
        <3>4. QED
            BY <3>2, <3>3
    <2>4. CASE Puts(c)
        <3>1. Deleted(n)' = Deleted(n)
            BY <2>4, Collected DEF Puts, Deleted
        <3>2. CASE n = Name(c) /\ ~Present(c)
            <4>1. c \in Makings(n)'
                BY <2>4, <3>2 DEF Puts, Makings, Created, Unclear, Name
            <4>2. c \notin Makings(n)
                BY <2>4, <3>2, Collected, NotMadeYet, StepFrame
                   DEF Puts, Makings, Created, CallInv
            <4>3. Makings(n) \cup {c} \subseteq Makings(n)'
                BY <4>1, Collected DEF Makings
            <4>4. IsFiniteSet(Makings(n)) /\ IsFiniteSet(Makings(n)')
                BY CallsAreFinite DEF Makings, Created, Unclear
            <4>5. Cardinality(Makings(n) \cup {c}) = M + 1
                BY <4>2, <4>4, FS_AddElement
            <4>6. M + 1 <= M'
                BY <4>3, <4>4, <4>5, FS_Subset
            <4>7. n \notin Rows
                BY <3>2 DEF Present
            <4>8. QED
                BY <1>1, <1>3, <3>1, <4>6, <4>7
        <3>3. CASE ~ (n = Name(c) /\ ~Present(c))
            <4>1. n \in Rows' => n \in Rows
                BY <2>4, <3>3, OneRow DEF Puts, Present
            <4>2. QED
                BY <2>1, <3>1, <4>1
        <3>4. QED
            BY <3>2, <3>3
    <2>5. QED
        BY <2>2, <2>3, <2>4, StepRows
<1>6. Cardinality(Rows' \cap {n}) = row' /\ Cardinality(initial' \cap {n}) = first
    BY <1>2, AtMostOne
<1>7. QED
    BY <1>5, <1>6 DEF Ended

LEMMA AccountIsSafe == Spec => []RowsAreAccounted
<1>1. Init => RowsAreAccounted
    <2> SUFFICES ASSUME Init, NEW n \in Names
                 PROVE  Ended(n) <= Cardinality(Makings(n)) + Cardinality(initial \cap {n})
        BY DEF RowsAreAccounted, Makings
    <2>1. Deleted(n) = {} /\ Rows = initial
        BY DEF Init, Deleted, None
    <2>2. Cardinality(Deleted(n)) = 0
        BY <2>1, FS_EmptySet
    <2>3. Cardinality(Makings(n)) \in Nat
        BY Counted, CallsAreFinite
    <2>4. QED
        BY <2>1, <2>2, <2>3, Counted DEF Ended
<1>2. RowsAreAccounted /\ UNCHANGED vars => RowsAreAccounted'
    BY DEF RowsAreAccounted, Ended, Deleted, Created, Unclear, Rows, Name, vars
<1>3. CallInv /\ RowsAreAccounted /\ [Next]_vars => RowsAreAccounted'
    BY <1>2, NextIsStep, AccountKept
<1>4. QED
    BY <1>1, <1>3, CallInvIsSafe, PTL DEF Spec

\* An update that reads its row back after a delete of it was reported has
\* two rows to account for, and only one can be a first one.
LEMMA UpdateStep ==
    ASSUME CallInv, RowsAreAccounted, NEW c \in Calls, Step(c), NEW d \in Calls,
           op[c] = "update", answer'[c] = "ok", answer[d] = "deleted", Name(d) = Name(c)
    PROVE  Makings(Name(c)) # {}
<1> DEFINE n == Name(c)
<1>1. TypeOK /\ Control(c) /\ answer[c] = None /\ pc[c] # "done"
    BY StepFrame DEF CallInv
<1>2. UpdateReadsBack(c)
    BY <1>1 DEF Step, Begin, BeginSeed, SeedFinds, CreateChecks, SaveSelects, SaveInserts,
           InsertRefused, SaveOverwrites, UpdateChecks, UpdateWrites, DeleteChecks,
           DeleteWrites, BeginStats, CountTotal, CountEnabled, StatsAnswer, QueryFails,
           Goto, Answer, Control, Makers, TypeOK, None
<1>3. n \in Rows
    BY <1>1, <1>2 DEF UpdateReadsBack, Answer, Present, TypeOK
<1>4. n \in Names
    BY <1>3 DEF Rows
<1>5. Cardinality(Deleted(n)) \in Nat \ {0}
    <2>1. d \in Deleted(n)
        BY DEF Deleted
    <2>2. IsFiniteSet(Deleted(n)) /\ Cardinality(Deleted(n)) \in Nat
        BY CallsAreFinite DEF Deleted
    <2>3. QED
        BY <2>1, <2>2, FS_EmptySet
<1>6. Ended(n) <= Cardinality(Makings(n)) + Cardinality(initial \cap {n})
    BY <1>4 DEF RowsAreAccounted, Makings
<1>7. Cardinality(Makings(n)) \in Nat
    BY Counted, CallsAreFinite
<1>8. Cardinality(Makings(n)) # 0
    BY <1>3, <1>5, <1>6, <1>7, Counted DEF Ended
<1>9. QED
    BY <1>8, FS_EmptySet

-----------------------------------------------------------------------------
(* SeedsAreThere.                                                          *)

\* The name has a row, or had one that somebody deleted.
WasThere(n) == n \in Rows \/ Deleted(n) \cup Unclear(n, {"delete"}) # {}

SeedInv ==
    \A c \in Calls :
        /\ op[c] = "seed" => \A i \in 1 .. Behind(c) : WasThere(SeedOrder[i])
        /\ pc[c] = "overwrite" => WasThere(Name(c))

LEMMA WasThereKept ==
    ASSUME CallInv, NEW c \in Calls, Step(c), NEW n \in Names, WasThere(n)
    PROVE  WasThere(n)'
<1>1. CASE Deleted(n) \cup Unclear(n, {"delete"}) # {}
    BY <1>1, Collected DEF WasThere
<1>2. CASE n \in Rows
    <2>1. CASE Leaves(c)
        BY <1>2, <2>1 DEF Leaves, Rows, WasThere
    <2>2. CASE Puts(c)
        <3>1. PICK value \in Enabled : Write(c, value)
            BY <2>2 DEF Puts
        <3>2. n \in Rows'
            BY <1>2, <2>2, <3>1, OneRow DEF Puts, Enabled
        <3>3. QED
            BY <3>2 DEF WasThere
    <2>3. CASE Removes(c)
        <3>1. CASE n # Name(c)
            <4>1. n \in Rows'
                BY <1>2, <2>3, <3>1, OneRow DEF Removes
            <4>2. QED
                BY <4>1 DEF WasThere
        <3>2. CASE n = Name(c)
            <4>1. answer'[c] \in {"deleted", "QueryFailed"}
                BY <1>2, <2>3, <3>2 DEF Removes, Present
            <4>2. c \in Deleted(n)' \cup Unclear(n, {"delete"})'
                BY <2>3, <3>2, <4>1 DEF Removes, Deleted, Unclear, Name
            <4>3. QED
                BY <4>2 DEF WasThere
        <3>3. QED
            BY <3>1, <3>2
    <2>4. QED
        BY <2>1, <2>2, <2>3, StepRows
<1>3. QED
    BY <1>1, <1>2 DEF WasThere

\* The same for the names of the script behind a call.
LEMMA BehindKept ==
    ASSUME CallInv, SeedInv, NEW c \in Calls, Step(c), NEW d \in Calls, op[d] = "seed",
           NEW i \in 1 .. Behind(d)
    PROVE  WasThere(SeedOrder[i])'
<1>1. Len(SeedOrder) \in Nat /\ \A j \in 1 .. Len(SeedOrder) : SeedOrder[j] \in Names
    BY SeedAssumption, LenProperties
<1>2. i \in 1 .. Len(SeedOrder)
    <2>1. Len(todo[d]) \in 1 .. Len(SeedOrder)
        BY DEF CallInv, Place
    <2>2. \A k \in 1 .. Len(SeedOrder) :
            \A j \in 1 .. (Len(SeedOrder) - k) : j \in 1 .. Len(SeedOrder)
        BY <1>1
    <2>3. QED
        BY <2>1, <2>2 DEF Behind
<1>3. WasThere(SeedOrder[i])
    BY DEF SeedInv
<1>4. QED
    BY <1>1, <1>2, <1>3, WasThereKept

LEMMA SeedInvKept ==
    ASSUME CallInv, SeedInv, NEW c \in Calls, Step(c) PROVE SeedInv'
<1>1. Frame(c) /\ TypeOK /\ Control(c) /\ answer[c] = None /\ pc[c] # "done"
    BY StepFrame DEF CallInv
<1>2. ASSUME NEW d \in Calls \ {c}
      PROVE  /\ op'[d] = "seed" => \A i \in 1 .. Behind(d)' : WasThere(SeedOrder[i])'
             /\ pc'[d] = "overwrite" => WasThere(Name(d))'
    <2>1. /\ op'[d] = op[d] /\ pc'[d] = pc[d]
          /\ Behind(d)' = Behind(d) /\ Name(d)' = Name(d)
        BY <1>1 DEF Frame, Behind, Name
    <2>2. CASE pc[d] = "overwrite"
        <3>1. Name(d) \in Names
            BY <1>1, <2>2, NameIsName DEF TypeOK, Awaiting
        <3>2. WasThere(Name(d))
            BY <2>2 DEF SeedInv
        <3>3. WasThere(Name(d))'
            <4>1. PICK n \in Names : n = Name(d)
                BY <3>1
            <4>2. WasThere(n)'
                BY <3>2, <4>1, WasThereKept
            <4>3. n = Name(d)'
                BY <2>1, <4>1
            <4>4. QED
                BY <4>2, <4>3 DEF WasThere, Deleted, Unclear
        <3>4. QED
            BY <2>1, <3>3, BehindKept
    <2>3. QED
        BY <2>1, <2>2, BehindKept
<1>3. ASSUME op'[c] = "seed", NEW i \in 1 .. Behind(c)'
      PROVE  WasThere(SeedOrder[i])'
    <2>1. CASE SeedBegins(c)
        <3>1. Behind(c)' = Len(SeedOrder) - Len(SeedOrder)
            BY <1>1, <2>1 DEF SeedBegins, Behind, TypeOK, None
        <3>2. Len(SeedOrder) \in Nat
            BY SeedAssumption, LenProperties
        <3>3. QED
            BY <1>3, <3>1, <3>2
    <2>2. CASE SeedStays(c)
        <3>1. Behind(c)' = Behind(c)
            BY <1>1, <2>2 DEF SeedStays, Behind, None
        <3>2. QED
            BY <1>3, <2>2, <3>1, BehindKept DEF SeedStays
    <2>3. CASE SeedAdvances(c)
        <3>1. op[c] = "seed" /\ Behind(c)' = Behind(c) + 1
            BY <1>1, <2>3, PlaceAdvances DEF SeedAdvances
        <3>2. /\ Behind(c) \in Nat /\ Behind(c) + 1 \in 1 .. Len(SeedOrder)
              /\ Len(SeedOrder) \in Nat
              /\ Name(c) = SeedOrder[Behind(c) + 1]
            BY <1>1, <3>1, SeedIsAt DEF None
        <3>3. CASE i \in 1 .. Behind(c)
            BY <3>1, <3>3, BehindKept
        <3>4. CASE i = Behind(c) + 1
            <4>1. PICK n \in Names : n = Name(c) /\ n = SeedOrder[i]
                BY <1>1, <2>3, <3>2, <3>4, NameIsName DEF SeedAdvances
            <4>2. WasThere(n)'
                <5>1. CASE pc[c] = "overwrite" \/ Present(c)
                    <6>1. WasThere(n)
                        BY <4>1, <5>1 DEF SeedInv, WasThere, Present
                    <6>2. QED
                        BY <6>1, WasThereKept
                <5>2. CASE \E value \in Enabled : Write(c, value)
                    <6>1. n \in Rows'
                        BY <2>3, <4>1, <5>2, OneRow DEF SeedAdvances, Enabled
                    <6>2. QED
                        BY <6>1 DEF WasThere
                <5>3. QED
                    BY <2>3, <5>1, <5>2 DEF SeedAdvances
            <4>3. QED
                BY <4>1, <4>2
        <3>5. QED
            BY <1>3, <3>1, <3>2, <3>3, <3>4
    <2>4. QED
        BY <1>3, <2>1, <2>2, <2>3, SeedSteps
<1>4. ASSUME pc'[c] = "overwrite" PROVE WasThere(Name(c))'
    <2>1. SaveSelects(c)
        BY <1>1, <1>4 DEF Step, Begin, BeginSeed, SeedFinds, NextSeed, CreateChecks,
               SaveSelects, SaveInserts, Saved, InsertRefused, SaveOverwrites,
               UpdateChecks, UpdateWrites, UpdateReadsBack, DeleteChecks, DeleteWrites,
               BeginStats, CountTotal, CountEnabled, StatsAnswer, QueryFails,
               Goto, Answer, TypeOK
    <2>2. Present(c) /\ UNCHANGED <<rows, todo>>
        BY <1>1, <1>4, <2>1 DEF SaveSelects, Goto, OnlyReads, TypeOK
    <2>3. QED
        BY <2>2 DEF Present, WasThere, Rows, Name
<1>5. QED
    BY <1>2, <1>3, <1>4 DEF SeedInv

LEMMA SeedInvIsSafe == Spec => []SeedInv
<1>1. Init => SeedInv
    BY DEF Init, SeedInv, None
<1>2. SeedInv /\ UNCHANGED vars => SeedInv'
    BY DEF SeedInv, Behind, WasThere, Rows, Deleted, Unclear, Name, vars
<1>3. CallInv /\ SeedInv /\ [Next]_vars => SeedInv'
    BY <1>2, NextIsStep, SeedInvKept
<1>4. QED
    BY <1>1, <1>3, CallInvIsSafe, PTL DEF Spec

-----------------------------------------------------------------------------
(* SavesMeetOnlyRaces.                                                     *)

\* c has found no row of its name, and now there is one.
Meets(c) ==
    \/ pc[c] = "overwrite"
    \/ pc[c] \in {"select", "insert"} /\ Present(c)

RaceInv == \A c \in Calls : Meets(c) => Makings(Name(c)) # {}

\* How a call comes to a query of its save.
LEMMA SaveSteps ==
    ASSUME CallInv, NEW c \in Calls, Step(c), pc'[c] \in {"select", "insert", "overwrite"}
    PROVE  /\ UNCHANGED <<rows, todo>> /\ todo[c] # <<>>
           /\ IF pc'[c] = "overwrite" THEN Meets(c) ELSE ~Present(c)
<1>1. TypeOK /\ pc[c] # "done"
    BY StepFrame DEF CallInv
<1>2. SaveSelects(c) \/ SeedFinds(c) \/ CreateChecks(c)
    BY <1>1 DEF Step, Begin, BeginSeed, SaveInserts, Saved, NextSeed, InsertRefused,
           SaveOverwrites, UpdateChecks, UpdateWrites, UpdateReadsBack, DeleteChecks,
           DeleteWrites, BeginStats, CountTotal, CountEnabled, StatsAnswer, QueryFails,
           Goto, Answer, TypeOK
<1>3. todo[c] # <<>>
    BY <1>1, <1>2 DEF SaveSelects, SeedFinds, CreateChecks, TypeOK, Awaiting
<1>4. CASE SaveSelects(c)
    BY <1>1, <1>3, <1>4 DEF SaveSelects, Goto, OnlyReads, Meets, TypeOK
<1>5. CASE SeedFinds(c) \/ CreateChecks(c)
    BY <1>1, <1>3, <1>5 DEF SeedFinds, CreateChecks, NextSeed, Goto, Answer, OnlyReads, TypeOK
<1>6. QED
    BY <1>2, <1>4, <1>5

\* A row appears by the statement of a call that makes one.
LEMMA RowsAppear ==
    ASSUME CallInv, NEW c \in Calls, Step(c), NEW n \in Names, n \notin Rows, n \in Rows'
    PROVE  Makings(n)' # {}
<1>1. CASE Leaves(c)
    BY <1>1 DEF Leaves, Rows
<1>2. CASE Removes(c)
    BY <1>2, OneRow DEF Removes
<1>3. CASE Puts(c)
    <2>1. PICK value \in Enabled : Write(c, value)
        BY <1>3 DEF Puts
    <2>2. n = Name(c)
        BY <1>3, <2>1, OneRow DEF Puts, Enabled
    <2>3. c \in Makings(n)'
        BY <1>3, <2>2 DEF Puts, Present, Makings, Created, Unclear, Name
    <2>4. QED
        BY <2>3
<1>4. QED
    BY <1>1, <1>2, <1>3, StepRows

LEMMA RaceKept ==
    ASSUME CallInv, RaceInv, NEW c \in Calls, Step(c) PROVE RaceInv'
<1> SUFFICES ASSUME NEW d \in Calls, Meets(d)' PROVE (Makings(Name(d)) # {})'
    BY DEF RaceInv
<1>1. Frame(c) /\ TypeOK
    BY StepFrame DEF CallInv
<1>2. todo'[d] = todo[d] /\ todo[d] # <<>> /\ (Meets(d) \/ (~Present(d) /\ Present(d)'))
    <2>1. CASE d = c
        BY <2>1, SaveSteps DEF Meets, Present, Rows, Name
    <2>2. CASE d # c
        <3>1. pc'[d] = pc[d] /\ todo'[d] = todo[d]
            BY <1>1, <2>2 DEF Frame
        <3>2. QED
            BY <1>1, <3>1 DEF Meets, TypeOK, Awaiting
    <2>3. QED
        BY <2>1, <2>2
<1>3. PICK n \in Names : n = Name(d) /\ n = Name(d)'
    BY <1>1, <1>2, NameIsName DEF Name
<1>4. Makings(n)' # {}
    <2>1. CASE Meets(d)
        <3>1. Makings(n) # {}
            BY <1>3, <2>1 DEF RaceInv
        <3>2. QED
            BY <3>1, Collected DEF Makings
    <2>2. CASE ~Present(d) /\ Present(d)'
        BY <1>3, <2>2, RowsAppear DEF Present
    <2>3. QED
        BY <1>2, <2>1, <2>2
<1>5. QED
    BY <1>3, <1>4 DEF Makings, Created, Unclear

LEMMA RaceInvIsSafe == Spec => []RaceInv
<1>1. Init => RaceInv
    BY DEF Init, RaceInv, Meets
<1>2. RaceInv /\ UNCHANGED vars => RaceInv'
    BY DEF RaceInv, Meets, Present, Rows, Makings, Created, Unclear, Name, vars
<1>3. CallInv /\ RaceInv /\ [Next]_vars => RaceInv'
    BY <1>2, NextIsStep, RaceKept
<1>4. QED
    BY <1>1, <1>3, CallInvIsSafe, PTL DEF Spec

-----------------------------------------------------------------------------
(* StatsErrorIsBounded.                                                    *)

Within(error, k) == error <= k /\ -error <= k

\* How far the counts that a call has got are from the table of now.
StatInv(c) ==
    LET total == counts[c].total - Cardinality(Rows)
        enabled == counts[c].enabled - Cardinality(EnabledRows)
    IN  /\ counts[c].total # NotYet /\ counts[c].enabled = NotYet
             => Within(total, missed[c])
        /\ counts[c].total = NotYet /\ counts[c].enabled # NotYet
             => Within(enabled, missed[c])
        /\ counts[c].total # NotYet /\ counts[c].enabled # NotYet
             => Within(total - enabled, missed[c])
        /\ op[c] = "stats" /\ answer[c] = "ok"
             => counts[c].total # NotYet /\ counts[c].enabled # NotYet

StatsInv == \A c \in Calls : StatInv(c)

LEMMA OneElement ==
    ASSUME NEW S, NEW T, NEW x, IsFiniteSet(S), S \ {x} = T \ {x}
    PROVE  /\ Cardinality(T) - Cardinality(S)
                = (IF x \in T THEN 1 ELSE 0) - (IF x \in S THEN 1 ELSE 0)
           /\ Cardinality(S) \in Nat /\ Cardinality(T) \in Nat
<1> DEFINE U == S \ {x}
<1>1. IsFiniteSet(U) /\ Cardinality(U) \in Nat /\ x \notin U
    BY FS_RemoveElement, FS_CardinalityType
<1>2. Cardinality(U \cup {x}) = Cardinality(U) + 1
    BY <1>1, FS_AddElement
<1>3. (S = IF x \in S THEN U \cup {x} ELSE U) /\ (T = IF x \in T THEN U \cup {x} ELSE U)
    OBVIOUS
<1> HIDE DEF U
<1>4. Cardinality(S) = Cardinality(U) + (IF x \in S THEN 1 ELSE 0)
    BY <1>1, <1>2, <1>3
<1>5. Cardinality(T) = Cardinality(U) + (IF x \in T THEN 1 ELSE 0)
    BY <1>1, <1>2, <1>3
<1>6. QED
    BY <1>1, <1>4, <1>5

\* By a change of one row each count moves by at most one, and so does their
\* difference: an enabled row is a row.
LEMMA CountsMove ==
    ASSUME CallInv, NEW c \in Calls, todo[c] # <<>>,
           NEW value \in Enabled \cup {"absent"}, Write(c, value)
    PROVE  \E r \in {-1, 0, 1}, e \in {-1, 0, 1} :
             /\ Cardinality(Rows') = Cardinality(Rows) + r
             /\ Cardinality(EnabledRows') = Cardinality(EnabledRows) + e
             /\ r - e \in {-1, 0, 1}
             /\ rows[Name(c)] = value => r = 0 /\ e = 0
<1> DEFINE n == Name(c)
           r == (IF n \in Rows' THEN 1 ELSE 0) - (IF n \in Rows THEN 1 ELSE 0)
           e == (IF n \in EnabledRows' THEN 1 ELSE 0) - (IF n \in EnabledRows THEN 1 ELSE 0)
<1>1. n \in Names
    BY NameIsName DEF CallInv
<1>2. Rows \ {n} = Rows' \ {n} /\ EnabledRows \ {n} = EnabledRows' \ {n}
    BY <1>1 DEF CallInv, TypeOK, Rows, EnabledRows, Write
<1>3. Cardinality(Rows') - Cardinality(Rows) = r /\ Cardinality(Rows) \in Nat
      /\ Cardinality(Rows') \in Nat
    BY <1>2, OneElement, TableIsFinite
<1>4. Cardinality(EnabledRows') - Cardinality(EnabledRows) = e /\ Cardinality(EnabledRows) \in Nat
      /\ Cardinality(EnabledRows') \in Nat
    BY <1>2, OneElement, TableIsFinite
<1>5. /\ n \in EnabledRows => n \in Rows
      /\ n \in EnabledRows' => n \in Rows'
    BY DEF Rows, EnabledRows
<1>6. rows[n] = value => (n \in Rows' <=> n \in Rows) /\ (n \in EnabledRows' <=> n \in EnabledRows)
    BY <1>1 DEF CallInv, TypeOK, Rows, EnabledRows, Write
<1>7. r \in {-1, 0, 1} /\ e \in {-1, 0, 1} /\ r - e \in {-1, 0, 1}
      /\ (rows[n] = value => r = 0 /\ e = 0)
    BY <1>5, <1>6
<1> HIDE DEF r, e, n
<1>8. Cardinality(Rows') = Cardinality(Rows) + r
      /\ Cardinality(EnabledRows') = Cardinality(EnabledRows) + e
    BY <1>3, <1>4, <1>7
<1>9. QED
    BY <1>7, <1>8 DEF n

\* A step that leaves the counts of a call alone.
LEMMA StatKept ==
    ASSUME CallInv, StatsInv, NEW c \in Calls, Step(c), NEW d \in Calls,
           counts'[d] = counts[d], op'[d] = "stats" => op[d] = "stats",
           answer'[d] = "ok" /\ op[d] = "stats" => answer[d] = "ok" \/ StatsAnswer(d)
    PROVE  StatInv(d)'
<1> USE DEF NotYet
<1> DEFINE R == Cardinality(Rows)
           E == Cardinality(EnabledRows)
           t == counts[d].total
           e == counts[d].enabled
           k == missed[d]
<1>1. /\ R \in Nat /\ E \in Nat /\ t \in Nat \cup {-1} /\ e \in Nat \cup {-1} /\ k \in Nat
      /\ counts[d] = Uncounted <=> t = -1 /\ e = -1
    BY TableIsFinite DEF CallInv, TypeOK, Uncounted
<1>2. /\ t # -1 /\ e = -1 => Within(t - R, k)
      /\ t = -1 /\ e # -1 => Within(e - E, k)
      /\ t # -1 /\ e # -1 => Within((t - R) - (e - E), k)
    BY DEF StatsInv, StatInv
<1>3. op'[d] = "stats" /\ answer'[d] = "ok" => t # -1 /\ e # -1
    BY DEF StatsInv, StatInv, StatsAnswer
<1>4. /\ t # -1 /\ e = -1 => Within(t - R', k')
      /\ t = -1 /\ e # -1 => Within(e - E', k')
      /\ t # -1 /\ e # -1 => Within((t - R') - (e - E'), k')
    <2>1. CASE UNCHANGED <<rows, missed>>
        BY <1>2, <2>1 DEF Rows, EnabledRows
    <2>2. CASE \E value \in Enabled \cup {"absent"} : todo[c] # <<>> /\ Write(c, value)
        <3>1. PICK value \in Enabled \cup {"absent"} : todo[c] # <<>> /\ Write(c, value)
            BY <2>2
        <3>2. PICK r \in {-1, 0, 1}, f \in {-1, 0, 1} :
                /\ R' = R + r /\ E' = E + f /\ r - f \in {-1, 0, 1}
                /\ rows[Name(c)] = value => r = 0 /\ f = 0
            BY <3>1, CountsMove
        <3>3. k' = IF rows[Name(c)] # value /\ (t # -1 \/ e # -1) THEN k + 1 ELSE k
            BY <1>1, <3>1 DEF Write, CallInv, TypeOK
        <3> HIDE DEF R, E, t, e, k
        <3>4. CASE rows[Name(c)] = value
            BY <1>1, <1>2, <3>2, <3>3, <3>4
        <3>5. CASE rows[Name(c)] # value
            <4>1. ASSUME t # -1 PROVE e = -1 => Within(t - R', k')
                BY <1>1, <1>2, <3>2, <3>3, <3>5, <4>1 DEF Within
            <4>2. ASSUME e # -1 PROVE t = -1 => Within(e - E', k')
                BY <1>1, <1>2, <3>2, <3>3, <3>5, <4>2 DEF Within
            <4>3. ASSUME t # -1, e # -1 PROVE Within((t - R') - (e - E'), k')
                BY <1>1, <1>2, <3>2, <3>3, <3>5, <4>3 DEF Within
            <4>4. QED
                BY <4>1, <4>2, <4>3
        <3>6. QED
            BY <3>4, <3>5
    <2>3. QED
        BY <2>1, <2>2, StepRows DEF Leaves, Removes, Puts
<1>5. counts'[d].total = t /\ counts'[d].enabled = e
    OBVIOUS
<1>6. QED
    BY <1>3, <1>4, <1>5 DEF StatInv

LEMMA StatsInvKept ==
    ASSUME CallInv, StatsInv, NEW c \in Calls, Step(c) PROVE StatsInv'
<1>1. Frame(c) /\ TypeOK /\ Control(c) /\ answer[c] = None /\ pc[c] # "done"
    BY StepFrame DEF CallInv
<1>2. ASSUME NEW d \in Calls \ {c} PROVE StatInv(d)'
    BY <1>1, StatKept DEF Frame
<1>3. StatInv(c)'
    <2>1. CASE CountTotal(c)
        <3> USE DEF NotYet
        <3>1. /\ counts'[c].total = Cardinality(Rows) /\ counts'[c].enabled = counts[c].enabled
              /\ UNCHANGED <<rows, missed>> /\ answer'[c] = None /\ counts[c].total = -1
            BY <1>1, <2>1 DEF CountTotal, OnlyReads, TypeOK
        <3>2. Rows' = Rows /\ EnabledRows' = EnabledRows
            BY <3>1 DEF Rows, EnabledRows
        <3>3. counts[c].enabled # -1
                => Within(counts[c].enabled - Cardinality(EnabledRows), missed[c])
            BY <3>1 DEF StatsInv, StatInv
        <3>4. /\ counts[c].enabled \in Nat \cup {-1} /\ missed[c] \in Nat
              /\ Cardinality(Rows) \in Nat /\ Cardinality(EnabledRows) \in Nat
            BY <1>1, TableIsFinite DEF TypeOK
        <3>5. QED
            BY <3>1, <3>2, <3>3, <3>4 DEF StatInv, Within, None
    <2>2. CASE CountEnabled(c)
        <3> USE DEF NotYet
        <3>1. /\ counts'[c].enabled = Cardinality(EnabledRows) /\ counts'[c].total = counts[c].total
              /\ UNCHANGED <<rows, missed>> /\ answer'[c] = None /\ counts[c].enabled = -1
            BY <1>1, <2>2 DEF CountEnabled, OnlyReads, TypeOK
        <3>2. Rows' = Rows /\ EnabledRows' = EnabledRows
            BY <3>1 DEF Rows, EnabledRows
        <3>3. counts[c].total # -1 => Within(counts[c].total - Cardinality(Rows), missed[c])
            BY <3>1 DEF StatsInv, StatInv
        <3>4. /\ counts[c].total \in Nat \cup {-1} /\ missed[c] \in Nat
              /\ Cardinality(Rows) \in Nat /\ Cardinality(EnabledRows) \in Nat
            BY <1>1, TableIsFinite DEF TypeOK
        <3>5. QED
            BY <3>1, <3>2, <3>3, <3>4 DEF StatInv, Within, None
    <2>3. CASE BeginStats(c)
        <3>1. counts' = counts /\ UNCHANGED <<rows, missed>> /\ answer'[c] = None
            BY <1>1, <2>3 DEF BeginStats, OnlyReads
        <3>2. QED
            BY <3>1 DEF StatsInv, StatInv, Rows, EnabledRows, None
    <2>4. CASE ~ (CountTotal(c) \/ CountEnabled(c) \/ BeginStats(c))
        <3>1. counts' = counts /\ (op'[c] = "stats" => op[c] = "stats")
            BY <1>1, <2>4 DEF Step, Begin, BeginSeed, SeedFinds, NextSeed, CreateChecks,
               SaveSelects, SaveInserts, Saved, InsertRefused, SaveOverwrites,
               UpdateChecks, UpdateWrites, UpdateReadsBack, DeleteChecks, DeleteWrites,
               StatsAnswer, QueryFails, Goto, Answer, TypeOK
        <3>2. ASSUME answer'[c] = "ok", op[c] = "stats" PROVE StatsAnswer(c)
            BY <1>1, <2>4, <3>2 DEF Step, Begin, BeginSeed, SeedFinds, CreateChecks,
               SaveSelects, SaveInserts, InsertRefused, SaveOverwrites,
               UpdateChecks, UpdateWrites, UpdateReadsBack, DeleteChecks, DeleteWrites,
               QueryFails, Goto, Answer, Control, Makers, TypeOK, None
        <3>3. QED
            BY <3>1, <3>2, StatKept
    <2>5. QED
        BY <2>1, <2>2, <2>3, <2>4
<1>4. QED
    BY <1>2, <1>3 DEF StatsInv

LEMMA StatsInvIsSafe == Spec => []StatsInv
<1>1. Init => StatsInv
    BY DEF Init, StatsInv, StatInv, Uncounted, NotYet, None
<1>2. StatsInv /\ UNCHANGED vars => StatsInv'
    BY DEF StatsInv, StatInv, Rows, EnabledRows, vars
<1>3. CallInv /\ StatsInv /\ [Next]_vars => StatsInv'
    BY <1>2, NextIsStep, StatsInvKept
<1>4. QED
    BY <1>1, <1>3, CallInvIsSafe, PTL DEF Spec

-----------------------------------------------------------------------------
(* The theorems.                                                           *)

\* Every call is in a state of the service or of the script, and the names
\* it has yet to do are names of the table.
THEOREM TypeCorrect == Spec => []TypeOK
BY TypesAreSafe

\* However the queries of the calls interleave, and whichever of them fail,
\* no row of the table comes from nowhere and none is deleted twice.
THEOREM RowsAreAccountedThm == Spec => []RowsAreAccounted
BY AccountIsSafe

\* updateNamespace does not answer with a row that deleteNamespace reported
\* as removed, unless another one was made.
THEOREM UpdatesSeeDeletesThm == Spec => UpdatesSeeDeletes
<1> DEFINE A == \A c, d \in Calls :
                  /\ op[c] = "update" /\ answer[c] = None /\ answer'[c] = "ok"
                  /\ answer[d] = "deleted" /\ Name(d) = Name(c)
                  => Created(Name(c)) \cup Unclear(Name(c), Makers) # {}
<1>1. CallInv /\ RowsAreAccounted /\ [Next]_vars => [A]_vars
    <2> SUFFICES ASSUME CallInv, RowsAreAccounted, Next,
                        NEW c \in Calls, NEW d \in Calls,
                        op[c] = "update", answer[c] = None, answer'[c] = "ok",
                        answer[d] = "deleted", Name(d) = Name(c)
                 PROVE  Created(Name(c)) \cup Unclear(Name(c), Makers) # {}
        OBVIOUS
    <2>1. PICK b \in Calls : Step(b)
        BY NextIsStep
    <2>2. b = c
        BY <2>1, StepFrame DEF CallInv, Frame, None
    <2>3. QED
        BY <2>1, <2>2, UpdateStep DEF Makings
<1>2. QED
    BY <1>1, CallInvIsSafe, AccountIsSafe, PTL DEF Spec, UpdatesSeeDeletes

\* When seedNamespaces ends without an error, each of its namespaces is in
\* the table or was deleted, however many runs of it there were at a time.
THEOREM SeedsAreThereThm == Spec => []SeedsAreThere
<1>1. CallInv /\ SeedInv => SeedsAreThere
    <2> SUFFICES ASSUME CallInv, SeedInv, NEW c \in Calls, NEW i \in 1 .. Len(SeedOrder),
                        op[c] = "seed", answer[c] = "ok"
                 PROVE  WasThere(SeedOrder[i])
        BY DEF SeedsAreThere, WasThere
    <2>1. QED
        BY DEF SeedInv, Behind
<1>2. QED
    BY <1>1, CallInvIsSafe, SeedInvIsSafe, PTL

\* What getNamespaceStats says of disabled namespaces is off by no more than
\* the changes of the table since its first count.
THEOREM StatsErrorIsBoundedThm == Spec => []StatsErrorIsBounded
<1>1. CallInv /\ StatsInv => StatsErrorIsBounded
    <2> SUFFICES ASSUME CallInv, StatsInv, NEW c \in Calls,
                        op[c] = "stats", answer[c] = "ok"
                 PROVE  Within(Disabled(c) - Cardinality(Rows \ EnabledRows), missed[c])
        BY DEF StatsErrorIsBounded, Within
    <2>1. Rows \cap EnabledRows = EnabledRows
        BY DEF Rows, EnabledRows
    <2>2. Cardinality(Rows \ EnabledRows) = Cardinality(Rows) - Cardinality(EnabledRows)
        <3>1. \A S, T : IsFiniteSet(S) =>
                Cardinality(S \ T) = Cardinality(S) - Cardinality(S \cap T)
            BY FS_Difference
        <3>2. Cardinality(Rows \ EnabledRows)
                = Cardinality(Rows) - Cardinality(Rows \cap EnabledRows)
            BY <3>1, TableIsFinite
        <3>3. QED
            BY <2>1, <3>2, Zenon
    <2>3. /\ counts[c].total # NotYet /\ counts[c].enabled # NotYet
          /\ Within((counts[c].total - Cardinality(Rows))
                      - (counts[c].enabled - Cardinality(EnabledRows)), missed[c])
        BY DEF StatsInv, StatInv
    <2>4. /\ counts[c].total \in Nat /\ counts[c].enabled \in Nat
          /\ Cardinality(Rows) \in Nat /\ Cardinality(EnabledRows) \in Nat
        BY <2>3, TableIsFinite DEF CallInv, TypeOK
    <2>5. (counts[c].total - Cardinality(Rows)) - (counts[c].enabled - Cardinality(EnabledRows))
            = Disabled(c) - Cardinality(Rows \ EnabledRows)
        BY <2>2, <2>4 DEF Disabled
    <2>6. QED
        BY <2>3, <2>5
<1>2. QED
    BY <1>1, CallInvIsSafe, StatsInvIsSafe, PTL

\* A save whose check found no row writes over one, or has its insert
\* refused, only because ANOTHER create or run of the script has reported
\* that name as made, or has failed in a way that may have made it.  So
\* what CreatesMakeRows shows, a create that reports somebody else's row as
\* its own, takes two makers of one name: a delete, an update or a failure
\* of theirs alone never leads there.
SavesMeetOnlyRaces ==
    \A c \in Calls :
        pc[c] = "overwrite" \/ (pc[c] = "insert" /\ Present(c)) =>
            \E d \in Calls \ {c} :
                \/ Name(c) \in made[d]
                \/ /\ op[d] \in Makers
                   /\ answer[d] = "QueryFailed"
                   /\ Name(d) = Name(c)

THEOREM SavesMeetOnlyRacesThm == Spec => []SavesMeetOnlyRaces
<1>1. CallInv /\ RaceInv => SavesMeetOnlyRaces
    <2> SUFFICES ASSUME CallInv, RaceInv, NEW c \in Calls,
                        pc[c] = "overwrite" \/ (pc[c] = "insert" /\ Present(c))
                 PROVE  \E d \in Calls \ {c} : d \in Makings(Name(c))
        BY DEF SavesMeetOnlyRaces, Makings, Created, Unclear
    <2>1. PICK d \in Calls : d \in Makings(Name(c))
        BY DEF RaceInv, Meets, Makings, Created, Unclear
    <2>2. answer[c] = None /\ op[c] \in Makers
        BY DEF CallInv, TypeOK, Control
    <2>3. c \notin Makings(Name(c))
        BY <2>2, NotMadeYet DEF Makings, Created, Unclear, None
    <2>4. QED
        BY <2>1, <2>3
<1>2. QED
    BY <1>1, CallInvIsSafe, RaceInvIsSafe, PTL
=============================================================================
