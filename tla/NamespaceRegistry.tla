------------------------- MODULE NamespaceRegistry -------------------------
(***************************************************************************)
(* NamespaceService and NamespaceRepository as administrators use them,    *)
(* and the seed script: create, update, delete and the statistics, each    *)
(* several queries to one Postgres table whose primary key is `name`.      *)
(* Several calls may be under way, in one process or in several: each      *)
(* query is atomic and nothing orders the queries of different calls.      *)
(*                                                                         *)
(* TypeORM is not under src/: its save of an entity selects the row by its *)
(* key and then inserts it or, when the select found one, updates it; an   *)
(* update of a row that is gone changes nothing and is no error.           *)
(*                                                                         *)
(* Of a row the model keeps whether it is enabled; the backends are        *)
(* counted like that and left out.                                         *)
(***************************************************************************)
EXTENDS Integers, Sequences, FiniteSets

CONSTANTS
    Calls,          \* calls of the service and runs of the script, each one
    Names,          \* the namespaces they are about
    SeedOrder       \* the names the seed script goes through, in its order

ASSUME FiniteAssumption == IsFiniteSet(Calls) /\ IsFiniteSet(Names)

\* The script's literals are different names.
ASSUME SeedAssumption ==
    /\ SeedOrder \in Seq(Names)
    /\ SeedOrder # <<>>
    /\ \A i, j \in 1 .. Len(SeedOrder) : SeedOrder[i] = SeedOrder[j] => i = j

VARIABLES
    rows,           \* the table: what each name's row says
    initial,        \* history: the names that had a row at first
    op,             \* what each call does
    todo,           \* the name it is at, and those the script has yet to do
    pc,             \* the query it awaits
    answer,         \* what it returned or threw
    made,           \* the names it reports as created
    counts,         \* the counts a statistics call has got
    missed          \* history: the changes since its first count

vars == <<rows, initial, op, todo, pc, answer, made, counts, missed>>

None == "none"
NotYet == -1
Uncounted == [total |-> NotYet, enabled |-> NotYet]
Enabled == {"enabled", "disabled"}
Awaiting == {"exists", "select", "insert", "overwrite", "update", "find",
             "delete", "count"}

TypeOK ==
    /\ rows \in [Names -> Enabled \cup {"absent"}]
    /\ initial \subseteq Names
    /\ op \in [Calls -> {None, "create", "update", "delete", "seed", "stats"}]
    /\ todo \in [Calls -> Seq(Names)]
    /\ pc \in [Calls -> Awaiting \cup {"new", "done"}]
    /\ answer \in [Calls -> {None, "ok", "deleted", "nothingDeleted",
                             "Conflict", "NotFound", "DuplicateKey", "Error",
                             "QueryFailed"}]
    /\ made \in [Calls -> SUBSET Names]
    /\ counts \in [Calls -> [total : Nat \cup {NotYet}, enabled : Nat \cup {NotYet}]]
    /\ missed \in [Calls -> Nat]
    /\ \A c \in Calls :
         /\ pc[c] = "done" <=> answer[c] # None
         /\ pc[c] \in Awaiting \ {"count"} => todo[c] # <<>>

Rows == {n \in Names : rows[n] # "absent"}
EnabledRows == {n \in Names : rows[n] = "enabled"}

Init ==
    /\ rows \in [Names -> Enabled \cup {"absent"}]
    /\ initial = Rows
    /\ op = [c \in Calls |-> None]
    /\ todo = [c \in Calls |-> <<>>]
    /\ pc = [c \in Calls |-> "new"]
    /\ answer = [c \in Calls |-> None]
    /\ made = [c \in Calls |-> {}]
    /\ counts = [c \in Calls |-> Uncounted]
    /\ missed = [c \in Calls |-> 0]

Name(c) == Head(todo[c])
Present(c) == Name(c) \in Rows

\* What c writes: the script enables all its namespaces.
Data(c) == IF op[c] = "seed" THEN {"enabled"} ELSE Enabled

Goto(c, label) ==
    /\ pc' = [pc EXCEPT ![c] = label]
    /\ UNCHANGED <<initial, op, todo, answer, counts>>

Answer(c, value) ==
    /\ pc' = [pc EXCEPT ![c] = "done"]
    /\ answer' = [answer EXCEPT ![c] = value]
    /\ UNCHANGED <<initial, op, todo, counts>>

\* The table is left as it is, and nothing is reported as created.
OnlyReads == UNCHANGED <<rows, made, missed>>

\* A statement makes the row of c's name say `value`, which every statistics
\* call that has begun to count may not have seen.
Write(c, value) ==
    /\ rows' = [rows EXCEPT ![Name(c)] = value]
    /\ missed' = [d \in Calls |->
                    IF rows[Name(c)] # value /\ counts[d] # Uncounted
                    THEN missed[d] + 1 ELSE missed[d]]

-----------------------------------------------------------------------------
(* create, update, delete, and the seed script.                            *)

\* Every operation first counts the rows of its name.
Begin(c) ==
    /\ pc[c] = "new"
    /\ \E o \in {"create", "update", "delete"}, n \in Names :
         /\ op' = [op EXCEPT ![c] = o]
         /\ todo' = [todo EXCEPT ![c] = <<n>>]
    /\ pc' = [pc EXCEPT ![c] = "exists"]
    /\ OnlyReads
    /\ UNCHANGED <<initial, answer, counts>>

\* The script finds the row of its first name.
BeginSeed(c) ==
    /\ pc[c] = "new"
    /\ op' = [op EXCEPT ![c] = "seed"]
    /\ todo' = [todo EXCEPT ![c] = SeedOrder]
    /\ pc' = [pc EXCEPT ![c] = "exists"]
    /\ OnlyReads
    /\ UNCHANGED <<initial, answer, counts>>

CreateChecks(c) ==
    /\ pc[c] = "exists"
    /\ op[c] = "create"
    /\ IF Present(c) THEN Answer(c, "Conflict") ELSE Goto(c, "select")
    /\ OnlyReads

\* After one name of the script the next, until there is none.
NextSeed(c) ==
    \/ /\ Len(todo[c]) = 1
       /\ Answer(c, "ok")
    \/ /\ Len(todo[c]) > 1
       /\ todo' = [todo EXCEPT ![c] = Tail(@)]
       /\ pc' = [pc EXCEPT ![c] = "exists"]
       /\ UNCHANGED <<initial, op, answer, counts>>

\* mutant: the script is done when it finds a row of its own
SeedFinds_Stops(c) ==
    /\ pc[c] = "exists"
    /\ op[c] = "seed"
    /\ IF Present(c) THEN Answer(c, "ok") ELSE Goto(c, "select")
    /\ OnlyReads

SeedFinds(c) ==
    /\ pc[c] = "exists"
    /\ op[c] = "seed"
    /\ IF Present(c) THEN NextSeed(c) ELSE Goto(c, "select")
    /\ OnlyReads

\* The select of TypeORM's save.
SaveSelects(c) ==
    /\ pc[c] = "select"
    /\ Goto(c, IF Present(c) THEN "overwrite" ELSE "insert")
    /\ OnlyReads

\* The save is done: create answers, the script goes on.
Saved(c) ==
    /\ made' = [made EXCEPT ![c] = @ \cup {Name(c)}]
    /\ IF op[c] = "seed" THEN NextSeed(c) ELSE Answer(c, "ok")

SaveInserts(c) ==
    /\ pc[c] = "insert"
    /\ ~Present(c)
    /\ \E value \in Data(c) : Write(c, value)
    /\ Saved(c)

\* The primary key refuses the insert when another one was faster.
InsertRefused(c) ==
    /\ pc[c] = "insert"
    /\ Present(c)
    /\ Answer(c, "DuplicateKey")
    /\ OnlyReads

\* An UPDATE, which changes the row if it is still there.
SaveOverwrites(c) ==
    /\ pc[c] = "overwrite"
    /\ \E value \in IF Present(c) THEN Data(c) ELSE {"absent"} : Write(c, value)
    /\ Saved(c)

UpdateChecks(c) ==
    /\ pc[c] = "exists"
    /\ op[c] = "update"
    /\ IF Present(c) THEN Goto(c, "update") ELSE Answer(c, "NotFound")
    /\ OnlyReads

\* mutant: a save, which inserts the row again if it is gone
UpdateWrites_Save(c) ==
    /\ pc[c] = "update"
    /\ \E value \in Enabled : Write(c, value)
    /\ Goto(c, "find")
    /\ UNCHANGED made

\* An UPDATE with a WHERE; how many rows it changed is not looked at.
UpdateWrites(c) ==
    /\ pc[c] = "update"
    /\ \E value \in IF Present(c) THEN Data(c) ELSE {"absent"} : Write(c, value)
    /\ Goto(c, "find")
    /\ UNCHANGED made

\* mutants: no answer is returned; the row read back is not looked at
UpdateReadsBack_NoReturn(c) ==
    /\ pc[c] = "find"
    /\ Goto(c, "done")
    /\ OnlyReads

UpdateReadsBack_Unchecked(c) ==
    /\ pc[c] = "find"
    /\ Answer(c, "ok")
    /\ OnlyReads

\* The row is read back for the answer.
UpdateReadsBack(c) ==
    /\ pc[c] = "find"
    /\ Answer(c, IF Present(c) THEN "ok" ELSE "Error")
    /\ OnlyReads

DeleteChecks(c) ==
    /\ pc[c] = "exists"
    /\ op[c] = "delete"
    /\ IF Present(c) THEN Goto(c, "delete") ELSE Answer(c, "NotFound")
    /\ OnlyReads

\* The DELETE says how many rows it removed.
DeleteWrites(c) ==
    /\ pc[c] = "delete"
    /\ Write(c, "absent")
    /\ Answer(c, IF Present(c) THEN "deleted" ELSE "nothingDeleted")
    /\ UNCHANGED made

\* A query fails, possibly after it took effect; the error is thrown on, and
\* ends the script.
QueryFails(c) ==
    /\ pc[c] \in Awaiting
    /\ \/ UNCHANGED <<rows, missed>>
       \/ /\ \/ pc[c] = "insert" /\ ~Present(c)
             \/ pc[c] \in {"update", "overwrite"} /\ Present(c)
          /\ \E value \in Data(c) : Write(c, value)
       \/ pc[c] = "delete" /\ Write(c, "absent")
    /\ Answer(c, "QueryFailed")
    /\ UNCHANGED made

-----------------------------------------------------------------------------
(* getNamespaceStats.                                                      *)

\* It sends two counts, which Postgres may answer on two connections.
BeginStats(c) ==
    /\ pc[c] = "new"
    /\ op' = [op EXCEPT ![c] = "stats"]
    /\ pc' = [pc EXCEPT ![c] = "count"]
    /\ OnlyReads
    /\ UNCHANGED <<initial, todo, answer, counts>>

CountTotal(c) ==
    /\ pc[c] = "count"
    /\ counts[c].total = NotYet
    /\ counts' = [counts EXCEPT ![c].total = Cardinality(Rows)]
    /\ OnlyReads
    /\ UNCHANGED <<initial, op, todo, pc, answer>>

\* mutant: the condition is not passed on
CountEnabled_All(c) ==
    /\ pc[c] = "count"
    /\ counts[c].enabled = NotYet
    /\ counts' = [counts EXCEPT ![c].enabled = Cardinality(Rows)]
    /\ OnlyReads
    /\ UNCHANGED <<initial, op, todo, pc, answer>>

CountEnabled(c) ==
    /\ pc[c] = "count"
    /\ counts[c].enabled = NotYet
    /\ counts' = [counts EXCEPT ![c].enabled = Cardinality(EnabledRows)]
    /\ OnlyReads
    /\ UNCHANGED <<initial, op, todo, pc, answer>>

\* Both are there, and later the counts per backend.
StatsAnswer(c) ==
    /\ pc[c] = "count"
    /\ NotYet \notin {counts[c].total, counts[c].enabled}
    /\ Answer(c, "ok")
    /\ OnlyReads

Disabled(c) == counts[c].total - counts[c].enabled

Next ==
    \E c \in Calls :
        \/ Begin(c) \/ BeginSeed(c) \/ SeedFinds(c)
        \/ CreateChecks(c) \/ SaveSelects(c) \/ SaveInserts(c) \/ InsertRefused(c)
        \/ SaveOverwrites(c)
        \/ UpdateChecks(c) \/ UpdateWrites(c) \/ UpdateReadsBack(c)
        \/ DeleteChecks(c) \/ DeleteWrites(c)
        \/ BeginStats(c) \/ CountTotal(c) \/ CountEnabled(c) \/ StatsAnswer(c)
        \/ QueryFails(c)

Spec == Init /\ [][Next]_vars

-----------------------------------------------------------------------------
(* Properties.                                                             *)

Created(n) == {c \in Calls : n \in made[c]}
Deleted(n) == {c \in Calls : answer[c] = "deleted" /\ Name(c) = n}
Unclear(n, operations) ==
    {c \in Calls : op[c] \in operations /\ answer[c] = "QueryFailed" /\ Name(c) = n}
Makers == {"create", "seed"}
Ended(n) == Cardinality(Deleted(n)) + Cardinality(Rows \cap {n})

\* No row comes from nowhere and none is deleted twice: the rows of a name
\* that are there or that a delete reports as removed are rows that were
\* there at first, that a create or the script reports, or that a failed one
\* may have left, however checks and writes interleave.  In particular an
\* update never brings a deleted namespace back.
RowsAreAccounted ==
    \A n \in Names :
        Ended(n) <= Cardinality(Created(n) \cup Unclear(n, Makers))
                        + Cardinality(initial \cap {n})

\* An update that succeeds answers with a row that is there: if a delete of
\* it has been reported before, a create has made another one.
UpdatesSeeDeletes ==
    [][\A c, d \in Calls :
         /\ op[c] = "update" /\ answer[c] = None /\ answer'[c] = "ok"
         /\ answer[d] = "deleted" /\ Name(d) = Name(c)
         => Created(Name(c)) \cup Unclear(Name(c), Makers) # {}]_vars

\* When the script reports success, all its namespaces are there, those it
\* found, those it made and those another run made meanwhile, save what
\* somebody deleted.
SeedsAreThere ==
    \A c \in Calls, i \in 1 .. Len(SeedOrder) :
        op[c] = "seed" /\ answer[c] = "ok" =>
            \/ SeedOrder[i] \in Rows
            \/ Deleted(SeedOrder[i]) \cup Unclear(SeedOrder[i], {"delete"}) # {}

\* `disabled` is the difference of two counts taken at different times.  It
\* is off, and may even be negative, but by no more than the changes of the
\* table since the first of them.
StatsErrorIsBounded ==
    \A c \in Calls :
        LET error == Disabled(c) - Cardinality(Rows \ EnabledRows)
        IN  op[c] = "stats" /\ answer[c] = "ok" =>
                error <= missed[c] /\ -error <= missed[c]

\* EXPECTED TO FAIL.  'should not create namespace if already exists'
\* (namespace.service.spec.ts:86): every create that succeeds makes a row
\* of its own, so no more of them succeed than there are rows that are still
\* there, were deleted, or may have been by a delete that failed.
CreatesMakeRows ==
    \A n \in Names :
        Cardinality({c \in Created(n) : op[c] = "create"})
            <= Ended(n) + Cardinality(Unclear(n, {"delete"}))
=============================================================================
