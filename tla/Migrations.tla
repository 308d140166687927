---------------------------- MODULE Migrations ----------------------------
(***************************************************************************)
(* What the server does to its database when it starts (internal/database):*)
(* three migrations by hand of tables that older versions have left, the   *)
(* automatic migration, and a repair of one setting.  A table is migrated  *)
(* by copying it in a transaction.  The process may die between any two    *)
(* statements; then it is started again.                                   *)
(***************************************************************************)
EXTENDS Naturals, FiniteSets

CONSTANTS
    Rows,           \* the rows a table may have
    Twins,          \* rows that agree in the columns of the unique index
    Left,           \* databases that older versions may have left
    MaxFaults,      \* bound: statements that fail
    MaxCrashes,     \* bound: crashes
    None

Summary == {"review_rules", "review_rule_runs"}
Unique == {"repository_review_configs", "reviews"}
Tables == Unique \cup Summary

\* The migrations in their order.
Order == <<"repository_review_configs", "reviews", "review_rules", "review_rule_runs">>

Absent == [state |-> "absent", lean |-> FALSE, pk |-> FALSE, index |-> FALSE, rows |-> {}]

VARIABLES
    tables,     \* per table: absent, old (with columns that are gone now) or current; lean: columns
                \* of later versions are missing; primary key; unique index; rows
    providers,  \* the setting git.providers: "array" or "other"
    pc,         \* the step of the start, "running" or "down"
    at,         \* the migration it is about
    tx,         \* the transaction: the table and its copy
    why,        \* history: why the last start failed, or None
    mishaps, crashes

vars == <<tables, providers, pc, at, tx, why, mishaps, crashes>>

Table == Order[at]
Steps == {"check", "create", "copy", "drop", "rename", "index", "commit", "structure", "auto", "data"}

TypeOK ==
    /\ \A t \in Tables : tables[t].rows \subseteq Rows /\ tables[t].state \in {"absent", "old", "current"}
    /\ providers \in {"array", "other"}
    /\ pc \in Steps \cup {"running", "down"} /\ at \in 1..5
    /\ why \in {None, "statement", "twins", "columns"}
    /\ mishaps \in 0..MaxFaults /\ crashes \in 0..MaxCrashes

Init ==
    /\ tables \in Left
    /\ providers \in {"array", "other"}
    /\ pc = "down" /\ at = 1 /\ tx = None /\ why = None
    /\ mishaps = 0 /\ crashes = 0

Same == UNCHANGED <<tables, providers, crashes>>

\* The next step; the next table, or the automatic migration; Init returns an
\* error, which ends the process and rolls a transaction back.
Then(step) == pc' = step /\ UNCHANGED <<at, why>>
NextTable == at' = at + 1 /\ pc' = (IF at < 4 THEN "check" ELSE "auto") /\ tx' = None /\ UNCHANGED why
Fail(reason) == pc' = "down" /\ at' = 1 /\ tx' = None /\ why' = reason

Mishap == mishaps < MaxFaults /\ mishaps' = mishaps + 1
Statement(step) == pc = step
Broken(step) == Statement(step) /\ Mishap /\ Fail("statement") /\ Same

\* initDB.
Start ==
    /\ pc = "down"
    /\ pc' = "check" /\ at' = 1 /\ tx' = None /\ why' = None
    /\ UNCHANGED <<tables, providers, mishaps, crashes>>

\* Does the table exist, and has it the columns that are gone?
Check ==
    /\ Statement("check")
    /\ LET t == tables[Table] IN
       \/ t.state = "old" /\ Then("create") /\ tx' = [table |-> t, copy |-> None]
       \/ t.state = "current" /\ Table \in Summary /\ Then("structure") /\ UNCHANGED tx
       \/ ~(t.state = "old" \/ (t.state = "current" /\ Table \in Summary)) /\ NextTable
    /\ Same /\ UNCHANGED mishaps

\* CREATE TABLE with all columns and the primary key; for the summaries from
\* a query, with the columns there are and without a key.
Create ==
    /\ Statement("create")
    /\ tx' = [tx EXCEPT !.copy = [Absent EXCEPT !.state = "current", !.pk = Table \in Unique,
                                               !.lean = Table \in Summary /\ tx.table.lean]]
    /\ Then("copy")
    /\ Same /\ UNCHANGED mishaps

\* The columns to be copied are listed, but for the summaries; if one is
\* missing the statement fails.
Copy ==
    /\ Statement("copy")
    /\ \/ Table \in Unique /\ tx.table.lean /\ Fail("columns")
       \/ /\ ~(Table \in Unique /\ tx.table.lean)
          /\ tx' = [tx EXCEPT !.copy.rows = tx.table.rows]
          /\ Then("drop")
    /\ Same /\ UNCHANGED mishaps

\* Mutant: the old table is dropped outside of the transaction.
DropNow ==
    /\ Statement("drop")
    /\ tables' = [tables EXCEPT ![Table] = Absent]
    /\ tx' = [tx EXCEPT !.table = Absent]
    /\ Then("rename")
    /\ UNCHANGED <<providers, mishaps, crashes>>

Drop ==
    /\ Statement("drop")
    /\ tx' = [tx EXCEPT !.table = Absent]
    /\ Then("rename")
    /\ Same /\ UNCHANGED mishaps

Rename ==
    /\ Statement("rename")
    /\ tx' = [tx EXCEPT !.table = tx.copy, !.copy = None]
    /\ Then("index")
    /\ Same /\ UNCHANGED mishaps

\* The unique index.  For reviews and the summaries an index that cannot be
\* created is only logged.
CreateIndex ==
    /\ Statement("index")
    /\ LET twins == Twins \subseteq tx.table.rows
           indexed == [tx EXCEPT !.table.index = Table \in Unique]
       IN \/ ~(twins /\ Table \in Unique) /\ tx' = indexed /\ Then("commit") /\ UNCHANGED mishaps
          \/ twins /\ Table = "reviews" /\ Then("commit") /\ UNCHANGED <<tx, mishaps>>
          \/ twins /\ Table \notin Summary \cup {"reviews"} /\ Fail("twins") /\ UNCHANGED mishaps
          \/ Table \in Summary \cup {"reviews"} /\ Mishap /\ Then("commit") /\ UNCHANGED tx
    /\ Same

Commit ==
    /\ Statement("commit")
    /\ tables' = [tables EXCEPT ![Table] = tx.table]
    /\ IF Table \in Summary THEN Then("structure") /\ tx' = None ELSE NextTable
    /\ UNCHANGED <<providers, mishaps, crashes>>

\* checkTableStructure: a table without a primary key is dropped, with its
\* rows.  A check that fails is only logged, a DROP that fails ends the start.
CheckStructure ==
    /\ Statement("structure")
    /\ \/ /\ tables' = IF tables[Table].pk THEN tables ELSE [tables EXCEPT ![Table] = Absent]
          /\ NextTable /\ UNCHANGED mishaps
       \/ Mishap /\ NextTable /\ UNCHANGED tables
       \/ ~tables[Table].pk /\ Mishap /\ Fail("statement") /\ UNCHANGED tables
    /\ UNCHANGED <<providers, crashes>>

-----------------------------------------------------------------------------
\* external: AutoMigrate creates what is missing, tables, columns and indexes,
\* a table at a time, but no primary key.
Migrated(t) ==
    IF t.state = "absent" THEN [t EXCEPT !.state = "current", !.pk = TRUE]
    ELSE [t EXCEPT !.lean = FALSE]
Done(t) == tables[t].state # "absent" /\ ~tables[t].lean /\ (t \in Unique => tables[t].index)
AutoMigrate ==
    /\ Statement("auto")
    /\ \/ \E t \in Tables :
            /\ ~Done(t)
            /\ \/ /\ t \in Unique /\ ~tables[t].index /\ Twins \subseteq tables[t].rows
                  /\ Fail("twins") /\ UNCHANGED tables
               \/ /\ ~(t \in Unique /\ ~tables[t].index /\ Twins \subseteq tables[t].rows)
                  /\ tables' = [tables EXCEPT ![t] = [Migrated(tables[t]) EXCEPT !.index = t \in Unique]]
                  /\ UNCHANGED <<pc, at, tx, why>>
       \/ (\A t \in Tables : Done(t)) /\ Then("data") /\ UNCHANGED <<tables, tx>>
    /\ UNCHANGED <<providers, mishaps, crashes>>

\* fixGitProvidersData: what is not an array becomes an empty one; an error is
\* only logged.
FixGitProvidersData ==
    /\ Statement("data")
    /\ Then("running")
    /\ \/ providers' = "array" /\ UNCHANGED mishaps
       \/ Mishap /\ UNCHANGED providers
    /\ UNCHANGED <<tables, tx, crashes>>

\* The server creates a row.
Insert ==
    /\ pc = "running"
    /\ \E t \in Tables, r \in Rows :
          /\ r \notin tables[t].rows
          /\ ~(tables[t].index /\ Twins \subseteq tables[t].rows \cup {r})
          /\ tables' = [tables EXCEPT ![t].rows = @ \cup {r}]
    /\ UNCHANGED <<providers, pc, at, tx, why, mishaps, crashes>>

Crash ==
    /\ pc # "down" /\ crashes < MaxCrashes /\ crashes' = crashes + 1
    /\ pc' = "down" /\ at' = 1 /\ tx' = None /\ why' = None
    /\ UNCHANGED <<tables, providers, mishaps>>

migrate ==
    \/ Check \/ Create \/ Copy \/ Drop \/ Rename \/ CreateIndex \/ Commit \/ CheckStructure
    \/ AutoMigrate \/ FixGitProvidersData
    \/ \E step \in {"check", "create", "copy", "drop", "rename", "commit", "auto"} : Broken(step)
    \/ at = 1 /\ Broken("index")

Next == Start \/ migrate \/ Insert \/ Crash

Spec == Init /\ [][Next]_vars

-----------------------------------------------------------------------------
\* No migration, wherever it is interrupted and how often it is repeated,
\* loses a review or the configuration of a repository.
RowsKept == [][\A t \in Unique : tables[t].rows \subseteq tables'[t].rows]_vars

\* The same for rules and their runs: the copy never has a primary key.
RulesKept == [][\A t \in Summary : tables[t].rows \subseteq tables'[t].rows]_vars

\* A server that runs has tables with all columns, their keys and the unique
\* indexes the handlers rely on, as long as no check failed on the way.
RunsMigrated ==
    (pc = "running" /\ mishaps = 0) =>
        \A t \in Tables : /\ tables[t].state = "current" /\ tables[t].pk
                          /\ Done(t)

\* A start that fails has a reason: a statement that matters, reviews or
\* configurations that violate the index, or columns missing from a table
\* that is too old to be copied.
FailsForAReason == (pc = "down" /\ mishaps > 0 /\ crashes = 0 /\ at = 1) => why # None
=============================================================================
