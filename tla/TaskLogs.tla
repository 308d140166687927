----------------------------- MODULE TaskLogs -----------------------------
(***************************************************************************)
(* The log lines of a task (pkg/logger/task_log_hook.go,                   *)
(* internal/store/task_log.go, task_log_cleanup.go,                        *)
(* internal/api/handler/task_log.go): a hook in the logger copies every    *)
(* line that names a review or a report into a buffer; full or old buffers *)
(* are written to a database of their own, each by a goroutine nobody      *)
(* waits for; clients page through them; old ones are deleted.             *)
(*                                                                         *)
(* The n-th line that is logged is the number n, which is also its         *)
(* created_at.                                                             *)
(***************************************************************************)
EXTENDS Naturals, Sequences, FiniteSets, SequencesExt, FiniteSetsExt

CONSTANTS
    Lines,          \* bound: how many lines are logged
    TaskOf,         \* per line: the first review or report it names, or NoTask
    NoTask,
    bufferSize,     \* lines that fill the buffer (100)
    DefaultSize,    \* page size when none or a bad one is asked for (50)
    MaxSize,        \* the largest page (500)
    Retention       \* age from which lines are deleted (30 days)

VARIABLES
    clock,      \* the lines logged so far
    buffer,     \* the hook's buffer
    batches,    \* the batches handed to goroutines and not yet written
    stored,     \* the rows of task_logs.db
    lost,       \* lines whose batch could not be written
    deleted,    \* lines deleted by the clean-up
    hook,       \* "open", "closing" after Close has been called, "closed" after it
    closedAt,   \* history: the lines logged before Close was called
    db,         \* "open" or "closed"
    pages,      \* what a client has read: the lines of its pages so far
    nextPage,   \* the page it asks for next, 0 when it is done
    steady      \* history: every page it read was full, or the last, and had no
                \* older line still to be written or already deleted

readVars == <<pages, nextPage, steady>>
vars == <<clock, buffer, batches, stored, lost, deleted, hook, closedAt, db, readVars>>

Line == 1..Lines
Captured == {n \in 1..clock : TaskOf[n] # NoTask}

TypeOK ==
    /\ clock \in 0..Lines
    /\ buffer \in Seq(Line) /\ Len(buffer) < bufferSize
    /\ batches \subseteq SUBSET Line
    /\ stored \subseteq Line /\ lost \subseteq Line /\ deleted \subseteq Line
    /\ hook \in {"open", "closing", "closed"}
    /\ closedAt \in 0..Lines
    /\ db \in {"open", "closed"}
    /\ pages \in Seq(Line)
    /\ nextPage \in 0..(Lines + 1)
    /\ steady \in BOOLEAN

Init ==
    /\ clock = 0
    /\ buffer = <<>>
    /\ batches = {}
    /\ stored = {} /\ lost = {} /\ deleted = {}
    /\ hook = "open" /\ closedAt = Lines
    /\ db = "open"
    /\ pages = <<>> /\ nextPage = 1 /\ steady = TRUE

-----------------------------------------------------------------------------
\* Mutant: the buffer is handed over and kept.
flushLockedKeeping(b) ==
    /\ buffer' = IF Len(b) >= bufferSize THEN <<>> ELSE b
    /\ batches' = IF b = <<>> THEN batches ELSE batches \cup {ToSet(b)}

\* flushLocked with the buffer b: a goroutine gets it, a new one is begun.
flushLocked(b) ==
    /\ buffer' = <<>>
    /\ batches' = IF b = <<>> THEN batches ELSE batches \cup {ToSet(b)}

\* Write of the wrapped core, and addToBuffer.  The core stays wrapped after
\* the hook has been closed.
Log ==
    /\ clock < Lines
    /\ clock' = clock + 1
    /\ LET b == Append(buffer, clock') IN
       IF TaskOf[clock'] = NoTask THEN UNCHANGED <<buffer, batches>>
       ELSE IF Len(b) >= bufferSize THEN flushLocked(b)
       ELSE buffer' = b /\ UNCHANGED batches
    /\ UNCHANGED <<stored, lost, deleted, hook, closedAt, db, readVars>>

\* The ticker of backgroundFlush.
Tick ==
    /\ hook = "open" /\ buffer # <<>>
    /\ flushLocked(buffer)
    /\ UNCHANGED <<clock, stored, lost, deleted, hook, closedAt, db, readVars>>

\* BatchCreate: one INSERT for the whole batch; a closed database refuses it.
WriteBatch(b) ==
    /\ b \in batches
    /\ batches' = batches \ {b}
    /\ IF db = "open"
       THEN stored' = stored \cup b /\ UNCHANGED lost
       ELSE lost' = lost \cup b /\ UNCHANGED stored
    /\ UNCHANGED <<clock, buffer, deleted, hook, closedAt, db, readVars>>

WriteSome == \E b \in batches : WriteBatch(b)

\* Close: the flushing goroutine is told to stop ...
CloseHook ==
    /\ hook = "open"
    /\ hook' = "closing"
    /\ closedAt' = clock
    /\ UNCHANGED <<clock, buffer, batches, stored, lost, deleted, db, readVars>>

\* ... flushes once more and returns, which Close waits for.
LastFlush ==
    /\ hook = "closing"
    /\ hook' = "closed"
    /\ flushLocked(buffer)
    /\ UNCHANGED <<clock, stored, lost, deleted, closedAt, db, readVars>>

\* The deferred CloseTaskLogDB comes after CloseTaskLogHook.
CloseTaskLogDB ==
    /\ hook = "closed" /\ db = "open"
    /\ db' = "closed"
    /\ UNCHANGED <<clock, buffer, batches, stored, lost, deleted, hook, closedAt, readVars>>

\* The last deferred call of runServe: Sync flushes the hook it still wraps.
SyncLogger ==
    /\ db = "closed" /\ buffer # <<>>
    /\ flushLocked(buffer)
    /\ UNCHANGED <<clock, stored, lost, deleted, hook, closedAt, db, readVars>>

-----------------------------------------------------------------------------
\* DeleteOlderThan, at the start of the service and once a day.
Cleanup ==
    LET old == {n \in stored : n + Retention < clock} IN
    /\ db = "open" /\ old # {}
    /\ stored' = stored \ old
    /\ deleted' = deleted \cup old
    /\ UNCHANGED <<clock, buffer, batches, lost, hook, closedAt, db, readVars>>

\* The rows of a task, ORDER BY created_at: before the i-th come i - 1 others.
InOrder(S) == [i \in 1..Cardinality(S) |-> CHOOSE n \in S : Cardinality({m \in S : m < n}) = i - 1]
RowsOf(t) == InOrder({n \in stored : TaskOf[n] = t})

PageNumber(p) == IF p < 1 THEN 1 ELSE p
PageSize(s) == IF s < 1 \/ s > MaxSize THEN DefaultSize ELSE s

\* COUNT, OFFSET and LIMIT of GetByTaskIDWithPagination.
Page(rows, p, s) == SubSeq(rows, (p - 1) * s + 1, Min({Len(rows), p * s}))

\* A client reads the lines of task t page by page, until an empty one.
ReadPage(t, s) ==
    LET rows == RowsOf(t)
        page == Page(rows, PageNumber(nextPage), PageSize(s))
    IN
    /\ nextPage > 0
    /\ db = "open"
    /\ pages' = pages \o page
    /\ nextPage' = IF page = <<>> THEN 0 ELSE nextPage + 1
    /\ steady' = /\ steady
                 /\ deleted = {}
                 /\ page = <<>> \/ Len(page) = PageSize(s)
                 /\ \A m \in Captured, n \in ToSet(rows) : m < n => m \in stored
    /\ UNCHANGED <<clock, buffer, batches, stored, lost, deleted, hook, closedAt, db>>

CONSTANTS
    ReadTask,   \* the task whose lines the client reads
    AskedSize   \* the page size it asks for

Next ==
    \/ Log \/ Tick \/ CloseHook \/ LastFlush \/ CloseTaskLogDB \/ SyncLogger \/ Cleanup
    \/ WriteSome
    \/ ReadPage(ReadTask, AskedSize)

Spec == Init /\ [][Next]_vars

\* The ticker ticks, the flushing goroutine is scheduled, writes come to an end.
Fairness ==
    /\ WF_vars(Tick)
    /\ WF_vars(LastFlush)
    /\ WF_vars(WriteSome)

FairSpec == Spec /\ Fairness

-----------------------------------------------------------------------------
\* Every captured line is in exactly one place: waiting in the buffer or in
\* one batch, stored, lost or deleted.  None is written twice and none
\* disappears between the buffer and the goroutines.
EachLineOnce ==
    LET places == <<ToSet(buffer), UNION batches, stored, lost, deleted>> IN
    /\ Captured = UNION ToSet(places)
    /\ \A i, j \in DOMAIN places : i # j => places[i] \cap places[j] = {}
    /\ IsInjective(buffer)
    /\ \A a, b \in batches : a # b => a \cap b = {}

\* Lines that were captured before Close was called reach the database or are
\* lost with it: again and again none of them is still on its way.
LinesLeaveTheBuffer ==
    []<>(\A n \in Captured : n <= closedAt => n \in (stored \cup lost \cup deleted))

\* Batches are written by goroutines that may overtake each other, and OFFSET
\* counts rows: a client that pages through a task while older lines arrive
\* misses some or sees some twice.  A client whose pages were full and not
\* overtaken has read exactly the first lines of the task.
PagesInOrder ==
    (steady /\ deleted = {}) =>
        pages = SubSeq(RowsOf(ReadTask), 1, Len(pages))
=============================================================================
