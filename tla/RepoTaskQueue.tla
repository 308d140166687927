--------------------------- MODULE RepoTaskQueue ---------------------------
(***************************************************************************)
(* The in-memory task queue of the review engine                           *)
(* (internal/engine/queue.go): one FIFO list per repository, an index of   *)
(* the queued review ids, and a bounded channel of wake-up tokens for the  *)
(* dispatcher.  Every operation runs under the queue's mutex, so each is   *)
(* one atomic step; the modules that extend this one decide who calls what *)
(* and when.                                                               *)
(*                                                                         *)
(* A task is identified by the id of its review: the code keeps no other   *)
(* task id.  A repository absent from the code's map `queues' is one       *)
(* outside `known'; its fields then have the values a new entry starts     *)
(* with, which is what the code would create for it.                       *)
(***************************************************************************)
EXTENDS Naturals, Sequences, FiniteSets

CONSTANTS
    Reviews,    \* review ids
    Repos,      \* repository URLs
    RepoOf,     \* the repository a review belongs to (Review.RepoURL)
    NoTask,     \* the empty currentTaskID
    SignalCap   \* capacity of the taskReady channel (100 in the code)

ASSUME RepoOfAssumption == RepoOf \in [Reviews -> Repos]
ASSUME NoTaskAssumption == NoTask \notin Reviews
ASSUME SignalCapAssumption == SignalCap \in Nat \ {0}

VARIABLES
    known,          \* repositories with an entry in the map
    tasks,          \* per repository: the FIFO list of waiting tasks
    running,        \* per repository: does it count as having a running task
    currentTaskID,  \* per repository: the task it counts as running
    dequeued,       \* per repository: was its recovered task handed out
    tasksByID,      \* ids of the tasks the queue knows as waiting
    taskReady       \* number of tokens in the wake-up channel

queueVars == <<known, tasks, running, currentTaskID, dequeued, tasksByID, taskReady>>

QueueTypeOK ==
    /\ known \subseteq Repos
    /\ tasks \in [Repos -> Seq(Reviews)]
    /\ running \in [Repos -> BOOLEAN]
    /\ currentTaskID \in [Repos -> Reviews \cup {NoTask}]
    /\ dequeued \in [Repos -> BOOLEAN]
    /\ tasksByID \subseteq Reviews
    /\ taskReady \in 0..SignalCap

\* NewRepoTaskQueue: an empty map, an empty index, an empty channel.
QueueInit ==
    /\ known = {}
    /\ tasks = [r \in Repos |-> <<>>]
    /\ running = [r \in Repos |-> FALSE]
    /\ currentTaskID = [r \in Repos |-> NoTask]
    /\ dequeued = [r \in Repos |-> FALSE]
    /\ tasksByID = {}
    /\ taskReady = 0

\* The queue of a process that has just been restarted.
QueueReset ==
    /\ known' = {}
    /\ tasks' = [r \in Repos |-> <<>>]
    /\ running' = [r \in Repos |-> FALSE]
    /\ currentTaskID' = [r \in Repos |-> NoTask]
    /\ dequeued' = [r \in Repos |-> FALSE]
    /\ tasksByID' = {}
    /\ taskReady' = 0

-----------------------------------------------------------------------------
\* Mutant: the capacity of the channel is not looked at.
signalTaskReadyUnbounded ==
    taskReady' = taskReady + 1

\* A non-blocking send: a full channel drops the token.
signalTaskReady ==
    taskReady' = IF taskReady < SignalCap THEN taskReady + 1 ELSE taskReady

\* The dispatch loop takes a token.
TakeSignal ==
    /\ taskReady > 0
    /\ taskReady' = taskReady - 1
    /\ UNCHANGED <<known, tasks, running, currentTaskID, dequeued, tasksByID>>

\* Is the task waiting, or counted as its repository's running one?
HasTask(t) ==
    \/ t \in tasksByID
    \/ \E r \in known : currentTaskID[r] = t

\* Enqueue and EnqueueAsRunning turn away a task whose id is in the index
\* (they return false).
AlreadyQueued(t) ==
    /\ t \in tasksByID
    /\ UNCHANGED queueVars

\* Mutant: the task is put at the front of the list.
AppendTaskAtFront(t) ==
    /\ t \notin tasksByID
    /\ known' = known \cup {RepoOf[t]}
    /\ tasks' = [tasks EXCEPT ![RepoOf[t]] = <<t>> \o @]
    /\ tasksByID' = tasksByID \cup {t}
    /\ signalTaskReady
    /\ UNCHANGED <<running, currentTaskID, dequeued>>

AppendTask(t) ==
    /\ t \notin tasksByID
    /\ known' = known \cup {RepoOf[t]}
    /\ tasks' = [tasks EXCEPT ![RepoOf[t]] = Append(@, t)]
    /\ tasksByID' = tasksByID \cup {t}
    /\ signalTaskReady
    /\ UNCHANGED <<running, currentTaskID, dequeued>>

Enqueue(t) == AlreadyQueued(t) \/ AppendTask(t)

\* Recovery of a review found running in the database: the repository counts
\* as busy with it, whatever it was busy with before, and the task is only in
\* the index, not in the list.
InstallRunning(t) ==
    /\ t \notin tasksByID
    /\ known' = known \cup {RepoOf[t]}
    /\ running' = [running EXCEPT ![RepoOf[t]] = TRUE]
    /\ currentTaskID' = [currentTaskID EXCEPT ![RepoOf[t]] = t]
    /\ dequeued' = [dequeued EXCEPT ![RepoOf[t]] = FALSE]
    /\ tasksByID' = tasksByID \cup {t}
    /\ signalTaskReady
    /\ UNCHANGED tasks

EnqueueAsRunning(t) == AlreadyQueued(t) \/ InstallRunning(t)

\* A repository whose running task is still in the index: Dequeue takes it
\* for one that recovery has left to be handed out.
HoldsRecovered(r) ==
    /\ r \in known
    /\ running[r]
    /\ currentTaskID[r] # NoTask
    /\ ~dequeued[r]
    /\ currentTaskID[r] \in tasksByID

\* A repository with waiting tasks and no running one.
Dispatchable(r) ==
    /\ r \in known
    /\ ~running[r]
    /\ tasks[r] # <<>>

DequeueRecovered(r, t) ==
    /\ HoldsRecovered(r)
    /\ t = currentTaskID[r]
    /\ dequeued' = [dequeued EXCEPT ![r] = TRUE]
    /\ tasksByID' = tasksByID \ {t}
    /\ UNCHANGED <<known, tasks, running, currentTaskID, taskReady>>

\* Mutant: the repository is not marked as running.
DequeueFrontUnmarked(r, t) ==
    /\ \A s \in Repos : ~HoldsRecovered(s)
    /\ Dispatchable(r)
    /\ t = Head(tasks[r])
    /\ tasks' = [tasks EXCEPT ![r] = Tail(@)]
    /\ currentTaskID' = [currentTaskID EXCEPT ![r] = t]
    /\ tasksByID' = tasksByID \ {t}
    /\ UNCHANGED <<known, running, dequeued, taskReady>>

DequeueFront(r, t) ==
    /\ \A s \in Repos : ~HoldsRecovered(s)
    /\ Dispatchable(r)
    /\ t = Head(tasks[r])
    /\ tasks' = [tasks EXCEPT ![r] = Tail(@)]
    /\ running' = [running EXCEPT ![r] = TRUE]
    /\ currentTaskID' = [currentTaskID EXCEPT ![r] = t]
    /\ tasksByID' = tasksByID \ {t}
    /\ UNCHANGED <<known, dequeued, taskReady>>

\* Dequeue returning task t.  Which repository is served is the iteration
\* order of a Go map, so any; but every recovered task goes first.
Dequeue(t) == \E r \in Repos : DequeueRecovered(r, t) \/ DequeueFront(r, t)

\* Dequeue returning nil.
NothingToDequeue == \A r \in Repos : ~HoldsRecovered(r) /\ ~Dispatchable(r)

\* Mutant: the dispatcher is not woken.
MarkCompleteSilent(t) ==
    LET r == RepoOf[t] IN
    /\ tasksByID' = tasksByID \ {t}
    /\ IF r \in known
       THEN /\ running' = [running EXCEPT ![r] = FALSE]
            /\ currentTaskID' = [currentTaskID EXCEPT ![r] = NoTask]
            /\ dequeued' = [dequeued EXCEPT ![r] = FALSE]
            /\ known' = IF tasks[r] = <<>> THEN known \ {r} ELSE known
            /\ UNCHANGED taskReady
       ELSE UNCHANGED <<running, currentTaskID, dequeued, known, taskReady>>
    /\ UNCHANGED tasks

\* MarkComplete frees the repository of t, whichever task it counts as
\* running, drops its entry when no task waits, and wakes the dispatcher.
MarkComplete(t) ==
    LET r == RepoOf[t] IN
    /\ tasksByID' = tasksByID \ {t}
    /\ IF r \in known
       THEN /\ running' = [running EXCEPT ![r] = FALSE]
            /\ currentTaskID' = [currentTaskID EXCEPT ![r] = NoTask]
            /\ dequeued' = [dequeued EXCEPT ![r] = FALSE]
            /\ known' = IF tasks[r] = <<>> THEN known \ {r} ELSE known
            /\ signalTaskReady
       ELSE UNCHANGED <<running, currentTaskID, dequeued, known, taskReady>>
    /\ UNCHANGED tasks
=============================================================================
