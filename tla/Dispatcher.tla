---------------------------- MODULE Dispatcher ----------------------------
(***************************************************************************)
(* The dispatcher of the review engine (internal/engine/dispatcher.go):    *)
(* one dispatch loop that moves tasks from the repository queue into a     *)
(* bounded Go channel, and a pool of workers that receive from it.  What a *)
(* worker does with a task (processFunc) is left to the module that        *)
(* extends this one; stopping the dispatcher is left out here.             *)
(***************************************************************************)
EXTENDS RepoTaskQueue

CONSTANTS
    Workers,    \* the worker goroutines (maxWorkers)
    QueueSize   \* capacity of the task channel (ten per worker in the code)

ASSUME QueueSizeAssumption == QueueSize \in Nat \ {0}

VARIABLES
    dpc,        \* where the dispatch loop is ("gone": it has ended, see EngineShutdown)
    dtask,      \* the task it has taken from the queue and not yet sent
    taskQueue,  \* contents of the task channel
    wtask       \* per worker: the task it has received and not yet completed

dispatchVars == <<dpc, dtask, taskQueue, wtask>>

DispatchTypeOK ==
    /\ dpc \in {"wait", "dequeue", "send", "gone"}
    /\ dtask \in IF dpc = "send" THEN Reviews ELSE {NoTask}
    /\ taskQueue \in Seq(Reviews)
    /\ Len(taskQueue) <= QueueSize
    /\ wtask \in [Workers -> Reviews \cup {NoTask}]

DispatchInit ==
    /\ dpc = "wait"
    /\ dtask = NoTask
    /\ taskQueue = <<>>
    /\ wtask = [w \in Workers |-> NoTask]

\* The dispatcher of a process that has just been restarted.
DispatchReset ==
    /\ dpc' = "wait"
    /\ dtask' = NoTask
    /\ taskQueue' = <<>>
    /\ wtask' = [w \in Workers |-> NoTask]

-----------------------------------------------------------------------------
\* dispatchLoop receives a wake-up token and enters tryDispatch.
AwaitSignal ==
    /\ dpc = "wait"
    /\ TakeSignal
    /\ dpc' = "dequeue"
    /\ UNCHANGED <<dtask, taskQueue, wtask>>

\* tryDispatch takes the next task ...
DequeueTask ==
    /\ dpc = "dequeue"
    /\ \E t \in Reviews : Dequeue(t) /\ dtask' = t
    /\ dpc' = "send"
    /\ UNCHANGED <<taskQueue, wtask>>

\* ... or returns to the loop when there is none ...
QueueDrained ==
    /\ dpc = "dequeue"
    /\ NothingToDequeue
    /\ dpc' = "wait"
    /\ UNCHANGED <<dtask, taskQueue, wtask, queueVars>>

\* ... and blocks while the channel is full.
SendTask ==
    /\ dpc = "send"
    /\ Len(taskQueue) < QueueSize
    /\ taskQueue' = Append(taskQueue, dtask)
    /\ dtask' = NoTask
    /\ dpc' = "dequeue"
    /\ UNCHANGED <<wtask, queueVars>>

\* An idle worker receives a task.
ReceiveTask(w) ==
    /\ wtask[w] = NoTask
    /\ taskQueue # <<>>
    /\ wtask' = [wtask EXCEPT ![w] = Head(taskQueue)]
    /\ taskQueue' = Tail(taskQueue)
    /\ UNCHANGED <<dpc, dtask, queueVars>>

\* processFunc has returned: the worker completes the task in the queue.
CompleteTask(w) ==
    /\ wtask[w] # NoTask
    /\ MarkComplete(wtask[w])
    /\ wtask' = [wtask EXCEPT ![w] = NoTask]
    /\ UNCHANGED <<dpc, dtask, taskQueue>>

Dispatch == AwaitSignal \/ DequeueTask \/ QueueDrained \/ SendTask

-----------------------------------------------------------------------------
\* The tasks that have left the queue and whose processing has not ended.
InFlight == {t \in Reviews :
                \/ dtask = t
                \/ \E i \in 1..Len(taskQueue) : taskQueue[i] = t
                \/ \E w \in Workers : wtask[w] = t}

\* Tasks that wait in the list of their repository.
Waiting(t) ==
    /\ RepoOf[t] \in known
    /\ \E i \in 1..Len(tasks[RepoOf[t]]) : tasks[RepoOf[t]][i] = t

\* Tasks that recovery has left for Dequeue.
Recovered(t) == HoldsRecovered(RepoOf[t]) /\ currentTaskID[RepoOf[t]] = t
=============================================================================
