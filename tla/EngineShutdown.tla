-------------------------- MODULE EngineShutdown --------------------------
(***************************************************************************)
(* Stopping the server: runServe (cmd/verustcode/main.go) waits for a      *)
(* signal, drains the HTTP server, and its deferred calls stop the review  *)
(* engine and close the database.  Engine.Stop stops the dispatcher, then  *)
(* the queue.  Everything else keeps running meanwhile: the dispatch loop, *)
(* the workers, requests that outlive the drain, and the goroutines that   *)
(* retry single rules, for which nobody waits.                             *)
(*                                                                         *)
(* A task's own context is the engine's, cancelled only after the workers  *)
(* have ended, so a task that has been started runs to its end.            *)
(***************************************************************************)
EXTENDS Dispatcher

VARIABLES
    stop,       \* how far the stop has come
    exited,     \* the workers that have returned
    row,        \* per review: its status in the database
    handlers,   \* reviews whose handler has written the row and not yet queued it
    detached,   \* reviews that the goroutine of a rule retry works on
    dead        \* "no", or what ended the process early: "panic", "forced"

stopVars == <<stop, exited, row, handlers, detached, dead>>
vars == <<queueVars, dispatchVars, stopVars>>

\* The order of the stop: a signal, the HTTP server drained, the context of
\* the dispatcher cancelled, its task channel closed, the workers joined, the
\* wake-up channel closed, the database closed.
Stages == <<"serving", "signalled", "drained", "cancelled", "closed", "joined",
            "stopped", "ended">>
StageNo(s) == CHOOSE i \in DOMAIN Stages : Stages[i] = s
Past(s) == StageNo(stop) >= StageNo(s)

TypeOK ==
    /\ QueueTypeOK
    /\ DispatchTypeOK
    /\ stop \in {Stages[i] : i \in DOMAIN Stages}
    /\ exited \subseteq Workers
    /\ row \in [Reviews -> {"none", "pending", "running", "settled"}]
    /\ handlers \subseteq Reviews
    /\ detached \subseteq Reviews
    /\ dead \in {"no", "panic", "forced"}

Init ==
    /\ QueueInit
    /\ DispatchInit
    /\ stop = "serving"
    /\ exited = {}
    /\ row = [t \in Reviews |-> "none"]
    /\ handlers = {}
    /\ detached = {}
    /\ dead = "no"

-----------------------------------------------------------------------------
\* CreateReview has written the row of a new review; a request in flight may
\* outlive the drain, and does so until the database is closed ...
Accept(t) ==
    /\ stop # "ended"
    /\ row[t] = "none"
    /\ row' = [row EXCEPT ![t] = "pending"]
    /\ handlers' = handlers \cup {t}
    /\ UNCHANGED <<queueVars, dispatchVars, stop, exited, detached, dead>>

\* ... and queues it.  Once the wake-up channel is closed the send in
\* signalTaskReady panics, after the task was put into the list; the mutex is
\* released by its defer, and the panic ends the request, not the process.
QueueAccepted(t) ==
    /\ t \in handlers
    /\ handlers' = handlers \ {t}
    /\ IF Past("stopped")
       THEN /\ known' = known \cup {RepoOf[t]}
            /\ tasks' = [tasks EXCEPT ![RepoOf[t]] = Append(@, t)]
            /\ tasksByID' = tasksByID \cup {t}
            /\ UNCHANGED <<running, currentTaskID, dequeued, taskReady>>
       ELSE Enqueue(t)
    /\ UNCHANGED <<dispatchVars, stop, exited, row, detached, dead>>

\* RetryRule puts a settled review back to running and leaves the work to a
\* goroutine of its own ...
RetryRule(t) ==
    /\ stop # "ended"
    /\ row[t] = "settled" /\ t \notin detached
    /\ row' = [row EXCEPT ![t] = "running"]
    /\ detached' = detached \cup {t}
    /\ UNCHANGED <<queueVars, dispatchVars, stop, exited, handlers, dead>>

\* ... whose statements fail once the database is closed.
DetachedEnds(t) ==
    /\ t \in detached
    /\ detached' = IF stop = "ended" THEN detached ELSE detached \ {t}
    /\ row' = IF stop = "ended" THEN row ELSE [row EXCEPT ![t] = "settled"]
    /\ UNCHANGED <<queueVars, dispatchVars, stop, exited, handlers, dead>>

-----------------------------------------------------------------------------
\* The dispatch loop.  Every select of it also listens to the context; Go
\* chooses among the cases that are ready.  A closed wake-up channel is
\* always ready.
LoopWakes ==
    \/ AwaitSignal
    \/ /\ dpc = "wait" /\ Past("stopped")
       /\ dpc' = "dequeue"
       /\ UNCHANGED <<dtask, taskQueue, wtask, queueVars>>

LoopEnds ==
    /\ dpc = "wait" /\ Past("cancelled")
    /\ dpc' = "gone"
    /\ UNCHANGED <<dtask, taskQueue, wtask, queueVars>>

\* "Context cancelled, put task back": the task is dropped, and its
\* repository keeps counting it as running.
LoopDropsTask ==
    /\ dpc = "send" /\ Past("cancelled")
    /\ dpc' = "wait" /\ dtask' = NoTask
    /\ UNCHANGED <<taskQueue, wtask, queueVars>>

Loop ==
    /\ \/ LoopWakes \/ LoopEnds \/ LoopDropsTask
       \/ DequeueTask \/ QueueDrained
       \/ ~Past("closed") /\ SendTask
    /\ UNCHANGED stopVars

\* The other ready case of the same select: a send on the closed channel.
LoopPanics ==
    /\ dpc = "send" /\ Past("closed")
    /\ dead' = "panic"
    /\ UNCHANGED <<queueVars, dispatchVars, stop, exited, row, handlers, detached>>

-----------------------------------------------------------------------------
\* A worker between two tasks: it returns when it sees the cancellation, or
\* the closed channel empty, but may as well see another buffered task first.
WorkerReturns(w) ==
    /\ w \notin exited /\ wtask[w] = NoTask
    /\ Past("cancelled")
    /\ exited' = exited \cup {w}
    /\ UNCHANGED <<queueVars, dispatchVars, stop, row, handlers, detached, dead>>

WorkerReceives(w) ==
    /\ w \notin exited
    /\ ReceiveTask(w)
    /\ row' = [row EXCEPT ![Head(taskQueue)] = IF @ = "pending" THEN "running" ELSE @]
    /\ UNCHANGED <<stop, exited, handlers, detached, dead>>

\* processTask settles the review, then the worker completes the task.
WorkerSettles(w) ==
    /\ wtask[w] # NoTask
    /\ row[wtask[w]] = "running" /\ wtask[w] \notin detached
    /\ row' = [row EXCEPT ![wtask[w]] = "settled"]
    /\ UNCHANGED <<queueVars, dispatchVars, stop, exited, handlers, detached, dead>>

WorkerCompletes(w) ==
    /\ wtask[w] # NoTask
    /\ row[wtask[w]] = "settled" \/ wtask[w] \in detached
    /\ CompleteTask(w)
    /\ UNCHANGED stopVars

Worker(w) == WorkerReturns(w) \/ WorkerReceives(w) \/ WorkerSettles(w) \/ WorkerCompletes(w)

-----------------------------------------------------------------------------
\* WaitForShutdown: Shutdown waits for the requests in flight, but no longer
\* than its timeout.
Signal == stop = "serving" /\ stop' = "signalled"
Drain == stop = "signalled" /\ stop' = "drained"

\* Dispatcher.Stop, Engine.Stop and the deferred database.Close.
Cancel == stop = "drained" /\ stop' = "cancelled"
CloseTaskQueue == stop = "cancelled" /\ stop' = "closed"

\* Mutant: nobody waits for the workers.
JoinNobody == stop = "closed" /\ stop' = "joined"

JoinWorkers == stop = "closed" /\ exited = Workers /\ stop' = "joined"
StopQueue == stop = "joined" /\ stop' = "stopped"
CloseDatabase == stop = "stopped" /\ stop' = "ended"

Stopper ==
    /\ Signal \/ Drain \/ Cancel \/ CloseTaskQueue \/ JoinWorkers \/ StopQueue \/ CloseDatabase
    /\ UNCHANGED <<queueVars, dispatchVars, exited, row, handlers, detached, dead>>

\* A second signal exits at once.
ForcedExit ==
    /\ Past("signalled") /\ stop # "ended"
    /\ dead' = "forced"
    /\ UNCHANGED <<queueVars, dispatchVars, stop, exited, row, handlers, detached>>

Next ==
    /\ dead = "no"
    /\ \/ \E t \in Reviews : Accept(t) \/ QueueAccepted(t) \/ RetryRule(t) \/ DetachedEnds(t)
       \/ Loop
       \/ LoopPanics
       \/ \E w \in Workers : Worker(w)
       \/ Stopper
       \/ ForcedExit

Spec == Init /\ [][Next]_vars

\* The goroutines go on; a task's agents end or time out.
Alive(A) == dead = "no" /\ A
Fairness ==
    /\ WF_vars(Alive(Loop))
    /\ \A w \in Workers : WF_vars(Alive(Worker(w)))
    /\ WF_vars(Alive(Stopper))

FairSpec == Spec /\ Fairness

-----------------------------------------------------------------------------
\* The database is closed only after every task that was started has ended:
\* an orderly stop leaves no review running, unless a rule retry, for which
\* nobody waits, was at it.
NoneLeftRunning ==
    (stop = "ended" /\ dead = "no") =>
        \A t \in Reviews : row[t] = "running" => t \in detached

\* Two workers never run tasks of one repository, also while tasks are
\* dropped and completed in the middle of a stop.
SerialDuringStop ==
    \A v, w \in Workers :
        (v # w /\ wtask[v] # NoTask /\ wtask[w] # NoTask) => RepoOf[wtask[v]] # RepoOf[wtask[w]]

\* A stop leaves no review running, and until it is over no two workers are on
\* one repository.
StopIsOrderly == NoneLeftRunning /\ SerialDuringStop

\* A stop comes to its end, or the process dies before it.
StopEnds == (stop # "serving") ~> (stop = "ended" \/ dead # "no")

\* dispatcher.go:188: "Stop stops the dispatcher and waits for all workers to
\* finish": the process does not die while a worker is at a task, unless it is
\* forced to by a second signal.
StopWaitsForWorkers == dead = "panic" => \A w \in Workers : wtask[w] = NoTask
=============================================================================
