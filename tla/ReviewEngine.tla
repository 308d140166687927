--------------------------- MODULE ReviewEngine ---------------------------
(***************************************************************************)
(* The life of reviews in server mode: the HTTP handlers that create,      *)
(* cancel and retry reviews, Engine.Submit, Engine.processTask run by the  *)
(* dispatcher's workers, recovery at start-up, and the status column of    *)
(* the reviews table they all write.                                       *)
(*                                                                         *)
(* Each step is one database statement (or transaction) or one queue       *)
(* operation, which is the granularity at which the goroutines interleave. *)
(* A crash loses the memory (queue, channel, workers, requests) and keeps  *)
(* the database.                                                           *)
(*                                                                         *)
(* Running the rules of a review is one step here, with the outcomes the   *)
(* runner has; retrying a single rule is not part of this module.          *)
(***************************************************************************)
EXTENDS Dispatcher

CONSTANTS
    Slots,          \* requests that may work on one review at the same time
    MaxRetryCount,  \* Recovery.MaxRetryCount: reviews retried so often are not recovered
    RetryBound,     \* bound: manual retries of a review
    MaxCrashes,     \* bound: crashes of the server
    MaxFaults,      \* bound: failing database statements
    Unsettled       \* may a run end with rules it never executed

ASSUME BoundsAssumption ==
    /\ MaxRetryCount \in Nat \ {0}
    /\ RetryBound \in Nat
    /\ MaxCrashes \in Nat
    /\ MaxFaults \in Nat
    /\ Unsettled \in BOOLEAN

VARIABLES
    status,      \* reviews.status; "none" before the row exists
    retryCount,  \* reviews.retry_count
    created,     \* the rows in the order of created_at
    wpc,         \* per worker: where processTask is
    rpc,         \* per review and slot: where the request is
    rcount,      \* per review and slot: the retry count the request read
    phase,       \* where the server process is
    toRecover,   \* the rows RecoverToQueue has still to handle
    crashes, faults

dbVars == <<status, retryCount, created>>
reqVars == <<rpc, rcount>>
procVars == <<phase, toRecover, crashes, faults>>
vars == <<queueVars, dispatchVars, dbVars, wpc, reqVars, procVars>>

Statuses == {"none", "pending", "running", "completed", "failed", "cancelled"}
Open == {"pending", "running"}

TypeOK ==
    /\ QueueTypeOK
    /\ DispatchTypeOK
    /\ status \in [Reviews -> Statuses]
    /\ retryCount \in [Reviews -> 0..RetryBound]
    /\ created \in Seq(Reviews)
    /\ wpc \in [Workers -> {"idle", "check", "claim", "prepare", "mark",
                            "run", "fail", "error", "done"}]
    /\ rpc \in [Reviews -> [Slots -> {"idle", "created", "loaded", "checked", "reset"}]]
    /\ rcount \in [Reviews -> [Slots -> 0..RetryBound]]
    /\ phase \in {"down", "recovering", "serving"}
    /\ toRecover \subseteq [id : Reviews, status : Open]
    /\ crashes \in 0..MaxCrashes
    /\ faults \in 0..MaxFaults

\* A server about to start on an empty database.
Init ==
    /\ QueueInit
    /\ DispatchInit
    /\ status = [t \in Reviews |-> "none"]
    /\ retryCount = [t \in Reviews |-> 0]
    /\ created = <<>>
    /\ wpc = [w \in Workers |-> "idle"]
    /\ rpc = [t \in Reviews |-> [k \in Slots |-> "idle"]]
    /\ rcount = [t \in Reviews |-> [k \in Slots |-> 0]]
    /\ phase = "down"
    /\ toRecover = {}
    /\ crashes = 0
    /\ faults = 0

-----------------------------------------------------------------------------
(* Start-up, recovery, crash *)

\* A failing database statement, within the bound.
DbFault ==
    /\ faults < MaxFaults
    /\ faults' = faults + 1

\* Mutant: only the running reviews are listed.
OnlyRunning ==
    {[id |-> t, status |-> status[t]] : t \in {u \in Reviews : status[u] = "running"}}

\* ListPendingOrRunning: the open reviews, each with the status read.
PendingOrRunning ==
    {[id |-> t, status |-> status[t]] : t \in {u \in Reviews : status[u] \in Open}}

\* Its rows come in the order of created_at.
CreatedBefore(t, u) ==
    \E i, j \in 1..Len(created) : i < j /\ created[i] = t /\ created[j] = u

Oldest(row) == \A other \in toRecover : ~CreatedBefore(other.id, row.id)

\* Engine.Start: the dispatcher is started first, then recovery reads the
\* reviews to recover (none, when the query fails).
StartEngine ==
    /\ phase = "down"
    /\ phase' = "recovering"
    /\ \/ toRecover' = PendingOrRunning /\ UNCHANGED faults
       \/ DbFault /\ UNCHANGED toRecover
    /\ UNCHANGED <<queueVars, dispatchVars, dbVars, wpc, reqVars, crashes>>

\* shouldRecover: the retry count is at its limit.
TooManyRetries(t) == retryCount[t] >= MaxRetryCount

\* RecoverToQueue: the next review is put back into the queue ...
RecoverReview ==
    /\ phase = "recovering"
    /\ \E row \in toRecover :
        /\ Oldest(row)
        /\ ~TooManyRetries(row.id)
        /\ IF row.status = "running" THEN EnqueueAsRunning(row.id) ELSE Enqueue(row.id)
        /\ toRecover' = toRecover \ {row}
    /\ UNCHANGED <<dispatchVars, dbVars, wpc, reqVars, phase, crashes, faults>>

\* ... or marked failed: retried too often, or, whatever its retry count, when
\* it has been running for too long or no task can be built for it (its
\* provider is not configured any more).
GiveUpReview ==
    /\ phase = "recovering"
    /\ \E row \in toRecover :
        /\ Oldest(row)
        /\ status' = [status EXCEPT ![row.id] = "failed"]
        /\ toRecover' = toRecover \ {row}
    /\ UNCHANGED <<queueVars, dispatchVars, retryCount, created, wpc, reqVars,
                   phase, crashes, faults>>

\* SetupRoutes registers the callbacks of the engine and the HTTP server
\* starts: from here on requests arrive and onError is set.
Serve ==
    /\ phase = "recovering"
    /\ toRecover = {}
    /\ phase' = "serving"
    /\ UNCHANGED <<queueVars, dispatchVars, dbVars, wpc, reqVars, toRecover, crashes, faults>>

Crash ==
    /\ phase # "down"
    /\ crashes < MaxCrashes
    /\ crashes' = crashes + 1
    /\ phase' = "down"
    /\ QueueReset
    /\ DispatchReset
    /\ toRecover' = {}
    /\ wpc' = [w \in Workers |-> "idle"]
    /\ rpc' = [t \in Reviews |-> [k \in Slots |-> "idle"]]
    /\ rcount' = [t \in Reviews |-> [k \in Slots |-> 0]]
    /\ UNCHANGED <<dbVars, faults>>

-----------------------------------------------------------------------------
(* HTTP handlers *)

\* CreateReview, and the webhook handlers, insert the row ...
CreateReview(t, k) ==
    /\ phase = "serving"
    /\ status[t] = "none"
    /\ rpc[t][k] = "idle"
    /\ status' = [status EXCEPT ![t] = "pending"]
    /\ created' = Append(created, t)
    /\ rpc' = [rpc EXCEPT ![t][k] = "created"]
    /\ UNCHANGED <<queueVars, dispatchVars, retryCount, wpc, rcount, procVars>>

\* ... and call Submit, which ends by queueing the task (a duplicate counts
\* as success) ...
Submit(t, k) ==
    /\ rpc[t][k] = "created"
    /\ Enqueue(t)
    /\ rpc' = [rpc EXCEPT ![t][k] = "idle"]
    /\ UNCHANGED <<dispatchVars, dbVars, wpc, rcount, procVars>>

\* ... or fails before (no provider, no configuration, a database error),
\* and the handler marks the review failed.
SubmitFails(t, k) ==
    /\ rpc[t][k] = "created"
    /\ status' = [status EXCEPT ![t] = "failed"]
    /\ rpc' = [rpc EXCEPT ![t][k] = "idle"]
    /\ UNCHANGED <<queueVars, dispatchVars, retryCount, created, wpc, rcount, procVars>>

\* CancelReview is one conditional update; the queue is not told.
CancelReview(t) ==
    /\ phase = "serving"
    /\ status[t] \in Open
    /\ status' = [status EXCEPT ![t] = "cancelled"]
    /\ UNCHANGED <<queueVars, dispatchVars, retryCount, created, wpc, reqVars, procVars>>

\* Mutant: a completed review may be retried too.
RetryLoadSettled(t, k) ==
    /\ phase = "serving"
    /\ rpc[t][k] = "idle"
    /\ status[t] \in {"failed", "completed"}
    /\ retryCount[t] < RetryBound
    /\ rpc' = [rpc EXCEPT ![t][k] = "loaded"]
    /\ rcount' = [rcount EXCEPT ![t][k] = retryCount[t]]
    /\ UNCHANGED <<queueVars, dispatchVars, dbVars, wpc, procVars>>

\* Retry loads the review, which must have failed ...
RetryLoad(t, k) ==
    /\ phase = "serving"
    /\ rpc[t][k] = "idle"
    /\ status[t] = "failed"
    /\ retryCount[t] < RetryBound
    /\ rpc' = [rpc EXCEPT ![t][k] = "loaded"]
    /\ rcount' = [rcount EXCEPT ![t][k] = retryCount[t]]
    /\ UNCHANGED <<queueVars, dispatchVars, dbVars, wpc, procVars>>

\* Mutant: the queue is not asked.
RetryCheckNothing(t, k) ==
    /\ rpc[t][k] = "loaded"
    /\ rpc' = [rpc EXCEPT ![t][k] = "checked"]
    /\ UNCHANGED <<queueVars, dispatchVars, dbVars, wpc, rcount, procVars>>

\* ... looks it up in the queue ...
RetryCheck(t, k) ==
    /\ rpc[t][k] = "loaded"
    /\ rpc' = [rpc EXCEPT ![t][k] = IF HasTask(t) THEN "idle" ELSE "checked"]
    /\ UNCHANGED <<queueVars, dispatchVars, dbVars, wpc, rcount, procVars>>

\* ... resets the row with the count it read, whatever the row holds now ...
RetryReset(t, k) ==
    /\ rpc[t][k] = "checked"
    /\ status' = [status EXCEPT ![t] = "pending"]
    /\ retryCount' = [retryCount EXCEPT ![t] = rcount[t][k] + 1]
    /\ rpc' = [rpc EXCEPT ![t][k] = "reset"]
    /\ UNCHANGED <<queueVars, dispatchVars, created, wpc, rcount, procVars>>

\* ... and queues the task built from it ...
RetryEnqueue(t, k) ==
    /\ rpc[t][k] = "reset"
    /\ Enqueue(t)
    /\ rpc' = [rpc EXCEPT ![t][k] = "idle"]
    /\ UNCHANGED <<dispatchVars, dbVars, wpc, rcount, procVars>>

\* ... or marks the review failed again when no task can be built.
RetryBuildFails(t, k) ==
    /\ rpc[t][k] = "reset"
    /\ status' = [status EXCEPT ![t] = "failed"]
    /\ rpc' = [rpc EXCEPT ![t][k] = "idle"]
    /\ UNCHANGED <<queueVars, dispatchVars, retryCount, created, wpc, rcount, procVars>>

\* A retry whose transaction, or whose reload of the row, fails ends there.
RetryDbFault(t, k) ==
    /\ rpc[t][k] \in {"checked", "reset"}
    /\ DbFault
    /\ rpc' = [rpc EXCEPT ![t][k] = "idle"]
    /\ UNCHANGED <<queueVars, dispatchVars, dbVars, wpc, rcount, phase, toRecover, crashes>>

Request(t, k) ==
    \/ CreateReview(t, k) \/ Submit(t, k) \/ SubmitFails(t, k)
    \/ RetryLoad(t, k) \/ RetryCheck(t, k) \/ RetryReset(t, k)
    \/ RetryEnqueue(t, k) \/ RetryBuildFails(t, k) \/ RetryDbFault(t, k)

-----------------------------------------------------------------------------
(* processTask *)

\* A step of worker w that only moves its program counter.
Goto(w, pc) == wpc' = [wpc EXCEPT ![w] = pc]

SetStatus(w, s) == status' = [status EXCEPT ![wtask[w]] = s]

\* An update of the row whose failure the code ignores, or only logs.
TrySetStatus(w, s) ==
    \/ SetStatus(w, s) /\ UNCHANGED faults
    \/ DbFault /\ UNCHANGED status

\* What no step of processTask changes.
ProcessFrame ==
    UNCHANGED <<queueVars, dispatchVars, retryCount, created, reqVars, phase, toRecover, crashes>>

WorkerReceive(w) ==
    /\ wpc[w] = "idle"
    /\ ReceiveTask(w)
    /\ Goto(w, "check")
    /\ UNCHANGED <<dbVars, reqVars, procVars>>

\* The row must be pending or running, or the task is dropped.
CheckStatus(w) ==
    /\ wpc[w] = "check"
    /\ Goto(w, IF status[wtask[w]] \in Open THEN "claim" ELSE "done")
    /\ UNCHANGED <<status, faults>>
    /\ ProcessFrame

\* Mutant: the update is not conditional.
ClaimAnyway(w) ==
    /\ wpc[w] = "claim"
    /\ SetStatus(w, "running")
    /\ Goto(w, "prepare")
    /\ UNCHANGED faults
    /\ ProcessFrame

\* UpdateStatusToRunningIfPending: despite its name it also accepts a row
\* that is running already.
Claim(w) ==
    /\ wpc[w] = "claim"
    /\ IF status[wtask[w]] \in Open
       THEN SetStatus(w, "running") /\ Goto(w, "prepare")
       ELSE Goto(w, "done") /\ UNCHANGED status
    /\ UNCHANGED faults
    /\ ProcessFrame

\* Either database statement may fail, which drops the task.
ClaimDbFault(w) ==
    /\ wpc[w] \in {"check", "claim"}
    /\ DbFault
    /\ Goto(w, "done")
    /\ UNCHANGED status
    /\ ProcessFrame

\* Cloning the repository and loading its review configuration.
Prepare(w) ==
    /\ wpc[w] = "prepare"
    /\ \/ Goto(w, "mark")
       \/ Goto(w, "error")
    /\ UNCHANGED <<status, faults>>
    /\ ProcessFrame

\* The row is set to running again, without looking at it; a failing update
\* is only logged.
MarkRunning(w) ==
    /\ wpc[w] = "mark"
    /\ TrySetStatus(w, "running")
    /\ Goto(w, "run")
    /\ ProcessFrame

\* runReviewWithTracking without a failed rule: the runner has recorded the
\* review as completed, unless rules of the review were left unexecuted.
RunSucceeds(w) ==
    /\ wpc[w] = "run"
    /\ \/ TrySetStatus(w, "completed")
       \/ Unsettled /\ UNCHANGED <<status, faults>>
    /\ Goto(w, "done")
    /\ ProcessFrame

\* runReviewWithTracking with a failed rule: the runner has recorded the
\* review as failed, unless one of its rules was still running.
RunFails(w) ==
    /\ wpc[w] = "run"
    /\ SetStatus(w, "failed") \/ UNCHANGED status
    /\ UNCHANGED faults
    /\ Goto(w, "fail")
    /\ ProcessFrame

\* UpdateStatusWithErrorAndCompletedAt after a failed run.
RecordFailure(w) ==
    /\ wpc[w] = "fail"
    /\ TrySetStatus(w, "failed")
    /\ Goto(w, "error")
    /\ ProcessFrame

\* Mutant: the error is only logged.
HandleErrorLogging(w) ==
    /\ wpc[w] = "error"
    /\ Goto(w, "done")
    /\ UNCHANGED <<status, faults>>
    /\ ProcessFrame

\* handleError: onError marks the review failed, if it is set yet.
HandleError(w) ==
    /\ wpc[w] = "error"
    /\ IF phase = "serving" THEN TrySetStatus(w, "failed") ELSE UNCHANGED <<status, faults>>
    /\ Goto(w, "done")
    /\ ProcessFrame

WorkerDone(w) ==
    /\ wpc[w] = "done"
    /\ CompleteTask(w)
    /\ Goto(w, "idle")
    /\ UNCHANGED <<dbVars, reqVars, procVars>>

ProcessTask(w) ==
    \/ CheckStatus(w) \/ Claim(w) \/ ClaimDbFault(w) \/ Prepare(w) \/ MarkRunning(w)
    \/ RunSucceeds(w) \/ RunFails(w) \/ RecordFailure(w) \/ HandleError(w)

Worker(w) == WorkerReceive(w) \/ ProcessTask(w) \/ WorkerDone(w)

DispatchStep ==
    /\ Dispatch
    /\ UNCHANGED <<dbVars, wpc, reqVars, procVars>>

-----------------------------------------------------------------------------
Startup == StartEngine \/ RecoverReview \/ GiveUpReview \/ Serve

Next ==
    \/ Startup
    \/ Crash
    \/ \E t \in Reviews, k \in Slots : Request(t, k)
    \/ \E t \in Reviews : CancelReview(t)
    \/ DispatchStep
    \/ \E w \in Workers : Worker(w)

Spec == Init /\ [][Next]_vars

\* The steps with which a request goes on once it has begun.
Continue(t, k) ==
    \/ Submit(t, k) \/ SubmitFails(t, k)
    \/ RetryCheck(t, k) \/ RetryReset(t, k) \/ RetryEnqueue(t, k) \/ RetryBuildFails(t, k)

\* The goroutines of the server are scheduled; cloning and the agents end, by
\* success, error or time-out.  Nothing obliges a client to send a request.
Fairness ==
    /\ WF_vars(Startup)
    /\ WF_vars(DispatchStep)
    /\ \A w \in Workers : WF_vars(Worker(w))
    /\ \A t \in Reviews, k \in Slots : WF_vars(Continue(t, k))

FairSpec == Spec /\ Fairness

-----------------------------------------------------------------------------
(* Properties *)

\* What the queue and the dispatcher promise together (PerRepoFifo): the tasks
\* of a repository are processed one at a time, in the order they were queued.
Abs == INSTANCE PerRepoFifo WITH
         waiting <- tasks,
         active <- [r \in Repos |-> {t \in InFlight : RepoOf[t] = r}]

\* ARCHITECTURE.md "Tasks are queued per repository to ensure serialization":
\* every step of the engine is a step of PerRepoFifo or leaves it unchanged.
ServesInOrder == Abs!Spec

\* ... and no waiting task is left waiting, no started one left unfinished.
ServesAll == Abs!FairSpec

\* Repository-level serialization (queue.go:16, ARCHITECTURE.md "Prevents
\* concurrent reviews on the same repository"): two workers never hold tasks
\* of one repository at the same time.
RepoSerialized ==
    \A v, w \in Workers :
        v # w /\ wtask[v] # NoTask /\ wtask[w] # NoTask
            => RepoOf[wtask[v]] # RepoOf[wtask[w]]

\* No lost wake-up: the channel of tokens is bounded and its sends do not
\* block, yet whenever Dequeue would return a task, a token is there or the
\* dispatch loop is on its way to call Dequeue again.
NoLostWakeup ==
    NothingToDequeue \/ taskReady > 0 \/ dpc # "wait"

\* Somebody will still deal with review t: it waits in the queue, was taken
\* from it and not completed, is about to be queued by a request or by
\* recovery, or the server is down and recovery will find it.
Held(t) ==
    \/ Waiting(t)
    \/ Recovered(t)
    \/ t \in InFlight
    \/ \E k \in Slots : rpc[t][k] \in {"created", "reset"}
    \/ \E row \in toRecover : row.id = t
    \/ phase = "down"

\* A review that the database shows as pending is never forgotten, as long as no
\* database statement fails: somebody still holds it, whatever crashes,
\* cancellations and overlapping retries happened before.
PendingHeld == faults = 0 => \A t \in Reviews : status[t] = "pending" => Held(t)

\* Completed is final: no later write of a worker, a request or recovery
\* takes a review out of it.
CompletedIsFinal ==
    [][\A t \in Reviews : status[t] = "completed" => status'[t] = "completed"]_status

\* A cancelled review comes back to life only by the hand of a worker that had
\* claimed it before it was cancelled: one cancelled while it waits is not run
\* (the status check of processTask and UpdateStatusToRunningIfPending).
CancelledWhileWaitingStays ==
    [][\A t \in Reviews :
         status[t] = "cancelled" /\ status'[t] \in {"pending", "running", "completed"}
            => \E w \in Workers : wtask[w] = t /\ wpc[w] \in {"mark", "run"}]_status

\* API.md:316, "Cancel a pending or running review": what was cancelled is not
\* run or completed any more, wherever its task was when it was cancelled.
CancelledIsFinal ==
    [][\A t \in Reviews :
         status[t] = "cancelled" => status'[t] \notin {"running", "completed"}]_status

\* Every open review is settled in the end: it completes, fails or is
\* cancelled, unless a statement failed.
ReviewSettles ==
    \A t \in Reviews :
        status[t] \in Open ~> status[t] \in {"completed", "failed", "cancelled"} \/ faults > 0
=============================================================================
