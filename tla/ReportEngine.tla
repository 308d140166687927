---------------------------- MODULE ReportEngine ----------------------------
(***************************************************************************)
(* The report engine (internal/report/engine.go), its recovery             *)
(* (internal/report/recovery) and the handlers that create, cancel and     *)
(* retry reports (internal/api/handler/report.go).                         *)
(*                                                                         *)
(* A task is an object in memory with the columns of its row.  The engine  *)
(* saves the whole object, never asking what the row has become; the       *)
(* handlers work on rows and on objects of their own.  Every database      *)
(* statement that others can tell apart is a step, and none fails.         *)
(***************************************************************************)
EXTENDS Naturals, Sequences, FiniteSets

CONSTANTS
    Reports, Repos, Refs,
    RepoOf, RefOf,          \* what each report is about
    Workers, Clients,
    Leaves,                 \* leaf sections of a generated structure
    QueueCap,               \* capacity of taskQueue
    MaxRetryCount,          \* Recovery.MaxRetryCount
    AgentChoices,           \* does agents["cursor"] exist when the server starts
    NoTask, NoRef,
    Patient,                \* environment: nobody retries a report that still has a task
    RetryBound, MaxCrashes  \* bounds on the environment

ASSUME ReportAssumption ==
    /\ RepoOf \in [Reports -> Repos]
    /\ RefOf \in [Reports -> Refs]
    /\ NoRef \notin Refs
    /\ Leaves \in Nat \ {0}
    /\ QueueCap \in Nat \ {0}
    /\ MaxRetryCount \in Nat \ {0}
    /\ AgentChoices \subseteq BOOLEAN
    /\ NoTask \notin [report : Reports, retries : Nat, started : BOOLEAN]
ASSUME ReportBoundsAssumption ==
    /\ Patient \in BOOLEAN
    /\ RetryBound \in Nat
    /\ MaxCrashes \in Nat

VARIABLES
    row,        \* reports: status, retry_count, and whether started_at is set
    sections,   \* report_sections: per report, the status of its leaf rows by index
    created,    \* the reports in the order of created_at
    checkout,   \* per repository: the ref in its working directory
    queue,      \* taskQueue
    pc, task,   \* per worker: where it is, and the object it works on
    loaded,     \* per worker: the sections it read when phase 2 began
    pos,        \* per worker: the section it is at
    request,    \* per client: the step its request is at
    object,     \* per client: the object its request works on
    agent,      \* does agents["cursor"] exist
    recovering, \* the reports recovery has still to queue
    stopping,   \* has Stop cancelled the context and closed taskQueue
    retries, crashes

dbVars == <<row, sections, created>>
workerVars == <<pc, task, loaded, pos>>
clientVars == <<request, object>>
procVars == <<agent, recovering, stopping>>
boundVars == <<retries, crashes>>
vars == <<dbVars, checkout, queue, workerVars, clientVars, procVars, boundVars>>

Statuses == {"pending", "analyzing", "generating", "completed", "failed", "cancelled"}
Open == {"pending", "analyzing", "generating"}
SectionStatuses == {"pending", "running", "completed", "failed"}

Row == [status : Statuses \cup {"none"}, retries : Nat, started : BOOLEAN]
Task == [report : Reports, retries : Nat, started : BOOLEAN]

TypeOK ==
    /\ row \in [Reports -> Row]
    /\ \A r \in Reports : row[r].retries <= RetryBound
    /\ sections \in [Reports -> Seq(SectionStatuses)]
    /\ created \in Seq(Reports)
    /\ checkout \in [Repos -> Refs \cup {NoRef}]
    /\ queue \in Seq(Task) /\ Len(queue) <= QueueCap
    /\ pc \in [Workers -> {"idle", "start", "prepare", "structure", "structured",
                           "section", "generate", "merge", "complete", "error"}]
    /\ task \in [Workers -> Task \cup {NoTask}]
    /\ loaded \in [Workers -> Seq(SectionStatuses)]
    /\ pos \in [Workers -> Nat] /\ \A w \in Workers : pos[w] \in 1..Len(loaded[w])+1
    /\ request \in [Clients -> {"idle", "created", "loaded", "saved"}]
    /\ object \in [Clients -> Task \cup {NoTask}]
    /\ agent \in BOOLEAN
    /\ recovering \subseteq Reports
    /\ stopping \in BOOLEAN
    /\ retries \in 0..RetryBound
    /\ crashes \in 0..MaxCrashes

Init ==
    /\ row = [r \in Reports |-> [status |-> "none", retries |-> 0, started |-> FALSE]]
    /\ sections = [r \in Reports |-> <<>>]
    /\ created = <<>>
    /\ checkout = [p \in Repos |-> NoRef]
    /\ queue = <<>>
    /\ pc = [w \in Workers |-> "idle"]
    /\ task = [w \in Workers |-> NoTask]
    /\ loaded = [w \in Workers |-> <<>>]
    /\ pos = [w \in Workers |-> 1]
    /\ request = [c \in Clients |-> "idle"]
    /\ object = [c \in Clients |-> NoTask]
    /\ agent \in AgentChoices
    /\ recovering = {}
    /\ stopping = FALSE
    /\ retries = 0
    /\ crashes = 0

TaskOf(r) == [report |-> r, retries |-> row[r].retries, started |-> row[r].started]

\* The whole object goes into its row, with the given status.
Save(o, s) ==
    row' = [row EXCEPT ![o.report] = [status |-> s, retries |-> o.retries, started |-> o.started]]

\* UpdateStatusWithError and the like write the status alone.
SetStatus(r, s) == row' = [row EXCEPT ![r].status = s]

\* Submit and Enqueue never wait: a full channel is refused (a closed one
\* panics, see RequestPanics).
Full == Len(queue) >= QueueCap

\* Mutant: one more than the channel holds.
EnqueueOneMore(o) == ~stopping /\ Len(queue) <= QueueCap /\ queue' = Append(queue, o)

Enqueue(o) == ~stopping /\ ~Full /\ queue' = Append(queue, o)

-----------------------------------------------------------------------------
(* Workers *)

Goto(w, label) == pc' = [pc EXCEPT ![w] = label]
Drop(w) == Goto(w, "idle") /\ task' = [task EXCEPT ![w] = NoTask]

\* Mutant: the task stays in the channel.
PeekTask(w) ==
    /\ pc[w] = "idle"
    /\ ~stopping
    /\ queue # <<>>
    /\ task' = [task EXCEPT ![w] = Head(queue)]
    /\ Goto(w, "start")
    /\ UNCHANGED <<dbVars, checkout, queue, loaded, pos, clientVars, procVars, boundVars>>

\* A worker that finds the context cancelled ends instead.
ReceiveTask(w) ==
    /\ pc[w] = "idle"
    /\ ~stopping
    /\ queue # <<>>
    /\ task' = [task EXCEPT ![w] = Head(queue)]
    /\ queue' = Tail(queue)
    /\ Goto(w, "start")
    /\ UNCHANGED <<dbVars, checkout, loaded, pos, clientVars, procVars, boundVars>>

\* Run begins by saving the report as analyzing, whatever its row says.
StartReport(w) ==
    /\ pc[w] = "start"
    /\ task' = [task EXCEPT ![w].started = TRUE]
    /\ Save(task'[w], "analyzing")
    /\ Goto(w, "prepare")
    /\ UNCHANGED <<sections, created, checkout, queue, loaded, pos, clientVars,
                   procVars, boundVars>>

\* Mutant: a directory that exists is used as it is.
EnsureRepositoryReusing(w) ==
    /\ pc[w] = "prepare"
    /\ checkout' = [checkout EXCEPT ![RepoOf[task[w].report]] =
                        IF @ = NoRef THEN RefOf[task[w].report] ELSE @]
    /\ Save(task[w], "analyzing")
    /\ Goto(w, "structure")
    /\ UNCHANGED <<sections, created, queue, task, loaded, pos, clientVars,
                   procVars, boundVars>>

\* EnsureRepository: there is one directory per repository, brought to the ref
\* the report is about.
EnsureRepository(w) ==
    /\ pc[w] = "prepare"
    /\ \/ /\ checkout' = [checkout EXCEPT ![RepoOf[task[w].report]] = RefOf[task[w].report]]
          /\ Save(task[w], "analyzing")
          /\ Goto(w, "structure")
       \/ Goto(w, "error") /\ UNCHANGED <<checkout, row>>
    /\ UNCHANGED <<sections, created, queue, task, loaded, pos, clientVars,
                   procVars, boundVars>>

\* Phase 1 asks the agent for a structure and adds a row for each section of
\* it, or fails; without an agent it panics, which processTask only logs.
GenerateStructure(w) ==
    /\ pc[w] = "structure"
    /\ agent
    /\ LET r == task[w].report IN
       \/ /\ sections' = [sections EXCEPT ![r] = @ \o [i \in 1..Leaves |-> "pending"]]
          /\ Goto(w, "structured")
       \/ Goto(w, "error") /\ UNCHANGED sections
    /\ UNCHANGED <<row, created, checkout, queue, task, loaded, pos, clientVars,
                   procVars, boundVars>>

Panic(w) ==
    /\ pc[w] = "structure"
    /\ ~agent
    /\ Drop(w)
    /\ UNCHANGED <<dbVars, checkout, queue, loaded, pos, clientVars, procVars, boundVars>>

\* Phase 2 works on every leaf row the report has, by index.
BeginSections(w) ==
    /\ pc[w] = "structured"
    /\ Save(task[w], "generating")
    /\ loaded' = [loaded EXCEPT ![w] = sections[task[w].report]]
    /\ pos' = [pos EXCEPT ![w] = 1]
    /\ Goto(w, "section")
    /\ UNCHANGED <<sections, created, checkout, queue, task, clientVars, procVars, boundVars>>

\* Mutant: any section that was started is skipped.
SkipStarted(w) ==
    /\ pc[w] = "section"
    /\ pos[w] <= Len(loaded[w])
    /\ loaded[w][pos[w]] # "pending"
    /\ pos' = [pos EXCEPT ![w] = @ + 1]
    /\ UNCHANGED <<dbVars, checkout, queue, pc, task, loaded, clientVars, procVars, boundVars>>

SkipSection(w) ==
    /\ pc[w] = "section"
    /\ pos[w] <= Len(loaded[w])
    /\ loaded[w][pos[w]] = "completed"
    /\ pos' = [pos EXCEPT ![w] = @ + 1]
    /\ UNCHANGED <<dbVars, checkout, queue, pc, task, loaded, clientVars, procVars, boundVars>>

\* The progress is saved with the whole report, then the section is running ...
StartSection(w) ==
    /\ pc[w] = "section"
    /\ pos[w] <= Len(loaded[w])
    /\ loaded[w][pos[w]] # "completed"
    /\ Save(task[w], "generating")
    /\ sections' = [sections EXCEPT ![task[w].report][pos[w]] = "running"]
    /\ Goto(w, "generate")
    /\ UNCHANGED <<created, checkout, queue, task, loaded, pos, clientVars, procVars, boundVars>>

\* ... until the agent answers or its retries are used up; the others go on
\* either way.
EndSection(w) ==
    /\ pc[w] = "generate"
    /\ \E s \in {"completed", "failed"} :
          sections' = [sections EXCEPT ![task[w].report][pos[w]] = s]
    /\ pos' = [pos EXCEPT ![w] = @ + 1]
    /\ Goto(w, "section")
    /\ UNCHANGED <<row, created, checkout, queue, task, loaded, clientVars, procVars, boundVars>>

SectionsDone(w) ==
    /\ pc[w] = "section"
    /\ pos[w] > Len(loaded[w])
    /\ Goto(w, "merge")
    /\ UNCHANGED <<dbVars, checkout, queue, task, loaded, pos, clientVars, procVars, boundVars>>

\* Phase 3 merges the sections and saves; a missing summary is no error.
MergeSections(w) ==
    /\ pc[w] = "merge"
    /\ Save(task[w], "generating")
    /\ Goto(w, "complete")
    /\ UNCHANGED <<sections, created, checkout, queue, task, loaded, pos, clientVars,
                   procVars, boundVars>>

CompleteReport(w) ==
    /\ pc[w] = "complete"
    /\ Save(task[w], "completed")
    /\ Drop(w)
    /\ UNCHANGED <<sections, created, checkout, queue, loaded, pos, clientVars,
                   procVars, boundVars>>

\* Mutant: the error is only logged.
HandleErrorLogging(w) ==
    /\ pc[w] = "error"
    /\ Drop(w)
    /\ UNCHANGED <<dbVars, checkout, queue, loaded, pos, clientVars, procVars, boundVars>>

HandleError(w) ==
    /\ pc[w] = "error"
    /\ Save(task[w], "failed")
    /\ Drop(w)
    /\ UNCHANGED <<sections, created, checkout, queue, loaded, pos, clientVars,
                   procVars, boundVars>>

Worker(w) ==
    \/ ReceiveTask(w) \/ StartReport(w) \/ EnsureRepository(w)
    \/ GenerateStructure(w) \/ Panic(w) \/ BeginSections(w)
    \/ SkipSection(w) \/ StartSection(w) \/ EndSection(w) \/ SectionsDone(w)
    \/ MergeSections(w) \/ CompleteReport(w) \/ HandleError(w)

-----------------------------------------------------------------------------
(* Handlers, which serve once recovery is over *)

Queued(r) == \E i \in DOMAIN queue : queue[i].report = r
Working(w, r) == task[w] # NoTask /\ task[w].report = r
Requested(c, r) == object[c] # NoTask /\ object[c].report = r

\* Does report r have a task, or a request that is about to give it one?
HasTask(r) ==
    \/ Queued(r)
    \/ \E w \in Workers : Working(w, r)
    \/ \E c \in Clients : Requested(c, r)

Accept(c, o, label) ==
    /\ request[c] = "idle"
    /\ recovering = {} /\ ~stopping
    /\ request' = [request EXCEPT ![c] = label]
    /\ object' = [object EXCEPT ![c] = o]

Answer(c) ==
    /\ request' = [request EXCEPT ![c] = "idle"]
    /\ object' = [object EXCEPT ![c] = NoTask]

CreateReport(c, r) ==
    /\ row[r].status = "none"
    /\ Accept(c, TaskOf(r), "created")
    /\ SetStatus(r, "pending")
    /\ created' = Append(created, r)
    /\ UNCHANGED <<sections, checkout, queue, workerVars, procVars, boundVars>>

SubmitReport(c) ==
    /\ request[c] = "created"
    /\ Enqueue(object[c])
    /\ Answer(c)
    /\ UNCHANGED <<dbVars, checkout, workerVars, procVars, boundVars>>

\* A new report that finds the queue full fails.
RejectReport(c) ==
    /\ request[c] = "created"
    /\ Full /\ ~stopping
    /\ SetStatus(object[c].report, "failed")
    /\ Answer(c)
    /\ UNCHANGED <<sections, created, checkout, queue, workerVars, procVars, boundVars>>

CancelReport(r) ==
    /\ recovering = {} /\ ~stopping
    /\ row[r].status \in Open
    /\ SetStatus(r, "cancelled")
    /\ UNCHANGED <<sections, created, checkout, queue, workerVars, clientVars,
                   procVars, boundVars>>

\* Mutant: any report that has ended may be retried.
RetriableSettled == Statuses \ Open

Retriable == {"failed", "cancelled"}

RetryReport(c, r) ==
    /\ retries < RetryBound
    /\ retries' = retries + 1
    /\ row[r].status \in Retriable
    /\ Patient => ~HasTask(r)
    /\ Accept(c, TaskOf(r), "loaded")
    /\ UNCHANGED <<dbVars, checkout, queue, workerVars, procVars, crashes>>

RetrySave(c) ==
    /\ request[c] = "loaded"
    /\ object' = [object EXCEPT ![c].retries = @ + 1]
    /\ Save(object'[c], "pending")
    /\ request' = [request EXCEPT ![c] = "saved"]
    /\ UNCHANGED <<sections, created, checkout, queue, workerVars, procVars, boundVars>>

RetrySubmit(c) ==
    /\ request[c] = "saved"
    /\ Enqueue(object[c])
    /\ Answer(c)
    /\ UNCHANGED <<dbVars, checkout, workerVars, procVars, boundVars>>

\* A retry that finds the queue full leaves the row as it has saved it.
RetryRejected(c) ==
    /\ request[c] = "saved"
    /\ Full /\ ~stopping
    /\ Answer(c)
    /\ UNCHANGED <<dbVars, checkout, queue, workerVars, procVars, boundVars>>

\* A request that outlives the grace period of the HTTP server sends to the
\* closed channel: the handler panics, and the row stays as it is.
RequestPanics(c) ==
    /\ request[c] \in {"created", "saved"}
    /\ stopping
    /\ Answer(c)
    /\ UNCHANGED <<dbVars, checkout, queue, workerVars, procVars, boundVars>>

Client(c) ==
    \/ SubmitReport(c) \/ RejectReport(c) \/ RequestPanics(c)
    \/ RetrySave(c) \/ RetrySubmit(c) \/ RetryRejected(c)

-----------------------------------------------------------------------------
(* Stop, crash and recovery *)

\* Stop cancels the context the agents run under, which makes their calls
\* fail, and waits for the workers; the process ends with CrashAndRestart.
StopEngine ==
    /\ recovering = {} /\ ~stopping
    /\ crashes < MaxCrashes
    /\ stopping' = TRUE
    /\ UNCHANGED <<dbVars, checkout, queue, workerVars, clientVars, agent,
                   recovering, boundVars>>

\* The memory is gone, for whatever reason, and the server starts again.
CrashAndRestart ==
    /\ crashes < MaxCrashes
    /\ crashes' = crashes + 1
    /\ queue' = <<>>
    /\ pc' = [w \in Workers |-> "idle"]
    /\ task' = [w \in Workers |-> NoTask]
    /\ request' = [c \in Clients |-> "idle"]
    /\ object' = [c \in Clients |-> NoTask]
    /\ recovering' = {r \in Reports : row[r].status \in Open}
    /\ agent' \in AgentChoices
    /\ stopping' = FALSE
    /\ UNCHANGED <<dbVars, checkout, loaded, pos, retries>>

\* The reports come in the order of created_at.
CreatedBefore(r, s) ==
    \E i, j \in 1..Len(created) : i < j /\ created[i] = r /\ created[j] = s

Oldest(r) == \A s \in recovering : ~CreatedBefore(s, r)

RecoverReport ==
    /\ \E r \in recovering :
        /\ Oldest(r)
        /\ row[r].retries < MaxRetryCount
        /\ Enqueue(TaskOf(r))
        /\ recovering' = recovering \ {r}
    /\ UNCHANGED <<dbVars, checkout, workerVars, clientVars, agent, stopping, boundVars>>

\* Mutant: a report that cannot be queued is only counted.
GiveUpCounting ==
    /\ \E r \in recovering :
        /\ Oldest(r)
        /\ Full
        /\ recovering' = recovering \ {r}
    /\ UNCHANGED <<dbVars, checkout, queue, workerVars, clientVars, agent, stopping, boundVars>>

\* Too many retries, started too long ago, or no room in the queue.
GiveUpReport ==
    /\ \E r \in recovering :
        /\ Oldest(r)
        /\ row[r].retries >= MaxRetryCount \/ row[r].started \/ Full
        /\ SetStatus(r, "failed")
        /\ recovering' = recovering \ {r}
    /\ UNCHANGED <<sections, created, checkout, queue, workerVars, clientVars, agent, stopping, boundVars>>

Recovery == RecoverReport \/ GiveUpReport

Next ==
    \/ \E w \in Workers : Worker(w)
    \/ \E c \in Clients : Client(c)
    \/ \E c \in Clients, r \in Reports : CreateReport(c, r) \/ RetryReport(c, r)
    \/ \E r \in Reports : CancelReport(r)
    \/ Recovery
    \/ StopEngine
    \/ CrashAndRestart

Spec == Init /\ [][Next]_vars

\* Goroutines are scheduled, and agents answer or time out.
FairSpec ==
    /\ Spec
    /\ \A w \in Workers : WF_vars(Worker(w))
    /\ \A c \in Clients : WF_vars(Client(c))
    /\ WF_vars(Recovery)

-----------------------------------------------------------------------------
(* Properties *)

\* Report r has somebody to work on it: a place in the queue, a worker, a
\* request that will queue it, or recovery, now or when the server is back.
Held(r) ==
    \/ HasTask(r)
    \/ r \in recovering
    \/ stopping

\* A report that was never retried is pending only while it is held.
PendingHeld ==
    \A r \in Reports : row[r].status = "pending" /\ row[r].retries = 0 => Held(r)

\* No report is worked on twice at a time.
OneExecution ==
    \A v, w \in Workers : v # w /\ task[v] # NoTask /\ task[w] # NoTask
        => task[v].report # task[w].report

\* A completed report has the sections of one structure.
SectionsMatch ==
    \A r \in Reports : row[r].status = "completed" => Len(sections[r]) = Leaves

\* A completed report has no section that is still to be written and, unless
\* it was interrupted, the sections of one structure.
CompletedIsWhole ==
    \A r \in Reports : row[r].status = "completed"
        => /\ \A i \in DOMAIN sections[r] : sections[r][i] \in {"completed", "failed"}
           /\ crashes = 0 /\ ~stopping => Len(sections[r]) = Leaves

\* What the agent reads while it writes is the ref the report is about.
RightRef ==
    \A w \in Workers : pc[w] \in {"structure", "generate"}
        => checkout[RepoOf[task[w].report]] = RefOf[task[w].report]

\* A completed report stays completed.
CompletedIsFinal ==
    [][\A r \in Reports : row[r].status = "completed" => row'[r].status = "completed"]_row

\* API.md:524, "Cancel a pending or running report": a report that was cancelled
\* goes on only when it is retried.
CancelledIsFinal ==
    [][\A r \in Reports :
         row[r].status = "cancelled" => row'[r].status \in {"cancelled", "pending"}]_row

\* Every open report is settled in the end.
ReportSettles ==
    \A r \in Reports : row[r].status \in Open ~> row[r].status \notin Open
=============================================================================
