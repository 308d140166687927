# VerustCode in TLA+

VerustCode reviews pull requests with LLM agents. In server mode it accepts
reviews over HTTP and from webhooks, queues them per repository, runs each in a
pool of workers that clone the repository, execute the review rules, store
the results in SQLite and publish them, and writes reports about whole
repositories in a second, simpler engine. This directory holds TLA+ models of
that machinery and of what surrounds it, the TLC configurations that check them
on small instances, and proofs, checked by TLAPS, for every value of the
constants. `PROJECT.json` is the index: which definition stands for which lines,
which run checks what, which hazards the code has.

Contents: 1 the system, 2 the modules and the code, 3 the runs, 4 fairness,
5 proofs, 6 what the models found, 7 what is not modelled, 8 plan.

## 1. The system

Paths are below `src/internal/` unless they begin with `pkg` or `cmd`.

| Component | State it keeps | Operations | Interacts with | Correct when |
|---|---|---|---|---|
| repository task queue (`engine/queue.go`) | per repository a FIFO list, the running task, whether a recovered task was handed out; an index of queued ids; a bounded wake-up channel | Enqueue, EnqueueAsRunning, Dequeue, MarkComplete, HasTask, Stop | handlers and recovery put in, the dispatcher takes out, workers complete | one task per repository at a time, in order; no wake-up lost |
| dispatcher (`engine/dispatcher.go`) | a bounded channel of tasks, worker goroutines | dispatchLoop, tryDispatch, worker, Stop | queue, processTask | every queued task is started and finished; a stop waits for the workers |
| review engine (`engine/engine.go`) | callbacks, providers, configuration | Start, Submit, processTask, handleError, Stop | queue, store, recovery, runner | every open review has somebody to settle it; what is settled stays so |
| recovery (`engine/recovery/service.go`) | none | RecoverToQueue | store, queue | every open row is queued again or failed |
| retry handler (`engine/retry/handler.go`) | none | Retry, RetryRule | store, queue, runner | only what has failed is run again, once |
| review store and model (`store/review.go`, `model/model.go`) | the tables reviews, review_rules, review_rule_runs, review_results | single statements, a few transactions | everything | the rows agree with each other |
| review handlers (`api/handler/review.go`) | none | CreateReview, CancelReview, RetryReview, RetryRule | store, engine | as the engine |
| webhook intake (`api/handler/webhook.go`) | none | push, PR and merge events of three services | providers, store, engine | one review per commit, nobody is answered with another's review |
| rule runner (`engine/runner/runner.go`) | none beyond the rows | CreateRules, RunReviewWithTracking, ExecuteSingleRule, UpdateReviewStatusAfterRuleExecution, publishRuleResult | executor, store, outputs | completed rules are not repeated; the review follows its rules |
| executor and multi-run (`engine/executor`) | the answers of one execution | ExecuteRule, single runs, multi-runs with resumption and merging, attempts | agents, store | a rule completes on an answer, and keeps one result |
| agents and their clients (`agent`, `llm`) | a client's configuration, shared by all workers | loading of settings, Execute, ExecuteStream | settings, child processes | a call runs with the settings it read, is repeated while that is useful, returns the whole answer |
| output channels (`output`) | none; comments, files and a delivery log outside | comment, webhook, file | hosting services, endpoints | the newest result is shown once; the log tells the truth |
| notification (`notification`) | a cached notifier | Notify, test | settings, chat and mail services | a notice goes where the configuration says |
| task logs (`pkg/logger/task_log_hook.go`, `store/task_log*.go`, `database/task_log_db.go`) | a buffer, rows in a database of their own | Write, flush, Close, clean-up, pages | logger, handlers | no line is lost or doubled before Close |
| git workspace and providers (`git`, `engine/provider`, `engine/utils/provider.go`) | working directories; a provider per type | EnsurePRRepository, clone, comments, parsing of addresses and events | git, hosting services | agents read the commit they were asked about, in the project that was meant |
| rule files and repository configurations (`api/handler/rules.go`, `api/handler/repository.go`, `dsl/loader.go`) | files, the table repository_review_configs, a mutex | list, save, create, delete, load | engine | nobody overwrites what he has not seen; a task gets the rules configured for it |
| settings (`config/settings.go`, `api/handler/settings.go`) | the table of settings, secrets in it | view, apply, test | provider manager, agents | a masked secret comes back as it was |
| database and migrations (`database`) | the tables | three migrations by hand, the automatic one, a repair | start-up | no row is lost; a start that fails has a reason |
| report engine, recovery, handlers, store (`report/engine.go`, `report/recovery`, `api/handler/report.go`, `store/report.go`) | a bounded channel, workers; the tables reports, report_sections | Start, Submit, Enqueue, processTask, Run, Stop; RecoverToQueue; CreateReport, CancelReport, RetryReport | repository manager, agent | a report is worked on once, has the sections of one structure, is settled |
| repository manager of reports (`report/repository.go`) | a working directory per repository | EnsureRepository | git | an agent reads the ref its report is about |
| server lifecycle (`cmd/verustcode/main.go`, `server`) | none | start-up, signals, shutdown | everything | a stop ends, and leaves nothing running |
| prompts, DSL parsing, report texts and exporters, API filters, statistics, environment check, telemetry, frontend | none | see section 7 | | |

What is hard in it:

* Several goroutines (dispatch loop, workers, HTTP handlers, retry goroutines)
  share the queue and the rows, with nothing but single statements between.
* The queue's own notion of what is running and the database's are separate.
* The server may be killed anywhere. Memory is lost, rows, directories and half
  of a migration remain, and recovery runs concurrently with a dispatcher that has
  already been started and before the callbacks are registered.
* Wake-ups and tasks go through bounded channels, some with non-blocking sends;
  an orderly stop closes channels that others still send to.
* Database statements may fail, and the code often logs that and goes on.
* The report engine saves whole objects that were read when the task was queued.
* Workers share agents, a notifier and the directories of repositories; events are
  delivered repeatedly and side by side; administrators edit while tasks read.
* An address is read by five parsers that should agree.

## 2. The modules and the code

```
RepoTaskQueue <- Dispatcher <- ReviewEngine  --implements-->  PerRepoFifo
                     ^             ^
                     |         MCReviewEngine
               EngineShutdown
RuleExecution <- MCRuleExecution                  ReportEngine <- MCReportEngine

EngineShutdown <- Services <- MCServices    instances: TaskLogs, AgentStream, Notification
OutputDelivery <- Delivery <- MCDelivery    instances: AgentCalls
WebhookIntake  <- Intake   <- MCIntake      instances: GitWorkspace, ReviewConfigs, Settings, Migrations, RepoAddresses

Dispatcher     <- DispatcherProofs <- ReviewEngineProofs (of ReviewEngine), ServicesProofs (of Services)
ReportEngine   <- ReportEngineProofs              RuleExecution  <- RuleExecutionProofs
GitWorkspace   <- GitWorkspaceProofs, an instance of which IntakeProofs takes
Intake         <- IntakeProofs                    Delivery       <- DeliveryProofs
```

(`<-` is EXTENDS, read from right to left.) Every step is one database statement or transaction, one
operation under a mutex, one channel operation, one command or request, the granularity at which the
goroutines interleave. Statements whose order nobody else can observe are merged.
A definition whose comment begins with "Mutant" is a deliberately wrong variant
of the definition that follows it. No specification uses it: substituting it for
the original shows that a property of a run can fail.

**Services**, **Delivery** and **Intake** put components that share no state into one
specification: the variable `part` says which one a behaviour exercises, the others stay
as they begin, so that the state space is the union and not the product. Their
properties are conjunctions over the components, and they state what is assumed of the constants of
the components they instantiate; the MC modules only give values.

**RepoTaskQueue** is `queue.go`. The fields of `RepoQueue` become functions over
the repositories: `tasks`, `running`, `currentTaskID`, `dequeued`; `known` says
which repositories are in the map, `tasksByID` and `taskReady` keep their names.
A task is identified by its review's id. `Dequeue` picks any repository, because
the code iterates over a Go map. The operations are action operators; the
modules above say who calls them.

**Dispatcher** is the dispatch loop (`AwaitSignal`, `DequeueTask`,
`QueueDrained`, `SendTask`) and what a worker does around `processFunc`
(`ReceiveTask`, `CompleteTask`). `dpc` is where the loop is, `dtask` the task in
its hands, `taskQueue` the Go channel, `wtask` the workers' tasks.

**ReviewEngine** is the life of a review: `status` and `retryCount` are columns,
`created` the order of `created_at`. `StartEngine`, `RecoverReview`,
`GiveUpReview` and `Serve` are the start-up in the order of the code (dispatcher
first, then recovery, then callbacks and HTTP). `CreateReview`, `Submit`,
`SubmitFails`, `CancelReview` and the `Retry...` actions are the handlers, cut
where they read or write something shared; `rpc` and `rcount` are the local
state of a request, in one of the `Slots` of its review. `CheckStatus` to
`HandleError` are `processTask`; `wpc` is where a worker is in it. Running the
rules is one step here with the outcomes the runner has (`RunSucceeds`,
`RunFails`); a run that neither completes nor fails the review, which the runner
allows, happens only when `Unsettled` is TRUE. `Crash` loses everything but the
rows. `DbFault` lets single statements fail where the code goes on or gives up.

**PerRepoFifo** is what the queue and the dispatcher promise together: one FIFO
line per repository and at most one active task. `ServesInOrder` and `ServesAll`
say that ReviewEngine implements it, where `waiting` is `tasks` and `active` the tasks
that have left the queue and are not completed (`InFlight`).

**EngineShutdown** puts the stop of the server around the same dispatcher: `stop`
is how far `runServe` and its deferred calls have come, `exited` the workers that
have returned, `handlers` requests between their row and the queue, `detached`
the goroutines of rule retries; requests the drain has given up waiting for go on until the database is closed. Every select that also listens to the context has
one action per ready case (`LoopEnds`, `LoopDropsTask`, `WorkerReturns`), and a send
to the closed channel is `LoopPanics`. A row is pending, running or settled only.

**RuleExecution** looks inside the run of one review: the worker of the review
and the goroutines that `RetryRule` starts go through one executor, whose steps
are `Execute(a)` for an actor `a`. `rule`, `runs` and `results` are rows;
`loaded` and `got` what an actor remembers of the runs; `existing`, `index` and
`hasFailed` the local variables of `RunReviewWithTracking`. `ReadRules` and
`WriteVerdict` are `UpdateReviewStatusAfterRuleExecution`, a read and a write.
The queue is reduced to whether the review has a task. `PreCreated` are the
rules `Submit` created, `Config` those of the configuration read after cloning:
the code reads it twice, from two places. Agent calls are one step
with the outcomes structured, text and failed; AgentCalls looks into them.

**AgentCalls** is one call of an agent with its attempts: `Load` and `Write` copy
the settings of the database into the client's configuration, field by field and
without a lock, `MakeRequest`, `PrepareRequest` and `StartProcess` read them
again, so that calls of other workers come between; a read beside a write of the
same field may be torn. `Outcome` is how each of the three clients judges an
exit, `Ended` and `Backoff` the retry loop of `executeSingleRun`. `held` are the
processes whose pipe a descendant keeps open, which `cmd.Wait` waits for.

**AgentStream** is `doExecuteStream` of the three clients: one `Reader` goroutine
per pipe, the `Process` goroutine that passes chunks on, and the `Caller` that waits for the readers,
closes the channel, waits for the rest and then for the process. What the process
prints is a script of typed lines; `ParseLine` says which chunk each client makes of one.

**OutputDelivery** is `publishRuleResult` with its channels, one after the other.
`comments` is the pull request at the service in the order of ids; `ListOnGitHub`
and its siblings are what one page shows (`Oldest`, `Newest`). What a publication has found is the set of places, of which
the one the service lists first counts (`FirstOf`). `ListComments`, `UpdateComment`,
`DeleteDuplicates`, `PostComment` are the calls of `updateOrCreateComment`;
`SendRequest`, `Backoff`, `GiveUp` the loop of the webhook, which writes its row
(`SaveDeliveryLog`) when it is over.

**Notification** cuts `Notify` where other workers can come between: the
configuration is read (`ReadConfig`), a notifier is made or reused under the lock
(`Prepare`), the notice is sent (`Send`) and answered. `Accepts` is what each
channel takes for success.

**TaskLogs** numbers the lines that are logged. `Log` is the hook's Write,
`flushLocked` hands the buffer to a goroutine (a member of `batches`), `WriteBatch` is one INSERT.
`CloseHook`, `LastFlush`, `CloseTaskLogDB` and `SyncLogger` are the deferred calls of
`runServe` in their order. `ReadPage` is a client that pages with COUNT, OFFSET and LIMIT.

**WebhookIntake** has the reviews as a sequence of rows. `Parse` is what the three
providers make of a delivery; a request goes through `Lookup`, `CountRevision`, `CreateRow`,
`FindExisting`, `Submit` or `Merge` in separate statements, each of which may fail where the code goes on.
`IndexHolds` is the unique index.

**GitWorkspace** is the directory that the pull requests of a repository share, with
`EnsurePRRepository` cut into its git commands: `dir` has what the next task finds
(a .git, an origin, HEAD, branches, files left by agents, a lock). Commands fail, are killed (`Killed`) or
die with the process (`Crash`). A push has a directory of its own (`CloneBranch`).

**ReviewConfigs** has the rule files, the rows of repository_review_configs and the
mutex `rulesMu`. Saving a file empties it and then writes it; copying does not take the
lock. `BeginLoad` to `LoadDefaultReviewConfig` are the three places the engine looks at.

**Settings** has values with secrets, `maskSettingsValue` and `restoreMaskedValues` by
position, `SetCategory` as the transaction of one category, and an administrator who
edits what he was shown. `Start` is the repair and what the running engine knows.

**Migrations** is the start of the server on a database of an older version:
`pc` and `at` are the step and the table, `tx` the transaction. A crash may come
between any two statements and starts it again on what is left.

**RepoAddresses** follows an address through the parsers: an address is a record of
words, a word has the facts the code looks for (it contains "github.", a dot, another
host's name). `CreateReview` and `HandleWebhook` make addresses, `Submit`, `Clone` and `Publish` read
them, a report and a list of branches (`PrepareRepository`, `GetBranches`, `ListPage`) do it in their
own way, and the settings may change and the server restart in between. Providers are
a sequence: the first that matches is taken (`Candidates`), the last of its type replaces the others (`Initialize`).

**ReportEngine** has the row of a report, its leaf sections in order, the
object each task carries (`task`, `object`: status aside, the columns as they
were when it was made) and the ref each working directory is at. `Save` writes
the whole object, `SetStatus` the status alone, as the store's functions do. The worker actions
follow `Run` through its three phases; `Panic` is the nil agent of
`structure.go:92` and the recover of `processTask`. `StopEngine` is the orderly
stop: the context is cancelled, which makes agents fail and workers end, and the
channel is closed, which makes late requests panic; the process then ends like a crash.

## 3. The runs

Reviews and workers that are interchangeable are permuted (`MCSymmetry`) in runs without
liveness. Deadlock is not checked, because every instance stops: there are
finitely many reviews, retries and crashes, and an idle server waits for ever.
That nothing stops too early is what the liveness properties check.

| Run | Instance | What it shows |
|---|---|---|
| `engine_serial` | 3 reviews, 2 repositories, 2 workers, runs that settle nothing; no retry, crash or fault | Types. The engine implements PerRepoFifo (`ServesInOrder`): order and exclusion per repository, independence across them; no two workers on one repository (`RepoSerialized`). A review cancelled while it waits is not run (`CancelledWhileWaitingStays`). |
| `engine_crash` | 2 reviews of a repository, 1 retry each, two overlapping requests per review, a crash anywhere | No pending review is forgotten (`PendingHeld`) and no wake-up is lost (`NoLostWakeup`), also while recovery races with the dispatcher. |
| `engine_live` | 2 reviews of a repository, 1 retry each, one failing statement, fair scheduling | Completed is final (`CompletedIsFinal`); every open review is settled unless a statement failed (`ReviewSettles`); every queued task is started and finished (`ServesAll`). |
| `rules_crash` | 2 rules, the first with two runs and the second created late; 2 rule retries, a retry of the review, a crash; retries only while nobody works on the review | One result per rule (`OneResult`); a completed rule is not repeated (`CompletedKept`); a multi-run rule completes on an answer, and without a crash fails only when no run had one (`RuleFollowsRuns`); without a crash the review follows its rules (`StatusFollowsRules`). |
| `rules_live` | 2 rules, 2 retriers overlapping with the worker and each other, fair scheduling | Types. The review is settled and every running rule ends (`WorkEnds`). |
| `reports_live` | 2 reports, 2 workers, 2 clients, 2 retries, cancellations, fair scheduling | A report is worked on once at a time (`OneExecution`), stays completed (`CompletedIsFinal`), is settled (`ReportSettles`). |
| `reports_crash` | 2 reports, 1 worker, queue of 1, a retry, a stop and a crash, an agent that may be missing | Types. A report that was never retried is not forgotten (`PendingHeld`); a completed one has no section left to write and, uninterrupted, the sections of one structure (`CompletedIsWhole`); one worker alone reads the right ref (`RightRef`). |
| `services` | a stop with 3 reviews, 2 repositories, 2 workers; 5 log lines; 5 scripts of 3 agents; 2 senders of notices and 7 configurations | A stop leaves nothing running and keeps repositories apart (`StopIsOrderly`); each log line is in one place and pages are in order (`LinesKept`); a stream returns the whole answer and nobody sends on a closed channel (`AnswerKept`); a notice uses its own channel and a delivered one was taken (`NoticesArrive`); stops, streams and notices end, lines leave the buffer (`ServicesEnd`). |
| `delivery` | 3 publications, 2 at a time, in 3 plans, GitHub and GitLab; 2 calls of each of 3 agents | One comment with the newest result, none lost, no duplicates (`CommentsKept`); the delivery log (`LogTellsTruth`); calls run with the settings they read and are repeated while useful (`CallsAsMeant`); both end (`DeliveryEnds`). |
| `intake` | 3 requests of 11 kinds, 2 at a time; 2 pull requests and a push in 3 tasks; 2 administrators; 90 databases; 4 configurations of providers with 7 addresses | One review per commit, the right one in the answer, the right ones merged (`EventsHandledOnce`); agents read their commit, and a failed task does not spoil the directory (`AgentsReadTheirCommit`); the project that is cloned, commented on and listed is the one that was meant (`RightProject`); rule files (`RulesKept`); secrets (`SettingsAsMeant`); migrations (`TablesKept`). |
| `recovery_serial`, `report_resumed` | 2 reviews of a repository and 2 workers; 2 reports and 1 worker; a crash | Violations of `RepoSerialized` and `SectionsMatch`, see section 6. |

`engine_crash` takes `MaxFaults = 0`: `PendingHeld` says nothing of failing
statements, which do leave rows behind (section 6).

**Bounds**, and why they are enough:

* Two reviews of one repository and two workers are the smallest instance where
  tasks of a repository can overtake or overlap; the third review and the second repository of `engine_serial`
  and `services` show independence and the choice of `Dequeue`.
* `SignalCap` = 1 (100 in the code) and `QueueSize` = 1 (ten per worker) make
  dropped tokens and a blocked dispatch loop frequent; larger
  channels only make them rarer. `QueueCap` = 1 or 2 (100) does the same for reports, `OutCap` = 1 (100)
  and `PipeCap` = 1 for streams, `bufferSize` = 2 (100) for logs.
* `RetryBound`, `RuleRetryBound`, `ReviewRetryBound` (1 or 2) bound what
  clients ask for: one retry meets every state of the run it retries, a second
  one meets the first.
* `Slots`: two requests on one review are enough for a check of one to be
  outdated by the other; all other requests on a review are single statements. Two slots of WebhookIntake
  race for one commit, `MaxRequests` = 3 adds one that comes after both.
* `MaxRetryCount` (3 in the default configuration) is 1 in `reports_crash`, so that with
  `RetryBound` 1 recovery meets both sides of the limit. It is 2 for reviews, which recovery
  may give up whatever their count, because one that has run too long is given up.
* `MaxCrashes`, `MaxFaults`, `MaxUpsets` = 1: a crash or a failure at any step, and what follows
  it. One is enough because recovery, migrations and the next task start from nothing but rows and
  files, and the crash may hit their results. A second crash would show recovery interrupted by one.
* `Leaves` = 2 or 1: the sections of one structure, as many as it takes for one to end
  before another begins.
* `Exclusive`, `Patient` are assumptions about clients, not bounds: a retry is asked for only
  while nobody works on the review, or on a report without a task. Section 6 says what
  happens otherwise.
* `Lines` = 5 fill a buffer of 2 twice with lines of two tasks and one of none; `MaxSize` = 2, `DefaultSize` = 1
  and `Retention` = 3 make every branch of the paging and of the clean-up happen.
* Three publications: two that overlap, and one after them that has to clean up. `PageSize` = 3
  with one comment of a user lets comments leave the page. `maxRetries` = 2 is the smallest with a repeated attempt that is the last.
* `MaxHeads` = 2, `MaxAttempts` = 3: a task on a pull request that moved by force, after one on another, after one that was
  interrupted.
* Two rows of a table are enough to violate an index and to lose one but not the other. The initial databases
  combine tables of several ages, because the migrations run one after the other.
* RepoAddresses needs no bound but one change of the settings and one retry or restart: its
  requests share nothing else. The words were chosen so that every parser has an address it reads differently.

## 4. Fairness

All fairness is weak and on the server's own steps: the dispatch loop, each
worker, the start-up, the continuation of each request that has begun, the stopping
goroutine, the ticker and the writers of the log, the goroutines of a stream,
publications, calls, notices. The Go
scheduler justifies it: each of them is one goroutine whose next step, once
enabled, stays enabled until it is taken or another step of the same goroutine
replaces it. Agents and the git operations on a clone run under
time-outs (`llm/cursor/cursor.go:152`, `git/workspace/git.go:199`), HTTP requests too, the
database is a local file; the first clone and whatever else has no time-out of its own is
assumed to end. How it ends is a choice, no particular outcome is assumed. What the code leaves unlimited
is left unlimited: nothing makes a mail server answer, nor a descendant of an agent release
its pipe, and `NoticesEnd` and `CallEnds` except them. A process that prints is fair because it is killed when
its time is over. Nothing obliges
a client to send a request, and no crash or fault need happen. Under `FairSpec` reviews
end although a worker never retries: failing is settling. WebhookIntake, GitWorkspace, Settings, ReviewConfigs,
Migrations and RepoAddresses have no fairness, because safety is all that is stated of them.

## 5. Proofs

Every theorem holds for any sets of reviews, repositories, workers, reports, rules, events,
pull requests, lines, calls, files, tables' rows, addresses, finite or infinite, and any bounds. What is assumed of the constants
are the named ASSUMEs of the modules, which TLC evaluates in the runs:

| Assumption | Says, capacities and bounds aside | Why |
|---|---|---|
| `DirectoriesAssumption` (Intake) | a pull request is not a push, and neither is None nor a commit of one | they are told apart by their kind |
| `RulesAssumption` (Intake) | some content can be loaded; no administrator, file or content is None | the default rules can be loaded |
| `TablesAssumption` (Intake) | a table that is only copied had its primary key when it was created | every version of the model declares it |
| `SettingsAssumption` (Intake) | a secret does not look like a mask; a value names an item once at first | a mask is told from a secret by its looks alone |
| `AddressesAssumption` (Intake) | servers have a dot in their names and the path of an ssh address does not begin with one; only GitLab has groups in groups; reviews are not asked for by ssh | without them the parsers disagree: `RepoURL` mangles ssh, and Gitea and GitHub take two levels |
| `CallsAssumption` (Delivery), `ServicesAssumption`, `LogsAssumption` (Services) | bounds and capacities | |
| `ScriptsAssumption` (Services) | lines of stderr are noise; messages are gemini's; cursor prints no line of an unknown type; a chunk is not None | there is no order between two pipes; the formats of the tools |

Five further conditions are hypotheses of single theorems; section 6 has the behaviour that makes the first four necessary:

| Hypothesis | Says | The code behind it |
|---|---|---|
| `OneAtATime` (ReviewEngineProofs) | no crash, and requests for one review do not overlap | overlapping retries, and recovery beside the dispatcher, queue a running review again |
| `Patient` (ReportEngine) | nobody retries a report that still has a task | the handler looks at the row only |
| `Undisturbed` (ReportEngineProofs) | one worker, or one ref per repository | the working directory is shared |
| `Exclusive` (RuleExecution) | a retry is asked for only while nobody works on the review | rule retries do not go through the queue |
| `OneWebhook` (DeliveryProofs) | a rule names its webhook once | each webhook of a rule writes a row and has attempts of its own |

| Module | Theorem | States |
|---|---|---|
| ReviewEngineProofs | `TypeCorrect`, `NoWakeupIsLost`, `NoReviewForgotten` | `[]TypeOK`, `[]NoLostWakeup`, `[]PendingHeld`, with crashes, faults and overlapping requests |
| | `Serialized`, `Refinement`, `CompletedStays`, `CancelledStays` | under `OneAtATime`: `[]RepoSerialized`, `ServesInOrder`, `CompletedIsFinal`, `CancelledWhileWaitingStays` |
| ReportEngineProofs | `TypeCorrect`, `NoReportForgotten` | `[]TypeOK`, `[]PendingHeld` |
| | `OneTask`, `CompletedStays`, `CompletedWhole` | under `Patient`: `[]OneExecution`, `CompletedIsFinal`, `[]CompletedIsWhole` |
| | `RefIsRight` | under `Undisturbed`: `[]RightRef` |
| RuleExecutionProofs | `TypeCorrect` | `[]TypeOK` |
| | `ResultOnce`, `CompletedStays`, `RuleEndsAsItsRuns`, `StatusIsTrue` | under `Exclusive`: `[]OneResult`, `CompletedKept`, `[]RuleFollowsRuns`, `[]StatusFollowsRules` |
| GitWorkspaceProofs | `TypeCorrect`, `CommitIsRight` | `[]TypeOK`, `[]AgentsReadTheirCommit` |
| ServicesProofs | `TypeCorrect`, `OrderlyStop` | of EngineShutdown: `[]TypeOK`, `[]StopIsOrderly` |
| | `NoticesAreRight`, `LinesAreKept`, `AnswersAreKept`, `ServicesTyped` | of Services: `[]NoticesArrive`, `[]LinesKept`, `[]AnswerKept`, `[]ServicesTypeOK` |
| DeliveryProofs | `LogIsTrue`, `DeliveriesTyped` | under `OneWebhook`: `[]LogTellsTruth`, `[]DeliveryTypeOK` |
| | `CommentsAreKept`, `CallsAreAsMeant` | `[]CommentsKept`, `[]CallsAsMeant` |
| IntakeProofs | `TypeCorrect`, `EachEventOnce` | of WebhookIntake: `[]TypeOK`, `[]EventsHandledOnce` |
| | `AgentsReadTheirs`, `ProjectsAreRight`, `IntakeTyped` | of Intake: `[]AgentsReadTheirCommit`, `[]RightProject`, `[]IntakeTypeOK` |
| | `RulesAreKept`, `SettingsAreAsMeant`, `TablesAreKept` | of Intake: `RulesKept`, `SettingsAsMeant`, `TablesKept` |

So every invariant and every action property of a passing run is proved; what is left to TLC is liveness.

None of these formulas is inductive, except `NoLostWakeup` together with types. Each paragraph below
names the invariant that is, and says why it is needed.

**Queue and dispatcher** (DispatcherProofs, lemmas only). One lemma types each operation, and
`DispatchInv` ties the queue's, the loop's and the workers' view together: the lists hold tasks of their
repository, each once and in the index (`ListInv`); the running task of a repository is its own
and no longer indexed (`CurrentInv`); a task in flight is its repository's running task (`FlightInv`)
and in one place only, loop, channel or worker (`PlaceInv`). `OneTaskPerRepo` concludes that two
workers never have tasks of one repository. The engine and the stop of the server prove
their own exclusion from these lemmas, because both EXTEND the same dispatcher. What a caller has to show
is that whatever it puts into the queue is `Absent` from queue and flight.

**Review engine.** `TypeInv` adds to the types that a request on its way to write a retry
count has read one below the bound (`CountsBounded`): the guard that bounds it was passed
earlier. `NoLostWakeup` is kept because whatever makes a task available leaves a token (a full channel
holds one as well) or is done by the loop itself, and the loop goes to wait only when it has seen nothing.
`SerialInv` adds to `DispatchInv` that a request past its check works on a review the queue does not have
(`RequestInv`), that a review that does not exist is nowhere (`FreshInv`) and that nothing is left by
recovery (`RecoveryInv`). Refinement needs the same invariant: appending, dequeuing and completing
are the abstract actions because a task in flight is the only one of its repository. Completed stays completed
because, by `SerialInv`, whoever writes a status has the review's only task.

**Nobody forgotten.** `Covered` names who will take the next step for a pending review: a list, the loop, the channel,
a worker that has not looked yet, a request, recovery. A holder may hand the review on, and a request whose `Enqueue` finds the id in the
index gives up its own hold; so the index must only name reviews that wait (`IndexInv`). It does not: a running
review that recovery installed and that was displaced stays indexed for ever. Such a review is `Parked`; no
request works on it, and it never becomes pending again. What recovery has read is untouched until it handles it (`RecoverInv`), and no
request is under way before the server serves (`PhaseInv`). All of this holds with crashes and overlapping requests, where exclusion does not.

**Report engine.** `OneExecution` follows from one task per report in channel, workers, requests and
recovery together (`OnceInv`), and none for a report that does not exist or has completed (`EndedInv`); `Patient` keeps it over retries.
That is also why a completed report stays completed, although whole objects are saved and the one a task carries is outdated by design: whoever
saves an object has the report's task. `CompletedWhole` follows a worker through the phases: the sections before its position are settled and
those it will skip are completed (`ProgressInv`), and without a crash a report has no sections until it is generated, and those of one structure
afterwards (`StructureInv`). `RefIsRight` says that from preparing to the last section the checkout is at the ref of the worker's report (`RefInv`).
In the recovery the rows are a set with an order, not a sequence, as `RecoverToQueue` takes the oldest
open one each time; nothing about the order is needed but that each is taken once.

**Rule execution.** `Alone` says that at most one actor works on the review (from `Exclusive`); `TargetInv`
that the rule it executes is running until it is finished, and `ResumeInv` that the worker takes the rules in order and that what it read
about those still before it is true. Then `ResultInv` says that a rule that is not completed has no
result, and one about to be saved none yet; `RunsInv` that the answers an actor holds are those of completed runs, and that a completed rule has one;
`FollowInv` that a rule that failed in the worker's hands is behind it (`FailedInv`) and that what an actor has read of the rules is still so when it
writes the verdict (`VerdictInv`). The
model assumes what `dsl/parser.go:79` and `:261` refuse otherwise: a configuration has a rule, and none twice.

**The stop.** `StopInv` adds to `DispatchInv` that a request between row and queue holds a review that is not in the queue (`AbsentInv`), that a row
is running only while a worker or a detached rule retry is at it (`RunningInv`), and that workers that have returned have no task and are joined when
all have returned (`ExitInv`). A task the loop drops keeps its repository blocked, which is what keeps `FlightInv`
true until the process ends.

**Intake.** Uniqueness comes from the index (`UniqueInv`: no two rows of one address and commit), but the row a sender is told about
was created in an earlier statement: `SubmitInv` says that a row being submitted is the one its request asks for, and no other request's,
`NewlyInv` that no answer has named it as triggered, `TriggeredOnce` that no two answers have, and `AnswerInv` that what was answered still names
the row it was about (rows are only appended). `UrlInv` says that an address is that of the row's pull request, `MergedWereAsked` that a row is
marked only for an event that said so.

**Directories.** `JobInv` (a step works for a pull request at a head it has had), `ReadInv` (the branch is at the
wanted head or a later one when it is checked out, and HEAD afterwards), `FreshInv` (while nothing goes wrong HEAD is moved only
when the tree has been cleaned, so files belong to HEAD) and `OrderInv`, the interesting one: a task that none of its own commands
has failed brings any directory with an origin into order, whatever lock, files or branch a killed command, a crash or another pull request
left, because each step of the update establishes what the next one needs: no lock, then no files, then no branch in use.

**Delivery log.** `PlaceOf` says that a publication is at one of its channels, and between two attempts at a webhook; `AttemptsOf` that the attempts
counted stay below the limit before each request; `LogOf` that before the webhook is over there is no row, no answer, and no more requests than
attempts, which a process that died has forgotten, and that afterwards the row has them all. `RestInv` adds that the endpoint has taken no more than
`maxRetries` requests, also where the memory of the attempts is lost, and that a publication begins once.

**Comments.** The comment of a rule that its service lists before all others of that rule is never deleted (`Keeper`): it is what every publication
updates, because it finds it first, and it is not among those that are deleted. That is why one stays, whatever overlaps. `FreshInv` follows the last
publication that has been alone since it began (`Lone`): what it has found is all there is, nothing is there when it posts, and the first of
them carries its result when the others are deleted. Alone is not stable as such: `LoneInv` says that nobody is active beside the last one to begin.

**Calls of agents.** `FieldInv` says, for the steps between writing a field and reading it back (`Pending`, `HasRead`), where the setting of an undisturbed call
is: in the shared configuration, then in its own request. A write of another call with other settings disturbs exactly those steps. `OutcomeInv` counts outcomes against attempts.

**Notices.** `CallInv` says that a notifier in the hands of a call is of the channel of the configuration the call has read, and `NotifierInv` the same of the cached
one, which other calls replace; an unknown channel leaves both open.

**Log lines.** `OnceInv` says place by place that a captured line is in one of buffer, batches, rows, lost and deleted lines. `FirstLinesRead` is
what OFFSET needs: the pages read are a prefix of the rows in order, all pages but the last were full, and every captured line in front of the last one read is stored already,
so that no batch still under way can come to stand before it. The rows in order are those with a rank, the number of rows before them, and inserting behind the last one
read changes no rank before it.

**Streams.** A token argument proves that nobody sends on the closed channel: tokens in `done` and those the caller has taken are the readers that are through (`StageInv`).
The answer is a chain: the text so far, continued with the chunks in the channel, the chunk the reader holds and the lines in the pipe, is what the script has told up to the last
line printed (`OrderInv`). Each step of a party moves the first element of one link to the end of the one before.

**Rule files.** `EditInv`: who is between comparing and writing holds the mutex, and what is in the file is what he compared, unless a creation came between. `LoadInv`
keeps, for a load nobody disturbs, what it has ruled out so far.

**Migrations.** `CopyInv` is the transaction: from the copying on the new table has the rows of the old one, and it is complete when it replaces it. `KeysInv` says that the tables that had
their turn are current and have a key, so that a server that has gone through all of them may run.

**Addresses.** `ReviewInv` says that what a task remembers is what its address says to the provider the engine has at the time: providers change only at a restart, which submits every
open review again. `ReportInv` says that a report's provider matches its address. The rest are lemmas about the parsers: what each of them makes of an address in each
of its forms, by the number of its parts (`PartsAre`, `LevelsAre`), and that two of them agree (`ReportPath`, `CommentPath`, `OriginPath`).

**Settings.** `DraftInv`: where a setting was not there, the draft of an administrator has no mask that a secret could take the place of. With names that occur once, masks are given back
by name and position alike (`RestoreIs`), one category is stored as a whole (`StoredOne`), and a test looks the secret up where the engine has it (`TestIs`).

Several of these need what a recursive function or a count over the naturals gives (the pages' order, what a script has told). The theorems of the library that would
give it by induction take an operator as a parameter; the proofs take the least counterexample instead (the order of the naturals is well-founded, `NatLessThanWellFounded`), or keep the function's
value in the invariant, one step at a time.

Only model-checked: the liveness properties (`ServesAll`, `ReviewSettles`, `ReportSettles`, `WorkEnds`, `ServicesEnd`, `DeliveryEnds`), because fairness and ENABLED are beyond the prover,
and the violations of section 6, whose properties are false.

## 6. What the models found

Two runs end with a trace of TLC.

* `recovery_serial`: `EnqueueAsRunning` overwrites the current task of its
  repository while the dispatcher is already handing tasks out (`queue.go:145`). At the crash one review of
  the repository runs, and an older one is pending, whose request had not queued it yet. Recovery queues the older
  one, `Dequeue` hands it out, then recovery installs the running one over it, `Dequeue`
  hands that out too, and both run (`ARCHITECTURE.md:357` says that this is prevented).
* `report_resumed`: a report interrupted after its structure was generated gets
  a second one on top when it is recovered (`report/engine.go:376`), although
  line 424 skips completed sections "for resume support".

Seven more configurations of the MC modules end with one. They are not among the runs, and each adds to one of them the property that
is named, or the case that the run leaves out.

* `MCRetrySerial.cfg`: two retries of a failed review are both past their check of the queue. The second puts the review's
  id back into the index while its task runs; `Dequeue` takes it for a recovered one and hands it out
  again (`RepoSerialized`; `queue.go:181`). Hence one slot in the runs that need exclusion, and `OneAtATime` in the theorem.
* `MCReviewCancelled.cfg`: a review cancelled while its worker clones goes back to running and may complete
  (`CancelledIsFinal`; `engine.go:742`, where `API.md:316` has "Cancel a pending or running review"). Hence the exemption of claimed reviews in
  `CancelledWhileWaitingStays`.
* `MCReportCancelled.cfg`: a report cancelled while queued or in progress goes on and completes, because its worker saves the
  whole object it was given (`CancelledIsFinal`; `report/engine.go:229`, `API.md:524`).
* `MCStopPanics.cfg`: the dispatch loop may be sending when the task channel is closed (`StopWaitsForWorkers`; `dispatcher.go:205`,
  against line 188, "waits for all workers to finish"); the process then dies with workers at their tasks. A task in the hands of
  a loop that is cancelled instead is dropped although the comment says it is put back; recovery finds its row.
* `MCMasksMoved.cfg`: when the first provider of the array is removed, the mask of the second is replaced by the first
  one's token (`OriginalsPreserved`; `config/settings.go:395`, where line 162 has "the original value is preserved").
* `MCRetryDirectory.cfg`: a rule retry reads the shared directory while the task of another pull request checks
  out its own commit there (`RetryReadsItsPR`; `retry/handler.go:375`, where `pr_manager.go:45` has "PR switching handled by fetch + checkout").
* `MCRuleHalfWritten.cfg`: a task that loads the file configured for its repository while a request creates or saves it finds it
  empty and takes the default rules (`ConfiguredIsUsed`; `api/handler/rules.go:364`, `:194`, where `engine.go:240` puts the configured file first).

Other constants, or properties stated more strongly, show the behaviours below, which the
properties of the runs are conditioned on. Where a name is given, it is a definition of the
module that no run checks, because the code violates it: it quotes the line it contradicts. Some may be intended.

*Engine, rules and reports*

* A recovered review that fails before the callbacks are registered stays
  running until the next restart (`engine.go:850`); so does one whose
  statement failed before its rules ran (`engine.go:483`). Hence `PendingHeld` says nothing of running
  reviews, and `ReviewSettles` excepts faults.
* A cancelled review is refused by retry (`retry/handler.go:163`), which `API.md:335` allows.
* The worker remembers that a rule failed (`engine.go:769`) and marks the review failed although a
  retry has completed that rule in the meantime. Hence `Exclusive` in `rules_crash`.
* A rule `Submit` created that is absent from the configuration of the clone is never executed,
  and the review stays running (`runner.go:393`, `engine.go:774`): `PreCreated`
  with a rule outside `Config`. Hence `PreCreated` within `Config`.
* A rule of a given-up review that is retried leaves the review running, when other
  rules are pending or running in the rows: `rules_live` with a crash.
* Two overlapping retries of a rule may leave two results (`retry/handler.go:255`):
  `OneResult` with `Exclusive` FALSE.
* A run completed before a crash is skipped without its answer; when it had the
  only one, the rule fails (`multi.go:186`). Hence `crashes = 0` in `FailedHasNoRun`.
* A server without the cursor agent leaves reports analyzing (`structure.go:92` and the recover of
  `report/engine.go:184`). Hence an agent that is present in `reports_live`.
* A retry that finds the queue full leaves the report pending with nobody to
  work on it (`api/handler/report.go:367`). Hence reports never retried in `PendingHeld`.
* A cancelled report retried while its first task is still there has two workers
  (`Patient` FALSE).
* Two reports of a repository on different refs share a working directory
  (`report/repository.go:59`); with two workers one agent reads what the other checked out.
  Hence one worker in `RightRef`.
* An orderly stop cancels the context the agents run under, so reports
  in progress fail, or complete with failed sections, where a crash
  would have left them to recovery.

*Stopping and logs*

* Nobody waits for the goroutine of a rule retry: it meets a closed database and leaves the review running. Hence
  `detached` in `NoneLeftRunning`.
* `Close` of the log hook waits for its flushing goroutine but not for the writers, and the database of logs
  is closed next; lines logged later are flushed into the closed database. Batches may overtake each other, and
  OFFSET counts rows: pages skip or repeat lines. Hence `lost` and `steady`.

*Agents*

* `RemovedKeyIsGone`: a key or time-out that is removed from the settings stays in use until the
  restart (`agent/cursor/cursor.go:174`); only a removed model goes back, with cursor to "composer-1".
* Calls of workers that have read different settings mix them, field by field. Hence `disturbed`.
* A descendant of an agent that keeps the pipe open blocks `cmd.Wait` beyond the time-out.
  qoder takes any word "token" on stderr for a final error; gemini has no such test.
* `SuccessIsComplete`: a line of more than 64 KB ends cursor's scan without an error
  (`llm/cursor/cursor.go`), and a call succeeds without it; a process that goes on printing is blocked
  until its time-out. A result without text wipes what qoder has collected; messages of gemini that are not deltas are dropped.
  Production code calls Execute; the streaming call is part of the client's interface.

*Outputs and notices*

* A crash between saving a rule as completed and publishing its result loses the publication (`runner.go:225`).
* `overwrite: false` is ignored for files. The retry of a rule of an older review replaces a newer comment.
  Only the first page (at most 100 comments, GitLab's newest first) is searched, so that an old comment is
  not found and a second one appears. Hence `PageSize` in the properties. A GitLab note is deleted only if it is on that page.
* `LatestAddress`: the notifier is kept per channel, so that a changed address or secret of the same channel is used after
  a restart only (`notifier.go:160` says "Fetch the latest configuration"). An unknown channel keeps the
  old notifier. Feishu counts a JSON body without `code` as success, whatever the status. A mail has neither time-out nor context.

*Intake and addresses*

* `RefusedForItsOwn`: the unique index covers empty addresses, so that two pushes of one commit, all API requests without a pull
  request, and all events of Gitea (whose addresses are not built) are taken for one review (`model.go:89`, `:93`).
* `Submit` fills in addresses with `/merge_requests/N` where GitLab's own have `/-/`, so that
  merge events never match those. An event delivered again after a failed Submit is answered "exists". A pull request that is
  opened again keeps its merge time. Two updates may read the same revision.
* A review's provider is detected from "github." or "gitlab." anywhere in the address (`engine/utils/provider.go:24`): Gitea is always
  refused, although `README.md:58` lists it, and a GitLab project named like `x.github.io` goes to GitHub. It is
  the last one configured of its type, whether it matches or not: an address at the public GitHub is cloned
  from a configured enterprise server, and a recovered review from the server configured since. Hence
  `p = manager[p.type]` in `EventsCloneTheirProject`.
* Hosts are compared by prefix and by substring (`Longer`, `Like`); a port makes an address match nothing; GitLab and Gitea
  configured without a scheme clone from the public server (`bare`). The comment channel loses GitLab's subgroups.
  GitHub answers a bad token with an anonymous list of the public project, also for an enterprise server.

*Directories*

* `ValidRepo`: a directory with a .git is taken for a clone (`pr_manager.go:98`); one that died before its
  remote was added fails all later reviews of the repository. A recovered review of a push fails because its
  directory exists. Hence `sound` in `LaterTaskWorks`.
* HEAD that is right already is not cleaned of files that agents left. Two GitLab projects may share a directory name.

*Rule files, settings, migrations*

* Creating a rule file takes no lock, and copies what is there.
* Deleting a configuration keeps its row, which the unique index counts: the repository can never be configured again.
  An update that overlaps with the deletion brings it back.
* When the existing rows cannot be read, the mask itself is stored. Hence `faults` in `SettingsAsMeant`.
  ApplySettings is one transaction per category, and earlier ones stay after a failure. An administrator with an old view
  overwrites what he has not seen. `ProvidersFollowSettings` (`api/handler/settings.go:204`): the engine's providers are those of its start.
* `RulesKept` of Migrations: the copy of a table has no primary key, which makes the next check drop it with its
  rows, review_rules and review_rule_runs (`migration_remove_summary.go:223`; a comment admits it). A table too old for the copied columns,
  or with rows that violate the new index, fails every start.

## 7. What is not modelled

* *Within the modelled components:* logging, statistics and getters; the
  contents of prompts, answers, results and sections; parent sections of reports, which follow their leaves;
  the time-outs themselves (an outcome may be a failure at any time);
  `Resume` of the report engine, `RemoveTask` of the queue, `Delete` of rows and the single `Set` and `Delete` of settings, which no
  production code calls. Database statements are atomic; ReviewEngine, WebhookIntake, Settings, ReviewConfigs and Migrations let them fail.
  OutputDelivery takes the last answer of an endpoint, the row of the delivery log and the step to the next channel as one. Of what git leaves behind
  when it is killed, GitWorkspace has files, branches and `index.lock`, but no other lock and no rebase or merge half done. Which review_rules
  migrations drop is stated (`RulesKept` of Migrations, section 6) and not checked.
* *Between components:* each module takes what its neighbours do as a choice: a run of rules ends somehow in ReviewEngine, a clone
  succeeds or fails there, a review is queued or not in WebhookIntake. The modules share the granularity, not the
  variables; ReviewEngine, EngineShutdown and PerRepoFifo are the ones composed over one queue.
* *Outside:* git, hosting services, chat and mail services and the agents' tools are external: a command or a request ends in one of the ways the code
  tells apart. Report texts and exporters, prompts, DSL parsing and validation, statistics, telemetry and the environment check are pure
  functions or read-only, with no step that another could disturb: nothing a model checker finds that a test would not.
  Router and middleware are stateless filters. The mock stores and test helpers are not part of the program. The frontend is a client.

## 8. Plan

Done, in this order: RepoTaskQueue, Dispatcher, ReviewEngine with PerRepoFifo, RuleExecution, ReportEngine, EngineShutdown,
WebhookIntake, OutputDelivery, TaskLogs, AgentCalls, AgentStream, GitWorkspace, Settings, Notification, Migrations, ReviewConfigs, RepoAddresses;
then the proofs of section 5, of every safety property the runs check.

What would come next: rows shared between WebhookIntake, ReviewEngine and RuleExecution instead of choices at their borders; a property of
`retry_count`, which overlapping requests read, increment and write (hazard at `retry/handler.go:178`); and, wherever the code is changed
for a behaviour of section 6, the property it is there to restore, without the condition.
