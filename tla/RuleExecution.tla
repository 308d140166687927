--------------------------- MODULE RuleExecution ---------------------------
(***************************************************************************)
(* How the rules of one review are executed: by the worker that runs the   *)
(* whole review (internal/engine/runner, RunReviewWithTracking), and by    *)
(* the goroutines that RetryRule starts for single rules                   *)
(* (internal/engine/retry).  Both go through the executor                  *)
(* (internal/engine/executor), which runs a rule once or several times,    *)
(* and both end by deriving the status of the review from its rules.       *)
(*                                                                         *)
(* The rows of the database are written by single statements, and each is  *)
(* a step; database statements do not fail here.  The queue is reduced to  *)
(* whether the review has a task (ReviewEngine has the details).  A        *)
(* crash includes the restart and the recovery that follow it.             *)
(***************************************************************************)
EXTENDS Naturals, Sequences, FiniteSets

CONSTANTS
    Rules,          \* rule ids
    PreCreated,     \* the rules Submit created rows for
    Config,         \* the rules of the configuration read after cloning, in order
    Runs,           \* per rule: number of runs (MultiRun.Runs, 1 without)
    Worker,         \* the worker that has the review's task
    Retriers,       \* goroutines that retry single rules
    NoRule,
    Exclusive,      \* environment: a retry is only asked for while nobody works on the review
    RuleRetryBound, ReviewRetryBound, MaxCrashes    \* bounds on the environment

\* A configuration that loads has a rule, and none twice (Parser.Validate).
ASSUME RulesAssumption ==
    /\ PreCreated \subseteq Rules /\ PreCreated # {}
    /\ Config \in Seq(Rules)
    /\ \A i, j \in 1..Len(Config) : i # j => Config[i] # Config[j]
    /\ Runs \in [Rules -> Nat \ {0}]
    /\ Worker \notin Retriers
    /\ NoRule \notin Rules
ASSUME RuleBoundsAssumption ==
    /\ Exclusive \in BOOLEAN
    /\ RuleRetryBound \in Nat
    /\ ReviewRetryBound \in Nat
    /\ MaxCrashes \in Nat

Actors == Retriers \cup {Worker}

VARIABLES
    status,     \* reviews.status
    rule,       \* per rule: review_rules.status, "absent" without a row
    runs,       \* per rule and run index: review_rule_runs.status, where "blank"
                \* stands for completed with an empty answer
    results,    \* per rule: number of rows in review_results
    pc,         \* per actor: where it is
    target,     \* per actor: the rule it executes
    run,        \* per actor: the run of a multi-run it is at
    loaded,     \* per actor: the runs it found when it began the rule
    got,        \* per actor: the runs whose result it holds in memory
    outcome,    \* per actor: how the execution of the rule ended
    verdict,    \* per actor: what the rules it read say of the review
    index,      \* the worker's position in Config
    existing,   \* the rules the worker read when it started
    hasFailed,  \* has a rule failed in the worker's hands
    ruleRetries, reviewRetries, crashes

dbVars == <<status, rule, runs, results>>
execVars == <<target, run, loaded, got, outcome, verdict>>
workerVars == <<index, existing, hasFailed>>
boundVars == <<ruleRetries, reviewRetries, crashes>>
vars == <<dbVars, pc, execVars, workerVars, boundVars>>

ReviewStatuses == {"pending", "running", "completed", "failed", "cancelled"}
RuleStatuses == {"absent", "pending", "running", "completed", "failed"}
RunStatuses == {"absent", "running", "completed", "blank", "failed"}
Ended == {"completed", "blank"}
Open == {"pending", "running"}

NoRuns(r) == [i \in 0..Runs[r]-1 |-> "absent"]

TypeOK ==
    /\ status \in ReviewStatuses
    /\ rule \in [Rules -> RuleStatuses]
    /\ \A r \in Rules : runs[r] \in [0..Runs[r]-1 -> RunStatuses]
    /\ results \in [Rules -> Nat]
    /\ pc \in [Actors -> {"off", "queued", "claimed", "mark", "load", "next",
                          "checked", "reset", "clean", "keep",
                          "exec", "prompt", "agent", "call", "finish", "save",
                          "settle", "write", "record", "error"}]
    /\ target \in [Actors -> Rules \cup {NoRule}]
    /\ run \in [Actors -> Nat]
    /\ \A a \in Actors : got[a] \subseteq 0..run[a]
    /\ outcome \in [Actors -> {"none", "data", "text", "failed"}]
    /\ verdict \in [Actors -> {"none", "completed", "failed"}]
    /\ index \in 1..Len(Config)+1
    /\ existing \in [Rules -> RuleStatuses]
    /\ hasFailed \in BOOLEAN
    /\ ruleRetries \in 0..RuleRetryBound
    /\ reviewRetries \in 0..ReviewRetryBound
    /\ crashes \in 0..MaxCrashes

\* Submit has created the rules and queued the task.
Init ==
    /\ status = "pending"
    /\ rule = [r \in Rules |-> IF r \in PreCreated THEN "pending" ELSE "absent"]
    /\ runs = [r \in Rules |-> NoRuns(r)]
    /\ results = [r \in Rules |-> 0]
    /\ pc = [a \in Actors |-> IF a = Worker THEN "queued" ELSE "off"]
    /\ target = [a \in Actors |-> NoRule]
    /\ run = [a \in Actors |-> 0]
    /\ loaded = [a \in Actors |-> <<>>]
    /\ got = [a \in Actors |-> {}]
    /\ outcome = [a \in Actors |-> "none"]
    /\ verdict = [a \in Actors |-> "none"]
    /\ index = 1
    /\ existing = [r \in Rules |-> "absent"]
    /\ hasFailed = FALSE
    /\ ruleRetries = 0
    /\ reviewRetries = 0
    /\ crashes = 0

Goto(a, label) == pc' = [pc EXCEPT ![a] = label]
SetRule(r, s) == rule' = [rule EXCEPT ![r] = s]

-----------------------------------------------------------------------------
(* The executor, run by actor a on its target *)

\* ExecuteRule marks the rule running; a prompt that cannot be rendered fails
\* it at once.
BeginRule(a) ==
    /\ pc[a] = "exec"
    /\ SetRule(target[a], "running")
    /\ \/ Goto(a, "prompt") /\ UNCHANGED outcome
       \/ Goto(a, "finish") /\ outcome' = [outcome EXCEPT ![a] = "failed"]
    /\ UNCHANGED <<status, runs, results, target, run, loaded, got, verdict,
                   workerVars, boundVars>>

\* The row is saved whole once more, with the prompt; an agent that is not
\* configured fails the rule.  A multi-run begins by loading the runs there are.
SavePrompt(a) ==
    /\ pc[a] = "prompt"
    /\ SetRule(target[a], "running")
    /\ run' = [run EXCEPT ![a] = 0]
    /\ got' = [got EXCEPT ![a] = {}]
    /\ loaded' = [loaded EXCEPT ![a] = runs[target[a]]]
    /\ \/ Goto(a, "agent") /\ UNCHANGED outcome
       \/ Goto(a, "finish") /\ outcome' = [outcome EXCEPT ![a] = "failed"]
    /\ UNCHANGED <<status, runs, results, target, verdict, workerVars, boundVars>>

\* executeSingleRun calls the agent, again when it fails with an error worth a
\* retry, until MaxRetries is reached.  The answer is structured or plain text.
SingleRun(a) ==
    /\ pc[a] = "agent"
    /\ Runs[target[a]] = 1
    /\ \E o \in {"data", "text", "failed"} : outcome' = [outcome EXCEPT ![a] = o]
    /\ Goto(a, "finish")
    /\ UNCHANGED <<dbVars, target, run, loaded, got, verdict, workerVars, boundVars>>

\* executeMultiRun: a run that was completed before is not repeated; its answer
\* is not loaded either.
SkipRun(a) ==
    /\ pc[a] = "agent"
    /\ Runs[target[a]] > 1
    /\ run[a] < Runs[target[a]]
    /\ loaded[a][run[a]] \in Ended
    /\ run' = [run EXCEPT ![a] = @ + 1]
    /\ UNCHANGED <<dbVars, pc, target, loaded, got, outcome, verdict, workerVars, boundVars>>

\* Any other run gets a row, or the row it has, in state running; with a new
\* row goes a save of the rule, which is running in the actor's memory ...
StartRun(a) ==
    /\ pc[a] = "agent"
    /\ Runs[target[a]] > 1
    /\ run[a] < Runs[target[a]]
    /\ loaded[a][run[a]] \notin Ended
    /\ runs' = [runs EXCEPT ![target[a]][run[a]] = "running"]
    /\ IF loaded[a][run[a]] = "absent" THEN SetRule(target[a], "running") ELSE UNCHANGED rule
    /\ Goto(a, "call")
    /\ UNCHANGED <<status, results, execVars, workerVars, boundVars>>

\* ... and ends with an answer, an empty one or, after the retries, an error.
EndRun(a) ==
    /\ pc[a] = "call"
    /\ \/ /\ runs' = [runs EXCEPT ![target[a]][run[a]] = "completed"]
          /\ got' = [got EXCEPT ![a] = @ \cup {run[a]}]
       \/ /\ \E s \in {"blank", "failed"} : runs' = [runs EXCEPT ![target[a]][run[a]] = s]
          /\ UNCHANGED got
    /\ run' = [run EXCEPT ![a] = @ + 1]
    /\ Goto(a, "agent")
    /\ UNCHANGED <<status, rule, results, target, loaded, outcome, verdict,
                   workerVars, boundVars>>

\* Mutant: one run without an answer fails the rule.
MergeAllOrNothing(a) ==
    /\ pc[a] = "agent"
    /\ Runs[target[a]] > 1
    /\ run[a] = Runs[target[a]]
    /\ \E o \in IF Cardinality(got[a]) < Runs[target[a]] THEN {"failed"} ELSE {"data", "text"} :
          outcome' = [outcome EXCEPT ![a] = o]
    /\ Goto(a, "finish")
    /\ UNCHANGED <<dbVars, target, run, loaded, got, verdict, workerVars, boundVars>>

\* The answers in memory are merged (when the merge fails, the first is
\* taken); without any the rule fails.
MergeRuns(a) ==
    /\ pc[a] = "agent"
    /\ Runs[target[a]] > 1
    /\ run[a] = Runs[target[a]]
    /\ \E o \in IF got[a] = {} THEN {"failed"} ELSE {"data", "text"} :
          outcome' = [outcome EXCEPT ![a] = o]
    /\ Goto(a, "finish")
    /\ UNCHANGED <<dbVars, target, run, loaded, got, verdict, workerVars, boundVars>>

\* UpdateReviewRuleAfterExecution.
FinishRule(a) ==
    /\ pc[a] = "finish"
    /\ SetRule(target[a], IF outcome[a] = "failed" THEN "failed" ELSE "completed")
    /\ hasFailed' = (hasFailed \/ (a = Worker /\ outcome[a] = "failed"))
    /\ Goto(a, "save")
    /\ UNCHANGED <<status, runs, results, execVars, index, existing, boundVars>>

\* CreateResult stores structured answers; then the result is published and
\* the worker goes on with the next rule.
SaveResult(a) ==
    /\ pc[a] = "save"
    /\ results' = IF outcome[a] = "data"
                  THEN [results EXCEPT ![target[a]] = @ + 1] ELSE results
    /\ target' = [target EXCEPT ![a] = NoRule]
    /\ outcome' = [outcome EXCEPT ![a] = "none"]
    /\ IF a = Worker
       THEN index' = index + 1 /\ Goto(a, "next")
       ELSE UNCHANGED index /\ Goto(a, "settle")
    /\ UNCHANGED <<status, rule, runs, run, loaded, got, verdict, existing, hasFailed, boundVars>>

Execute(a) ==
    \/ BeginRule(a) \/ SavePrompt(a) \/ SingleRun(a) \/ SkipRun(a) \/ StartRun(a) \/ EndRun(a)
    \/ MergeRuns(a) \/ FinishRule(a) \/ SaveResult(a)

-----------------------------------------------------------------------------
(* UpdateReviewStatusAfterRuleExecution *)

Rows == {r \in Rules : rule[r] # "absent"}
AllCompleted == \A r \in Rows : rule[r] = "completed"

\* Mutant: the review follows a running rule.
VerdictRunning ==
    IF \E r \in Rows : rule[r] = "running" THEN "running"
    ELSE IF AllCompleted THEN "completed"
    ELSE IF \E r \in Rows : rule[r] = "failed" THEN "failed"
    ELSE "none"

\* Mutant: a rule that has ended counts as completed.
VerdictEnded ==
    IF \E r \in Rows : rule[r] = "running" THEN "none"
    ELSE IF \A r \in Rows : rule[r] \in {"completed", "failed"} THEN "completed"
    ELSE IF \E r \in Rows : rule[r] = "failed" THEN "failed"
    ELSE "none"

\* What the rules say of the review: nothing while one is running, and nothing
\* when some are neither completed nor failed.
Verdict ==
    IF \E r \in Rows : rule[r] = "running" THEN "none"
    ELSE IF AllCompleted THEN "completed"
    ELSE IF \E r \in Rows : rule[r] = "failed" THEN "failed"
    ELSE "none"

ReadRules(a) ==
    /\ pc[a] = "settle"
    /\ verdict' = [verdict EXCEPT ![a] = Verdict]
    /\ Goto(a, "write")
    /\ UNCHANGED <<dbVars, target, run, loaded, got, outcome, workerVars, boundVars>>

\* The status is written without looking at what it is by now; the worker then
\* reports an error if a rule failed in its own hands.
WriteVerdict(a) ==
    /\ pc[a] = "write"
    /\ status' = IF verdict[a] = "none" THEN status ELSE verdict[a]
    /\ verdict' = [verdict EXCEPT ![a] = "none"]
    /\ Goto(a, IF a = Worker /\ hasFailed THEN "record" ELSE "off")
    /\ UNCHANGED <<rule, runs, results, target, run, loaded, got, outcome,
                   workerVars, boundVars>>

-----------------------------------------------------------------------------
(* The worker *)

\* processTask drops a review that is not open and claims one that is.
Claim ==
    /\ pc[Worker] = "queued"
    /\ IF status \in Open
       THEN status' = "running" /\ Goto(Worker, "claimed")
       ELSE UNCHANGED status /\ Goto(Worker, "off")
    /\ UNCHANGED <<rule, runs, results, execVars, workerVars, boundVars>>

\* The repository is cloned and the configuration read, or the review fails.
Prepare ==
    /\ pc[Worker] = "claimed"
    /\ \/ Goto(Worker, "mark") \/ Goto(Worker, "error")
    /\ UNCHANGED <<dbVars, execVars, workerVars, boundVars>>

\* The status is set to running again.
MarkRunning ==
    /\ pc[Worker] = "mark"
    /\ status' = "running"
    /\ Goto(Worker, "load")
    /\ UNCHANGED <<rule, runs, results, execVars, workerVars, boundVars>>

\* RunReviewWithTracking reads the rules there are; a configuration without
\* rules ends the run as it is.
LoadRules ==
    /\ pc[Worker] = "load"
    /\ existing' = rule
    /\ index' = 1
    /\ hasFailed' = FALSE
    /\ Goto(Worker, IF Config = <<>> THEN "off" ELSE "next")
    /\ UNCHANGED <<dbVars, execVars, boundVars>>

\* A rule that was completed when the worker started is skipped ...
SkipRule ==
    /\ pc[Worker] = "next"
    /\ index <= Len(Config)
    /\ existing[Config[index]] = "completed"
    /\ index' = index + 1
    /\ UNCHANGED <<dbVars, pc, execVars, existing, hasFailed, boundVars>>

\* Mutant: completed rules are executed again.
StartAnyRule ==
    /\ pc[Worker] = "next"
    /\ index <= Len(Config)
    /\ SetRule(Config[index], "running")
    /\ target' = [target EXCEPT ![Worker] = Config[index]]
    /\ Goto(Worker, "exec")
    /\ UNCHANGED <<status, runs, results, run, loaded, got, outcome, verdict,
                   workerVars, boundVars>>

\* ... and any other is marked running, or gets a row that is, and executed.
StartRule ==
    /\ pc[Worker] = "next"
    /\ index <= Len(Config)
    /\ existing[Config[index]] # "completed"
    /\ SetRule(Config[index], "running")
    /\ target' = [target EXCEPT ![Worker] = Config[index]]
    /\ Goto(Worker, "exec")
    /\ UNCHANGED <<status, runs, results, run, loaded, got, outcome, verdict,
                   workerVars, boundVars>>

RulesDone ==
    /\ pc[Worker] = "next"
    /\ index > Len(Config)
    /\ Goto(Worker, "settle")
    /\ UNCHANGED <<dbVars, execVars, workerVars, boundVars>>

\* processTask marks the review failed when the run reports an error ...
RecordFailure ==
    /\ pc[Worker] = "record"
    /\ status' = "failed"
    /\ Goto(Worker, "error")
    /\ UNCHANGED <<rule, runs, results, execVars, workerVars, boundVars>>

\* ... and onError, called by handleError, once more.
HandleError ==
    /\ pc[Worker] = "error"
    /\ status' = "failed"
    /\ Goto(Worker, "off")
    /\ UNCHANGED <<rule, runs, results, execVars, workerVars, boundVars>>

WorkerStep ==
    \/ Claim \/ Prepare \/ MarkRunning \/ LoadRules
    \/ SkipRule \/ StartRule \/ RulesDone
    \/ Execute(Worker) \/ ReadRules(Worker) \/ WriteVerdict(Worker)
    \/ RecordFailure \/ HandleError

-----------------------------------------------------------------------------
(* RetryRule *)

Idle == \A a \in Actors : pc[a] = "off"

\* A request to retry rule r: the rule must have failed; nothing is asked of
\* the review.
RetryRule(a, r) ==
    /\ pc[a] = "off"
    /\ rule[r] = "failed"
    /\ Exclusive => Idle
    /\ ruleRetries < RuleRetryBound
    /\ ruleRetries' = ruleRetries + 1
    /\ target' = [target EXCEPT ![a] = r]
    /\ Goto(a, "checked")
    /\ UNCHANGED <<dbVars, run, loaded, got, outcome, verdict, workerVars,
                   reviewRetries, crashes>>

\* ResetRuleState, one transaction.
ResetRuleState(a) ==
    /\ pc[a] = "checked"
    /\ SetRule(target[a], "running")
    /\ status' = IF status = "failed" THEN "running" ELSE status
    /\ runs' = [runs EXCEPT ![target[a]] = NoRuns(target[a])]
    /\ results' = [results EXCEPT ![target[a]] = 0]
    /\ Goto(a, "reset")
    /\ UNCHANGED <<execVars, workerVars, boundVars>>

\* The rule is read again and the goroutine started: whether it deletes what
\* executions left behind depends on the status read here.
Spawn(a) ==
    /\ pc[a] = "reset"
    /\ Goto(a, IF rule[target[a]] \in {"failed", "running"} THEN "clean" ELSE "keep")
    /\ UNCHANGED <<dbVars, execVars, workerVars, boundVars>>

\* Mutant: the review is not looked at again.
RetryFailsUnsettled(a) ==
    /\ pc[a] \in {"clean", "keep"}
    /\ SetRule(target[a], "failed")
    /\ target' = [target EXCEPT ![a] = NoRule]
    /\ Goto(a, "off")
    /\ UNCHANGED <<status, runs, results, run, loaded, got, outcome, verdict,
                   workerVars, boundVars>>

\* No configuration, or the rule is not in it: the rule fails.
RetryFails(a) ==
    /\ pc[a] \in {"clean", "keep"}
    /\ SetRule(target[a], "failed")
    /\ target' = [target EXCEPT ![a] = NoRule]
    /\ Goto(a, "settle")
    /\ UNCHANGED <<status, runs, results, run, loaded, got, outcome, verdict,
                   workerVars, boundVars>>

\* ExecuteSingleRule.
RetryStarts(a) ==
    /\ pc[a] \in {"clean", "keep"}
    /\ IF pc[a] = "clean"
       THEN /\ runs' = [runs EXCEPT ![target[a]] = NoRuns(target[a])]
            /\ results' = [results EXCEPT ![target[a]] = 0]
       ELSE UNCHANGED <<runs, results>>
    /\ Goto(a, "exec")
    /\ UNCHANGED <<status, rule, execVars, workerVars, boundVars>>

RetrierStep(a) ==
    \/ ResetRuleState(a) \/ Spawn(a) \/ RetryFails(a) \/ RetryStarts(a)
    \/ Execute(a) \/ ReadRules(a) \/ WriteVerdict(a)

-----------------------------------------------------------------------------
(* The rest of the system *)

CancelReview ==
    /\ status \in Open
    /\ status' = "cancelled"
    /\ UNCHANGED <<rule, runs, results, pc, execVars, workerVars, boundVars>>

\* Mutant: the results are kept.
RetryReviewKeeping ==
    /\ status = "failed"
    /\ pc[Worker] = "off"
    /\ Exclusive => Idle
    /\ reviewRetries < ReviewRetryBound
    /\ reviewRetries' = reviewRetries + 1
    /\ status' = "pending"
    /\ rule' = [r \in Rules |-> IF rule[r] = "absent" THEN "absent" ELSE "pending"]
    /\ runs' = [r \in Rules |-> NoRuns(r)]
    /\ Goto(Worker, "queued")
    /\ UNCHANGED <<results, execVars, workerVars, ruleRetries, crashes>>

\* Retry of the whole review, from the look at its row to the queued task: it
\* must have failed and have no task.  ResetReviewState resets every rule.
RetryReview ==
    /\ status = "failed"
    /\ pc[Worker] = "off"
    /\ Exclusive => Idle
    /\ reviewRetries < ReviewRetryBound
    /\ reviewRetries' = reviewRetries + 1
    /\ status' = "pending"
    /\ rule' = [r \in Rules |-> IF rule[r] = "absent" THEN "absent" ELSE "pending"]
    /\ runs' = [r \in Rules |-> NoRuns(r)]
    /\ results' = [r \in Rules |-> 0]
    /\ Goto(Worker, "queued")
    /\ UNCHANGED <<execVars, workerVars, ruleRetries, crashes>>

\* The server dies and comes back: an open review gets a task again, or is
\* given up.
CrashAndRecover ==
    /\ crashes < MaxCrashes
    /\ crashes' = crashes + 1
    /\ \E recovered \in BOOLEAN :
        /\ pc' = [a \in Actors |->
                    IF a = Worker /\ status \in Open /\ recovered THEN "queued" ELSE "off"]
        /\ status' = IF status \in Open /\ ~recovered THEN "failed" ELSE status
    /\ target' = [a \in Actors |-> NoRule]
    /\ run' = [a \in Actors |-> 0]
    /\ loaded' = [a \in Actors |-> <<>>]
    /\ got' = [a \in Actors |-> {}]
    /\ outcome' = [a \in Actors |-> "none"]
    /\ verdict' = [a \in Actors |-> "none"]
    /\ UNCHANGED <<rule, runs, results, workerVars, ruleRetries, reviewRetries>>

Next ==
    \/ WorkerStep
    \/ \E a \in Retriers : RetrierStep(a)
    \/ \E a \in Retriers, r \in Rules : RetryRule(a, r)
    \/ CancelReview
    \/ RetryReview
    \/ CrashAndRecover

Spec == Init /\ [][Next]_vars

\* The goroutines are scheduled and agents answer or time out.
FairSpec == Spec /\ WF_vars(WorkerStep) /\ \A a \in Retriers : WF_vars(RetrierStep(a))

-----------------------------------------------------------------------------
(* Properties *)

\* Unless the server crashed, the status of a review that nobody works on
\* follows from its rules: it is completed exactly if all of them are.
StatusFollowsRules ==
    crashes = 0 /\ Idle /\ status \in {"completed", "failed"}
        => (status = "completed" <=> AllCompleted)

\* Retries and resumed reviews never leave two results of one rule.
OneResult == \A r \in Rules : results[r] <= 1

\* The work of a completed rule is not done again, unless the whole review is
\* reset.
CompletedKept ==
    [][\A r \in Rules : rule[r] = "completed" /\ rule'[r] # "completed"
          => status = "failed" /\ status' = "pending"]_rule

\* A rule with several runs counts as completed only on the answer of one of
\* them, and as failed only when none had one, unless a crash came between.
CompletedHasRun ==
    \A r \in Rules : rule[r] = "completed" /\ Runs[r] > 1
        => \E i \in DOMAIN runs[r] : runs[r][i] = "completed"
FailedHasNoRun ==
    \A r \in Rules : crashes = 0 /\ rule[r] = "failed" /\ Runs[r] > 1
        => \A i \in DOMAIN runs[r] : runs[r][i] # "completed"
RuleFollowsRuns == CompletedHasRun /\ FailedHasNoRun

\* Every open review is settled in the end and every retried rule ends,
\* whatever retries overlap with them.
WorkEnds ==
    /\ status \in Open ~> status \notin Open
    /\ \A r \in Rules : rule[r] = "running" ~> rule[r] # "running"
=============================================================================
