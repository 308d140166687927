------------------------ MODULE RuleExecutionProofs ------------------------
(***************************************************************************)
(* Theorems about RuleExecution, for every value of its constants: any     *)
(* number of rules, runs, retries and crashes.                             *)
(*                                                                         *)
(* All but typing assume what the runs do: Exclusive, that a retry is only *)
(* asked for while nobody works on the review.  The code does not see to   *)
(* it for single rules, and two executions of one rule can end with two    *)
(* results.                                                                *)
(***************************************************************************)
EXTENDS RuleExecution, SequenceTheorems, TLAPS

Calling == {"agent", "call"}
Executing == {"exec", "prompt", "agent", "call", "finish", "save"}
Retrying == {"checked", "reset", "clean", "keep"}
Settling == {"settle", "write"}
WorkersOwn == {"queued", "claimed", "mark", "load", "next", "record", "error"}
Labels == Executing \cup Retrying \cup Settling \cup WorkersOwn \cup {"off"}

-----------------------------------------------------------------------------
(* Typing *)

DbPart ==
    /\ status \in ReviewStatuses
    /\ rule \in [Rules -> RuleStatuses]
    /\ runs = [r \in Rules |-> runs[r]]
    /\ \A r \in Rules : runs[r] \in [0..Runs[r]-1 -> RunStatuses]
    /\ results \in [Rules -> Nat]

\* Who executes a rule, or retries one, has it as its target.
PlacePart ==
    /\ pc \in [Actors -> Labels]
    /\ target \in [Actors -> Rules \cup {NoRule}]
    /\ \A a \in Actors : pc[a] \in Executing \cup Retrying => target[a] \in Rules
    /\ \A a \in Retriers : pc[a] \notin WorkersOwn
    /\ pc[Worker] \notin Retrying

HandPart ==
    /\ run \in [Actors -> Nat]
    /\ got = [a \in Actors |-> got[a]]
    /\ \A a \in Actors : got[a] \subseteq 0..run[a]-1
    /\ outcome \in [Actors -> {"none", "data", "text", "failed"}]
    /\ verdict \in [Actors -> {"none", "completed", "failed"}]

WorkerPart ==
    /\ index \in 1..Len(Config)+1
    /\ pc[Worker] \in Executing => index <= Len(Config)
    /\ existing \in [Rules -> RuleStatuses]
    /\ hasFailed \in BOOLEAN

BoundPart ==
    /\ ruleRetries \in 0..RuleRetryBound
    /\ reviewRetries \in 0..ReviewRetryBound
    /\ crashes \in 0..MaxCrashes

TypeInv == DbPart /\ PlacePart /\ HandPart /\ WorkerPart /\ BoundPart

\* Moving an actor, the target of which may be dropped or be a rule.
LEMMA ActorMoves ==
    ASSUME PlacePart, NEW a \in Actors, NEW label \in Labels, Goto(a, label),
           \/ UNCHANGED target /\ (label \in Executing \cup Retrying => pc[a] \in Executing \cup Retrying)
           \/ target' = [target EXCEPT ![a] = NoRule] /\ label \notin Executing \cup Retrying
           \/ \E r \in Rules : target' = [target EXCEPT ![a] = r],
           IF a = Worker THEN label \notin Retrying ELSE label \notin WorkersOwn
    PROVE  PlacePart'
<1>1. /\ pc' \in [Actors -> Labels] /\ pc'[a] = label
      /\ \A b \in Actors : b # a => pc'[b] = pc[b]
  BY DEF PlacePart, Goto
<1>2. /\ target' \in [Actors -> Rules \cup {NoRule}]
      /\ \A b \in Actors : b # a => target'[b] = target[b]
      /\ label \in Executing \cup Retrying => target'[a] \in Rules
  BY DEF PlacePart
<1>3. /\ \A b \in Retriers : pc'[b] \notin WorkersOwn
      /\ pc'[Worker] \notin Retrying
  BY <1>1, RulesAssumption DEF PlacePart, Actors
<1> QED
  BY <1>1, <1>2, <1>3 DEF PlacePart

LEMMA InitTyped == Init => TypeInv
<1> SUFFICES ASSUME Init PROVE TypeInv
  OBVIOUS
<1>1. DbPart
  BY RulesAssumption DEF Init, DbPart, NoRuns, ReviewStatuses, RuleStatuses, RunStatuses
<1>2. PlacePart
  BY RulesAssumption DEF Init, PlacePart, Actors, Labels, Executing, Retrying, Settling, WorkersOwn
<1>6. HandPart
  BY DEF Init, HandPart
<1>3. hasFailed \in BOOLEAN
  BY DEF Init
<1>4. index \in 1..Len(Config)+1 /\ (pc[Worker] \in Executing => index <= Len(Config)) /\ existing \in [Rules -> RuleStatuses]
  BY RulesAssumption DEF Init, Actors, Executing, RuleStatuses
<1>5. BoundPart
  BY RuleBoundsAssumption DEF Init, BoundPart
<1> QED
  BY <1>1, <1>2, <1>3, <1>4, <1>5, <1>6 DEF TypeInv, WorkerPart

\* What the steps of an execution do to the rows.
LEMMA ExecuteDb ==
    ASSUME DbPart, PlacePart, NEW a \in Actors, Execute(a)
    PROVE  DbPart'
<1>1. pc[a] \in Executing => target[a] \in Rules
  BY DEF PlacePart
<1>2. CASE BeginRule(a) \/ SavePrompt(a) \/ FinishRule(a)
  BY <1>2 DEF BeginRule, SavePrompt, FinishRule, SetRule, DbPart, RuleStatuses
<1>3. CASE SingleRun(a) \/ SkipRun(a) \/ MergeRuns(a)
  BY <1>3 DEF SingleRun, SkipRun, MergeRuns, DbPart, dbVars
<1>4. CASE StartRun(a) \/ EndRun(a)
  <2>1. target[a] \in Rules
    BY <1>1, <1>4 DEF StartRun, EndRun, Executing
  <2>2. PICK s \in RunStatuses : runs' = [runs EXCEPT ![target[a]] = [runs[target[a]] EXCEPT ![run[a]] = s]]
    BY <1>4 DEF StartRun, EndRun, RunStatuses
  <2>3. [runs[target[a]] EXCEPT ![run[a]] = s] \in [0..Runs[target[a]]-1 -> RunStatuses]
    BY <2>1 DEF DbPart
  <2>4. rule' \in [Rules -> RuleStatuses] /\ UNCHANGED <<status, results>>
    BY <1>4 DEF StartRun, EndRun, SetRule, DbPart, RuleStatuses
  <2>5. /\ runs' = [r \in Rules |-> runs'[r]]
        /\ \A r \in Rules : runs'[r] \in [0..Runs[r]-1 -> RunStatuses]
    BY <2>1, <2>2, <2>3 DEF DbPart
  <2> QED
    BY <2>4, <2>5 DEF DbPart
<1>5. CASE SaveResult(a)
  BY <1>1, <1>5 DEF SaveResult, DbPart, Executing
<1> QED
  BY <1>2, <1>3, <1>4, <1>5 DEF Execute

\* And to the actor itself.
LEMMA ExecutePlace ==
    ASSUME PlacePart, NEW a \in Actors, Execute(a)
    PROVE  PlacePart'
<1>1. pc[a] \in Executing
  BY DEF Execute, BeginRule, SavePrompt, SingleRun, SkipRun, StartRun, EndRun, MergeRuns, FinishRule,
         SaveResult, Executing
<1>2. CASE SaveResult(a)
  <2>1. PICK label \in {"next", "settle"} : Goto(a, label) /\ (label = "next" => a = Worker)
    BY <1>2 DEF SaveResult
  <2>2. target' = [target EXCEPT ![a] = NoRule]
    BY <1>2 DEF SaveResult
  <2>3. label \in Labels /\ label \notin Executing \cup Retrying /\ (label \in WorkersOwn => a = Worker)
    BY <2>1 DEF Labels, Executing, Retrying, Settling, WorkersOwn
  <2> QED
    BY <2>1, <2>2, <2>3, ActorMoves
<1>3. CASE SkipRun(a)
  BY <1>3 DEF SkipRun, PlacePart
<1>4. CASE ~SaveResult(a) /\ ~SkipRun(a)
  <2>1. PICK label \in {"prompt", "agent", "call", "finish", "save"} : Goto(a, label)
    BY <1>4 DEF Execute, BeginRule, SavePrompt, SingleRun, StartRun, EndRun, MergeRuns, FinishRule
  <2>2. UNCHANGED target
    BY <1>4 DEF Execute, BeginRule, SavePrompt, SingleRun, StartRun, EndRun, MergeRuns, FinishRule, execVars
  <2>3. label \in Labels /\ label \in Executing /\ label \notin Retrying /\ label \notin WorkersOwn
    BY <2>1 DEF Labels, Executing, Retrying, WorkersOwn
  <2> QED
    BY <1>1, <2>1, <2>2, <2>3, ActorMoves
<1> QED
  BY <1>2, <1>3, <1>4

LEMMA ExecuteHand ==
    ASSUME HandPart, NEW a \in Actors, Execute(a)
    PROVE  HandPart'
<1>1. UNCHANGED verdict
  BY DEF Execute, BeginRule, SavePrompt, SingleRun, SkipRun, StartRun, EndRun, MergeRuns, FinishRule,
         SaveResult, execVars
<1>2. outcome' \in [Actors -> {"none", "data", "text", "failed"}]
  BY DEF Execute, BeginRule, SavePrompt, SingleRun, SkipRun, StartRun, EndRun, MergeRuns, FinishRule,
         SaveResult, execVars, HandPart
<1>3. CASE UNCHANGED <<run, got>>
  BY <1>1, <1>2, <1>3 DEF HandPart
<1>4. CASE run' = [run EXCEPT ![a] = 0] /\ got' = [got EXCEPT ![a] = {}]
  BY <1>1, <1>2, <1>4 DEF HandPart
<1>5. CASE /\ run' = [run EXCEPT ![a] = run[a] + 1]
           /\ got' = [got EXCEPT ![a] = got[a] \cup {run[a]}] \/ UNCHANGED got
  <2>1. run[a] \in Nat /\ 0..run[a]-1 \subseteq 0..(run[a]+1)-1 /\ run[a] \in 0..(run[a]+1)-1
    BY DEF HandPart
  <2>2. got'[a] \subseteq 0..run'[a]-1
    BY <1>5, <2>1 DEF HandPart
  <2>3. \A b \in Actors : b # a => got'[b] = got[b] /\ run'[b] = run[b]
    BY <1>5 DEF HandPart
  <2>4. got' = [b \in Actors |-> got'[b]] /\ run' \in [Actors -> Nat]
    BY <1>5, <2>1 DEF HandPart
  <2>5. \A b \in Actors : got'[b] \subseteq 0..run'[b]-1
    BY <2>2, <2>3 DEF HandPart
  <2> QED
    BY <1>1, <1>2, <2>4, <2>5 DEF HandPart
<1> QED
  BY <1>3, <1>4, <1>5 DEF Execute, BeginRule, SavePrompt, SingleRun, SkipRun, StartRun, EndRun, MergeRuns,
     FinishRule, SaveResult, execVars

LEMMA ExecuteWorker ==
    ASSUME PlacePart, WorkerPart, NEW a \in Actors, Execute(a)
    PROVE  WorkerPart'
<1>1. pc[a] \in Executing
  BY DEF Execute, BeginRule, SavePrompt, SingleRun, SkipRun, StartRun, EndRun, MergeRuns, FinishRule,
         SaveResult, Executing
<1>2. UNCHANGED existing
  BY DEF Execute, BeginRule, SavePrompt, SingleRun, SkipRun, StartRun, EndRun, MergeRuns, FinishRule,
         SaveResult, workerVars
<1>3. hasFailed' \in BOOLEAN
  BY DEF Execute, BeginRule, SavePrompt, SingleRun, SkipRun, StartRun, EndRun, MergeRuns, FinishRule,
         SaveResult, workerVars, WorkerPart
<1>4. index' \in 1..Len(Config)+1 /\ (pc'[Worker] \in Executing => index' <= Len(Config))
  <2>1. CASE a # Worker
    <3>1. index' = index /\ pc'[Worker] = pc[Worker]
      BY <2>1 DEF Execute, BeginRule, SavePrompt, SingleRun, SkipRun, StartRun, EndRun, MergeRuns,
             FinishRule, SaveResult, workerVars, Goto, PlacePart, Actors
    <3> QED
      BY <3>1 DEF WorkerPart
  <2>2. CASE a = Worker /\ SaveResult(a)
    <3>1. index <= Len(Config) /\ index \in Nat \ {0} /\ Len(Config) \in Nat
      BY <1>1, <2>2, RulesAssumption DEF WorkerPart
    <3>2. index' = index + 1 /\ pc'[Worker] = "next"
      BY <2>2 DEF SaveResult, Goto, PlacePart, Actors
    <3> QED
      BY <3>1, <3>2 DEF Executing
  <2>3. CASE a = Worker /\ ~SaveResult(a)
    <3>1. UNCHANGED index
      BY <2>3 DEF Execute, BeginRule, SavePrompt, SingleRun, SkipRun, StartRun, EndRun, MergeRuns,
             FinishRule, workerVars
    <3> QED
      BY <1>1, <2>3, <3>1 DEF WorkerPart
  <2> QED
    BY <2>1, <2>2, <2>3
<1> QED
  BY <1>2, <1>3, <1>4 DEF WorkerPart

LEMMA ExecuteTyped ==
    ASSUME TypeInv, NEW a \in Actors, Execute(a)
    PROVE  TypeInv'
<1>1. BoundPart'
  BY DEF Execute, BeginRule, SavePrompt, SingleRun, SkipRun, StartRun, EndRun, MergeRuns, FinishRule,
         SaveResult, boundVars, TypeInv, BoundPart
<1> QED
  BY <1>1, ExecuteDb, ExecutePlace, ExecuteHand, ExecuteWorker DEF TypeInv

\* Settling the review.
LEMMA SettleTyped ==
    ASSUME TypeInv, NEW a \in Actors, ReadRules(a) \/ WriteVerdict(a)
    PROVE  TypeInv'
<1> USE DEF TypeInv
<1>1. /\ pc[a] \in Settling
      /\ UNCHANGED <<rule, runs, results, target, run, got, outcome, index, existing, hasFailed,
                     ruleRetries, reviewRetries, crashes>>
  BY DEF ReadRules, WriteVerdict, dbVars, workerVars, boundVars, Settling
<1>2. BoundPart'
  BY <1>1 DEF BoundPart
<1>3. DbPart'
  <2>1. status' \in ReviewStatuses
    BY DEF ReadRules, WriteVerdict, dbVars, DbPart, HandPart, ReviewStatuses
  <2> QED
    BY <1>1, <2>1 DEF DbPart
<1>4. \E label \in Settling \cup {"record", "off"} :
          pc' = [pc EXCEPT ![a] = label] /\ (label = "record" => a = Worker)
  BY DEF ReadRules, WriteVerdict, Goto, Settling
<1>5. PlacePart' /\ HandPart'
  <2>1. verdict' \in [Actors -> {"none", "completed", "failed"}]
    BY DEF ReadRules, WriteVerdict, Verdict, HandPart
  <2>2. HandPart'
    BY <1>1, <2>1 DEF HandPart
  <2>3. \A label \in Settling \cup {"record", "off"} :
            label \in Labels /\ label \notin Executing \cup Retrying /\ (label \in WorkersOwn => label = "record")
    BY DEF Labels, Executing, Retrying, Settling, WorkersOwn
  <2>4. PlacePart'
    BY <1>1, <1>4, <2>3, ActorMoves DEF Goto
  <2> QED
    BY <2>2, <2>4
<1>6. WorkerPart'
  BY <1>1, <1>4 DEF WorkerPart, PlacePart, Actors, Executing, Settling
<1> QED
  BY <1>2, <1>3, <1>5, <1>6

\* The steps of the worker beside those.
LEMMA WorkerTyped ==
    ASSUME TypeInv, WorkerStep
    PROVE  TypeInv'
<1> USE DEF TypeInv
<1>1. Worker \in Actors /\ Len(Config) \in Nat /\ \A i \in 1..Len(Config) : Config[i] \in Rules
  BY RulesAssumption DEF Actors
<1>2. CASE Execute(Worker) \/ ReadRules(Worker) \/ WriteVerdict(Worker)
  BY <1>1, <1>2, ExecuteTyped, SettleTyped
<1>3. CASE Claim \/ Prepare \/ MarkRunning \/ RecordFailure \/ HandleError \/ RulesDone
  <2>1. /\ UNCHANGED <<rule, runs, results, target, run, got, outcome, verdict, index, existing, hasFailed,
                       ruleRetries, reviewRetries, crashes>>
        /\ status' = status \/ status' \in ReviewStatuses
        /\ \E label \in {"claimed", "mark", "error", "load", "off", "settle"} : Goto(Worker, label)
    BY <1>3 DEF Claim, Prepare, MarkRunning, RecordFailure, HandleError, RulesDone,
           dbVars, execVars, workerVars, boundVars, ReviewStatuses
  <2>2. PlacePart' /\ HandPart'
    BY <1>1, <2>1, ActorMoves DEF HandPart, Labels, Executing, Retrying, Settling, WorkersOwn
  <2>3. DbPart' /\ BoundPart'
    BY <2>1 DEF DbPart, BoundPart
  <2>4. WorkerPart'
    BY <1>1, <2>1 DEF WorkerPart, PlacePart, Goto, Executing
  <2> QED
    BY <2>2, <2>3, <2>4
<1>4. CASE LoadRules
  <2>1. /\ existing' = rule /\ index' = 1 /\ hasFailed' = FALSE
        /\ UNCHANGED <<status, rule, runs, results, target, run, got, outcome, verdict,
                       ruleRetries, reviewRetries, crashes>>
        /\ \E label \in {"off", "next"} : Goto(Worker, label)
    BY <1>4 DEF LoadRules, dbVars, execVars, boundVars
  <2>2. PlacePart' /\ HandPart'
    BY <1>1, <2>1, ActorMoves DEF HandPart, Labels, Executing, Retrying, Settling, WorkersOwn
  <2>3. DbPart' /\ BoundPart'
    BY <2>1 DEF DbPart, BoundPart
  <2>4. hasFailed' \in BOOLEAN
    BY <2>1
  <2>5. pc'[Worker] \notin Executing /\ index' \in 1..Len(Config)+1 /\ existing' \in [Rules -> RuleStatuses]
    BY <1>1, <2>1 DEF DbPart, PlacePart, Goto, Executing
  <2> QED
    BY <2>2, <2>3, <2>4, <2>5 DEF WorkerPart
<1>5. CASE SkipRule
  <2>1. /\ UNCHANGED <<status, rule, runs, results, pc, target, run, got, outcome, verdict, existing, hasFailed,
                       ruleRetries, reviewRetries, crashes>>
        /\ pc[Worker] = "next" /\ index <= Len(Config) /\ index' = index + 1
    BY <1>5 DEF SkipRule, dbVars, execVars, boundVars
  <2>2. PlacePart' /\ HandPart' /\ DbPart' /\ BoundPart'
    BY <2>1 DEF PlacePart, HandPart, DbPart, BoundPart
  <2>3. WorkerPart'
    BY <1>1, <2>1 DEF WorkerPart, Executing
  <2> QED
    BY <2>2, <2>3
<1>6. CASE StartRule
  <2>1. /\ pc[Worker] = "next" /\ index <= Len(Config)
        /\ rule' = [rule EXCEPT ![Config[index]] = "running"]
        /\ target' = [target EXCEPT ![Worker] = Config[index]]
        /\ Goto(Worker, "exec")
        /\ UNCHANGED <<status, runs, results, run, got, outcome, verdict, index, existing, hasFailed,
                       ruleRetries, reviewRetries, crashes>>
    BY <1>6 DEF StartRule, SetRule, workerVars, boundVars
  <2>2. Config[index] \in Rules
    BY <1>1, <2>1 DEF WorkerPart
  <2>3. PlacePart' /\ HandPart'
    BY <1>1, <2>1, <2>2, ActorMoves DEF HandPart, Labels, Executing, Retrying, Settling, WorkersOwn
  <2>4. DbPart' /\ BoundPart'
    BY <2>1 DEF DbPart, BoundPart, RuleStatuses
  <2>5. WorkerPart'
    BY <1>1, <2>1 DEF WorkerPart, Executing
  <2> QED
    BY <2>3, <2>4, <2>5
<1> QED
  BY <1>2, <1>3, <1>4, <1>5, <1>6 DEF WorkerStep

\* The steps of RetryRule.
LEMMA RetrierTyped ==
    ASSUME TypeInv, NEW a \in Retriers, RetrierStep(a) \/ \E r \in Rules : RetryRule(a, r)
    PROVE  TypeInv'
<1> USE DEF TypeInv
<1>1. a \in Actors /\ Worker \in Actors /\ a # Worker
  BY RulesAssumption DEF Actors
<1>2. CASE Execute(a) \/ ReadRules(a) \/ WriteVerdict(a)
  BY <1>1, <1>2, ExecuteTyped, SettleTyped
<1>3. ASSUME NEW r \in Rules, RetryRule(a, r)
      PROVE  TypeInv'
  <2>1. /\ target' = [target EXCEPT ![a] = r] /\ Goto(a, "checked")
        /\ ruleRetries < RuleRetryBound /\ ruleRetries' = ruleRetries + 1
        /\ UNCHANGED <<status, rule, runs, results, run, got, outcome, verdict, index, existing, hasFailed,
                       reviewRetries, crashes>>
    BY <1>3 DEF RetryRule, dbVars, workerVars
  <2>2. PlacePart' /\ HandPart'
    BY <1>1, <2>1, ActorMoves DEF HandPart, Labels, Executing, Retrying, Settling, WorkersOwn
  <2>3. DbPart'
    BY <2>1 DEF DbPart
  <2>4. BoundPart'
    BY <2>1, RuleBoundsAssumption DEF BoundPart
  <2>5. WorkerPart'
    BY <1>1, <2>1 DEF WorkerPart, PlacePart, Goto
  <2> QED
    BY <2>2, <2>3, <2>4, <2>5
<1>4. CASE ResetRuleState(a) \/ Spawn(a) \/ RetryFails(a) \/ RetryStarts(a)
  <2>1. /\ UNCHANGED <<run, got, outcome, verdict, index, existing, hasFailed,
                       ruleRetries, reviewRetries, crashes>>
        /\ pc[a] \in Retrying
        /\ \/ \E label \in {"reset", "clean", "keep", "exec"} : Goto(a, label) /\ UNCHANGED target
           \/ Goto(a, "settle") /\ target' = [target EXCEPT ![a] = NoRule]
    BY <1>4 DEF ResetRuleState, Spawn, RetryFails, RetryStarts, dbVars, execVars, workerVars, boundVars, Retrying
  <2>2. target[a] \in Rules
    BY <1>1, <2>1 DEF PlacePart
  <2>3. PlacePart' /\ HandPart'
    BY <1>1, <2>1, ActorMoves DEF HandPart, Labels, Executing, Retrying, Settling, WorkersOwn
  <2>4. pc'[Worker] = pc[Worker]
    BY <1>1, <2>1 DEF PlacePart, Goto
  <2>9. WorkerPart' /\ BoundPart'
    BY <2>1, <2>4 DEF WorkerPart, BoundPart
  <2>5. status' \in ReviewStatuses /\ rule' \in [Rules -> RuleStatuses] /\ results' \in [Rules -> Nat]
    BY <1>4 DEF ResetRuleState, Spawn, RetryFails, RetryStarts, dbVars, SetRule, DbPart, ReviewStatuses, RuleStatuses
  <2>6. runs' = runs \/ runs' = [runs EXCEPT ![target[a]] = NoRuns(target[a])]
    BY <1>4 DEF ResetRuleState, Spawn, RetryFails, RetryStarts, dbVars
  <2>7. \A r \in Rules : NoRuns(r) \in [0..Runs[r]-1 -> RunStatuses]
    BY RulesAssumption DEF NoRuns, RunStatuses
  <2>8. DbPart'
    BY <2>2, <2>5, <2>6, <2>7 DEF DbPart
  <2> QED
    BY <2>3, <2>8, <2>9
<1> QED
  BY <1>2, <1>3, <1>4 DEF RetrierStep

\* Every step keeps the types.
LEMMA NextTyped == TypeInv /\ [Next]_vars => TypeInv'
<1> SUFFICES ASSUME TypeInv, [Next]_vars PROVE TypeInv'
  OBVIOUS
<1> USE DEF TypeInv
<1>1. Worker \in Actors
  BY DEF Actors
<1>2. CASE CancelReview \/ UNCHANGED vars
  <2>1. /\ UNCHANGED <<rule, runs, results, pc, target, run, got, outcome, verdict, index, existing, hasFailed,
                       ruleRetries, reviewRetries, crashes>>
        /\ status' = status \/ status' = "cancelled"
    BY <1>2 DEF CancelReview, vars, dbVars, execVars, workerVars, boundVars
  <2> QED
    BY <2>1 DEF DbPart, PlacePart, HandPart, WorkerPart, BoundPart, ReviewStatuses
<1>3. CASE RetryReview
  <2>1. /\ status' = "pending" /\ Goto(Worker, "queued")
        /\ rule' = [r \in Rules |-> IF rule[r] = "absent" THEN "absent" ELSE "pending"]
        /\ runs' = [r \in Rules |-> NoRuns(r)] /\ results' = [r \in Rules |-> 0]
        /\ reviewRetries < ReviewRetryBound /\ reviewRetries' = reviewRetries + 1
        /\ UNCHANGED <<target, run, got, outcome, verdict, index, existing, hasFailed, ruleRetries, crashes>>
    BY <1>3 DEF RetryReview, execVars, workerVars
  <2>2. PlacePart' /\ HandPart'
    BY <1>1, <2>1, ActorMoves DEF HandPart, Labels, Executing, Retrying, Settling, WorkersOwn
  <2>3. DbPart'
    BY <2>1, RulesAssumption DEF DbPart, NoRuns, ReviewStatuses, RuleStatuses, RunStatuses
  <2>4. WorkerPart' /\ BoundPart'
    BY <1>1, <2>1, RuleBoundsAssumption DEF WorkerPart, BoundPart, PlacePart, Goto, Executing
  <2> QED
    BY <2>2, <2>3, <2>4
<1>4. CASE CrashAndRecover
  <2>1. /\ pc' = [a \in Actors |-> pc'[a]]
        /\ \A a \in Actors : pc'[a] = "off" \/ (a = Worker /\ pc'[a] = "queued")
        /\ status' = status \/ status' = "failed"
        /\ target' = [a \in Actors |-> NoRule] /\ run' = [a \in Actors |-> 0]
        /\ got' = [a \in Actors |-> {}] /\ outcome' = [a \in Actors |-> "none"]
        /\ verdict' = [a \in Actors |-> "none"]
        /\ crashes < MaxCrashes /\ crashes' = crashes + 1
        /\ UNCHANGED <<rule, runs, results, index, existing, hasFailed, ruleRetries, reviewRetries>>
    BY <1>4 DEF CrashAndRecover, workerVars
  <2>5. /\ {"off", "queued"} \subseteq Labels
        /\ \A label \in {"off", "queued"} : label \notin Executing \cup Retrying
        /\ "off" \notin WorkersOwn
    BY DEF Labels, Executing, Retrying, Settling, WorkersOwn
  <2>6. \A a \in Retriers : a \in Actors /\ a # Worker
    BY RulesAssumption DEF Actors
  <2>2. PlacePart' /\ HandPart'
    BY <1>1, <2>1, <2>5, <2>6 DEF PlacePart, HandPart
  <2>3. DbPart' /\ BoundPart'
    BY <2>1, RuleBoundsAssumption DEF DbPart, BoundPart, ReviewStatuses
  <2>4. WorkerPart'
    BY <1>1, <2>1 DEF WorkerPart, Executing
  <2> QED
    BY <2>2, <2>3, <2>4
<1> QED
  BY <1>2, <1>3, <1>4, WorkerTyped, RetrierTyped DEF Next

\* Type correctness, with overlapping retries and crashes: in particular no
\* actor has an answer in memory of a run that it has not come to.
THEOREM TypeCorrect == Spec => []TypeOK
<1>1. TypeInv => TypeOK
  BY DEF TypeInv, DbPart, PlacePart, HandPart, WorkerPart, BoundPart, TypeOK, Labels, Executing, Retrying, Settling, WorkersOwn
<1> QED
  BY <1>1, InitTyped, NextTyped, PTL DEF Spec

-----------------------------------------------------------------------------
(* One actor *)

\* At most one actor works on the review.
Alone == \A a, b \in Actors : pc[a] # "off" /\ pc[b] # "off" => a = b

\* The rule of an execution is running until it is finished.
TargetInv ==
    \A a \in Actors :
        /\ pc[a] \in {"reset", "clean", "keep", "exec", "prompt", "agent", "call", "finish"}
               => rule[target[a]] = "running"
        /\ pc[a] = "checked" => rule[target[a]] = "failed"
        /\ pc[a] = "save" => rule[target[a]] = IF outcome[a] = "failed" THEN "failed" ELSE "completed"

\* The worker executes the rules in order, and what it read about those that
\* are still before it is true.
ResumeInv ==
    /\ pc[Worker] \in Executing => target[Worker] = Config[index]
    /\ \A i \in 1..Len(Config) :
           \/ pc[Worker] = "next" /\ i >= index
           \/ pc[Worker] \in Executing /\ i > index
           => existing[Config[i]] = rule[Config[i]]

AloneInv == TypeInv /\ Alone /\ TargetInv /\ ResumeInv

LEMMA InitAlone == Init => AloneInv
<1> SUFFICES ASSUME Init PROVE AloneInv
  OBVIOUS
<1>1. TypeInv
  BY InitTyped
<1>2. \A a \in Actors : pc[a] = IF a = Worker THEN "queued" ELSE "off"
  BY DEF Init
<1>3. Worker \in Actors
  BY DEF Actors
<1>4. Alone /\ TargetInv /\ ResumeInv
  BY <1>2, <1>3 DEF Alone, TargetInv, ResumeInv, Executing
<1> QED
  BY <1>1, <1>4 DEF AloneInv

\* The configured rules are rules, each at one place.
LEMMA ConfigRules ==
    /\ Worker \in Actors /\ \A a \in Retriers : a \in Actors /\ a # Worker
    /\ Len(Config) \in Nat
    /\ \A i \in 1..Len(Config) : Config[i] \in Rules
    /\ \A i, j \in 1..Len(Config) : i # j => Config[i] # Config[j]
  BY RulesAssumption DEF Actors

\* An execution touches the rows of its rule, and nothing of the other actors.
LEMMA ExecuteLocal ==
    ASSUME TypeInv, NEW a \in Actors, Execute(a)
    PROVE  /\ pc[a] \in Executing /\ target[a] \in Rules
           /\ \A b \in Actors : b # a => pc'[b] = pc[b]
           /\ \A r \in Rules : r # target[a] => rule'[r] = rule[r] /\ runs'[r] = runs[r] /\ results'[r] = results[r]
           /\ UNCHANGED <<status, existing, crashes>>
           /\ \/ SaveResult(a) /\ pc'[a] = (IF a = Worker THEN "next" ELSE "settle")
              \/ ~SaveResult(a) /\ UNCHANGED <<target, index>> /\ pc'[a] \in Executing
<1> USE DEF TypeInv
<1>1. pc[a] \in Executing /\ target[a] \in Rules
  BY DEF Execute, BeginRule, SavePrompt, SingleRun, SkipRun, StartRun, EndRun, MergeRuns, FinishRule,
         SaveResult, Executing, PlacePart
<1>2. \A b \in Actors : b # a => pc'[b] = pc[b]
  BY DEF Execute, BeginRule, SavePrompt, SingleRun, SkipRun, StartRun, EndRun, MergeRuns, FinishRule,
         SaveResult, Goto, PlacePart
<1>3. \A r \in Rules : r # target[a] => rule'[r] = rule[r]
  BY <1>1 DEF Execute, BeginRule, SavePrompt, SingleRun, SkipRun, StartRun, EndRun, MergeRuns, FinishRule,
         SaveResult, SetRule, dbVars, DbPart
<1>4. \A r \in Rules : r # target[a] => runs'[r] = runs[r]
  BY <1>1 DEF Execute, BeginRule, SavePrompt, SingleRun, SkipRun, StartRun, EndRun, MergeRuns, FinishRule,
         SaveResult, dbVars, DbPart
<1>5. \A r \in Rules : r # target[a] => results'[r] = results[r]
  BY <1>1 DEF Execute, BeginRule, SavePrompt, SingleRun, SkipRun, StartRun, EndRun, MergeRuns, FinishRule,
         SaveResult, dbVars, DbPart
<1>6. UNCHANGED <<status, existing, crashes>>
  BY DEF Execute, BeginRule, SavePrompt, SingleRun, SkipRun, StartRun, EndRun, MergeRuns, FinishRule,
         SaveResult, dbVars, workerVars, boundVars
<1>7. CASE SaveResult(a)
  BY <1>1, <1>2, <1>3, <1>4, <1>5, <1>6, <1>7 DEF SaveResult, Goto, PlacePart
<1>8. CASE ~SaveResult(a)
  <2>1. UNCHANGED <<target, index>>
    BY <1>8 DEF Execute, BeginRule, SavePrompt, SingleRun, SkipRun, StartRun, EndRun, MergeRuns, FinishRule,
           workerVars, execVars
  <2>2. pc'[a] \in Executing
    BY <1>1, <1>8 DEF Execute, BeginRule, SavePrompt, SingleRun, SkipRun, StartRun, EndRun, MergeRuns, FinishRule,
           Goto, Executing, PlacePart
  <2> QED
    BY <1>1, <1>2, <1>3, <1>4, <1>5, <1>6, <1>8, <2>1, <2>2
<1> QED
  BY <1>7, <1>8

\* When one actor works on the review and it alone moves, it stays alone.
LEMMA StaysAlone ==
    ASSUME Alone, NEW a \in Actors, pc[a] # "off", \A b \in Actors : b # a => pc'[b] = pc[b]
    PROVE  Alone' /\ \A b \in Actors : b # a => pc[b] = "off" /\ pc'[b] = "off"
  BY DEF Alone

LEMMA ExecuteAlone ==
    ASSUME AloneInv, NEW a \in Actors, Execute(a)
    PROVE  Alone' /\ TargetInv' /\ ResumeInv'
<1> USE DEF AloneInv
<1>1. /\ pc[a] \in Executing /\ target[a] \in Rules
      /\ \A b \in Actors : b # a => pc'[b] = pc[b]
      /\ \A r \in Rules : r # target[a] => rule'[r] = rule[r]
      /\ UNCHANGED <<existing>>
      /\ \/ SaveResult(a) /\ pc'[a] = (IF a = Worker THEN "next" ELSE "settle")
         \/ ~SaveResult(a) /\ UNCHANGED <<target, index>> /\ pc'[a] \in Executing
  BY ExecuteLocal
<1>2. Alone' /\ \A b \in Actors : b # a => pc[b] = "off" /\ pc'[b] = "off"
  BY <1>1, StaysAlone DEF Executing
<1>3. TargetInv'
  <2>1. CASE SaveResult(a)
    BY <1>1, <1>2, <2>1 DEF TargetInv
  <2>2. CASE FinishRule(a)
    <3>1. /\ pc'[a] = "save" /\ UNCHANGED <<outcome, target>>
          /\ rule'[target[a]] = IF outcome[a] = "failed" THEN "failed" ELSE "completed"
      BY <1>1, <2>2 DEF FinishRule, SetRule, Goto, execVars, TypeInv, DbPart, PlacePart
    <3> QED
      BY <1>2, <3>1 DEF TargetInv
  <2>3. CASE ~SaveResult(a) /\ ~FinishRule(a)
    <3>1. pc[a] \in {"exec", "prompt", "agent", "call"} /\ pc'[a] \in {"prompt", "agent", "call", "finish"}
      BY <2>3 DEF Execute, BeginRule, SavePrompt, SingleRun, SkipRun, StartRun, EndRun, MergeRuns,
             Goto, TypeInv, PlacePart
    <3>2. rule[target[a]] = "running"
      BY <3>1 DEF TargetInv
    <3>3. rule'[target[a]] = "running"
      BY <1>1, <2>3, <3>2 DEF Execute, BeginRule, SavePrompt, SingleRun, SkipRun, StartRun, EndRun, MergeRuns,
             SetRule, dbVars, TypeInv, DbPart
    <3>4. UNCHANGED target
      BY <1>1, <2>3
    <3> QED
      BY <1>2, <3>1, <3>3, <3>4 DEF TargetInv
  <2> QED
    BY <2>1, <2>2, <2>3
<1>4. ResumeInv'
  <2>1. CASE a # Worker
    BY <1>2, <2>1, ConfigRules DEF ResumeInv, Executing
  <2>2. CASE a = Worker
    <3>1. index \in Nat /\ index <= Len(Config) /\ index \in 1..Len(Config) /\ target[Worker] = Config[index]
      BY <1>1, <2>2, ConfigRules DEF TypeInv, WorkerPart, ResumeInv
    <3>2. \A i \in 1..Len(Config) : i > index => Config[i] \in Rules /\ Config[i] # target[Worker]
      BY <3>1, ConfigRules
    <3>3. \A i \in 1..Len(Config) : i > index => existing'[Config[i]] = rule'[Config[i]]
      BY <1>1, <2>2, <3>2 DEF ResumeInv
    <3>4. CASE SaveResult(a)
      <4>1. index' = index + 1 /\ pc'[Worker] = "next"
        BY <1>1, <2>2, <3>4 DEF SaveResult
      <4>2. \A i \in 1..Len(Config) : i >= index' => i > index
        BY <3>1, <4>1
      <4> QED
        BY <3>3, <4>1, <4>2 DEF ResumeInv, Executing
    <3>5. CASE ~SaveResult(a)
      BY <1>1, <2>2, <3>1, <3>3, <3>5 DEF ResumeInv, Executing
    <3> QED
      BY <3>4, <3>5
  <2> QED
    BY <2>1, <2>2
<1> QED
  BY <1>2, <1>3, <1>4

\* A step of one actor that neither begins nor carries on an execution.
LEMMA PlainAlone ==
    ASSUME AloneInv, NEW a \in Actors, pc[a] # "off", NEW label, Goto(a, label),
           label \in Settling \cup {"queued", "claimed", "mark", "load", "record", "error", "off"}
    PROVE  Alone' /\ TargetInv' /\ ResumeInv'
<1>1. pc'[a] = label /\ \A b \in Actors : b # a => pc'[b] = pc[b]
  BY DEF Goto, AloneInv, TypeInv, PlacePart
<1>2. Alone' /\ \A b \in Actors : b # a => pc'[b] = "off"
  BY <1>1, StaysAlone DEF AloneInv
<1>3. \A b \in Actors : pc'[b] \notin Executing \cup Retrying \cup {"next"}
  BY <1>1, <1>2 DEF Settling, Executing, Retrying
<1>4. TargetInv'
  BY <1>3 DEF TargetInv, Executing, Retrying
<1>5. ResumeInv'
  BY <1>3, ConfigRules DEF ResumeInv
<1> QED
  BY <1>2, <1>4, <1>5

LEMMA WorkerAlone ==
    ASSUME AloneInv, WorkerStep
    PROVE  Alone' /\ TargetInv' /\ ResumeInv'
<1>1. Worker \in Actors
  BY ConfigRules
<1>2. CASE Execute(Worker)
  BY <1>1, <1>2, ExecuteAlone
<1>3. CASE \/ ReadRules(Worker) \/ WriteVerdict(Worker) \/ Claim \/ Prepare \/ MarkRunning
           \/ RecordFailure \/ HandleError \/ RulesDone \/ (LoadRules /\ pc'[Worker] = "off")
  <2>1. /\ pc[Worker] # "off"
        /\ \E label \in Settling \cup {"queued", "claimed", "mark", "load", "record", "error", "off"} :
               Goto(Worker, label)
    BY <1>1, <1>3 DEF ReadRules, WriteVerdict, Claim, Prepare, MarkRunning, RecordFailure, HandleError,
           RulesDone, LoadRules, Settling, Goto, AloneInv, TypeInv, PlacePart
  <2> QED
    BY <1>1, <2>1, PlainAlone
<1>4. CASE SkipRule \/ StartRule \/ (LoadRules /\ pc'[Worker] = "next")
  <2>1. /\ pc[Worker] \in {"next", "load"}
        /\ pc'[Worker] \in {"next", "exec"}
        /\ \A b \in Actors : b # Worker => pc'[b] = pc[b]
    BY <1>1, <1>4 DEF SkipRule, StartRule, LoadRules, Goto, AloneInv, TypeInv, PlacePart
  <2>2. Alone' /\ \A b \in Actors : b # Worker => pc[b] = "off" /\ pc'[b] = "off"
    BY <1>1, <2>1, StaysAlone DEF AloneInv
  <2>3. index \in 1..Len(Config)+1 /\ Len(Config) \in Nat
    BY ConfigRules DEF AloneInv, TypeInv, WorkerPart
  <2>4. CASE LoadRules /\ pc'[Worker] = "next"
    <3>1. existing' = rule /\ UNCHANGED rule
      BY <2>4 DEF LoadRules, dbVars
    <3>2. ResumeInv'
      BY <2>4, <3>1 DEF ResumeInv, Executing
    <3>3. TargetInv'
      BY <2>2, <2>4 DEF TargetInv
    <3> QED
      BY <2>2, <3>2, <3>3
  <2>5. CASE SkipRule
    <3>1. /\ pc[Worker] = "next" /\ index <= Len(Config) /\ index' = index + 1
          /\ UNCHANGED <<pc, existing, rule>>
      BY <2>5 DEF SkipRule, dbVars
    <3>2. \A i \in 1..Len(Config) : i >= index' => i >= index
      BY <2>3, <3>1
    <3>3. ResumeInv'
      BY <3>1, <3>2 DEF AloneInv, ResumeInv, Executing
    <3>4. TargetInv'
      BY <2>2, <3>1 DEF TargetInv
    <3> QED
      BY <2>2, <3>3, <3>4
  <2>6. CASE StartRule
    <3>1. /\ pc[Worker] = "next" /\ index <= Len(Config) /\ UNCHANGED <<index, existing>>
          /\ rule' = [rule EXCEPT ![Config[index]] = "running"]
          /\ target' = [target EXCEPT ![Worker] = Config[index]] /\ pc' = [pc EXCEPT ![Worker] = "exec"]
      BY <2>6 DEF StartRule, SetRule, Goto, workerVars
    <3>2. index \in 1..Len(Config) /\ Config[index] \in Rules
      BY <2>3, <3>1, ConfigRules
    <3>3. /\ rule'[Config[index]] = "running" /\ target'[Worker] = Config[index] /\ pc'[Worker] = "exec"
          /\ \A r \in Rules : r # Config[index] => rule'[r] = rule[r]
      BY <1>1, <3>1, <3>2 DEF AloneInv, TypeInv, DbPart, PlacePart
    <3>4. \A i \in 1..Len(Config) : i > index => i >= index /\ Config[i] \in Rules /\ Config[i] # Config[index]
      BY <3>2, ConfigRules
    <3>5. ResumeInv'
      BY <3>1, <3>3, <3>4 DEF AloneInv, ResumeInv, Executing
    <3>6. TargetInv'
      BY <2>2, <3>3 DEF TargetInv
    <3> QED
      BY <2>2, <3>5, <3>6
  <2> QED
    BY <1>4, <2>4, <2>5, <2>6
<1>5. LoadRules => pc'[Worker] \in {"off", "next"}
  BY <1>1 DEF LoadRules, Goto, AloneInv, TypeInv, PlacePart
<1> QED
  BY <1>2, <1>3, <1>4, <1>5 DEF WorkerStep

LEMMA RetrierAlone ==
    ASSUME AloneInv, NEW a \in Retriers,
           RetrierStep(a) \/ (Exclusive /\ \E r \in Rules : RetryRule(a, r))
    PROVE  Alone' /\ TargetInv' /\ ResumeInv'
<1>1. a \in Actors /\ Worker \in Actors /\ a # Worker
  BY ConfigRules
<1>2. CASE Execute(a)
  BY <1>1, <1>2, ExecuteAlone
<1>3. CASE ReadRules(a) \/ WriteVerdict(a) \/ RetryFails(a)
  <2>1. pc[a] # "off" /\ \E label \in Settling \cup {"off"} : Goto(a, label)
    BY <1>1, <1>3 DEF ReadRules, WriteVerdict, RetryFails, Settling
  <2> QED
    BY <1>1, <2>1, PlainAlone
<1>4. ASSUME \A b \in Actors : b # a => pc'[b] = "off"
      PROVE  Alone' /\ ResumeInv'
  BY <1>1, <1>4 DEF Alone, ResumeInv, Executing
<1>5. CASE ResetRuleState(a) \/ Spawn(a) \/ RetryStarts(a)
  <2>1. /\ pc[a] \in {"checked", "reset", "clean", "keep"}
        /\ pc'[a] \in {"reset", "clean", "keep", "exec"}
        /\ \A b \in Actors : b # a => pc'[b] = pc[b]
        /\ UNCHANGED target /\ target[a] \in Rules
    BY <1>1, <1>5 DEF ResetRuleState, Spawn, RetryStarts, Goto, execVars, AloneInv, TypeInv, PlacePart, Retrying
  <2>2. \A b \in Actors : b # a => pc'[b] = "off"
    BY <1>1, <2>1, StaysAlone DEF AloneInv
  <2>3. rule'[target[a]] = "running"
    <3>1. CASE ResetRuleState(a)
      BY <2>1, <3>1 DEF ResetRuleState, SetRule, AloneInv, TypeInv, DbPart
    <3>2. CASE Spawn(a) \/ RetryStarts(a)
      <4>1. pc[a] \in {"reset", "clean", "keep"} /\ UNCHANGED rule
        BY <3>2 DEF Spawn, RetryStarts, dbVars
      <4> QED
        BY <1>1, <4>1 DEF AloneInv, TargetInv
    <3> QED
      BY <1>5, <3>1, <3>2
  <2>4. TargetInv'
    BY <2>1, <2>2, <2>3 DEF TargetInv
  <2> QED
    BY <1>4, <2>2, <2>4
<1>6. ASSUME Exclusive, NEW r \in Rules, RetryRule(a, r)
      PROVE  Alone' /\ TargetInv' /\ ResumeInv'
  <2>1. Idle /\ rule[r] = "failed" /\ UNCHANGED rule
    BY <1>6 DEF RetryRule, dbVars
  <2>2. /\ pc'[a] = "checked" /\ target'[a] = r
        /\ \A b \in Actors : b # a => pc'[b] = "off"
    BY <1>1, <1>6, <2>1 DEF RetryRule, Goto, Idle, AloneInv, TypeInv, PlacePart
  <2>3. TargetInv'
    BY <2>1, <2>2 DEF TargetInv
  <2> QED
    BY <1>4, <2>2, <2>3
<1> QED
  BY <1>2, <1>3, <1>5, <1>6 DEF RetrierStep

\* Every step keeps the actor alone, when retries are exclusive.
LEMMA NextAlone == Exclusive => (AloneInv /\ [Next]_vars => AloneInv')
<1> SUFFICES ASSUME Exclusive, AloneInv, [Next]_vars PROVE Alone' /\ TargetInv' /\ ResumeInv'
  BY NextTyped DEF AloneInv
<1>1. CASE CancelReview \/ UNCHANGED vars
  BY <1>1 DEF CancelReview, vars, dbVars, execVars, workerVars, AloneInv, Alone, TargetInv, ResumeInv
<1>2. CASE RetryReview \/ CrashAndRecover
  <2>1. \A b \in Actors : pc'[b] \in {"off", "queued"} /\ (b # Worker => pc'[b] = "off")
    BY <1>2 DEF RetryReview, CrashAndRecover, Idle, Goto, AloneInv, TypeInv, PlacePart
  <2> QED
    BY <2>1, ConfigRules DEF Alone, TargetInv, ResumeInv, Executing
<1> QED
  BY <1>1, <1>2, WorkerAlone, RetrierAlone DEF Next

\* Where the steps lead that are not of an execution; nobody else is there.
LEMMA WorkerMoves ==
    ASSUME AloneInv, WorkerStep, ~Execute(Worker)
    PROVE  /\ pc[Worker] \in WorkersOwn \cup Settling
           /\ pc'[Worker] \in WorkersOwn \cup Settling \cup {"exec", "off"}
           /\ \A b \in Actors : b # Worker => pc[b] = "off" /\ pc'[b] = "off"
<1>1. Worker \in Actors
  BY ConfigRules
<1>2. pc[Worker] \in WorkersOwn \cup Settling
  BY DEF WorkerStep, Claim, Prepare, MarkRunning, LoadRules, SkipRule, StartRule, RulesDone, ReadRules,
         WriteVerdict, RecordFailure, HandleError, WorkersOwn, Settling
<1>3. pc'[Worker] \in WorkersOwn \cup Settling \cup {"exec", "off"}
  BY <1>1 DEF WorkerStep, Claim, Prepare, MarkRunning, LoadRules, SkipRule, StartRule, RulesDone, ReadRules,
         WriteVerdict, RecordFailure, HandleError, WorkersOwn, Settling, Goto, AloneInv, TypeInv, PlacePart
<1>4. \A b \in Actors : b # Worker => pc'[b] = pc[b]
  BY <1>1 DEF WorkerStep, Claim, Prepare, MarkRunning, LoadRules, SkipRule, StartRule, RulesDone, ReadRules,
         WriteVerdict, RecordFailure, HandleError, Goto, AloneInv, TypeInv, PlacePart
<1>5. pc[Worker] # "off"
  BY <1>2 DEF WorkersOwn, Settling
<1>6. \A b \in Actors : b # Worker => pc[b] = "off" /\ pc'[b] = "off"
  BY <1>1, <1>4, <1>5, StaysAlone DEF AloneInv
<1> QED
  BY <1>2, <1>3, <1>6

LEMMA RetrierMoves ==
    ASSUME AloneInv, NEW a \in Retriers, RetrierStep(a), ~Execute(a)
    PROVE  /\ pc[a] \in Retrying \cup Settling
           /\ pc'[a] \in Retrying \cup Settling \cup {"exec", "off"}
           /\ \A b \in Actors : b # a => pc[b] = "off" /\ pc'[b] = "off"
<1>1. a \in Actors /\ a # Worker
  BY ConfigRules
<1>2. pc[a] \in Retrying \cup Settling
  BY DEF RetrierStep, ResetRuleState, Spawn, RetryFails, RetryStarts, ReadRules, WriteVerdict, Retrying, Settling
<1>3. pc'[a] \in Retrying \cup Settling \cup {"exec", "off"}
  BY <1>1 DEF RetrierStep, ResetRuleState, Spawn, RetryFails, RetryStarts, ReadRules, WriteVerdict, Retrying,
         Settling, Goto, AloneInv, TypeInv, PlacePart
<1>4. \A b \in Actors : b # a => pc'[b] = pc[b]
  BY <1>1 DEF RetrierStep, ResetRuleState, Spawn, RetryFails, RetryStarts, ReadRules, WriteVerdict, Goto,
         AloneInv, TypeInv, PlacePart
<1>5. pc[a] # "off"
  BY <1>2 DEF Retrying, Settling
<1>6. \A b \in Actors : b # a => pc[b] = "off" /\ pc'[b] = "off"
  BY <1>1, <1>4, <1>5, StaysAlone DEF AloneInv
<1> QED
  BY <1>2, <1>3, <1>6

-----------------------------------------------------------------------------
(* Results *)

\* A rule has a result only when it is completed, and none before it is saved.
ResultInv ==
    /\ \A r \in Rules : results[r] = 0 \/ (results[r] = 1 /\ rule[r] = "completed")
    /\ \A a \in Actors : pc[a] = "save" => results[target[a]] = 0

\* While an execution is not saved, its rule is not completed, so it has none.
LEMMA ExecuteResult ==
    ASSUME AloneInv, ResultInv, NEW a \in Actors, Execute(a)
    PROVE  ResultInv'
<1>1. /\ pc[a] \in Executing /\ target[a] \in Rules
      /\ \A b \in Actors : b # a => pc'[b] = pc[b]
      /\ \A r \in Rules : r # target[a] => rule'[r] = rule[r] /\ results'[r] = results[r]
  BY ExecuteLocal DEF AloneInv
<1>2. \A b \in Actors : b # a => pc'[b] = "off"
  BY <1>1, StaysAlone DEF AloneInv, Executing
<1>3. results[target[a]] = 0
  <2>1. CASE pc[a] = "save"
    BY <2>1 DEF ResultInv
  <2>2. CASE pc[a] # "save"
    BY <1>1, <2>2 DEF ResultInv, AloneInv, TargetInv, Executing
  <2> QED
    BY <2>1, <2>2
<1>4. CASE SaveResult(a)
  <2>1. pc[a] = "save" /\ UNCHANGED rule /\ pc'[a] # "save"
    BY <1>4 DEF SaveResult, Goto, AloneInv, TypeInv, PlacePart
  <2>2. outcome[a] = "data" => rule[target[a]] = "completed"
    BY <2>1 DEF AloneInv, TargetInv
  <2>3. results'[target[a]] = 0 \/ (outcome[a] = "data" /\ results'[target[a]] = 1)
    BY <1>1, <1>3, <1>4 DEF SaveResult, AloneInv, TypeInv, DbPart
  <2> QED
    BY <1>1, <1>2, <2>1, <2>2, <2>3 DEF ResultInv
<1>5. CASE ~SaveResult(a)
  <2>1. UNCHANGED <<results, target>>
    BY <1>5 DEF Execute, BeginRule, SavePrompt, SingleRun, SkipRun, StartRun, EndRun, MergeRuns, FinishRule,
           dbVars, execVars
  <2> QED
    BY <1>1, <1>2, <1>3, <2>1 DEF ResultInv
<1> QED
  BY <1>4, <1>5

LEMMA WorkerResult ==
    ASSUME AloneInv, ResultInv, WorkerStep
    PROVE  ResultInv'
<1>1. Worker \in Actors
  BY ConfigRules
<1>2. CASE Execute(Worker)
  BY <1>1, <1>2, ExecuteResult
<1>3. CASE ~Execute(Worker)
  <2>1. \A b \in Actors : pc'[b] # "save"
    BY <1>1, <1>3, WorkerMoves DEF WorkersOwn, Settling
  <2>2. UNCHANGED results
    BY <1>3 DEF WorkerStep, Claim, Prepare, MarkRunning, LoadRules, SkipRule, StartRule, RulesDone, ReadRules,
           WriteVerdict, RecordFailure, HandleError, dbVars
  <2>3. CASE StartRule
    <3>1. pc[Worker] = "next" /\ index \in 1..Len(Config) /\ existing[Config[index]] # "completed"
      BY <2>3, ConfigRules DEF StartRule, AloneInv, TypeInv, WorkerPart
    <3>2. Config[index] \in Rules /\ rule[Config[index]] # "completed"
      BY <3>1, ConfigRules DEF AloneInv, ResumeInv
    <3>3. \A r \in Rules : r # Config[index] => rule'[r] = rule[r]
      BY <2>3 DEF StartRule, SetRule, AloneInv, TypeInv, DbPart
    <3> QED
      BY <2>1, <2>2, <3>2, <3>3 DEF ResultInv
  <2>4. CASE ~StartRule
    <3>1. UNCHANGED rule
      BY <1>3, <2>4 DEF WorkerStep, Claim, Prepare, MarkRunning, LoadRules, SkipRule, RulesDone, ReadRules,
             WriteVerdict, RecordFailure, HandleError, dbVars
    <3> QED
      BY <2>1, <2>2, <3>1 DEF ResultInv
  <2> QED
    BY <2>3, <2>4
<1> QED
  BY <1>2, <1>3

LEMMA RetrierResult ==
    ASSUME AloneInv, ResultInv, NEW a \in Retriers, RetrierStep(a)
    PROVE  ResultInv'
<1>1. a \in Actors /\ a # Worker
  BY ConfigRules
<1>2. CASE Execute(a)
  BY <1>1, <1>2, ExecuteResult
<1>3. CASE ~Execute(a)
  <2>1. \A b \in Actors : pc'[b] # "save"
    BY <1>1, <1>3, RetrierMoves DEF Retrying, Settling
  <2>2. CASE ResetRuleState(a) \/ RetryStarts(a) \/ RetryFails(a)
    <3>1. pc[a] \in Retrying /\ target[a] \in Rules
      BY <1>1, <2>2 DEF ResetRuleState, RetryStarts, RetryFails, Retrying, AloneInv, TypeInv, PlacePart
    <3>2. results[target[a]] = 0
      BY <1>1, <3>1 DEF Retrying, AloneInv, TargetInv, ResultInv
    <3>3. results'[target[a]] = 0
      BY <2>2, <3>1, <3>2 DEF ResetRuleState, RetryStarts, RetryFails, AloneInv, TypeInv, DbPart
    <3>4. \A r \in Rules : r # target[a] => rule'[r] = rule[r] /\ results'[r] = results[r]
      BY <2>2 DEF ResetRuleState, RetryStarts, RetryFails, SetRule, AloneInv, TypeInv, DbPart
    <3> QED
      BY <2>1, <3>3, <3>4 DEF ResultInv
  <2>3. CASE Spawn(a) \/ ReadRules(a) \/ WriteVerdict(a)
    <3>1. UNCHANGED <<rule, results>>
      BY <2>3 DEF Spawn, ReadRules, WriteVerdict, dbVars
    <3> QED
      BY <2>1, <3>1 DEF ResultInv
  <2> QED
    BY <1>3, <2>2, <2>3 DEF RetrierStep
<1> QED
  BY <1>2, <1>3

LEMMA NextResult == AloneInv /\ ResultInv /\ [Next]_vars => ResultInv'
<1> SUFFICES ASSUME AloneInv, ResultInv, [Next]_vars PROVE ResultInv'
  OBVIOUS
<1>1. ASSUME NEW a \in Retriers, NEW r \in Rules, RetryRule(a, r) PROVE ResultInv'
  <2>1. /\ pc'[a] = "checked" /\ \A b \in Actors : b # a => pc'[b] = pc[b] /\ target'[b] = target[b]
        /\ UNCHANGED <<rule, results>>
    BY <1>1, ConfigRules DEF RetryRule, Goto, dbVars, AloneInv, TypeInv, PlacePart
  <2> QED
    BY <2>1 DEF ResultInv
<1>2. CASE RetryReview
  <2>1. (\A r \in Rules : results'[r] = 0) /\ UNCHANGED target
    BY <1>2 DEF RetryReview, execVars
  <2>2. \A a \in Actors : pc'[a] = "save" => target[a] \in Rules
    BY <1>2 DEF RetryReview, Goto, Executing, AloneInv, TypeInv, PlacePart
  <2> QED
    BY <2>1, <2>2 DEF ResultInv
<1>3. CASE CrashAndRecover
  BY <1>3 DEF CrashAndRecover, ResultInv
<1>4. CASE CancelReview \/ UNCHANGED vars
  BY <1>4 DEF CancelReview, vars, dbVars, execVars, ResultInv
<1> QED
  BY <1>1, <1>2, <1>3, <1>4, WorkerResult, RetrierResult DEF Next

\* Retries and resumed reviews leave at most one result of a rule: a rule that
\* is executed is not completed, so its results are gone (ResetRuleState,
\* ResetReviewState) or were never written.
THEOREM ResultOnce == Exclusive => (Spec => []OneResult)
<1> SUFFICES ASSUME Exclusive PROVE Spec => []OneResult
  OBVIOUS
<1>1. Init => ResultInv
  BY ConfigRules DEF Init, ResultInv, Actors
<1>2. ResultInv => OneResult
  BY DEF ResultInv, OneResult
<1>3. AloneInv /\ ResultInv /\ [Next]_vars => (AloneInv /\ ResultInv)'
  BY NextAlone, NextResult
<1> QED
  BY <1>1, <1>2, <1>3, InitAlone, PTL DEF Spec

-----------------------------------------------------------------------------
(* The work of completed rules *)

\* A step that takes completed from a rule is the retry of the whole review.
LEMMA NextKept ==
    ASSUME AloneInv, [Next]_vars, NEW r \in Rules, rule[r] = "completed", rule'[r] # "completed"
    PROVE  status = "failed" /\ status' = "pending"
<1>1. ASSUME NEW a \in Actors, Execute(a) PROVE FALSE
  <2>1. pc[a] \in Executing /\ r = target[a]
    BY <1>1, ExecuteLocal DEF AloneInv
  <2>2. pc[a] = "save" => UNCHANGED rule
    BY <1>1 DEF Execute, BeginRule, SavePrompt, SingleRun, SkipRun, StartRun, EndRun, MergeRuns, FinishRule, SaveResult
  <2> QED
    BY <2>1, <2>2 DEF AloneInv, TargetInv, Executing
<1>2. ASSUME WorkerStep PROVE FALSE
  <2>1. CASE StartRule
    <3>1. pc[Worker] = "next" /\ index \in 1..Len(Config) /\ existing[Config[index]] # "completed"
      BY <2>1, ConfigRules DEF StartRule, AloneInv, TypeInv, WorkerPart
    <3>2. rule[Config[index]] # "completed"
      BY <3>1 DEF AloneInv, ResumeInv
    <3> QED
      BY <2>1, <3>2 DEF StartRule, SetRule, AloneInv, TypeInv, DbPart
  <2>2. CASE ~StartRule /\ ~Execute(Worker)
    BY <1>2, <2>2 DEF WorkerStep, Claim, Prepare, MarkRunning, LoadRules, SkipRule, RulesDone, ReadRules,
           WriteVerdict, RecordFailure, HandleError, dbVars
  <2> QED
    BY <1>1, <1>2, <2>1, <2>2, ConfigRules
<1>3. ASSUME NEW a \in Retriers, RetrierStep(a) PROVE FALSE
  <2>1. CASE ResetRuleState(a) \/ RetryFails(a)
    <3>1. pc[a] \in {"checked", "clean", "keep"} /\ a \in Actors
      BY <2>1, ConfigRules DEF ResetRuleState, RetryFails
    <3>2. rule[target[a]] # "completed"
      BY <3>1 DEF AloneInv, TargetInv
    <3> QED
      BY <2>1, <3>2 DEF ResetRuleState, RetryFails, SetRule, AloneInv, TypeInv, DbPart
  <2>2. CASE Spawn(a) \/ RetryStarts(a) \/ ReadRules(a) \/ WriteVerdict(a)
    BY <2>2 DEF Spawn, RetryStarts, ReadRules, WriteVerdict, dbVars
  <2> QED
    BY <1>1, <1>3, <2>1, <2>2, ConfigRules DEF RetrierStep
<1>4. ~(\E a \in Retriers, q \in Rules : RetryRule(a, q))
  BY DEF RetryRule, dbVars
<1>5. ~(CancelReview \/ CrashAndRecover \/ UNCHANGED vars)
  BY DEF CancelReview, CrashAndRecover, vars, dbVars
<1>6. RetryReview
  BY <1>2, <1>3, <1>4, <1>5 DEF Next
<1> QED
  BY <1>6 DEF RetryReview

\* The work of a completed rule is only undone by a retry of the whole review:
\* neither a resumed review nor the retry of a rule starts it again.
THEOREM CompletedStays == Exclusive => (Spec => CompletedKept)
<1> SUFFICES ASSUME Exclusive PROVE Spec => CompletedKept
  OBVIOUS
<1>1. AloneInv /\ [Next]_vars => AloneInv'
  BY NextAlone
<1>2. AloneInv /\ [Next]_vars =>
        [\A r \in Rules : rule[r] = "completed" /\ rule'[r] # "completed"
            => status = "failed" /\ status' = "pending"]_rule
  BY NextKept
<1> QED
  BY <1>1, <1>2, InitAlone, PTL DEF Spec, CompletedKept

-----------------------------------------------------------------------------
(* Runs *)

HasAnswer(r) == \E i \in 0..Runs[r]-1 : runs[r][i] = "completed"

\* Between loading the runs and finishing, an actor holds answers of its rule.
Holding(a) == pc[a] \in Calling \cup {"finish"}

\* The answers an actor has in memory are those of completed runs; without a
\* crash, they are all there are.
HandRuns(a) ==
    LET r == target[a] IN
    Runs[r] > 1 =>
        /\ pc[a] \in Calling =>
               /\ \A i \in got[a] : i \in 0..Runs[r]-1 /\ runs[r][i] = "completed"
               /\ crashes = 0 => \A i \in 0..Runs[r]-1 : runs[r][i] = "completed" => i \in got[a]
               /\ run[a] <= Runs[r]
        /\ pc[a] = "call" => run[a] < Runs[r]
        /\ pc[a] = "finish" => /\ outcome[a] # "failed" => HasAnswer(r)
                               /\ crashes = 0 /\ outcome[a] = "failed" => ~HasAnswer(r)

\* A completed rule has an answer; one that is not has none, unless an actor
\* holds it or a crash came between.
RowRuns(r) ==
    Runs[r] > 1 =>
        /\ rule[r] = "completed" => HasAnswer(r)
        /\ crashes = 0 /\ rule[r] # "completed" /\ (\A a \in Actors : Holding(a) => target[a] # r)
               => ~HasAnswer(r)

RunsInv ==
    /\ \A a \in Actors : Holding(a) => HandRuns(a)
    /\ \A r \in Rules : RowRuns(r)

\* Rows that a step leaves alone keep what they say.
LEMMA SameRuns ==
    ASSUME RunsInv, NEW r \in Rules, rule'[r] = rule[r], runs'[r] = runs[r], crashes' = crashes,
           \A a \in Actors : Holding(a) => target[a] # r
    PROVE  RowRuns(r)'
<1>1. HasAnswer(r)' <=> HasAnswer(r)
  BY DEF HasAnswer
<1> QED
  BY <1>1 DEF RunsInv, RowRuns

\* The steps of an execution that call the agent.
LEMMA CallRuns ==
    ASSUME TypeInv, NEW a \in Actors, HandRuns(a), Runs[target[a]] > 1,
           SkipRun(a) \/ StartRun(a) \/ EndRun(a)
    PROVE  pc'[a] \in Calling /\ UNCHANGED target /\ HandRuns(a)'
<1> DEFINE r == target[a]
<1>1. /\ r \in Rules /\ runs[r] \in [0..Runs[r]-1 -> RunStatuses]
      /\ run[a] \in Nat /\ got[a] \subseteq 0..run[a]-1 /\ Runs[r] \in Nat
  BY RulesAssumption DEF SkipRun, StartRun, EndRun, Executing, TypeInv, PlacePart, DbPart, HandPart
<1>2. /\ \A i \in got[a] : i \in 0..Runs[r]-1 /\ runs[r][i] = "completed"
      /\ crashes = 0 => \A i \in 0..Runs[r]-1 : runs[r][i] = "completed" => i \in got[a]
      /\ run[a] < Runs[r] /\ UNCHANGED <<target, crashes>>
  BY DEF SkipRun, StartRun, EndRun, HandRuns, Calling, boundVars, execVars
<1>3. CASE SkipRun(a)
  <2>1. pc'[a] = "agent" /\ run'[a] = run[a] + 1 /\ UNCHANGED <<got, runs>>
    BY <1>3 DEF SkipRun, dbVars, TypeInv, HandPart
  <2> QED
    BY <1>1, <1>2, <2>1 DEF HandRuns, Calling
<1>4. CASE StartRun(a)
  <2>1. /\ pc'[a] = "call" /\ UNCHANGED <<got, run>>
        /\ runs'[r] = [runs[r] EXCEPT ![run[a]] = "running"]
    BY <1>1, <1>4 DEF StartRun, Goto, execVars, TypeInv, PlacePart, DbPart
  <2>2. run[a] \notin got[a]
    BY <1>1
  <2>3. \A i \in 0..Runs[r]-1 : runs'[r][i] = IF i = run[a] THEN "running" ELSE runs[r][i]
    BY <1>1, <2>1
  <2> QED
    BY <1>1, <1>2, <2>1, <2>2, <2>3 DEF HandRuns, Calling
<1>5. CASE EndRun(a)
  <2>1. pc'[a] = "agent" /\ run'[a] = run[a] + 1
    BY <1>5 DEF EndRun, Goto, TypeInv, PlacePart, HandPart
  <2>2. PICK s \in RunStatuses :
            /\ runs'[r] = [runs[r] EXCEPT ![run[a]] = s]
            /\ got'[a] = IF s = "completed" THEN got[a] \cup {run[a]} ELSE got[a]
    <3>1. \/ /\ runs' = [runs EXCEPT ![r][run[a]] = "completed"]
             /\ got' = [got EXCEPT ![a] = @ \cup {run[a]}]
          \/ /\ \E s \in {"blank", "failed"} : runs' = [runs EXCEPT ![r][run[a]] = s]
             /\ UNCHANGED got
      BY <1>5 DEF EndRun
    <3>2. runs = [q \in Rules |-> runs[q]] /\ got = [b \in Actors |-> got[b]]
      BY DEF TypeInv, DbPart, HandPart
    <3> QED
      BY <1>1, <3>1, <3>2 DEF RunStatuses
  <2>3. \A i \in 0..Runs[r]-1 : runs'[r][i] = IF i = run[a] THEN s ELSE runs[r][i]
    BY <1>1, <2>2
  <2> QED
    BY <1>1, <1>2, <2>1, <2>2, <2>3 DEF HandRuns, Calling
<1> QED
  BY <1>3, <1>4, <1>5

LEMMA ExecuteRuns ==
    ASSUME AloneInv, RunsInv, NEW a \in Actors, Execute(a)
    PROVE  RunsInv'
<1>0. PICK r \in Rules : r = target[a]
  BY ExecuteLocal DEF AloneInv
<1>1. /\ pc[a] \in Executing /\ r \in Rules /\ r = target[a]
      /\ \A b \in Actors : b # a => pc'[b] = pc[b]
      /\ \A q \in Rules : q # r => rule'[q] = rule[q] /\ runs'[q] = runs[q]
      /\ UNCHANGED crashes
      /\ \/ SaveResult(a) /\ pc'[a] \in {"next", "settle"}
         \/ ~SaveResult(a) /\ UNCHANGED target /\ pc'[a] \in Executing
  BY <1>0, ExecuteLocal DEF AloneInv
<1>2. \A b \in Actors : b # a => pc[b] = "off" /\ pc'[b] = "off"
  BY <1>1, StaysAlone DEF AloneInv, Executing
<1>3. \A b \in Actors : b # a => ~Holding(b) /\ ~Holding(b)'
  BY <1>2 DEF Holding, Calling
<1>4. \A q \in Rules : q # r => RowRuns(q)'
  BY <1>1, <1>3, SameRuns
<1>5. SUFFICES (Holding(a)' => HandRuns(a)') /\ RowRuns(r)'
  <2>1. \A b \in Actors : Holding(b)' => HandRuns(b)'
    BY <1>3, <1>5
  <2>2. \A q \in Rules : RowRuns(q)'
    BY <1>4, <1>5
  <2> QED
    BY <2>1, <2>2 DEF RunsInv
<1>6. Runs[r] \in Nat \ {0}
  BY <1>1, RulesAssumption
<1>7. CASE Runs[r] = 1
  <2>1. Holding(a)' => target'[a] = r
    BY <1>1 DEF Holding, Calling
  <2> QED
    BY <1>7, <2>1 DEF HandRuns, RowRuns
<1>8. CASE Runs[r] > 1
  <2>1. pc[a] # "save" => rule[r] = "running"
    BY <1>1 DEF AloneInv, TargetInv, Executing
  <2>2. ~Holding(a) /\ crashes = 0 /\ rule[r] # "completed" => ~HasAnswer(r)
    BY <1>1, <1>3, <1>8 DEF RunsInv, RowRuns
  <2>3. Holding(a) => HandRuns(a)
    BY DEF RunsInv
  <2>4. CASE BeginRule(a) \/ SavePrompt(a)
    <3>1. /\ pc[a] \in {"exec", "prompt"} /\ UNCHANGED <<runs, target>> /\ rule'[r] = "running"
          /\ pc'[a] \in {"prompt", "agent", "finish"} /\ (pc'[a] = "finish" => outcome'[a] = "failed")
      BY <1>1, <2>4 DEF BeginRule, SavePrompt, SetRule, Goto, AloneInv, TypeInv, PlacePart, HandPart, DbPart
    <3>2. pc'[a] = "agent" => got'[a] = {} /\ run'[a] = 0
      BY <2>4 DEF BeginRule, SavePrompt, Goto, AloneInv, TypeInv, PlacePart, HandPart
    <3>3. crashes = 0 => ~HasAnswer(r) /\ ~HasAnswer(r)'
      BY <2>1, <2>2, <3>1 DEF Holding, Calling, HasAnswer
    <3>4. HandRuns(a)'
      BY <1>1, <1>6, <1>8, <3>1, <3>2, <3>3 DEF HandRuns, HasAnswer, Calling
    <3>5. RowRuns(r)'
      BY <1>1, <3>1, <3>3 DEF RowRuns
    <3> QED
      BY <3>4, <3>5
  <2>5. CASE SkipRun(a) \/ StartRun(a) \/ EndRun(a)
    <3>1. pc'[a] \in Calling /\ UNCHANGED target /\ HandRuns(a)' /\ pc[a] \in Calling
      BY <1>0, <1>8, <2>3, <2>5, CallRuns DEF AloneInv, Holding, Calling, SkipRun, StartRun, EndRun
    <3>2. rule'[r] = "running"
      BY <1>1, <2>1, <2>5, <3>1 DEF SkipRun, StartRun, EndRun, SetRule, dbVars, Calling, AloneInv, TypeInv, DbPart
    <3>3. RowRuns(r)'
      BY <1>0, <3>1, <3>2 DEF RowRuns, Holding
    <3> QED
      BY <3>1, <3>3
  <2>6. CASE SingleRun(a)
    BY <1>0, <1>8, <2>6 DEF SingleRun
  <2>7. CASE MergeRuns(a)
    <3>1. /\ pc[a] = "agent" /\ pc'[a] = "finish" /\ UNCHANGED <<rule, runs, target, crashes>>
          /\ outcome'[a] \in IF got[a] = {} THEN {"failed"} ELSE {"data", "text"}
      BY <2>7 DEF MergeRuns, Goto, dbVars, boundVars, AloneInv, TypeInv, PlacePart, HandPart
    <3>2. /\ \A i \in got[a] : i \in 0..Runs[r]-1 /\ runs[r][i] = "completed"
          /\ crashes = 0 => \A i \in 0..Runs[r]-1 : runs[r][i] = "completed" => i \in got[a]
      BY <1>0, <1>8, <2>3, <3>1 DEF Holding, HandRuns, Calling
    <3>3. /\ got[a] # {} => HasAnswer(r)
          /\ crashes = 0 /\ got[a] = {} => ~HasAnswer(r)
      BY <3>2 DEF HasAnswer
    <3>4. HasAnswer(r)' <=> HasAnswer(r)
      BY <3>1 DEF HasAnswer
    <3>5. HandRuns(a)'
      BY <1>0, <3>1, <3>3, <3>4 DEF HandRuns, HasAnswer, Calling
    <3>6. RowRuns(r)'
      BY <1>0, <2>1, <3>1 DEF RowRuns, Holding
    <3> QED
      BY <3>5, <3>6
  <2>8. CASE FinishRule(a)
    <3>1. /\ pc[a] = "finish" /\ pc'[a] = "save" /\ UNCHANGED <<runs, target, crashes>>
          /\ rule'[r] = IF outcome[a] = "failed" THEN "failed" ELSE "completed"
      BY <1>1, <2>8 DEF FinishRule, SetRule, Goto, execVars, boundVars, AloneInv, TypeInv, PlacePart, DbPart
    <3>2. /\ outcome[a] # "failed" => HasAnswer(r)
          /\ crashes = 0 /\ outcome[a] = "failed" => ~HasAnswer(r)
      BY <1>0, <1>8, <2>3, <3>1 DEF Holding, HandRuns
    <3>3. HasAnswer(r)' <=> HasAnswer(r)
      BY <3>1 DEF HasAnswer
    <3>4. RowRuns(r)'
      BY <3>1, <3>2, <3>3 DEF RowRuns
    <3> QED
      BY <3>1, <3>4 DEF Holding, Calling
  <2>9. CASE SaveResult(a)
    <3>1. pc[a] = "save" /\ UNCHANGED <<rule, runs>>
      BY <2>9 DEF SaveResult
    <3>2. RowRuns(r)'
      <4>1. \A b \in Actors : ~Holding(b)
        BY <1>3, <3>1 DEF Holding, Calling
      <4> QED
        BY <1>1, <3>1, <4>1, SameRuns
    <3>3. ~Holding(a)'
      BY <1>1, <2>9 DEF Holding, Calling, Executing
    <3> QED
      BY <3>2, <3>3
  <2> QED
    BY <2>4, <2>5, <2>6, <2>7, <2>8, <2>9 DEF Execute
<1> QED
  BY <1>6, <1>7, <1>8

\* Outside executions nobody holds answers, and rows change that have none.
LEMMA PlainRuns ==
    ASSUME RunsInv, \A a \in Actors : ~Holding(a) /\ ~Holding(a)', crashes' = crashes,
           \A r \in Rules : \/ rule'[r] = rule[r] /\ runs'[r] = runs[r]
                            \/ rule[r] # "completed" /\ rule'[r] # "completed" /\ runs'[r] = runs[r]
                            \/ rule'[r] # "completed" /\ runs'[r] = NoRuns(r)
    PROVE  RunsInv'
<1> SUFFICES ASSUME NEW r \in Rules PROVE RowRuns(r)'
  BY DEF RunsInv
<1>1. CASE rule'[r] = rule[r] /\ runs'[r] = runs[r]
  BY <1>1, SameRuns
<1>2. CASE rule[r] # "completed" /\ rule'[r] # "completed" /\ runs'[r] = runs[r]
  <2>1. HasAnswer(r)' <=> HasAnswer(r)
    BY <1>2 DEF HasAnswer
  <2> QED
    BY <1>2, <2>1 DEF RunsInv, RowRuns
<1>3. CASE rule'[r] # "completed" /\ runs'[r] = NoRuns(r)
  <2>1. ~HasAnswer(r)'
    BY <1>3 DEF HasAnswer, NoRuns
  <2> QED
    BY <1>3, <2>1 DEF RowRuns
<1> QED
  BY <1>1, <1>2, <1>3

LEMMA WorkerRuns ==
    ASSUME AloneInv, RunsInv, WorkerStep
    PROVE  RunsInv'
<1>1. Worker \in Actors
  BY ConfigRules
<1>2. CASE Execute(Worker)
  BY <1>1, <1>2, ExecuteRuns
<1>3. CASE ~Execute(Worker)
  <2>1. \A b \in Actors : ~Holding(b) /\ ~Holding(b)'
    BY <1>1, <1>3, WorkerMoves DEF WorkersOwn, Settling, Holding, Calling
  <2>2. UNCHANGED <<runs, crashes>>
    BY <1>3 DEF WorkerStep, Claim, Prepare, MarkRunning, LoadRules, SkipRule, StartRule, RulesDone, ReadRules,
           WriteVerdict, RecordFailure, HandleError, dbVars, boundVars
  <2>3. CASE StartRule
    <3>1. pc[Worker] = "next" /\ index \in 1..Len(Config) /\ existing[Config[index]] # "completed"
      BY <2>3, ConfigRules DEF StartRule, AloneInv, TypeInv, WorkerPart
    <3>2. Config[index] \in Rules /\ rule[Config[index]] # "completed"
      BY <3>1, ConfigRules DEF AloneInv, ResumeInv
    <3>3. /\ \A r \in Rules : r # Config[index] => rule'[r] = rule[r]
          /\ rule'[Config[index]] = "running"
      BY <2>3, <3>2 DEF StartRule, SetRule, AloneInv, TypeInv, DbPart
    <3> QED
      BY <2>1, <2>2, <3>2, <3>3, PlainRuns
  <2>4. CASE ~StartRule
    <3>1. UNCHANGED rule
      BY <1>3, <2>4 DEF WorkerStep, Claim, Prepare, MarkRunning, LoadRules, SkipRule, RulesDone, ReadRules,
             WriteVerdict, RecordFailure, HandleError, dbVars
    <3> QED
      BY <2>1, <2>2, <3>1, PlainRuns
  <2> QED
    BY <2>3, <2>4
<1> QED
  BY <1>2, <1>3

LEMMA RetrierRuns ==
    ASSUME AloneInv, RunsInv, NEW a \in Retriers, RetrierStep(a)
    PROVE  RunsInv'
<1>1. a \in Actors /\ a # Worker
  BY ConfigRules
<1>2. CASE Execute(a)
  BY <1>1, <1>2, ExecuteRuns
<1>3. CASE ~Execute(a)
  <2>1. \A b \in Actors : ~Holding(b) /\ ~Holding(b)'
    BY <1>1, <1>3, RetrierMoves DEF Retrying, Settling, Holding, Calling
  <2>2. UNCHANGED crashes
    BY <1>3 DEF RetrierStep, ResetRuleState, Spawn, RetryFails, RetryStarts, ReadRules, WriteVerdict, boundVars
  <2>3. CASE ResetRuleState(a) \/ RetryStarts(a) \/ RetryFails(a)
    <3>1. pc[a] \in Retrying /\ target[a] \in Rules
      BY <1>1, <2>3 DEF ResetRuleState, RetryStarts, RetryFails, Retrying, AloneInv, TypeInv, PlacePart
    <3>2. rule[target[a]] # "completed" /\ rule'[target[a]] # "completed"
      BY <1>1, <2>3, <3>1 DEF ResetRuleState, RetryStarts, RetryFails, SetRule, Retrying, AloneInv, TargetInv,
             TypeInv, DbPart
    <3>3. runs'[target[a]] = runs[target[a]] \/ runs'[target[a]] = NoRuns(target[a])
      BY <2>3, <3>1 DEF ResetRuleState, RetryStarts, RetryFails, AloneInv, TypeInv, DbPart
    <3>4. \A r \in Rules : r # target[a] => rule'[r] = rule[r]
      BY <2>3 DEF ResetRuleState, RetryStarts, RetryFails, SetRule, AloneInv, TypeInv, DbPart
    <3>5. \A r \in Rules : r # target[a] => runs'[r] = runs[r]
      BY <2>3 DEF ResetRuleState, RetryStarts, RetryFails, AloneInv, TypeInv, DbPart
    <3> QED
      BY <2>1, <2>2, <3>2, <3>3, <3>4, <3>5, PlainRuns
  <2>4. CASE Spawn(a) \/ ReadRules(a) \/ WriteVerdict(a)
    <3>1. UNCHANGED <<rule, runs>>
      BY <2>4 DEF Spawn, ReadRules, WriteVerdict, dbVars
    <3> QED
      BY <2>1, <2>2, <3>1, PlainRuns
  <2> QED
    BY <1>3, <2>3, <2>4 DEF RetrierStep
<1> QED
  BY <1>2, <1>3

LEMMA NextRuns == Exclusive => (AloneInv /\ RunsInv /\ [Next]_vars => RunsInv')
<1> SUFFICES ASSUME Exclusive, AloneInv, RunsInv, [Next]_vars PROVE RunsInv'
  OBVIOUS
<1>2. ASSUME NEW a \in Retriers, NEW r \in Rules, RetryRule(a, r) PROVE RunsInv'
  <2>1. /\ \A b \in Actors : pc[b] = "off" /\ (pc'[b] = "off" \/ pc'[b] = "checked")
        /\ UNCHANGED <<rule, runs, crashes>>
    BY <1>2, ConfigRules DEF RetryRule, Idle, Goto, dbVars, AloneInv, TypeInv, PlacePart
  <2> QED
    BY <2>1, PlainRuns DEF Holding, Calling
<1>3. CASE RetryReview
  <2>1. /\ \A b \in Actors : pc[b] = "off" /\ (pc'[b] = "off" \/ pc'[b] = "queued")
        /\ \A r \in Rules : rule'[r] # "completed" /\ runs'[r] = NoRuns(r)
        /\ UNCHANGED crashes
    BY <1>3, ConfigRules DEF RetryReview, Idle, Goto, AloneInv, TypeInv, PlacePart
  <2> QED
    BY <2>1, PlainRuns DEF Holding, Calling
<1>4. CASE CrashAndRecover
  <2>1. /\ \A b \in Actors : pc'[b] = "off" \/ pc'[b] = "queued"
        /\ UNCHANGED <<rule, runs>> /\ crashes' # 0
    BY <1>4 DEF CrashAndRecover, AloneInv, TypeInv, BoundPart
  <2>2. \A r \in Rules : HasAnswer(r)' <=> HasAnswer(r)
    BY <2>1 DEF HasAnswer
  <2> QED
    BY <2>1, <2>2 DEF RunsInv, RowRuns, Holding, Calling
<1>5. CASE CancelReview \/ UNCHANGED vars
  <2>1. UNCHANGED <<pc, rule, runs, target, run, got, outcome, crashes>>
    BY <1>5 DEF CancelReview, vars, dbVars, execVars, boundVars
  <2> QED
    BY <2>1 DEF RunsInv, Holding, HandRuns, RowRuns, HasAnswer
<1> QED
  BY <1>2, <1>3, <1>4, <1>5, WorkerRuns, RetrierRuns DEF Next

\* A rule with several runs ends as its runs did, also when the runs of an
\* earlier attempt are resumed: completed only on an answer, and, unless the
\* server crashed, failed only without any.
THEOREM RuleEndsAsItsRuns == Exclusive => (Spec => []RuleFollowsRuns)
<1> SUFFICES ASSUME Exclusive PROVE Spec => []RuleFollowsRuns
  OBVIOUS
<1>1. Init => RunsInv
  <2>1. Init => \A r \in Rules : runs[r] = NoRuns(r) /\ rule[r] # "completed"
    BY DEF Init
  <2>2. Init => \A a \in Actors : ~Holding(a)
    BY DEF Init, Holding, Calling
  <2> QED
    BY <2>1, <2>2 DEF RunsInv, RowRuns, HasAnswer, NoRuns
<1>2. AloneInv /\ RunsInv => RuleFollowsRuns
  <2> SUFFICES ASSUME AloneInv, RunsInv PROVE RuleFollowsRuns
    OBVIOUS
  <2>1. \A r \in Rules : DOMAIN runs[r] = 0..Runs[r]-1
    BY DEF AloneInv, TypeInv, DbPart
  <2>2. \A r \in Rules : rule[r] = "failed" => \A a \in Actors : Holding(a) => target[a] # r
    BY DEF AloneInv, TargetInv, Holding, Calling
  <2> QED
    BY <2>1, <2>2 DEF RunsInv, RowRuns, HasAnswer, RuleFollowsRuns, CompletedHasRun, FailedHasNoRun
<1>3. AloneInv /\ RunsInv /\ [Next]_vars => (AloneInv /\ RunsInv)'
  BY NextAlone, NextRuns
<1> QED
  BY <1>1, <1>2, <1>3, InitAlone, PTL DEF Spec

-----------------------------------------------------------------------------
(* The status of the review *)

RowsInv == \A r \in PreCreated : rule[r] # "absent"

\* While somebody works on the review it is open or cancelled, and what makes
\* it fail is there.
StatusInv ==
    crashes = 0 =>
        /\ Idle /\ status \in {"completed", "failed"} => (status = "completed" <=> AllCompleted)
        /\ \A a \in Actors : pc[a] \in Executing \cup Settling \cup {"reset", "clean", "keep"}
               => status \notin {"completed", "failed"}
        /\ \A a \in Actors : pc[a] = "checked" => status # "completed"
        /\ pc[Worker] \in {"queued", "claimed", "mark", "load", "next"} => status \notin {"completed", "failed"}
        /\ pc[Worker] \in {"queued", "claimed", "record", "error"} => ~AllCompleted

\* A rule that failed in the worker's hands is behind it.
FailedInv ==
    hasFailed /\ pc[Worker] \in Executing \cup Settling \cup {"next"} =>
        \E i \in 1..Len(Config) :
            /\ i < index \/ (i = index /\ pc[Worker] = "save")
            /\ rule[Config[i]] = "failed"

\* What an actor has read of the rules is still so.
VerdictInv ==
    \A a \in Actors : pc[a] = "write" =>
        /\ verdict[a] = "completed" => AllCompleted
        /\ verdict[a] = "failed" => ~AllCompleted

FollowInv == RowsInv /\ StatusInv /\ FailedInv /\ VerdictInv

\* Rules that are as they were say what they said.
LEMMA SameRules == ASSUME UNCHANGED rule PROVE AllCompleted' <=> AllCompleted
  BY DEF AllCompleted, Rows

\* One rule that is not completed is enough.
LEMMA OneOpen ==
    ASSUME NEW r \in Rules, rule[r] \notin {"absent", "completed"}
    PROVE  ~AllCompleted
  BY DEF AllCompleted, Rows

LEMMA NextRows == TypeInv /\ RowsInv /\ [Next]_vars => RowsInv'
<1> SUFFICES ASSUME TypeInv, RowsInv, [Next]_vars, NEW r \in PreCreated, r \in Rules PROVE rule'[r] # "absent"
  BY RulesAssumption DEF RowsInv
<1>1. rule[r] # "absent"
  BY DEF RowsInv
<1>2. ASSUME NEW a \in Actors, Execute(a) PROVE rule'[r] # "absent"
  BY <1>1, <1>2 DEF Execute, BeginRule, SavePrompt, SingleRun, SkipRun, StartRun, EndRun, MergeRuns, FinishRule,
         SaveResult, SetRule, dbVars, TypeInv, DbPart
<1>3. ASSUME WorkerStep PROVE rule'[r] # "absent"
  BY <1>1, <1>2, <1>3, ConfigRules DEF WorkerStep, Claim, Prepare, MarkRunning, LoadRules, SkipRule, StartRule,
         RulesDone, ReadRules, WriteVerdict, RecordFailure, HandleError, SetRule, dbVars, TypeInv, DbPart
<1>4. ASSUME NEW a \in Retriers, RetrierStep(a) PROVE rule'[r] # "absent"
  BY <1>1, <1>2, <1>4, ConfigRules DEF RetrierStep, ResetRuleState, Spawn, RetryFails, RetryStarts, ReadRules,
         WriteVerdict, SetRule, dbVars, TypeInv, DbPart
<1>5. CASE CancelReview \/ RetryReview \/ CrashAndRecover \/ UNCHANGED vars
           \/ \E a \in Retriers, q \in Rules : RetryRule(a, q)
  BY <1>1, <1>5 DEF CancelReview, RetryReview, CrashAndRecover, RetryRule, vars, dbVars
<1> QED
  BY <1>3, <1>4, <1>5 DEF Next

LEMMA ExecuteFailed ==
    ASSUME AloneInv, FailedInv, Execute(Worker)
    PROVE  FailedInv'
<1>1. /\ pc[Worker] \in Executing /\ target[Worker] \in Rules /\ Worker \in Actors
      /\ \A r \in Rules : r # target[Worker] => rule'[r] = rule[r]
      /\ \/ SaveResult(Worker) /\ pc'[Worker] = "next"
         \/ ~SaveResult(Worker) /\ UNCHANGED <<target, index>> /\ pc'[Worker] \in Executing
  BY ConfigRules, ExecuteLocal DEF AloneInv
<1>2. index \in 1..Len(Config) /\ Len(Config) \in Nat /\ target[Worker] = Config[index]
  BY <1>1, ConfigRules DEF AloneInv, TypeInv, WorkerPart, ResumeInv
<1>3. \A i \in 1..Len(Config) : i < index => rule'[Config[i]] = rule[Config[i]]
  BY <1>1, <1>2, ConfigRules
<1>4. CASE SaveResult(Worker)
  <2>1. pc[Worker] = "save" /\ index' = index + 1 /\ UNCHANGED <<rule, hasFailed>>
    BY <1>4 DEF SaveResult
  <2>2. ASSUME hasFailed PROVE \E i \in 1..Len(Config) : i < index' /\ rule'[Config[i]] = "failed"
    <3>1. PICK i \in 1..Len(Config) : (i < index \/ i = index) /\ rule[Config[i]] = "failed"
      BY <1>1, <2>2 DEF FailedInv
    <3>2. i < index'
      BY <1>2, <2>1, <3>1
    <3> QED
      BY <2>1, <3>1, <3>2
  <2> QED
    BY <2>1, <2>2 DEF FailedInv
<1>5. CASE FinishRule(Worker)
  <2>1. /\ pc[Worker] = "finish" /\ pc'[Worker] = "save" /\ UNCHANGED index
        /\ rule'[Config[index]] = IF outcome[Worker] = "failed" THEN "failed" ELSE "completed"
        /\ hasFailed' => hasFailed \/ outcome[Worker] = "failed"
    BY <1>1, <1>2, <1>5 DEF FinishRule, SetRule, Goto, AloneInv, TypeInv, DbPart, PlacePart
  <2>2. ASSUME hasFailed
        PROVE  \E i \in 1..Len(Config) : i < index /\ rule'[Config[i]] = "failed"
    BY <1>1, <1>3, <2>1, <2>2 DEF FailedInv
  <2> QED
    BY <1>2, <2>1, <2>2 DEF FailedInv
<1>6. CASE ~SaveResult(Worker) /\ ~FinishRule(Worker)
  <2>1. UNCHANGED <<index, hasFailed>> /\ pc[Worker] # "save"
    BY <1>1, <1>6 DEF Execute, BeginRule, SavePrompt, SingleRun, SkipRun, StartRun, EndRun, MergeRuns, workerVars
  <2>2. ASSUME hasFailed
        PROVE  \E i \in 1..Len(Config) : i < index /\ rule'[Config[i]] = "failed"
    BY <1>1, <1>3, <2>1, <2>2 DEF FailedInv
  <2> QED
    BY <2>1, <2>2 DEF FailedInv
<1> QED
  BY <1>4, <1>5, <1>6

LEMMA NextFailed == Exclusive => (AloneInv /\ FailedInv /\ [Next]_vars => FailedInv')
<1> SUFFICES ASSUME Exclusive, AloneInv, FailedInv, [Next]_vars PROVE FailedInv'
  OBVIOUS
<1>1. CASE WorkerStep
  <2>1. CASE Execute(Worker)
    BY <2>1, ExecuteFailed
  <2>2. CASE StartRule
    <3>1. /\ pc[Worker] = "next" /\ index \in 1..Len(Config) /\ UNCHANGED <<index, hasFailed>>
          /\ \A r \in Rules : r # Config[index] => rule'[r] = rule[r]
      BY <2>2, ConfigRules DEF StartRule, SetRule, workerVars, AloneInv, TypeInv, WorkerPart, DbPart
    <3>2. \A i \in 1..Len(Config) : i < index => rule'[Config[i]] = rule[Config[i]]
      BY <3>1, ConfigRules
    <3> QED
      BY <3>1, <3>2 DEF FailedInv
  <2>3. CASE SkipRule
    <3>1. /\ pc[Worker] = "next" /\ UNCHANGED <<hasFailed, rule>>
          /\ index' = index + 1 /\ index \in Nat /\ Len(Config) \in Nat
      BY <2>3, ConfigRules DEF SkipRule, dbVars, AloneInv, TypeInv, WorkerPart
    <3>2. \A i \in 1..Len(Config) : i < index => i < index'
      BY <3>1
    <3> QED
      BY <3>1, <3>2 DEF FailedInv
  <2>4. CASE LoadRules
    BY <2>4 DEF LoadRules, FailedInv
  <2>5. CASE RulesDone \/ ReadRules(Worker)
    <3>1. /\ pc[Worker] \in {"next", "settle"}
          /\ UNCHANGED <<rule, index, hasFailed>>
      BY <2>5 DEF RulesDone, ReadRules, dbVars, workerVars
    <3> QED
      BY <3>1 DEF FailedInv, Settling
  <2>6. CASE Claim \/ Prepare \/ MarkRunning \/ WriteVerdict(Worker) \/ RecordFailure \/ HandleError
    <3>1. pc'[Worker] \in {"off", "claimed", "mark", "load", "record", "error"}
      BY <2>6, ConfigRules DEF Claim, Prepare, MarkRunning, WriteVerdict, RecordFailure, HandleError, Goto,
             AloneInv, TypeInv, PlacePart
    <3> QED
      BY <3>1 DEF FailedInv, Executing, Settling
  <2> QED
    BY <1>1, <2>1, <2>2, <2>3, <2>4, <2>5, <2>6 DEF WorkerStep
<1>2. ASSUME NEW a \in Retriers, RetrierStep(a) \/ \E r \in Rules : RetryRule(a, r)
      PROVE  pc'[Worker] = "off"
  <2>1. CASE Execute(a)
    BY <2>1, ConfigRules, ExecuteLocal, StaysAlone DEF AloneInv, Executing
  <2>2. CASE RetrierStep(a) /\ ~Execute(a)
    BY <2>2, ConfigRules, RetrierMoves
  <2>3. CASE \E r \in Rules : RetryRule(a, r)
    BY <2>3, ConfigRules DEF RetryRule, Idle, Goto, AloneInv, TypeInv, PlacePart
  <2> QED
    BY <1>2, <2>1, <2>2, <2>3
<1>3. CASE RetryReview \/ CrashAndRecover
  <2>1. pc'[Worker] \in {"off", "queued"}
    BY <1>3, ConfigRules DEF RetryReview, CrashAndRecover, Goto, AloneInv, TypeInv, PlacePart
  <2> QED
    BY <2>1 DEF FailedInv, Executing, Settling
<1>4. CASE CancelReview \/ UNCHANGED vars
  BY <1>4 DEF CancelReview, vars, dbVars, workerVars, FailedInv
<1> QED
  BY <1>1, <1>2, <1>3, <1>4 DEF Next, FailedInv, Executing, Settling

LEMMA NextVerdict == Exclusive => (AloneInv /\ VerdictInv /\ [Next]_vars => VerdictInv')
<1> SUFFICES ASSUME Exclusive, AloneInv, VerdictInv, [Next]_vars PROVE VerdictInv'
  OBVIOUS
<1>1. ASSUME \A b \in Actors : pc'[b] # "write" PROVE VerdictInv'
  BY <1>1 DEF VerdictInv
<1>2. ASSUME NEW a \in Actors, Execute(a) PROVE VerdictInv'
  <2>1. \A b \in Actors : pc'[b] # "write"
    <3>1. /\ pc[a] \in Executing /\ \A b \in Actors : b # a => pc'[b] = pc[b]
          /\ pc'[a] \in Executing \cup {"next", "settle"}
      BY <1>2, ExecuteLocal DEF AloneInv
    <3> QED
      BY <3>1, StaysAlone DEF AloneInv, Executing
  <2> QED
    BY <1>1, <2>1
<1>3. ASSUME NEW a \in Actors, ReadRules(a) PROVE VerdictInv'
  <2>1. /\ pc[a] = "settle" /\ UNCHANGED rule
        /\ \A b \in Actors : b # a => pc'[b] = pc[b]
        /\ verdict'[a] = Verdict
    BY <1>3 DEF ReadRules, Goto, dbVars, AloneInv, TypeInv, PlacePart, HandPart
  <2>2. \A b \in Actors : b # a => pc'[b] = "off"
    BY <2>1, StaysAlone DEF AloneInv
  <2>3. /\ Verdict = "completed" => AllCompleted
        /\ Verdict = "failed" => ~AllCompleted
    BY DEF Verdict
  <2> QED
    BY <2>1, <2>2, <2>3, SameRules DEF VerdictInv
<1>4. ASSUME WorkerStep, ~ReadRules(Worker), ~Execute(Worker) PROVE VerdictInv'
  <2>1. pc'[Worker] # "write"
    BY <1>4, ConfigRules DEF WorkerStep, Claim, Prepare, MarkRunning, LoadRules, SkipRule, StartRule, RulesDone,
           WriteVerdict, RecordFailure, HandleError, Goto, AloneInv, TypeInv, PlacePart
  <2> QED
    BY <1>1, <1>4, <2>1, WorkerMoves
<1>5. ASSUME NEW a \in Retriers, RetrierStep(a), ~ReadRules(a), ~Execute(a) PROVE VerdictInv'
  <2>1. pc'[a] # "write"
    BY <1>5, ConfigRules DEF RetrierStep, ResetRuleState, Spawn, RetryFails, RetryStarts, WriteVerdict, Goto,
           AloneInv, TypeInv, PlacePart
  <2> QED
    BY <1>1, <1>5, <2>1, RetrierMoves
<1>6. CASE RetryReview \/ CrashAndRecover \/ \E a \in Retriers, r \in Rules : RetryRule(a, r)
  <2>1. \A b \in Actors : pc'[b] # "write"
    BY <1>6, ConfigRules DEF RetryReview, CrashAndRecover, RetryRule, Idle, Goto, AloneInv, TypeInv, PlacePart
  <2> QED
    BY <1>1, <2>1
<1>7. CASE CancelReview \/ UNCHANGED vars
  <2>1. UNCHANGED <<rule, pc, verdict>>
    BY <1>7 DEF CancelReview, vars, dbVars, execVars
  <2> QED
    BY <2>1, SameRules DEF VerdictInv
<1> QED
  BY <1>2, <1>3, <1>4, <1>5, <1>6, <1>7, ConfigRules DEF Next

\* What the status owes to one actor, when all others are off.
LEMMA StatusAt ==
    ASSUME NEW a \in Actors, \A b \in Actors : b # a => pc'[b] = "off",
           pc'[a] = "off" /\ status' \in {"completed", "failed"} => (status' = "completed" <=> AllCompleted'),
           pc'[a] \in Executing \cup Settling \cup {"reset", "clean", "keep", "queued", "claimed", "mark", "load", "next"}
               => status' \notin {"completed", "failed"},
           pc'[a] = "checked" => status' # "completed",
           pc'[a] \in {"queued", "claimed", "record", "error"} => ~AllCompleted'
    PROVE  StatusInv'
<1>1. Idle' => pc'[a] = "off"
  BY DEF Idle
<1>2. Worker \in Actors
  BY ConfigRules
<1> QED
  BY <1>1, <1>2 DEF StatusInv, Executing, Settling

LEMMA ExecuteStatus ==
    ASSUME AloneInv, StatusInv, NEW a \in Actors, Execute(a), crashes = 0
    PROVE  StatusInv'
<1>1. /\ pc[a] \in Executing /\ \A b \in Actors : b # a => pc'[b] = pc[b]
      /\ pc'[a] \in Executing \cup {"next", "settle"} /\ UNCHANGED status
  BY ExecuteLocal DEF AloneInv
<1>2. \A b \in Actors : b # a => pc'[b] = "off"
  BY <1>1, StaysAlone DEF AloneInv, Executing
<1>3. status \notin {"completed", "failed"}
  BY <1>1 DEF StatusInv
<1> QED
  BY <1>1, <1>2, <1>3, StatusAt DEF Executing

\* A worker that had a rule fail has not completed them all.
LEMMA FailureSeen ==
    ASSUME AloneInv, FailedInv, hasFailed, pc[Worker] = "write"
    PROVE  ~AllCompleted
<1>1. PICK i \in 1..Len(Config) : rule[Config[i]] = "failed"
  BY DEF FailedInv, Settling
<1> QED
  BY <1>1, ConfigRules, OneOpen

\* The status is set by the one who works on the review, and follows the rules.
LEMMA WriteStatus ==
    ASSUME AloneInv, FollowInv, NEW a \in Actors, WriteVerdict(a), crashes = 0
    PROVE  StatusInv'
<1>1. /\ pc[a] = "write" /\ UNCHANGED rule
      /\ \A b \in Actors : b # a => pc'[b] = pc[b]
      /\ pc'[a] = IF a = Worker /\ hasFailed THEN "record" ELSE "off"
      /\ status' = IF verdict[a] = "none" THEN status ELSE verdict[a]
  BY DEF WriteVerdict, Goto, AloneInv, TypeInv, PlacePart
<1>2. \A b \in Actors : b # a => pc'[b] = "off"
  BY <1>1, StaysAlone DEF AloneInv
<1>3. status \notin {"completed", "failed"}
  BY <1>1 DEF FollowInv, StatusInv, Settling
<1>4. /\ verdict[a] = "completed" => AllCompleted
      /\ verdict[a] = "failed" => ~AllCompleted
      /\ verdict[a] \in {"none", "completed", "failed"}
  BY <1>1 DEF FollowInv, VerdictInv, AloneInv, TypeInv, HandPart
<1>5. pc'[a] = "record" => ~AllCompleted
  BY <1>1, FailureSeen DEF FollowInv
<1>6. AllCompleted' <=> AllCompleted
  BY <1>1, SameRules
<1>7. pc'[a] \in {"record", "off"}
  BY <1>1
<1>8. status' \in {"completed", "failed"} => (status' = "completed" <=> AllCompleted')
  BY <1>1, <1>3, <1>4, <1>6
<1> QED
  BY <1>2, <1>5, <1>6, <1>7, <1>8, StatusAt DEF Executing, Settling

LEMMA WorkerStatus ==
    ASSUME AloneInv, FollowInv, WorkerStep, crashes = 0
    PROVE  StatusInv'
<1>1. Worker \in Actors
  BY ConfigRules
<1>2. CASE Execute(Worker)
  BY <1>1, <1>2, ExecuteStatus DEF FollowInv
<1>3. CASE WriteVerdict(Worker)
  BY <1>1, <1>3, WriteStatus
<1>4. CASE ~Execute(Worker) /\ ~WriteVerdict(Worker)
  <2>1. \A b \in Actors : b # Worker => pc'[b] = "off"
    BY <1>4, WorkerMoves
  <2>2. /\ pc[Worker] \in {"queued", "claimed", "mark", "load", "next"} \cup Settling
               => status \notin {"completed", "failed"}
        /\ pc[Worker] \in {"queued", "claimed", "record", "error"} => ~AllCompleted
    BY <1>1 DEF FollowInv, StatusInv
  <2>3. CASE Claim
    <3>1. /\ pc[Worker] = "queued" /\ UNCHANGED rule
          /\ pc'[Worker] \in {"claimed", "off"} /\ status' \in {"running", status}
      BY <1>1, <2>3 DEF Claim, Goto, AloneInv, TypeInv, PlacePart
    <3>2. ~AllCompleted' /\ status' \notin {"completed", "failed"}
      BY <2>2, <3>1, SameRules
    <3> QED
      BY <1>1, <2>1, <3>1, <3>2, StatusAt DEF Executing, Settling
  <2>4. CASE Prepare
    <3>1. /\ pc[Worker] = "claimed" /\ UNCHANGED <<rule, status>> /\ pc'[Worker] \in {"mark", "error"}
      BY <1>1, <2>4 DEF Prepare, Goto, dbVars, AloneInv, TypeInv, PlacePart
    <3>2. ~AllCompleted' /\ status' \notin {"completed", "failed"}
      BY <2>2, <3>1, SameRules
    <3> QED
      BY <1>1, <2>1, <3>1, <3>2, StatusAt DEF Executing, Settling
  <2>5. CASE MarkRunning
    <3>1. pc'[Worker] = "load" /\ status' = "running"
      BY <1>1, <2>5 DEF MarkRunning, Goto, AloneInv, TypeInv, PlacePart
    <3> QED
      BY <1>1, <2>1, <3>1, StatusAt DEF Executing, Settling
  <2>6. CASE LoadRules \/ SkipRule \/ StartRule \/ RulesDone \/ ReadRules(Worker)
    <3>1. /\ pc[Worker] \in {"load", "next", "settle"} /\ UNCHANGED status
          /\ pc'[Worker] \in {"off", "next", "exec", "settle", "write"}
      BY <1>1, <2>6 DEF LoadRules, SkipRule, StartRule, RulesDone, ReadRules, Goto, dbVars,
             AloneInv, TypeInv, PlacePart
    <3>2. status' \notin {"completed", "failed"}
      BY <2>2, <3>1 DEF Settling
    <3> QED
      BY <1>1, <2>1, <3>1, <3>2, StatusAt DEF Executing, Settling
  <2>7. CASE RecordFailure \/ HandleError
    <3>1. /\ pc[Worker] \in {"record", "error"} /\ UNCHANGED rule /\ status' = "failed"
          /\ pc'[Worker] \in {"error", "off"}
      BY <1>1, <2>7 DEF RecordFailure, HandleError, Goto, AloneInv, TypeInv, PlacePart
    <3>2. ~AllCompleted'
      BY <2>2, <3>1, SameRules
    <3> QED
      BY <1>1, <2>1, <3>1, <3>2, StatusAt DEF Executing, Settling
  <2> QED
    BY <1>4, <2>3, <2>4, <2>5, <2>6, <2>7 DEF WorkerStep
<1> QED
  BY <1>2, <1>3, <1>4

LEMMA RetrierStatus ==
    ASSUME AloneInv, FollowInv, NEW a \in Retriers, RetrierStep(a), crashes = 0
    PROVE  StatusInv'
<1>1. a \in Actors
  BY ConfigRules
<1>2. CASE Execute(a)
  BY <1>1, <1>2, ExecuteStatus DEF FollowInv
<1>3. CASE WriteVerdict(a)
  BY <1>1, <1>3, WriteStatus
<1>4. CASE ~Execute(a) /\ ~WriteVerdict(a)
  <2>1. \A b \in Actors : b # a => pc'[b] = "off"
    BY <1>4, RetrierMoves
  <2>2. /\ pc[a] \in Settling \cup {"reset", "clean", "keep"} => status \notin {"completed", "failed"}
        /\ pc[a] = "checked" => status # "completed"
    BY <1>1 DEF FollowInv, StatusInv
  <2>3. status' \notin {"completed", "failed"}
    BY <1>4, <2>2 DEF RetrierStep, ResetRuleState, Spawn, RetryFails, RetryStarts, ReadRules, dbVars, Settling
  <2>4. pc'[a] \in {"reset", "clean", "keep", "exec", "settle", "write"}
    BY <1>1, <1>4 DEF RetrierStep, ResetRuleState, Spawn, RetryFails, RetryStarts, ReadRules, Goto,
           AloneInv, TypeInv, PlacePart
  <2> QED
    BY <1>1, <2>1, <2>3, <2>4, StatusAt DEF Executing, Settling
<1> QED
  BY <1>2, <1>3, <1>4

LEMMA NextStatus == Exclusive => (AloneInv /\ FollowInv /\ [Next]_vars => StatusInv')
<1> SUFFICES ASSUME Exclusive, AloneInv, FollowInv, [Next]_vars, crashes' = 0 PROVE StatusInv'
  BY DEF StatusInv
<1>1. Worker \in Actors
  BY ConfigRules
<1>2. crashes = 0 /\ ~CrashAndRecover
  <2>1. crashes \in Nat /\ crashes' = 0
    BY DEF AloneInv, TypeInv, BoundPart
  <2>2. ~CrashAndRecover
    BY <2>1 DEF CrashAndRecover
  <2>3. UNCHANGED crashes
    BY <2>2 DEF Next, WorkerStep, Claim, Prepare, MarkRunning, LoadRules, SkipRule, StartRule, RulesDone,
           ReadRules, WriteVerdict, RecordFailure, HandleError, RetrierStep, ResetRuleState, Spawn, RetryFails,
           RetryStarts, Execute, BeginRule, SavePrompt, SingleRun, SkipRun, StartRun, EndRun, MergeRuns,
           FinishRule, SaveResult, RetryRule, CancelReview, RetryReview, vars, boundVars
  <2> QED
    BY <2>1, <2>2, <2>3
<1>3. ASSUME NEW a \in Retriers, NEW r \in Rules, RetryRule(a, r) PROVE StatusInv'
  <2>1. /\ Idle /\ rule[r] = "failed" /\ UNCHANGED status
        /\ pc'[a] = "checked" /\ a \in Actors /\ \A b \in Actors : b # a => pc'[b] = "off"
    BY <1>3, ConfigRules DEF RetryRule, Idle, Goto, dbVars, AloneInv, TypeInv, PlacePart
  <2>2. ~AllCompleted
    BY <2>1, OneOpen
  <2>3. status # "completed"
    BY <1>2, <2>1, <2>2 DEF FollowInv, StatusInv
  <2> QED
    BY <2>1, <2>3, StatusAt DEF Executing, Settling
<1>4. CASE RetryReview
  <2>1. /\ status' = "pending" /\ pc'[Worker] = "queued"
        /\ \A b \in Actors : b # Worker => pc'[b] = "off"
        /\ rule' = [r \in Rules |-> IF rule[r] = "absent" THEN "absent" ELSE "pending"]
    BY <1>4, ConfigRules DEF RetryReview, Idle, Goto, AloneInv, TypeInv, PlacePart
  <2>2. PICK r \in Rules : rule[r] # "absent"
    BY RulesAssumption DEF FollowInv, RowsInv
  <2>3. ~AllCompleted'
    BY <2>1, <2>2 DEF AllCompleted, Rows
  <2> QED
    BY <1>1, <2>1, <2>3, StatusAt DEF Executing, Settling
<1>5. CASE CancelReview
  <2>1. status' = "cancelled" /\ UNCHANGED <<rule, pc, crashes>>
    BY <1>5 DEF CancelReview, boundVars
  <2>2. AllCompleted' <=> AllCompleted
    BY <2>1, SameRules
  <2> QED
    BY <1>2, <2>1, <2>2 DEF FollowInv, StatusInv
<1>6. CASE UNCHANGED vars
  <2>1. UNCHANGED <<status, rule, pc, crashes>>
    BY <1>6 DEF vars, dbVars, boundVars
  <2>2. AllCompleted' <=> AllCompleted
    BY <2>1, SameRules
  <2>3. Idle' <=> Idle
    BY <2>1 DEF Idle
  <2> QED
    BY <2>1, <2>2, <2>3 DEF FollowInv, StatusInv
<1> QED
  BY <1>2, <1>3, <1>4, <1>5, <1>6, WorkerStatus, RetrierStatus DEF Next

LEMMA InitFollow == Init => FollowInv
<1> SUFFICES ASSUME Init PROVE FollowInv
  OBVIOUS
<1>1. Worker \in Actors /\ \A a \in Actors : pc[a] = IF a = Worker THEN "queued" ELSE "off"
  BY ConfigRules DEF Init
<1>2. status = "pending" /\ \A r \in PreCreated : r \in Rules /\ rule[r] = "pending"
  BY RulesAssumption DEF Init
<1>3. ~AllCompleted
  BY <1>2, RulesAssumption, OneOpen
<1>4. RowsInv
  BY <1>2 DEF RowsInv
<1>5. StatusInv
  BY <1>1, <1>2, <1>3 DEF StatusInv, Idle, Executing, Settling
<1>6. FailedInv /\ VerdictInv
  BY <1>1 DEF FailedInv, VerdictInv, Executing, Settling
<1> QED
  BY <1>4, <1>5, <1>6 DEF FollowInv

\* Unless the server crashed, a review that has ended is completed exactly if
\* its rules are: nobody who reads them (ReadRules) is overtaken before the
\* verdict is written, and a review that fails on its way has a rule that is
\* not completed.
THEOREM StatusIsTrue == Exclusive => (Spec => []StatusFollowsRules)
<1> SUFFICES ASSUME Exclusive PROVE Spec => []StatusFollowsRules
  OBVIOUS
<1>1. FollowInv => StatusFollowsRules
  BY DEF FollowInv, StatusInv, StatusFollowsRules
<1>2. AloneInv /\ FollowInv /\ [Next]_vars => (AloneInv /\ FollowInv)'
  <2> SUFFICES ASSUME AloneInv, FollowInv, [Next]_vars PROVE (AloneInv /\ FollowInv)'
    OBVIOUS
  <2>1. AloneInv'
    BY NextAlone
  <2>2. RowsInv'
    BY NextRows DEF AloneInv, FollowInv
  <2>3. StatusInv'
    BY NextStatus
  <2>4. FailedInv'
    BY NextFailed DEF FollowInv
  <2>5. VerdictInv'
    BY NextVerdict DEF FollowInv
  <2> QED
    BY <2>1, <2>2, <2>3, <2>4, <2>5 DEF FollowInv
<1> QED
  BY <1>1, <1>2, InitAlone, InitFollow, PTL DEF Spec
=============================================================================
