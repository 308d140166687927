--------------------------- MODULE GitWorkspace ---------------------------
(***************************************************************************)
(* The working directories of reviews (internal/git/workspace,             *)
(* internal/git/provider/clone_helper.go, the Clone and ClonePR of the     *)
(* providers, and the part of Engine.processTask that prepares a           *)
(* directory).  All pull requests of a repository share one directory,     *)
(* which is moved from one to the next by fetch and checkout; a push is    *)
(* cloned into a directory of its review.  Each git command is a step; it  *)
(* may fail or be killed, and a crash may come between any two.            *)
(*                                                                         *)
(* The queue runs one task of a repository at a time.  Rule retries do not *)
(* go through the queue and read the directory as they find it.            *)
(***************************************************************************)
EXTENDS Naturals, Sequences, FiniteSets

CONSTANTS
    PRs,            \* the pull requests of the repository
    Pushes,         \* reviews of pushes
    MaxHeads,       \* bound: heads a pull request may get
    MaxAttempts,    \* bound: tasks that are begun
    MaxRetries,     \* bound: rule retries
    MaxFaults,      \* bound: commands that fail
    MaxCrashes,     \* bound: crashes
    None

VARIABLES
    heads,      \* per pull request: how many heads it has had, on the server
    forced,     \* the heads <<pr, n>> that do not descend from head n - 1
    dir,        \* the shared directory, see EmptyDir
    left,       \* the pushes whose own directory exists
    job,        \* the task of the repository that is being worked on
    paths,      \* the pull requests whose review has a repo_path
    retry,      \* the pull request whose rule retry reads the directory, or None
    attempts, retries, faults, crashes

vars == <<heads, forced, dir, left, job, paths, retry, attempts, retries, faults, crashes>>

Versions == 1..MaxHeads
Commits == PRs \X Versions
EmptyDir == [exists |-> FALSE, git |-> FALSE, origin |-> FALSE, head |-> None, on |-> None,
             branch |-> [p \in PRs |-> 0], traces |-> {}, lock |-> FALSE]
Idle == [pc |-> "idle", of |-> None, want |-> 0, clean |-> TRUE, sound |-> TRUE]

\* Pull requests, pushes and None are different things; bounds are numbers.
DirectoryAssumption ==
    /\ MaxHeads \in Nat \ {0}
    /\ MaxAttempts \in Nat /\ MaxRetries \in Nat /\ MaxFaults \in Nat /\ MaxCrashes \in Nat
    /\ PRs \cap Pushes = {}
    /\ None \notin PRs /\ None \notin Pushes /\ None \notin Commits

\* Where EnsurePRRepository is: in a new clone, or in the update of an old one.
UpdateSteps == {"path", "init", "origin", "fetchNew", "checkoutNew", "head", "unlock", "tidy",
                "detach", "fetch", "delete", "refetch", "checkout", "tidyAgain"}

Dirs == [exists : BOOLEAN, git : BOOLEAN, origin : BOOLEAN, head : Commits \cup {None},
         on : PRs \cup {None}, branch : [PRs -> 0..MaxHeads], traces : SUBSET (Commits \cup {None}),
         lock : BOOLEAN]
Jobs == [pc : {"idle", "clone", "agent", "failed"} \cup UpdateSteps,
         of : PRs \cup Pushes \cup {None}, want : 0..MaxHeads, clean : BOOLEAN, sound : BOOLEAN]

TypeOK ==
    /\ heads \in [PRs -> Versions] /\ forced \subseteq Commits
    /\ dir \in Dirs
    /\ left \subseteq Pushes
    /\ job \in Jobs
    /\ paths \subseteq PRs /\ retry \in PRs \cup {None}
    /\ retries \in 0..MaxRetries /\ attempts \in 0..MaxAttempts /\ faults \in 0..MaxFaults /\ crashes \in 0..MaxCrashes

Init ==
    /\ heads = [p \in PRs |-> 1]
    /\ forced = {}
    /\ dir = EmptyDir
    /\ left = {}
    /\ job = Idle
    /\ paths = {} /\ retry = None
    /\ attempts = 0 /\ retries = 0 /\ faults = 0 /\ crashes = 0

-----------------------------------------------------------------------------
\* The author pushes to a pull request, on top of its head or by force.
Push(p) ==
    /\ heads[p] < MaxHeads
    /\ heads' = [heads EXCEPT ![p] = @ + 1]
    /\ forced' \in {forced, forced \cup {<<p, heads[p] + 1>>}}
    /\ UNCHANGED <<dir, left, job, paths, retry, attempts, retries, faults, crashes>>

\* A task for a pull request names one of the heads it has had.
BeginPR(p) ==
    /\ job.pc \in {"idle", "failed"} /\ attempts < MaxAttempts
    /\ attempts' = attempts + 1
    /\ \E n \in 1..heads[p] :
          job' = [Idle EXCEPT !.pc = "path", !.of = p, !.want = n, !.sound = dir.git => dir.origin]
    /\ UNCHANGED <<heads, forced, dir, left, paths, retry, retries, faults, crashes>>

BeginPush(r) ==
    /\ job.pc \in {"idle", "failed"} /\ attempts < MaxAttempts
    /\ attempts' = attempts + 1
    /\ job' = [Idle EXCEPT !.pc = "clone", !.of = r, !.sound = r \notin left]
    /\ UNCHANGED <<heads, forced, dir, left, paths, retry, retries, faults, crashes>>

-----------------------------------------------------------------------------
\* A step of EnsurePRRepository that leads to pc, and one that goes wrong:
\* there the function goes on to pc, or ends with an error (pc = "failed").
At(pc) == job.pc = pc
Go(pc) == job' = [job EXCEPT !.pc = pc] /\ UNCHANGED faults
Fault(pc) ==
    /\ faults < MaxFaults /\ faults' = faults + 1
    /\ job' = [job EXCEPT !.pc = pc, !.clean = FALSE]

\* A command that rewrites the index leaves its lock behind when it is killed.
Killed(pc) == Fault(pc) /\ dir' \in {dir, [dir EXCEPT !.lock = TRUE]}

env == <<heads, forced, left, paths, retry, attempts, retries, crashes>>

\* Does the directory exist, and hold a .git?  One that does not is removed.
CheckPath ==
    /\ At("path")
    /\ \/ dir.exists /\ dir.git /\ Go("head") /\ UNCHANGED dir
       \/ ~(dir.exists /\ dir.git) /\ Go("init") /\ dir' = EmptyDir
       \/ dir.exists /\ ~dir.git /\ Fault("failed") /\ UNCHANGED dir
    /\ UNCHANGED env

\* ClonePRWithRefs: git init, remote, fetch, checkout.
InitRepo ==
    /\ At("init")
    /\ \/ Go("origin") /\ dir' = [dir EXCEPT !.exists = TRUE, !.git = TRUE]
       \/ Fault("failed") /\ dir' \in {dir, [dir EXCEPT !.exists = TRUE],
                                       [dir EXCEPT !.exists = TRUE, !.git = TRUE]}
    /\ UNCHANGED env

AddOrigin ==
    /\ At("origin")
    /\ \/ Go("fetchNew") /\ dir' = [dir EXCEPT !.origin = TRUE]
       \/ Fault("failed") /\ UNCHANGED dir
    /\ UNCHANGED env

FetchNew ==
    /\ At("fetchNew")
    /\ \/ Go("checkoutNew") /\ dir' = [dir EXCEPT !.branch[job.of] = heads[job.of]]
       \/ Fault("failed") /\ UNCHANGED dir
    /\ UNCHANGED env

\* git checkout pr-n: HEAD is moved; files that were left lying around stay.
CheckedOut(p) == [dir EXCEPT !.head = <<p, dir.branch[p]>>, !.on = p]

CheckoutNew ==
    /\ At("checkoutNew")
    /\ \/ Go("agent") /\ dir' = CheckedOut(job.of)
       \/ Killed("failed")
    /\ UNCHANGED env

\* rev-parse HEAD against the commit of the request: nothing to do, or update.
CompareHead ==
    /\ At("head")
    /\ \/ dir.head = <<job.of, job.want>> /\ Go("agent")
       \/ dir.head # <<job.of, job.want>> /\ Go("unlock")
       \/ Fault("unlock")
    /\ UNCHANGED <<env, dir>>

\* Mutant: the lock is reported and stays.
KeepGitLock ==
    /\ At("unlock")
    /\ Go("tidy") /\ UNCHANGED dir
    /\ UNCHANGED env

CleanupGitLock ==
    /\ At("unlock")
    /\ \/ Go("tidy") /\ dir' = [dir EXCEPT !.lock = FALSE]
       \/ dir.lock /\ Fault("tidy") /\ UNCHANGED dir
    /\ UNCHANGED env

\* git reset --hard and git clean -fd; without a commit there is nothing to
\* reset to.
ResetAndClean == IF dir.head # None /\ ~dir.lock THEN [dir EXCEPT !.traces = {}] ELSE dir

\* Failures are logged, and the update goes on.
Tidy ==
    /\ At("tidy")
    /\ \/ Go("detach") /\ dir' = ResetAndClean
       \/ Killed("detach")
    /\ UNCHANGED env

CheckoutDetached ==
    /\ At("detach")
    /\ \/ /\ Go("fetch")
          /\ dir' = IF dir.head # None /\ ~dir.lock THEN [dir EXCEPT !.on = None] ELSE dir
       \/ Killed("fetch")
    /\ UNCHANGED env

FastForward(p) ==
    \/ dir.branch[p] = 0
    \/ \A n \in (dir.branch[p] + 1)..heads[p] : <<p, n>> \notin forced
FetchAllowed(p) == dir.origin /\ dir.on # p

\* FetchPRRefWithAuth: a rejected fetch is tried again without the branch.
FetchPRRef ==
    /\ At("fetch")
    /\ \/ /\ FetchAllowed(job.of) /\ FastForward(job.of)
          /\ Go("checkout") /\ dir' = [dir EXCEPT !.branch[job.of] = heads[job.of]]
       \/ FetchAllowed(job.of) /\ ~FastForward(job.of) /\ Go("delete") /\ UNCHANGED dir
       \/ ~FetchAllowed(job.of) /\ Go("failed") /\ UNCHANGED dir
       \/ Fault("failed") /\ UNCHANGED dir
    /\ UNCHANGED env

DeleteLocalBranch ==
    /\ At("delete")
    /\ \/ Go("refetch") /\ dir' = [dir EXCEPT !.branch[job.of] = 0]
       \/ Fault("failed") /\ UNCHANGED dir
    /\ UNCHANGED env

RetryFetch ==
    /\ At("refetch")
    /\ \/ Go("checkout") /\ dir' = [dir EXCEPT !.branch[job.of] = heads[job.of]]
       \/ Fault("failed") /\ UNCHANGED dir
    /\ UNCHANGED env

\* Files left by an agent may stand in the way of a checkout.
CheckoutBranch ==
    /\ At("checkout")
    /\ \/ ~dir.lock /\ dir.branch[job.of] > 0 /\ Go("tidyAgain") /\ dir' = CheckedOut(job.of)
       \/ (dir.lock \/ dir.branch[job.of] = 0) /\ Go("failed") /\ UNCHANGED dir
       \/ dir.traces # {} /\ Go("failed") /\ UNCHANGED dir
       \/ Killed("failed")
    /\ UNCHANGED env

TidyAgain ==
    /\ At("tidyAgain")
    /\ \/ Go("agent") /\ dir' = ResetAndClean
       \/ Killed("agent")
    /\ UNCHANGED env

\* A push: a clone refuses a directory that is not empty.  The deferred
\* CleanupWorkspace removes the directory however the task ends.
CloneBranch ==
    /\ At("clone")
    /\ \/ job.of \notin left /\ Go("agent") /\ left' = left \cup {job.of}
       \/ job.of \in left /\ Go("failed") /\ left' = left \ {job.of}
       \/ Fault("failed") /\ left' = left \ {job.of}
    /\ UNCHANGED <<heads, forced, paths, retry, attempts, retries, crashes, dir>>

\* The path is written to the row; the agents have read the directory and may
\* have left files in it.
AgentsEnd ==
    /\ At("agent")
    /\ job' = Idle
    /\ IF job.of \in PRs
       THEN /\ dir' \in {dir, [dir EXCEPT !.traces = @ \cup {dir.head}]}
            /\ paths' = paths \cup {job.of}
            /\ UNCHANGED left
       ELSE left' = left \ {job.of} /\ UNCHANGED <<dir, paths>>
    /\ UNCHANGED <<heads, forced, retry, attempts, retries, faults, crashes>>

-----------------------------------------------------------------------------
\* executeRuleRetry takes the directory from the row of the review.
RetryBegins(p) ==
    /\ retry = None /\ retries < MaxRetries
    /\ p \in paths
    /\ retry' = p /\ retries' = retries + 1
    /\ UNCHANGED <<heads, forced, dir, left, job, paths, attempts, faults, crashes>>

RetryEnds ==
    /\ retry # None
    /\ retry' = None
    /\ dir' \in {dir, [dir EXCEPT !.traces = @ \cup {dir.head}]}
    /\ UNCHANGED <<heads, forced, left, job, paths, attempts, retries, faults, crashes>>

\* The process dies, whatever command is running with it.
Crash ==
    /\ crashes < MaxCrashes /\ crashes' = crashes + 1
    /\ job' = Idle /\ retry' = None
    /\ dir' \in
          {dir} \cup (IF job.pc \in {"checkoutNew", "tidy", "detach", "checkout", "tidyAgain"}
                      THEN {[dir EXCEPT !.lock = TRUE]} ELSE {})
                \cup (IF At("init") THEN {[dir EXCEPT !.exists = TRUE]} ELSE {})
    /\ UNCHANGED <<heads, forced, left, paths, attempts, retries, faults>>

EnsurePRRepository ==
    \/ CheckPath \/ InitRepo \/ AddOrigin \/ FetchNew \/ CheckoutNew \/ CompareHead
    \/ CleanupGitLock \/ Tidy \/ CheckoutDetached \/ FetchPRRef \/ DeleteLocalBranch
    \/ RetryFetch \/ CheckoutBranch \/ TidyAgain

Next ==
    \/ \E p \in PRs : Push(p) \/ BeginPR(p) \/ RetryBegins(p)
    \/ \E r \in Pushes : BeginPush(r)
    \/ EnsurePRRepository \/ CloneBranch \/ AgentsEnd
    \/ RetryEnds
    \/ Crash

Spec == Init /\ [][Next]_vars

-----------------------------------------------------------------------------
\* The agents of a task read its pull request, at the head that was asked for
\* or a later one, whatever an interrupted task, a failed command or a forced
\* push left behind in the directory.
RightCommit ==
    (At("agent") /\ job.of \in PRs) =>
        /\ dir.head # None
        /\ dir.head[1] = job.of
        /\ dir.head[2] >= job.want

\* While no command fails, agents find no files that an agent of another
\* commit has left; those of the same commit stay, because nothing is done
\* when HEAD is right already.
FreshTree ==
    (At("agent") /\ job.of \in PRs /\ faults = 0 /\ crashes = 0 /\ retries = 0) =>
        dir.traces \subseteq {dir.head}

\* An interrupted or failed task does not spoil the directory for later ones:
\* a task without a failing command reaches its agents, provided that the
\* clone got as far as its origin and a push has no directory yet.
LaterTaskWorks == (At("failed") /\ job.sound /\ retries = 0) => ~job.clean

\* Agents read the commit they were asked about, without files of others, and a
\* failed task does not spoil the directory for later ones.
AgentsReadTheirCommit == RightCommit /\ FreshTree /\ LaterTaskWorks

\* pr_manager.go:113, "If .git exists, it's a valid repo": a task without a
\* failing command reaches its agents.
ValidRepo == (At("failed") /\ job.of \in PRs /\ retries = 0) => ~job.clean

\* pr_manager.go:45, "multiple PRs from the same repo [...] share the same
\* directory, with PR switching handled by fetch + checkout": who reads the
\* directory reads their own pull request.
RetryReadsItsPR == retry # None => (dir.head # None /\ dir.head[1] = retry)
=============================================================================
