------------------------ MODULE GitWorkspaceProofs ------------------------
(***************************************************************************)
(* Proofs about the shared directory of GitWorkspace, for any pull         *)
(* requests, pushes and bounds: agents read the commit they were asked     *)
(* about, in a tree without files of others, and an interrupted task does  *)
(* not spoil the directory for the next one.                               *)
(***************************************************************************)
EXTENDS GitWorkspace, TLAPS

-----------------------------------------------------------------------------
\* What the task of the repository is for: a step of EnsurePRRepository works
\* for a pull request, at a head it has had, a clone works for a push.
JobInv ==
    /\ job.pc \in UpdateSteps => job.of \in PRs
    /\ job.pc = "clone" => job.of \in Pushes
    /\ job.of \in PRs => job.want \in 1..heads[job.of]

\* The branch is at the wanted head or a later one when it is checked out, and
\* HEAD is there afterwards.
ReadInv ==
    /\ job.pc \in {"checkoutNew", "checkout"} => dir.branch[job.of] >= job.want
    /\ (job.pc \in {"tidyAgain", "agent"} /\ job.of \in PRs) =>
          dir.head # None /\ dir.head[1] = job.of /\ dir.head[2] >= job.want

\* Before the first retry agents leave files of commits only, a directory
\* without a HEAD has no files and no branch in it.
NewDirInv ==
    /\ retry # None => retries > 0
    /\ dir.head = None => dir.on = None
    /\ (retries = 0 /\ dir.head = None) => dir.traces = {}

\* As long as nothing goes wrong there is no lock, HEAD is moved only
\* when the tree has been cleaned, and so files belong to HEAD.
FreshInv ==
    (faults = 0 /\ crashes = 0 /\ retries = 0) =>
        /\ ~dir.lock
        /\ dir.traces \subseteq {dir.head}
        /\ job.pc \in {"init", "origin", "fetchNew", "checkoutNew", "detach", "fetch", "delete",
                       "refetch", "checkout"} => dir.traces = {}

\* A task that no command has failed brings any directory with an origin into
\* order, whatever was left there: first the lock, then the files, then the branch.
OrderInv ==
    (job.clean /\ job.sound /\ retries = 0) =>
        /\ job.pc # "failed"
        /\ job.pc = "clone" => job.of \notin left
        /\ job.pc = "path" => (dir.git => dir.origin)
        /\ job.pc \in {"head", "unlock", "tidy", "detach", "fetch", "delete", "refetch", "checkout"} => dir.origin
        /\ job.pc \in {"tidy", "detach", "fetch", "delete", "refetch", "checkout"} => ~dir.lock
        /\ job.pc \in {"detach", "fetch", "delete", "refetch", "checkout"} => dir.traces = {}
        /\ job.pc \in {"fetch", "delete", "refetch", "checkout"} => dir.on = None

DirInv == TypeOK /\ JobInv /\ ReadInv /\ NewDirInv /\ FreshInv /\ OrderInv

-----------------------------------------------------------------------------
\* What a command does to the task.
SameTask == job'.of = job.of /\ job'.want = job.want /\ job'.sound = job.sound

LEMMA GoStep ==
    ASSUME TypeOK, NEW pc \in {"idle", "clone", "agent", "failed"} \cup UpdateSteps, Go(pc)
    PROVE  job' \in Jobs /\ job'.pc = pc /\ SameTask /\ job'.clean = job.clean /\ faults' = faults
BY DEF TypeOK, Go, Jobs, SameTask

LEMMA FaultStep ==
    ASSUME DirectoryAssumption, TypeOK,
           NEW pc \in {"idle", "clone", "agent", "failed"} \cup UpdateSteps, Fault(pc)
    PROVE  job' \in Jobs /\ job'.pc = pc /\ SameTask /\ ~job'.clean /\ faults' \in 1..MaxFaults
<1>1. job' \in Jobs /\ job'.pc = pc /\ SameTask /\ ~job'.clean
  BY DEF TypeOK, Fault, Jobs, SameTask
<1>2. faults' \in 1..MaxFaults
  BY DEF TypeOK, Fault, DirectoryAssumption
<1> QED BY <1>1, <1>2

\* What a command does to the directory.
LEMMA EmptyDirTyped ==
    ASSUME DirectoryAssumption
    PROVE  /\ EmptyDir \in Dirs
           /\ EmptyDir.head = None /\ EmptyDir.on = None /\ EmptyDir.traces = {} /\ ~EmptyDir.lock
           /\ ~EmptyDir.git
BY DEF EmptyDir, Dirs, DirectoryAssumption

LEMMA CheckedOutTyped ==
    ASSUME DirectoryAssumption, TypeOK, NEW p \in PRs, dir.branch[p] >= 1
    PROVE  /\ CheckedOut(p) \in Dirs
           /\ CheckedOut(p).head # None /\ CheckedOut(p).head[1] = p /\ CheckedOut(p).head[2] = dir.branch[p]
           /\ CheckedOut(p).on = p /\ CheckedOut(p).branch = dir.branch
           /\ CheckedOut(p).traces = dir.traces /\ CheckedOut(p).lock = dir.lock
           /\ CheckedOut(p).git = dir.git /\ CheckedOut(p).origin = dir.origin
<1>1. <<p, dir.branch[p]>> \in Commits
  BY DEF TypeOK, Dirs, Commits, Versions, DirectoryAssumption
<1>2. <<p, dir.branch[p]>> # None
  BY <1>1 DEF DirectoryAssumption
<1>3. CheckedOut(p) \in Dirs
  BY <1>1 DEF TypeOK, Dirs, CheckedOut
<1> QED BY <1>1, <1>2, <1>3 DEF TypeOK, Dirs, CheckedOut

LEMMA ResetTyped ==
    ASSUME TypeOK
    PROVE  /\ ResetAndClean \in Dirs
           /\ ResetAndClean.head = dir.head /\ ResetAndClean.on = dir.on /\ ResetAndClean.branch = dir.branch
           /\ ResetAndClean.lock = dir.lock /\ ResetAndClean.git = dir.git /\ ResetAndClean.origin = dir.origin
           /\ ResetAndClean.traces \subseteq dir.traces
           /\ (dir.head # None /\ ~dir.lock) => ResetAndClean.traces = {}
           /\ ResetAndClean.traces \in SUBSET (Commits \cup {None})
BY DEF TypeOK, Dirs, ResetAndClean

-----------------------------------------------------------------------------
\* A step of EnsurePRRepository: types and the task follow from the step's shape.
LEMMA UpdateKeeps ==
    ASSUME DirInv, UNCHANGED env, SameTask, job.of \in PRs, job' \in Jobs,
           job'.pc \in UpdateSteps \cup {"agent", "failed"}, dir' \in Dirs, faults' \in 0..MaxFaults,
           ReadInv', NewDirInv', FreshInv', OrderInv'
    PROVE  DirInv'
<1>1. TypeOK'
  BY DEF DirInv, TypeOK, env
<1>2. JobInv'
  BY DEF DirInv, JobInv, env, SameTask, UpdateSteps
<1> QED BY <1>1, <1>2 DEF DirInv

\* HEAD, the branches and the files of the directory stay as they are.
SameTree == dir'.head = dir.head /\ dir'.on = dir.on /\ dir'.traces = dir.traces

\* A command fails, and the task with it: whatever else changes in the
\* directory, the task is no longer clean.
LEMMA FailedKeeps ==
    ASSUME DirectoryAssumption, DirInv, UNCHANGED env, job.of \in PRs, Fault("failed"), dir' \in Dirs, SameTree
    PROVE  DirInv'
<1>1. job' \in Jobs /\ job'.pc = "failed" /\ SameTask /\ ~job'.clean /\ faults' \in 1..MaxFaults
  BY FaultStep DEF DirInv
<1>2. ReadInv' /\ NewDirInv' /\ FreshInv' /\ OrderInv'
  BY <1>1 DEF DirInv, ReadInv, NewDirInv, FreshInv, OrderInv, SameTask, SameTree, env
<1> QED BY <1>1, <1>2, UpdateKeeps DEF DirectoryAssumption

LEMMA CheckPathKeeps ==
    ASSUME DirectoryAssumption, DirInv, CheckPath
    PROVE  DirInv'
<1>1. job.of \in PRs /\ job.pc = "path" /\ UNCHANGED env
  BY DEF DirInv, JobInv, CheckPath, At, UpdateSteps
<1>2. CASE dir.exists /\ dir.git /\ Go("head") /\ UNCHANGED dir
  <2>1. job' \in Jobs /\ job'.pc = "head" /\ SameTask /\ job'.clean = job.clean /\ faults' = faults
    BY <1>2, GoStep DEF DirInv, UpdateSteps
  <2>2. ReadInv' /\ NewDirInv' /\ FreshInv' /\ OrderInv'
    BY <1>1, <1>2, <2>1 DEF DirInv, ReadInv, NewDirInv, FreshInv, OrderInv, SameTask, env
  <2> QED BY <1>1, <1>2, <2>1, <2>2, UpdateKeeps DEF DirInv, TypeOK, UpdateSteps
<1>3. CASE Go("init") /\ dir' = EmptyDir
  <2>1. job' \in Jobs /\ job'.pc = "init" /\ SameTask /\ job'.clean = job.clean /\ faults' = faults
    BY <1>3, GoStep DEF DirInv, UpdateSteps
  <2>2. dir' \in Dirs /\ dir'.head = None /\ dir'.on = None /\ dir'.traces = {} /\ ~dir'.lock
    BY <1>3, EmptyDirTyped
  <2>3. ReadInv' /\ NewDirInv' /\ FreshInv' /\ OrderInv'
    BY <1>1, <2>1, <2>2 DEF DirInv, ReadInv, NewDirInv, FreshInv, OrderInv, SameTask, env
  <2> QED BY <1>1, <2>1, <2>2, <2>3, UpdateKeeps DEF DirInv, TypeOK, UpdateSteps
<1>4. CASE Fault("failed") /\ UNCHANGED dir
  BY <1>1, <1>4, FailedKeeps DEF DirInv, TypeOK, SameTree
<1> QED BY <1>2, <1>3, <1>4 DEF CheckPath

LEMMA InitRepoKeeps ==
    ASSUME DirectoryAssumption, DirInv, InitRepo
    PROVE  DirInv'
<1>1. job.of \in PRs /\ job.pc = "init" /\ UNCHANGED env
  BY DEF DirInv, JobInv, InitRepo, At, UpdateSteps
<1>2. CASE Go("origin") /\ dir' = [dir EXCEPT !.exists = TRUE, !.git = TRUE]
  <2>1. job' \in Jobs /\ job'.pc = "origin" /\ SameTask /\ job'.clean = job.clean /\ faults' = faults
    BY <1>2, GoStep DEF DirInv, UpdateSteps
  <2>2. dir' \in Dirs /\ SameTree /\ dir'.lock = dir.lock
    BY <1>1, <1>2 DEF DirInv, TypeOK, Dirs, SameTree
  <2>3. ReadInv' /\ NewDirInv' /\ FreshInv' /\ OrderInv'
    BY <1>1, <1>2, <2>1, <2>2 DEF DirInv, ReadInv, NewDirInv, FreshInv, OrderInv, JobInv, SameTask, SameTree, env
  <2> QED BY <1>1, <2>1, <2>2, <2>3, UpdateKeeps DEF DirInv, TypeOK, UpdateSteps
<1>3. CASE Fault("failed") /\ dir' \in {dir, [dir EXCEPT !.exists = TRUE], [dir EXCEPT !.exists = TRUE, !.git = TRUE]}
  <2>1. dir' \in Dirs /\ SameTree
    BY <1>3 DEF DirInv, TypeOK, Dirs, SameTree
  <2> QED BY <1>1, <1>3, <2>1, FailedKeeps
<1> QED BY <1>1, <1>2, <1>3 DEF InitRepo

LEMMA AddOriginKeeps ==
    ASSUME DirectoryAssumption, DirInv, AddOrigin
    PROVE  DirInv'
<1>1. job.of \in PRs /\ job.pc = "origin" /\ UNCHANGED env
  BY DEF DirInv, JobInv, AddOrigin, At, UpdateSteps
<1>2. CASE Go("fetchNew") /\ dir' = [dir EXCEPT !.origin = TRUE]
  <2>1. job' \in Jobs /\ job'.pc = "fetchNew" /\ SameTask /\ job'.clean = job.clean /\ faults' = faults
    BY <1>2, GoStep DEF DirInv, UpdateSteps
  <2>2. dir' \in Dirs /\ SameTree /\ dir'.lock = dir.lock
    BY <1>1, <1>2 DEF DirInv, TypeOK, Dirs, SameTree
  <2>3. ReadInv' /\ NewDirInv' /\ FreshInv' /\ OrderInv'
    BY <1>1, <1>2, <2>1, <2>2 DEF DirInv, ReadInv, NewDirInv, FreshInv, OrderInv, JobInv, SameTask, SameTree, env
  <2> QED BY <1>1, <2>1, <2>2, <2>3, UpdateKeeps DEF DirInv, TypeOK, UpdateSteps
<1>3. CASE Fault("failed") /\ UNCHANGED dir
  <2>1. dir' \in Dirs /\ SameTree
    BY <1>3 DEF DirInv, TypeOK, Dirs, SameTree
  <2> QED BY <1>1, <1>3, <2>1, FailedKeeps
<1> QED BY <1>1, <1>2, <1>3 DEF AddOrigin

\* A fetch brings the branch to the head of its pull request, which is the one that was
\* asked for or a later one.
LEMMA FetchNewKeeps ==
    ASSUME DirectoryAssumption, DirInv, FetchNew
    PROVE  DirInv'
<1>1. job.of \in PRs /\ job.pc = "fetchNew" /\ UNCHANGED env
  BY DEF DirInv, JobInv, FetchNew, At, UpdateSteps
<1>2. CASE Go("checkoutNew") /\ dir' = [dir EXCEPT !.branch[job.of] = heads[job.of]]
  <2>1. job' \in Jobs /\ job'.pc = "checkoutNew" /\ SameTask /\ job'.clean = job.clean /\ faults' = faults
    BY <1>2, GoStep DEF DirInv, UpdateSteps
  <2>2. dir' \in Dirs /\ SameTree /\ dir'.lock = dir.lock /\ dir'.origin = dir.origin /\ dir'.branch[job.of] = heads[job.of]
    BY <1>1, <1>2 DEF DirInv, TypeOK, Dirs, SameTree, Versions, DirectoryAssumption
  <2>3. ReadInv' /\ NewDirInv' /\ FreshInv' /\ OrderInv'
    BY <1>1, <1>2, <2>1, <2>2 DEF DirInv, ReadInv, NewDirInv, FreshInv, OrderInv, JobInv, SameTask, SameTree, env, TypeOK, Versions, Jobs, DirectoryAssumption
  <2> QED BY <1>1, <2>1, <2>2, <2>3, UpdateKeeps DEF DirInv, TypeOK, UpdateSteps
<1>3. CASE Fault("failed") /\ UNCHANGED dir
  <2>1. dir' \in Dirs /\ SameTree
    BY <1>3 DEF DirInv, TypeOK, Dirs, SameTree
  <2> QED BY <1>1, <1>3, <2>1, FailedKeeps
<1> QED BY <1>1, <1>2, <1>3 DEF FetchNew

LEMMA CheckoutNewKeeps ==
    ASSUME DirectoryAssumption, DirInv, CheckoutNew
    PROVE  DirInv'
<1>1. job.of \in PRs /\ job.pc = "checkoutNew" /\ UNCHANGED env
  BY DEF DirInv, JobInv, CheckoutNew, At, UpdateSteps
<1>2. CASE Go("agent") /\ dir' = CheckedOut(job.of)
  <2>1. job' \in Jobs /\ job'.pc = "agent" /\ SameTask /\ job'.clean = job.clean /\ faults' = faults
    BY <1>2, GoStep DEF DirInv, UpdateSteps
  <2>2. dir' \in Dirs /\ dir'.head # None /\ dir'.head[1] = job.of /\ dir'.head[2] = dir.branch[job.of]
        /\ dir'.on = job.of /\ dir'.traces = dir.traces /\ dir'.lock = dir.lock
    BY <1>1, <1>2, CheckedOutTyped DEF DirInv, TypeOK, Dirs, JobInv, ReadInv, Versions, DirectoryAssumption
  <2>3. ReadInv' /\ NewDirInv' /\ FreshInv' /\ OrderInv'
    BY <1>1, <1>2, <2>1, <2>2 DEF DirInv, ReadInv, NewDirInv, FreshInv, OrderInv, JobInv, SameTask, SameTree, env
  <2> QED BY <1>1, <2>1, <2>2, <2>3, UpdateKeeps DEF DirInv, TypeOK, UpdateSteps
<1>3. CASE Killed("failed")
  <2>1. dir' \in Dirs /\ SameTree
    BY <1>3 DEF DirInv, TypeOK, Dirs, SameTree, Killed
  <2> QED BY <1>1, <1>3, <2>1, FailedKeeps DEF Killed
<1> QED BY <1>1, <1>2, <1>3 DEF CheckoutNew

LEMMA CompareHeadKeeps ==
    ASSUME DirectoryAssumption, DirInv, CompareHead
    PROVE  DirInv'
<1>1. job.of \in PRs /\ job.pc = "head" /\ UNCHANGED env
  BY DEF DirInv, JobInv, CompareHead, At, UpdateSteps
<1>2. CASE dir.head = <<job.of, job.want>> /\ Go("agent") /\ UNCHANGED dir
  <2>1. job' \in Jobs /\ job'.pc = "agent" /\ SameTask /\ job'.clean = job.clean /\ faults' = faults
    BY <1>2, GoStep DEF DirInv, UpdateSteps
  <2>2. dir' \in Dirs /\ dir' = dir /\ dir.head # None /\ dir.head[1] = job.of /\ dir.head[2] = job.want
    BY <1>1, <1>2 DEF DirInv, TypeOK, Dirs, JobInv, Commits, Versions, DirectoryAssumption
  <2>3. ReadInv' /\ NewDirInv' /\ FreshInv' /\ OrderInv'
    BY <1>1, <1>2, <2>1, <2>2 DEF DirInv, ReadInv, NewDirInv, FreshInv, OrderInv, JobInv, SameTask, SameTree, env, TypeOK, Jobs
  <2> QED BY <1>1, <2>1, <2>2, <2>3, UpdateKeeps DEF DirInv, TypeOK, UpdateSteps
<1>3. CASE dir.head # <<job.of, job.want>> /\ Go("unlock") /\ UNCHANGED dir
  <2>1. job' \in Jobs /\ job'.pc = "unlock" /\ SameTask /\ job'.clean = job.clean /\ faults' = faults
    BY <1>3, GoStep DEF DirInv, UpdateSteps
  <2>2. dir' \in Dirs /\ dir' = dir
    BY <1>1, <1>3 DEF DirInv, TypeOK
  <2>3. ReadInv' /\ NewDirInv' /\ FreshInv' /\ OrderInv'
    BY <1>1, <1>3, <2>1, <2>2 DEF DirInv, ReadInv, NewDirInv, FreshInv, OrderInv, JobInv, SameTask, SameTree, env
  <2> QED BY <1>1, <2>1, <2>2, <2>3, UpdateKeeps DEF DirInv, TypeOK, UpdateSteps
<1>4. CASE Fault("unlock") /\ UNCHANGED dir
  <2>1. job' \in Jobs /\ job'.pc = "unlock" /\ SameTask /\ ~job'.clean /\ faults' \in 1..MaxFaults
    BY <1>4, FaultStep DEF DirInv, UpdateSteps
  <2>2. dir' \in Dirs /\ SameTree
    BY <1>4 DEF DirInv, TypeOK, Dirs, SameTree
  <2>3. ReadInv' /\ NewDirInv' /\ FreshInv' /\ OrderInv'
    BY <1>1, <2>1, <2>2 DEF DirInv, ReadInv, NewDirInv, FreshInv, OrderInv, SameTask, SameTree, env
  <2> QED BY <1>1, <2>1, <2>2, <2>3, UpdateKeeps DEF UpdateSteps, DirectoryAssumption
<1> QED BY <1>1, <1>2, <1>3, <1>4 DEF CompareHead

LEMMA CleanupGitLockKeeps ==
    ASSUME DirectoryAssumption, DirInv, CleanupGitLock
    PROVE  DirInv'
<1>1. job.of \in PRs /\ job.pc = "unlock" /\ UNCHANGED env
  BY DEF DirInv, JobInv, CleanupGitLock, At, UpdateSteps
<1>2. CASE Go("tidy") /\ dir' = [dir EXCEPT !.lock = FALSE]
  <2>1. job' \in Jobs /\ job'.pc = "tidy" /\ SameTask /\ job'.clean = job.clean /\ faults' = faults
    BY <1>2, GoStep DEF DirInv, UpdateSteps
  <2>2. dir' \in Dirs /\ SameTree /\ dir'.origin = dir.origin /\ ~dir'.lock
    BY <1>1, <1>2 DEF DirInv, TypeOK, Dirs, SameTree
  <2>3. ReadInv' /\ NewDirInv' /\ FreshInv' /\ OrderInv'
    BY <1>1, <1>2, <2>1, <2>2 DEF DirInv, ReadInv, NewDirInv, FreshInv, OrderInv, JobInv, SameTask, SameTree, env
  <2> QED BY <1>1, <2>1, <2>2, <2>3, UpdateKeeps DEF DirInv, TypeOK, UpdateSteps
<1>3. CASE Fault("tidy") /\ UNCHANGED dir
  <2>1. job' \in Jobs /\ job'.pc = "tidy" /\ SameTask /\ ~job'.clean /\ faults' \in 1..MaxFaults
    BY <1>3, FaultStep DEF DirInv, UpdateSteps
  <2>2. dir' \in Dirs /\ SameTree
    BY <1>3 DEF DirInv, TypeOK, Dirs, SameTree
  <2>3. ReadInv' /\ NewDirInv' /\ FreshInv' /\ OrderInv'
    BY <1>1, <2>1, <2>2 DEF DirInv, ReadInv, NewDirInv, FreshInv, OrderInv, SameTask, SameTree, env
  <2> QED BY <1>1, <2>1, <2>2, <2>3, UpdateKeeps DEF UpdateSteps, DirectoryAssumption
<1> QED BY <1>1, <1>2, <1>3 DEF CleanupGitLock

\* The tree is cleaned when there is a HEAD and no lock; without a HEAD there is nothing
\* in it.
LEMMA TidyKeeps ==
    ASSUME DirectoryAssumption, DirInv, Tidy
    PROVE  DirInv'
<1>1. job.of \in PRs /\ job.pc = "tidy" /\ UNCHANGED env
  BY DEF DirInv, JobInv, Tidy, At, UpdateSteps
<1>2. CASE Go("detach") /\ dir' = ResetAndClean
  <2>1. job' \in Jobs /\ job'.pc = "detach" /\ SameTask /\ job'.clean = job.clean /\ faults' = faults
    BY <1>2, GoStep DEF DirInv, UpdateSteps
  <2>2. dir' \in Dirs /\ dir'.head = dir.head /\ dir'.on = dir.on /\ dir'.lock = dir.lock
        /\ dir'.origin = dir.origin /\ dir'.traces \subseteq dir.traces
        /\ ((dir.head # None /\ ~dir.lock) => dir'.traces = {})
    BY <1>1, <1>2, ResetTyped DEF DirInv
  <2>3. ReadInv' /\ NewDirInv' /\ FreshInv' /\ OrderInv'
    BY <1>1, <1>2, <2>1, <2>2 DEF DirInv, ReadInv, NewDirInv, FreshInv, OrderInv, JobInv, SameTask, SameTree, env
  <2> QED BY <1>1, <2>1, <2>2, <2>3, UpdateKeeps DEF DirInv, TypeOK, UpdateSteps
<1>3. CASE Killed("detach")
  <2>1. job' \in Jobs /\ job'.pc = "detach" /\ SameTask /\ ~job'.clean /\ faults' \in 1..MaxFaults
    BY <1>3, FaultStep DEF DirInv, UpdateSteps, Killed
  <2>2. dir' \in Dirs /\ SameTree
    BY <1>3 DEF DirInv, TypeOK, Dirs, SameTree, Killed
  <2>3. ReadInv' /\ NewDirInv' /\ FreshInv' /\ OrderInv'
    BY <1>1, <2>1, <2>2 DEF DirInv, ReadInv, NewDirInv, FreshInv, OrderInv, SameTask, SameTree, env
  <2> QED BY <1>1, <2>1, <2>2, <2>3, UpdateKeeps DEF UpdateSteps, DirectoryAssumption
<1> QED BY <1>1, <1>2, <1>3 DEF Tidy

LEMMA CheckoutDetachedKeeps ==
    ASSUME DirectoryAssumption, DirInv, CheckoutDetached
    PROVE  DirInv'
<1>1. job.of \in PRs /\ job.pc = "detach" /\ UNCHANGED env
  BY DEF DirInv, JobInv, CheckoutDetached, At, UpdateSteps
<1>2. CASE Go("fetch") /\ dir' = IF dir.head # None /\ ~dir.lock THEN [dir EXCEPT !.on = None] ELSE dir
  <2>1. job' \in Jobs /\ job'.pc = "fetch" /\ SameTask /\ job'.clean = job.clean /\ faults' = faults
    BY <1>2, GoStep DEF DirInv, UpdateSteps
  <2>2. dir' \in Dirs /\ dir'.head = dir.head /\ dir'.traces = dir.traces /\ dir'.lock = dir.lock
        /\ dir'.origin = dir.origin /\ dir'.on \in {None, dir.on}
        /\ ((dir.head # None /\ ~dir.lock) => dir'.on = None)
    BY <1>1, <1>2 DEF DirInv, TypeOK, Dirs
  <2>3. ReadInv' /\ NewDirInv' /\ FreshInv' /\ OrderInv'
    BY <1>1, <1>2, <2>1, <2>2 DEF DirInv, ReadInv, NewDirInv, FreshInv, OrderInv, JobInv, SameTask, SameTree, env
  <2> QED BY <1>1, <2>1, <2>2, <2>3, UpdateKeeps DEF DirInv, TypeOK, UpdateSteps
<1>3. CASE Killed("fetch")
  <2>1. job' \in Jobs /\ job'.pc = "fetch" /\ SameTask /\ ~job'.clean /\ faults' \in 1..MaxFaults
    BY <1>3, FaultStep DEF DirInv, UpdateSteps, Killed
  <2>2. dir' \in Dirs /\ SameTree
    BY <1>3 DEF DirInv, TypeOK, Dirs, SameTree, Killed
  <2>3. ReadInv' /\ NewDirInv' /\ FreshInv' /\ OrderInv'
    BY <1>1, <2>1, <2>2 DEF DirInv, ReadInv, NewDirInv, FreshInv, OrderInv, SameTask, SameTree, env
  <2> QED BY <1>1, <2>1, <2>2, <2>3, UpdateKeeps DEF UpdateSteps, DirectoryAssumption
<1> QED BY <1>1, <1>2, <1>3 DEF CheckoutDetached

LEMMA FetchPRRefKeeps ==
    ASSUME DirectoryAssumption, DirInv, FetchPRRef
    PROVE  DirInv'
<1>1. job.of \in PRs /\ job.pc = "fetch" /\ UNCHANGED env
  BY DEF DirInv, JobInv, FetchPRRef, At, UpdateSteps
<1>2. CASE Go("checkout") /\ dir' = [dir EXCEPT !.branch[job.of] = heads[job.of]]
  <2>1. job' \in Jobs /\ job'.pc = "checkout" /\ SameTask /\ job'.clean = job.clean /\ faults' = faults
    BY <1>2, GoStep DEF DirInv, UpdateSteps
  <2>2. dir' \in Dirs /\ SameTree /\ dir'.lock = dir.lock /\ dir'.origin = dir.origin /\ dir'.branch[job.of] = heads[job.of]
    BY <1>1, <1>2 DEF DirInv, TypeOK, Dirs, SameTree, Versions, DirectoryAssumption
  <2>3. ReadInv' /\ NewDirInv' /\ FreshInv' /\ OrderInv'
    BY <1>1, <1>2, <2>1, <2>2 DEF DirInv, ReadInv, NewDirInv, FreshInv, OrderInv, JobInv, SameTask, SameTree, env, TypeOK, Versions, Jobs, DirectoryAssumption
  <2> QED BY <1>1, <2>1, <2>2, <2>3, UpdateKeeps DEF DirInv, TypeOK, UpdateSteps
<1>3. CASE Go("delete") /\ UNCHANGED dir
  <2>1. job' \in Jobs /\ job'.pc = "delete" /\ SameTask /\ job'.clean = job.clean /\ faults' = faults
    BY <1>3, GoStep DEF DirInv, UpdateSteps
  <2>2. dir' \in Dirs /\ dir' = dir
    BY <1>1, <1>3 DEF DirInv, TypeOK
  <2>3. ReadInv' /\ NewDirInv' /\ FreshInv' /\ OrderInv'
    BY <1>1, <1>3, <2>1, <2>2 DEF DirInv, ReadInv, NewDirInv, FreshInv, OrderInv, JobInv, SameTask, SameTree, env
  <2> QED BY <1>1, <2>1, <2>2, <2>3, UpdateKeeps DEF DirInv, TypeOK, UpdateSteps
<1>4. CASE ~FetchAllowed(job.of) /\ Go("failed") /\ UNCHANGED dir
  <2>1. job' \in Jobs /\ job'.pc = "failed" /\ SameTask /\ job'.clean = job.clean /\ faults' = faults
    BY <1>4, GoStep DEF DirInv, UpdateSteps
  <2>2. dir' \in Dirs /\ dir' = dir
    BY <1>1, <1>4 DEF DirInv, TypeOK
  <2>3. ReadInv' /\ NewDirInv' /\ FreshInv' /\ OrderInv'
    BY <1>1, <1>4, <2>1, <2>2 DEF DirInv, ReadInv, NewDirInv, FreshInv, OrderInv, JobInv, SameTask, SameTree, env, FetchAllowed, DirectoryAssumption
  <2> QED BY <1>1, <2>1, <2>2, <2>3, UpdateKeeps DEF DirInv, TypeOK, UpdateSteps
<1>5. CASE Fault("failed") /\ UNCHANGED dir
  <2>1. dir' \in Dirs /\ SameTree
    BY <1>5 DEF DirInv, TypeOK, Dirs, SameTree
  <2> QED BY <1>1, <1>5, <2>1, FailedKeeps
<1> QED BY <1>1, <1>2, <1>3, <1>4, <1>5 DEF FetchPRRef

LEMMA DeleteLocalBranchKeeps ==
    ASSUME DirectoryAssumption, DirInv, DeleteLocalBranch
    PROVE  DirInv'
<1>1. job.of \in PRs /\ job.pc = "delete" /\ UNCHANGED env
  BY DEF DirInv, JobInv, DeleteLocalBranch, At, UpdateSteps
<1>2. CASE Go("refetch") /\ dir' = [dir EXCEPT !.branch[job.of] = 0]
  <2>1. job' \in Jobs /\ job'.pc = "refetch" /\ SameTask /\ job'.clean = job.clean /\ faults' = faults
    BY <1>2, GoStep DEF DirInv, UpdateSteps
  <2>2. dir' \in Dirs /\ SameTree /\ dir'.lock = dir.lock /\ dir'.origin = dir.origin
    BY <1>1, <1>2 DEF DirInv, TypeOK, Dirs, SameTree, DirectoryAssumption
  <2>3. ReadInv' /\ NewDirInv' /\ FreshInv' /\ OrderInv'
    BY <1>1, <1>2, <2>1, <2>2 DEF DirInv, ReadInv, NewDirInv, FreshInv, OrderInv, JobInv, SameTask, SameTree, env
  <2> QED BY <1>1, <2>1, <2>2, <2>3, UpdateKeeps DEF DirInv, TypeOK, UpdateSteps
<1>3. CASE Fault("failed") /\ UNCHANGED dir
  <2>1. dir' \in Dirs /\ SameTree
    BY <1>3 DEF DirInv, TypeOK, Dirs, SameTree
  <2> QED BY <1>1, <1>3, <2>1, FailedKeeps
<1> QED BY <1>1, <1>2, <1>3 DEF DeleteLocalBranch

LEMMA RetryFetchKeeps ==
    ASSUME DirectoryAssumption, DirInv, RetryFetch
    PROVE  DirInv'
<1>1. job.of \in PRs /\ job.pc = "refetch" /\ UNCHANGED env
  BY DEF DirInv, JobInv, RetryFetch, At, UpdateSteps
<1>2. CASE Go("checkout") /\ dir' = [dir EXCEPT !.branch[job.of] = heads[job.of]]
  <2>1. job' \in Jobs /\ job'.pc = "checkout" /\ SameTask /\ job'.clean = job.clean /\ faults' = faults
    BY <1>2, GoStep DEF DirInv, UpdateSteps
  <2>2. dir' \in Dirs /\ SameTree /\ dir'.lock = dir.lock /\ dir'.origin = dir.origin /\ dir'.branch[job.of] = heads[job.of]
    BY <1>1, <1>2 DEF DirInv, TypeOK, Dirs, SameTree, Versions, DirectoryAssumption
  <2>3. ReadInv' /\ NewDirInv' /\ FreshInv' /\ OrderInv'
    BY <1>1, <1>2, <2>1, <2>2 DEF DirInv, ReadInv, NewDirInv, FreshInv, OrderInv, JobInv, SameTask, SameTree, env, TypeOK, Versions, Jobs, DirectoryAssumption
  <2> QED BY <1>1, <2>1, <2>2, <2>3, UpdateKeeps DEF DirInv, TypeOK, UpdateSteps
<1>3. CASE Fault("failed") /\ UNCHANGED dir
  <2>1. dir' \in Dirs /\ SameTree
    BY <1>3 DEF DirInv, TypeOK, Dirs, SameTree
  <2> QED BY <1>1, <1>3, <2>1, FailedKeeps
<1> QED BY <1>1, <1>2, <1>3 DEF RetryFetch

LEMMA CheckoutBranchKeeps ==
    ASSUME DirectoryAssumption, DirInv, CheckoutBranch
    PROVE  DirInv'
<1>1. job.of \in PRs /\ job.pc = "checkout" /\ UNCHANGED env
  BY DEF DirInv, JobInv, CheckoutBranch, At, UpdateSteps
<1>2. CASE Go("tidyAgain") /\ dir' = CheckedOut(job.of)
  <2>1. job' \in Jobs /\ job'.pc = "tidyAgain" /\ SameTask /\ job'.clean = job.clean /\ faults' = faults
    BY <1>2, GoStep DEF DirInv, UpdateSteps
  <2>2. dir' \in Dirs /\ dir'.head # None /\ dir'.head[1] = job.of /\ dir'.head[2] = dir.branch[job.of]
        /\ dir'.on = job.of /\ dir'.traces = dir.traces /\ dir'.lock = dir.lock
    BY <1>1, <1>2, CheckedOutTyped DEF DirInv, TypeOK, Dirs, JobInv, ReadInv, Versions, DirectoryAssumption
  <2>3. ReadInv' /\ NewDirInv' /\ FreshInv' /\ OrderInv'
    BY <1>1, <1>2, <2>1, <2>2 DEF DirInv, ReadInv, NewDirInv, FreshInv, OrderInv, JobInv, SameTask, SameTree, env
  <2> QED BY <1>1, <2>1, <2>2, <2>3, UpdateKeeps DEF DirInv, TypeOK, UpdateSteps
<1>3. CASE (dir.lock \/ dir.branch[job.of] = 0 \/ dir.traces # {}) /\ Go("failed") /\ UNCHANGED dir
  <2>1. job' \in Jobs /\ job'.pc = "failed" /\ SameTask /\ job'.clean = job.clean /\ faults' = faults
    BY <1>3, GoStep DEF DirInv, UpdateSteps
  <2>2. dir' \in Dirs /\ dir' = dir
    BY <1>1, <1>3 DEF DirInv, TypeOK
  <2>3. ReadInv' /\ NewDirInv' /\ FreshInv' /\ OrderInv'
    BY <1>1, <1>3, <2>1, <2>2 DEF DirInv, ReadInv, NewDirInv, FreshInv, OrderInv, JobInv, SameTask, SameTree, env, TypeOK, Jobs, Versions, DirectoryAssumption
  <2> QED BY <1>1, <2>1, <2>2, <2>3, UpdateKeeps DEF DirInv, TypeOK, UpdateSteps
<1>4. CASE Killed("failed")
  <2>1. dir' \in Dirs /\ SameTree
    BY <1>4 DEF DirInv, TypeOK, Dirs, SameTree, Killed
  <2> QED BY <1>1, <1>4, <2>1, FailedKeeps DEF Killed
<1> QED BY <1>1, <1>2, <1>3, <1>4 DEF CheckoutBranch

LEMMA TidyAgainKeeps ==
    ASSUME DirectoryAssumption, DirInv, TidyAgain
    PROVE  DirInv'
<1>1. job.of \in PRs /\ job.pc = "tidyAgain" /\ UNCHANGED env
  BY DEF DirInv, JobInv, TidyAgain, At, UpdateSteps
<1>2. CASE Go("agent") /\ dir' = ResetAndClean
  <2>1. job' \in Jobs /\ job'.pc = "agent" /\ SameTask /\ job'.clean = job.clean /\ faults' = faults
    BY <1>2, GoStep DEF DirInv, UpdateSteps
  <2>2. dir' \in Dirs /\ dir'.head = dir.head /\ dir'.on = dir.on /\ dir'.lock = dir.lock
        /\ dir'.origin = dir.origin /\ dir'.traces \subseteq dir.traces
        /\ ((dir.head # None /\ ~dir.lock) => dir'.traces = {})
    BY <1>1, <1>2, ResetTyped DEF DirInv
  <2>3. ReadInv' /\ NewDirInv' /\ FreshInv' /\ OrderInv'
    BY <1>1, <1>2, <2>1, <2>2 DEF DirInv, ReadInv, NewDirInv, FreshInv, OrderInv, JobInv, SameTask, SameTree, env
  <2> QED BY <1>1, <2>1, <2>2, <2>3, UpdateKeeps DEF DirInv, TypeOK, UpdateSteps
<1>3. CASE Killed("agent")
  <2>1. job' \in Jobs /\ job'.pc = "agent" /\ SameTask /\ ~job'.clean /\ faults' \in 1..MaxFaults
    BY <1>3, FaultStep DEF DirInv, UpdateSteps, Killed
  <2>2. dir' \in Dirs /\ SameTree
    BY <1>3 DEF DirInv, TypeOK, Dirs, SameTree, Killed
  <2>3. ReadInv' /\ NewDirInv' /\ FreshInv' /\ OrderInv'
    BY <1>1, <2>1, <2>2 DEF DirInv, ReadInv, NewDirInv, FreshInv, OrderInv, SameTask, SameTree, env
  <2> QED BY <1>1, <2>1, <2>2, <2>3, UpdateKeeps DEF UpdateSteps, DirectoryAssumption
<1> QED BY <1>1, <1>2, <1>3 DEF TidyAgain

-----------------------------------------------------------------------------
\* The steps outside of EnsurePRRepository.
LEMMA PushKeeps ==
    ASSUME DirectoryAssumption, DirInv, NEW p \in PRs, Push(p)
    PROVE  DirInv'
<1>1. heads[p] \in Versions /\ heads[p] < MaxHeads /\ heads' = [heads EXCEPT ![p] = heads[p] + 1]
  BY DEF DirInv, TypeOK, Push
<1>2. heads[p] + 1 \in Versions
  BY <1>1 DEF Versions, DirectoryAssumption
<1>3. UNCHANGED <<dir, left, job, paths, retry, attempts, retries, faults, crashes>>
  BY DEF Push
<1>4. heads' \in [PRs -> Versions]
  BY <1>1, <1>2 DEF DirInv, TypeOK
<1>5. forced' \subseteq Commits
  BY <1>2 DEF DirInv, TypeOK, Push, Commits
<1>6. \A q \in PRs : heads'[q] >= heads[q]
  BY <1>1, <1>2, <1>4 DEF DirInv, TypeOK, Versions
<1>7. TypeOK'
  BY <1>3, <1>4, <1>5 DEF DirInv, TypeOK
<1>8. JobInv'
  BY <1>3, <1>4, <1>6 DEF DirInv, TypeOK, JobInv, Jobs, Versions, DirectoryAssumption
<1>9. ReadInv' /\ NewDirInv' /\ FreshInv' /\ OrderInv'
  BY <1>3 DEF DirInv, ReadInv, NewDirInv, FreshInv, OrderInv
<1> QED BY <1>7, <1>8, <1>9 DEF DirInv

LEMMA BeginPRKeeps ==
    ASSUME DirectoryAssumption, DirInv, NEW p \in PRs, BeginPR(p)
    PROVE  DirInv'
<1>1. UNCHANGED <<heads, forced, dir, left, paths, retry, retries, faults, crashes>>
  BY DEF BeginPR
<1>2. attempts' \in 0..MaxAttempts
  BY DEF DirInv, TypeOK, BeginPR, DirectoryAssumption
<1>3. PICK n \in 1..heads[p] :
         job' = [Idle EXCEPT !.pc = "path", !.of = p, !.want = n, !.sound = dir.git => dir.origin]
  BY DEF BeginPR
<1>4. n \in 0..MaxHeads
  BY DEF DirInv, TypeOK, Versions, DirectoryAssumption
<1>5. /\ job'.pc = "path" /\ job'.of = p /\ job'.want = n /\ job'.clean = TRUE
      /\ job'.sound = (dir.git => dir.origin)
  BY <1>3 DEF Idle
<1>6. job' \in Jobs
  <2>1. (dir.git => dir.origin) \in BOOLEAN
    OBVIOUS
  <2> QED BY <1>3, <1>4, <2>1 DEF Idle, Jobs, UpdateSteps
<1>7. TypeOK'
  BY <1>1, <1>2, <1>6 DEF DirInv, TypeOK
<1>8. JobInv'
  BY <1>1, <1>5 DEF JobInv
<1>9. ReadInv' /\ NewDirInv' /\ FreshInv' /\ OrderInv'
  BY <1>1, <1>5 DEF DirInv, ReadInv, NewDirInv, FreshInv, OrderInv
<1> QED BY <1>7, <1>8, <1>9 DEF DirInv

LEMMA BeginPushKeeps ==
    ASSUME DirectoryAssumption, DirInv, NEW r \in Pushes, BeginPush(r)
    PROVE  DirInv'
<1>1. UNCHANGED <<heads, forced, dir, left, paths, retry, retries, faults, crashes>>
  BY DEF BeginPush
<1>2. attempts' \in 0..MaxAttempts
  BY DEF DirInv, TypeOK, BeginPush, DirectoryAssumption
<1>3. job' = [Idle EXCEPT !.pc = "clone", !.of = r, !.sound = r \notin left]
  BY DEF BeginPush
<1>4. job'.pc = "clone" /\ job'.of = r /\ job'.clean = TRUE /\ job'.sound = (r \notin left)
  BY <1>3 DEF Idle
<1>5. job' \in Jobs
  <2>1. (r \notin left) \in BOOLEAN /\ 0 \in 0..MaxHeads
    BY DEF DirectoryAssumption
  <2> QED BY <1>3, <2>1 DEF Idle, Jobs
<1>6. TypeOK'
  BY <1>1, <1>2, <1>5 DEF DirInv, TypeOK
<1>7. JobInv'
  BY <1>1, <1>4 DEF JobInv, UpdateSteps, DirectoryAssumption
<1>8. ReadInv' /\ NewDirInv' /\ FreshInv' /\ OrderInv'
  BY <1>1, <1>4 DEF DirInv, ReadInv, NewDirInv, FreshInv, OrderInv
<1> QED BY <1>6, <1>7, <1>8 DEF DirInv

LEMMA CloneBranchKeeps ==
    ASSUME DirectoryAssumption, DirInv, CloneBranch
    PROVE  DirInv'
<1>1. /\ job.pc = "clone" /\ job.of \in Pushes /\ job.of \notin PRs
      /\ UNCHANGED <<heads, forced, paths, retry, attempts, retries, crashes, dir>>
  BY DEF DirInv, JobInv, CloneBranch, At, DirectoryAssumption
<1>2. left' \subseteq Pushes
  BY <1>1 DEF DirInv, TypeOK, CloneBranch
<1>3. /\ job' \in Jobs /\ job'.pc \in {"agent", "failed"} /\ SameTask /\ faults' \in 0..MaxFaults
      /\ (job'.clean => job.clean /\ faults' = faults)
      /\ (job'.pc = "failed" => (~job'.clean \/ job.of \in left))
      /\ faults' >= faults
  <2>1. CASE job.of \notin left /\ Go("agent")
    BY <2>1, GoStep DEF DirInv, TypeOK, DirectoryAssumption
  <2>2. CASE job.of \in left /\ Go("failed")
    BY <2>2, GoStep DEF DirInv, TypeOK, DirectoryAssumption
  <2>3. CASE Fault("failed")
    <3>1. faults' \in 0..MaxFaults /\ faults' >= faults
      BY <2>3 DEF DirInv, TypeOK, Fault, DirectoryAssumption
    <3>2. job' \in Jobs /\ job'.pc = "failed" /\ SameTask /\ ~job'.clean
      BY <2>3, FaultStep DEF DirInv
    <3> QED BY <3>1, <3>2
  <2> QED BY <2>1, <2>2, <2>3 DEF CloneBranch
<1>4. TypeOK'
  BY <1>1, <1>2, <1>3 DEF DirInv, TypeOK
<1>5. JobInv'
  BY <1>1, <1>3 DEF DirInv, JobInv, SameTask, UpdateSteps
<1>6. ReadInv' /\ NewDirInv' /\ OrderInv'
  BY <1>1, <1>3 DEF DirInv, ReadInv, NewDirInv, OrderInv, SameTask
<1>7. FreshInv'
  <2>1. faults' = 0 => faults = 0
    BY <1>3 DEF DirInv, TypeOK, DirectoryAssumption
  <2> QED BY <1>1, <1>3, <2>1 DEF DirInv, FreshInv
<1> QED BY <1>4, <1>5, <1>6, <1>7 DEF DirInv

LEMMA IdleTyped ==
    ASSUME DirectoryAssumption
    PROVE  /\ Idle \in Jobs
           /\ Idle.pc = "idle" /\ Idle.of = None /\ Idle.want = 0
<1>1. 0 \in 0..MaxHeads
  BY DEF DirectoryAssumption
<1> QED BY <1>1 DEF Idle, Jobs

\* Agents leave files of the commit they have read, which is that of HEAD.
LEMMA AgentsEndKeeps ==
    ASSUME DirectoryAssumption, DirInv, AgentsEnd
    PROVE  DirInv'
<1>1. /\ job.pc = "agent" /\ job' = Idle
      /\ UNCHANGED <<heads, forced, retry, attempts, retries, faults, crashes>>
  BY DEF AgentsEnd, At
<1>2. job' \in Jobs /\ job'.pc = "idle" /\ job'.of = None
  BY <1>1, IdleTyped
<1>3. /\ left' \subseteq Pushes /\ paths' \subseteq PRs
      /\ dir' \in {dir, [dir EXCEPT !.traces = @ \cup {dir.head}]}
      /\ job.of \notin PRs => dir' = dir
  BY DEF DirInv, TypeOK, AgentsEnd
<1>4. /\ dir' \in Dirs /\ dir'.head = dir.head /\ dir'.on = dir.on /\ dir'.lock = dir.lock
      /\ dir'.traces \in {dir.traces, dir.traces \cup {dir.head}}
      /\ dir'.traces # dir.traces => job.of \in PRs
  BY <1>3 DEF DirInv, TypeOK, Dirs
<1>5. TypeOK'
  BY <1>1, <1>2, <1>3, <1>4 DEF DirInv, TypeOK
<1>6. JobInv' /\ ReadInv'
  BY <1>2 DEF JobInv, ReadInv, UpdateSteps, DirectoryAssumption
<1>7. NewDirInv'
  BY <1>1, <1>4 DEF DirInv, NewDirInv, ReadInv
<1>8. FreshInv' /\ OrderInv'
  BY <1>1, <1>2, <1>4 DEF DirInv, FreshInv, OrderInv
<1> QED BY <1>5, <1>6, <1>7, <1>8 DEF DirInv

LEMMA RetryBeginsKeeps ==
    ASSUME DirectoryAssumption, DirInv, NEW p \in PRs, RetryBegins(p)
    PROVE  DirInv'
<1>1. UNCHANGED <<heads, forced, dir, left, job, paths, attempts, faults, crashes>>
  BY DEF RetryBegins
<1>2. retry' = p /\ retries' \in 1..MaxRetries
  BY DEF DirInv, TypeOK, RetryBegins, DirectoryAssumption
<1>3. TypeOK'
  BY <1>1, <1>2 DEF DirInv, TypeOK, DirectoryAssumption
<1>4. JobInv' /\ ReadInv'
  BY <1>1 DEF DirInv, JobInv, ReadInv
<1>5. NewDirInv' /\ FreshInv' /\ OrderInv'
  BY <1>1, <1>2 DEF DirInv, NewDirInv, FreshInv, OrderInv, DirectoryAssumption
<1> QED BY <1>3, <1>4, <1>5 DEF DirInv

LEMMA RetryEndsKeeps ==
    ASSUME DirectoryAssumption, DirInv, RetryEnds
    PROVE  DirInv'
<1>1. retry' = None /\ UNCHANGED <<heads, forced, left, job, paths, attempts, retries, faults, crashes>>
  BY DEF RetryEnds
<1>2. retries # 0
  BY DEF DirInv, TypeOK, NewDirInv, RetryEnds, DirectoryAssumption
<1>3. /\ dir' \in Dirs /\ dir'.head = dir.head /\ dir'.on = dir.on /\ dir'.branch = dir.branch
  BY DEF DirInv, TypeOK, Dirs, RetryEnds
<1>4. TypeOK'
  BY <1>1, <1>3 DEF DirInv, TypeOK
<1>5. JobInv' /\ ReadInv'
  BY <1>1, <1>3 DEF DirInv, JobInv, ReadInv
<1>6. NewDirInv' /\ FreshInv' /\ OrderInv'
  BY <1>1, <1>2, <1>3 DEF DirInv, NewDirInv, FreshInv, OrderInv
<1> QED BY <1>4, <1>5, <1>6 DEF DirInv

LEMMA CrashKeeps ==
    ASSUME DirectoryAssumption, DirInv, Crash
    PROVE  DirInv'
<1>1. job' = Idle /\ retry' = None /\ UNCHANGED <<heads, forced, left, paths, attempts, retries, faults>>
  BY DEF Crash
<1>2. job' \in Jobs /\ job'.pc = "idle" /\ job'.of = None
  BY <1>1, IdleTyped
<1>3. crashes' \in 1..MaxCrashes
  BY DEF DirInv, TypeOK, Crash, DirectoryAssumption
<1>4. dir' \in {dir, [dir EXCEPT !.lock = TRUE], [dir EXCEPT !.exists = TRUE]}
  BY DEF Crash
<1>5. dir' \in Dirs /\ dir'.head = dir.head /\ dir'.on = dir.on /\ dir'.traces = dir.traces
  BY <1>4 DEF DirInv, TypeOK, Dirs
<1>6. TypeOK'
  BY <1>1, <1>2, <1>3, <1>5 DEF DirInv, TypeOK, DirectoryAssumption
<1>7. JobInv' /\ ReadInv'
  BY <1>2 DEF JobInv, ReadInv, UpdateSteps, DirectoryAssumption
<1>8. NewDirInv' /\ FreshInv' /\ OrderInv'
  BY <1>1, <1>2, <1>3, <1>5 DEF DirInv, NewDirInv, FreshInv, OrderInv
<1> QED BY <1>6, <1>7, <1>8 DEF DirInv

LEMMA DirStutter ==
    ASSUME DirInv, UNCHANGED vars
    PROVE  DirInv'
BY DEF DirInv, TypeOK, JobInv, ReadInv, NewDirInv, FreshInv, OrderInv, vars

-----------------------------------------------------------------------------
LEMMA DirInitially ==
    ASSUME DirectoryAssumption, Init
    PROVE  DirInv
<1>1. dir = EmptyDir /\ dir \in Dirs /\ dir.head = None /\ dir.on = None /\ dir.traces = {} /\ ~dir.lock
  BY EmptyDirTyped DEF Init
<1>2. job \in Jobs /\ job.pc = "idle" /\ job.of = None
  BY IdleTyped DEF Init
<1>3. TypeOK
  BY <1>1, <1>2 DEF Init, TypeOK, Versions, DirectoryAssumption
<1>4. JobInv /\ ReadInv
  BY <1>2 DEF JobInv, ReadInv, UpdateSteps, DirectoryAssumption
<1>5. NewDirInv /\ FreshInv /\ OrderInv
  BY <1>1, <1>2 DEF Init, NewDirInv, FreshInv, OrderInv
<1> QED BY <1>3, <1>4, <1>5 DEF DirInv

LEMMA DirStep ==
    ASSUME DirectoryAssumption, DirInv, [Next]_vars
    PROVE  DirInv'
<1>1. CASE \E p \in PRs : Push(p) \/ BeginPR(p) \/ RetryBegins(p)
  BY <1>1, PushKeeps, BeginPRKeeps, RetryBeginsKeeps
<1>2. CASE \E r \in Pushes : BeginPush(r)
  BY <1>2, BeginPushKeeps
<1>3. CASE EnsurePRRepository
  BY <1>3, CheckPathKeeps, InitRepoKeeps, AddOriginKeeps, FetchNewKeeps, CheckoutNewKeeps, CompareHeadKeeps,
     CleanupGitLockKeeps, TidyKeeps, CheckoutDetachedKeeps, FetchPRRefKeeps, DeleteLocalBranchKeeps,
     RetryFetchKeeps, CheckoutBranchKeeps, TidyAgainKeeps DEF EnsurePRRepository
<1>4. CASE CloneBranch
  BY <1>4, CloneBranchKeeps
<1>5. CASE AgentsEnd
  BY <1>5, AgentsEndKeeps
<1>6. CASE RetryEnds
  BY <1>6, RetryEndsKeeps
<1>7. CASE Crash
  BY <1>7, CrashKeeps
<1>8. CASE UNCHANGED vars
  BY <1>8, DirStutter
<1> QED BY <1>1, <1>2, <1>3, <1>4, <1>5, <1>6, <1>7, <1>8 DEF Next

\* What is left in a reachable state of the directory, whatever was
\* interrupted: types, and the invariant that explains the properties.
THEOREM TypeCorrect == DirectoryAssumption => (Spec => []TypeOK)
<1> SUFFICES ASSUME DirectoryAssumption PROVE Spec => []TypeOK
  OBVIOUS
<1>1. Init => DirInv
  BY DirInitially
<1>2. DirInv /\ [Next]_vars => DirInv'
  BY DirStep
<1>3. DirInv => TypeOK
  BY DEF DirInv
<1> QED BY <1>1, <1>2, <1>3, PTL DEF Spec

\* The agents of a pull request read its own commit, at the head they were asked
\* about or a later one, whatever pushes, forced pushes, failed or killed
\* commands, crashes and rule retries came before; while nothing goes
\* wrong they find no files of another commit; and a task
\* without a failing command of its own reaches them (EnsurePRRepository).
THEOREM CommitIsRight == DirectoryAssumption => (Spec => []AgentsReadTheirCommit)
<1> SUFFICES ASSUME DirectoryAssumption PROVE Spec => []AgentsReadTheirCommit
  OBVIOUS
<1>1. Init => DirInv
  BY DirInitially
<1>2. DirInv /\ [Next]_vars => DirInv'
  BY DirStep
<1>3. DirInv => AgentsReadTheirCommit
  <2> SUFFICES ASSUME DirInv PROVE AgentsReadTheirCommit
    OBVIOUS
  <2>1. RightCommit
    BY DEF DirInv, ReadInv, RightCommit, At
  <2>2. FreshTree
    BY DEF DirInv, FreshInv, FreshTree, At
  <2>3. LaterTaskWorks
    BY DEF DirInv, OrderInv, LaterTaskWorks, At
  <2> QED BY <2>1, <2>2, <2>3 DEF AgentsReadTheirCommit
<1> QED BY <1>1, <1>2, <1>3, PTL DEF Spec
=============================================================================
