---------------------------- MODULE PerRepoFifo ----------------------------
(***************************************************************************)
(* What the review engine promises about the tasks it is given: each       *)
(* repository has a FIFO line of waiting tasks, at most one of its tasks   *)
(* is active at a time, and a task that waits or is active is not          *)
(* accepted again.  Repositories are independent of each other.            *)
(***************************************************************************)
EXTENDS Naturals, Sequences

CONSTANTS Reviews, Repos, RepoOf

VARIABLES
    waiting,    \* per repository: the line of waiting tasks
    active      \* per repository: the tasks being processed

Init ==
    /\ waiting = [r \in Repos |-> <<>>]
    /\ active = [r \in Repos |-> {}]

Arrive(t) ==
    LET r == RepoOf[t] IN
    /\ t \notin active[r]
    /\ \A i \in 1..Len(waiting[r]) : waiting[r][i] # t
    /\ waiting' = [waiting EXCEPT ![r] = Append(@, t)]
    /\ UNCHANGED active

Start(r) ==
    /\ active[r] = {}
    /\ waiting[r] # <<>>
    /\ active' = [active EXCEPT ![r] = {Head(waiting[r])}]
    /\ waiting' = [waiting EXCEPT ![r] = Tail(@)]

Finish(r) ==
    /\ active[r] # {}
    /\ active' = [active EXCEPT ![r] = {}]
    /\ UNCHANGED waiting

Next ==
    \/ \E t \in Reviews : Arrive(t)
    \/ \E r \in Repos : Start(r) \/ Finish(r)

Spec == Init /\ [][Next]_<<waiting, active>>

FairSpec ==
    /\ Spec
    /\ \A r \in Repos : WF_<<waiting, active>>(Start(r)) /\ WF_<<waiting, active>>(Finish(r))
=============================================================================
