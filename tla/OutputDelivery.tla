-------------------------- MODULE OutputDelivery --------------------------
(***************************************************************************)
(* What becomes of a result (publishRuleResult of                          *)
(* internal/engine/runner/runner.go, internal/output, the comment          *)
(* operations of the hosting services): the channels of the rule are       *)
(* served one after the other.  A comment of an earlier review of the same *)
(* pull request and rule is updated, a webhook is sent until it is         *)
(* accepted or its attempts are used up, a file is written.                *)
(*                                                                         *)
(* Publications of one repository follow each other, except for those of   *)
(* rule retries, which run beside the queue.                               *)
(***************************************************************************)
EXTENDS Naturals, Sequences, FiniteSets, FiniteSetsExt, SequencesExt

CONSTANTS
    Pubs,           \* publications, one per result
    Plans,          \* what is published: records of two functions, marker, of a
                    \* publication to its pull request and rule, or NoPR for a
                    \* push, and channels, to the names of its rule's channels
    maxRetries,     \* attempts of a webhook (all of them, not the repeated ones)
    PageSize,       \* comments that ListComments returns (100)
    MaxForeign,     \* bound: comments of users
    MaxFaults,      \* bound: calls that fail, a webhook's apart
    MaxParallel,    \* bound: publications at a time
    Services,       \* the hosting services, of "github", "gitlab", "gitea"
    NoPR,
    Foreign         \* the marker of a user's comment

ASSUME DeliveryAssumption ==
    /\ maxRetries \in Nat \ {0} /\ PageSize \in Nat \ {0} /\ MaxParallel \in Nat \ {0}
    /\ MaxForeign \in Nat /\ MaxFaults \in Nat
    /\ \A q \in Plans, p \in Pubs :
          q.channels[p] \in Seq({"comment", "webhook", "file"}) /\ q.marker[p] # Foreign
    /\ Services \subseteq {"github", "gitlab", "gitea"}

VARIABLES
    service,    \* the hosting service
    plan,       \* the plan at hand
    comments,   \* on the server, in the order of their ids: marker, publication, gone
    posts,      \* per publication: the requests its endpoint has taken
    acks,       \* per publication: was one of them answered with success
    rows,       \* per publication: its rows of review_result_webhook_logs
    files,      \* per marker: the publication its file holds, or Foreign
    pub,        \* per publication: channel, step, and what it remembers
    begun,      \* the publications in the order in which they began
    cancelled,  \* the context of the process
    crashed,    \* has the process died
    foreign, faults

vars == <<service, plan, comments, posts, acks, rows, files, pub, begun, cancelled, crashed, foreign, faults>>

markerOf == plan.marker
Channels == plan.channels
Markers == {q.marker[p] : q \in Plans, p \in Pubs}
Steps == {"new", "begin", "list", "update", "delete", "post", "send", "backoff", "done"}

TypeOK ==
    /\ service \in Services /\ plan \in Plans
    /\ \A i \in DOMAIN comments :
          /\ comments[i].marker \in Markers \cup {Foreign}
          /\ comments[i].from \in Pubs \cup {Foreign}
          /\ comments[i].gone \in BOOLEAN
    /\ posts \in [Pubs -> 0..maxRetries] /\ acks \in [Pubs -> BOOLEAN]
    /\ \A p \in Pubs : /\ pub[p].step \in Steps
                       /\ pub[p].at \in 0..(Len(Channels[p]) + 1)
                       /\ pub[p].attempt \in 0..maxRetries
                       /\ pub[p].found \subseteq DOMAIN comments
    /\ files \in [Markers -> Pubs \cup {Foreign}]
    /\ IsInjective(begun)
    /\ cancelled \in BOOLEAN /\ crashed \in BOOLEAN
    /\ foreign \in 0..MaxForeign /\ faults \in 0..MaxFaults

Init ==
    /\ service \in Services /\ plan \in Plans
    /\ comments = <<>>
    /\ posts = [p \in Pubs |-> 0] /\ acks = [p \in Pubs |-> FALSE]
    /\ rows = [p \in Pubs |-> <<>>]
    /\ files = [m \in Markers |-> Foreign]
    /\ pub = [p \in Pubs |-> [at |-> 0, step |-> "new", attempt |-> 0, found |-> {},
                      alone |-> TRUE, clean |-> TRUE]]
    /\ begun = <<>>
    /\ cancelled = FALSE /\ crashed = FALSE
    /\ foreign = 0 /\ faults = 0

-----------------------------------------------------------------------------
Active == {p \in Pubs : pub[p].step \notin {"new", "done"}}

\* Publish: the first channel, and the next one however this one ended.
NextStep(p, k) == IF k > Len(Channels[p]) THEN "done" ELSE "begin"
Moved(p) == [pub EXCEPT ![p].at = @ + 1, ![p].step = NextStep(p, pub[p].at + 1), ![p].attempt = 0]
NextChannel(p) == pub' = Moved(p)
At(p, c, s) == ~crashed /\ pub[p].step = s /\ Channels[p][pub[p].at] = c
Step(p, s) == pub' = [pub EXCEPT ![p].step = s]

\* A call that fails: of the network, of the service, or of a cancelled context.
Fails ==
    \/ cancelled /\ UNCHANGED faults
    \/ faults < MaxFaults /\ faults' = faults + 1
ChannelFails(p) == Fails /\ pub' = [Moved(p) EXCEPT ![p].clean = FALSE]

\* history: alone stays true while no other publication is under way, clean
\* while no call of this one fails.
Begin(p) ==
    /\ ~crashed /\ pub[p].step = "new" /\ Cardinality(Active) < MaxParallel
    /\ begun' = Append(begun, p)
    /\ pub' = [q \in Pubs |->
                 IF q = p THEN [pub[p] EXCEPT !.at = 1, !.step = NextStep(p, 1), !.alone = (Active = {})]
                 ELSE IF q \in Active THEN [pub[q] EXCEPT !.alone = FALSE] ELSE pub[q]]
    /\ UNCHANGED <<service, plan, comments, posts, acks, rows, files, cancelled, crashed, foreign, faults>>

-----------------------------------------------------------------------------
\* The comment channel in overwrite mode.  ListComments returns one page, of
\* GitLab the newest comments first, of the other two the oldest first.
Present == {i \in DOMAIN comments : ~comments[i].gone}
Oldest == {i \in Present : Cardinality({j \in Present : j < i}) < PageSize}
Newest == {i \in Present : Cardinality({j \in Present : j > i}) < PageSize}
ListOnGitHub == Oldest
ListOnGitLab == Newest
ListOnGitea == Oldest
Listed ==
    CASE service = "github" -> ListOnGitHub
      [] service = "gitlab" -> ListOnGitLab
      [] service = "gitea"  -> ListOnGitea

\* What is found, and the first of it in the order of the list.
Matching(m) == {i \in Listed : comments[i].marker = m}
FirstOf(found) == IF service = "gitlab" THEN Max(found) ELSE Min(found)

otherVars == <<service, plan, posts, acks, rows, files, begun, cancelled, crashed, foreign>>

\* Mutant: a list that fails counts as an empty one.
ListOrNothing(p) ==
    /\ At(p, "comment", "begin") /\ markerOf[p] # NoPR
    /\ \/ LET found == Matching(markerOf[p]) IN
          /\ pub' = [pub EXCEPT ![p].found = found, ![p].step = IF found = {} THEN "post" ELSE "update"]
          /\ UNCHANGED faults
       \/ Fails /\ pub' = [pub EXCEPT ![p].step = "post"]
    /\ UNCHANGED <<comments, otherVars>>

ListComments(p) ==
    /\ At(p, "comment", "begin") /\ markerOf[p] # NoPR
    /\ \/ LET found == Matching(markerOf[p]) IN
          /\ pub' = [pub EXCEPT ![p].found = found, ![p].step = IF found = {} THEN "post" ELSE "update"]
          /\ UNCHANGED faults
       \/ ChannelFails(p)
    /\ UNCHANGED <<comments, otherVars>>

\* The review of a push has no pull request to comment on.
SkipComment(p) ==
    /\ At(p, "comment", "begin") /\ markerOf[p] = NoPR
    /\ NextChannel(p)
    /\ UNCHANGED <<comments, otherVars, faults>>

\* By its id, in place.
Updated(i, p) == [comments EXCEPT ![i].from = p]

\* One that somebody else has deleted since cannot be updated.
UpdateComment(p) ==
    LET i == FirstOf(pub[p].found) IN
    /\ At(p, "comment", "update")
    /\ \/ /\ ~comments[i].gone
          /\ comments' = Updated(i, p)
          /\ Step(p, "delete") /\ UNCHANGED faults
       \/ comments[i].gone /\ NextChannel(p) /\ UNCHANGED <<comments, faults>>
       \/ ChannelFails(p) /\ UNCHANGED comments
    /\ UNCHANGED otherVars

\* By its id; GitLab has the note looked for on the first page of its merge
\* request, and does not find one beyond or one that is gone.
DeleteComment(i) == [comments EXCEPT ![i].gone = TRUE]
DeleteNote(i) == IF i \in ListOnGitLab THEN DeleteComment(i) ELSE comments

\* The other ones that were found are deleted; a failure is logged.
DeleteDuplicates(p) ==
    LET others == pub[p].found \ {FirstOf(pub[p].found)} IN
    /\ At(p, "comment", "delete")
    /\ IF others = {}
       THEN NextChannel(p) /\ UNCHANGED <<comments, faults>>
       ELSE LET i == FirstOf(others)
                next == [pub EXCEPT ![p].found = @ \ {i}]
            IN \/ /\ comments' = IF service = "gitlab" THEN DeleteNote(i) ELSE DeleteComment(i)
                  /\ pub' = next /\ UNCHANGED faults
               \/ Fails /\ pub' = [next EXCEPT ![p].clean = FALSE] /\ UNCHANGED comments
    /\ UNCHANGED otherVars

Posted(p) == Append(comments, [marker |-> markerOf[p], from |-> p, gone |-> FALSE])
PostComment(p) ==
    /\ At(p, "comment", "post")
    /\ \/ /\ comments' = Posted(p)
          /\ NextChannel(p) /\ UNCHANGED faults
       \/ ChannelFails(p) /\ UNCHANGED comments
    /\ UNCHANGED otherVars

\* A user comments on a pull request.
UserComments ==
    /\ ~crashed /\ foreign < MaxForeign
    /\ foreign' = foreign + 1
    /\ comments' = Append(comments, [marker |-> Foreign, from |-> Foreign, gone |-> FALSE])
    /\ UNCHANGED <<service, plan, posts, acks, rows, files, pub, begun, cancelled, crashed, faults>>

-----------------------------------------------------------------------------
\* The webhook channel.  One row is written when it is over.
SaveDeliveryLog(p, status, n) ==
    rows' = [rows EXCEPT ![p] = Append(@, [status |-> status, count |-> n])]

webVars == <<service, plan, comments, files, begun, cancelled, crashed, foreign, faults>>

Start(p) ==
    /\ At(p, "webhook", "begin")
    /\ Step(p, "send")
    /\ UNCHANGED <<webVars, posts, acks, rows>>

\* The endpoint may take a request and its answer may be lost; the attempt
\* has then failed, like one that was refused.
SendRequest(p) ==
    LET n == pub[p].attempt + 1 IN
    /\ At(p, "webhook", "send") /\ ~cancelled
    /\ \/ /\ posts' = [posts EXCEPT ![p] = @ + 1] /\ acks' = [acks EXCEPT ![p] = TRUE]
          /\ SaveDeliveryLog(p, "success", n)
          /\ NextChannel(p)
       \/ /\ posts' \in {posts, [posts EXCEPT ![p] = @ + 1]}
          /\ pub' = [pub EXCEPT ![p].attempt = n, ![p].step = "backoff"]
          /\ UNCHANGED <<acks, rows>>
    /\ UNCHANGED webVars

\* Mutant: maxRetries counts the repeated attempts only.
ExhaustedLate(p) == pub[p].attempt > maxRetries
Exhausted(p) == pub[p].attempt >= maxRetries

\* After the backoff, or at once when the context is cancelled: again, or over.
Backoff(p) ==
    /\ At(p, "webhook", "backoff")
    /\ IF Exhausted(p) \/ cancelled
       THEN SaveDeliveryLog(p, "failed", pub[p].attempt) /\ NextChannel(p)
       ELSE Step(p, "send") /\ UNCHANGED rows
    /\ UNCHANGED <<webVars, posts, acks>>

\* Mutant: the sender does not look at the context before an attempt.
GiveUpNever(p) == At(p, "webhook", "send") /\ cancelled /\ UNCHANGED vars

GiveUp(p) ==
    /\ At(p, "webhook", "send") /\ cancelled
    /\ SaveDeliveryLog(p, "failed", pub[p].attempt)
    /\ NextChannel(p)
    /\ UNCHANGED <<webVars, posts, acks>>

\* The file channel: the name is made of repository, pull request and rule,
\* and an existing file is always overwritten.
WriteFile(p) ==
    /\ At(p, "file", "begin")
    /\ \/ files' = [files EXCEPT ![markerOf[p]] = p] /\ NextChannel(p) /\ UNCHANGED faults
       \/ ChannelFails(p) /\ UNCHANGED files
    /\ UNCHANGED <<service, plan, comments, posts, acks, rows, begun, cancelled, crashed, foreign>>

Publish(p) ==
    \/ SkipComment(p) \/ ListComments(p) \/ UpdateComment(p) \/ DeleteDuplicates(p) \/ PostComment(p)
    \/ Start(p) \/ SendRequest(p) \/ Backoff(p) \/ GiveUp(p)
    \/ WriteFile(p)

\* The process stops: calls end with an error, what is under way goes on.
Cancel ==
    /\ ~cancelled /\ Active # {}
    /\ cancelled' = TRUE
    /\ UNCHANGED <<service, plan, comments, posts, acks, rows, files, pub, begun, crashed, foreign, faults>>

\* It dies, with all that it remembers: the rule is completed already, and
\* nobody publishes it again.
Crash ==
    /\ ~crashed /\ Active # {}
    /\ crashed' = TRUE
    /\ pub' = [p \in Pubs |-> [pub[p] EXCEPT !.attempt = 0, !.found = {}]]
    /\ UNCHANGED <<service, plan, comments, posts, acks, rows, files, begun, cancelled, foreign, faults>>

Next ==
    \/ \E p \in Pubs : Begin(p) \/ Publish(p)
    \/ UserComments
    \/ Cancel
    \/ Crash

Spec == Init /\ [][Next]_vars
Fairness == \A p \in Pubs : WF_vars(Publish(p))
FairSpec == Spec /\ Fairness

-----------------------------------------------------------------------------
Shown(m) == {i \in DOMAIN comments : comments[i].marker = m /\ ~comments[i].gone}
Served(p, c) == \E k \in DOMAIN Channels[p] : Channels[p][k] = c /\ pub[p].at > k

\* A publication whose calls went well and that had no other beside it leaves
\* one comment of its rule on the pull request, with its own result, and so
\* cleans up after those that did run side by side.  Nothing is said of pull
\* requests with more comments than a page holds.
OneCommentShown ==
    \A p \in Pubs :
        (Served(p, "comment") /\ markerOf[p] # NoPR /\ pub[p].alone /\ pub[p].clean /\ Last(begun) = p /\ Len(comments) <= PageSize) =>
            /\ Cardinality(Shown(markerOf[p])) = 1
            /\ \A i \in Shown(markerOf[p]) : comments[i].from = p

\* Without publications side by side there never are two comments of one rule
\* on a pull request, whatever calls fail.
NoDuplicates ==
    ((\A p \in Pubs : pub[p].alone) /\ Len(comments) <= PageSize) =>
        \A m \in Markers : Cardinality(Shown(m)) <= 1

\* A pull request that has had a comment of a rule keeps one, whichever
\* publications run side by side, fail or are interrupted.
CommentStays ==
    \A i \in DOMAIN comments :
        comments[i].marker # Foreign => Shown(comments[i].marker) # {}

\* The delivery log tells what happened: one row when the webhook is over and
\* none before, success for an answer that was received, and no more
\* requests than the row counts, however the process is being stopped.
LogTellsTruth ==
    \A p \in Pubs :
        /\ Len(rows[p]) = IF Served(p, "webhook") THEN 1 ELSE 0
        /\ \A i \in DOMAIN rows[p] :
              /\ (rows[p][i].status = "success") = acks[p]
              /\ posts[p] <= rows[p][i].count
              /\ rows[p][i].count <= maxRetries

\* Every publication ends, unless the process dies.
PublishEnds == \A p \in Pubs : (pub[p].step = "begin") ~> (pub[p].step = "done" \/ crashed)
=============================================================================
