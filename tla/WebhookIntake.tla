-------------------------- MODULE WebhookIntake --------------------------
(***************************************************************************)
(* How reviews come in (internal/api/handler/webhook.go and the create     *)
(* path of internal/api/handler/review.go): a hosting service delivers     *)
(* events, in any order and as often as it likes, several at a time; each  *)
(* request looks for a review of the commit, counts revisions, creates a   *)
(* row and submits it, in separate statements.  The unique index of        *)
(* (pr_url, commit_sha) is what two requests cannot both pass.             *)
(***************************************************************************)
EXTENDS Naturals, Sequences, FiniteSets, FiniteSetsExt

CONSTANTS
    Events,         \* deliveries and API requests: source, provider, repo, header, object (the
                    \* kind its body names), genuine, action, pr, commit
    Slots,          \* requests that may be in progress at a time
    MaxRows,        \* bound: reviews created
    MaxRequests,    \* bound: requests made
    MaxFaults,      \* bound: database statements that fail
    None            \* no commit, no row

ASSUME IntakeAssumption ==
    /\ MaxRows \in Nat /\ MaxRequests \in Nat /\ MaxFaults \in Nat
    /\ \A e \in Events : /\ e.source \in {"webhook", "api"} /\ e.pr \in Nat
                        /\ e.provider \in {"github", "gitlab", "gitea"}

VARIABLES
    rows,       \* the reviews in the order of their creation
    configs,    \* repositories with a configuration row
    merged,     \* the indices of rows with a merged_at
    request,    \* per slot: the request it serves
    answers,    \* what has been answered: event, answer, row
    faults      \* failed statements so far

vars == <<rows, configs, merged, request, answers, faults>>

Idle == [pc |-> "idle"]

-----------------------------------------------------------------------------
\* What the three ParseWebhook functions make of a delivery: its kind, and its
\* action in the names of GitHub.  One that is not genuine (its signature or
\* token is wrong) or of another kind is refused.
Parsed(kind, action) == [kind |-> kind, action |-> action]
Refused == Parsed("other", "none")

ParseGitHub(e) ==
    IF e.genuine /\ e.header \in {"push", "pull_request"} THEN Parsed(e.header, e.action) ELSE Refused

\* Without the header X-Gitlab-Event the kind is taken from the body.
GitLabHook(e) ==
    CASE e.header # None              -> e.header
      [] e.object = "merge_request"   -> "Merge Request Hook"
      [] e.object = "push"            -> "Push Hook"
      [] OTHER                        -> None

normalizeGitLabAction(a) ==
    CASE a = "open" -> "opened" [] a = "update" -> "synchronize" [] a = "reopen" -> "reopened"
      [] a = "close" -> "closed" [] a = "merge" -> "merged" [] OTHER -> a

ParseGitLab(e) ==
    CASE e.genuine /\ GitLabHook(e) = "Push Hook"          -> Parsed("push", "none")
      [] e.genuine /\ GitLabHook(e) = "Merge Request Hook" ->
            Parsed("pull_request", normalizeGitLabAction(e.action))
      [] OTHER -> Refused

normalizeGiteaAction(a) == IF a = "synchronized" THEN "synchronize" ELSE a

ParseGitea(e) ==
    IF e.genuine /\ e.header \in {"push", "pull_request"}
    THEN Parsed(e.header, normalizeGiteaAction(e.action)) ELSE Refused

Parse(e) ==
    CASE e.source = "api"        -> Parsed("api", "none")
      [] e.provider = "github"   -> ParseGitHub(e)
      [] e.provider = "gitlab"   -> ParseGitLab(e)
      [] e.provider = "gitea"    -> ParseGitea(e)

ShouldProcessPREvent(a) == a \in {"opened", "synchronize", "reopened", "open", "update", "reopen"}
IsPRMergedEvent(a) == a \in {"merged", "merge", "closed", "close"}
IsPRUpdateEvent(a) == a \in {"synchronize", "update"}

\* buildPRURL: the address of a pull request, empty for Gitea (its addresses
\* contain neither "github" nor "gitlab") and without a number.
NoURL == <<>>
PRURL(e) == IF e.pr > 0 /\ e.provider \in {"github", "gitlab"} THEN <<e.repo, e.pr>> ELSE NoURL

\* GetByPRURLAndCommit, and what the unique index looks at: a missing commit
\* is an empty string, and equal to another one.
Same(url, commit) == {i \in DOMAIN rows : rows[i].url = url /\ rows[i].commit = commit}

\* Mutant: revisions are counted from zero.
RevisionsFromZero(url) ==
    Max({0} \cup {rows[i].rev + 1 : i \in {i \in DOMAIN rows : rows[i].url = url}}) - 1

MaxRevision(url) == Max({0} \cup {rows[i].rev : i \in {i \in DOMAIN rows : rows[i].url = url}})

TypeOK ==
    /\ \A i \in DOMAIN rows :
          /\ rows[i].status \in {"pending", "queued", "failed"}
          /\ rows[i].rev \in Nat \ {0}
    /\ Len(rows) <= MaxRows
    /\ configs \subseteq {e.repo : e \in Events}
    /\ merged \subseteq DOMAIN rows
    /\ \A s \in Slots : request[s].pc \in
          {"idle", "lookup", "revision", "create", "conflict", "submit", "merge"}
    /\ faults \in 0..MaxFaults

Init ==
    /\ rows = <<>>
    /\ configs = {}
    /\ merged = {}
    /\ request = [s \in Slots |-> Idle]
    /\ answers = <<>>
    /\ faults = 0

-----------------------------------------------------------------------------
At(s, pc) == request[s].pc = pc

\* The request of slot s goes on at pc, or is answered.
Continue(s, r) == request' = [request EXCEPT ![s] = r] /\ UNCHANGED answers
Answer(s, a, row) ==
    /\ request' = [request EXCEPT ![s] = Idle]
    /\ answers' = Append(answers, [event |-> request[s].event, answer |-> a, row |-> row])

Fault == faults < MaxFaults /\ faults' = faults + 1

Requests == Len(answers) + Cardinality({s \in Slots : ~At(s, "idle")})

\* HandleWebhook with ParseWebhook, handlePushEvent and the first half of
\* handlePREvent; an API request carries no commit and is never looked up.
Receive(s, e) ==
    /\ At(s, "idle") /\ Requests < MaxRequests
    /\ LET kind == Parse(e).kind
           a == Parse(e).action
           on(pc) == [pc |-> pc, event |-> e, rev |-> 1, row |-> None]
           refuse(w) == /\ answers' = Append(answers, [event |-> e, answer |-> w, row |-> None])
                        /\ UNCHANGED request
       IN \/ kind = "other" /\ refuse("unsupported")
          \/ kind \in {"push", "api"} /\ Continue(s, on("create"))
          \/ /\ kind = "pull_request"
             /\ \/ IsPRMergedEvent(a) /\ PRURL(e) # NoURL /\ Continue(s, on("merge"))
                \/ IsPRMergedEvent(a) /\ PRURL(e) = NoURL /\ refuse("no url")
                \/ /\ ~IsPRMergedEvent(a)
                   /\ ~ShouldProcessPREvent(a) /\ refuse("skipped")
                \/ /\ ~IsPRMergedEvent(a) /\ ShouldProcessPREvent(a)
                   /\ Continue(s, on(IF PRURL(e) # NoURL /\ e.commit # None THEN "lookup"
                                     ELSE IF IsPRUpdateEvent(a) /\ PRURL(e) # NoURL
                                     THEN "revision" ELSE "create"))
    /\ UNCHANGED <<rows, configs, merged, faults>>

\* Mutant: the handler relies on its lookup and the index is missing.
IndexAllows(url, commit) == TRUE

\* The unique index idx_pr_url_commit.
IndexHolds(url, commit) == Same(url, commit) = {}

\* "Check if review already exists for this PR URL + Commit SHA"; a failing
\* statement is logged and the request goes on.
Lookup(s) ==
    LET r == request[s]
        url == PRURL(r.event)
        next == [r EXCEPT !.pc = IF IsPRUpdateEvent(Parse(r.event).action) THEN "revision" ELSE "create"]
    IN
    /\ At(s, "lookup")
    /\ \/ /\ Same(url, r.event.commit) # {}
          /\ Answer(s, "exists", Min(Same(url, r.event.commit)))
          /\ UNCHANGED faults
       \/ Same(url, r.event.commit) = {} /\ Continue(s, next) /\ UNCHANGED faults
       \/ Fault /\ Continue(s, next)
    /\ UNCHANGED <<rows, configs, merged>>

CountRevision(s) ==
    LET r == request[s] IN
    /\ At(s, "revision")
    /\ \/ Continue(s, [r EXCEPT !.pc = "create", !.rev = MaxRevision(PRURL(r.event)) + 1])
          /\ UNCHANGED faults
       \/ Fault /\ Continue(s, [r EXCEPT !.pc = "create"])
    /\ UNCHANGED <<rows, configs, merged>>

\* Create, and EnsureConfig, whose failure is only logged.  The handlers of
\* pushes and of the API answer 500 to a violated index.
CreateRow(s) ==
    LET r == request[s]
        e == r.event
        url == IF Parse(e).kind = "push" THEN NoURL ELSE PRURL(e)
        row == [repo |-> e.repo, pr |-> e.pr, url |-> url, commit |-> e.commit, rev |-> r.rev,
                status |-> "pending"]
    IN
    /\ At(s, "create")
    /\ \/ /\ IndexHolds(url, e.commit) /\ Len(rows) < MaxRows
          /\ rows' = Append(rows, row)
          /\ Continue(s, [r EXCEPT !.pc = "submit", !.row = Len(rows) + 1])
          /\ configs' = configs \cup {e.repo}
          /\ UNCHANGED faults
       \/ /\ ~IndexHolds(url, e.commit)
          /\ IF Parse(e).kind = "pull_request"
             THEN Continue(s, [r EXCEPT !.pc = "conflict"])
             ELSE Answer(s, "not created", None)
          /\ UNCHANGED <<rows, configs, faults>>
       \/ Fault /\ Answer(s, "not created", None) /\ UNCHANGED <<rows, configs>>
    /\ UNCHANGED merged

\* The constraint was violated: the row that did it is looked up.
FindExisting(s) ==
    LET e == request[s].event
        same == Same(PRURL(e), e.commit)
    IN
    /\ At(s, "conflict")
    /\ \/ same # {} /\ Answer(s, "exists", Min(same)) /\ UNCHANGED faults
       \/ Fault /\ Answer(s, "not created", None)
    /\ UNCHANGED <<rows, configs, merged>>

\* Submit queues the review, or fails (provider, configuration, database):
\* then the review is failed, unless that statement fails, too.
Submit(s) ==
    LET i == request[s].row IN
    /\ At(s, "submit")
    /\ \/ /\ rows' = [rows EXCEPT ![i].status = "queued"]
          /\ Answer(s, "triggered", i)
          /\ UNCHANGED faults
       \/ /\ rows' = [rows EXCEPT ![i].status = "failed"]
          /\ Answer(s, "not submitted", i)
          /\ UNCHANGED faults
       \/ Fault /\ Answer(s, "not submitted", i) /\ UNCHANGED rows
    /\ UNCHANGED <<configs, merged>>

\* UpdateMergedAtByPRURL.
Merge(s) ==
    LET url == PRURL(request[s].event) IN
    /\ At(s, "merge")
    /\ \/ /\ merged' = merged \cup {i \in DOMAIN rows : rows[i].url = url}
          /\ Answer(s, "merged", None)
          /\ UNCHANGED faults
       \/ Fault /\ Answer(s, "not merged", None) /\ UNCHANGED merged
    /\ UNCHANGED <<rows, configs>>

Serve(s) == Lookup(s) \/ CountRevision(s) \/ CreateRow(s) \/ FindExisting(s) \/ Submit(s) \/ Merge(s)

Next == \E s \in Slots : Serve(s) \/ \E e \in Events : Receive(s, e)

Spec == Init /\ [][Next]_vars

-----------------------------------------------------------------------------
\* Overlapping and repeated deliveries of one commit of a pull request
\* trigger one review.
Triggered(url, commit) ==
    {n \in DOMAIN answers : /\ answers[n].answer = "triggered"
                            /\ Parse(answers[n].event).kind = "pull_request"
                            /\ PRURL(answers[n].event) = url /\ answers[n].event.commit = commit}
OneReviewPerCommit ==
    \A n \in DOMAIN answers :
        LET e == answers[n].event IN
        (PRURL(e) # NoURL /\ Parse(e).kind = "pull_request") => Cardinality(Triggered(PRURL(e), e.commit)) <= 1

\* A sender that is told of an existing review is told of one of the same
\* pull request and commit.  Not so where the address of a pull request is
\* not known, as with Gitea.
ExistingIsTheSame ==
    \A n \in DOMAIN answers :
        LET a == answers[n] IN
        (a.answer = "exists" /\ PRURL(a.event) # NoURL) =>
            /\ rows[a.row].repo = a.event.repo
            /\ rows[a.row].pr = a.event.pr
            /\ rows[a.row].commit = a.event.commit

\* Only reviews of a pull request that was reported merged or closed get a
\* merge time, however deliveries of other pull requests interleave.
MergedWereAsked ==
    \A i \in merged : \E n \in DOMAIN answers :
        answers[n].answer = "merged" /\ PRURL(answers[n].event) = rows[i].url

\* Overlapping and repeated deliveries of a commit make one review; who is told
\* of a review is told of his own, and who was not merged is not marked so.
EventsHandledOnce == OneReviewPerCommit /\ ExistingIsTheSame /\ MergedWereAsked

\* model.go:93, "unique with commit SHA": a request is refused for a review
\* that exists already only when that is a review of the same repository.
RefusedForItsOwn ==
    \A n \in DOMAIN answers :
        (answers[n].answer = "not created" /\ faults = 0) =>
            \E i \in DOMAIN rows : rows[i].repo = answers[n].event.repo
=============================================================================
