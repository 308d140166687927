--------------------------- MODULE RepoAddresses ---------------------------
(***************************************************************************)
(* Which project an address leads to.  A review finds its provider by a    *)
(* word in the address (internal/engine/utils/provider.go) and takes the   *)
(* last one configured of that type (internal/engine/provider); a report   *)
(* and the list of branches take the first configured one that matches the *)
(* address; the comment channel reads the address in a way of its own      *)
(* (internal/output/comment.go).  Each must end at the same project of the *)
(* same server, also when the settings change and the server restarts      *)
(* between a request and its task.                                         *)
(*                                                                         *)
(* An address is a record of its parts; the words it is made of are values *)
(* with the facts that the code looks for.                                 *)
(***************************************************************************)
EXTENDS Naturals, Sequences, SequencesExt

CONSTANTS
    Public,     \* per type of provider: its public server
    Like,       \* per type: the hosts whose name contains that server's
    Naming,     \* per type: the words that contain its name and a dot
    Ending,     \* per type: the words that end in its name
    Dotted,     \* the words that contain a dot
    Longer,     \* pairs of a host and one whose name continues it
    Port, None, \* the number of a port as a word; no host, no provider
    Configurations,    \* sequences of providers that may be configured
    Asked,      \* reviews that are requested: an address and a type or None
    Sent,       \* events of services: a type and a path
    Addresses,  \* addresses of reports
    Pages,      \* pages of branches that a project has
    MaxEdits, MaxTries \* bounds: changes of the settings; attempts at a review

VARIABLES
    configured, \* the providers of the settings, in their order
    manager,    \* per type: the provider the engine was started with, or None
    review,     \* a review, from its request to its comment
    report,     \* a report and what it reads
    listing,    \* a list of branches that is being read
    edits, tries

vars == <<configured, manager, review, report, listing, edits, tries>>

Types == {"github", "gitlab", "gitea"}
Idle == [pc |-> "idle"]

\* Requests share nothing but the settings: a behaviour follows one.
Quiet == review.pc = "idle" /\ report.pc = "idle" /\ listing.pc = "idle"

\* The address https://host/path.
At(host, path) == [scheme |-> "https", host |-> host, port |-> FALSE, path |-> path, git |-> FALSE]
Place(host, path) == [host |-> host, path |-> path]

Mentions(u, t) ==
    \/ ({u.host} \cup Range(u.path)) \cap Naming[t] # {}
    \/ u.git /\ Last(u.path) \in Ending[t]

\* The type is read from the whole address, not from its host alone.
DetectProviderFromURL(u) ==
    IF Mentions(u, "github") THEN "github" ELSE IF Mentions(u, "gitlab") THEN "gitlab" ELSE None

\* The parts that are left without the scheme and the suffix .git; a colon
\* becomes a slash.
normalizeURL(u) ==
    (IF u.host = None THEN <<>> ELSE <<u.host>>) \o (IF u.port THEN <<Port>> ELSE <<>>) \o u.path

\* Mutant: the type is enough, as it is for a review.
MatchesByType(p, u) == DetectProviderFromURL(u) = p.type

MatchesURL(p, u) ==
    LET domain == Head(normalizeURL(u))
    IN IF p.host = None THEN domain \in Like[p.type] ELSE domain = p.host \/ <<p.host, domain>> \in Longer

\* GitHub and Gitea: two parts are owner and repository, of more the first is
\* taken for the host.
TwoLevels(parts) ==
    IF Len(parts) = 2 THEN parts ELSE IF Len(parts) > 2 THEN SubSeq(parts, 2, 3) ELSE None

\* GitLab and Gitea drop what is before a colon.
AfterColon(u) == IF u.scheme = "ssh" THEN u.path ELSE IF u.port THEN <<Port>> \o u.path ELSE normalizeURL(u)

ParseRepoPath(type, u) ==
    CASE type = "github" -> TwoLevels(normalizeURL(u))
      [] type = "gitea" -> TwoLevels(AfterColon(u))
      [] type = "gitlab" ->
            LET parts == AfterColon(u)
                path == IF Head(parts) \in Dotted THEN Tail(parts) ELSE parts
            IN IF Len(path) < 2 THEN None ELSE path

\* GitLab and Gitea know their host only from an address with its scheme.
CloneHost(p) ==
    IF p.host = None \/ (p.bare /\ p.type # "github") THEN Public[p.type] ELSE p.host

buildCloneURL(p, path) == Place(CloneHost(p), path)
Server(p) == IF p.host = None THEN Public[p.type] ELSE p.host

\* The places of providers that can be created: the one for Gitea asks its
\* server for that.
Created(down) == {i \in DOMAIN configured : ~(down /\ configured[i].type = "gitea")}

\* GetOrCreateProviderForURL: the first one that matches.
Candidates(u, down) == {i \in Created(down) : MatchesURL(configured[i], u)}
Anonymous(t) == [type |-> t, host |-> None, bare |-> FALSE, token |-> FALSE]
GetOrCreateProviderForURL(u, down) ==
    LET t == DetectProviderFromURL(u)
    IN IF Candidates(u, down) # {} THEN configured[Min(Candidates(u, down))]
       ELSE IF t # None /\ MatchesURL(Anonymous(t), u) THEN Anonymous(t) ELSE None

\* Manager.Initialize: a later provider of a type replaces an earlier one.
Initialize(down) ==
    [t \in Types |->
        LET those == {i \in Created(down) : configured[i].type = t}
        IN IF those = {} THEN None ELSE configured[Max(those)]]

TypeOK ==
    /\ configured \in Configurations
    /\ \A t \in Types : manager[t] = None \/ manager[t].type = t
    /\ review.pc \in {"idle", "asked", "queued", "failed", "cloned", "commented", "refused"}
    /\ report.pc \in {"idle", "read", "refused"}
    /\ listing.pc \in {"idle", "page", "failed", "done"}
    /\ edits \in 0..MaxEdits /\ tries \in 0..MaxTries

Init ==
    /\ configured \in Configurations
    /\ \E down \in BOOLEAN : manager = Initialize(down)
    /\ review = Idle /\ report = Idle /\ listing = Idle
    /\ edits = 0 /\ tries = 0

-----------------------------------------------------------------------------
(* Requests and events. *)

\* buildRepoURL of the webhook handler.
buildRepoURL(e) ==
    LET p == manager[e.type]
    IN IF e.type = "gitea" \/ p.host = None THEN At(Public[e.type], e.path)
       ELSE [At(p.host, e.path) EXCEPT !.scheme = IF p.bare THEN "none" ELSE "https"]

\* CreateReview: what has no scheme is a path at the public server, its host
\* too, if it has one.  (An address of ssh is mangled there and not followed.)
RepoURL(q) ==
    IF q.url.scheme # "none" THEN q.url
    ELSE [At(Public[IF q.type = None THEN "github" ELSE q.type], normalizeURL(q.url)) EXCEPT !.git = q.url.git]

Accept(url, origin) ==
    /\ Quiet
    /\ review' = [pc |-> "asked", url |-> url, origin |-> origin]
    /\ UNCHANGED <<configured, manager, report, listing, edits, tries>>

CreateReview(q) ==
    /\ Len(normalizeURL(q.url)) > 1
    /\ Accept(RepoURL(q), None)

HandleWebhook(e) ==
    /\ manager[e.type] # None
    /\ Accept(buildRepoURL(e), [server |-> manager[e.type], path |-> e.path])

\* The settings change; the engine reads them when it starts.
Edit ==
    /\ edits < MaxEdits
    /\ edits' = edits + 1
    /\ configured' \in Configurations
    /\ UNCHANGED <<manager, review, report, listing, tries>>

\* Recovery submits what was not finished once more, by its address.
Restart(down) ==
    /\ tries < MaxTries
    /\ tries' = tries + 1
    /\ manager' = Initialize(down)
    /\ review' = [review EXCEPT !.pc = IF @ \in {"queued", "cloned"} THEN "asked" ELSE @]
    /\ report' = Idle /\ listing' = Idle
    /\ UNCHANGED <<configured, edits>>

-----------------------------------------------------------------------------
(* The task of a review. *)

Proceed(r) == review' = r /\ UNCHANGED <<configured, manager, report, listing, edits, tries>>

\* Submit, recovery and retry: the last provider of the detected type; that it
\* matches the address is not asked.
Chosen(url) ==
    LET t == DetectProviderFromURL(url) IN IF t = None THEN None ELSE manager[t]
Submit ==
    /\ review.pc = "asked"
    /\ LET p == Chosen(review.url)
           known == p # None /\ ParseRepoPath(p.type, review.url) # None
       IN Proceed(IF known
                  THEN [pc |-> "queued", url |-> review.url, origin |-> review.origin,
                        type |-> p.type, path |-> ParseRepoPath(p.type, review.url)]
                  ELSE [pc |-> "refused", url |-> review.url, origin |-> review.origin])

Clone ==
    /\ review.pc = "queued"
    /\ \/ Proceed([review EXCEPT !.pc = "failed"])
       \/ Proceed([pc |-> "cloned", url |-> review.url, origin |-> review.origin, type |-> review.type,
                   from |-> buildCloneURL(manager[review.type], review.path)])

Retry ==
    /\ review.pc = "failed" /\ tries < MaxTries
    /\ tries' = tries + 1
    /\ review' = [review EXCEPT !.pc = "asked"]
    /\ UNCHANGED <<configured, manager, report, listing, edits>>

\* parseRepoURL of the comment channel.
parseRepoURL(u) ==
    CASE u.scheme \in {"https", "http"} ->
            LET parts == (IF u.host = None THEN <<>> ELSE <<u.host>>) \o u.path
            IN IF Len(parts) < 3 THEN None ELSE SubSeq(parts, 2, 3)
      [] u.scheme = "ssh" -> IF Len(u.path) < 2 THEN None ELSE SubSeq(u.path, Len(u.path) - 1, Len(u.path))
      [] u.scheme = "none" -> IF Len(normalizeURL(u)) = 2 THEN normalizeURL(u) ELSE None

Publish ==
    /\ review.pc = "cloned"
    /\ LET path == parseRepoURL(review.url)
       IN Proceed([pc |-> "commented", url |-> review.url, origin |-> review.origin, from |-> review.from,
                   comment |-> IF path = None THEN None ELSE Place(Server(manager[review.type]), path)])

-----------------------------------------------------------------------------
(* Reports and branches. *)

PrepareRepository(u, down) ==
    /\ Quiet
    /\ LET p == GetOrCreateProviderForURL(u, down)
           known == p # None /\ ParseRepoPath(p.type, u) # None
       IN report' = IF known THEN [pc |-> "read", url |-> u, by |-> p,
                                   from |-> buildCloneURL(p, ParseRepoPath(p.type, u))]
                    ELSE [pc |-> "refused", url |-> u]
    /\ UNCHANGED <<configured, manager, review, listing, edits, tries>>

\* GetBranches; the last page of the project may be a full one.
GetBranches(u, down, even) ==
    /\ Quiet
    /\ LET p == GetOrCreateProviderForURL(u, down)
       IN /\ p # None /\ ParseRepoPath(p.type, u) # None
          /\ listing' = [pc |-> "page", by |-> p, page |-> 1, read |-> <<>>, even |-> even]
    /\ UNCHANGED <<configured, manager, review, report, edits, tries>>

\* GitHub names the next page, the others end at one that is not full.
LastPage(l) ==
    \/ l.page = Pages /\ (l.by.type = "github" \/ ~l.even)
    \/ l.page > Pages

\* ListBranches: one page.  GitHub's answer to a token that is no good makes
\* this page be asked for anonymously, at the public server.
ListPage ==
    /\ listing.pc = "page"
    /\ \E server \in {Server(listing.by)} \cup
                     (IF listing.by.type = "github" /\ listing.by.token THEN {Public["github"]} ELSE {}) :
            listing' = [listing EXCEPT
                !.pc = IF LastPage(listing) THEN "done" ELSE "page",
                !.page = @ + 1,
                !.read = IF listing.page > Pages THEN @ ELSE Append(@, [server |-> server, page |-> listing.page])]
    /\ UNCHANGED <<configured, manager, review, report, edits, tries>>

PageFails ==
    /\ listing.pc = "page"
    /\ listing' = [listing EXCEPT !.pc = "failed"]
    /\ UNCHANGED <<configured, manager, review, report, edits, tries>>

Next ==
    \/ \E q \in Asked : CreateReview(q)
    \/ \E e \in Sent : HandleWebhook(e)
    \/ Edit
    \/ \E down \in BOOLEAN : Restart(down)
    \/ Submit
    \/ Clone
    \/ Retry
    \/ Publish
    \/ \E u \in Addresses, down \in BOOLEAN : PrepareRepository(u, down)
    \/ \E u \in Addresses, down \in BOOLEAN, even \in BOOLEAN : GetBranches(u, down, even)
    \/ ListPage
    \/ PageFails

Spec == Init /\ [][Next]_vars

-----------------------------------------------------------------------------
(* Safety. *)

\* An address that says which server it means: with a host and without a port,
\* and not a host whose name contains or continues another's.
Clear(u) ==
    /\ u.host # None /\ ~u.port
    /\ \A t \in Types : u.host \in Like[t] => u.host = Public[t]
    /\ \A pair \in Longer : u.host # pair[2]

\* A report reads the project its address names, at the server it names,
\* whatever is configured: prepareRepository and GetOrCreateProviderForURL.
\* (Only a configured server of GitLab or Gitea without its scheme is taken for
\* the public one.)
ReportsReadTheirProject ==
    report.pc = "read" /\ Clear(report.url) /\ ~report.by.bare =>
        /\ report.from.host = report.url.host
        /\ IF report.by.type = "gitlab" THEN report.from.path = report.url.path
           ELSE IsPrefix(report.from.path, report.url.path)

\* The comment of a review goes to the server and the project that was cloned
\* for it, however the address was written: the parser of the comment channel
\* agrees with those of the providers on projects of two levels.
CommentsWhereReviewed ==
    review.pc = "commented" /\ review.comment # None /\ ~review.url.port /\ Len(review.from.path) = 2 =>
        review.comment.path = review.from.path

\* The review of an event clones the project that sent it from the server that
\* sent it, also after a restart, unless another server was configured for its
\* type meanwhile or a word of the address names another service.
EventsCloneTheirProject ==
    review.pc = "cloned" /\ review.origin # None =>
        LET p == review.origin.server
        IN p = manager[p.type] /\ review.type = p.type /\ ~p.bare =>
            review.from = Place(Server(p), review.origin.path)

\* A list of branches is complete, in order, and of one server, unless GitHub
\* refused the token: ListBranches, which never returns what it has when a page
\* fails.
ListedWhole ==
    listing.pc = "done" =>
        /\ Len(listing.read) = Pages
        /\ \A i \in DOMAIN listing.read :
            /\ listing.read[i].page = i
            /\ listing.read[i].server = Server(listing.by) \/ (listing.by.type = "github" /\ listing.by.token)
=============================================================================
