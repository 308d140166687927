------------------------------- MODULE Intake -------------------------------
(***************************************************************************)
(* The components that decide what is reviewed, where, by which rules and  *)
(* with which settings, on which database: WebhookIntake, GitWorkspace,    *)
(* ReviewConfigs, Settings, Migrations and RepoAddresses.  They share no   *)
(* state; a behaviour exercises one of them.                               *)
(***************************************************************************)
EXTENDS WebhookIntake

CONSTANTS
    PRs, Pushes, MaxHeads, MaxAttempts, MaxRetries, MaxCrashes,
    Admins, Secrets, Short, Typed, Malformed, Gone, CategoryOf, TypeOf, Initial, MaxViews,
    Files, Default, Repos, Contents, Valid, Written, Empty, MaxEdits, MaxLoads,
    Rows, Twins, Left,
    Public, Like, Naming, Ending, Dotted, Longer, Port, Configurations, Asked, Sent, Addresses,
    Pages, MaxChanges, MaxTries

VARIABLES
    part,   \* the component that is exercised
    heads, forced, dir, left, job, paths, retry, attempts, retries, failures, crashes,
    settings, running, admin, views, statements,
    file, config, lock, editor, load, edits, loads, queries,
    tables, providers, pc, at, tx, why, mishaps, kills,
    configured, manager, review, report, listing, changes, tries

gitVars == <<heads, forced, dir, left, job, paths, retry, attempts, retries, failures, crashes>>
settingsVars == <<settings, running, admin, views, statements>>
rulesVars == <<file, config, lock, editor, load, edits, loads, queries>>
tablesVars == <<tables, providers, pc, at, tx, why, mishaps, kills>>
addressVars == <<configured, manager, review, report, listing, changes, tries>>
allVars == <<part, vars, gitVars, settingsVars, rulesVars, tablesVars, addressVars>>

Git == INSTANCE GitWorkspace WITH faults <- failures
Config == INSTANCE Settings WITH
    rows <- settings, Absent <- Gone, faults <- statements, requests <- views, MaxRequests <- MaxViews
Rules == INSTANCE ReviewConfigs WITH admin <- editor, mishaps <- queries
Tables == INSTANCE Migrations WITH crashes <- kills
Paths == INSTANCE RepoAddresses WITH edits <- changes, MaxEdits <- MaxChanges

ASSUME DirectoriesAssumption == Git!DirectoryAssumption

\* A secret is not a mask, and what is stored at first has no name twice.
Masks == {Config!Stars} \cup {<<s>> : s \in Secrets}
SettingItem == [name : DOMAIN TypeOf, secret : Secrets \cup Short \cup {Typed} \cup Masks]
NamedOnce(v) == \A i, j \in DOMAIN v : v[i].name = v[j].name => i = j
ASSUME SettingsAssumption ==
    /\ MaxViews \in Nat
    /\ \A s \in Secrets \cup Short \cup {Typed} : ~Config!isMaskedValue(s)
    /\ \A s \in Initial :
          /\ s \in [Config!Keys -> [state : {"none", "live", "deleted"}, value : Seq(SettingItem)]]
          /\ \A k \in Config!Keys : NamedOnce(s[k].value)
    /\ Gone \notin Seq(SettingItem) \cup SettingItem

\* Administrators, files and contents are not None, and what is the first
\* content of a file can be loaded.
ASSUME RulesAssumption ==
    /\ MaxEdits \in Nat /\ MaxLoads \in Nat
    /\ Default \in Files /\ Valid \subseteq Contents /\ Written \subseteq Contents /\ Valid # {}
    /\ None \notin Admins \cup Files \cup Contents

\* In every database that older versions left, a table that the migrations
\* only copy has the primary key it was created with.
TableRecord == [state : {"absent", "old", "current"}, lean : BOOLEAN, pk : BOOLEAN, index : BOOLEAN, rows : SUBSET Rows]
ASSUME TablesAssumption ==
    /\ Left \subseteq [Tables!Tables -> TableRecord]
    /\ \A l \in Left, t \in Tables!Unique : l[t].state # "absent" => l[t].pk
    /\ None \notin {"statement", "twins", "columns"}

\* Servers have a dot in their names, what the path of an address of ssh begins
\* with has not; only GitLab has groups in groups; reviews are not asked for
\* with an address of ssh.
Named == UNION {Range(u.path) : u \in Addresses \cup {q.url : q \in Asked}} \cup UNION {Range(e.path) : e \in Sent}
AddressRecord ==
    [scheme : {"https", "http", "ssh", "none"}, host : Dotted \cup {None}, port : BOOLEAN, path : Seq(Named), git : BOOLEAN]
ProviderRecord == [type : Paths!Types, host : Dotted \cup {None}, bare : BOOLEAN, token : BOOLEAN]
ASSUME AddressesAssumption ==
    /\ Pages \in Nat /\ MaxChanges \in Nat /\ MaxTries \in Nat
    /\ None \notin Paths!Types \cup Dotted
    /\ \A t \in Paths!Types : Public[t] \in Dotted
    /\ Configurations # {} /\ Configurations \subseteq Seq(ProviderRecord)
    /\ \A u \in Addresses :
          /\ u \in AddressRecord /\ Len(u.path) > 1
          /\ u.scheme = "ssh" => Head(u.path) \notin Dotted
          /\ u.scheme = "ssh" /\ Len(u.path) > 2 =>
                \A c \in Configurations : \A i \in DOMAIN c : c[i].type = "gitea" => ~Paths!MatchesURL(c[i], u)
    /\ \A q \in Asked : q.url \in AddressRecord /\ q.url.scheme # "ssh" /\ q.type \in Paths!Types \cup {None}
    /\ \A e \in Sent :
          /\ e.type \in Paths!Types /\ e.path \in Seq(Named)
          /\ Len(e.path) = 2 \/ (e.type = "gitlab" /\ Len(e.path) > 2)

\* What a component that is not exercised begins with.
Untouched ==
    /\ part # "settings" => settings = CHOOSE s \in Initial : TRUE
    /\ part # "rules" => \A f \in Files : file[f] # None
    /\ part # "tables" => tables = (CHOOSE t \in Left : TRUE) /\ providers = "array"
    /\ part # "addresses" => configured = CHOOSE c \in Configurations : TRUE

IntakeInit ==
    /\ part \in {"webhooks", "directories", "settings", "rules", "tables", "addresses"}
    /\ Init
    /\ Git!Init
    /\ Config!Init
    /\ Rules!Init
    /\ Tables!Init
    /\ Paths!Init
    /\ Untouched

IntakeNext ==
    \/ part = "webhooks" /\ Next /\ UNCHANGED <<part, gitVars, settingsVars, rulesVars, tablesVars, addressVars>>
    \/ part = "directories" /\ Git!Next /\ UNCHANGED <<part, vars, settingsVars, rulesVars, tablesVars, addressVars>>
    \/ part = "settings" /\ Config!Next /\ UNCHANGED <<part, vars, gitVars, rulesVars, tablesVars, addressVars>>
    \/ part = "rules" /\ Rules!Next /\ UNCHANGED <<part, vars, gitVars, settingsVars, tablesVars, addressVars>>
    \/ part = "tables" /\ Tables!Next /\ UNCHANGED <<part, vars, gitVars, settingsVars, rulesVars, addressVars>>
    \/ part = "addresses" /\ Paths!Next /\ UNCHANGED <<part, vars, gitVars, settingsVars, rulesVars, tablesVars>>

IntakeSpec == IntakeInit /\ [][IntakeNext]_allVars

\* Types.
IntakeTypeOK == TypeOK /\ Git!TypeOK /\ Config!TypeOK /\ Rules!TypeOK /\ Tables!TypeOK /\ Paths!TypeOK

\* Agents read the commit they were asked about, without files of others, and a
\* failed task does not spoil the directory for later ones.
AgentsReadTheirCommit == Git!AgentsReadTheirCommit

\* What is cloned, commented on and listed is the project of the request.
RightProject ==
    /\ Paths!ReportsReadTheirProject
    /\ Paths!CommentsWhereReviewed
    /\ Paths!EventsCloneTheirProject
    /\ Paths!ListedWhole

\* Nobody overwrites a rule file he has not seen, a task gets the rules
\* configured for it, and reviews leave the configuration alone.
RulesKept ==
    /\ Rules!OverwritesWhatWasSeen
    /\ []Rules!LoadedAsConfigured
    /\ Rules!FileStaysConfigured

\* Settings that are sent back are stored as they were meant, and a test tries
\* the secret that the engine uses.
SettingsAsMeant == Config!StoredAsMeant /\ Config!TestTriesTheSame

\* config/settings.go:162, "the original value is preserved": also for an array
\* from which an item was removed.
OriginalsPreserved == Config!OriginalsPreserved

\* engine.go:240, "Database configured review file for this repository": a task
\* takes the default instead only if the file holds what cannot be loaded, also
\* while somebody saves it.
ConfiguredIsUsed == Rules!ConfiguredIsUsed

\* pr_manager.go:45, "multiple PRs from the same repo [...] share the same
\* directory, with PR switching handled by fetch + checkout": a rule retry reads
\* its own pull request.
RetryReadsItsPR == Git!RetryReadsItsPR

\* Migrations lose no review or configuration, a server that runs has the
\* tables it needs, and a start that fails has a reason.
TablesKept == Tables!RowsKept /\ []Tables!RunsMigrated /\ []Tables!FailsForAReason

=============================================================================
