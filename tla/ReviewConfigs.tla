--------------------------- MODULE ReviewConfigs ---------------------------
(***************************************************************************)
(* Which rules a review is made with: the rule files in config/reviews and *)
(* the handlers that edit them (internal/api/handler/rules.go), the        *)
(* configurations of repositories (internal/api/handler/repository.go,     *)
(* internal/store/repository.go), and the engine and its loader, which     *)
(* pick a file when a task is submitted or worked on.  A file is written   *)
(* by emptying it first; a deleted configuration keeps its row, and the    *)
(* unique index of the addresses counts it.                                *)
(***************************************************************************)
EXTENDS Naturals, FiniteSets

CONSTANTS
    Admins,
    Files, Default, \* the rule files; default.yaml is one of them
    Repos,
    Contents,       \* contents of rule files
    Valid,          \* those that can be loaded
    Written,        \* what an administrator writes
    Empty, None,    \* the content of an emptied file, of a missing one; no file
    MaxEdits,       \* bound: requests of administrators
    MaxLoads,       \* bound: configurations that are loaded
    MaxFaults       \* bound: queries that fail

VARIABLES
    file,       \* per file: its content, or None
    config,     \* per repository: its row ("none", "live", "deleted") and file
    lock,       \* rulesMu: who holds it, or None
    admin,      \* per administrator: the request that is served
    load,       \* the configuration that is being loaded
    edits, loads, mishaps

vars == <<file, config, lock, admin, load, edits, loads, mishaps>>

Idle == [pc |-> "idle"]

TypeOK ==
    /\ \A f \in Files : file[f] \in Contents \cup {Empty, None}
    /\ \A r \in Repos : config[r].state \in {"none", "live", "deleted"} /\ config[r].file \in Files \cup {None}
    /\ lock \in Admins \cup {None}
    /\ \A a \in Admins : admin[a].pc \in {"idle", "view", "lock", "compare", "empty", "write", "copy", "copied",
                                        "update"}
    /\ load.pc \in {"idle", "root", "row", "file", "default", "done"}
    /\ edits \in 0..MaxEdits /\ loads \in 0..MaxLoads /\ mishaps \in 0..MaxFaults

Init ==
    /\ file \in [Files -> {CHOOSE c \in Valid : TRUE, None}]
    /\ config = [r \in Repos |-> [state |-> "none", file |-> None]]
    /\ lock = None
    /\ admin = [a \in Admins |-> Idle]
    /\ load = Idle
    /\ edits = 0 /\ loads = 0 /\ mishaps = 0

Exists(f) == file[f] # None
At(a, pc) == admin[a].pc = pc
Go(a, r) == admin' = [admin EXCEPT ![a] = r]
Request == edits < MaxEdits /\ edits' = edits + 1
Stirred == load' = IF load.pc = "idle" THEN load ELSE [load EXCEPT !.calm = FALSE]

Put(f, c) == file' = [file EXCEPT ![f] = c] /\ Stirred

-----------------------------------------------------------------------------
\* GetRule: the content is shown with its hash; a file that is missing can be
\* saved nevertheless.
GetRule(a) ==
    /\ At(a, "idle") /\ Request
    /\ \E f \in Files : Go(a, [pc |-> "view", of |-> f, seen |-> file[f], overtaken |-> FALSE])
    /\ UNCHANGED <<file, config, lock, load, loads, mishaps>>

\* SaveRule checks the syntax, takes the lock, compares the hash, if there is
\* a file, and writes.
BeginSave(a) ==
    /\ At(a, "view")
    /\ \E c \in Written \ {admin[a].seen} : Go(a, [pc |-> "lock", of |-> admin[a].of, seen |-> admin[a].seen,
                                                  new |-> c, overtaken |-> admin[a].overtaken])
    /\ UNCHANGED <<file, config, lock, load, edits, loads, mishaps>>

\* Mutant: the hash is compared before the lock is taken.
LockAfterCompare(a) ==
    /\ At(a, "lock") /\ file[admin[a].of] \in {None, admin[a].seen}
    /\ UNCHANGED lock
    /\ Go(a, [admin[a] EXCEPT !.pc = "empty"])
    /\ UNCHANGED <<file, config, load, edits, loads, mishaps>>

Lock(a) ==
    /\ At(a, "lock") /\ lock = None
    /\ lock' = a
    /\ Go(a, [admin[a] EXCEPT !.pc = "compare"])
    /\ UNCHANGED <<file, config, load, edits, loads, mishaps>>

Compare(a) ==
    /\ At(a, "compare")
    /\ IF file[admin[a].of] \in {None, admin[a].seen}
       THEN Go(a, [admin[a] EXCEPT !.pc = "empty"]) /\ UNCHANGED lock
       ELSE Go(a, Idle) /\ lock' = None
    /\ UNCHANGED <<file, config, load, edits, loads, mishaps>>

\* os.WriteFile empties the file, then it writes.
EmptyFile(a) ==
    /\ At(a, "empty")
    /\ Put(admin[a].of, Empty)
    /\ Go(a, [admin[a] EXCEPT !.pc = "write"])
    /\ UNCHANGED <<config, lock, edits, loads, mishaps>>
WriteFile(a) ==
    /\ At(a, "write")
    /\ Put(admin[a].of, admin[a].new)
    /\ Go(a, Idle)
    /\ lock' = IF lock = a THEN None ELSE lock
    /\ UNCHANGED <<config, edits, loads, mishaps>>

\* CreateRuleFile looks whether there is a file and copies what another one
\* holds, or a template if there is none.  It takes no lock: who is about to
\* save the file is overtaken.
CreateRuleFile(a) ==
    /\ At(a, "idle") /\ Request
    /\ \E f, from \in Files :
          /\ ~Exists(f)
          /\ Go(a, [pc |-> "copy", of |-> f, new |-> IF Exists(from) THEN file[from] ELSE CHOOSE c \in Valid : TRUE])
    /\ UNCHANGED <<file, config, lock, load, loads, mishaps>>
Overtake(a, r) ==
    admin' = [b \in Admins |->
                IF b = a THEN r
                ELSE IF admin[b].pc \in {"view", "lock", "compare", "empty"} /\ admin[b].of = admin[a].of
                THEN [admin[b] EXCEPT !.overtaken = TRUE] ELSE admin[b]]
CopyFile(a) ==
    /\ \/ At(a, "copy") /\ Put(admin[a].of, Empty) /\ Overtake(a, [admin[a] EXCEPT !.pc = "copied"])
       \/ At(a, "copied") /\ Put(admin[a].of, admin[a].new) /\ Overtake(a, Idle)
    /\ UNCHANGED <<config, lock, edits, loads, mishaps>>

-----------------------------------------------------------------------------
\* CreateRepositoryConfig: a deleted row is not found, and violates the index.
CreateRepositoryConfig(a) ==
    /\ At(a, "idle") /\ Request
    /\ \E r \in Repos, f \in {g \in Files : Exists(g)} \cup {None} :
          /\ config[r].state = "none"
          /\ config' = [config EXCEPT ![r] = [state |-> "live", file |-> f]]
    /\ Stirred
    /\ UNCHANGED <<file, lock, admin, loads, mishaps>>

\* UpdateRepositoryConfig reads the row and saves it, in two statements.
UpdateRepositoryConfig(a) ==
    /\ At(a, "idle") /\ Request
    /\ \E r \in Repos, f \in {g \in Files : Exists(g)} \cup {None} :
          config[r].state = "live" /\ Go(a, [pc |-> "update", of |-> r, new |-> f])
    /\ UNCHANGED <<file, config, lock, load, loads, mishaps>>
\* external: a save that finds no row to update inserts it, and a deleted one
\* is restored by that.
SaveConfig(a) ==
    /\ At(a, "update")
    /\ config' = [config EXCEPT ![admin[a].of] = [state |-> "live", file |-> admin[a].new]]
    /\ Go(a, Idle)
    /\ Stirred
    /\ UNCHANGED <<file, lock, edits, loads, mishaps>>

DeleteRepositoryConfig(a) ==
    /\ At(a, "idle") /\ Request
    /\ \E r \in Repos : /\ config[r].state = "live"
                        /\ config' = [config EXCEPT ![r].state = "deleted"]
    /\ Stirred
    /\ UNCHANGED <<file, lock, admin, loads, mishaps>>

\* EnsureConfig, for every review or report that is created: again a deleted
\* row is not found and the insertion fails.
EnsureConfig(r) ==
    /\ config[r].state = "none"
    /\ config' = [config EXCEPT ![r] = [state |-> "live", file |-> None]]
    /\ Stirred
    /\ UNCHANGED <<file, lock, admin, edits, loads, mishaps>>

-----------------------------------------------------------------------------
\* GetByRepoURL.
FileOf(r) == IF config[r].state = "live" THEN config[r].file ELSE None

\* Load: reading, expanding and parsing a file.
Loads(c) == c \in Valid

Loaded(c) == [load EXCEPT !.pc = "done", !.used = c]
Keep == UNCHANGED <<file, config, lock, admin, edits>>

\* What priority asks for: the root of the clone, the file configured for the
\* repository, the default.
Pick(root, r) ==
    LET f == IF config[r].state = "live" THEN config[r].file ELSE None IN
    IF root \in Valid THEN root
    ELSE IF f # None /\ Loads(file[f]) THEN file[f]
    ELSE IF Loads(file[Default]) THEN file[Default] ELSE None

\* Submit loads without a clone, processTask with one, whose root may have a
\* file of its own.
BeginLoad ==
    /\ load.pc \in {"idle", "done"}
    /\ loads < MaxLoads /\ loads' = loads + 1
    /\ \E r \in Repos, root \in Contents \cup {None} :
          load' = [pc |-> "root", of |-> r, root |-> root, file |-> None, used |-> None, calm |-> TRUE,
                   want |-> Pick(root, r)]
    /\ Keep /\ UNCHANGED mishaps

LoadFromRepoRoot ==
    /\ load.pc = "root"
    /\ load' = IF Loads(load.root) THEN Loaded(load.root) ELSE [load EXCEPT !.pc = "row"]
    /\ Keep /\ UNCHANGED <<loads, mishaps>>

\* A query that fails is logged, and the default loaded.
FindConfig ==
    /\ load.pc = "row"
    /\ \/ /\ load' = [load EXCEPT !.file = FileOf(load.of),
                                  !.pc = IF FileOf(load.of) = None THEN "default" ELSE "file"]
          /\ UNCHANGED mishaps
       \/ /\ mishaps < MaxFaults /\ mishaps' = mishaps + 1
          /\ load' = [load EXCEPT !.pc = "default", !.calm = FALSE]
    /\ Keep /\ UNCHANGED loads

LoadConfigured ==
    /\ load.pc = "file"
    /\ load' = IF Loads(file[load.file]) THEN Loaded(file[load.file]) ELSE [load EXCEPT !.pc = "default"]
    /\ Keep /\ UNCHANGED <<loads, mishaps>>

LoadDefaultReviewConfig ==
    /\ load.pc = "default"
    /\ load' = IF Loads(file[Default]) THEN Loaded(file[Default]) ELSE Loaded(None)
    /\ Keep /\ UNCHANGED <<loads, mishaps>>

Next ==
    \/ \E a \in Admins :
          \/ GetRule(a) \/ BeginSave(a) \/ Lock(a) \/ Compare(a) \/ EmptyFile(a) \/ WriteFile(a)
          \/ CreateRuleFile(a) \/ CopyFile(a)
          \/ CreateRepositoryConfig(a) \/ UpdateRepositoryConfig(a) \/ SaveConfig(a)
          \/ DeleteRepositoryConfig(a)
    \/ \E r \in Repos : EnsureConfig(r)
    \/ BeginLoad \/ LoadFromRepoRoot \/ FindConfig \/ LoadConfigured \/ LoadDefaultReviewConfig

Spec == Init /\ [][Next]_vars

-----------------------------------------------------------------------------
\* Two administrators edit a file: who saves overwrites only what he has
\* seen.  Not so if the file is created by a third request meanwhile, which
\* does not take the lock.
OverwritesWhatWasSeen ==
    [][\A a \in Admins :
        (At(a, "empty") /\ admin'[a].pc = "write" /\ ~admin[a].overtaken) =>
            file[admin[a].of] \in {None, admin[a].seen}]_vars

\* A task is given the rules that priority asks for (the root of its
\* repository, the configured file, the default), if nobody changes them
\* while they are loaded.
LoadedAsConfigured == (load.pc = "done" /\ load.calm) => load.used = load.want

\* engine.go:240, "2. Database configured review file for this repository":
\* the default is used instead of a configured file only if that file has
\* been written with something that cannot be loaded.
ConfiguredIsUsed == [][(load.pc = "file" /\ load'.pc = "default") => file[load.file] # Empty]_vars

\* The file of a repository stays as administrators set it, whatever reviews
\* come in for it.
FileStaysConfigured ==
    [][\A r \in Repos :
        (config[r].state = "live" /\ config'[r].state = "live" /\ config'[r].file # config[r].file) =>
            \E a \in Admins : At(a, "update") /\ admin[a].of = r /\ admin[a].new = config'[r].file]_vars
=============================================================================
