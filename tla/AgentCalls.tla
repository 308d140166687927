---------------------------- MODULE AgentCalls ----------------------------
(***************************************************************************)
(* Calls of an external agent (internal/agent, internal/llm, and the retry *)
(* loop of executeSingleRun in internal/engine/executor/executor.go).      *)
(* Each call runs a command line tool as a child process, with a timeout.  *)
(*                                                                         *)
(* The agent object and the configuration of its client are shared by all  *)
(* workers.  Before each attempt a call copies the settings of the         *)
(* database into them, field by field and without a lock, and reads them   *)
(* again while it builds the command: what it runs with may be another     *)
(* call's, or, since these are data races, torn.                           *)
(***************************************************************************)
EXTENDS Naturals, Sequences

CONSTANTS
    Calls,          \* calls of the agent, by workers, retries and reports
    Settings,       \* what an administrator may save: records of Fields
    ModelOf,        \* per call: the model its rule asks for, or None
    maxRetries,     \* repeated attempts
    MaxUpsets,      \* bound: changes of the settings and reads of them that fail
    None,           \* a field that is not set
    Default,        \* "composer-1", the model of cursor
    Torn            \* half of one value and half of another

Agents == {"cursor", "gemini", "qoder"}
Fields == {"model", "key", "timeout"}

VARIABLES
    agent,      \* which of the agents it is
    db,         \* the agent's settings in the database
    shared,     \* the fields of the client's configuration, and a.timeout
    call,       \* per call: step, attempt, what it has read, what it runs with
    held,       \* calls whose output pipe a descendant of the process keeps open
    cancelled,  \* the context of the workers
    upsets

vars == <<agent, db, shared, call, held, cancelled, upsets>>

Unset == [f \in Fields |-> None]
Ends == {"ok", "failed", "cancelled"}
Writes == Fields        \* a call is at step f while it writes field f
Building == {"load", "request", "prepare", "start"} \cup Writes

TypeOK ==
    /\ agent \in Agents /\ db \in Settings
    /\ \A f \in Fields : shared[f] \in {s[f] : s \in Settings} \cup {None, Default}
    /\ \A c \in Calls :
          /\ call[c].step \in {"new", "run", "backoff"} \cup Building \cup Ends
          /\ call[c].attempt \in 0..maxRetries
          /\ call[c].got \in Settings \cup {Unset}
          /\ call[c].disturbed \in BOOLEAN
    /\ held \subseteq Calls /\ cancelled \in BOOLEAN
    /\ upsets \in 0..MaxUpsets

Init ==
    /\ agent \in Agents
    /\ db \in Settings
    /\ shared = Unset
    /\ call = [c \in Calls |-> [step |-> "new", attempt |-> 0, got |-> Unset, with |-> Unset,
                                outcomes |-> <<>>, disturbed |-> FALSE]]
    /\ held = {} /\ cancelled = FALSE
    /\ upsets = 0

-----------------------------------------------------------------------------
At(c, s) == call[c].step = s
Go(c, s) == call' = [call EXCEPT ![c].step = s]
env == <<agent, db, cancelled>>

\* executeSingleRun begins.
Begin(c) ==
    /\ At(c, "new")
    /\ Go(c, "load")
    /\ UNCHANGED <<env, shared, held, upsets>>

\* Mutant: the settings are read for the first attempt only.
LoadOnce(c) ==
    /\ At(c, "load")
    /\ IF shared = Unset THEN call' = [call EXCEPT ![c].got = db, ![c].step = "model", ![c].disturbed = FALSE]
       ELSE call' = [call EXCEPT ![c].got = db, ![c].step = "request", ![c].disturbed = FALSE]
    /\ UNCHANGED <<env, shared, held, upsets>>

\* loadConfigFromDB reads the settings; after an error what is there is used.
Load(c) ==
    /\ At(c, "load")
    /\ \/ /\ call' = [call EXCEPT ![c].got = db, ![c].step = "model", ![c].disturbed = FALSE]
          /\ UNCHANGED upsets
       \/ /\ upsets < MaxUpsets /\ upsets' = upsets + 1
          /\ call' = [call EXCEPT ![c].got = Unset, ![c].step = "request"]
    /\ UNCHANGED <<env, shared, held>>

\* What is written to a field: a setting, or what was there before; cursor
\* alone has a model of its own.
CursorField(f, set) == IF set # None THEN set ELSE IF f = "model" THEN Default ELSE shared[f]
GeminiField(f, set) == IF set # None THEN set ELSE shared[f]
QoderField(f, set) == IF set # None THEN set ELSE shared[f]
Written(c, f) ==
    CASE agent = "cursor" -> CursorField(f, call[c].got[f])
      [] agent = "gemini" -> GeminiField(f, call[c].got[f])
      [] agent = "qoder"  -> QoderField(f, call[c].got[f])

\* One field after the other.  history: the calls that have read other
\* settings and have not read the field for good are disturbed.
NextWrite(f) == CASE f = "model" -> "key" [] f = "key" -> "timeout" [] f = "timeout" -> "request"
Write(c, f) ==
    /\ At(c, f)
    /\ shared' = [shared EXCEPT ![f] = Written(c, f)]
    /\ call' = [d \in Calls |->
                  IF d = c THEN [call[c] EXCEPT !.step = NextWrite(f)]
                  ELSE IF call[d].step \in Building /\ call[d].got # call[c].got
                       THEN [call[d] EXCEPT !.disturbed = TRUE]
                  ELSE call[d]]
    /\ UNCHANGED <<env, held, upsets>>

\* A read while another call is writing another value.
ReadField(c, f) ==
    {shared[f]} \cup
    {Torn : d \in {d \in Calls \ {c} : At(d, f) /\ Written(d, f) # shared[f]}}

\* A read is disturbed by a call that is in the midst of writing, too.
Disturbed(c, f) == call[c].disturbed \/ \E d \in Calls \ {c} : At(d, f) /\ Written(d, f) # shared[f]
Reads(c, f, v, s) ==
    call' = [call EXCEPT ![c].with[f] = v, ![c].step = s, ![c].disturbed = Disturbed(c, f)]

\* executeWithClient copies the timeout into the request.
MakeRequest(c) ==
    /\ At(c, "request")
    /\ \E v \in ReadField(c, "timeout") : Reads(c, "timeout", v, "prepare")
    /\ UNCHANGED <<env, shared, held, upsets>>

\* PrepareRequest: the model of the rule, or the configured one.
PrepareRequest(c) ==
    /\ At(c, "prepare")
    /\ IF ModelOf[c] # None
       THEN call' = [call EXCEPT ![c].with.model = ModelOf[c], ![c].step = "start"]
       ELSE \E v \in ReadField(c, "model") : Reads(c, "model", v, "start")
    /\ UNCHANGED <<env, shared, held, upsets>>

\* How each client judges what its process came to.
CursorOutcome(exit) ==
    CASE exit = "zero" -> "ok" [] exit \in {"timeout", "auth"} -> "final" [] OTHER -> "retryable"
GeminiOutcome(exit) ==
    CASE exit = "zero" -> "ok" [] exit = "timeout" -> "final" [] OTHER -> "retryable"
QoderOutcome(exit) ==
    CASE exit = "zero" -> "ok" [] exit \in {"timeout", "auth", "token"} -> "final" [] OTHER -> "retryable"
Outcome(exit) ==
    CASE agent = "cursor" -> CursorOutcome(exit)
      [] agent = "gemini" -> GeminiOutcome(exit)
      [] agent = "qoder"  -> QoderOutcome(exit)

\* The exit status, and what is on stderr; a process whose context is
\* cancelled is killed.
Exits == IF cancelled THEN {"killed"} ELSE {"zero", "timeout", "auth", "token", "error"}

\* The loop goes on after a failure that may be repeated, IsRetryable.
Repeat(c, outcome) == outcome = "retryable" /\ call[c].attempt < maxRetries

\* An attempt is over, with an outcome; what it has read is forgotten.
Ended(c, outcome) ==
    [call[c] EXCEPT !.outcomes = Append(@, outcome), !.got = Unset, !.with = Unset, !.disturbed = FALSE,
                    !.step = IF outcome = "ok" THEN "ok"
                             ELSE IF Repeat(c, outcome) THEN "backoff" ELSE "failed"]

\* doExecute starts the process, unless that fails or the context is over.
StartProcess(c) ==
    /\ At(c, "start")
    /\ \/ /\ ~cancelled
          /\ \E v \in ReadField(c, "key") : Reads(c, "key", v, "run")
          /\ held' \in {held, held \cup {c}}
       \/ call' = [call EXCEPT ![c] = Ended(c, "final")] /\ UNCHANGED held
    /\ UNCHANGED <<env, shared, upsets>>

\* cmd.Wait returns when the process is over and nobody holds its pipes.
Wait(c) ==
    /\ At(c, "run") /\ c \notin held
    /\ \E exit \in Exits : call' = [call EXCEPT ![c] = Ended(c, Outcome(exit))]
    /\ UNCHANGED <<env, shared, held, upsets>>

\* The delay is over, or the context.
Backoff(c) ==
    /\ At(c, "backoff")
    /\ IF cancelled THEN Go(c, "cancelled")
       ELSE call' = [call EXCEPT ![c].attempt = @ + 1, ![c].step = "load"]
    /\ UNCHANGED <<env, shared, held, upsets>>

Execute(c) ==
    \/ Load(c) \/ MakeRequest(c) \/ PrepareRequest(c) \/ StartProcess(c) \/ Wait(c) \/ Backoff(c)
    \/ \E f \in Fields : Write(c, f)

-----------------------------------------------------------------------------
\* A descendant that held the pipes of a process ends.
Release(c) ==
    /\ c \in held
    /\ held' = held \ {c}
    /\ UNCHANGED <<env, shared, call, upsets>>

\* An administrator saves other settings.
ChangeSettings ==
    /\ upsets < MaxUpsets /\ upsets' = upsets + 1
    /\ db' \in Settings \ {db}
    /\ UNCHANGED <<agent, shared, call, held, cancelled>>

\* Stop of the engine.
Cancel ==
    /\ ~cancelled
    /\ cancelled' = TRUE
    /\ UNCHANGED <<agent, db, shared, call, held, upsets>>

Next ==
    \/ \E c \in Calls : Begin(c) \/ Execute(c) \/ Release(c)
    \/ ChangeSettings
    \/ Cancel

Spec == Init /\ [][Next]_vars
Fairness == \A c \in Calls : WF_vars(Execute(c))
FairSpec == Spec /\ Fairness

-----------------------------------------------------------------------------
\* A process runs with the settings its call has read, field by field as far
\* as they are set, and with the model of its rule before all: calls side by
\* side do not disturb each other as long as they have read the same.
SettingsReachCall ==
    \A c \in Calls :
        At(c, "run") =>
            /\ ModelOf[c] # None => call[c].with.model = ModelOf[c]
            /\ ~call[c].disturbed =>
                  \A f \in Fields :
                      (call[c].got[f] # None /\ (f = "model" => ModelOf[c] = None)) =>
                          call[c].with[f] = call[c].got[f]

\* An agent is not called again after an answer, a timeout or a rejected
\* login, and a call that is given up has used all of its attempts otherwise.
RepeatedWhenUseful ==
    \A c \in Calls :
        LET out == call[c].outcomes IN
        /\ \A i \in DOMAIN out : i < Len(out) => out[i] = "retryable"
        /\ Len(out) <= maxRetries + 1
        /\ (At(c, "failed") /\ out # <<>> /\ out[Len(out)] = "retryable" /\ ~cancelled) =>
              call[c].attempt = maxRetries

\* agent/cursor/cursor.go:174, "Load latest configuration from database
\* before execution": a key that was removed is not used any more.
RemovedKeyIsGone ==
    \A c \in Calls :
        (At(c, "run") /\ ~call[c].disturbed /\ call[c].got # Unset /\ call[c].got.key = None) =>
            call[c].with.key = None

\* Every call ends, unless a descendant of its process keeps its pipes.
CallEnds ==
    \A c \in Calls : At(c, "load") ~> (call[c].step \in Ends \/ c \in held)
=============================================================================
