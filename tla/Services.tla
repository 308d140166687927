------------------------------ MODULE Services ------------------------------
(***************************************************************************)
(* Components that share no state with each other, side by side:           *)
(* EngineShutdown, TaskLogs, AgentStream and Notification.  A behaviour    *)
(* exercises one of them, the others stay as they begin.                   *)
(***************************************************************************)
EXTENDS EngineShutdown

CONSTANTS
    Lines, TaskOf, bufferSize, DefaultSize, MaxSize, Retention, ReadTask, AskedSize,
    Scripts, OutCap, PipeCap, None,
    Senders, Events, Configs, MaxCalls, MaxChanges, MaxFaults, Nowhere

ASSUME ServicesAssumption == MaxCalls \in Nat /\ MaxChanges \in Nat /\ MaxFaults \in Nat

ASSUME LogsAssumption ==
    /\ Lines \in Nat /\ bufferSize \in Nat \ {0}
    /\ DefaultSize \in Nat \ {0} /\ MaxSize \in Nat /\ AskedSize \in Nat

VARIABLES
    part,   \* the component that is exercised
    clock, buffer, batches, stored, lost, deleted, hook, closedAt, db, pages, nextPage, steady,
    script, left, process, pipe, reader, outputChan, closed, dones, textBuffer, processing, caller, answer,
    setting, cachedConfig, notifier, call, sent, calls, changes, mishaps

logsVars == <<clock, buffer, batches, stored, lost, deleted, hook, closedAt, db, pages, nextPage, steady>>
streamVars == <<script, left, process, pipe, reader, outputChan, closed, dones, textBuffer, processing,
                caller, answer>>
noticeVars == <<setting, cachedConfig, notifier, call, sent, calls, changes, mishaps>>
allVars == <<part, vars, logsVars, streamVars, noticeVars>>

Logs == INSTANCE TaskLogs
Stream == INSTANCE AgentStream
Notices == INSTANCE Notification

\* The texts of the lines of a script are sequences of the same words.  Only
\* noise comes from stderr; messages are gemini's, and cursor has no lines of
\* an unknown type; a chunk is never None.
Printed == UNION {Stream!ToSet(s.lines) : s \in Scripts}
Words == UNION {Stream!ToSet(l.text) : l \in Printed}
ASSUME ScriptsAssumption ==
    /\ OutCap \in Nat \ {0} /\ PipeCap \in Nat \ {0}
    /\ \A s \in Scripts :
          /\ s.agent \in {"cursor", "gemini", "qoder"}
          /\ s.lines \in Seq(Printed)
          /\ \A i \in DOMAIN s.lines :
                LET l == s.lines[i] IN
                /\ l.pipe \in Stream!Pipes
                /\ l.text \in Seq(Words)
                /\ l.pipe = "stderr" => l.type \in {"noise", "long"}
                /\ l.type = "message" => s.agent = "gemini"
                /\ l.type = "unknown" => s.agent # "cursor"
                /\ \A t \in {"text", "result"} : Stream!Chunk(t, l.text) # None

ServicesInit ==
    /\ part \in {"stopping", "logs", "streams", "notices"}
    /\ Init
    /\ Logs!Init
    /\ Stream!Init
    /\ Notices!Init
    /\ part # "streams" => script = CHOOSE s \in Scripts : TRUE
    /\ part # "notices" => setting = None /\ mishaps = 0

ServicesNext ==
    \/ part = "stopping" /\ Next /\ UNCHANGED <<part, logsVars, streamVars, noticeVars>>
    \/ part = "logs" /\ Logs!Next /\ UNCHANGED <<part, vars, streamVars, noticeVars>>
    \/ part = "streams" /\ Stream!Next /\ UNCHANGED <<part, vars, logsVars, noticeVars>>
    \/ part = "notices" /\ Notices!Next /\ UNCHANGED <<part, vars, logsVars, streamVars>>

\* The fairness of each component, while it is the one that is exercised.
Stopping(A) == part = "stopping" /\ Alive(A) /\ UNCHANGED <<part, logsVars, streamVars, noticeVars>>
Logging(A) == part = "logs" /\ A /\ UNCHANGED <<part, vars, streamVars, noticeVars>>
Streaming(A) == part = "streams" /\ A /\ UNCHANGED <<part, vars, logsVars, noticeVars>>
Notifying(A) == part = "notices" /\ A /\ UNCHANGED <<part, vars, logsVars, streamVars>>
ServicesFairness ==
    /\ WF_allVars(Stopping(Loop))
    /\ \A w \in Workers : WF_allVars(Stopping(Worker(w)))
    /\ WF_allVars(Stopping(Stopper))
    /\ WF_allVars(Logging(Logs!Tick))
    /\ WF_allVars(Logging(Logs!LastFlush))
    /\ WF_allVars(Logging(Logs!WriteSome))
    /\ \A p \in {"stdout", "stderr"} : WF_allVars(Streaming(Stream!Reader(p)))
    /\ WF_allVars(Streaming(Stream!Process))
    /\ WF_allVars(Streaming(Stream!Caller))
    /\ WF_allVars(Streaming(Stream!Emit \/ Stream!Exit))
    /\ \A s \in Senders : WF_allVars(Notifying(Notices!Notify(s)))

ServicesSpec == ServicesInit /\ [][ServicesNext]_allVars /\ ServicesFairness

\* Types.
ServicesTypeOK == TypeOK /\ Logs!TypeOK /\ Stream!TypeOK /\ Notices!TypeOK

\* A line that was captured is in one place until it is deleted, and a client
\* who is not overtaken reads the first lines of its task.
LinesKept == Logs!EachLineOnce /\ Logs!PagesInOrder

\* A call of an agent that succeeds returns all of its answer, and no reader
\* sends to a channel that is closed.
AnswerKept == Stream!AnswerComplete /\ Stream!NobodySendsAfterClose

\* A notice goes out over the channel of the configuration its call has read,
\* and one that counts as delivered was taken.
NoticesArrive == Notices!OwnChannel /\ Notices!AcceptedIsTaken

\* A stop, a stream and a notice end, mail servers aside, and no line stays in
\* the buffer for ever.
ServicesEnd ==
    /\ StopEnds
    /\ Logs!LinesLeaveTheBuffer
    /\ part = "streams" => Stream!StreamEnds
    /\ part = "notices" => Notices!NoticesEnd

=============================================================================
