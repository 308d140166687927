--------------------------- MODULE AgentStream ---------------------------
(***************************************************************************)
(* The streaming call of an agent (doExecuteStream of the three clients in *)
(* internal/llm): one goroutine per output pipe of the process reads and   *)
(* parses its lines, a third one passes the chunks to the callback, and    *)
(* the caller waits for both readers, closes the channel between them,     *)
(* waits for the third and then for the process.                           *)
(***************************************************************************)
EXTENDS Naturals, Sequences, SequencesExt

CONSTANTS
    Scripts,        \* what a process may print: records of agent and lines; a
                    \* line has a pipe, a type, delta (Gemini's flag) and text
    OutCap,         \* capacity of outputChan (100)
    PipeCap,        \* lines that fit into a pipe
    None

Pipes == {"stdout", "stderr"}

VARIABLES
    script,     \* the script that is played
    left,       \* its lines that the process has not printed
    process,    \* "running", or how it ended
    pipe,       \* per pipe: the lines in it
    reader,     \* per pipe: the goroutine that reads it
    outputChan, closed,
    dones,      \* tokens in the channel done
    textBuffer,
    processing, \* has the third goroutine more to do?
    caller,     \* step of doExecuteStream
    answer      \* what it returned, or None

vars == <<script, left, process, pipe, reader, outputChan, closed, dones, textBuffer, processing,
          caller, answer>>

TypeOK ==
    /\ script \in Scripts
    /\ process \in {"running", "zero", "failed", "timeout"}
    /\ \A p \in Pipes : Len(pipe[p]) <= PipeCap /\ reader[p].step \in {"scan", "send", "signal", "over"}
    /\ Len(outputChan) <= OutCap /\ closed \in BOOLEAN
    /\ dones \in 0..2 /\ processing \in BOOLEAN
    /\ caller \in {"first", "second", "close", "drain", "wait", "returned"}

Init ==
    /\ script \in Scripts
    /\ left = script.lines
    /\ process = "running"
    /\ pipe = [p \in Pipes |-> <<>>]
    /\ reader = [p \in Pipes |-> [step |-> "scan", chunk |-> None]]
    /\ outputChan = <<>> /\ closed = FALSE
    /\ dones = 0
    /\ textBuffer = <<>>
    /\ processing = TRUE
    /\ caller = "first" /\ answer = None

-----------------------------------------------------------------------------
\* The chunk of a line, or None; Mark stands for the text of other chunks.
Mark == <<"mark">>
Chunk(type, text) == [type |-> type, text |-> text]
Marked(l) == l.type \in {"system", "thinking", "tool_call"}

\* cursor passes on what has text.
CursorChunk(l) ==
    CASE l.type \in {"assistant", "result"} /\ l.text # <<>> ->
            Chunk(IF l.type = "result" THEN "result" ELSE "text", l.text)
      [] Marked(l) -> Chunk("other", Mark)
      [] l.type = "error" /\ l.text # <<>> -> Chunk("other", l.text)
      [] OTHER -> None

\* gemini has deltas and whole messages, and a result without a text of its
\* own: the text so far.
GeminiChunk(l) ==
    CASE l.type = "message" /\ l.text # <<>> -> Chunk("text", l.text)
      [] l.type = "result"  -> Chunk("result", textBuffer)
      [] l.type \in {"init", "tool_use", "tool_result"} -> Chunk("other", Mark)
      [] OTHER -> None

\* qoder passes on all it can parse, a result without a text included.
QoderChunk(l) ==
    CASE l.type = "result" -> Chunk("result", l.text)
      [] l.type = "assistant" -> Chunk("text", l.text)
      [] Marked(l) -> Chunk("other", Mark)
      [] l.type = "error" -> Chunk("other", l.text)
      [] l.type = "unknown" /\ l.text # <<>> -> Chunk("text", l.text)
      [] OTHER -> None

ParseLine(p, l) ==
    CASE script.agent = "cursor" -> CursorChunk(l)
      [] script.agent = "gemini" /\ p = "stdout" -> GeminiChunk(l)
      [] script.agent = "qoder"  /\ p = "stdout" -> QoderChunk(l)
      [] OTHER -> None      \* their stderr is only logged

\* gemini's reader keeps the text, the other clients' third goroutine does.
ReaderKeeps(p, l) == script.agent = "gemini" /\ p = "stdout" /\ l.type = "message" /\ l.delta

Kept(s, text, c) ==
    IF s.agent = "gemini" \/ c.type = "other" THEN text
    ELSE IF c.type = "result" THEN c.text ELSE text \o c.text

-----------------------------------------------------------------------------
\* The process prints, blocks while a pipe is full, and ends by itself or is
\* killed when the time is over.
Emit ==
    /\ process = "running" /\ left # <<>>
    /\ Len(pipe[Head(left).pipe]) < PipeCap
    /\ pipe' = [pipe EXCEPT ![Head(left).pipe] = Append(@, Head(left))]
    /\ left' = Tail(left)
    /\ UNCHANGED <<script, process, reader, outputChan, closed, dones, textBuffer, processing, caller, answer>>

Exit ==
    /\ process = "running"
    /\ \/ process' \in {"timeout", "failed"}
       \/ left = <<>> /\ process' = "zero"
    /\ UNCHANGED <<script, left, pipe, reader, outputChan, closed, dones, textBuffer, processing, caller, answer>>

-----------------------------------------------------------------------------
ReaderIs(p, s) == reader[p].step = s
Set(p, s, c) == reader' = [reader EXCEPT ![p] = [step |-> s, chunk |-> c]]
readerVars == <<script, left, process, closed, processing, caller, answer>>

\* A line that is longer than the scanner's buffer ends the scan, like the
\* end of the output.
Scan(p) ==
    /\ ReaderIs(p, "scan") /\ pipe[p] # <<>>
    /\ LET l == Head(pipe[p])
           c == ParseLine(p, l)
       IN IF l.type = "long"
          THEN Set(p, "signal", None) /\ UNCHANGED textBuffer
          ELSE /\ Set(p, IF c = None THEN "scan" ELSE "send", c)
               /\ textBuffer' = IF ReaderKeeps(p, l) THEN textBuffer \o l.text ELSE textBuffer
    /\ pipe' = [pipe EXCEPT ![p] = Tail(@)]
    /\ UNCHANGED <<readerVars, outputChan, dones>>

EndOfOutput(p) ==
    /\ ReaderIs(p, "scan") /\ pipe[p] = <<>> /\ process # "running"
    /\ Set(p, "signal", None)
    /\ UNCHANGED <<readerVars, pipe, outputChan, dones, textBuffer>>

\* Sending on a closed channel would be a panic: see NobodySendsAfterClose.
Send(p) ==
    /\ ReaderIs(p, "send") /\ Len(outputChan) < OutCap
    /\ outputChan' = Append(outputChan, reader[p].chunk)
    /\ Set(p, "scan", None)
    /\ UNCHANGED <<readerVars, pipe, dones, textBuffer>>

Done(p) ==
    /\ ReaderIs(p, "signal") /\ dones < 2
    /\ dones' = dones + 1
    /\ Set(p, "over", None)
    /\ UNCHANGED <<readerVars, pipe, outputChan, textBuffer>>

Reader(p) == Scan(p) \/ EndOfOutput(p) \/ Send(p) \/ Done(p)

\* The third goroutine.
Process ==
    /\ processing
    /\ \/ /\ outputChan # <<>>
          /\ textBuffer' = Kept(script, textBuffer, Head(outputChan))
          /\ outputChan' = Tail(outputChan)
          /\ UNCHANGED processing
       \/ /\ outputChan = <<>> /\ closed
          /\ processing' = FALSE
          /\ UNCHANGED <<textBuffer, outputChan>>
    /\ UNCHANGED <<script, left, process, pipe, reader, closed, dones, caller, answer>>

-----------------------------------------------------------------------------
callerVars == <<script, left, process, pipe, reader, outputChan, textBuffer, processing>>

AwaitReader ==
    /\ caller \in {"first", "second"} /\ dones > 0
    /\ dones' = dones - 1
    /\ caller' = IF caller = "first" THEN "second" ELSE "close"
    /\ UNCHANGED <<callerVars, closed, answer>>

CloseChannel ==
    /\ caller = "close"
    /\ closed' = TRUE
    /\ caller' = "drain"
    /\ UNCHANGED <<callerVars, dones, answer>>

\* Mutant: what is still in the channel is not waited for.
AwaitNothing ==
    /\ caller = "drain"
    /\ caller' = "wait"
    /\ UNCHANGED <<callerVars, dones, closed, answer>>

AwaitProcessing ==
    /\ caller = "drain" /\ ~processing
    /\ caller' = "wait"
    /\ UNCHANGED <<callerVars, dones, closed, answer>>

AwaitProcess ==
    /\ caller = "wait" /\ process # "running"
    /\ caller' = "returned"
    /\ answer' = IF process = "timeout" THEN [status |-> "timeout", text |-> <<>>]
                 ELSE [status |-> process, text |-> textBuffer]
    /\ UNCHANGED <<callerVars, dones, closed>>

Caller == AwaitReader \/ CloseChannel \/ AwaitProcessing \/ AwaitProcess

Next ==
    \/ Emit \/ Exit
    \/ \E p \in Pipes : Reader(p)
    \/ Process
    \/ Caller

Spec == Init /\ [][Next]_vars

\* The goroutines are scheduled; a process prints or ends, because its time
\* is limited.
Fairness ==
    /\ \A p \in Pipes : WF_vars(Reader(p))
    /\ WF_vars(Process) /\ WF_vars(Caller)
    /\ WF_vars(Emit \/ Exit)
FairSpec == Spec /\ Fairness

-----------------------------------------------------------------------------
\* A reference for the answer: what a script has told after each of its lines.
\* A result starts the text anew, if its agent takes it for the whole answer;
\* of gemini the deltas count.
Restarts(s, l) ==
    /\ l.type = "result"
    /\ s.agent = "qoder" \/ (s.agent = "cursor" /\ l.text # <<>>)
TextOf(s, l) ==
    IF s.agent = "gemini" THEN IF l.type = "message" /\ l.delta THEN l.text ELSE <<>>
    ELSE IF l.type \in {"assistant", "message", "result", "unknown"} THEN l.text ELSE <<>>
Tell(s, text, l) == IF Restarts(s, l) THEN l.text ELSE text \o TextOf(s, l)

Told(s) ==
    LET told[i \in 0..Len(s.lines)] ==
            IF i = 0 THEN <<>> ELSE Tell(s, told[i - 1], s.lines[i])
    IN told
Expected == Told(script)[Len(script.lines)]

\* A call that succeeds returns all of the answer, in order, however the five
\* parties interleave, if no line was too long.  Where cursor prints chunks on
\* both pipes there is no order to speak of, and no script does.
NoLongLine == \A i \in DOMAIN script.lines : script.lines[i].type # "long"
AnswerComplete == (answer # None /\ answer.status = "zero" /\ NoLongLine) => answer.text = Expected

\* The channel is closed when both readers are through, so that none of them
\* sends on a closed channel.
NobodySendsAfterClose == closed => \A p \in Pipes : ReaderIs(p, "over")

\* A process that prints a line too long fails or is reported, and a success
\* means that nothing was left out.
SuccessIsComplete == (answer # None /\ answer.status = "zero") => answer.text = Expected

\* The call returns, whatever the process prints and wherever it ends.
StreamEnds == <>(caller = "returned")
=============================================================================
