--------------------------- MODULE ServicesProofs ---------------------------
(***************************************************************************)
(* Theorems about the components of Services, for every value of their     *)
(* constants: the orderly stop (EngineShutdown, with any number of         *)
(* workers, reviews and repositories, at any moment, while requests and    *)
(* rule retries go on), and the components beside it.                      *)
(***************************************************************************)
EXTENDS Services, DispatcherProofs, FiniteSetTheorems, NaturalsInduction, WellFoundedInduction

-----------------------------------------------------------------------------
(* The stop: the inductive invariant *)

\* The stages from which the workers are known to have returned.
JoinedStages == {"joined", "stopped", "ended"}

\* A review that its handler has not queued yet, or that does not exist, is
\* absent from the queue; so each review is queued once.
AbsentInv ==
    \A t \in Reviews :
        /\ t \in handlers => row[t] # "none" /\ Absent(t)
        /\ row[t] = "none" => Absent(t)

\* A review that runs is held by a worker or by the goroutine of a retry.
RunningInv ==
    \A t \in Reviews : row[t] = "running" => t \in detached \/ \E w \in Workers : wtask[w] = t

\* A worker that has returned holds nothing, and the workers are joined when
\* all have returned.
ExitInv ==
    /\ \A w \in exited : wtask[w] = NoTask
    /\ stop \in JoinedStages => exited = Workers

StopInv ==
    /\ TypeOK
    /\ DispatchInv
    /\ AbsentInv
    /\ RunningInv
    /\ ExitInv

LEMMA StagesAre ==
    {Stages[i] : i \in DOMAIN Stages} =
    {"serving", "signalled", "drained", "cancelled", "closed", "joined", "stopped", "ended"}
  BY DEF Stages

-----------------------------------------------------------------------------
(* Steps *)

\* A step that touches neither queue nor dispatcher.
LEMMA DispatchStutter ==
    ASSUME StopInv, UNCHANGED queueVars, UNCHANGED dispatchVars
    PROVE  QueueTypeOK' /\ DispatchTypeOK' /\ DispatchInv' /\ \A t : Absent(t) => Absent(t)'
<1>1. QueueTypeOK' /\ DispatchTypeOK'
  BY DEF StopInv, TypeOK, QueueTypeOK, DispatchTypeOK, queueVars, dispatchVars
<1> QED
  BY <1>1, QueueStutter DEF StopInv, DispatchInv

\* Requests and rule retries.
LEMMA RequestKeeps ==
    ASSUME StopInv, NEW t \in Reviews, Accept(t) \/ QueueAccepted(t) \/ RetryRule(t) \/ DetachedEnds(t)
    PROVE  StopInv'
<1> TypeOK
  BY DEF StopInv
<1>1. UNCHANGED <<stop, exited, dead>> /\ UNCHANGED dispatchVars
  BY DEF Accept, QueueAccepted, RetryRule, DetachedEnds
<1>2. /\ row' \in [Reviews -> {"none", "pending", "running", "settled"}]
      /\ handlers' \subseteq Reviews /\ detached' \subseteq Reviews
  BY DEF TypeOK, Accept, QueueAccepted, RetryRule, DetachedEnds
<1>3. ExitInv'
  BY <1>1 DEF StopInv, ExitInv, dispatchVars
<1>4. RunningInv'
  <2>1. \A u \in Reviews : row'[u] = "running" => u \in detached' \/ (row[u] = "running" /\ u \notin detached)
    BY DEF TypeOK, Accept, QueueAccepted, RetryRule, DetachedEnds
  <2> QED
    BY <1>1, <2>1 DEF StopInv, RunningInv, dispatchVars
<1>5. ASSUME QueueTypeOK', DispatchTypeOK', DispatchInv', AbsentInv'
      PROVE  StopInv'
  BY <1>1, <1>2, <1>3, <1>4, <1>5 DEF StopInv, TypeOK
<1>6. CASE QueueAccepted(t)
  <2>1. t \in handlers /\ Absent(t) /\ row[t] # "none"
    BY <1>6 DEF QueueAccepted, StopInv, AbsentInv
  <2>2. /\ QueueTypeOK' /\ ListInv' /\ CurrentInv' /\ FlightInv' /\ PlaceInv'
        /\ \A u \in Reviews : u # t /\ Absent(u) => Absent(u)'
    <3>1. CASE Enqueue(t)
      BY <1>1, <2>1, <3>1, EnqueueTyped, EnqueueSerial DEF StopInv, TypeOK
    <3>2. CASE /\ known' = known \cup {RepoOf[t]}
               /\ tasks' = [tasks EXCEPT ![RepoOf[t]] = Append(@, t)]
               /\ tasksByID' = tasksByID \cup {t}
               /\ UNCHANGED <<running, currentTaskID, dequeued, taskReady>>
      <4>1. RepoOf[t] \in Repos
        BY RepoOfAssumption
      <4>2. tasks' \in [Repos -> Seq(Reviews)]
        BY <3>2, <4>1 DEF TypeOK, QueueTypeOK
      <4>3. QueueTypeOK'
        BY <3>2, <4>1, <4>2 DEF TypeOK, QueueTypeOK
      <4> QED
        BY <1>1, <2>1, <3>2, <4>3, AppendSerial DEF StopInv
    <3> QED
      BY <1>6, <3>1, <3>2 DEF QueueAccepted
  <2>3. DispatchTypeOK'
    BY <1>1 DEF TypeOK, DispatchTypeOK, dispatchVars
  <2>4. AbsentInv'
    BY <1>6, <2>1, <2>2 DEF QueueAccepted, StopInv, AbsentInv
  <2> QED
    BY <1>5, <2>2, <2>3, <2>4 DEF DispatchInv
<1>7. CASE ~QueueAccepted(t)
  <2>1. UNCHANGED queueVars
    BY <1>7 DEF Accept, RetryRule, DetachedEnds
  <2>2. QueueTypeOK' /\ DispatchTypeOK' /\ DispatchInv' /\ \A u : Absent(u) => Absent(u)'
    BY <1>1, <2>1, DispatchStutter
  <2>3. AbsentInv'
    <3>1. \A u \in Reviews : row'[u] = "none" => row[u] = "none"
      BY <1>7 DEF TypeOK, Accept, RetryRule, DetachedEnds
    <3>2. \A u \in Reviews : u \in handlers' => /\ u \in handlers \/ row[u] = "none"
                                                /\ row'[u] # "none"
      BY <1>7 DEF TypeOK, StopInv, AbsentInv, Accept, RetryRule, DetachedEnds
    <3> QED
      BY <2>2, <3>1, <3>2 DEF StopInv, AbsentInv
  <2> QED
    BY <1>5, <2>2, <2>3
<1> QED
  BY <1>6, <1>7

\* The dispatch loop, which may drop its task when it sees the cancellation.
LEMMA LoopKeeps ==
    ASSUME StopInv, Loop
    PROVE  StopInv'
<1> TypeOK /\ QueueTypeOK /\ DispatchTypeOK /\ DispatchInv
  BY DEF StopInv, TypeOK
<1>1. UNCHANGED stopVars /\ UNCHANGED wtask
  BY DEF Loop, LoopWakes, LoopEnds, LoopDropsTask, AwaitSignal, DequeueTask, QueueDrained, SendTask
<1>2. /\ QueueTypeOK' /\ DispatchTypeOK' /\ ListInv' /\ CurrentInv' /\ FlightInv' /\ PlaceInv'
      /\ \A u \in Reviews : Absent(u) => Absent(u)'
  <2>1. CASE Dispatch
    BY <2>1, DispatchTyped, DispatchSerial
  <2>2. CASE LoopDropsTask \/ LoopEnds \/ (LoopWakes /\ ~AwaitSignal)
    <3>1. /\ UNCHANGED queueVars /\ UNCHANGED taskQueue
          /\ dpc' # "send" /\ dpc' \in {"wait", "dequeue", "send", "gone"}
          /\ dtask' = NoTask
      BY <2>2 DEF LoopDropsTask, LoopEnds, LoopWakes, DispatchTypeOK
    <3>2. QueueTypeOK' /\ DispatchTypeOK'
      BY <1>1, <3>1 DEF QueueTypeOK, DispatchTypeOK, queueVars
    <3>3. \A u : (Occupies(u) => Occupies(u)') /\ (Absent(u) => Absent(u)')
      BY <3>1 DEF Occupies, Absent, queueVars
    <3>4. ListInv' /\ CurrentInv'
      BY <3>1 DEF DispatchInv, ListInv, CurrentInv, queueVars
    <3>5. FlightInv'
      BY <1>1, <3>1, <3>3 DEF DispatchInv, FlightInv
    <3>6. \A i \in 1..Len(taskQueue) : taskQueue[i] \in Reviews
      BY DEF DispatchTypeOK
    <3>7. PlaceInv'
      BY <1>1, <3>1, <3>6, NoTaskAssumption DEF DispatchInv, PlaceInv
    <3> QED
      BY <3>2, <3>3, <3>4, <3>5, <3>7
  <2> QED
    BY <2>1, <2>2 DEF Loop, Dispatch, LoopWakes
<1>3. AbsentInv' /\ RunningInv' /\ ExitInv'
  BY <1>1, <1>2 DEF StopInv, AbsentInv, RunningInv, ExitInv, stopVars
<1> QED
  BY <1>1, <1>2, <1>3 DEF StopInv, TypeOK, DispatchInv, stopVars

\* The workers.
LEMMA WorkerKeeps ==
    ASSUME StopInv, NEW w \in Workers, Worker(w)
    PROVE  StopInv'
<1> TypeOK /\ QueueTypeOK /\ DispatchTypeOK /\ DispatchInv
  BY DEF StopInv, TypeOK
<1>1. UNCHANGED <<stop, handlers, detached, dead>>
  BY DEF Worker, WorkerReturns, WorkerReceives, WorkerSettles, WorkerCompletes, stopVars
<1>2. /\ QueueTypeOK' /\ DispatchTypeOK' /\ DispatchInv'
      /\ \A u \in Reviews : Absent(u) => Absent(u)'
  <2>1. CASE ReceiveTask(w)
    BY <2>1, WorkerTyped, ReceiveSerial DEF DispatchInv
  <2>2. CASE CompleteTask(w)
    BY <2>2, WorkerTyped, CompleteSerial DEF DispatchInv
  <2>3. CASE UNCHANGED queueVars /\ UNCHANGED dispatchVars
    BY <2>3, DispatchStutter
  <2> QED
    BY <2>1, <2>2, <2>3 DEF Worker, WorkerReturns, WorkerReceives, WorkerSettles, WorkerCompletes
<1>3. wtask \in [Workers -> Reviews \cup {NoTask}] /\ row \in [Reviews -> {"none", "pending", "running", "settled"}]
  BY DEF TypeOK, DispatchTypeOK
<1>4. ASSUME /\ row' \in [Reviews -> {"none", "pending", "running", "settled"}]
             /\ \A t \in Reviews : row'[t] = "none" => row[t] = "none"
             /\ \A t \in Reviews : row[t] # "none" => row'[t] # "none",
             exited' \subseteq Workers, RunningInv', ExitInv'
      PROVE  StopInv'
  <2>1. AbsentInv'
    BY <1>1, <1>2, <1>4 DEF StopInv, AbsentInv
  <2> QED
    BY <1>1, <1>2, <1>4, <2>1 DEF StopInv, TypeOK
<1>5. CASE WorkerReturns(w)
  <2>1. /\ UNCHANGED row /\ UNCHANGED wtask /\ exited' = exited \cup {w} /\ wtask[w] = NoTask
    BY <1>5 DEF WorkerReturns, dispatchVars
  <2>2. RunningInv'
    BY <1>1, <2>1 DEF StopInv, RunningInv
  <2>3. ExitInv'
    BY <1>1, <2>1 DEF StopInv, ExitInv, TypeOK
  <2> QED
    BY <1>3, <1>4, <2>1, <2>2, <2>3 DEF TypeOK
<1>6. CASE WorkerReceives(w)
  <2>1. PICK t \in Reviews : t = Head(taskQueue)
    BY <1>6 DEF WorkerReceives, ReceiveTask, DispatchTypeOK
  <2>2. /\ w \notin exited /\ UNCHANGED exited
        /\ wtask[w] = NoTask /\ wtask' = [wtask EXCEPT ![w] = t]
        /\ row' = [row EXCEPT ![t] = IF row[t] = "pending" THEN "running" ELSE row[t]]
    BY <1>6, <2>1 DEF WorkerReceives, ReceiveTask
  <2>3. /\ \A v \in Workers : wtask'[v] = IF v = w THEN t ELSE wtask[v]
        /\ \A u \in Reviews : u # t => row'[u] = row[u]
        /\ row'[t] = "none" <=> row[t] = "none"
    BY <1>3, <2>2
  <2>4. RunningInv'
    <3> SUFFICES ASSUME NEW u \in Reviews, row'[u] = "running"
                 PROVE  u \in detached' \/ \E v \in Workers : wtask'[v] = u
      BY DEF RunningInv
    <3>1. CASE u = t
      BY <2>3, <3>1
    <3>2. CASE u # t
      <4>1. u \in detached \/ \E v \in Workers : wtask[v] = u
        BY <2>3, <3>2 DEF StopInv, RunningInv
      <4> QED
        BY <1>1, <2>2, <2>3, <4>1, NoTaskAssumption
    <3> QED
      BY <3>1, <3>2
  <2>5. ExitInv'
    BY <1>1, <2>2, <2>3 DEF StopInv, ExitInv, TypeOK
  <2>6. row' \in [Reviews -> {"none", "pending", "running", "settled"}]
    BY <1>3, <2>2
  <2>7. \A u \in Reviews : row'[u] = "none" <=> row[u] = "none"
    BY <2>3
  <2> QED
    BY <1>4, <2>2, <2>4, <2>5, <2>6, <2>7 DEF TypeOK
<1>7. CASE WorkerSettles(w)
  <2>1. PICK t \in Reviews : t = wtask[w]
    BY <1>3, <1>7 DEF WorkerSettles
  <2>2. /\ row[t] = "running" /\ row' = [row EXCEPT ![t] = "settled"] /\ UNCHANGED wtask /\ UNCHANGED exited
    BY <1>7, <2>1 DEF WorkerSettles, dispatchVars
  <2>3. \A u \in Reviews : row'[u] = IF u = t THEN "settled" ELSE row[u]
    BY <1>3, <2>2
  <2>4. RunningInv' /\ ExitInv'
    BY <1>1, <2>2, <2>3 DEF StopInv, RunningInv, ExitInv
  <2> QED
    BY <1>3, <1>4, <2>2, <2>3, <2>4 DEF TypeOK
<1>8. CASE WorkerCompletes(w)
  <2>1. PICK t \in Reviews : t = wtask[w]
    BY <1>3, <1>8 DEF WorkerCompletes
  <2>2. /\ row[t] = "settled" \/ t \in detached
        /\ wtask' = [wtask EXCEPT ![w] = NoTask] /\ UNCHANGED row /\ UNCHANGED exited
    BY <1>8, <2>1 DEF WorkerCompletes, CompleteTask, stopVars
  <2>3. \A v \in Workers : wtask'[v] = IF v = w THEN NoTask ELSE wtask[v]
    BY <1>3, <2>2
  <2>4. RunningInv'
    BY <1>1, <2>1, <2>2, <2>3 DEF StopInv, RunningInv
  <2>5. ExitInv'
    BY <1>1, <2>2, <2>3 DEF StopInv, ExitInv, TypeOK
  <2> QED
    BY <1>3, <1>4, <2>2, <2>4, <2>5 DEF TypeOK
<1> QED
  BY <1>5, <1>6, <1>7, <1>8 DEF Worker

\* The stop, and the deaths of the process.
LEMMA StopperKeeps ==
    ASSUME StopInv, Stopper \/ LoopPanics \/ ForcedExit
    PROVE  StopInv'
<1>1. UNCHANGED queueVars /\ UNCHANGED dispatchVars /\ UNCHANGED <<exited, row, handlers, detached>>
  BY DEF Stopper, LoopPanics, ForcedExit
<1>2. QueueTypeOK' /\ DispatchTypeOK' /\ DispatchInv' /\ \A t : Absent(t) => Absent(t)'
  BY <1>1, DispatchStutter
<1>3. /\ stop' \in {"serving", "signalled", "drained", "cancelled", "closed", "joined", "stopped", "ended"}
      /\ dead' \in {"no", "panic", "forced"}
  BY StagesAre DEF StopInv, TypeOK, Stopper, Signal, Drain, Cancel, CloseTaskQueue, JoinWorkers, StopQueue,
                   CloseDatabase, LoopPanics, ForcedExit
<1>4. stop' \in JoinedStages => stop \in JoinedStages \/ exited = Workers
  BY DEF JoinedStages, Stopper, Signal, Drain, Cancel, CloseTaskQueue, JoinWorkers, StopQueue, CloseDatabase,
         LoopPanics, ForcedExit
<1>5. AbsentInv' /\ RunningInv' /\ ExitInv'
  BY <1>1, <1>2, <1>4 DEF StopInv, AbsentInv, RunningInv, ExitInv, dispatchVars
<1> QED
  BY <1>1, <1>2, <1>3, <1>5, StagesAre DEF StopInv, TypeOK

LEMMA NextKeeps == StopInv /\ [Next]_vars => StopInv'
<1> SUFFICES ASSUME StopInv, [Next]_vars PROVE StopInv'
  OBVIOUS
<1>1. CASE UNCHANGED vars
  <2>1. QueueTypeOK' /\ DispatchTypeOK' /\ DispatchInv' /\ \A t : Absent(t) => Absent(t)'
    BY <1>1, DispatchStutter DEF vars
  <2>2. UNCHANGED stopVars /\ UNCHANGED wtask
    BY <1>1 DEF vars, dispatchVars
  <2>3. AbsentInv' /\ RunningInv' /\ ExitInv'
    BY <2>1, <2>2 DEF StopInv, AbsentInv, RunningInv, ExitInv, stopVars
  <2> QED
    BY <2>1, <2>2, <2>3 DEF StopInv, TypeOK, stopVars
<1> QED
  BY <1>1, RequestKeeps, LoopKeeps, WorkerKeeps, StopperKeeps DEF Next

LEMMA InitKeeps == Init => StopInv
<1> SUFFICES ASSUME Init PROVE StopInv
  OBVIOUS
<1>1. TypeOK
  BY StagesAre, SignalCapAssumption, QueueSizeAssumption
  DEF Init, QueueInit, DispatchInit, TypeOK, QueueTypeOK, DispatchTypeOK
<1>2. DispatchInv /\ \A t \in Reviews : Absent(t)
  BY <1>1, NoTaskAssumption, RepoOfAssumption
  DEF TypeOK, Init, QueueInit, DispatchInit, DispatchInv, ListInv, CurrentInv, FlightInv, PlaceInv, Absent
<1>3. AbsentInv /\ RunningInv /\ ExitInv
  BY <1>2 DEF Init, AbsentInv, RunningInv, ExitInv, JoinedStages
<1> QED
  BY <1>1, <1>2, <1>3 DEF StopInv

-----------------------------------------------------------------------------
(* Theorems *)

\* Type correctness while the server stops.
THEOREM TypeCorrect == Spec => []TypeOK
<1>1. StopInv => TypeOK
  BY DEF StopInv
<1> QED
  BY <1>1, InitKeeps, NextKeeps, PTL DEF Spec

\* An orderly stop, whenever it comes, leaves no review running unless a rule
\* retry was at it, and until it is over no two workers are on one repository,
\* also when the loop has dropped a task (dispatcher.go, Stop; engine.go, Stop).
THEOREM OrderlyStop == Spec => []StopIsOrderly
<1>1. StopInv => StopIsOrderly
  <2> SUFFICES ASSUME StopInv PROVE StopIsOrderly
    OBVIOUS
  <2>1. SerialDuringStop
    BY OneTaskPerRepo DEF StopInv, SerialDuringStop
  <2>2. NoneLeftRunning
    <3> SUFFICES ASSUME stop = "ended", NEW t \in Reviews, row[t] = "running"
                 PROVE  t \in detached
      BY DEF NoneLeftRunning
    <3>1. \A w \in Workers : wtask[w] = NoTask
      BY DEF StopInv, ExitInv, JoinedStages
    <3> QED
      BY <3>1, NoTaskAssumption DEF StopInv, RunningInv
  <2> QED
    BY <2>1, <2>2 DEF StopIsOrderly
<1> QED
  BY <1>1, InitKeeps, NextKeeps, PTL DEF Spec

-----------------------------------------------------------------------------
(* Notices *)

\* A call is at one of its steps, with a configuration that was read; its
\* notifier is for the channel of that configuration, if it is a known one.
CallInv(s) ==
    /\ "pc" \in DOMAIN call[s] /\ call[s].pc \in {"idle", "test", "read", "prepare", "send", "answer"}
    /\ call[s].pc \in {"prepare", "send", "answer"} => call[s].cfg \in Configs
    /\ call[s].pc \in {"send", "answer"} =>
          /\ {"cfg", "with"} \subseteq DOMAIN call[s]
          /\ call[s].with.channel \in Notices!Channels
          /\ call[s].cfg.channel \in Notices!Channels => call[s].with.channel = call[s].cfg.channel

\* The notifier at hand is for the channel of the cached configuration, if
\* that is a known one.
NotifierInv ==
    cachedConfig # None /\ cachedConfig.channel \in Notices!Channels =>
        notifier.channel = cachedConfig.channel

NoticeInv ==
    /\ Notices!TypeOK
    /\ DOMAIN call = Senders
    /\ \A s \in Senders : CallInv(s)
    /\ NotifierInv
    /\ NoticesArrive

\* What a Send takes for a success was taken by the service.
LEMMA AcceptedWasTaken ==
    ASSUME NEW c \in Notices!HTTPChannels, NEW r \in Notices!Responses,
           Notices!Accepts(c, r), ~Notices!Codeless(c, r)
    PROVE  Notices!Taken(c, r)
<1>1. CASE c = "feishu" /\ r.body \in {"code zero", "code"}
  BY <1>1 DEF Notices!Accepts, Notices!FeishuAccepts, Notices!Taken
<1>2. CASE ~(c = "feishu" /\ r.body \in {"code zero", "code"})
  <2>1. CASE c = "webhook"
    BY <1>2, <2>1 DEF Notices!Accepts, Notices!WebhookAccepts, Notices!Taken
  <2>2. CASE c = "slack"
    BY <1>2, <2>2 DEF Notices!Accepts, Notices!SlackAccepts, Notices!Taken
  <2>3. CASE c = "feishu"
    <3>1. CASE r.body = "no code"
      BY <1>2, <2>3, <3>1, Zenon DEF Notices!Codeless, Notices!Taken
    <3>2. CASE r.body # "no code"
      <4>1. r.status = 200
        BY <1>2, <2>3, <3>2, Zenon DEF Notices!Accepts, Notices!FeishuAccepts
      <4>2. r.status # 500
        BY <4>1
      <4> QED BY <1>2, <4>2, Zenon DEF Notices!Taken
    <3> QED BY <3>1, <3>2
  <2> QED BY <2>1, <2>2, <2>3 DEF Notices!HTTPChannels
<1> QED BY <1>1, <1>2

LEMMA NoticeInit == Notices!Init => NoticeInv
<1> SUFFICES ASSUME Notices!Init PROVE NoticeInv
  OBVIOUS
<1>1. Notices!TypeOK
  BY ServicesAssumption DEF Notices!Init, Notices!TypeOK, Notices!IsEnabled, Notices!NotifierFor, Notices!Idle
<1>2. DOMAIN call = Senders /\ \A s \in Senders : CallInv(s)
  BY DEF Notices!Init, Notices!Idle, CallInv
<1>3. NotifierInv
  BY DEF Notices!Init, NotifierInv, Notices!IsEnabled, Notices!NotifierFor, Notices!Channels, Notices!HTTPChannels
<1>4. NoticesArrive
  BY DEF Notices!Init, NoticesArrive, Notices!OwnChannel, Notices!AcceptedIsTaken
<1> QED BY <1>1, <1>2, <1>3, <1>4 DEF NoticeInv

\* A step of a sender puts its call where CallInv has it and leaves the calls
\* of the others alone.
LEMMA OnlyOwnCall ==
    ASSUME NoticeInv, NEW s \in Senders, NEW c, Notices!Go(s, c), CallInv(s)'
    PROVE  DOMAIN call' = Senders /\ \A r \in Senders : CallInv(r)'
<1>1. DOMAIN call' = Senders /\ \A r \in Senders \ {s} : call'[r] = call[r]
  BY DEF NoticeInv, Notices!Go
<1>2. ASSUME NEW r \in Senders \ {s} PROVE CallInv(r)'
  BY <1>1, <1>2 DEF NoticeInv, CallInv
<1> QED BY <1>1, <1>2

LEMMA SameNotices ==
    ASSUME NoticeInv, UNCHANGED <<setting, cachedConfig, notifier, sent, calls, changes>>, mishaps' \in 0..MaxFaults,
           DOMAIN call' = Senders, \A s \in Senders : CallInv(s)'
    PROVE  NoticeInv'
<1>1. \A s \in Senders : call'[s].pc \in {"idle", "test", "read", "prepare", "send", "answer"}
  BY DEF CallInv
<1> QED BY <1>1 DEF NoticeInv, Notices!TypeOK, NotifierInv, NoticesArrive, Notices!OwnChannel, Notices!AcceptedIsTaken

LEMMA NoticeStep == NoticeInv /\ [Notices!Next]_(Notices!vars) => NoticeInv'
<1> SUFFICES ASSUME NoticeInv, [Notices!Next]_(Notices!vars) PROVE NoticeInv'
  OBVIOUS
<1> USE DEF Notices!Idle
<1>1. CASE Notices!Change
  <2>1. Notices!TypeOK'
    BY <1>1, ServicesAssumption DEF Notices!Change, NoticeInv, Notices!TypeOK
  <2> QED BY <1>1, <2>1 DEF Notices!Change, NoticeInv, CallInv, NotifierInv, NoticesArrive, Notices!OwnChannel,
             Notices!AcceptedIsTaken
<1>2. ASSUME NEW s \in Senders, NEW e \in Events, Notices!Begin(s, e) PROVE NoticeInv'
  <2>1. CallInv(s)'
    BY <1>2 DEF Notices!Begin, Notices!Go, NoticeInv, CallInv
  <2>2. Notices!TypeOK'
    BY <1>2, ServicesAssumption DEF Notices!Begin, Notices!Go, NoticeInv, Notices!TypeOK
  <2> QED BY <1>2, <2>1, <2>2, OnlyOwnCall DEF Notices!Begin, NoticeInv, NotifierInv, NoticesArrive,
             Notices!OwnChannel, Notices!AcceptedIsTaken
<1>3. ASSUME NEW s \in Senders, Notices!TestNotification(s) \/ Notices!Send(s) \/ Notices!Timeout(s)
      PROVE  NoticeInv'
  <2>1. CallInv(s)'
    <3>1. CASE Notices!TestNotification(s)
      BY <3>1 DEF Notices!TestNotification, Notices!Go, NoticeInv, CallInv
    <3>2. CASE Notices!Send(s)
      BY <3>2 DEF Notices!Send, Notices!Go, NoticeInv, CallInv
    <3>3. CASE Notices!Timeout(s)
      BY <3>3 DEF Notices!Timeout, Notices!Go, NoticeInv, CallInv
    <3> QED BY <1>3, <3>1, <3>2, <3>3
  <2>2. PICK c : Notices!Go(s, c)
    BY <1>3 DEF Notices!TestNotification, Notices!Send, Notices!Timeout
  <2>3. DOMAIN call' = Senders /\ \A r \in Senders : CallInv(r)'
    BY <2>1, <2>2, OnlyOwnCall
  <2>4. UNCHANGED <<setting, cachedConfig, notifier, sent, calls, changes>> /\ mishaps' \in 0..MaxFaults
    BY <1>3, ServicesAssumption DEF Notices!TestNotification, Notices!Send, Notices!Timeout, Notices!Fault, NoticeInv,
       Notices!TypeOK
  <2> QED BY <2>3, <2>4, SameNotices DEF NoticeInv
<1>4. ASSUME NEW s \in Senders, Notices!ReadConfig(s) PROVE NoticeInv'
  <2>1. CallInv(s)'
    BY <1>4 DEF Notices!ReadConfig, Notices!IsEnabled, Notices!Go, NoticeInv, Notices!TypeOK, CallInv
  <2>2. PICK c : Notices!Go(s, c)
    BY <1>4 DEF Notices!ReadConfig
  <2>3. DOMAIN call' = Senders /\ \A r \in Senders : CallInv(r)'
    BY <2>1, <2>2, OnlyOwnCall
  <2>4. UNCHANGED <<setting, cachedConfig, notifier, sent, calls, changes>> /\ mishaps' \in 0..MaxFaults
    BY <1>4, ServicesAssumption DEF Notices!ReadConfig, Notices!Fault, NoticeInv, Notices!TypeOK
  <2> QED BY <2>3, <2>4, SameNotices DEF NoticeInv
<1>5. ASSUME NEW s \in Senders, Notices!Prepare(s) PROVE NoticeInv'
  <2> DEFINE cfg == call[s].cfg
             new == IF Notices!Reusable(cfg) THEN notifier ELSE Notices!NotifierFor(cfg, notifier)
  <2>1. /\ cfg \in Configs
        /\ notifier' = new /\ cachedConfig' = IF Notices!Reusable(cfg) THEN cachedConfig ELSE cfg
        /\ Notices!Go(s, IF new = None THEN Notices!Idle
                         ELSE [pc |-> "send", cfg |-> cfg, with |-> new, event |-> call[s].event, id |-> call[s].id])
        /\ UNCHANGED <<setting, sent, calls, changes, mishaps>>
    BY <1>5 DEF Notices!Prepare, NoticeInv, CallInv
  <2>2. cfg.channel \in Notices!Channels => new.channel = cfg.channel
    BY DEF NoticeInv, NotifierInv, Notices!Reusable, Notices!NotifierFor
  <2>3. new = None \/ new.channel \in Notices!Channels
    BY DEF NoticeInv, Notices!TypeOK, Notices!NotifierFor
  <2>4. CallInv(s)'
    <3>1. CASE new = None
      BY <2>1, <3>1 DEF Notices!Go, NoticeInv, CallInv
    <3>2. CASE new # None
      <4>1. call'[s] = [pc |-> "send", cfg |-> cfg, with |-> new, event |-> call[s].event, id |-> call[s].id]
        BY <2>1, <3>2 DEF Notices!Go, NoticeInv
      <4> QED BY <2>1, <2>2, <2>3, <3>2, <4>1 DEF CallInv
    <3> QED BY <3>1, <3>2
  <2>5. DOMAIN call' = Senders /\ \A r \in Senders : CallInv(r)'
    BY <2>1, <2>4, OnlyOwnCall
  <2>6. NotifierInv'
    BY <2>1, <2>2 DEF NotifierInv, NoticeInv, Notices!Reusable
  <2>7. Notices!TypeOK'
    <3>1. \A r \in Senders : call'[r].pc \in {"idle", "test", "read", "prepare", "send", "answer"}
      BY <2>5 DEF CallInv
    <3> QED BY <2>1, <2>3, <3>1 DEF NoticeInv, Notices!TypeOK
  <2> QED BY <2>1, <2>5, <2>6, <2>7 DEF NoticeInv, NoticesArrive, Notices!OwnChannel, Notices!AcceptedIsTaken
<1>6. ASSUME NEW s \in Senders, Notices!HTTPAnswer(s) \/ Notices!MailAnswer(s) PROVE NoticeInv'
  <2>1. PICK r, accepted : /\ Notices!Report(s, r, accepted)
                           /\ (accepted /\ ~Notices!Codeless(call[s].with.channel, r)) => Notices!Taken(call[s].with.channel, r)
    <3>1. CASE Notices!HTTPAnswer(s)
      <4>1. PICK r \in Notices!Responses : Notices!Report(s, r, Notices!Accepts(call[s].with.channel, r))
        BY <3>1 DEF Notices!HTTPAnswer
      <4>2. call[s].with.channel \in Notices!HTTPChannels
        BY <3>1 DEF Notices!HTTPAnswer
      <4> QED BY <4>1, <4>2, AcceptedWasTaken
    <3>2. CASE Notices!MailAnswer(s)
      <4>1. call[s].with.channel = "email"
        BY <3>2 DEF Notices!MailAnswer
      <4>2. Notices!Taken("email", [status |-> 200, body |-> "ok"])
        BY DEF Notices!Taken
      <4> QED BY <3>2, <4>1, <4>2 DEF Notices!MailAnswer
    <3> QED BY <1>6, <3>1, <3>2
  <2>2. /\ Notices!Go(s, Notices!Idle)
        /\ UNCHANGED <<setting, cachedConfig, notifier, calls, changes, mishaps>>
        /\ call[s].pc = "answer"
    BY <1>6, <2>1 DEF Notices!HTTPAnswer, Notices!MailAnswer, Notices!Report
  <2>3. DOMAIN call' = Senders /\ \A t \in Senders : CallInv(t)'
    <3>1. CallInv(s)'
      BY <2>2 DEF Notices!Go, NoticeInv, CallInv
    <3> QED BY <2>2, <3>1, OnlyOwnCall
  <2>4. ASSUME NEW n \in sent'
        PROVE  /\ n.read.channel \in Notices!Channels => n.via.channel = n.read.channel
               /\ (n.accepted /\ ~n.codeless) => n.taken
    <3>1. CASE n \in sent
      BY <3>1 DEF NoticeInv, NoticesArrive, Notices!OwnChannel, Notices!AcceptedIsTaken
    <3>2. CASE n \notin sent
      <4>1. n = [id |-> call[s].id, via |-> call[s].with, read |-> call[s].cfg, accepted |-> accepted,
                 taken |-> Notices!Taken(call[s].with.channel, r),
                 codeless |-> Notices!Codeless(call[s].with.channel, r)]
        BY <2>1, <3>2 DEF Notices!Report
      <4> QED BY <2>1, <2>2, <4>1 DEF NoticeInv, CallInv
    <3> QED BY <3>1, <3>2
  <2>5. NoticesArrive'
    BY <2>4 DEF NoticesArrive, Notices!OwnChannel, Notices!AcceptedIsTaken
  <2>6. Notices!TypeOK' /\ NotifierInv'
    BY <2>2, <2>3 DEF NoticeInv, CallInv, Notices!TypeOK, NotifierInv
  <2> QED BY <2>3, <2>5, <2>6 DEF NoticeInv
<1>7. CASE UNCHANGED Notices!vars
  BY <1>7, SameNotices DEF Notices!vars, NoticeInv, Notices!TypeOK, CallInv
<1> QED BY <1>1, <1>2, <1>3, <1>4, <1>5, <1>6, <1>7 DEF Notices!Next, Notices!Notify

\* What the whole specification does to notices.
LEMMA ServicesNotices == ServicesSpec => Notices!Init /\ [][Notices!Next]_(Notices!vars)
<1>1. ServicesInit => Notices!Init
  BY DEF ServicesInit
<1>2. [ServicesNext]_allVars => [Notices!Next]_(Notices!vars)
  BY DEF ServicesNext, allVars, noticeVars, Notices!vars
<1> QED BY <1>1, <1>2, PTL DEF ServicesSpec

\* A notice goes out over the channel of the configuration its own call has
\* read, whatever channels other senders use at the same time, and one that
\* counts as delivered was taken by the service
\* (notification/notifier.go, webhook.go, slack.go, feishu.go, email.go).
THEOREM NoticesAreRight == ServicesSpec => []NoticesArrive
<1>1. NoticeInv => NoticesArrive
  BY DEF NoticeInv
<1> QED BY <1>1, NoticeInit, NoticeStep, ServicesNotices, PTL

-----------------------------------------------------------------------------
(* The lines of a task *)

Rank(n, S) == Cardinality({m \in S : m < n})

LEMMA SameCardinality == ASSUME NEW S PROVE Logs!Cardinality(S) = Cardinality(S)
BY DEF Logs!Cardinality, Cardinality, Logs!IsFiniteSet, IsFiniteSet

\* The ranks of a finite set of numbers are 0, 1, 2, ..., each once, so that
\* InOrder lists it without a repetition, the smaller numbers first.
LEMMA RankIsStrict ==
    ASSUME NEW S, IsFiniteSet(S), S \subseteq Nat, NEW m \in S, NEW n \in S, m < n
    PROVE  Rank(m, S) < Rank(n, S)
<1> DEFINE A == {k \in S : k < m}
           B == {k \in S : k < n}
<1>0. \A k \in S : k \in Nat
  OBVIOUS
<1>1. A \subseteq B /\ m \in B /\ m \notin A
  <2>1. ASSUME NEW k \in S, k < m PROVE k < n
    BY <1>0, <2>1
  <2>2. ~(m < m)
    BY <1>0
  <2> QED BY <2>1, <2>2
<1>2. IsFiniteSet(B) /\ IsFiniteSet(A)
  BY FS_Subset, B \in SUBSET S, A \in SUBSET S
<1>3. Cardinality(A) \in Int /\ Cardinality(B) \in Int
  BY <1>2, FS_CardinalityType
<1>4. Cardinality(A) <= Cardinality(B) /\ Cardinality(A) # Cardinality(B)
  BY <1>1, <1>2, FS_Subset, A \in SUBSET B
<1> QED BY <1>3, <1>4 DEF Rank

LEMMA RankIsOne ==
    ASSUME NEW S, IsFiniteSet(S), S \subseteq Nat, NEW m \in S, NEW n \in S, Rank(m, S) = Rank(n, S)
    PROVE  m = n
<1>1. Rank(m, S) \in Int /\ Rank(n, S) \in Int
  BY FS_Subset, FS_CardinalityType, {k \in S : k < m} \in SUBSET S, {k \in S : k < n} \in SUBSET S DEF Rank
<1>2. m < n => Rank(m, S) < Rank(n, S)
  BY RankIsStrict
<1>3. n < m => Rank(n, S) < Rank(m, S)
  BY RankIsStrict
<1>4. m \in Nat /\ n \in Nat
  OBVIOUS
<1> QED BY <1>1, <1>2, <1>3, <1>4

LEMMA RankIsBelow ==
    ASSUME NEW S, IsFiniteSet(S), S \subseteq Nat, NEW n \in S
    PROVE  Rank(n, S) \in 0..(Cardinality(S) - 1)
<1> DEFINE A == {k \in S : k < n}
<1>1. A \in SUBSET S /\ A # S
  OBVIOUS
<1>2. IsFiniteSet(A) /\ Cardinality(A) <= Cardinality(S) /\ Cardinality(A) # Cardinality(S)
  BY <1>1, FS_Subset
<1>3. Cardinality(A) \in Nat /\ Cardinality(S) \in Nat
  BY <1>2, FS_CardinalityType
<1> QED BY <1>2, <1>3 DEF Rank

LEMMA RankIsOnto ==
    ASSUME NEW S, IsFiniteSet(S), S \subseteq Nat, NEW i \in 0..(Cardinality(S) - 1)
    PROVE  \E n \in S : Rank(n, S) = i
<1> DEFINE T == 0..(Cardinality(S) - 1)
           f == [n \in S |-> Rank(n, S)]
<1>1. Cardinality(S) \in Nat
  BY FS_CardinalityType
<1>2. IsFiniteSet(T) /\ Cardinality(T) = Cardinality(S)
  <2>1. 0 \in Int /\ Cardinality(S) - 1 \in Int
    BY <1>1
  <2>2. IsFiniteSet(T) /\ Cardinality(T) = IF 0 > Cardinality(S) - 1 THEN 0 ELSE Cardinality(S) - 1 - 0 + 1
    BY <2>1, FS_Interval
  <2> QED BY <1>1, <2>2
<1>3. f \in [S -> T]
  BY RankIsBelow
<1>4. \A m, n \in S : f[m] = f[n] => m = n
  BY RankIsOne
<1>5. f \in Injection(S, T)
  BY <1>3, <1>4 DEF Injection, IsInjective
<1>6. f \in Surjection(S, T)
  BY <1>2, <1>5, FS_Injection
<1>7. \E n \in S : f[n] = i
  BY <1>6 DEF Surjection
<1> QED BY <1>7

LEMMA InOrderIs ==
    ASSUME NEW S, IsFiniteSet(S), S \subseteq Nat, NEW i \in 1..Cardinality(S)
    PROVE  Logs!InOrder(S)[i] \in S /\ Rank(Logs!InOrder(S)[i], S) = i - 1
<1>1. Cardinality(S) \in Nat
  BY FS_CardinalityType
<1>2. i - 1 \in 0..(Cardinality(S) - 1)
  BY <1>1
<1>3. \E n \in S : Rank(n, S) = i - 1
  BY <1>2, RankIsOnto
<1>4. Logs!InOrder(S)[i] = CHOOSE n \in S : Rank(n, S) = i - 1
  BY SameCardinality DEF Logs!InOrder, Rank
<1> QED BY <1>3, <1>4

LEMMA InOrderLists ==
    ASSUME NEW S, IsFiniteSet(S), S \subseteq Nat
    PROVE  Logs!InOrder(S) \in Seq(S) /\ Len(Logs!InOrder(S)) = Cardinality(S)
<1> DEFINE s == Logs!InOrder(S)
<1>1. Cardinality(S) \in Nat
  BY FS_CardinalityType
<1>2. PICK f : f = [i \in 1..Cardinality(S) |-> CHOOSE n \in S : Logs!Cardinality({m \in S : m < n}) = i - 1]
  OBVIOUS
<1>3. s = f
  BY <1>2, SameCardinality DEF Logs!InOrder
<1>4. ASSUME NEW i \in 1..Cardinality(S)
      PROVE  (CHOOSE n \in S : Logs!Cardinality({m \in S : m < n}) = i - 1) \in S
  <2>1. s[i] \in S
    BY InOrderIs
  <2>2. f[i] \in S
    BY <1>3, <2>1
  <2> QED BY <1>2, <2>2
<1> HIDE DEF s
<1>5. f \in [1..Cardinality(S) -> S]
  BY <1>2, <1>4
<1>6. f \in Seq(S) /\ Len(f) = Cardinality(S)
  <2> HIDE <1>2, <1>3
  <2> QED BY <1>1, <1>5
<1> QED BY <1>3, <1>6 DEF s

\* Numbers that come after the first k of a set leave these as they are.
LEMMA PrefixStays ==
    ASSUME NEW S, NEW T, IsFiniteSet(T), T \subseteq Nat, S \subseteq T, NEW i \in 1..Cardinality(S),
           \A m \in T \ S : m > Logs!InOrder(S)[i]
    PROVE  i \in 1..Cardinality(T) /\ Logs!InOrder(T)[i] = Logs!InOrder(S)[i]
<1> DEFINE n == Logs!InOrder(S)[i]
<1>1. IsFiniteSet(S) /\ Cardinality(S) <= Cardinality(T)
  BY FS_Subset, S \in SUBSET T
<1>2. Cardinality(S) \in Nat /\ Cardinality(T) \in Nat
  BY <1>1, FS_CardinalityType
<1>3. i \in 1..Cardinality(T)
  BY <1>1, <1>2
<1>4. n \in S /\ Rank(n, S) = i - 1
  BY <1>1, InOrderIs
<1>5. {m \in T : m < n} = {m \in S : m < n}
  <2>1. n \in Nat /\ \A m \in T : m \in Nat
    BY <1>4
  <2>2. ASSUME NEW m \in T, m < n PROVE m \in S
    BY <2>1, <2>2
  <2> QED BY <2>2
<1>6. Rank(n, T) = i - 1
  BY <1>4, <1>5 DEF Rank
<1>7. Logs!InOrder(T)[i] \in T /\ Rank(Logs!InOrder(T)[i], T) = i - 1
  BY <1>3, InOrderIs
<1>8. Logs!InOrder(T)[i] = n
  BY <1>4, <1>6, <1>7, RankIsOne
<1> QED BY <1>3, <1>8

\* EachLineOnce, place by place: what is on its way is in the buffer or in a
\* batch, the rest has arrived or is lost.
OnceInv ==
    LET waiting == Logs!ToSet(buffer) \cup UNION batches IN
    /\ Logs!Captured = waiting \cup stored \cup lost \cup deleted
    /\ Logs!ToSet(buffer) \cap UNION batches = {}
    /\ waiting \cap (stored \cup lost \cup deleted) = {}
    /\ stored \cap lost = {} /\ stored \cap deleted = {} /\ lost \cap deleted = {}
    /\ \A i, j \in 1..Len(buffer) : buffer[i] = buffer[j] => i = j
    /\ \A a, b \in batches : a # b => a \cap b = {}

\* The rows of the task that is read, and what a client that was not overtaken
\* has of them: the first ones; whatever is captured before the last of them is
\* stored, so that no row will come to stand in front of it; and all its pages
\* were full.
Rows == {n \in stored : TaskOf[n] = ReadTask}
Size == Logs!PageSize(AskedSize)
FirstLinesRead ==
    /\ Len(pages) <= Cardinality(Rows)
    /\ \A i \in 1..Len(pages) : pages[i] = Logs!InOrder(Rows)[i]
    /\ \A m \in Logs!Captured, i \in 1..Len(pages) : m < pages[i] => m \in stored
    /\ nextPage > 0 => Len(pages) = (nextPage - 1) * Size
PagesInv == (steady /\ deleted = {}) => FirstLinesRead

LogInv == Logs!TypeOK /\ OnceInv /\ PagesInv

LEMMA FivePlaces ==
    ASSUME NEW A, NEW B, NEW C, NEW D, NEW E
    PROVE  Logs!ToSet(<<A, B, C, D, E>>) = {A, B, C, D, E}
<1> DEFINE places == <<A, B, C, D, E>>
<1>1. DOMAIN places = {1, 2, 3, 4, 5} /\ places[1] = A /\ places[2] = B /\ places[3] = C
      /\ places[4] = D /\ places[5] = E
  OBVIOUS
<1> HIDE DEF places
<1>2. {places[i] : i \in {1, 2, 3, 4, 5}} = {A, B, C, D, E}
  BY <1>1
<1> QED BY <1>1, <1>2, Zenon DEF Logs!ToSet, places

LEMMA OnceIsOnce == Logs!TypeOK /\ OnceInv => Logs!EachLineOnce
<1> SUFFICES ASSUME Logs!TypeOK, OnceInv PROVE Logs!EachLineOnce
  OBVIOUS
<1> DEFINE places == <<Logs!ToSet(buffer), UNION batches, stored, lost, deleted>>
<1>1. DOMAIN places = 1..5 /\ 1..5 = {1, 2, 3, 4, 5}
  OBVIOUS
<1>2. Logs!ToSet(places) = {Logs!ToSet(buffer), UNION batches, stored, lost, deleted}
  <2>1. PICK A, B : A = Logs!ToSet(buffer) /\ B = UNION batches
    OBVIOUS
  <2>2. Logs!ToSet(<<A, B, stored, lost, deleted>>) = {A, B, stored, lost, deleted}
    BY FivePlaces
  <2> QED BY <2>1, <2>2
<1>3. Logs!Captured = UNION Logs!ToSet(places)
  <2>1. UNION Logs!ToSet(places) = Logs!ToSet(buffer) \cup (UNION batches) \cup stored \cup lost \cup deleted
    BY <1>2
  <2> QED BY <2>1 DEF OnceInv
<1>4. \A i, j \in DOMAIN places : i # j => places[i] \cap places[j] = {}
  <2>1. /\ places[1] = Logs!ToSet(buffer) /\ places[2] = UNION batches /\ places[3] = stored
        /\ places[4] = lost /\ places[5] = deleted
    OBVIOUS
  <2> HIDE DEF places
  <2>2. /\ places[1] \cap places[2] = {} /\ places[1] \cap places[3] = {} /\ places[1] \cap places[4] = {}
        /\ places[1] \cap places[5] = {} /\ places[2] \cap places[3] = {} /\ places[2] \cap places[4] = {}
        /\ places[2] \cap places[5] = {} /\ places[3] \cap places[4] = {} /\ places[3] \cap places[5] = {}
        /\ places[4] \cap places[5] = {}
    BY <2>1 DEF OnceInv
  <2>3. \A A, B : A \cap B = B \cap A
    OBVIOUS
  <2> QED BY <1>1, <2>2, <2>3
<1>5. Logs!IsInjective(buffer)
  <2>1. DOMAIN buffer = 1..Len(buffer)
    BY DEF Logs!TypeOK
  <2> QED BY <2>1 DEF OnceInv, Logs!IsInjective
<1> QED BY <1>3, <1>4, <1>5 DEF OnceInv, Logs!EachLineOnce

LEMMA LogInit == Logs!Init => LogInv
<1> SUFFICES ASSUME Logs!Init PROVE LogInv
  OBVIOUS
<1>1. Logs!TypeOK
  BY LogsAssumption DEF Logs!Init, Logs!TypeOK
<1>2. OnceInv
  <2>1. Logs!ToSet(buffer) = {} /\ UNION batches = {} /\ Logs!Captured = {} /\ Len(buffer) = 0
    BY DEF Logs!Init, Logs!ToSet, Logs!Captured
  <2> QED BY <2>1 DEF Logs!Init, OnceInv
<1>3. FirstLinesRead
  <2>1. Rows = {} /\ Len(pages) = 0 /\ nextPage = 1
    BY DEF Logs!Init, Rows
  <2>2. Cardinality(Rows) = 0
    BY <2>1, FS_EmptySet
  <2>3. Size \in Int
    BY LogsAssumption DEF Size, Logs!PageSize
  <2> QED BY <2>1, <2>2, <2>3 DEF FirstLinesRead
<1> QED BY <1>1, <1>2, <1>3 DEF LogInv, PagesInv

\* Rows that arrive stand behind those a client has read, unless it was
\* overtaken: what was captured before those is stored already.
LEMMA PagesStay ==
    ASSUME LogInv, Logs!TypeOK', OnceInv', UNCHANGED Logs!readVars, clock' >= clock,
           deleted \subseteq deleted', stored \subseteq stored'
    PROVE  PagesInv'
<1> SUFFICES ASSUME steady, deleted' = {} PROVE FirstLinesRead'
  BY DEF PagesInv, Logs!readVars
<1>1. FirstLinesRead /\ pages' = pages /\ nextPage' = nextPage
  BY DEF LogInv, PagesInv, Logs!readVars
<1>2. IsFiniteSet(Rows) /\ IsFiniteSet(Rows') /\ Rows' \subseteq Nat /\ Rows \subseteq Rows' /\ Rows \subseteq stored
  <2>1. IsFiniteSet(1..Lines)
    BY LogsAssumption, FS_Interval
  <2>2. Rows \in SUBSET (1..Lines) /\ Rows' \in SUBSET (1..Lines)
    BY DEF LogInv, Logs!TypeOK, Logs!Line, Rows
  <2> QED BY <2>1, <2>2, FS_Subset, LogsAssumption DEF Rows
<1>3. Cardinality(Rows) \in Nat
  BY <1>2, FS_CardinalityType
<1>4. Len(pages) \in Nat /\ clock \in Nat /\ clock' \in Nat
  BY DEF LogInv, Logs!TypeOK
<1>5. ASSUME NEW i \in 1..Len(pages) PROVE i \in 1..Cardinality(Rows) /\ pages[i] \in Rows
  <2>1. i \in 1..Cardinality(Rows)
    BY <1>1, <1>3, <1>4 DEF FirstLinesRead
  <2> QED BY <1>1, <1>2, <2>1, InOrderIs DEF FirstLinesRead
<1>6. stored \subseteq Logs!Captured /\ stored' \subseteq Logs!Captured'
  BY DEF LogInv, OnceInv
<1>7. ASSUME NEW i \in 1..Len(pages), NEW m \in Logs!Captured', m < pages[i] PROVE m \in stored
  <2>1. pages[i] \in 1..clock
    BY <1>2, <1>5, <1>6 DEF Logs!Captured
  <2>2. m \in Logs!Captured
    BY <1>4, <1>7, <2>1 DEF Logs!Captured
  <2> QED BY <1>1, <1>7, <2>2 DEF FirstLinesRead
<1>8. ASSUME NEW i \in 1..Len(pages) PROVE i \in 1..Cardinality(Rows') /\ pages[i] = Logs!InOrder(Rows')[i]
  <2>1. i \in 1..Cardinality(Rows) /\ pages[i] \in Rows /\ pages[i] = Logs!InOrder(Rows)[i]
    BY <1>1, <1>5 DEF FirstLinesRead
  <2>2. ASSUME NEW m \in Rows' \ Rows PROVE m > pages[i]
    <3>1. m \in Logs!Captured' /\ m \notin stored
      BY <1>6 DEF Rows
    <3>2. ~(m < pages[i]) /\ m # pages[i]
      BY <1>7, <2>1, <3>1
    <3>3. m \in Nat /\ pages[i] \in Nat
      BY <1>2, <2>1
    <3> QED BY <3>2, <3>3
  <2>3. \A m \in Rows' \ Rows : m > Logs!InOrder(Rows)[i]
    BY <2>1, <2>2
  <2>4. PICK T : T = Rows'
    OBVIOUS
  <2>5. PICK S : S = Rows
    OBVIOUS
  <2>6. i \in 1..Cardinality(T) /\ Logs!InOrder(T)[i] = Logs!InOrder(S)[i]
    <3>1. IsFiniteSet(T) /\ T \subseteq Nat /\ S \subseteq T /\ i \in 1..Cardinality(S)
      BY <1>2, <2>1, <2>4, <2>5
    <3>2. \A m \in T \ S : m > Logs!InOrder(S)[i]
      BY <2>3, <2>4, <2>5
    <3> HIDE <2>4, <2>5
    <3> QED BY <3>1, <3>2, PrefixStays
  <2> QED BY <2>1, <2>4, <2>5, <2>6
<1>9. Len(pages) <= Cardinality(Rows')
  <2>1. Cardinality(Rows) <= Cardinality(Rows') /\ Cardinality(Rows') \in Nat
    BY <1>2, FS_Subset, FS_CardinalityType, Rows \in SUBSET Rows'
  <2> QED BY <1>1, <1>3, <1>4, <2>1 DEF FirstLinesRead
<1>10. Size' = Size
  BY DEF Size, Logs!PageSize
<1> QED BY <1>1, <1>7, <1>8, <1>9, <1>10 DEF FirstLinesRead

\* A buffer that is handed over is, as one batch, as much on its way as before,
\* and apart from the other batches.
LEMMA FlushMoves ==
    ASSUME NEW b \in Seq(Logs!Line), Logs!flushLocked(b), Logs!TypeOK, OnceInv,
           Logs!ToSet(b) \cap UNION batches = {}
    PROVE  /\ buffer' = <<>> /\ Logs!ToSet(buffer') = {}
           /\ UNION batches' = (UNION batches) \cup Logs!ToSet(b)
           /\ batches' \subseteq SUBSET Logs!Line
           /\ \A c, d \in batches' : c # d => c \cap d = {}
<1>1. buffer' = <<>> /\ Logs!ToSet(buffer') = {}
  BY DEF Logs!flushLocked, Logs!ToSet
<1>2. CASE b = <<>>
  <2>1. batches' = batches /\ Logs!ToSet(b) = {}
    BY <1>2 DEF Logs!flushLocked, Logs!ToSet
  <2> QED BY <1>1, <2>1 DEF OnceInv, Logs!TypeOK
<1>3. CASE b # <<>>
  <2>1. batches' = batches \cup {Logs!ToSet(b)}
    BY <1>3 DEF Logs!flushLocked
  <2>2. Logs!ToSet(b) \subseteq Logs!Line
    BY DEF Logs!ToSet
  <2>3. ASSUME NEW c \in batches PROVE c \cap Logs!ToSet(b) = {}
    OBVIOUS
  <2>4. ASSUME NEW c \in batches', NEW d \in batches', c # d PROVE c \cap d = {}
    <3>1. CASE c \in batches /\ d \in batches
      BY <2>4, <3>1 DEF OnceInv
    <3>2. CASE c \in batches /\ d = Logs!ToSet(b)
      BY <2>3, <3>2
    <3>3. CASE d \in batches /\ c = Logs!ToSet(b)
      <4>1. d \cap Logs!ToSet(b) = {}
        BY <2>3, <3>3
      <4> QED BY <3>3, <4>1
    <3> QED BY <2>1, <2>4, <3>1, <3>2, <3>3
  <2>5. UNION batches' = (UNION batches) \cup Logs!ToSet(b)
    BY <2>1
  <2> QED BY <1>1, <2>1, <2>2, <2>4, <2>5 DEF Logs!TypeOK
<1> QED BY <1>2, <1>3

LEMMA LogKeeps == LogInv /\ Logs!Log => LogInv'
<1> SUFFICES ASSUME LogInv, Logs!Log PROVE LogInv'
  OBVIOUS
<1> DEFINE n == clock'
           b == Append(buffer, n)
<1>1. /\ clock \in 0..Lines /\ clock' = clock + 1 /\ n \in Logs!Line
      /\ UNCHANGED <<stored, lost, deleted, hook, closedAt, db, Logs!readVars>>
  BY LogsAssumption DEF LogInv, Logs!TypeOK, Logs!Log, Logs!Line
<1>2. CASE TaskOf[n] = NoTask
  <2>1. UNCHANGED <<buffer, batches>>
    BY <1>2 DEF Logs!Log
  <2>2. Logs!TypeOK'
    BY <1>1, <2>1 DEF LogInv, Logs!TypeOK, Logs!readVars, Logs!Line
  <2>3. Logs!Captured' = Logs!Captured
    BY <1>1, <1>2 DEF Logs!Captured
  <2>4. OnceInv'
    BY <1>1, <2>1, <2>3 DEF LogInv, OnceInv, Logs!ToSet
  <2> QED BY <1>1, <2>2, <2>4, PagesStay DEF LogInv
<1>3. CASE TaskOf[n] # NoTask
  <2>1. Logs!Captured' = Logs!Captured \cup {n} /\ n \notin Logs!Captured
    BY <1>1, <1>3 DEF Logs!Captured
  <2>2. buffer \in Seq(Logs!Line) /\ Len(buffer) \in Nat /\ bufferSize \in Nat /\ Len(buffer) < bufferSize
    BY LogsAssumption DEF LogInv, Logs!TypeOK
  <2>3. b \in Seq(Logs!Line) /\ Len(b) = Len(buffer) + 1 /\ b[Len(buffer) + 1] = n
        /\ \A i \in 1..Len(buffer) : b[i] = buffer[i]
    BY <1>1, <2>2
  <2>4. Logs!ToSet(b) = Logs!ToSet(buffer) \cup {n}
    <3>1. DOMAIN b = DOMAIN buffer \cup {Len(buffer) + 1} /\ DOMAIN buffer = 1..Len(buffer)
      BY <2>2, <2>3
    <3> HIDE DEF b
    <3> QED BY <2>3, <3>1 DEF Logs!ToSet
  <2>5. n \notin Logs!ToSet(buffer) \cup (UNION batches) \cup stored \cup lost \cup deleted
    BY <2>1 DEF LogInv, OnceInv
  <2>6. Logs!ToSet(b) \cap UNION batches = {}
    BY <2>4, <2>5 DEF LogInv, OnceInv
  <2>7. CASE Len(b) >= bufferSize
    <3>1. Logs!flushLocked(b)
      BY <1>3, <2>7 DEF Logs!Log
    <3>2. /\ buffer' = <<>> /\ Logs!ToSet(buffer') = {}
          /\ UNION batches' = (UNION batches) \cup Logs!ToSet(b)
          /\ batches' \subseteq SUBSET Logs!Line
          /\ \A c, d \in batches' : c # d => c \cap d = {}
      BY <2>3, <2>6, <3>1, FlushMoves DEF LogInv
    <3>3. Logs!TypeOK'
      BY <1>1, <3>2, LogsAssumption DEF LogInv, Logs!TypeOK, Logs!readVars, Logs!Line
    <3>4. OnceInv'
      <4>1. Logs!Captured' = Logs!ToSet(buffer') \cup (UNION batches') \cup stored' \cup lost' \cup deleted'
        BY <1>1, <2>1, <2>4, <3>2 DEF LogInv, OnceInv
      <4>2. (UNION batches') \cap (stored' \cup lost' \cup deleted') = {}
        BY <1>1, <2>4, <2>5, <3>2 DEF LogInv, OnceInv
      <4> QED BY <1>1, <3>2, <4>1, <4>2 DEF LogInv, OnceInv
    <3> QED BY <1>1, <3>3, <3>4, PagesStay DEF LogInv
  <2>8. CASE ~(Len(b) >= bufferSize)
    <3>1. buffer' = b /\ batches' = batches
      BY <1>3, <2>8 DEF Logs!Log
    <3>2. Logs!TypeOK'
      BY <1>1, <2>2, <2>3, <2>8, <3>1 DEF LogInv, Logs!TypeOK, Logs!readVars, Logs!Line
    <3>3. OnceInv'
      <4>1. Logs!Captured' = Logs!ToSet(b) \cup (UNION batches) \cup stored \cup lost \cup deleted
        BY <2>1, <2>4 DEF LogInv, OnceInv
      <4>2. (Logs!ToSet(b) \cup UNION batches) \cap (stored \cup lost \cup deleted) = {}
        BY <2>4, <2>5 DEF LogInv, OnceInv
      <4>3. ASSUME NEW i \in 1..Len(b), NEW j \in 1..Len(b), b[i] = b[j] PROVE i = j
        <5>1. \A k \in 1..Len(buffer) : buffer[k] # n
          BY <2>2, <2>5 DEF Logs!ToSet
        <5>2. \A k \in 1..Len(b) : k \in 1..Len(buffer) \/ k = Len(buffer) + 1
          BY <2>2, <2>3
        <5> HIDE DEF b
        <5> QED BY <2>3, <4>3, <5>1, <5>2 DEF LogInv, OnceInv
      <4> HIDE DEF b
      <4> QED BY <1>1, <2>6, <3>1, <4>1, <4>2, <4>3 DEF LogInv, OnceInv
    <3> QED BY <1>1, <3>2, <3>3, PagesStay DEF LogInv
  <2> QED BY <2>7, <2>8
<1> QED BY <1>2, <1>3

\* The ticker, the last flush and the last Sync.
LEMMA FlushKeeps ==
    ASSUME LogInv, Logs!flushLocked(buffer), hook' \in {"open", "closing", "closed"},
           UNCHANGED <<clock, stored, lost, deleted, closedAt, db, Logs!readVars>>
    PROVE  LogInv'
<1>1. buffer \in Seq(Logs!Line) /\ Logs!ToSet(buffer) \cap UNION batches = {}
  BY DEF LogInv, Logs!TypeOK, OnceInv
<1>2. /\ buffer' = <<>> /\ Logs!ToSet(buffer') = {}
      /\ UNION batches' = (UNION batches) \cup Logs!ToSet(buffer)
      /\ batches' \subseteq SUBSET Logs!Line
      /\ \A c, d \in batches' : c # d => c \cap d = {}
  BY <1>1, FlushMoves DEF LogInv
<1>3. Logs!TypeOK'
  BY <1>2, LogsAssumption DEF LogInv, Logs!TypeOK, Logs!readVars, Logs!Line
<1>4. OnceInv'
  <2>1. Logs!Captured' = Logs!Captured
    BY DEF Logs!Captured
  <2> QED BY <1>2, <2>1 DEF LogInv, OnceInv
<1>5. clock' >= clock
  BY DEF LogInv, Logs!TypeOK
<1> QED BY <1>3, <1>4, <1>5, PagesStay DEF LogInv

LEMMA WriteKeeps == ASSUME LogInv, NEW b, Logs!WriteBatch(b) PROVE LogInv'
<1>1. /\ b \in batches /\ batches' = batches \ {b} /\ stored \subseteq stored'
      /\ stored' \cup lost' = stored \cup lost \cup b
      /\ (stored' = stored \cup b /\ lost' = lost) \/ (lost' = lost \cup b /\ stored' = stored)
      /\ UNCHANGED <<clock, buffer, deleted, hook, closedAt, db, Logs!readVars>>
  BY DEF Logs!WriteBatch
<1>2. Logs!TypeOK'
  BY <1>1 DEF LogInv, Logs!TypeOK, Logs!readVars, Logs!Line
<1>3. (UNION batches) = (UNION batches') \cup b /\ (UNION batches') \cap b = {}
  <2>1. \A c \in batches' : c \cap b = {}
    BY <1>1 DEF LogInv, OnceInv
  <2> QED BY <1>1, <2>1
<1>4. Logs!ToSet(buffer)' = Logs!ToSet(buffer) /\ Logs!Captured' = Logs!Captured
  BY <1>1 DEF Logs!ToSet, Logs!Captured
<1>5. OnceInv'
  <2>1. Logs!Captured' = Logs!ToSet(buffer) \cup (UNION batches') \cup stored' \cup lost' \cup deleted'
    BY <1>1, <1>3, <1>4 DEF LogInv, OnceInv
  <2>2. (Logs!ToSet(buffer) \cup UNION batches') \cap (stored' \cup lost' \cup deleted') = {}
    <3>1. Logs!ToSet(buffer) \cap b = {} /\ b \subseteq UNION batches
      BY <1>1 DEF LogInv, OnceInv
    <3> QED BY <1>1, <1>3, <3>1 DEF LogInv, OnceInv
  <2>3. stored' \cap lost' = {} /\ stored' \cap deleted' = {} /\ lost' \cap deleted' = {}
    BY <1>1, <1>3 DEF LogInv, OnceInv
  <2> QED BY <1>1, <1>3, <1>4, <2>1, <2>2, <2>3 DEF LogInv, OnceInv
<1>6. clock' >= clock
  BY <1>1 DEF LogInv, Logs!TypeOK
<1> QED BY <1>1, <1>2, <1>5, <1>6, PagesStay DEF LogInv

LEMMA CleanupKeeps == LogInv /\ Logs!Cleanup => LogInv'
<1> SUFFICES ASSUME LogInv, Logs!Cleanup PROVE LogInv'
  OBVIOUS
<1> DEFINE old == {n \in stored : n + Retention < clock}
<1>1. /\ old # {} /\ stored' = stored \ old /\ deleted' = deleted \cup old /\ old \subseteq stored
      /\ UNCHANGED <<clock, buffer, batches, lost, hook, closedAt, db, Logs!readVars>>
  BY DEF Logs!Cleanup
<1> HIDE DEF old
<1>2. Logs!TypeOK'
  BY <1>1 DEF LogInv, Logs!TypeOK, Logs!readVars, Logs!Line
<1>3. OnceInv'
  <2>1. Logs!ToSet(buffer)' = Logs!ToSet(buffer) /\ Logs!Captured' = Logs!Captured
    BY <1>1 DEF Logs!ToSet, Logs!Captured
  <2> QED BY <1>1, <2>1 DEF LogInv, OnceInv
<1>4. PagesInv'
  BY <1>1 DEF PagesInv
<1> QED BY <1>2, <1>3, <1>4 DEF LogInv

\* The rows of a page, and where they stand.
LEMMA PageIs ==
    ASSUME NEW rows, NEW p \in Nat \ {0}, NEW s \in Nat \ {0}, rows \in Seq(Logs!Line), Len(rows) <= Lines
    PROVE  /\ Logs!Page(rows, p, s) \in Seq(Logs!Line)
           /\ Logs!Page(rows, p, s) # <<>> => (p - 1) * s < Len(rows)
           /\ Len(Logs!Page(rows, p, s)) = s => (p - 1) * s + s <= Len(rows)
           /\ \A i \in 1..Len(Logs!Page(rows, p, s)) :
                 (p - 1) * s + i \in 1..Len(rows) /\ Logs!Page(rows, p, s)[i] = rows[(p - 1) * s + i]
<1>1. PICK k \in Nat : k = (p - 1) * s
  <2>1. \A a, c \in Nat : a * c \in Nat
    OBVIOUS
  <2> QED BY <2>1
<1>2. p * s = k + s
  BY <1>1
<1>3. PICK e : e = Logs!Min({Len(rows), p * s})
  OBVIOUS
<1>4. e \in Nat /\ e <= Len(rows) /\ e <= k + s /\ (e = Len(rows) \/ e = k + s)
  <2>1. Len(rows) \in Nat /\ k + s \in Nat
    BY <1>1
  <2>2. \E x \in {Len(rows), k + s} : \A y \in {Len(rows), k + s} : x <= y
    BY <2>1
  <2>3. e \in {Len(rows), k + s} /\ \A y \in {Len(rows), k + s} : e <= y
    BY <1>2, <1>3, <2>2 DEF Logs!Min
  <2> QED BY <2>1, <2>3
<1>5. Logs!Page(rows, p, s) = SubSeq(rows, k + 1, e)
  BY <1>1, <1>3 DEF Logs!Page
<1>6. /\ SubSeq(rows, k + 1, e) \in Seq(Logs!Line)
      /\ Len(SubSeq(rows, k + 1, e)) = IF k + 1 <= e THEN e - k ELSE 0
      /\ \A i \in 1..(e - k) : SubSeq(rows, k + 1, e)[i] = rows[k + i]
  BY <1>1, <1>4
<1>7. SubSeq(rows, k + 1, e) # <<>> => k < Len(rows)
  BY <1>1, <1>4
<1>8. Len(SubSeq(rows, k + 1, e)) = s => k + s <= Len(rows)
  BY <1>1, <1>4, <1>6
<1>9. ASSUME NEW i \in 1..Len(SubSeq(rows, k + 1, e))
      PROVE  k + i \in 1..Len(rows) /\ SubSeq(rows, k + 1, e)[i] = rows[k + i]
  <2>1. i \in 1..(e - k)
    BY <1>1, <1>4, <1>6
  <2> QED BY <1>1, <1>4, <1>6, <2>1
<1> QED BY <1>1, <1>5, <1>6, <1>7, <1>8, <1>9

LEMMA ReadKeeps == LogInv /\ Logs!ReadPage(ReadTask, AskedSize) => LogInv'
<1> SUFFICES ASSUME LogInv, Logs!ReadPage(ReadTask, AskedSize) PROVE LogInv'
  OBVIOUS
<1> DEFINE rows == Logs!InOrder(Rows)
           page == Logs!Page(rows, nextPage, Size)
<1>1. nextPage \in Nat \ {0} /\ Size \in Nat \ {0} /\ Logs!PageNumber(nextPage) = nextPage
  BY LogsAssumption DEF LogInv, Logs!TypeOK, Logs!ReadPage, Size, Logs!PageSize, Logs!PageNumber
<1>2. /\ pages' = pages \o page /\ nextPage' = (IF page = <<>> THEN 0 ELSE nextPage + 1)
      /\ steady' => steady /\ deleted = {} /\ (page = <<>> \/ Len(page) = Size)
      /\ steady' => \A m \in Logs!Captured, n \in Logs!ToSet(rows) : m < n => m \in stored
      /\ steady' \in BOOLEAN
      /\ UNCHANGED <<clock, buffer, batches, stored, lost, deleted, hook, closedAt, db>>
  BY <1>1 DEF Logs!ReadPage, Logs!RowsOf, Rows, Size
<1>3. IsFiniteSet(Rows) /\ Rows \subseteq Logs!Line /\ Rows \subseteq Nat /\ Cardinality(Rows) <= Lines
  <2>1. IsFiniteSet(1..Lines) /\ Cardinality(1..Lines) = Lines
    BY LogsAssumption, FS_Interval
  <2>2. Rows \in SUBSET (1..Lines)
    BY DEF LogInv, Logs!TypeOK, Logs!Line, Rows
  <2>3. IsFiniteSet(Rows) /\ Cardinality(Rows) <= Lines
    BY <2>1, <2>2, FS_Subset, Zenon
  <2> QED BY <2>2, <2>3, LogsAssumption DEF Logs!Line
<1>4. Cardinality(Rows) \in Nat
  BY <1>3, FS_CardinalityType
<1>5. \A i \in 1..Cardinality(Rows) : rows[i] \in Logs!Line
  BY <1>3, InOrderIs
<1>6. rows \in Seq(Logs!Line) /\ Len(rows) = Cardinality(Rows)
  <2>1. rows \in Seq(Rows) /\ Len(rows) = Cardinality(Rows)
    BY <1>3, InOrderLists
  <2>2. \A i \in 1..Len(rows) : rows[i] \in Logs!Line
    BY <1>5, <2>1
  <2>3. rows = [i \in 1..Len(rows) |-> rows[i]] /\ Len(rows) \in Nat
    BY <2>1
  <2> HIDE DEF rows
  <2> QED BY <2>1, <2>2, <2>3
<1>7. /\ page \in Seq(Logs!Line)
      /\ page # <<>> => (nextPage - 1) * Size < Len(rows)
      /\ Len(page) = Size => (nextPage - 1) * Size + Size <= Len(rows)
      /\ \A i \in 1..Len(page) : (nextPage - 1) * Size + i \in 1..Len(rows)
                                 /\ page[i] = rows[(nextPage - 1) * Size + i]
  <2>1. PICK r, p, s : r = rows /\ p = nextPage /\ s = Size
    OBVIOUS
  <2>2. r \in Seq(Logs!Line) /\ Len(r) <= Lines /\ p \in Nat \ {0} /\ s \in Nat \ {0}
    BY <1>1, <1>3, <1>6, <2>1
  <2>3. /\ Logs!Page(r, p, s) \in Seq(Logs!Line)
        /\ Logs!Page(r, p, s) # <<>> => (p - 1) * s < Len(r)
        /\ Len(Logs!Page(r, p, s)) = s => (p - 1) * s + s <= Len(r)
        /\ \A i \in 1..Len(Logs!Page(r, p, s)) :
              (p - 1) * s + i \in 1..Len(r) /\ Logs!Page(r, p, s)[i] = r[(p - 1) * s + i]
    BY <2>2, PageIs
  <2> HIDE DEF rows
  <2> QED BY <2>1, <2>3
<1> HIDE DEF rows, page
<1>8. PICK k \in Nat : k = (nextPage - 1) * Size /\ nextPage - 1 <= k
  <2>1. \A a \in Nat, c \in Nat \ {0} : a * c \in Nat /\ a <= a * c
    OBVIOUS
  <2> QED BY <1>1, <2>1
<1>9. Logs!TypeOK'
  <2>1. nextPage' \in 0..(Lines + 1)
    BY <1>1, <1>2, <1>3, <1>4, <1>6, <1>7, <1>8, LogsAssumption
  <2>2. pages' \in Seq(Logs!Line)
    BY <1>2, <1>7 DEF LogInv, Logs!TypeOK
  <2> QED BY <1>2, <2>1, <2>2 DEF LogInv, Logs!TypeOK, Logs!Line
<1>10. OnceInv'
  BY <1>2 DEF LogInv, OnceInv, Logs!ToSet, Logs!Captured
<1>11. PagesInv'
  <2> SUFFICES ASSUME steady', deleted' = {} PROVE FirstLinesRead'
    BY DEF PagesInv
  <2>1. FirstLinesRead /\ Len(pages) = k
    BY <1>1, <1>2, <1>8 DEF LogInv, PagesInv, FirstLinesRead
  <2>2. Rows' = Rows /\ Size' = Size /\ Logs!InOrder(Rows)' = rows /\ Logs!Captured' = Logs!Captured
    BY <1>2 DEF Rows, Size, Logs!PageSize, Logs!Captured, rows
  <2>3. CASE page = <<>>
    <3>1. pages' = pages /\ nextPage' = 0
      BY <1>2, <2>3 DEF LogInv, Logs!TypeOK
    <3> QED BY <1>2, <2>1, <2>2, <3>1 DEF FirstLinesRead, rows
  <2>4. CASE page # <<>>
    <3>1. Len(page) = Size /\ nextPage' = nextPage + 1
      BY <1>2, <2>4
    <3>2. /\ pages \in Seq(Logs!Line) /\ Len(pages') = k + Size
          /\ \A i \in 1..k : pages'[i] = pages[i]
          /\ \A i \in (k + 1)..(k + Size) : pages'[i] = page[i - k]
      <4>1. pages \in Seq(Logs!Line)
        BY DEF LogInv, Logs!TypeOK
      <4>2. \A s, t \in Seq(Logs!Line) : Len(s \o t) = Len(s) + Len(t)
        OBVIOUS
      <4>3. \A s, t \in Seq(Logs!Line) :
              /\ \A i \in 1..Len(s) : (s \o t)[i] = s[i]
              /\ \A i \in (Len(s) + 1)..(Len(s) + Len(t)) : (s \o t)[i] = t[i - Len(s)]
        OBVIOUS
      <4> QED BY <1>2, <1>7, <2>1, <3>1, <4>1, <4>2, <4>3
    <3>3. ASSUME NEW i \in 1..Len(pages') PROVE i \in 1..Len(rows) /\ pages'[i] = rows[i]
      <4>1. CASE i <= k
        <5>1. i \in 1..Len(pages) /\ pages'[i] = pages[i]
          BY <1>1, <2>1, <3>2, <4>1
        <5> QED BY <1>4, <1>6, <2>1, <5>1 DEF FirstLinesRead, rows
      <4>2. CASE i > k
        <5>1. i - k \in 1..Len(page) /\ pages'[i] = page[i - k]
          BY <1>1, <3>1, <3>2, <4>2
        <5> QED BY <1>7, <1>8, <4>2, <5>1
      <4> QED BY <1>1, <3>2, <4>1, <4>2
    <3>4. ASSUME NEW m \in Logs!Captured, NEW i \in 1..Len(pages'), m < pages'[i] PROVE m \in stored
      <4>1. pages'[i] \in Logs!ToSet(rows)
        BY <1>6, <3>3 DEF Logs!ToSet
      <4> QED BY <1>2, <3>4, <4>1
    <3>5. Len(pages') = (nextPage' - 1) * Size
      BY <1>1, <1>8, <3>1, <3>2
    <3>6. Len(pages') <= Cardinality(Rows)
      BY <1>6, <1>7, <1>8, <3>1, <3>2
    <3> QED BY <1>2, <2>2, <3>3, <3>4, <3>5, <3>6 DEF FirstLinesRead
  <2> QED BY <2>3, <2>4
<1> QED BY <1>9, <1>10, <1>11 DEF LogInv

LEMMA LogStep == LogInv /\ [Logs!Next]_(Logs!vars) => LogInv'
<1> SUFFICES ASSUME LogInv, [Logs!Next]_(Logs!vars) PROVE LogInv'
  OBVIOUS
<1>1. CASE Logs!Log
  BY <1>1, LogKeeps
<1>2. CASE Logs!Tick
  BY <1>2, FlushKeeps DEF Logs!Tick
<1>3. CASE Logs!LastFlush
  BY <1>3, FlushKeeps DEF Logs!LastFlush
<1>4. CASE Logs!SyncLogger
  BY <1>4, FlushKeeps DEF Logs!SyncLogger, LogInv, Logs!TypeOK
<1>5. CASE Logs!WriteSome
  BY <1>5, WriteKeeps DEF Logs!WriteSome
<1>6. CASE Logs!Cleanup
  BY <1>6, CleanupKeeps
<1>7. CASE Logs!ReadPage(ReadTask, AskedSize)
  BY <1>7, ReadKeeps
<1>8. CASE Logs!CloseHook \/ Logs!CloseTaskLogDB \/ UNCHANGED Logs!vars
  <2>1. /\ UNCHANGED <<clock, buffer, batches, stored, lost, deleted, Logs!readVars>>
        /\ Logs!TypeOK'
    <3>1. CASE Logs!CloseHook
      BY <3>1 DEF LogInv, Logs!TypeOK, Logs!CloseHook, Logs!readVars, Logs!Line
    <3>2. CASE Logs!CloseTaskLogDB
      BY <3>2 DEF LogInv, Logs!TypeOK, Logs!CloseTaskLogDB, Logs!readVars, Logs!Line
    <3>3. CASE UNCHANGED Logs!vars
      BY <3>3 DEF LogInv, Logs!TypeOK, Logs!vars, Logs!readVars, Logs!Line
    <3> QED BY <1>8, <3>1, <3>2, <3>3
  <2>2. OnceInv'
    BY <2>1 DEF LogInv, OnceInv, Logs!ToSet, Logs!Captured
  <2>3. clock' >= clock
    BY <2>1 DEF LogInv, Logs!TypeOK
  <2> QED BY <2>1, <2>2, <2>3, PagesStay DEF LogInv
<1> QED BY <1>1, <1>2, <1>3, <1>4, <1>5, <1>6, <1>7, <1>8 DEF Logs!Next

\* The first rows, as far as a client has read, are its pages.
LEMMA ReadIsPrefix == LogInv => Logs!PagesInOrder
<1> SUFFICES ASSUME LogInv, steady, deleted = {} PROVE pages = SubSeq(Logs!RowsOf(ReadTask), 1, Len(pages))
  BY DEF Logs!PagesInOrder
<1>1. FirstLinesRead /\ pages \in Seq(Logs!Line)
  BY DEF LogInv, PagesInv, Logs!TypeOK
<1>2. PICK rows : rows = Logs!RowsOf(ReadTask)
  OBVIOUS
<1>3. IsFiniteSet(Rows) /\ Rows \subseteq Nat
  <2>1. IsFiniteSet(1..Lines)
    BY LogsAssumption, FS_Interval
  <2>2. Rows \in SUBSET (1..Lines)
    BY DEF LogInv, Logs!TypeOK, Logs!Line, Rows
  <2>3. IsFiniteSet(Rows)
    BY <2>1, <2>2, FS_Subset
  <2> QED BY <2>2, <2>3, LogsAssumption
<1>4. rows \in Seq(Rows) /\ Len(rows) = Cardinality(Rows) /\ rows = Logs!InOrder(Rows)
  <2>1. rows = Logs!InOrder(Rows)
    BY <1>2 DEF Logs!RowsOf, Rows
  <2> QED BY <1>3, <2>1, InOrderLists
<1>5. Len(pages) <= Len(rows) /\ \A i \in 1..Len(pages) : pages[i] = rows[i]
  BY <1>1, <1>4 DEF FirstLinesRead
<1>6. SubSeq(rows, 1, Len(pages)) = pages
  BY <1>1, <1>4, <1>5
<1> QED BY <1>2, <1>6

LEMMA ServicesLogs == ServicesSpec => Logs!Init /\ [][Logs!Next]_(Logs!vars)
<1>1. ServicesInit => Logs!Init
  BY DEF ServicesInit
<1>2. [ServicesNext]_allVars => [Logs!Next]_(Logs!vars)
  BY DEF ServicesNext, allVars, logsVars, Logs!vars, Logs!readVars
<1> QED BY <1>1, <1>2, PTL DEF ServicesSpec

\* However many lines are logged, whatever the size of the buffer, and in
\* whatever order the goroutines write their batches: a captured line is in the
\* buffer, in one batch, stored, lost with the database or deleted, and in one of
\* these only; and a client whose pages were full and were not overtaken has
\* read the first lines of its task, in order
\* (task_log_hook.go, store/task_log.go, handler/task_log.go).
THEOREM LinesAreKept == ServicesSpec => []LinesKept
<1>1. LogInv => LinesKept
  BY OnceIsOnce, ReadIsPrefix DEF LogInv, LinesKept
<1> QED BY <1>1, LogInit, LogStep, ServicesLogs, PTL

-----------------------------------------------------------------------------
(* The answer of a streaming call *)

Text == Seq(Words)
Chunks == [type : {"text", "result"}, text : Text] \cup [type : {"other"}, text : Text \cup {Stream!Mark}]

\* The lines and chunks on their way, as functions of what the text is before
\* the first of them, after it, after the second, ...
LineChain(s, w, lines) ==
    /\ w \in [0..Len(lines) -> Text]
    /\ \A i \in 1..Len(lines) : w[i] = Stream!Tell(s, w[i - 1], lines[i])
ChunkChain(s, v, chunks) ==
    /\ v \in [0..Len(chunks) -> Text]
    /\ \A i \in 1..Len(chunks) : v[i] = Stream!Kept(s, v[i - 1], chunks[i])

\* The chunks on their way: those in the channel and the one the reader of
\* stdout is about to send; the lines that the process has printed.
Held == IF reader["stdout"].step = "send" THEN <<reader["stdout"].chunk>> ELSE <<>>
Queue == outputChan \o Held
Emitted == Len(script.lines) - Len(left)

StreamTypes ==
    /\ Stream!TypeOK
    /\ left \in Seq(Printed) /\ Len(left) <= Len(script.lines)
    /\ \A i \in 1..Len(left) : left[i] = script.lines[Emitted + i]
    /\ pipe \in [Stream!Pipes -> Seq(Printed)]
    /\ \A p \in Stream!Pipes : \A i \in 1..Len(pipe[p]) :
          pipe[p][i].pipe = p /\ \E j \in DOMAIN script.lines : pipe[p][i] = script.lines[j]
    /\ DOMAIN reader = Stream!Pipes
    /\ reader["stdout"].step = "send" => reader["stdout"].chunk \in Chunks
    /\ reader["stderr"].step # "send"
    /\ outputChan \in Seq(Chunks)
    /\ textBuffer \in Text

\* Each reader that is through has put a token into done, and the caller has
\* taken as many of them as it has got ahead.
Over(p) == IF reader[p].step = "over" THEN 1 ELSE 0
Taken == CASE caller = "first" -> 0 [] caller = "second" -> 1 [] OTHER -> 2
StageInv ==
    /\ dones + Taken = Over("stdout") + Over("stderr")
    /\ closed => caller \in {"drain", "wait", "returned"}
    /\ ~processing => closed /\ outputChan = <<>>
    /\ caller \in {"wait", "returned"} => ~processing
    /\ answer # None => caller = "returned"

\* A reader is through when the process has ended and its pipe is empty.
EndInv ==
    /\ process = "zero" => left = <<>>
    /\ Stream!NoLongLine =>
          \A p \in Stream!Pipes : reader[p].step \in {"signal", "over"} => pipe[p] = <<>> /\ process # "running"

\* The text, continued with what is on its way, is what the script has told:
\* gemini's reader keeps the text of its lines, the others' chunks carry it.
Continues(s, text, chunks, lines, told) ==
    \E w : /\ LineChain(s, w, lines)
           /\ w[Len(lines)] = told
           /\ IF s.agent = "gemini" THEN w[0] = text
              ELSE \E v : ChunkChain(s, v, chunks) /\ v[0] = text /\ v[Len(chunks)] = w[0]
OrderInv ==
    Stream!NoLongLine =>
        Continues(script, textBuffer, Queue, pipe["stdout"], Stream!Told(script)[Emitted])

StreamInv == StreamTypes /\ StageInv /\ EndInv /\ OrderInv /\ Stream!AnswerComplete

\* What a line tells.
LEMMA TellIsText ==
    ASSUME NEW s \in Scripts, NEW i \in DOMAIN s.lines, NEW t \in Text
    PROVE  /\ Stream!Tell(s, t, s.lines[i]) \in Text
           /\ s.lines[i].type \in {"noise", "long"} => Stream!Tell(s, t, s.lines[i]) = t
<1> DEFINE l == s.lines[i]
<1>1. l.text \in Text
  BY ScriptsAssumption DEF Text
<1>2. <<>> \in Text
  BY DEF Text
<1> HIDE DEF l
<1>3. Stream!TextOf(s, l) \in Text /\ (l.type \in {"noise", "long"} => Stream!TextOf(s, l) = <<>>)
  BY <1>1, <1>2 DEF Stream!TextOf
<1>4. \A x \in Text : t \o x \in Text /\ t \o <<>> = t
  BY DEF Text
<1>5. l.type \in {"noise", "long"} => ~Stream!Restarts(s, l)
  BY DEF Stream!Restarts
<1> QED BY <1>1, <1>3, <1>4, <1>5 DEF Stream!Tell, l

\* A set of numbers has a least one.
LEMMA MinIs ==
    ASSUME NEW S \in SUBSET Nat, S # {}
    PROVE  \E x \in S : \A y \in S : x <= y
<1> DEFINE R == {ss \in Nat \X Nat : ss[1] < ss[2]}
<1>1. IsWellFoundedOn(R, Nat)
  BY NatLessThanWellFounded DEF OpToRel
<1>2. \A x, y \in Nat : <<x, y>> \in R <=> x < y
  OBVIOUS
<1> HIDE DEF R
<1>3. PICK x \in S : \A y \in S : ~(<<y, x>> \in R)
  BY <1>1, WFMin
<1>4. ASSUME NEW y \in S PROVE x <= y
  <2>1. x \in Nat /\ y \in Nat /\ ~(y < x)
    BY <1>2, <1>3
  <2> QED BY <2>1
<1> QED BY <1>4

\* The function that is defined by recursion on the lines exists.
LEMMA ToldExists ==
    ASSUME NEW s \in Scripts, NEW n \in Nat, n <= Len(s.lines)
    PROVE  \E f : /\ f \in [0..n -> Text]
                  /\ f[0] = <<>> /\ \A i \in 1..n : f[i] = Stream!Tell(s, f[i - 1], s.lines[i])
<1> DEFINE Defines(f, k) == /\ f \in [0..k -> Text]
                            /\ f[0] = <<>> /\ \A i \in 1..k : f[i] = Stream!Tell(s, f[i - 1], s.lines[i])
           Bad == {k \in Nat : k <= Len(s.lines) /\ ~\E f : Defines(f, k)}
<1>0. DOMAIN s.lines = 1..Len(s.lines) /\ Len(s.lines) \in Nat
  BY ScriptsAssumption
<1> SUFFICES ASSUME Bad # {} PROVE FALSE
  OBVIOUS
<1>1. PICK k \in Bad : \A m \in Bad : k <= m
  <2>1. Bad \in SUBSET Nat
    OBVIOUS
  <2> QED BY <2>1, MinIs
<1>2. Defines([i \in 0..0 |-> <<>>], 0)
  BY DEF Text
<1>3. k # 0 /\ k \in Nat /\ k <= Len(s.lines)
  BY <1>1, <1>2
<1>4. k - 1 \in Nat /\ k - 1 <= Len(s.lines) /\ k - 1 \notin Bad
  <2>1. k - 1 \in Nat /\ k - 1 <= Len(s.lines) /\ ~(k <= k - 1)
    BY <1>0, <1>3
  <2> HIDE DEF Bad
  <2> QED BY <1>1, <2>1
<1>5. PICK f : Defines(f, k - 1)
  BY <1>4
<1> DEFINE g == [i \in 0..k |-> IF i = k THEN Stream!Tell(s, f[k - 1], s.lines[k]) ELSE f[i]]
<1>6. Stream!Tell(s, f[k - 1], s.lines[k]) \in Text
  BY <1>0, <1>3, <1>5, TellIsText
<1>7. g \in [0..k -> Text] /\ g[0] = <<>> /\ g[k] = Stream!Tell(s, f[k - 1], s.lines[k])
      /\ \A i \in 0..(k - 1) : g[i] = f[i]
  BY <1>3, <1>5, <1>6
<1>8. ASSUME NEW i \in 1..k PROVE g[i] = Stream!Tell(s, g[i - 1], s.lines[i])
  <2>1. CASE i = k
    <3>1. g[i - 1] = f[k - 1]
      BY <1>3, <1>7, <2>1
    <3> HIDE DEF g
    <3> QED BY <1>7, <2>1, <3>1
  <2>2. CASE i # k
    <3>1. i \in 1..(k - 1) /\ g[i] = f[i] /\ g[i - 1] = f[i - 1]
      BY <1>3, <1>7, <2>2
    <3> HIDE DEF g
    <3> QED BY <1>5, <3>1
  <2> QED BY <2>1, <2>2
<1> HIDE DEF g
<1>9. Defines(g, k)
  BY <1>7, <1>8
<1> QED BY <1>1, <1>9

LEMMA ToldIs ==
    ASSUME NEW s \in Scripts
    PROVE  /\ Stream!Told(s) \in [0..Len(s.lines) -> Text]
           /\ Stream!Told(s)[0] = <<>>
           /\ \A i \in 1..Len(s.lines) : Stream!Told(s)[i] = Stream!Tell(s, Stream!Told(s)[i - 1], s.lines[i])
<1> DEFINE n == Len(s.lines)
           Def(f) == f = [i \in 0..n |-> IF i = 0 THEN <<>> ELSE Stream!Tell(s, f[i - 1], s.lines[i])]
<1>0. n \in Nat
  BY ScriptsAssumption
<1>1. PICK f : /\ f \in [0..n -> Text]
               /\ f[0] = <<>> /\ \A i \in 1..n : f[i] = Stream!Tell(s, f[i - 1], s.lines[i])
  <2>1. PICK k : k = n
    OBVIOUS
  <2>2. k \in Nat /\ k <= Len(s.lines)
    BY <1>0, <2>1
  <2>3. PICK f : f \in [0..k -> Text] /\ f[0] = <<>> /\ \A i \in 1..k : f[i] = Stream!Tell(s, f[i - 1], s.lines[i])
    BY <2>2, ToldExists
  <2> QED BY <2>1, <2>3
<1>2. Def(f)
  <2>1. ASSUME NEW i \in 0..n PROVE f[i] = IF i = 0 THEN <<>> ELSE Stream!Tell(s, f[i - 1], s.lines[i])
    BY <1>0, <1>1
  <2>2. f = [i \in 0..n |-> f[i]]
    BY <1>1
  <2> QED BY <2>1, <2>2
<1>3. Stream!Told(s) = CHOOSE g : Def(g)
  BY DEF Stream!Told
<1>4. Def(Stream!Told(s))
  BY <1>2, <1>3
<1> HIDE <1>3
<1>5. PICK g : g = Stream!Told(s)
  OBVIOUS
<1>6. g = f
  <2> DEFINE Differ == {i \in 0..n : g[i] # f[i]}
  <2>0. /\ DOMAIN g = 0..n
        /\ \A i \in 0..n : g[i] = IF i = 0 THEN <<>> ELSE Stream!Tell(s, g[i - 1], s.lines[i])
    <3>1. Def(g)
      BY <1>4, <1>5
    <3> HIDE <1>5, <1>4
    <3> QED BY <3>1
  <2>1. CASE Differ = {}
    <3>1. \A i \in 0..n : g[i] = f[i]
      BY <2>1
    <3>2. DOMAIN f = 0..n /\ f = [i \in DOMAIN f |-> f[i]] /\ g = [i \in DOMAIN g |-> g[i]]
      BY <1>1, <1>4, <1>5
    <3> QED BY <2>0, <3>1, <3>2
  <2>2. CASE Differ # {}
    <3>1. Differ \in SUBSET Nat
      BY <1>0
    <3>2. PICK m \in Differ : \A k \in Differ : m <= k
      BY <2>2, <3>1, MinIs
    <3>3. m \in 1..n /\ m - 1 \in 0..n
      BY <1>0, <1>1, <2>0, <3>2
    <3>4. g[m - 1] = f[m - 1]
      BY <3>2, <3>3
    <3>5. g[m] = Stream!Tell(s, g[m - 1], s.lines[m]) /\ f[m] = Stream!Tell(s, f[m - 1], s.lines[m])
      BY <1>1, <2>0, <3>3
    <3> QED BY <3>2, <3>4, <3>5
  <2> QED BY <2>1, <2>2
<1> QED BY <1>1, <1>5, <1>6

\* A chunk tells what its line tells, and a line without a chunk tells nothing.
LEMMA ChunkTells ==
    ASSUME script \in Scripts, NEW i \in DOMAIN script.lines, script.agent # "gemini", NEW t \in Text,
           script.lines[i].pipe = "stdout"
    PROVE  LET l == script.lines[i]
               c == Stream!ParseLine("stdout", l)
           IN /\ c = None => Stream!Tell(script, t, l) = t
              /\ c # None => c \in Chunks /\ Stream!Kept(script, t, c) = Stream!Tell(script, t, l)
<1> DEFINE l == script.lines[i]
           c == Stream!ParseLine("stdout", l)
<1>1. l.text \in Text /\ \A k \in {"text", "result"} : Stream!Chunk(k, l.text) # None
  BY ScriptsAssumption DEF Text
<1>2. l.type # "message" /\ (script.agent = "cursor" => l.type # "unknown") /\ script.agent \in {"cursor", "qoder"}
  BY ScriptsAssumption
<1>3. t \o <<>> = t /\ t \in Text
  BY DEF Text
<1> HIDE DEF l
<1>4. CASE script.agent = "cursor"
  <2>1. c = Stream!CursorChunk(l)
    BY <1>4 DEF Stream!ParseLine
  <2>2. CASE l.type \in {"assistant", "result"} /\ l.text # <<>>
    <3>1. c = Stream!Chunk(IF l.type = "result" THEN "result" ELSE "text", l.text)
      BY <2>1, <2>2 DEF Stream!CursorChunk, Stream!Marked
    <3>2. c # None /\ c \in Chunks
      BY <1>1, <3>1 DEF Chunks, Stream!Chunk
    <3>3. Stream!Kept(script, t, c) = IF l.type = "result" THEN l.text ELSE t \o l.text
      BY <1>4, <3>1 DEF Stream!Kept, Stream!Chunk
    <3>4. Stream!Tell(script, t, l) = IF l.type = "result" THEN l.text ELSE t \o l.text
      BY <1>4, <2>2 DEF Stream!Tell, Stream!Restarts, Stream!TextOf
    <3> QED BY <3>2, <3>3, <3>4 DEF l
  <2>3. CASE ~(l.type \in {"assistant", "result"} /\ l.text # <<>>)
    <3>1. Stream!Tell(script, t, l) = t
      <4>1. ~Stream!Restarts(script, l)
        BY <1>4, <2>3 DEF Stream!Restarts
      <4>2. Stream!TextOf(script, l) = <<>>
        BY <1>2, <1>4, <2>3 DEF Stream!TextOf
      <4> QED BY <1>3, <4>1, <4>2 DEF Stream!Tell
    <3>2. c = None \/ c = Stream!Chunk("other", Stream!Mark) \/ c = Stream!Chunk("other", l.text)
      BY <2>1, <2>3 DEF Stream!CursorChunk
    <3>3. c # None => c \in Chunks /\ Stream!Kept(script, t, c) = t
      BY <1>1, <3>2 DEF Chunks, Stream!Chunk, Stream!Kept
    <3> QED BY <3>1, <3>3 DEF l
  <2> QED BY <2>2, <2>3
<1>5. CASE script.agent = "qoder"
  <2>1. c = Stream!QoderChunk(l)
    BY <1>5 DEF Stream!ParseLine
  <2>2. CASE l.type \in {"result", "assistant"} \/ (l.type = "unknown" /\ l.text # <<>>)
    <3>1. c = Stream!Chunk(IF l.type = "result" THEN "result" ELSE "text", l.text)
      BY <2>1, <2>2 DEF Stream!QoderChunk, Stream!Marked
    <3>2. c # None /\ c \in Chunks
      BY <1>1, <3>1 DEF Chunks, Stream!Chunk
    <3>3. Stream!Kept(script, t, c) = IF l.type = "result" THEN l.text ELSE t \o l.text
      BY <1>5, <3>1 DEF Stream!Kept, Stream!Chunk
    <3>4. Stream!Tell(script, t, l) = IF l.type = "result" THEN l.text ELSE t \o l.text
      BY <1>5, <2>2 DEF Stream!Tell, Stream!Restarts, Stream!TextOf
    <3> QED BY <3>2, <3>3, <3>4 DEF l
  <2>3. CASE ~(l.type \in {"result", "assistant"} \/ (l.type = "unknown" /\ l.text # <<>>))
    <3>1. Stream!Tell(script, t, l) = t
      <4>1. ~Stream!Restarts(script, l)
        BY <1>5, <2>3 DEF Stream!Restarts
      <4>2. Stream!TextOf(script, l) = <<>>
        BY <1>2, <1>5, <2>3 DEF Stream!TextOf
      <4> QED BY <1>3, <4>1, <4>2 DEF Stream!Tell
    <3>2. c = None \/ c = Stream!Chunk("other", Stream!Mark) \/ c = Stream!Chunk("other", l.text)
      BY <2>1, <2>3 DEF Stream!QoderChunk
    <3>3. c # None => c \in Chunks /\ Stream!Kept(script, t, c) = t
      BY <1>1, <3>2 DEF Chunks, Stream!Chunk, Stream!Kept
    <3> QED BY <3>1, <3>3 DEF l
  <2> QED BY <2>2, <2>3
<1> QED BY <1>2, <1>4, <1>5

\* gemini's reader keeps what its line tells; its chunks change nothing.
LEMMA GeminiTells ==
    ASSUME script \in Scripts, NEW i \in DOMAIN script.lines, script.agent = "gemini", textBuffer \in Text,
           script.lines[i].pipe = "stdout"
    PROVE  LET l == script.lines[i]
               c == Stream!ParseLine("stdout", l)
           IN /\ (IF Stream!ReaderKeeps("stdout", l) THEN textBuffer \o l.text ELSE textBuffer)
                    = Stream!Tell(script, textBuffer, l)
              /\ c # None => c \in Chunks
<1> DEFINE l == script.lines[i]
           c == Stream!ParseLine("stdout", l)
<1>1. l.text \in Text /\ textBuffer \o <<>> = textBuffer
  BY ScriptsAssumption DEF Text
<1> HIDE DEF l
<1>2. ~Stream!Restarts(script, l)
  BY DEF Stream!Restarts
<1>3. Stream!TextOf(script, l) = IF l.type = "message" /\ l.delta THEN l.text ELSE <<>>
  BY DEF Stream!TextOf
<1>4. Stream!ReaderKeeps("stdout", l) <=> l.type = "message" /\ l.delta
  BY DEF Stream!ReaderKeeps
<1>5. (IF Stream!ReaderKeeps("stdout", l) THEN textBuffer \o l.text ELSE textBuffer) = Stream!Tell(script, textBuffer, l)
  BY <1>1, <1>2, <1>3, <1>4 DEF Stream!Tell
<1>6. c # None => c \in Chunks
  <2>1. c = Stream!GeminiChunk(l)
    BY DEF Stream!ParseLine
  <2>2. \/ c = None \/ c = Stream!Chunk("text", l.text) \/ c = Stream!Chunk("result", textBuffer)
        \/ c = Stream!Chunk("other", Stream!Mark)
    BY <2>1 DEF Stream!GeminiChunk
  <2> QED BY <1>1, <2>2 DEF Stream!Chunk, Chunks
<1> QED BY <1>5, <1>6 DEF l

\* A chain grows at its end and loses its first link.
LEMMA LineAppended ==
    ASSUME NEW s, NEW w, NEW lines \in Seq(Printed), NEW l \in Printed, LineChain(s, w, lines),
           NEW x \in Text, x = Stream!Tell(s, w[Len(lines)], l)
    PROVE  \E u : LineChain(s, u, Append(lines, l)) /\ u[0] = w[0] /\ u[Len(Append(lines, l))] = x
<1> DEFINE n == Len(lines)
           u == [i \in 0..(n + 1) |-> IF i = n + 1 THEN x ELSE w[i]]
           longer == Append(lines, l)
<1>1. n \in Nat /\ Len(longer) = n + 1 /\ longer[n + 1] = l /\ \A i \in 1..n : longer[i] = lines[i]
  OBVIOUS
<1>2. u \in [0..(n + 1) -> Text] /\ u[n + 1] = x /\ (\A i \in 0..n : u[i] = w[i]) /\ u[0] = w[0]
  BY <1>1 DEF LineChain
<1> HIDE DEF u, longer
<1>3. ASSUME NEW i \in 1..(n + 1) PROVE u[i] = Stream!Tell(s, u[i - 1], longer[i])
  <2>1. CASE i = n + 1
    <3>1. u[i - 1] = w[n]
      BY <1>1, <1>2, <2>1
    <3> QED BY <1>1, <1>2, <2>1, <3>1
  <2>2. CASE i # n + 1
    <3>1. i \in 1..n /\ i - 1 \in 0..n /\ i \in 0..n
      BY <1>1, <2>2
    <3> QED BY <1>1, <1>2, <3>1 DEF LineChain
  <2> QED BY <2>1, <2>2
<1>4. LineChain(s, u, longer)
  BY <1>1, <1>2, <1>3 DEF LineChain
<1> QED BY <1>1, <1>2, <1>4 DEF longer

LEMMA LineTaken ==
    ASSUME NEW s, NEW w, NEW lines \in Seq(Printed), lines # <<>>, LineChain(s, w, lines)
    PROVE  /\ w[1] = Stream!Tell(s, w[0], Head(lines)) /\ w[0] \in Text /\ w[1] \in Text
           /\ \E u : LineChain(s, u, Tail(lines)) /\ u[0] = w[1] /\ u[Len(Tail(lines))] = w[Len(lines)]
<1> DEFINE n == Len(lines)
           rest == Tail(lines)
           u == [i \in 0..(n - 1) |-> w[i + 1]]
<1>1. n \in Nat \ {0} /\ Len(rest) = n - 1 /\ (\A i \in 1..(n - 1) : rest[i] = lines[i + 1]) /\ Head(lines) = lines[1]
  OBVIOUS
<1>2. u \in [0..(n - 1) -> Text] /\ (\A i \in 0..(n - 1) : u[i] = w[i + 1]) /\ u[0] = w[1] /\ u[n - 1] = w[n]
  BY <1>1 DEF LineChain
<1> HIDE DEF u, rest
<1>3. ASSUME NEW i \in 1..(n - 1) PROVE u[i] = Stream!Tell(s, u[i - 1], rest[i])
  <2>1. i \in 0..(n - 1) /\ i - 1 \in 0..(n - 1) /\ i + 1 \in 1..n /\ (i + 1) - 1 = i /\ (i - 1) + 1 = i
    BY <1>1
  <2>2. w[i + 1] = Stream!Tell(s, w[i], lines[i + 1])
    BY <2>1 DEF LineChain
  <2>3. u[i - 1] = w[i]
    BY <1>2, <2>1
  <2> QED BY <1>1, <1>2, <2>1, <2>2, <2>3
<1>4. LineChain(s, u, rest)
  BY <1>1, <1>2, <1>3 DEF LineChain
<1>5. w[1] = Stream!Tell(s, w[0], Head(lines)) /\ w[0] \in Text /\ w[1] \in Text
  BY <1>1 DEF LineChain
<1> QED BY <1>1, <1>2, <1>4, <1>5 DEF rest

LEMMA ChunkAppended ==
    ASSUME NEW s, NEW v, NEW chunks \in Seq(Chunks), NEW c \in Chunks, ChunkChain(s, v, chunks),
           NEW x \in Text, x = Stream!Kept(s, v[Len(chunks)], c)
    PROVE  \E u : ChunkChain(s, u, Append(chunks, c)) /\ u[0] = v[0] /\ u[Len(Append(chunks, c))] = x
<1> DEFINE n == Len(chunks)
           u == [i \in 0..(n + 1) |-> IF i = n + 1 THEN x ELSE v[i]]
           longer == Append(chunks, c)
<1>1. n \in Nat /\ Len(longer) = n + 1 /\ longer[n + 1] = c /\ \A i \in 1..n : longer[i] = chunks[i]
  OBVIOUS
<1>2. u \in [0..(n + 1) -> Text] /\ u[n + 1] = x /\ (\A i \in 0..n : u[i] = v[i]) /\ u[0] = v[0]
  BY <1>1 DEF ChunkChain
<1> HIDE DEF u, longer
<1>3. ASSUME NEW i \in 1..(n + 1) PROVE u[i] = Stream!Kept(s, u[i - 1], longer[i])
  <2>1. CASE i = n + 1
    <3>1. u[i - 1] = v[n]
      BY <1>1, <1>2, <2>1
    <3> QED BY <1>1, <1>2, <2>1, <3>1
  <2>2. CASE i # n + 1
    <3>1. i \in 1..n /\ i - 1 \in 0..n /\ i \in 0..n
      BY <1>1, <2>2
    <3> QED BY <1>1, <1>2, <3>1 DEF ChunkChain
  <2> QED BY <2>1, <2>2
<1>4. ChunkChain(s, u, longer)
  BY <1>1, <1>2, <1>3 DEF ChunkChain
<1> QED BY <1>1, <1>2, <1>4 DEF longer

LEMMA ChunkTaken ==
    ASSUME NEW s, NEW v, NEW chunks \in Seq(Chunks), chunks # <<>>, ChunkChain(s, v, chunks)
    PROVE  /\ v[1] = Stream!Kept(s, v[0], Head(chunks))
           /\ \E u : ChunkChain(s, u, Tail(chunks)) /\ u[0] = v[1] /\ u[Len(Tail(chunks))] = v[Len(chunks)]
<1> DEFINE n == Len(chunks)
           rest == Tail(chunks)
           u == [i \in 0..(n - 1) |-> v[i + 1]]
<1>1. n \in Nat \ {0} /\ Len(rest) = n - 1 /\ (\A i \in 1..(n - 1) : rest[i] = chunks[i + 1]) /\ Head(chunks) = chunks[1]
  OBVIOUS
<1>2. u \in [0..(n - 1) -> Text] /\ (\A i \in 0..(n - 1) : u[i] = v[i + 1]) /\ u[0] = v[1] /\ u[n - 1] = v[n]
  BY <1>1 DEF ChunkChain
<1> HIDE DEF u, rest
<1>3. ASSUME NEW i \in 1..(n - 1) PROVE u[i] = Stream!Kept(s, u[i - 1], rest[i])
  <2>1. i \in 0..(n - 1) /\ i - 1 \in 0..(n - 1) /\ i + 1 \in 1..n /\ (i + 1) - 1 = i /\ (i - 1) + 1 = i
    BY <1>1
  <2>2. v[i + 1] = Stream!Kept(s, v[i], chunks[i + 1])
    BY <2>1 DEF ChunkChain
  <2>3. u[i - 1] = v[i]
    BY <1>2, <2>1
  <2> QED BY <1>1, <1>2, <2>1, <2>2, <2>3
<1>4. ChunkChain(s, u, rest)
  BY <1>1, <1>2, <1>3 DEF ChunkChain
<1>5. v[1] = Stream!Kept(s, v[0], Head(chunks))
  BY <1>1 DEF ChunkChain
<1> QED BY <1>1, <1>2, <1>4, <1>5 DEF rest

LEMMA StreamInit == Stream!Init => StreamInv
<1> SUFFICES ASSUME Stream!Init PROVE StreamInv
  OBVIOUS
<1>1. script \in Scripts /\ left = script.lines /\ left \in Seq(Printed) /\ Emitted = 0
  BY ScriptsAssumption DEF Stream!Init, Emitted
<1>2. pipe["stdout"] = <<>> /\ pipe["stderr"] = <<>> /\ reader["stdout"].step = "scan" /\ reader["stderr"].step = "scan"
      /\ DOMAIN reader = Stream!Pipes
  BY DEF Stream!Init, Stream!Pipes
<1>3. StreamTypes
  <2>1. Stream!TypeOK
    <3>1. OutCap \in Nat /\ PipeCap \in Nat
      BY ScriptsAssumption
    <3>2. \A p \in Stream!Pipes : Len(pipe[p]) <= PipeCap /\ reader[p].step \in {"scan", "send", "signal", "over"}
      BY <1>2, <3>1 DEF Stream!Pipes
    <3>3. Len(outputChan) <= OutCap
      BY <3>1 DEF Stream!Init
    <3>4. closed = FALSE /\ processing = TRUE /\ process = "running" /\ dones = 0 /\ caller = "first"
      BY DEF Stream!Init
    <3>5. closed \in BOOLEAN /\ processing \in BOOLEAN
      BY <3>4, Zenon
    <3>6. dones \in 0..2
      BY DEF Stream!Init
    <3> QED BY <1>1, <3>2, <3>3, <3>4, <3>5, <3>6 DEF Stream!TypeOK
  <2>2. pipe \in [Stream!Pipes -> Seq(Printed)]
    BY DEF Stream!Init
  <2> QED BY <1>1, <1>2, <2>1, <2>2 DEF Stream!Init, StreamTypes, Text, Stream!Pipes
<1>4. StageInv /\ EndInv /\ Stream!AnswerComplete
  BY <1>2 DEF Stream!Init, StageInv, EndInv, Taken, Over, Stream!Pipes, Stream!AnswerComplete
<1>5. OrderInv
  <2> DEFINE w == [i \in 0..0 |-> <<>>]
  <2>1. w \in [0..0 -> Text] /\ w[0] = <<>>
    BY DEF Text
  <2>2. Queue = <<>> /\ Len(pipe["stdout"]) = 0 /\ Len(Queue) = 0 /\ textBuffer = <<>>
    BY <1>2 DEF Stream!Init, Queue, Held
  <2>3. Stream!Told(script)[0] = <<>>
    BY <1>1, ToldIs
  <2> HIDE DEF w
  <2>4. LineChain(script, w, pipe["stdout"]) /\ ChunkChain(script, w, Queue)
    BY <2>1, <2>2 DEF LineChain, ChunkChain
  <2> QED BY <1>1, <2>1, <2>2, <2>3, <2>4 DEF OrderInv, Continues
<1> QED BY <1>3, <1>4, <1>5 DEF StreamInv

LEMMA EmitKeeps == StreamInv /\ Stream!Emit => StreamInv'
<1> SUFFICES ASSUME StreamInv, Stream!Emit PROVE StreamInv'
  OBVIOUS
<1> DEFINE l == Head(left)
           e == Emitted
<1>1. /\ process = "running" /\ left # <<>> /\ Len(pipe[l.pipe]) < PipeCap
      /\ pipe' = [pipe EXCEPT ![l.pipe] = Append(@, l)] /\ left' = Tail(left)
      /\ UNCHANGED <<script, process, reader, outputChan, closed, dones, textBuffer, processing, caller, answer>>
  BY DEF Stream!Emit
<1>2. /\ script \in Scripts /\ script.lines \in Seq(Printed) /\ left \in Seq(Printed)
      /\ Len(left) <= Len(script.lines) /\ Len(script.lines) \in Nat
  BY ScriptsAssumption DEF StreamInv, StreamTypes, Stream!TypeOK
<1>3. /\ e \in Nat /\ e + 1 \in DOMAIN script.lines /\ e + 1 \in 1..Len(script.lines) /\ l = script.lines[e + 1]
      /\ Emitted' = e + 1 /\ Len(left') = Len(left) - 1 /\ left' \in Seq(Printed)
      /\ \A i \in 1..Len(left') : left'[i] = left[i + 1]
  <2>1. Len(left) \in Nat \ {0} /\ l = left[1] /\ Len(Tail(left)) = Len(left) - 1 /\ Tail(left) \in Seq(Printed)
        /\ \A i \in 1..(Len(left) - 1) : Tail(left)[i] = left[i + 1]
    BY <1>1, <1>2
  <2>2. left[1] = script.lines[e + 1]
    BY <2>1 DEF StreamInv, StreamTypes
  <2>3. DOMAIN script.lines = 1..Len(script.lines)
    BY <1>2
  <2> HIDE DEF l
  <2> QED BY <1>1, <1>2, <2>1, <2>2, <2>3 DEF Emitted
<1>4. l \in Printed /\ l.pipe \in Stream!Pipes /\ (l.pipe = "stderr" => l.type \in {"noise", "long"})
  BY <1>2, <1>3, ScriptsAssumption
<1> HIDE DEF l, e
<1>5. /\ pipe' \in [Stream!Pipes -> Seq(Printed)]
      /\ pipe'[l.pipe] = Append(pipe[l.pipe], l)
      /\ \A p \in Stream!Pipes : p # l.pipe => pipe'[p] = pipe[p]
  BY <1>1, <1>4 DEF StreamInv, StreamTypes
<1>6. StreamTypes'
  <2>1. ASSUME NEW i \in 1..Len(left') PROVE left'[i] = script.lines[Emitted' + i]
    <3>1. i + 1 \in 1..Len(left) /\ e + (i + 1) = Emitted' + i
      BY <1>2, <1>3
    <3>2. left[i + 1] = script.lines[e + (i + 1)]
      BY <3>1 DEF StreamInv, StreamTypes, e
    <3> QED BY <1>3, <3>1, <3>2
  <2>2. ASSUME NEW p \in Stream!Pipes, NEW i \in 1..Len(pipe'[p])
        PROVE  pipe'[p][i].pipe = p /\ \E j \in DOMAIN script.lines : pipe'[p][i] = script.lines[j]
    <3>0. pipe[p] \in Seq(Printed)
      BY DEF StreamInv, StreamTypes
    <3>1. CASE p # l.pipe
      BY <1>5, <3>1 DEF StreamInv, StreamTypes
    <3>2. CASE p = l.pipe
      <4>1. CASE i \in 1..Len(pipe[p])
        <5>1. pipe'[p][i] = pipe[p][i]
          BY <1>4, <1>5, <3>0, <3>2, <4>1
        <5> QED BY <4>1, <5>1 DEF StreamInv, StreamTypes
      <4>2. CASE i \notin 1..Len(pipe[p])
        <5>1. pipe'[p][i] = l
          BY <1>4, <1>5, <3>0, <3>2, <4>2
        <5> QED BY <1>3, <3>2, <5>1
      <4> QED BY <4>1, <4>2
    <3> QED BY <3>1, <3>2
  <2>3. Stream!TypeOK'
    <3>1. ASSUME NEW p \in Stream!Pipes PROVE Len(pipe'[p]) <= PipeCap
      <4>1. CASE p = l.pipe
        <5>1. Len(pipe'[p]) = Len(pipe[p]) + 1 /\ Len(pipe[p]) \in Nat
          BY <1>4, <1>5, <4>1 DEF StreamInv, StreamTypes
        <5> QED BY <1>1, <4>1, <5>1, ScriptsAssumption
      <4>2. CASE p # l.pipe
        BY <1>5, <4>2 DEF StreamInv, StreamTypes, Stream!TypeOK
      <4> QED BY <4>1, <4>2
    <3> QED BY <1>1, <3>1 DEF StreamInv, StreamTypes, Stream!TypeOK
  <2>4. Len(left') <= Len(script.lines)
    BY <1>2, <1>3
  <2>5. \A i \in 1..Len(left') : left'[i] = script'.lines[Emitted' + i]
    BY <1>1, <2>1
  <2>6. \A p \in Stream!Pipes : \A i \in 1..Len(pipe'[p]) :
          pipe'[p][i].pipe = p /\ \E j \in DOMAIN script'.lines : pipe'[p][i] = script'.lines[j]
    BY <1>1, <2>2
  <2> QED BY <1>1, <1>3, <1>5, <2>3, <2>4, <2>5, <2>6 DEF StreamInv, StreamTypes
<1>7. StageInv' /\ Stream!AnswerComplete'
  BY <1>1 DEF StreamInv, StageInv, Over, Taken, Stream!AnswerComplete, Stream!Expected, Stream!NoLongLine
<1>8. EndInv'
  BY <1>1 DEF StreamInv, EndInv, Stream!NoLongLine
<1>9. OrderInv'
  <2> SUFFICES ASSUME Stream!NoLongLine
               PROVE  Continues(script, textBuffer, Queue, pipe'["stdout"], Stream!Told(script)[e + 1])
    BY <1>1, <1>3 DEF OrderInv, Queue, Held, Stream!NoLongLine
  <2>1. PICK w : /\ LineChain(script, w, pipe["stdout"])
                 /\ w[Len(pipe["stdout"])] = Stream!Told(script)[e]
                 /\ IF script.agent = "gemini" THEN w[0] = textBuffer
                    ELSE \E v : ChunkChain(script, v, Queue) /\ v[0] = textBuffer /\ v[Len(Queue)] = w[0]
    BY DEF StreamInv, OrderInv, Continues, e
  <2>2. /\ Stream!Told(script)[e + 1] = Stream!Tell(script, Stream!Told(script)[e], l)
        /\ Stream!Told(script)[e] \in Text /\ Stream!Told(script)[e + 1] \in Text
    <3>1. e \in 0..Len(script.lines) /\ e + 1 \in 0..Len(script.lines) /\ (e + 1) - 1 = e
      BY <1>2, <1>3
    <3> QED BY <1>2, <1>3, <3>1, ToldIs
  <2>3. CASE l.pipe = "stdout"
    <3>1. pipe'["stdout"] = Append(pipe["stdout"], l) /\ pipe["stdout"] \in Seq(Printed)
      BY <1>4, <1>5, <2>3 DEF StreamInv, StreamTypes
    <3>2. PICK s, t, x : s = script /\ t = pipe["stdout"] /\ x = Stream!Told(script)[e + 1]
      OBVIOUS
    <3>3. x = Stream!Tell(s, w[Len(t)], l) /\ x \in Text /\ t \in Seq(Printed) /\ LineChain(s, w, t)
      BY <2>1, <2>2, <3>1, <3>2
    <3>4. PICK u : LineChain(s, u, Append(t, l)) /\ u[0] = w[0] /\ u[Len(Append(t, l))] = x
      BY <1>4, <3>3, LineAppended
    <3> QED BY <2>1, <3>1, <3>2, <3>4 DEF Continues
  <2>4. CASE l.pipe = "stderr"
    <3>1. pipe'["stdout"] = pipe["stdout"]
      BY <1>5, <2>4 DEF Stream!Pipes
    <3>2. Stream!Told(script)[e + 1] = Stream!Told(script)[e]
      BY <1>2, <1>3, <1>4, <2>2, <2>4, TellIsText
    <3> QED BY <2>1, <3>1, <3>2 DEF Continues
  <2> QED BY <1>4, <2>3, <2>4 DEF Stream!Pipes
<1> QED BY <1>6, <1>7, <1>8, <1>9 DEF StreamInv

LEMMA ExitKeeps == StreamInv /\ Stream!Exit => StreamInv'
<1> SUFFICES ASSUME StreamInv, Stream!Exit PROVE StreamInv'
  OBVIOUS
<1>1. /\ process = "running" /\ process' \in {"timeout", "failed", "zero"} /\ (process' = "zero" => left = <<>>)
      /\ UNCHANGED <<script, left, pipe, reader, outputChan, closed, dones, textBuffer, processing, caller, answer>>
  BY DEF Stream!Exit
<1>2. StreamTypes'
  BY <1>1 DEF StreamInv, StreamTypes, Stream!TypeOK, Emitted
<1>3. StageInv' /\ Stream!AnswerComplete'
  BY <1>1 DEF StreamInv, StageInv, Over, Taken, Stream!AnswerComplete, Stream!Expected, Stream!NoLongLine
<1>4. EndInv'
  BY <1>1 DEF StreamInv, EndInv, Stream!NoLongLine
<1>5. OrderInv'
  BY <1>1 DEF StreamInv, OrderInv, Queue, Held, Stream!NoLongLine, Emitted
<1> QED BY <1>2, <1>3, <1>4, <1>5 DEF StreamInv

\* What a step of a reader does to the readers and to the counts.
LEMMA ReaderSet ==
    ASSUME StreamInv, NEW p \in Stream!Pipes, NEW s, NEW c, Stream!Set(p, s, c)
    PROVE  /\ DOMAIN reader' = Stream!Pipes
           /\ reader'[p].step = s /\ reader'[p].chunk = c
           /\ \A q \in Stream!Pipes : q # p => reader'[q] = reader[q]
BY DEF StreamInv, StreamTypes, Stream!Set

LEMMA SameCounts ==
    ASSUME StreamInv, NEW p \in Stream!Pipes, NEW s, NEW c, Stream!Set(p, s, c), s # "over",
           reader[p].step # "over", UNCHANGED <<script, closed, dones, processing, caller, answer>>,
           outputChan' = outputChan \/ processing
    PROVE  StageInv' /\ Stream!AnswerComplete'
<1>1. \A q \in Stream!Pipes : Over(q)' = Over(q)
  BY ReaderSet DEF Over
<1>2. StageInv'
  <2>1. Over("stdout")' = Over("stdout") /\ Over("stderr")' = Over("stderr") /\ Taken' = Taken
    BY <1>1 DEF Stream!Pipes, Taken
  <2> QED BY <2>1 DEF StreamInv, StageInv
<1>3. Stream!AnswerComplete'
  BY DEF StreamInv, Stream!AnswerComplete, Stream!Expected, Stream!NoLongLine
<1> QED BY <1>2, <1>3

\* Behind the second token both readers are through.
LEMMA BothOver ==
    ASSUME StreamInv, caller \notin {"first", "second"}
    PROVE  dones = 0 /\ \A p \in Stream!Pipes : reader[p].step = "over"
<1>1. dones \in Nat /\ Taken = 2 /\ dones + Taken = Over("stdout") + Over("stderr")
  BY DEF StreamInv, StreamTypes, Stream!TypeOK, StageInv, Taken
<1>2. Over("stdout") \in {0, 1} /\ Over("stderr") \in {0, 1}
  BY DEF Over
<1>3. dones = 0 /\ Over("stdout") = 1 /\ Over("stderr") = 1
  BY <1>1, <1>2
<1> QED BY <1>3 DEF Over, Stream!Pipes

LEMMA ScanKeeps == ASSUME StreamInv, NEW p \in Stream!Pipes, Stream!Scan(p) PROVE StreamInv'
<1> DEFINE l == Head(pipe[p])
           c == Stream!ParseLine(p, l)
<1>1. /\ reader[p].step = "scan" /\ pipe[p] # <<>> /\ pipe' = [pipe EXCEPT ![p] = Tail(@)]
      /\ UNCHANGED <<script, left, process, closed, processing, caller, answer, outputChan, dones>>
  BY DEF Stream!Scan, Stream!ReaderIs, Stream!readerVars
<1>2. \/ l.type = "long" /\ Stream!Set(p, "signal", None) /\ textBuffer' = textBuffer
      \/ /\ l.type # "long" /\ Stream!Set(p, IF c = None THEN "scan" ELSE "send", c)
         /\ textBuffer' = IF Stream!ReaderKeeps(p, l) THEN textBuffer \o l.text ELSE textBuffer
  BY DEF Stream!Scan
<1>3. /\ script \in Scripts /\ pipe[p] \in Seq(Printed) /\ textBuffer \in Text
      /\ 1 \in 1..Len(pipe[p]) /\ l = pipe[p][1]
  BY <1>1 DEF StreamInv, StreamTypes, Stream!TypeOK
<1>4. PICK i \in DOMAIN script.lines : l = script.lines[i] /\ l.pipe = p
  <2>1. pipe[p][1].pipe = p /\ \E j \in DOMAIN script.lines : pipe[p][1] = script.lines[j]
    BY <1>3 DEF StreamInv, StreamTypes
  <2> HIDE DEF l
  <2> QED BY <1>3, <2>1
<1>5. /\ pipe' \in [Stream!Pipes -> Seq(Printed)] /\ pipe'[p] = Tail(pipe[p])
      /\ \A q \in Stream!Pipes : q # p => pipe'[q] = pipe[q]
      /\ Len(Tail(pipe[p])) = Len(pipe[p]) - 1 /\ Tail(pipe[p]) \in Seq(Printed)
      /\ \A k \in 1..(Len(pipe[p]) - 1) : Tail(pipe[p])[k] = pipe[p][k + 1]
  <2>1. Tail(pipe[p]) \in Seq(Printed)
    BY <1>1, <1>3
  <2> QED BY <1>1, <1>3, <2>1 DEF StreamInv, StreamTypes
<1>6. \A q \in Stream!Pipes : \A k \in 1..Len(pipe'[q]) :
        pipe'[q][k].pipe = q /\ \E j \in DOMAIN script.lines : pipe'[q][k] = script.lines[j]
  <2> SUFFICES ASSUME NEW q \in Stream!Pipes, NEW k \in 1..Len(pipe'[q])
               PROVE  pipe'[q][k].pipe = q /\ \E j \in DOMAIN script.lines : pipe'[q][k] = script.lines[j]
    OBVIOUS
  <2>1. CASE q # p
    BY <1>5, <2>1 DEF StreamInv, StreamTypes
  <2>2. CASE q = p
    <3>1. k \in 1..(Len(pipe[p]) - 1) /\ k + 1 \in 1..Len(pipe[p]) /\ pipe'[q][k] = pipe[p][k + 1]
      BY <1>3, <1>5, <2>2
    <3> QED BY <2>2, <3>1 DEF StreamInv, StreamTypes
  <2> QED BY <2>1, <2>2
<1>7. \A q \in Stream!Pipes : Len(pipe'[q]) <= PipeCap
  <2>1. Len(pipe[p]) \in Nat /\ PipeCap \in Nat /\ \A q \in Stream!Pipes : Len(pipe[q]) <= PipeCap
    BY <1>3, ScriptsAssumption DEF StreamInv, StreamTypes, Stream!TypeOK
  <2> QED BY <1>5, <2>1
<1> HIDE DEF l, c
<1>8. p = "stderr" => /\ (l.type # "long" => c = None)
                      /\ ~Stream!ReaderKeeps(p, l)
  <2> SUFFICES ASSUME p = "stderr" PROVE (l.type # "long" => c = None) /\ ~Stream!ReaderKeeps(p, l)
    OBVIOUS
  <2>1. l.type \in {"noise", "long"} /\ script.agent \in {"cursor", "gemini", "qoder"}
    BY <1>3, <1>4, ScriptsAssumption
  <2>2. ASSUME l.type # "long" PROVE c = None
    <3>1. Stream!CursorChunk(l) = None
      BY <2>1, <2>2 DEF Stream!CursorChunk, Stream!Marked
    <3> QED BY <2>1, <3>1 DEF c, Stream!ParseLine
  <2> QED BY <2>2 DEF Stream!ReaderKeeps
<1>9. l.type = "long" => ~Stream!NoLongLine
  BY <1>4 DEF Stream!NoLongLine
<1>10. /\ textBuffer' \in Text
       /\ p = "stdout" /\ l.type # "long" /\ c # None => c \in Chunks
       /\ p = "stdout" /\ l.type # "long" /\ script.agent = "gemini" =>
             textBuffer' = Stream!Tell(script, textBuffer, l)
       /\ script.agent # "gemini" \/ p = "stderr" => textBuffer' = textBuffer
       /\ p = "stdout" /\ script.agent # "gemini" => \A t \in Text :
             /\ c = None => Stream!Tell(script, t, l) = t
             /\ c # None => Stream!Kept(script, t, c) = Stream!Tell(script, t, l)
  <2>1. CASE p = "stderr"
    BY <1>2, <1>3, <1>8, <2>1
  <2>2. CASE p = "stdout" /\ script.agent = "gemini"
    <3>1. /\ (IF Stream!ReaderKeeps(p, l) THEN textBuffer \o l.text ELSE textBuffer)
                = Stream!Tell(script, textBuffer, l)
          /\ c # None => c \in Chunks
      BY <1>3, <1>4, <2>2, GeminiTells DEF c
    <3>2. Stream!Tell(script, textBuffer, l) \in Text
      BY <1>3, <1>4, TellIsText
    <3> QED BY <1>2, <1>3, <2>2, <3>1, <3>2
  <2>3. CASE p = "stdout" /\ script.agent # "gemini"
    <3>1. ASSUME NEW t \in Text
          PROVE  /\ c = None => Stream!Tell(script, t, l) = t
                 /\ c # None => c \in Chunks /\ Stream!Kept(script, t, c) = Stream!Tell(script, t, l)
      BY <1>3, <1>4, <2>3, ChunkTells DEF c
    <3>2. textBuffer' = textBuffer
      BY <1>2, <2>3 DEF Stream!ReaderKeeps
    <3> QED BY <1>3, <2>3, <3>1, <3>2
  <2> QED BY <2>1, <2>2, <2>3 DEF Stream!Pipes
<1>11. PICK s, d :
         /\ s \in {"scan", "send", "signal"} /\ Stream!Set(p, s, d)
         /\ (l.type = "long" /\ s = "signal") \/ (l.type # "long" /\ d = c /\ s = IF c = None THEN "scan" ELSE "send")
  BY <1>2
<1>12. /\ DOMAIN reader' = Stream!Pipes /\ reader'[p].step = s /\ reader'[p].chunk = d
       /\ \A q \in Stream!Pipes : q # p => reader'[q] = reader[q]
  BY <1>11, ReaderSet
<1>13. StreamTypes'
  <2>1. Stream!TypeOK'
    <3>1. \A q \in Stream!Pipes : reader'[q].step \in {"scan", "send", "signal", "over"}
      BY <1>11, <1>12 DEF StreamInv, StreamTypes, Stream!TypeOK
    <3> QED BY <1>1, <1>7, <3>1 DEF StreamInv, StreamTypes, Stream!TypeOK
  <2>2. reader'["stdout"].step = "send" => reader'["stdout"].chunk \in Chunks
    <3>1. CASE p = "stdout"
      BY <1>10, <1>11, <1>12, <3>1
    <3>2. CASE p = "stderr"
      BY <1>12, <3>2 DEF StreamInv, StreamTypes, Stream!Pipes
    <3> QED BY <3>1, <3>2 DEF Stream!Pipes
  <2>3. reader'["stderr"].step # "send"
    <3>1. CASE p = "stdout"
      BY <1>12, <3>1 DEF StreamInv, StreamTypes, Stream!Pipes
    <3>2. CASE p = "stderr"
      BY <1>8, <1>11, <1>12, <3>2
    <3> QED BY <3>1, <3>2 DEF Stream!Pipes
  <2>4. Emitted' = Emitted
    BY <1>1 DEF Emitted
  <2>5. \A q \in Stream!Pipes : \A k \in 1..Len(pipe'[q]) :
          pipe'[q][k].pipe = q /\ \E j \in DOMAIN script'.lines : pipe'[q][k] = script'.lines[j]
    <3>1. script' = script
      BY <1>1
    <3> QED BY <1>6, <3>1
  <2> QED BY <1>1, <1>5, <1>10, <1>12, <2>1, <2>2, <2>3, <2>4, <2>5 DEF StreamInv, StreamTypes
<1>14. StageInv' /\ Stream!AnswerComplete'
  BY <1>1, <1>11, SameCounts
<1>15. EndInv'
  <2>1. ASSUME Stream!NoLongLine, NEW q \in Stream!Pipes, reader'[q].step \in {"signal", "over"}
        PROVE  pipe'[q] = <<>> /\ process # "running"
    <3>1. q # p
      BY <1>9, <1>11, <1>12, <2>1
    <3> QED BY <1>5, <1>12, <2>1, <3>1 DEF StreamInv, EndInv
  <2> QED BY <1>1, <2>1 DEF StreamInv, EndInv, Stream!NoLongLine
<1>16. OrderInv'
  <2> SUFFICES ASSUME Stream!NoLongLine
               PROVE  Continues(script, textBuffer', Queue', pipe'["stdout"], Stream!Told(script)[Emitted])
    BY <1>1 DEF OrderInv, Stream!NoLongLine, Emitted
  <2>1. PICK w : /\ LineChain(script, w, pipe["stdout"])
                 /\ w[Len(pipe["stdout"])] = Stream!Told(script)[Emitted]
                 /\ IF script.agent = "gemini" THEN w[0] = textBuffer
                    ELSE \E v : ChunkChain(script, v, Queue) /\ v[0] = textBuffer /\ v[Len(Queue)] = w[0]
    BY DEF StreamInv, OrderInv, Continues
  <2>2. CASE p = "stderr"
    <3>1. pipe'["stdout"] = pipe["stdout"] /\ reader'["stdout"] = reader["stdout"] /\ textBuffer' = textBuffer
      BY <1>5, <1>10, <1>12, <2>2 DEF Stream!Pipes
    <3>2. Queue' = Queue
      BY <1>1, <3>1 DEF Queue, Held
    <3> QED BY <2>1, <3>1, <3>2 DEF Continues
  <2>3. CASE p = "stdout"
    <3>1. l.type # "long" /\ s = (IF c = None THEN "scan" ELSE "send") /\ d = c
      BY <1>9, <1>11
    <3>2. PICK sc, lines : sc = script /\ lines = pipe["stdout"]
      OBVIOUS
    <3>3. lines \in Seq(Printed) /\ lines # <<>> /\ LineChain(sc, w, lines) /\ Head(lines) = l
      BY <1>1, <1>3, <2>1, <2>3, <3>2 DEF l
    <3>4. /\ w[1] = Stream!Tell(sc, w[0], Head(lines)) /\ w[0] \in Text /\ w[1] \in Text
          /\ \E u : LineChain(sc, u, Tail(lines)) /\ u[0] = w[1] /\ u[Len(Tail(lines))] = w[Len(lines)]
      BY <3>3, LineTaken
    <3>5. PICK u : LineChain(script, u, pipe'["stdout"]) /\ u[0] = w[1]
                   /\ u[Len(pipe'["stdout"])] = Stream!Told(script)[Emitted]
      BY <1>5, <2>1, <2>3, <3>2, <3>4
    <3>6. w[1] = Stream!Tell(script, w[0], l)
      BY <3>2, <3>3, <3>4
    <3>7. CASE script.agent = "gemini"
      <4>1. w[1] = textBuffer'
        BY <1>10, <2>1, <2>3, <3>1, <3>6, <3>7
      <4> QED BY <3>5, <3>7, <4>1 DEF Continues
    <3>8. CASE script.agent # "gemini"
      <4>1. PICK v : ChunkChain(script, v, Queue) /\ v[0] = textBuffer /\ v[Len(Queue)] = w[0]
        BY <2>1, <3>8
      <4>2. textBuffer' = textBuffer
        BY <1>10, <3>8
      <4>3. outputChan \in Seq(Chunks) /\ Queue = outputChan
        BY <1>1, <2>3 DEF StreamInv, StreamTypes, Queue, Held
      <4>4. CASE c = None
        <5>1. Queue' = Queue
          BY <1>1, <1>12, <2>3, <3>1, <4>3, <4>4 DEF Queue, Held
        <5>2. w[1] = w[0]
          BY <1>10, <2>3, <3>4, <3>6, <3>8, <4>4
        <5> QED BY <3>5, <3>8, <4>1, <4>2, <5>1, <5>2 DEF Continues
      <4>5. CASE c # None
        <5>1. c \in Chunks /\ Queue' = Append(outputChan, c)
          <6>1. c \in Chunks
            BY <1>10, <2>3, <3>1, <4>5
          <6>2. Held' = <<c>>
            BY <1>12, <2>3, <3>1, <4>5 DEF Held
          <6>3. outputChan \o <<c>> = Append(outputChan, c)
            BY <4>3, <6>1
          <6> QED BY <1>1, <6>1, <6>2, <6>3 DEF Queue
        <5>2. w[1] = Stream!Kept(script, w[0], c)
          BY <1>10, <2>3, <3>4, <3>6, <3>8, <4>5
        <5>3. PICK chunks, x : chunks = outputChan /\ x = w[1]
          OBVIOUS
        <5>4. ChunkChain(sc, v, chunks) /\ x = Stream!Kept(sc, v[Len(chunks)], c) /\ x \in Text /\ chunks \in Seq(Chunks)
          BY <3>2, <3>4, <4>1, <4>3, <5>2, <5>3
        <5>5. PICK y : ChunkChain(sc, y, Append(chunks, c)) /\ y[0] = v[0] /\ y[Len(Append(chunks, c))] = x
          BY <5>1, <5>4, ChunkAppended
        <5>6. ChunkChain(script, y, Queue') /\ y[0] = textBuffer' /\ y[Len(Queue')] = u[0]
          BY <3>2, <3>5, <4>1, <4>2, <5>1, <5>3, <5>5
        <5> QED BY <3>5, <3>8, <5>6 DEF Continues
      <4> QED BY <4>4, <4>5
    <3> QED BY <3>7, <3>8
  <2> QED BY <2>2, <2>3 DEF Stream!Pipes
<1> QED BY <1>13, <1>14, <1>15, <1>16 DEF StreamInv

\* A reader that goes on to a step other than "send", all else as it was.
LEMMA ReaderMoves ==
    ASSUME StreamInv, NEW p \in Stream!Pipes, NEW s \in {"signal", "over"}, Stream!Set(p, s, None),
           reader[p].step # "send", UNCHANGED <<script, left, process, pipe, outputChan, textBuffer, closed, processing, caller, answer>>,
           dones' \in 0..2
    PROVE  StreamTypes' /\ Stream!AnswerComplete' /\ OrderInv'
<1>1. /\ DOMAIN reader' = Stream!Pipes /\ reader'[p].step = s
      /\ \A q \in Stream!Pipes : q # p => reader'[q] = reader[q]
  BY ReaderSet
<1>2. StreamTypes'
  <2>1. \A q \in Stream!Pipes : reader'[q].step \in {"scan", "send", "signal", "over"}
    BY <1>1 DEF StreamInv, StreamTypes, Stream!TypeOK
  <2>2. /\ reader'["stderr"].step # "send"
        /\ reader'["stdout"].step = "send" => reader'["stdout"].chunk \in Chunks
    BY <1>1 DEF StreamInv, StreamTypes, Stream!Pipes
  <2>3. Stream!TypeOK'
    BY <2>1 DEF StreamInv, StreamTypes, Stream!TypeOK
  <2> QED BY <1>1, <2>2, <2>3 DEF StreamInv, StreamTypes, Emitted
<1>3. Stream!AnswerComplete'
  BY DEF StreamInv, Stream!AnswerComplete, Stream!Expected, Stream!NoLongLine
<1>4. Queue' = Queue
  BY <1>1 DEF Queue, Held, Stream!Pipes
<1>5. OrderInv'
  BY <1>4 DEF StreamInv, OrderInv, Stream!NoLongLine, Emitted
<1> QED BY <1>2, <1>3, <1>5

LEMMA EndOfOutputKeeps == ASSUME StreamInv, NEW p \in Stream!Pipes, Stream!EndOfOutput(p) PROVE StreamInv'
<1>1. /\ reader[p].step = "scan" /\ pipe[p] = <<>> /\ process # "running" /\ Stream!Set(p, "signal", None)
      /\ UNCHANGED <<script, left, process, pipe, outputChan, textBuffer, closed, processing, caller, answer, dones>>
  BY DEF Stream!EndOfOutput, Stream!ReaderIs, Stream!readerVars
<1>2. StreamTypes' /\ Stream!AnswerComplete' /\ OrderInv'
  BY <1>1, ReaderMoves DEF StreamInv, StreamTypes, Stream!TypeOK
<1>3. StageInv'
  BY <1>1, SameCounts
<1>4. EndInv'
  BY <1>1, ReaderSet DEF StreamInv, EndInv, Stream!NoLongLine
<1> QED BY <1>2, <1>3, <1>4 DEF StreamInv

LEMMA DoneKeeps == ASSUME StreamInv, NEW p \in Stream!Pipes, Stream!Done(p) PROVE StreamInv'
<1>1. /\ reader[p].step = "signal" /\ dones < 2 /\ dones' = dones + 1 /\ Stream!Set(p, "over", None)
      /\ UNCHANGED <<script, left, process, pipe, outputChan, textBuffer, closed, processing, caller, answer>>
  BY DEF Stream!Done, Stream!ReaderIs, Stream!readerVars
<1>2. dones \in 0..2
  BY DEF StreamInv, StreamTypes, Stream!TypeOK
<1>3. StreamTypes' /\ Stream!AnswerComplete' /\ OrderInv'
  BY <1>1, <1>2, ReaderMoves
<1>4. StageInv'
  <2>1. Over("stdout")' + Over("stderr")' = Over("stdout") + Over("stderr") + 1
    <3>1. /\ reader'[p].step = "over" /\ \A q \in Stream!Pipes : q # p => reader'[q] = reader[q]
      BY <1>1, ReaderSet
    <3>2. Over(p) = 0 /\ Over(p)' = 1 /\ \A q \in Stream!Pipes : q # p => Over(q)' = Over(q)
      BY <1>1, <3>1 DEF Over
    <3>3. Over("stdout") \in {0, 1} /\ Over("stderr") \in {0, 1}
      BY DEF Over
    <3> QED BY <3>2, <3>3 DEF Stream!Pipes
  <2>2. Taken' = Taken /\ Taken \in {0, 1, 2}
    BY <1>1 DEF Taken
  <2>3. Over("stdout") \in {0, 1} /\ Over("stderr") \in {0, 1}
    BY DEF Over
  <2>4. dones' + Taken' = Over("stdout")' + Over("stderr")'
    BY <1>1, <1>2, <2>1, <2>2, <2>3 DEF StreamInv, StageInv
  <2> QED BY <1>1, <2>4 DEF StreamInv, StageInv
<1>5. EndInv'
  BY <1>1, ReaderSet DEF StreamInv, EndInv, Stream!NoLongLine
<1> QED BY <1>3, <1>4, <1>5 DEF StreamInv

LEMMA SendKeeps == ASSUME StreamInv, NEW p \in Stream!Pipes, Stream!Send(p) PROVE StreamInv'
<1>1. /\ reader[p].step = "send" /\ Len(outputChan) < OutCap /\ outputChan' = Append(outputChan, reader[p].chunk)
      /\ Stream!Set(p, "scan", None)
      /\ UNCHANGED <<script, left, process, pipe, textBuffer, closed, processing, caller, answer, dones>>
  BY DEF Stream!Send, Stream!ReaderIs, Stream!readerVars
<1>2. p = "stdout" /\ reader[p].chunk \in Chunks /\ outputChan \in Seq(Chunks)
  BY <1>1 DEF StreamInv, StreamTypes, Stream!Pipes
<1>3. /\ DOMAIN reader' = Stream!Pipes /\ reader'["stdout"].step = "scan" /\ reader'["stderr"] = reader["stderr"]
  BY <1>1, <1>2, ReaderSet DEF Stream!Pipes
<1>4. outputChan' \in Seq(Chunks) /\ Len(outputChan') <= OutCap
  <2>1. Len(outputChan') = Len(outputChan) + 1 /\ Len(outputChan) \in Nat /\ OutCap \in Nat
    BY <1>1, <1>2, ScriptsAssumption
  <2> QED BY <1>1, <1>2, <2>1
<1>5. Queue' = Queue
  <2>1. Held' = <<>> /\ Held = <<reader["stdout"].chunk>>
    BY <1>1, <1>2, <1>3 DEF Held
  <2>2. outputChan' \o <<>> = outputChan \o <<reader["stdout"].chunk>>
    BY <1>1, <1>2, <1>4
  <2> QED BY <2>1, <2>2 DEF Queue
<1>6. processing
  <2>1. ~(\A q \in Stream!Pipes : reader[q].step = "over")
    BY <1>1
  <2>2. caller \in {"first", "second"}
    BY <2>1, BothOver
  <2> QED BY <2>2 DEF StreamInv, StageInv
<1>7. StreamTypes'
  <2>1. \A q \in Stream!Pipes : reader'[q].step \in {"scan", "send", "signal", "over"}
    BY <1>3 DEF StreamInv, StreamTypes, Stream!TypeOK, Stream!Pipes
  <2>2. Stream!TypeOK'
    BY <1>1, <1>4, <2>1 DEF StreamInv, StreamTypes, Stream!TypeOK
  <2> QED BY <1>1, <1>3, <1>4, <2>2 DEF StreamInv, StreamTypes, Emitted
<1>8. StageInv' /\ Stream!AnswerComplete'
  BY <1>1, <1>6, SameCounts
<1>9. EndInv'
  BY <1>1, <1>3 DEF StreamInv, EndInv, Stream!NoLongLine, Stream!Pipes
<1>10. OrderInv'
  BY <1>1, <1>5 DEF StreamInv, OrderInv, Stream!NoLongLine, Emitted
<1> QED BY <1>7, <1>8, <1>9, <1>10 DEF StreamInv

LEMMA ProcessKeeps == StreamInv /\ Stream!Process => StreamInv'
<1> SUFFICES ASSUME StreamInv, Stream!Process PROVE StreamInv'
  OBVIOUS
<1>1. processing /\ UNCHANGED <<script, left, process, pipe, reader, closed, dones, caller, answer>>
  BY DEF Stream!Process
<1>2. outputChan \in Seq(Chunks) /\ textBuffer \in Text /\ Held \in Seq(Chunks)
  BY DEF StreamInv, StreamTypes, Held
<1>3. EndInv' /\ Stream!AnswerComplete'
  BY <1>1 DEF StreamInv, EndInv, Stream!AnswerComplete, Stream!Expected, Stream!NoLongLine
<1>4. Over("stdout")' = Over("stdout") /\ Over("stderr")' = Over("stderr") /\ Taken' = Taken /\ Held' = Held /\ Emitted' = Emitted
  BY <1>1 DEF Over, Taken, Held, Emitted
<1>5. CASE outputChan # <<>> /\ textBuffer' = Stream!Kept(script, textBuffer, Head(outputChan))
           /\ outputChan' = Tail(outputChan) /\ UNCHANGED processing
  <2> DEFINE c == Head(outputChan)
  <2>1. c \in Chunks /\ Tail(outputChan) \in Seq(Chunks) /\ Len(Tail(outputChan)) <= OutCap
    <3>1. Len(Tail(outputChan)) = Len(outputChan) - 1 /\ Len(outputChan) \in Nat /\ Len(outputChan) <= OutCap /\ OutCap \in Nat
      BY <1>2, <1>5, ScriptsAssumption DEF StreamInv, StreamTypes, Stream!TypeOK
    <3> QED BY <1>2, <1>5, <3>1
  <2> HIDE DEF c
  <2>2. Stream!Kept(script, textBuffer, c) \in Text
    <3>1. c.type # "other" => c.text \in Text
      BY <2>1 DEF Chunks
    <3>2. \A x \in Text : textBuffer \o x \in Text
      BY <1>2 DEF Text
    <3> QED BY <1>2, <3>1, <3>2 DEF Stream!Kept
  <2>3. StreamTypes'
    <3>1. Stream!TypeOK'
      BY <1>1, <1>5, <2>1 DEF StreamInv, StreamTypes, Stream!TypeOK
    <3> QED BY <1>1, <1>4, <1>5, <2>1, <2>2, <3>1 DEF StreamInv, StreamTypes, c
  <2>4. StageInv'
    BY <1>1, <1>4, <1>5 DEF StreamInv, StageInv
  <2>5. OrderInv'
    <3> SUFFICES ASSUME Stream!NoLongLine
                 PROVE  Continues(script, textBuffer', Queue', pipe["stdout"], Stream!Told(script)[Emitted])
      BY <1>1, <1>4 DEF OrderInv, Stream!NoLongLine
    <3>1. PICK w : /\ LineChain(script, w, pipe["stdout"])
                   /\ w[Len(pipe["stdout"])] = Stream!Told(script)[Emitted]
                   /\ IF script.agent = "gemini" THEN w[0] = textBuffer
                      ELSE \E v : ChunkChain(script, v, Queue) /\ v[0] = textBuffer /\ v[Len(Queue)] = w[0]
      BY DEF StreamInv, OrderInv, Continues
    <3>2. CASE script.agent = "gemini"
      <4>1. textBuffer' = textBuffer
        BY <1>5, <3>2 DEF Stream!Kept
      <4> QED BY <3>1, <3>2, <4>1 DEF Continues
    <3>3. CASE script.agent # "gemini"
      <4>1. PICK v : ChunkChain(script, v, Queue) /\ v[0] = textBuffer /\ v[Len(Queue)] = w[0]
        BY <3>1, <3>3
      <4>2. Queue \in Seq(Chunks) /\ Queue # <<>> /\ Head(Queue) = c /\ Tail(Queue) = Queue'
        <5>1. \A q, h \in Seq(Chunks) : q # <<>> =>
                 q \o h \in Seq(Chunks) /\ q \o h # <<>> /\ Head(q \o h) = Head(q) /\ Tail(q \o h) = Tail(q) \o h
          OBVIOUS
        <5> QED BY <1>2, <1>4, <1>5, <5>1 DEF Queue, c
      <4>3. PICK chunks, s : chunks = Queue /\ s = script
        OBVIOUS
      <4>4. /\ v[1] = Stream!Kept(s, v[0], Head(chunks))
            /\ \E u : ChunkChain(s, u, Tail(chunks)) /\ u[0] = v[1] /\ u[Len(Tail(chunks))] = v[Len(chunks)]
        <5>1. chunks \in Seq(Chunks) /\ chunks # <<>> /\ ChunkChain(s, v, chunks)
          BY <4>1, <4>2, <4>3
        <5> QED BY <5>1, ChunkTaken
      <4>5. v[1] = textBuffer'
        BY <1>5, <4>1, <4>2, <4>3, <4>4 DEF c
      <4> QED BY <3>1, <3>3, <4>1, <4>2, <4>3, <4>4, <4>5 DEF Continues
    <3> QED BY <3>2, <3>3
  <2> QED BY <1>3, <2>3, <2>4, <2>5 DEF StreamInv
<1>6. CASE outputChan = <<>> /\ closed /\ processing' = FALSE /\ UNCHANGED <<textBuffer, outputChan>>
  <2>1. StreamTypes'
    <3>1. processing' \in BOOLEAN
      BY <1>6, Zenon
    <3>2. Stream!TypeOK'
      <4>1. UNCHANGED <<script, process, pipe, reader, outputChan, closed, dones, caller>>
        BY <1>1, <1>6
      <4> QED BY <3>1, <4>1 DEF StreamInv, StreamTypes, Stream!TypeOK
    <3> QED BY <1>1, <1>4, <1>6, <3>2 DEF StreamInv, StreamTypes
  <2>2. StageInv'
    BY <1>1, <1>4, <1>6 DEF StreamInv, StageInv
  <2>3. OrderInv'
    BY <1>1, <1>4, <1>6 DEF StreamInv, OrderInv, Queue, Stream!NoLongLine
  <2> QED BY <1>3, <2>1, <2>2, <2>3 DEF StreamInv
<1> QED BY <1>5, <1>6 DEF Stream!Process

LEMMA CallerKeeps == StreamInv /\ Stream!Caller => StreamInv'
<1> SUFFICES ASSUME StreamInv, Stream!Caller PROVE StreamInv'
  OBVIOUS
<1>1. UNCHANGED <<script, left, process, pipe, reader, outputChan, textBuffer, processing>>
  BY DEF Stream!Caller, Stream!AwaitReader, Stream!CloseChannel, Stream!AwaitProcessing, Stream!AwaitProcess, Stream!callerVars
<1>2. EndInv' /\ OrderInv'
  BY <1>1 DEF StreamInv, EndInv, OrderInv, Queue, Held, Emitted, Stream!NoLongLine
<1>3. Over("stdout")' = Over("stdout") /\ Over("stderr")' = Over("stderr")
  BY <1>1 DEF Over
<1>4. ASSUME Stream!TypeOK' PROVE StreamTypes'
  BY <1>1, <1>4 DEF StreamInv, StreamTypes, Emitted
<1>5. CASE Stream!AwaitReader
  <2>1. Stream!TypeOK'
    BY <1>1, <1>5 DEF Stream!AwaitReader, StreamInv, StreamTypes, Stream!TypeOK
  <2>2. dones' + Taken' = dones + Taken
    BY <1>5 DEF Stream!AwaitReader, StreamInv, StreamTypes, Stream!TypeOK, Taken
  <2>3. StageInv'
    BY <1>1, <1>3, <1>5, <2>2 DEF Stream!AwaitReader, StreamInv, StageInv
  <2>4. Stream!AnswerComplete'
    BY <1>1, <1>5 DEF Stream!AwaitReader, StreamInv, Stream!AnswerComplete, Stream!Expected, Stream!NoLongLine
  <2> QED BY <1>2, <1>4, <2>1, <2>3, <2>4 DEF StreamInv
<1>6. CASE Stream!CloseChannel \/ Stream!AwaitProcessing
  <2>1. Stream!TypeOK'
    BY <1>1, <1>6 DEF Stream!CloseChannel, Stream!AwaitProcessing, StreamInv, StreamTypes, Stream!TypeOK
  <2>2. Taken' = Taken /\ dones' = dones
    BY <1>6 DEF Stream!CloseChannel, Stream!AwaitProcessing, Taken
  <2>3. StageInv'
    BY <1>1, <1>3, <1>6, <2>2 DEF Stream!CloseChannel, Stream!AwaitProcessing, StreamInv, StageInv
  <2>4. Stream!AnswerComplete'
    BY <1>1, <1>6 DEF Stream!CloseChannel, Stream!AwaitProcessing, StreamInv, Stream!AnswerComplete,
                      Stream!Expected, Stream!NoLongLine
  <2> QED BY <1>2, <1>4, <2>1, <2>3, <2>4 DEF StreamInv
<1>7. CASE Stream!AwaitProcess
  <2>1. Stream!TypeOK'
    BY <1>1, <1>7 DEF Stream!AwaitProcess, StreamInv, StreamTypes, Stream!TypeOK
  <2>2. Taken' = Taken /\ dones' = dones
    BY <1>7 DEF Stream!AwaitProcess, Taken
  <2>3. StageInv'
    BY <1>1, <1>3, <1>7, <2>2 DEF Stream!AwaitProcess, StreamInv, StageInv
  <2>4. Stream!AnswerComplete'
    <3> SUFFICES ASSUME answer'.status = "zero", Stream!NoLongLine PROVE answer'.text = Stream!Told(script)[Len(script.lines)]
      BY <1>1 DEF Stream!AnswerComplete, Stream!Expected, Stream!NoLongLine
    <3>1. process = "zero" /\ answer'.text = textBuffer
      BY <1>7 DEF Stream!AwaitProcess
    <3>2. left = <<>> /\ Emitted = Len(script.lines)
      <4>1. left = <<>> /\ Len(script.lines) \in Nat
        BY <3>1, ScriptsAssumption DEF StreamInv, EndInv, StreamTypes, Stream!TypeOK
      <4> QED BY <4>1 DEF Emitted
    <3>3. pipe["stdout"] = <<>> /\ Queue = <<>>
      <4>1. reader["stdout"].step = "over" /\ outputChan = <<>>
        BY <1>7, BothOver DEF Stream!AwaitProcess, Stream!Pipes, StreamInv, StageInv
      <4> QED BY <4>1 DEF StreamInv, EndInv, Queue, Held, Stream!Pipes
    <3>4. Continues(script, textBuffer, <<>>, <<>>, Stream!Told(script)[Len(script.lines)])
      BY <3>2, <3>3 DEF StreamInv, OrderInv
    <3> QED BY <3>1, <3>4 DEF Continues
  <2> QED BY <1>2, <1>4, <2>1, <2>3, <2>4 DEF StreamInv
<1> QED BY <1>5, <1>6, <1>7 DEF Stream!Caller

LEMMA StreamStep == StreamInv /\ [Stream!Next]_(Stream!vars) => StreamInv'
<1> SUFFICES ASSUME StreamInv, [Stream!Next]_(Stream!vars) PROVE StreamInv'
  OBVIOUS
<1>1. CASE Stream!Emit \/ Stream!Exit
  BY <1>1, EmitKeeps, ExitKeeps
<1>2. ASSUME NEW p \in Stream!Pipes, Stream!Reader(p) PROVE StreamInv'
  BY <1>2, ScanKeeps, EndOfOutputKeeps, SendKeeps, DoneKeeps DEF Stream!Reader
<1>3. CASE Stream!Process \/ Stream!Caller
  BY <1>3, ProcessKeeps, CallerKeeps
<1>4. CASE UNCHANGED Stream!vars
  <2>1. StreamTypes' /\ StageInv' /\ EndInv'
    BY <1>4 DEF Stream!vars, StreamInv, StreamTypes, Stream!TypeOK, StageInv, EndInv, Over, Taken, Emitted, Stream!NoLongLine
  <2>2. OrderInv' /\ Stream!AnswerComplete'
    BY <1>4 DEF Stream!vars, StreamInv, OrderInv, Queue, Held, Emitted, Stream!NoLongLine, Stream!AnswerComplete, Stream!Expected
  <2> QED BY <2>1, <2>2 DEF StreamInv
<1> QED BY <1>1, <1>2, <1>3, <1>4 DEF Stream!Next

LEMMA ServicesStreams == ServicesSpec => Stream!Init /\ [][Stream!Next]_(Stream!vars)
<1>1. ServicesInit => Stream!Init
  BY DEF ServicesInit
<1>2. [ServicesNext]_allVars => [Stream!Next]_(Stream!vars)
  BY DEF ServicesNext, allVars, streamVars, Stream!vars
<1> QED BY <1>1, <1>2, PTL DEF ServicesSpec

\* Whatever a process prints, whatever fits into its pipes and into the channel
\* between the goroutines, and however the five parties interleave: a call that
\* succeeds returns all of the answer, in order, if no line was too long, and
\* the channel is closed behind the last send
\* (doExecuteStream of internal/llm/cursor, gemini and qoder).
THEOREM AnswersAreKept == ServicesSpec => []AnswerKept
<1>1. StreamInv => AnswerKept
  <2> SUFFICES ASSUME StreamInv, closed PROVE Stream!NobodySendsAfterClose
    BY DEF StreamInv, AnswerKept, Stream!NobodySendsAfterClose
  <2>1. caller \notin {"first", "second"}
    BY DEF StreamInv, StageInv
  <2> QED BY <2>1, BothOver DEF Stream!NobodySendsAfterClose, Stream!ReaderIs
<1> QED BY <1>1, StreamInit, StreamStep, ServicesStreams, PTL

-----------------------------------------------------------------------------
(* The types of all components *)

LEMMA ServicesStops == ServicesSpec => Init /\ [][Next]_vars
<1>1. ServicesInit => Init
  BY DEF ServicesInit
<1>2. [ServicesNext]_allVars => [Next]_vars
  BY DEF ServicesNext, allVars
<1> QED BY <1>1, <1>2, PTL DEF ServicesSpec

\* The variables of the four components keep their types, whatever happens in
\* whichever of them (engine.go, task_log_hook.go, llm/*/client.go, notifier.go).
THEOREM ServicesTyped == ServicesSpec => []ServicesTypeOK
<1>1. StopInv /\ LogInv /\ StreamInv /\ NoticeInv => ServicesTypeOK
  BY DEF StopInv, LogInv, StreamInv, StreamTypes, NoticeInv, ServicesTypeOK
<1> QED BY <1>1, InitKeeps, NextKeeps, ServicesStops, LogInit, LogStep, ServicesLogs, StreamInit, StreamStep,
           ServicesStreams, NoticeInit, NoticeStep, ServicesNotices, PTL
=============================================================================
