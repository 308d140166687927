-------------------------- MODULE DispatcherProofs --------------------------
(***************************************************************************)
(* Lemmas about the operations of RepoTaskQueue and Dispatcher, for the    *)
(* proofs about the modules that extend them: what each preserves of the   *)
(* types, of the signals, and of the invariant that keeps the tasks of a   *)
(* repository apart.                                                       *)
(***************************************************************************)
EXTENDS Dispatcher, TLAPS

-----------------------------------------------------------------------------
(* Typing *)

\* Enqueue keeps the queue well typed.
LEMMA EnqueueTyped ==
    ASSUME QueueTypeOK, NEW t \in Reviews, Enqueue(t)
    PROVE  QueueTypeOK'
<1>1. CASE AlreadyQueued(t)
  BY <1>1 DEF AlreadyQueued, QueueTypeOK, queueVars
<1>2. CASE AppendTask(t)
  <2>1. RepoOf[t] \in Repos
    BY RepoOfAssumption
  <2>2. tasks' \in [Repos -> Seq(Reviews)]
    BY <1>2, <2>1 DEF AppendTask, QueueTypeOK
  <2> QED
    BY <1>2, <2>1, <2>2, SignalCapAssumption DEF AppendTask, QueueTypeOK, signalTaskReady
<1> QED
  BY <1>1, <1>2 DEF Enqueue

\* EnqueueAsRunning keeps the queue well typed.
LEMMA EnqueueAsRunningTyped ==
    ASSUME QueueTypeOK, NEW t \in Reviews, EnqueueAsRunning(t)
    PROVE  QueueTypeOK'
<1>1. CASE AlreadyQueued(t)
  BY <1>1 DEF AlreadyQueued, QueueTypeOK, queueVars
<1>2. CASE InstallRunning(t)
  <2>1. RepoOf[t] \in Repos
    BY RepoOfAssumption
  <2> QED
    BY <1>2, <2>1, SignalCapAssumption DEF InstallRunning, QueueTypeOK, signalTaskReady
<1> QED
  BY <1>1, <1>2 DEF EnqueueAsRunning

\* Dequeue keeps the queue well typed.
LEMMA DequeueTyped ==
    ASSUME QueueTypeOK, NEW t \in Reviews, Dequeue(t)
    PROVE  QueueTypeOK'
<1> PICK r \in Repos : DequeueRecovered(r, t) \/ DequeueFront(r, t)
  BY DEF Dequeue
<1>1. CASE DequeueRecovered(r, t)
  BY <1>1 DEF DequeueRecovered, QueueTypeOK
<1>2. CASE DequeueFront(r, t)
  <2>1. Tail(tasks[r]) \in Seq(Reviews)
    BY <1>2 DEF DequeueFront, Dispatchable, QueueTypeOK
  <2> QED
    BY <1>2, <2>1 DEF DequeueFront, QueueTypeOK
<1> QED
  BY <1>1, <1>2

\* MarkComplete keeps the queue well typed.
LEMMA MarkCompleteTyped ==
    ASSUME QueueTypeOK, NEW t \in Reviews, MarkComplete(t)
    PROVE  QueueTypeOK'
<1>1. RepoOf[t] \in Repos
  BY RepoOfAssumption
<1>2. CASE RepoOf[t] \in known
  <2>1. taskReady' \in 0..SignalCap
    BY <1>2, SignalCapAssumption DEF MarkComplete, QueueTypeOK, signalTaskReady
  <2>2. known' \subseteq Repos
    BY <1>2 DEF MarkComplete, QueueTypeOK
  <2> QED
    BY <1>1, <1>2, <2>1, <2>2 DEF MarkComplete, QueueTypeOK
<1>3. CASE RepoOf[t] \notin known
  BY <1>1, <1>3 DEF MarkComplete, QueueTypeOK
<1> QED
  BY <1>2, <1>3

\* The steps of the dispatch loop keep queue and dispatcher well typed.
LEMMA DispatchTyped ==
    ASSUME QueueTypeOK, DispatchTypeOK, Dispatch
    PROVE  QueueTypeOK' /\ DispatchTypeOK'
<1>1. CASE AwaitSignal
  BY <1>1, SignalCapAssumption DEF AwaitSignal, TakeSignal, QueueTypeOK, DispatchTypeOK
<1>2. CASE DequeueTask
  <2>1. PICK t \in Reviews : Dequeue(t) /\ dtask' = t
    BY <1>2 DEF DequeueTask
  <2>2. QueueTypeOK'
    BY <2>1, DequeueTyped
  <2> QED
    BY <1>2, <2>1, <2>2 DEF DequeueTask, DispatchTypeOK
<1>3. CASE QueueDrained
  BY <1>3 DEF QueueDrained, QueueTypeOK, DispatchTypeOK, queueVars
<1>4. CASE SendTask
  <2>1. QueueTypeOK'
    BY <1>4 DEF SendTask, QueueTypeOK, queueVars
  <2>2. Append(taskQueue, dtask) \in Seq(Reviews)
    BY <1>4 DEF SendTask, DispatchTypeOK
  <2>3. Len(Append(taskQueue, dtask)) <= QueueSize
    BY <1>4, QueueSizeAssumption DEF SendTask, DispatchTypeOK
  <2> QED
    BY <1>4, <2>1, <2>2, <2>3 DEF SendTask, DispatchTypeOK
<1> QED
  BY <1>1, <1>2, <1>3, <1>4 DEF Dispatch

\* Receiving and completing a task keep queue and dispatcher well typed.
LEMMA WorkerTyped ==
    ASSUME QueueTypeOK, DispatchTypeOK, NEW w \in Workers,
           ReceiveTask(w) \/ CompleteTask(w)
    PROVE  QueueTypeOK' /\ DispatchTypeOK'
<1>1. CASE ReceiveTask(w)
  <2>1. Head(taskQueue) \in Reviews /\ Tail(taskQueue) \in Seq(Reviews)
    BY <1>1 DEF ReceiveTask, DispatchTypeOK
  <2>2. Len(Tail(taskQueue)) <= QueueSize
    BY <1>1, QueueSizeAssumption DEF ReceiveTask, DispatchTypeOK
  <2>3. QueueTypeOK'
    BY <1>1 DEF ReceiveTask, QueueTypeOK, queueVars
  <2> QED
    BY <1>1, <2>1, <2>2, <2>3 DEF ReceiveTask, DispatchTypeOK
<1>2. CASE CompleteTask(w)
  <2>1. wtask[w] \in Reviews /\ MarkComplete(wtask[w])
    BY <1>2 DEF CompleteTask, DispatchTypeOK
  <2>2. QueueTypeOK'
    BY <2>1, MarkCompleteTyped
  <2> QED
    BY <1>2, <2>2 DEF CompleteTask, DispatchTypeOK
<1> QED
  BY <1>1, <1>2

-----------------------------------------------------------------------------
(* Signals *)

\* Enqueue and EnqueueAsRunning leave a token, or change nothing.
LEMMA EnqueueSignals ==
    ASSUME QueueTypeOK, NEW t, Enqueue(t) \/ EnqueueAsRunning(t)
    PROVE  taskReady' > 0 \/ UNCHANGED queueVars
  BY SignalCapAssumption
  DEF Enqueue, EnqueueAsRunning, AlreadyQueued, AppendTask, InstallRunning,
      signalTaskReady, QueueTypeOK

\* MarkComplete leaves a token, or leaves Dequeue with no more to return than
\* it had.
LEMMA MarkCompleteSignals ==
    ASSUME QueueTypeOK, NEW t, MarkComplete(t)
    PROVE  \/ taskReady' > 0
           \/ UNCHANGED taskReady /\ (NothingToDequeue => NothingToDequeue')
<1>1. CASE RepoOf[t] \in known
  BY <1>1, SignalCapAssumption DEF MarkComplete, signalTaskReady, QueueTypeOK
<1>2. CASE RepoOf[t] \notin known
  BY <1>2 DEF MarkComplete, NothingToDequeue, HoldsRecovered, Dispatchable
<1> QED
  BY <1>1, <1>2

-----------------------------------------------------------------------------
(* Serialization.  What keeps the tasks of a repository apart as long as    *)
(* only tasks are queued that are absent from the queue.                    *)

\* The lists hold tasks of their repository, each once and in the index.
ListInv ==
    \A r \in Repos :
        /\ \A i \in 1..Len(tasks[r]) :
               RepoOf[tasks[r][i]] = r /\ tasks[r][i] \in tasksByID
        /\ \A i, j \in 1..Len(tasks[r]) : i # j => tasks[r][i] # tasks[r][j]

\* The running task of a repository is one of its own and no longer indexed.
CurrentInv ==
    \A r \in Repos :
        currentTaskID[r] # NoTask
            => /\ r \in known
               /\ RepoOf[currentTaskID[r]] = r
               /\ currentTaskID[r] \notin tasksByID

\* Its repository counts t as its running task.
Occupies(t) ==
    /\ running[RepoOf[t]]
    /\ currentTaskID[RepoOf[t]] = t

\* Whatever has left the queue and is not completed occupies its repository ...
FlightInv ==
    /\ dtask # NoTask => Occupies(dtask)
    /\ \A i \in 1..Len(taskQueue) : Occupies(taskQueue[i])
    /\ \A w \in Workers : wtask[w] # NoTask => Occupies(wtask[w])

\* ... and is in one place only.
PlaceInv ==
    /\ \A i \in 1..Len(taskQueue) : taskQueue[i] # dtask
    /\ \A i, j \in 1..Len(taskQueue) : i # j => taskQueue[i] # taskQueue[j]
    /\ \A w \in Workers : wtask[w] # NoTask =>
           /\ wtask[w] # dtask
           /\ \A i \in 1..Len(taskQueue) : taskQueue[i] # wtask[w]
           /\ \A v \in Workers : v # w => wtask[v] # wtask[w]

\* Neither waiting nor running in the queue.
Absent(t) ==
    /\ t \notin tasksByID
    /\ currentTaskID[RepoOf[t]] # t

DispatchInv ==
    /\ QueueTypeOK
    /\ DispatchTypeOK
    /\ ListInv
    /\ CurrentInv
    /\ FlightInv
    /\ PlaceInv

\* What a step preserves when it touches neither queue nor dispatcher.
LEMMA QueueStutter ==
    ASSUME DispatchInv, UNCHANGED queueVars, UNCHANGED dispatchVars
    PROVE  ListInv' /\ CurrentInv' /\ FlightInv' /\ PlaceInv' /\ \A t : Absent(t) => Absent(t)'
  BY DEF DispatchInv, ListInv, CurrentInv, FlightInv, PlaceInv, Occupies, Absent, queueVars, dispatchVars

\* Putting an absent task into its list.
LEMMA AppendSerial ==
    ASSUME DispatchInv, NEW t \in Reviews, Absent(t), UNCHANGED dispatchVars,
           known' = known \cup {RepoOf[t]},
           tasks' = [tasks EXCEPT ![RepoOf[t]] = Append(@, t)],
           tasksByID' = tasksByID \cup {t},
           UNCHANGED <<running, currentTaskID>>
    PROVE  /\ ListInv' /\ CurrentInv' /\ FlightInv' /\ PlaceInv'
           /\ \A u \in Reviews : u # t /\ Absent(u) => Absent(u)'
<1> DEFINE q == RepoOf[t]
<1> q \in Repos
  BY RepoOfAssumption
<1> QueueTypeOK
  BY DEF DispatchInv
<1>2. /\ tasksByID' = tasksByID \cup {t}
      /\ tasks' = [tasks EXCEPT ![q] = Append(tasks[q], t)]
      /\ known' = known \cup {q}
      /\ UNCHANGED <<running, currentTaskID>>
  OBVIOUS
<1>3. ListInv'
  <2> SUFFICES ASSUME NEW r \in Repos
               PROVE  /\ \A i \in 1..Len(tasks'[r]) :
                             RepoOf[tasks'[r][i]] = r /\ tasks'[r][i] \in tasksByID'
                      /\ \A i, j \in 1..Len(tasks'[r]) : i # j => tasks'[r][i] # tasks'[r][j]
    BY DEF ListInv
  <2>1. CASE r # q
    BY <1>2, <2>1 DEF DispatchInv, ListInv, QueueTypeOK
  <2>2. CASE r = q
    <3> DEFINE n == Len(tasks[q])
    <3>1. tasks[q] \in Seq(Reviews) /\ n \in Nat
      BY DEF QueueTypeOK
    <3>2. tasks'[r] = Append(tasks[q], t)
      BY <1>2, <2>2 DEF QueueTypeOK
    <3>3. /\ Len(tasks'[r]) = n + 1
          /\ tasks'[r][n + 1] = t
          /\ \A i \in 1..n : tasks'[r][i] = tasks[q][i]
      BY <3>1, <3>2
    <3>4. \A i \in 1..n : RepoOf[tasks[q][i]] = q /\ tasks[q][i] \in tasksByID
      BY DEF DispatchInv, ListInv
    <3>5. \A i, j \in 1..n : i # j => tasks[q][i] # tasks[q][j]
      BY DEF DispatchInv, ListInv
    <3>6. \A i \in 1..(n + 1) : i = n + 1 \/ i \in 1..n
      BY <3>1
    <3>7. t \notin tasksByID
      BY DEF Absent
    <3>8. \A i \in 1..(n + 1) : RepoOf[tasks'[r][i]] = r /\ tasks'[r][i] \in tasksByID'
      BY <1>2, <2>2, <3>3, <3>4, <3>6
    <3>9. \A i, j \in 1..(n + 1) : i # j => tasks'[r][i] # tasks'[r][j]
      <4>1. \A i \in 1..n : tasks'[r][i] # t
        BY <3>3, <3>4, <3>7
      <4>2. \A i, j \in 1..n : i # j => tasks'[r][i] # tasks'[r][j]
        BY <3>3, <3>5
      <4> QED
        BY <3>3, <3>6, <4>1, <4>2
    <3> QED
      BY <3>3, <3>8, <3>9
  <2> QED
    BY <2>1, <2>2
<1>4. CurrentInv'
  BY <1>2 DEF DispatchInv, CurrentInv, Absent
<1>5. FlightInv' /\ PlaceInv'
  BY <1>2 DEF DispatchInv, FlightInv, PlaceInv, Occupies, dispatchVars
<1> QED
  BY <1>2, <1>3, <1>4, <1>5 DEF Absent

\* Queueing an absent task.
LEMMA EnqueueSerial ==
    ASSUME DispatchInv, NEW t \in Reviews, Absent(t), Enqueue(t), UNCHANGED dispatchVars
    PROVE  /\ ListInv' /\ CurrentInv' /\ FlightInv' /\ PlaceInv'
           /\ \A u \in Reviews : u # t /\ Absent(u) => Absent(u)'
<1>1. AppendTask(t)
  BY DEF Enqueue, AlreadyQueued, Absent
<1> QED
  BY <1>1, AppendSerial DEF AppendTask

\* The dispatch loop.  A repository is only served while it counts as idle, so
\* the task it hands out is the only one of its repository in flight.
LEMMA DequeueSerial ==
    ASSUME DispatchInv, DequeueTask
    PROVE  /\ ListInv' /\ CurrentInv' /\ FlightInv' /\ PlaceInv'
           /\ \A u \in Reviews : Absent(u) => Absent(u)'
<1> QueueTypeOK /\ DispatchTypeOK
  BY DEF DispatchInv
<1>1. PICK t \in Reviews : Dequeue(t) /\ dtask' = t
  BY DEF DequeueTask
<1>2. PICK q \in Repos : DequeueRecovered(q, t) \/ DequeueFront(q, t)
  BY <1>1 DEF Dequeue
<1>3. DequeueFront(q, t)
  BY <1>2 DEF DequeueRecovered, HoldsRecovered, DispatchInv, CurrentInv
<1>4. /\ q \in known /\ ~running[q] /\ tasks[q] # <<>> /\ t = Head(tasks[q])
      /\ tasks' = [tasks EXCEPT ![q] = Tail(tasks[q])]
      /\ running' = [running EXCEPT ![q] = TRUE]
      /\ currentTaskID' = [currentTaskID EXCEPT ![q] = t]
      /\ tasksByID' = tasksByID \ {t}
      /\ UNCHANGED <<known, taskQueue, wtask>>
  BY <1>3 DEF DequeueFront, Dispatchable, DequeueTask
<1> DEFINE n == Len(tasks[q])
<1>5. /\ tasks[q] \in Seq(Reviews) /\ n \in Nat \ {0} /\ t = tasks[q][1]
      /\ Len(Tail(tasks[q])) = n - 1
      /\ \A i \in 1..(n - 1) : Tail(tasks[q])[i] = tasks[q][i + 1] /\ i + 1 \in 1..n
  BY <1>4 DEF QueueTypeOK
<1>6. /\ \A i \in 1..n : RepoOf[tasks[q][i]] = q /\ tasks[q][i] \in tasksByID
      /\ \A i, j \in 1..n : i # j => tasks[q][i] # tasks[q][j]
  BY DEF DispatchInv, ListInv
<1>7. RepoOf[t] = q /\ t \in tasksByID
  BY <1>5, <1>6
<1>8. \A r \in Repos : currentTaskID[r] # t
  BY <1>7, NoTaskAssumption DEF DispatchInv, CurrentInv
<1>9. ListInv'
  <2> SUFFICES ASSUME NEW r \in Repos
               PROVE  /\ \A i \in 1..Len(tasks'[r]) :
                             RepoOf[tasks'[r][i]] = r /\ tasks'[r][i] \in tasksByID'
                      /\ \A i, j \in 1..Len(tasks'[r]) : i # j => tasks'[r][i] # tasks'[r][j]
    BY DEF ListInv
  <2>1. CASE r # q
    <3>1. tasks'[r] = tasks[r]
      BY <1>4, <2>1 DEF QueueTypeOK
    <3>2. \A i \in 1..Len(tasks[r]) : tasks[r][i] # t
      BY <1>7, <2>1 DEF DispatchInv, ListInv
    <3> QED
      BY <1>4, <3>1, <3>2 DEF DispatchInv, ListInv
  <2>2. CASE r = q
    <3>1. tasks'[r] = Tail(tasks[q])
      BY <1>4, <2>2 DEF QueueTypeOK
    <3>2. \A i \in 1..(n - 1) : tasks[q][i + 1] # t
      BY <1>5, <1>6
    <3>3. \A i, j \in 1..(n - 1) : i # j => tasks[q][i + 1] # tasks[q][j + 1]
      <4> SUFFICES ASSUME NEW i \in 1..(n - 1), NEW j \in 1..(n - 1), i # j
                   PROVE  tasks[q][i + 1] # tasks[q][j + 1]
        OBVIOUS
      <4>1. i + 1 \in 1..n /\ j + 1 \in 1..n /\ i + 1 # j + 1
        BY <1>5
      <4> QED
        BY <1>6, <4>1
    <3>4. \A i \in 1..(n - 1) : RepoOf[tasks'[r][i]] = r /\ tasks'[r][i] \in tasksByID'
      <4> SUFFICES ASSUME NEW i \in 1..(n - 1)
                   PROVE  RepoOf[tasks'[r][i]] = r /\ tasks'[r][i] \in tasksByID'
        OBVIOUS
      <4>1. tasks'[r][i] = tasks[q][i + 1] /\ i + 1 \in 1..n
        BY <1>5, <3>1
      <4>2. RepoOf[tasks[q][i + 1]] = q /\ tasks[q][i + 1] \in tasksByID
        BY <1>6, <4>1
      <4> QED
        BY <1>4, <2>2, <3>2, <4>1, <4>2
    <3> QED
      BY <1>5, <3>1, <3>3, <3>4
  <2> QED
    BY <2>1, <2>2
<1>10. CurrentInv'
  BY <1>4, <1>7 DEF DispatchInv, CurrentInv, QueueTypeOK
<1>11. dtask = NoTask
  BY DEF DequeueTask, DispatchTypeOK
<1>12. \A u \in Reviews : Occupies(u) => u # t /\ RepoOf[u] # q /\ Occupies(u)'
  BY <1>4, <1>7, RepoOfAssumption DEF Occupies, QueueTypeOK
<1>13. Occupies(t)'
  BY <1>4, <1>7 DEF Occupies, QueueTypeOK
<1>14. /\ \A i \in 1..Len(taskQueue) : taskQueue[i] \in Reviews
       /\ \A w \in Workers : wtask[w] # NoTask => wtask[w] \in Reviews
  BY DEF DispatchTypeOK
<1>15. FlightInv'
  BY <1>1, <1>4, <1>12, <1>13, <1>14 DEF DispatchInv, FlightInv
<1>16. PlaceInv'
  BY <1>1, <1>4, <1>12, <1>14 DEF DispatchInv, FlightInv, PlaceInv
<1>17. \A u \in Reviews : Absent(u) => Absent(u)'
  BY <1>4, <1>7, RepoOfAssumption DEF Absent, QueueTypeOK
<1> QED
  BY <1>9, <1>10, <1>15, <1>16, <1>17

\* A task moves from the dispatch loop to the channel.
LEMMA SendSerial ==
    ASSUME DispatchInv, SendTask
    PROVE  ListInv' /\ CurrentInv' /\ FlightInv' /\ PlaceInv' /\ \A u : Absent(u) => Absent(u)'
<1> DEFINE n == Len(taskQueue)
<1>1. taskQueue \in Seq(Reviews) /\ n \in Nat /\ dtask \in Reviews
  BY DEF DispatchInv, DispatchTypeOK, SendTask
<1>2. taskQueue' = Append(taskQueue, dtask) /\ dtask' = NoTask /\ UNCHANGED wtask /\ UNCHANGED queueVars
  BY DEF SendTask
<1>3. /\ Len(taskQueue') = n + 1 /\ taskQueue'[n + 1] = dtask
      /\ \A i \in 1..n : taskQueue'[i] = taskQueue[i]
      /\ \A i \in 1..(n + 1) : i = n + 1 \/ i \in 1..n
  BY <1>1, <1>2
<1>4. ListInv' /\ CurrentInv' /\ \A u : Absent(u) => Absent(u)'
  BY <1>2 DEF DispatchInv, ListInv, CurrentInv, Absent, queueVars
<1>5. \A u : Occupies(u) => Occupies(u)'
  BY <1>2 DEF Occupies, queueVars
<1>6. dtask # NoTask
  BY <1>1, NoTaskAssumption
<1>7. FlightInv'
  BY <1>2, <1>3, <1>5, <1>6 DEF DispatchInv, FlightInv
<1>8. \A i \in 1..(n + 1) : taskQueue'[i] \in Reviews
  BY <1>1, <1>3
<1>9. \A i, j \in 1..(n + 1) : i # j => taskQueue'[i] # taskQueue'[j]
  <2>1. \A i \in 1..n : taskQueue'[i] # dtask
    BY <1>3 DEF DispatchInv, PlaceInv
  <2>2. \A i, j \in 1..n : i # j => taskQueue'[i] # taskQueue'[j]
    BY <1>3 DEF DispatchInv, PlaceInv
  <2> QED
    BY <1>3, <2>1, <2>2
<1>10. PlaceInv'
  BY <1>2, <1>3, <1>8, <1>9, NoTaskAssumption DEF DispatchInv, PlaceInv
<1> QED
  BY <1>4, <1>7, <1>10

\* Every step of the dispatch loop.
LEMMA DispatchSerial ==
    ASSUME DispatchInv, Dispatch
    PROVE  /\ ListInv' /\ CurrentInv' /\ FlightInv' /\ PlaceInv'
           /\ \A u \in Reviews : Absent(u) => Absent(u)'
<1>1. CASE AwaitSignal
  BY <1>1 DEF AwaitSignal, TakeSignal, DispatchInv, ListInv, CurrentInv, FlightInv, PlaceInv, Occupies, Absent
<1>2. CASE DequeueTask
  BY <1>2, DequeueSerial
<1>3. CASE QueueDrained
  BY <1>3 DEF QueueDrained, queueVars, DispatchInv, ListInv, CurrentInv, FlightInv, PlaceInv, Occupies, Absent
<1>4. CASE SendTask
  BY <1>4, SendSerial
<1> QED
  BY <1>1, <1>2, <1>3, <1>4 DEF Dispatch

\* A task moves from the channel to an idle worker.
LEMMA ReceiveSerial ==
    ASSUME DispatchInv, NEW w \in Workers, ReceiveTask(w)
    PROVE  ListInv' /\ CurrentInv' /\ FlightInv' /\ PlaceInv' /\ \A u : Absent(u) => Absent(u)'
<1> DEFINE n == Len(taskQueue)
           t == taskQueue[1]
<1>1. /\ taskQueue \in Seq(Reviews) /\ taskQueue # <<>> /\ n \in Nat \ {0} /\ t \in Reviews
      /\ wtask \in [Workers -> Reviews \cup {NoTask}] /\ wtask[w] = NoTask
  BY DEF DispatchInv, DispatchTypeOK, ReceiveTask
<1>2. /\ taskQueue' = Tail(taskQueue) /\ wtask' = [wtask EXCEPT ![w] = t]
      /\ UNCHANGED dtask /\ UNCHANGED queueVars
  BY <1>1 DEF ReceiveTask
<1>3. /\ Len(taskQueue') = n - 1
      /\ \A i \in 1..(n - 1) : taskQueue'[i] = taskQueue[i + 1] /\ i + 1 \in 1..n /\ i + 1 # 1
      /\ 1 \in 1..n
  BY <1>1, <1>2
<1>4. ListInv' /\ CurrentInv' /\ \A u : Absent(u) => Absent(u)'
  BY <1>2 DEF DispatchInv, ListInv, CurrentInv, Absent, queueVars
<1>5. \A u : Occupies(u) => Occupies(u)'
  BY <1>2 DEF Occupies, queueVars
<1>6. /\ wtask'[w] = t
      /\ \A v \in Workers : v # w => wtask'[v] = wtask[v]
  BY <1>1, <1>2
<1>7. FlightInv'
  BY <1>2, <1>3, <1>5, <1>6 DEF DispatchInv, FlightInv
<1>8. t # NoTask /\ t # dtask
  BY <1>1, <1>3, NoTaskAssumption DEF DispatchInv, PlaceInv
<1>9. \A i \in 1..(n - 1) : taskQueue'[i] # t
  BY <1>3 DEF DispatchInv, PlaceInv
<1>10. \A v \in Workers : v # w => wtask[v] # t
  BY <1>3, <1>8 DEF DispatchInv, PlaceInv
<1>11. \A i, j \in 1..(n - 1) : i # j => taskQueue'[i] # taskQueue'[j]
  BY <1>3 DEF DispatchInv, PlaceInv
<1>12. PlaceInv'
  BY <1>2, <1>3, <1>6, <1>8, <1>9, <1>10, <1>11 DEF DispatchInv, PlaceInv
<1> QED
  BY <1>4, <1>7, <1>12

\* Completing a task frees its repository, which no other task in flight
\* occupies.
LEMMA CompleteSerial ==
    ASSUME DispatchInv, NEW w \in Workers, CompleteTask(w)
    PROVE  /\ ListInv' /\ CurrentInv' /\ FlightInv' /\ PlaceInv'
           /\ \A u \in Reviews : Absent(u) => Absent(u)'
<1> DEFINE t == wtask[w]
           q == RepoOf[t]
<1> QueueTypeOK /\ DispatchTypeOK
  BY DEF DispatchInv
<1>1. t \in Reviews /\ t # NoTask /\ q \in Repos /\ MarkComplete(t)
  BY RepoOfAssumption DEF CompleteTask, DispatchTypeOK
<1>2. currentTaskID[q] = t /\ q \in known /\ t \notin tasksByID
  BY <1>1 DEF DispatchInv, FlightInv, Occupies, CurrentInv
<1>3. /\ running' = [running EXCEPT ![q] = FALSE]
      /\ currentTaskID' = [currentTaskID EXCEPT ![q] = NoTask]
      /\ known' = IF tasks[q] = <<>> THEN known \ {q} ELSE known
      /\ tasksByID' = tasksByID
      /\ UNCHANGED tasks
  BY <1>1, <1>2 DEF MarkComplete
<1>4. wtask' = [wtask EXCEPT ![w] = NoTask] /\ UNCHANGED <<dtask, taskQueue>>
  BY DEF CompleteTask
<1>5. ListInv'
  BY <1>3 DEF DispatchInv, ListInv
<1>6. CurrentInv'
  BY <1>3 DEF DispatchInv, CurrentInv, QueueTypeOK
<1>7. \A u \in Reviews : Occupies(u) /\ u # t => Occupies(u)'
  BY <1>2, <1>3, RepoOfAssumption DEF Occupies, QueueTypeOK
<1>8. /\ \A i \in 1..Len(taskQueue) : taskQueue[i] \in Reviews /\ taskQueue[i] # t
      /\ dtask # NoTask => dtask \in Reviews /\ dtask # t
      /\ \A v \in Workers : v # w /\ wtask[v] # NoTask => wtask[v] \in Reviews /\ wtask[v] # t
  BY <1>1 DEF DispatchTypeOK, DispatchInv, PlaceInv
<1>9. /\ wtask'[w] = NoTask
      /\ \A v \in Workers : v # w => wtask'[v] = wtask[v]
  BY <1>4 DEF DispatchTypeOK
<1>10. FlightInv'
  <2>1. (dtask # NoTask => Occupies(dtask))'
    BY <1>4, <1>7, <1>8 DEF DispatchInv, FlightInv, Occupies
  <2>2. (\A i \in 1..Len(taskQueue) : Occupies(taskQueue[i]))'
    BY <1>4, <1>7, <1>8 DEF DispatchInv, FlightInv, Occupies
  <2>3. (\A v \in Workers : wtask[v] # NoTask => Occupies(wtask[v]))'
    BY <1>7, <1>8, <1>9 DEF DispatchInv, FlightInv, Occupies
  <2> QED
    BY <2>1, <2>2, <2>3 DEF FlightInv
<1>11. PlaceInv'
  BY <1>4, <1>9 DEF DispatchInv, PlaceInv
<1>12. \A u \in Reviews : Absent(u) => Absent(u)'
  BY <1>1, <1>3, RepoOfAssumption, NoTaskAssumption DEF Absent, QueueTypeOK
<1> QED
  BY <1>5, <1>6, <1>10, <1>11, <1>12

\* Two workers never hold tasks of one repository.
LEMMA OneTaskPerRepo ==
    ASSUME DispatchInv, NEW v \in Workers, NEW w \in Workers, v # w, wtask[v] # NoTask, wtask[w] # NoTask
    PROVE  RepoOf[wtask[v]] # RepoOf[wtask[w]]
  BY NoTaskAssumption DEF DispatchInv, FlightInv, PlaceInv, Occupies

=============================================================================
