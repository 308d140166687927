------------------------ MODULE ReviewEngineProofs ------------------------
(***************************************************************************)
(* Theorems about ReviewEngine, for every value of its constants.          *)
(***************************************************************************)
EXTENDS ReviewEngine, DispatcherProofs

USE DEF Statuses, Open

-----------------------------------------------------------------------------
(* Typing.  DispatcherProofs types the queue and the dispatcher.           *)

\* What a request has read stays below the bound on manual retries until the
\* request has written it back.
CountsBounded ==
    \A t \in Reviews, k \in Slots :
        rpc[t][k] \in {"loaded", "checked"} => rcount[t][k] < RetryBound

TypeInv == TypeOK /\ CountsBounded

\* Initially everything has its type.
LEMMA InitTyped == Init => TypeInv
  BY SignalCapAssumption, BoundsAssumption, QueueSizeAssumption
  DEF Init, QueueInit, DispatchInit, TypeInv, TypeOK, CountsBounded, QueueTypeOK, DispatchTypeOK

\* Start-up and recovery keep the types.
LEMMA StartupTyped ==
    ASSUME TypeInv, Startup
    PROVE  TypeInv'
<1> USE DEF TypeInv, TypeOK, CountsBounded
<1>1. CASE StartEngine
  <2>1. QueueTypeOK' /\ DispatchTypeOK'
    BY <1>1 DEF StartEngine, QueueTypeOK, DispatchTypeOK, queueVars, dispatchVars
  <2>2. PendingOrRunning \subseteq [id : Reviews, status : Open]
    BY DEF PendingOrRunning
  <2> QED
    BY <1>1, <2>1, <2>2, BoundsAssumption DEF StartEngine, DbFault, dbVars, reqVars
<1>2. CASE RecoverReview
  <2>1. PICK row \in toRecover :
            /\ IF row.status = "running" THEN EnqueueAsRunning(row.id) ELSE Enqueue(row.id)
            /\ toRecover' = toRecover \ {row}
    BY <1>2 DEF RecoverReview
  <2>2. row.id \in Reviews
    OBVIOUS
  <2>3. QueueTypeOK'
    BY <2>1, <2>2, EnqueueTyped, EnqueueAsRunningTyped
  <2>4. DispatchTypeOK'
    BY <1>2 DEF RecoverReview, DispatchTypeOK, dispatchVars
  <2> QED
    BY <1>2, <2>1, <2>3, <2>4 DEF RecoverReview, dbVars, reqVars
<1>3. CASE GiveUpReview
  <2>1. QueueTypeOK' /\ DispatchTypeOK'
    BY <1>3 DEF GiveUpReview, QueueTypeOK, DispatchTypeOK, queueVars, dispatchVars
  <2> QED
    BY <1>3, <2>1 DEF GiveUpReview, reqVars
<1>4. CASE Serve
  <2>1. QueueTypeOK' /\ DispatchTypeOK'
    BY <1>4 DEF Serve, QueueTypeOK, DispatchTypeOK, queueVars, dispatchVars
  <2> QED
    BY <1>4, <2>1 DEF Serve, dbVars, reqVars
<1> QED
  BY <1>1, <1>2, <1>3, <1>4 DEF Startup

\* A crash leaves a well typed state.
LEMMA CrashTyped ==
    ASSUME TypeInv, Crash
    PROVE  TypeInv'
<1>1. QueueTypeOK'
  BY SignalCapAssumption DEF Crash, QueueReset, QueueTypeOK
<1>2. DispatchTypeOK'
  BY QueueSizeAssumption DEF Crash, DispatchReset, DispatchTypeOK
<1> QED
  BY <1>1, <1>2, BoundsAssumption DEF Crash, TypeInv, TypeOK, CountsBounded, dbVars

\* The steps of the HTTP handlers keep the types.
LEMMA RequestTyped ==
    ASSUME TypeInv, NEW t \in Reviews, NEW k \in Slots, Request(t, k)
    PROVE  TypeInv'
<1> USE DEF TypeInv, TypeOK, CountsBounded
<1>1. DispatchTypeOK'
  BY DEF Request, CreateReview, Submit, SubmitFails, RetryLoad, RetryCheck, RetryReset,
         RetryEnqueue, RetryBuildFails, RetryDbFault, DispatchTypeOK, dispatchVars
<1>2. QueueTypeOK'
  <2>1. CASE Enqueue(t)
    BY <2>1, EnqueueTyped
  <2>2. CASE UNCHANGED queueVars
    BY <2>2 DEF QueueTypeOK, queueVars
  <2> QED
    BY <2>1, <2>2 DEF Request, CreateReview, Submit, SubmitFails, RetryLoad, RetryCheck,
         RetryReset, RetryEnqueue, RetryBuildFails, RetryDbFault
<1>3. CASE CreateReview(t, k)
  BY <1>1, <1>2, <1>3 DEF CreateReview, procVars
<1>4. CASE Submit(t, k)
  BY <1>1, <1>2, <1>4 DEF Submit, dbVars, procVars
<1>5. CASE SubmitFails(t, k)
  BY <1>1, <1>2, <1>5 DEF SubmitFails, procVars
<1>6. CASE RetryLoad(t, k)
  BY <1>1, <1>2, <1>6, BoundsAssumption DEF RetryLoad, dbVars, procVars
<1>7. CASE RetryCheck(t, k)
  BY <1>1, <1>2, <1>7 DEF RetryCheck, dbVars, procVars
<1>8. CASE RetryReset(t, k)
  <2>1. rcount[t][k] + 1 \in 0..RetryBound
    BY <1>8, BoundsAssumption DEF RetryReset
  <2> QED
    BY <1>1, <1>2, <1>8, <2>1 DEF RetryReset, procVars
<1>9. CASE RetryEnqueue(t, k)
  BY <1>1, <1>2, <1>9 DEF RetryEnqueue, dbVars, procVars
<1>10. CASE RetryBuildFails(t, k)
  BY <1>1, <1>2, <1>10 DEF RetryBuildFails, procVars
<1>11. CASE RetryDbFault(t, k)
  BY <1>1, <1>2, <1>11, BoundsAssumption DEF RetryDbFault, DbFault, dbVars
<1> QED
  BY <1>3, <1>4, <1>5, <1>6, <1>7, <1>8, <1>9, <1>10, <1>11 DEF Request

\* Cancelling keeps the types.
LEMMA CancelTyped ==
    ASSUME TypeInv, NEW t \in Reviews, CancelReview(t)
    PROVE  TypeInv'
<1>1. QueueTypeOK' /\ DispatchTypeOK'
  BY DEF TypeInv, TypeOK, CancelReview, QueueTypeOK, DispatchTypeOK, queueVars, dispatchVars
<1> QED
  BY <1>1 DEF TypeInv, TypeOK, CountsBounded, CancelReview, reqVars, procVars

\* What every step of processTask leaves alone, and what it may do to the rest.
LEMMA ProcessStep ==
    ASSUME TypeInv, NEW w \in Workers, ProcessTask(w)
    PROVE  /\ ProcessFrame
           /\ \E pc \in {"claim", "prepare", "mark", "run", "fail", "error", "done"} : Goto(w, pc)
           /\ \/ UNCHANGED status
              \/ \E s \in {"running", "completed", "failed"} : SetStatus(w, s)
           /\ faults' \in 0..MaxFaults
  BY BoundsAssumption
  DEF ProcessTask, CheckStatus, Claim, ClaimDbFault, Prepare, MarkRunning, RunSucceeds,
      RunFails, RecordFailure, HandleError, TrySetStatus, DbFault, TypeInv, TypeOK

\* The steps of the workers keep the types.
LEMMA WorkersTyped ==
    ASSUME TypeInv, NEW w \in Workers, Worker(w)
    PROVE  TypeInv'
<1> USE DEF TypeInv, TypeOK, CountsBounded
<1>1. CASE WorkerReceive(w)
  <2>1. QueueTypeOK' /\ DispatchTypeOK'
    BY <1>1, WorkerTyped DEF WorkerReceive
  <2> QED
    BY <1>1, <2>1 DEF WorkerReceive, Goto, dbVars, reqVars, procVars
<1>2. CASE ProcessTask(w)
  <2>1. QueueTypeOK' /\ DispatchTypeOK'
    BY <1>2, ProcessStep DEF ProcessFrame, QueueTypeOK, DispatchTypeOK, queueVars, dispatchVars
  <2>2. wpc' \in [Workers -> {"idle", "check", "claim", "prepare", "mark",
                              "run", "fail", "error", "done"}]
    BY <1>2, ProcessStep DEF Goto
  <2>3. status' \in [Reviews -> Statuses]
    BY <1>2, ProcessStep DEF SetStatus
  <2> QED
    BY <1>2, <2>1, <2>2, <2>3, ProcessStep DEF ProcessFrame, reqVars
<1>3. CASE WorkerDone(w)
  <2>1. QueueTypeOK' /\ DispatchTypeOK'
    BY <1>3, WorkerTyped DEF WorkerDone
  <2> QED
    BY <1>3, <2>1 DEF WorkerDone, Goto, dbVars, reqVars, procVars
<1> QED
  BY <1>1, <1>2, <1>3 DEF Worker

\* Every step keeps the types.
LEMMA NextTyped == TypeInv /\ [Next]_vars => TypeInv'
<1> SUFFICES ASSUME TypeInv, [Next]_vars PROVE TypeInv'
  OBVIOUS
<1>1. CASE DispatchStep
  <2>1. QueueTypeOK' /\ DispatchTypeOK'
    BY <1>1, DispatchTyped DEF DispatchStep, TypeInv, TypeOK
  <2> QED
    BY <1>1, <2>1 DEF DispatchStep, TypeInv, TypeOK, CountsBounded, dbVars, reqVars, procVars
<1>2. CASE UNCHANGED vars
  <2>1. QueueTypeOK' /\ DispatchTypeOK'
    BY <1>2 DEF vars, TypeInv, TypeOK, QueueTypeOK, DispatchTypeOK, queueVars, dispatchVars
  <2> QED
    BY <1>2, <2>1 DEF vars, TypeInv, TypeOK, CountsBounded, dbVars, reqVars, procVars
<1>3. CASE \E t \in Reviews, k \in Slots : Request(t, k)
  BY <1>3, RequestTyped
<1>4. CASE \E t \in Reviews : CancelReview(t)
  BY <1>4, CancelTyped
<1>5. CASE \E w \in Workers : Worker(w)
  BY <1>5, WorkersTyped
<1> QED
  BY <1>1, <1>2, <1>3, <1>4, <1>5, StartupTyped, CrashTyped DEF Next

\* Type correctness of the engine, with any number of crashes, failing
\* statements and overlapping requests.
THEOREM TypeCorrect == Spec => []TypeOK
<1>1. TypeInv => TypeOK
  BY DEF TypeInv
<1> QED
  BY <1>1, InitTyped, NextTyped, PTL DEF Spec

-----------------------------------------------------------------------------
(* No lost wake-up.  Every operation that can give Dequeue something to     *)
(* return leaves a token in the channel, full or not.                       *)

\* A step that leaves the queue and the dispatch loop alone loses no wake-up.
LEMMA WakeupStutter ==
    ASSUME NoLostWakeup, UNCHANGED queueVars, UNCHANGED dpc
    PROVE  NoLostWakeup'
  BY DEF NoLostWakeup, NothingToDequeue, HoldsRecovered, Dispatchable, queueVars

\* No step loses a wake-up.
LEMMA WakeupStep == TypeInv /\ NoLostWakeup /\ [Next]_vars => NoLostWakeup'
<1> SUFFICES ASSUME TypeInv, NoLostWakeup, [Next]_vars PROVE NoLostWakeup'
  OBVIOUS
<1> QueueTypeOK
  BY DEF TypeInv, TypeOK
<1>1. CASE Startup
  <2>1. CASE StartEngine \/ GiveUpReview \/ Serve
    BY <2>1, WakeupStutter DEF StartEngine, GiveUpReview, Serve, dispatchVars
  <2>2. CASE RecoverReview
    <3>1. PICK row \in toRecover :
              IF row.status = "running" THEN EnqueueAsRunning(row.id) ELSE Enqueue(row.id)
      BY <2>2 DEF RecoverReview
    <3>2. UNCHANGED dpc
      BY <2>2 DEF RecoverReview, dispatchVars
    <3>3. taskReady' > 0 \/ UNCHANGED queueVars
      BY <3>1, EnqueueSignals
    <3> QED
      BY <3>2, <3>3, WakeupStutter DEF NoLostWakeup
  <2> QED
    BY <1>1, <2>1, <2>2 DEF Startup
<1>2. CASE Crash
  BY <1>2 DEF Crash, QueueReset, NoLostWakeup, NothingToDequeue, HoldsRecovered, Dispatchable
<1>3. ASSUME NEW t \in Reviews, NEW k \in Slots, Request(t, k)
      PROVE  NoLostWakeup'
  <2>1. UNCHANGED dpc
    BY <1>3 DEF Request, CreateReview, Submit, SubmitFails, RetryLoad, RetryCheck, RetryReset,
         RetryEnqueue, RetryBuildFails, RetryDbFault, dispatchVars
  <2>2. Enqueue(t) \/ UNCHANGED queueVars
    BY <1>3 DEF Request, CreateReview, Submit, SubmitFails, RetryLoad, RetryCheck, RetryReset,
         RetryEnqueue, RetryBuildFails, RetryDbFault
  <2>3. taskReady' > 0 \/ UNCHANGED queueVars
    BY <2>2, EnqueueSignals
  <2> QED
    BY <2>1, <2>3, WakeupStutter DEF NoLostWakeup
<1>4. ASSUME NEW t \in Reviews, CancelReview(t)
      PROVE  NoLostWakeup'
  BY <1>4, WakeupStutter DEF CancelReview, dispatchVars
<1>5. CASE DispatchStep
  <2>1. CASE AwaitSignal \/ DequeueTask \/ SendTask
    BY <2>1 DEF AwaitSignal, DequeueTask, SendTask, NoLostWakeup
  <2>2. CASE QueueDrained
    BY <2>2 DEF QueueDrained, NoLostWakeup, NothingToDequeue, HoldsRecovered, Dispatchable, queueVars
  <2> QED
    BY <1>5, <2>1, <2>2 DEF DispatchStep, Dispatch
<1>6. ASSUME NEW w \in Workers, Worker(w)
      PROVE  NoLostWakeup'
  <2>1. CASE WorkerReceive(w)
    BY <2>1, WakeupStutter DEF WorkerReceive, ReceiveTask
  <2>2. CASE ProcessTask(w)
    BY <2>2, ProcessStep, WakeupStutter DEF ProcessFrame, dispatchVars
  <2>3. CASE WorkerDone(w)
    BY <2>3, MarkCompleteSignals DEF WorkerDone, CompleteTask, NoLostWakeup
  <2> QED
    BY <1>6, <2>1, <2>2, <2>3 DEF Worker
<1>7. CASE UNCHANGED vars
  BY <1>7, WakeupStutter DEF vars, dispatchVars
<1> QED
  BY <1>1, <1>2, <1>3, <1>4, <1>5, <1>6, <1>7 DEF Next

\* No lost wake-up, for every capacity of the channel and whatever crashes,
\* failing statements and overlapping requests happen.
THEOREM NoWakeupIsLost == Spec => []NoLostWakeup
<1>1. Init => NoLostWakeup
  BY DEF Init, QueueInit, NoLostWakeup, NothingToDequeue, HoldsRecovered, Dispatchable
<1> QED
  BY <1>1, InitTyped, NextTyped, WakeupStep, PTL DEF Spec

-----------------------------------------------------------------------------
(* Serialization.  It holds as long as the requests for one review do not   *)
(* overlap and the server does not crash: the model finds both kinds of     *)
(* violation otherwise.                                                     *)

OneAtATime ==
    /\ MaxCrashes = 0
    /\ \A j, k \in Slots : j = k

\* A request that is going to queue its review finds it absent, ...
RequestInv ==
    \A t \in Reviews, k \in Slots :
        rpc[t][k] \in {"created", "checked", "reset"} => Absent(t)

\* ... as is a review that does not exist yet.
FreshInv ==
    \A t \in Reviews :
        status[t] = "none" => Absent(t) /\ \A k \in Slots : rpc[t][k] = "idle"

\* On an empty database recovery has nothing to do.
RecoveryInv ==
    /\ toRecover = {}
    /\ phase # "serving" => \A t \in Reviews : status[t] = "none"

SerialInv ==
    /\ TypeInv
    /\ ListInv
    /\ CurrentInv
    /\ FlightInv
    /\ PlaceInv
    /\ RequestInv
    /\ FreshInv
    /\ RecoveryInv

LEMMA SerialDispatch == SerialInv => DispatchInv
  BY DEF SerialInv, DispatchInv, TypeInv, TypeOK

\* The invariant holds initially.
LEMMA InitSerial == Init => SerialInv
  BY InitTyped, NoTaskAssumption, RepoOfAssumption
  DEF Init, QueueInit, DispatchInit, SerialInv, ListInv, CurrentInv, FlightInv, PlaceInv,
      RequestInv, FreshInv, RecoveryInv, Absent

\* An absent review is not known to HasTask, and the other way round.
LEMMA AbsentMeansNoTask ==
    ASSUME SerialInv, NEW t \in Reviews, ~HasTask(t)
    PROVE  Absent(t)
  BY NoTaskAssumption, RepoOfAssumption DEF SerialInv, CurrentInv, HasTask, Absent

\* The requests keep the invariant while those of one review do not overlap.
LEMMA RequestSerial ==
    ASSUME OneAtATime, SerialInv, NEW t \in Reviews, NEW k \in Slots, Request(t, k)
    PROVE  SerialInv'
<1> TypeInv
  BY DEF SerialInv
<1>1. TypeInv'
  BY RequestTyped
<1>2. Slots = {k}
  BY DEF OneAtATime
<1>3. /\ UNCHANGED <<toRecover, phase>>
      /\ UNCHANGED dispatchVars
      /\ \A u \in Reviews : u # t => rpc'[u] = rpc[u] /\ status'[u] = status[u]
  BY DEF TypeInv, TypeOK, Request, CreateReview, Submit, SubmitFails, RetryLoad, RetryCheck,
         RetryReset, RetryEnqueue, RetryBuildFails, RetryDbFault, procVars, dbVars
<1>4. phase = "serving"
  BY DEF SerialInv, RecoveryInv, FreshInv, Request, CreateReview, Submit, SubmitFails, RetryLoad,
         RetryCheck, RetryReset, RetryEnqueue, RetryBuildFails, RetryDbFault
<1>5. RecoveryInv'
  BY <1>3, <1>4 DEF SerialInv, RecoveryInv
<1>6. status'[t] # "none"
  BY DEF SerialInv, FreshInv, TypeInv, TypeOK, Request, CreateReview, Submit, SubmitFails, RetryLoad,
         RetryCheck, RetryReset, RetryEnqueue, RetryBuildFails, RetryDbFault, dbVars
<1>7. CASE Submit(t, k) \/ RetryEnqueue(t, k)
  <2>1. Absent(t) /\ Enqueue(t) /\ rpc'[t][k] = "idle"
    BY <1>7 DEF Submit, RetryEnqueue, SerialInv, RequestInv, TypeInv, TypeOK
  <2>2. /\ ListInv' /\ CurrentInv' /\ FlightInv' /\ PlaceInv'
        /\ \A u \in Reviews : u # t /\ Absent(u) => Absent(u)'
    BY <1>3, <2>1, EnqueueSerial, SerialDispatch
  <2>3. RequestInv'
    BY <1>2, <1>3, <2>1, <2>2 DEF SerialInv, RequestInv
  <2>4. FreshInv'
    BY <1>3, <1>6, <2>2 DEF SerialInv, FreshInv
  <2> QED
    BY <1>1, <1>5, <2>2, <2>3, <2>4 DEF SerialInv
<1>8. CASE ~(Submit(t, k) \/ RetryEnqueue(t, k))
  <2>1. UNCHANGED queueVars
    BY <1>8 DEF Request, CreateReview, SubmitFails, RetryLoad, RetryCheck, RetryReset,
         RetryBuildFails, RetryDbFault
  <2>2. /\ ListInv' /\ CurrentInv' /\ FlightInv' /\ PlaceInv'
        /\ \A u \in Reviews : Absent(u) => Absent(u)'
    BY <1>3, <2>1, QueueStutter, SerialDispatch
  <2>3. rpc'[t][k] \in {"created", "checked", "reset"} => Absent(t)
    <3>1. CASE CreateReview(t, k)
      BY <3>1 DEF CreateReview, SerialInv, FreshInv
    <3>2. CASE RetryCheck(t, k)
      BY <3>2, AbsentMeansNoTask DEF RetryCheck, TypeInv, TypeOK
    <3>3. CASE RetryReset(t, k)
      BY <3>3 DEF RetryReset, SerialInv, RequestInv
    <3> QED
      BY <1>8, <3>1, <3>2, <3>3 DEF Request, SubmitFails, RetryLoad, RetryBuildFails,
         RetryDbFault, TypeInv, TypeOK
  <2>4. RequestInv'
    BY <1>2, <1>3, <2>2, <2>3 DEF SerialInv, RequestInv
  <2>5. FreshInv'
    BY <1>3, <1>6, <2>2 DEF SerialInv, FreshInv
  <2> QED
    BY <1>1, <1>5, <2>2, <2>4, <2>5 DEF SerialInv
<1> QED
  BY <1>7, <1>8

\* A step that keeps absent reviews absent and no request moves in.
LEMMA OthersSerial ==
    ASSUME SerialInv, TypeInv', UNCHANGED <<rpc, phase, toRecover>>,
           ListInv', CurrentInv', FlightInv', PlaceInv',
           \A u \in Reviews : Absent(u) => Absent(u)',
           \A u \in Reviews : status'[u] = "none" <=> status[u] = "none"
    PROVE  SerialInv'
<1>1. RequestInv' /\ FreshInv'
  BY DEF SerialInv, RequestInv, FreshInv
<1>2. RecoveryInv'
  BY DEF SerialInv, RecoveryInv
<1> QED
  BY <1>1, <1>2 DEF SerialInv

\* Start-up finds nothing to recover; a crash cannot happen.
LEMMA StartupSerial ==
    ASSUME OneAtATime, SerialInv, Startup \/ Crash
    PROVE  SerialInv'
<1>1. ~Crash
  BY BoundsAssumption DEF OneAtATime, Crash, SerialInv, TypeInv, TypeOK
<1>2. toRecover = {} /\ ~RecoverReview /\ ~GiveUpReview
  BY DEF SerialInv, RecoveryInv, RecoverReview, GiveUpReview
<1>3. StartEngine \/ Serve
  BY <1>1, <1>2 DEF Startup
<1>4. UNCHANGED queueVars /\ UNCHANGED dispatchVars /\ UNCHANGED dbVars /\ UNCHANGED rpc
  BY <1>3 DEF StartEngine, Serve, reqVars
<1>5. /\ ListInv' /\ CurrentInv' /\ FlightInv' /\ PlaceInv'
      /\ \A u \in Reviews : Absent(u) => Absent(u)'
  BY <1>4, QueueStutter, SerialDispatch
<1>6. RequestInv' /\ FreshInv'
  BY <1>4, <1>5 DEF SerialInv, RequestInv, FreshInv, dbVars
<1>7. RecoveryInv'
  <2>1. CASE StartEngine
    BY <2>1, <1>4 DEF StartEngine, PendingOrRunning, DbFault, SerialInv, RecoveryInv, dbVars
  <2>2. CASE Serve
    BY <2>2 DEF Serve, SerialInv, RecoveryInv
  <2> QED
    BY <1>3, <2>1, <2>2
<1>8. TypeInv'
  BY <1>3, StartupTyped DEF Startup, SerialInv
<1> QED
  BY <1>5, <1>6, <1>7, <1>8 DEF SerialInv

\* The invariant is inductive.
LEMMA NextSerial == OneAtATime /\ SerialInv /\ [Next]_vars => SerialInv'
<1> SUFFICES ASSUME OneAtATime, SerialInv, [Next]_vars PROVE SerialInv'
  OBVIOUS
<1> TypeInv
  BY DEF SerialInv
<1>1. TypeInv'
  BY NextTyped
<1>2. ASSUME NEW t \in Reviews, CancelReview(t)
      PROVE  SerialInv'
  <2>1. UNCHANGED queueVars /\ UNCHANGED dispatchVars /\ UNCHANGED <<rpc, phase, toRecover>>
    BY <1>2 DEF CancelReview, reqVars, procVars
  <2>2. \A u \in Reviews : status'[u] = "none" <=> status[u] = "none"
    BY <1>2 DEF CancelReview, TypeInv, TypeOK
  <2> QED
    BY <1>1, <2>1, <2>2, QueueStutter, OthersSerial, SerialDispatch
<1>3. CASE DispatchStep
  <2>1. UNCHANGED <<rpc, phase, toRecover, status>>
    BY <1>3 DEF DispatchStep, dbVars, reqVars, procVars
  <2>2. /\ ListInv' /\ CurrentInv' /\ FlightInv' /\ PlaceInv'
        /\ \A u \in Reviews : Absent(u) => Absent(u)'
    BY <1>3, DispatchSerial, SerialDispatch DEF DispatchStep
  <2> QED
    BY <1>1, <2>1, <2>2, OthersSerial
<1>4. ASSUME NEW w \in Workers, Worker(w)
      PROVE  SerialInv'
  <2>1. CASE WorkerReceive(w)
    <3>1. UNCHANGED <<rpc, phase, toRecover, status>> /\ ReceiveTask(w)
      BY <2>1 DEF WorkerReceive, dbVars, reqVars, procVars
    <3> QED
      BY <1>1, <3>1, ReceiveSerial, OthersSerial, SerialDispatch
  <2>2. CASE ProcessTask(w)
    <3>1. ProcessFrame
      BY <2>2, ProcessStep
    <3>2. UNCHANGED queueVars /\ UNCHANGED dispatchVars /\ UNCHANGED <<rpc, phase, toRecover>>
      BY <3>1 DEF ProcessFrame, reqVars
    <3>3. \A u \in Reviews : status'[u] = "none" <=> status[u] = "none"
      <4>1. PICK t \in Reviews \cup {NoTask} : t = wtask[w]
        BY DEF TypeInv, TypeOK, DispatchTypeOK
      <4>2. t \in Reviews => status[t] # "none"
        BY <4>1, NoTaskAssumption DEF SerialInv, FlightInv, FreshInv, Occupies, Absent
      <4>3. status \in [Reviews -> Statuses]
        BY DEF TypeInv, TypeOK
      <4>4. CASE UNCHANGED status
        BY <4>4
      <4>5. ASSUME NEW s \in {"running", "completed", "failed"}, SetStatus(w, s)
            PROVE  \A u \in Reviews : status'[u] = "none" <=> status[u] = "none"
        <5>1. \A u \in Reviews : status'[u] = IF u = t THEN s ELSE status[u]
          BY <4>1, <4>3, <4>5 DEF SetStatus
        <5> QED
          BY <4>2, <5>1
      <4> QED
        BY <2>2, <4>4, <4>5, ProcessStep
    <3> QED
      BY <1>1, <3>2, <3>3, QueueStutter, OthersSerial, SerialDispatch
  <2>3. CASE WorkerDone(w)
    <3>1. UNCHANGED <<rpc, phase, toRecover, status>> /\ CompleteTask(w)
      BY <2>3 DEF WorkerDone, dbVars, reqVars, procVars
    <3> QED
      BY <1>1, <3>1, CompleteSerial, OthersSerial, SerialDispatch
  <2> QED
    BY <1>4, <2>1, <2>2, <2>3 DEF Worker
<1>5. CASE UNCHANGED vars
  <2>1. UNCHANGED queueVars /\ UNCHANGED dispatchVars /\ UNCHANGED <<rpc, phase, toRecover, status>>
    BY <1>5 DEF vars, reqVars, procVars, dbVars
  <2> QED
    BY <1>1, <2>1, QueueStutter, OthersSerial, SerialDispatch
<1> QED
  BY <1>2, <1>3, <1>4, <1>5, RequestSerial, StartupSerial DEF Next

\* Repository-level serialization, for any number of repositories, reviews,
\* workers and retries, whatever the capacity of the channels, when requests
\* for one review do not overlap and the server does not crash.
THEOREM Serialized ==
    ASSUME OneAtATime
    PROVE  Spec => []RepoSerialized
<1>1. SerialInv => RepoSerialized
  BY SerialDispatch, OneTaskPerRepo DEF RepoSerialized
<1>2. SerialInv /\ [Next]_vars => SerialInv'
  BY NextSerial
<1> QED
  BY <1>1, <1>2, InitSerial, PTL DEF Spec

-----------------------------------------------------------------------------
(* Refinement.  Under the same condition every step is a step of           *)
(* PerRepoFifo, or none: Enqueue an Arrive, DequeueTask a Start, and       *)
(* CompleteTask a Finish.                                                  *)

\* The tasks in flight, per repository: the mapping's value of active.
Active == [r \in Repos |-> {t \in InFlight : RepoOf[t] = r}]

\* What is in flight occupies its repository, so that no repository has two.
LEMMA FlightOccupies ==
    ASSUME SerialInv, NEW t \in InFlight
    PROVE  t \in Reviews /\ Occupies(t)
  BY NoTaskAssumption DEF SerialInv, FlightInv, InFlight

\* A step that changes neither the lists nor what is in flight is none of
\* PerRepoFifo.
LEMMA AbstractStutter ==
    ASSUME UNCHANGED tasks, InFlight' = InFlight
    PROVE  UNCHANGED <<tasks, Active>>
  BY DEF Active

\* A step that leaves the dispatcher alone leaves alone what is in flight.
LEMMA FlightStutter ==
    ASSUME UNCHANGED dispatchVars
    PROVE  InFlight' = InFlight
  BY DEF InFlight, dispatchVars

\* Queueing an absent task is its arrival.
LEMMA EnqueueArrives ==
    ASSUME SerialInv, NEW t \in Reviews, Absent(t), Enqueue(t), UNCHANGED dispatchVars
    PROVE  Abs!Arrive(t)
<1>1. AppendTask(t)
  BY DEF Enqueue, AlreadyQueued, Absent
<1>2. RepoOf[t] \in Repos
  BY RepoOfAssumption
<1>3. t \notin Active[RepoOf[t]]
  BY <1>2, FlightOccupies DEF Active, Occupies, Absent
<1>4. \A i \in 1..Len(tasks[RepoOf[t]]) : tasks[RepoOf[t]][i] # t
  BY <1>2 DEF SerialInv, ListInv, Absent
<1>5. UNCHANGED Active
  BY FlightStutter DEF Active
<1> QED
  BY <1>1, <1>3, <1>4, <1>5 DEF AppendTask, Active, Abs!Arrive

\* The dispatch loop starts the first waiting task of a repository that has
\* none in flight.
LEMMA DequeueStarts ==
    ASSUME SerialInv, DequeueTask
    PROVE  \E r \in Repos : Abs!Start(r)
<1> QueueTypeOK /\ DispatchTypeOK
  BY DEF SerialInv, TypeInv, TypeOK
<1>1. PICK t \in Reviews : Dequeue(t) /\ dtask' = t
  BY DEF DequeueTask
<1>2. PICK q \in Repos : DequeueRecovered(q, t) \/ DequeueFront(q, t)
  BY <1>1 DEF Dequeue
<1>3. DequeueFront(q, t)
  BY <1>2 DEF DequeueRecovered, HoldsRecovered, SerialInv, CurrentInv
<1>4. /\ ~running[q] /\ tasks[q] # <<>> /\ t = Head(tasks[q])
      /\ tasks' = [tasks EXCEPT ![q] = Tail(tasks[q])]
      /\ UNCHANGED <<taskQueue, wtask>>
  BY <1>3 DEF DequeueFront, Dispatchable, DequeueTask
<1>5. RepoOf[t] = q
  <2>1. 1 \in 1..Len(tasks[q]) /\ t = tasks[q][1]
    BY <1>4 DEF QueueTypeOK
  <2> QED
    BY <2>1 DEF SerialInv, ListInv
<1>6. Active[q] = {}
  BY <1>4, FlightOccupies DEF Active, Occupies
<1>7. InFlight' = InFlight \cup {t}
  <2>1. dtask \notin Reviews
    BY NoTaskAssumption DEF DequeueTask, DispatchTypeOK
  <2> QED
    BY <1>1, <1>4, <2>1 DEF InFlight
<1>8. Active' = [Active EXCEPT ![q] = {t}]
  <2>1. \A r \in Repos : Active'[r] = IF r = q THEN {t} ELSE Active[r]
    BY <1>5, <1>6, <1>7 DEF Active
  <2> QED
    BY <2>1 DEF Active
<1> QED
  BY <1>4, <1>6, <1>8 DEF Active, Abs!Start

\* A task that moves on to the channel or to a worker stays in flight.
LEMMA MoveStutters ==
    ASSUME DispatchTypeOK, SendTask \/ \E w \in Workers : ReceiveTask(w)
    PROVE  UNCHANGED <<tasks, Active>> /\ InFlight' = InFlight
<1> DEFINE n == Len(taskQueue)
<1> taskQueue \in Seq(Reviews) /\ n \in Nat
  BY DEF DispatchTypeOK
<1>1. UNCHANGED tasks
  BY DEF SendTask, ReceiveTask, queueVars
<1>2. CASE SendTask
  <2>1. /\ Len(taskQueue') = n + 1 /\ taskQueue'[n + 1] = dtask
        /\ \A i \in 1..n : taskQueue'[i] = taskQueue[i]
        /\ \A i \in 1..(n + 1) : i = n + 1 \/ i \in 1..n
        /\ n + 1 \in 1..(n + 1) /\ \A i \in 1..n : i \in 1..(n + 1)
    BY <1>2 DEF SendTask, DispatchTypeOK
  <2>2. \A t \in Reviews : t \in InFlight' <=> t \in InFlight
    BY <1>2, <2>1, NoTaskAssumption DEF SendTask, InFlight
  <2> QED
    BY <1>1, <2>2, AbstractStutter DEF InFlight
<1>3. ASSUME NEW w \in Workers, ReceiveTask(w)
      PROVE  UNCHANGED <<tasks, Active>> /\ InFlight' = InFlight
  <2>1. /\ n \in Nat \ {0} /\ wtask[w] = NoTask
        /\ wtask' = [wtask EXCEPT ![w] = taskQueue[1]]
        /\ Len(taskQueue') = n - 1
        /\ \A i \in 1..(n - 1) : taskQueue'[i] = taskQueue[i + 1] /\ i + 1 \in 1..n
        /\ \A i \in 1..n : i = 1 \/ (i - 1 \in 1..(n - 1) /\ taskQueue'[i - 1] = taskQueue[i])
        /\ 1 \in 1..n /\ UNCHANGED dtask
    BY <1>3 DEF ReceiveTask
  <2>2. /\ wtask'[w] = taskQueue[1]
        /\ \A v \in Workers : v # w => wtask'[v] = wtask[v]
    BY <2>1 DEF DispatchTypeOK
  <2>3. \A t \in Reviews : t \in InFlight' => t \in InFlight
    BY <2>1, <2>2 DEF InFlight
  <2>4. \A t \in Reviews : t \in InFlight => t \in InFlight'
    BY <2>1, <2>2, NoTaskAssumption DEF InFlight
  <2> QED
    BY <1>1, <2>3, <2>4, AbstractStutter DEF InFlight
<1> QED
  BY <1>2, <1>3

\* Completing a task finishes the only one its repository has in flight.
LEMMA CompleteFinishes ==
    ASSUME SerialInv, NEW w \in Workers, CompleteTask(w)
    PROVE  \E r \in Repos : Abs!Finish(r)
<1> DEFINE t == wtask[w]
           q == RepoOf[t]
<1> DispatchTypeOK
  BY DEF SerialInv, TypeInv, TypeOK
<1>1. t \in Reviews /\ t # NoTask /\ q \in Repos /\ t \in InFlight
  BY RepoOfAssumption DEF CompleteTask, DispatchTypeOK, InFlight
<1>2. UNCHANGED tasks /\ wtask' = [wtask EXCEPT ![w] = NoTask] /\ UNCHANGED <<dtask, taskQueue>>
  BY DEF CompleteTask, MarkComplete
<1>3. \A u \in InFlight : RepoOf[u] = q => u = t
  BY <1>1, FlightOccupies DEF Occupies
<1>4. /\ wtask'[w] = NoTask
      /\ \A v \in Workers : v # w => wtask'[v] = wtask[v]
  BY <1>2 DEF DispatchTypeOK
<1>5. t \notin InFlight'
  BY <1>1, <1>2, <1>4 DEF InFlight, SerialInv, PlaceInv
<1>6. \A u \in Reviews : u # t => (u \in InFlight' <=> u \in InFlight)
  BY <1>2, <1>4, NoTaskAssumption DEF InFlight
<1>7. Active[q] # {}
  BY <1>1 DEF Active
<1>8. Active' = [Active EXCEPT ![q] = {}]
  <2>1. InFlight \subseteq Reviews /\ InFlight' \subseteq Reviews
    BY DEF InFlight
  <2>2. \A r \in Repos : Active'[r] = IF r = q THEN {} ELSE Active[r]
    BY <1>1, <1>3, <1>5, <1>6, <2>1 DEF Active
  <2> QED
    BY <2>2 DEF Active
<1> QED
  BY <1>1, <1>2, <1>7, <1>8 DEF Active, Abs!Finish

\* Every step is one of PerRepoFifo, or none.
LEMMA NextRefines ==
    ASSUME OneAtATime, SerialInv, [Next]_vars
    PROVE  Abs!Next \/ UNCHANGED <<tasks, Active>>
<1> DispatchTypeOK
  BY DEF SerialInv, TypeInv, TypeOK
<1>1. CASE Startup \/ Crash
  <2>1. ~Crash
    BY BoundsAssumption DEF OneAtATime, Crash, SerialInv, TypeInv, TypeOK
  <2>2. StartEngine \/ Serve
    BY <1>1, <2>1 DEF Startup, RecoverReview, GiveUpReview, SerialInv, RecoveryInv
  <2> QED
    BY <2>2, FlightStutter, AbstractStutter DEF StartEngine, Serve, queueVars
<1>2. ASSUME NEW t \in Reviews, NEW k \in Slots, Request(t, k)
      PROVE  Abs!Next \/ UNCHANGED <<tasks, Active>>
  <2>1. UNCHANGED dispatchVars
    BY <1>2 DEF Request, CreateReview, Submit, SubmitFails, RetryLoad, RetryCheck, RetryReset,
         RetryEnqueue, RetryBuildFails, RetryDbFault
  <2>2. CASE Submit(t, k) \/ RetryEnqueue(t, k)
    <3>1. Absent(t) /\ Enqueue(t)
      BY <2>2 DEF Submit, RetryEnqueue, SerialInv, RequestInv
    <3> QED
      BY <2>1, <3>1, EnqueueArrives DEF Abs!Next
  <2>3. CASE ~(Submit(t, k) \/ RetryEnqueue(t, k))
    <3>1. UNCHANGED tasks
      BY <1>2, <2>3 DEF Request, CreateReview, SubmitFails, RetryLoad, RetryCheck, RetryReset,
         RetryBuildFails, RetryDbFault, queueVars
    <3> QED
      BY <2>1, <3>1, FlightStutter, AbstractStutter
  <2> QED
    BY <2>2, <2>3
<1>3. ASSUME NEW t \in Reviews, CancelReview(t)
      PROVE  UNCHANGED <<tasks, Active>>
  BY <1>3, FlightStutter, AbstractStutter DEF CancelReview, queueVars
<1>4. CASE DispatchStep
  <2>1. CASE AwaitSignal \/ QueueDrained
    BY <2>1, AbstractStutter DEF AwaitSignal, QueueDrained, TakeSignal, InFlight, queueVars
  <2> QED
    BY <1>4, <2>1, DequeueStarts, MoveStutters DEF DispatchStep, Dispatch, Abs!Next
<1>5. ASSUME NEW w \in Workers, Worker(w)
      PROVE  Abs!Next \/ UNCHANGED <<tasks, Active>>
  <2>1. CASE WorkerReceive(w)
    BY <2>1, MoveStutters DEF WorkerReceive
  <2>2. CASE ProcessTask(w)
    <3>1. ProcessFrame
      BY <2>2, ProcessStep DEF SerialInv
    <3> QED
      BY <3>1, FlightStutter, AbstractStutter DEF ProcessFrame, queueVars
  <2>3. CASE WorkerDone(w)
    BY <2>3, CompleteFinishes DEF WorkerDone, Abs!Next
  <2> QED
    BY <1>5, <2>1, <2>2, <2>3 DEF Worker
<1>6. CASE UNCHANGED vars
  BY <1>6, FlightStutter, AbstractStutter DEF vars, queueVars
<1> QED
  BY <1>1, <1>2, <1>3, <1>4, <1>5, <1>6 DEF Next

\* Every behaviour of the engine is one of PerRepoFifo, seen through the lists
\* and the tasks in flight: whatever the number of repositories, reviews,
\* workers and retries, tasks of one repository are processed one at a time
\* and in the order of their queueing.
THEOREM Refinement ==
    ASSUME OneAtATime
    PROVE  Spec => ServesInOrder
<1>1. Init => Abs!Init
  BY NoTaskAssumption DEF Init, QueueInit, DispatchInit, InFlight, Abs!Init
<1>2. SerialInv /\ [Next]_vars => [Abs!Next]_<<tasks, Active>>
  BY NextRefines
<1>3. SerialInv /\ [Next]_vars => SerialInv'
  BY NextSerial
<1> QED
  BY <1>1, <1>2, <1>3, InitSerial, PTL DEF Spec, ServesInOrder, Abs!Spec, Active

-----------------------------------------------------------------------------
(* Outcomes.  Under the same condition no write of the status column       *)
(* takes back a completed review, nor a cancelled one that was not claimed. *)

\* Taken up by the engine, and not yet in the hands of a worker.
OnTheWay(t) ==
    \/ t \in tasksByID
    \/ dtask = t
    \/ \E i \in 1..Len(taskQueue) : taskQueue[i] = t

\* A request works on a review that is not running and has not completed, ...
RequestStatus ==
    \A t \in Reviews, k \in Slots :
        /\ rpc[t][k] \in {"created", "reset"} => status[t] \in {"pending", "cancelled"}
        /\ rpc[t][k] \in {"loaded", "checked"} => status[t] = "failed"

\* ... a task that was not yet received has not been run, ...
QueuedStatus ==
    \A t \in Reviews : OnTheWay(t) => status[t] \in {"pending", "cancelled"}

\* ... and a worker's review has the status the worker has given it, unless it
\* was cancelled.
WorkerStatus ==
    \A w \in Workers : wtask[w] # NoTask =>
        /\ wpc[w] \in {"check", "claim"} => status[wtask[w]] \in {"pending", "cancelled"}
        /\ wpc[w] \in {"prepare", "mark", "run"} => status[wtask[w]] \in {"running", "cancelled"}
        /\ wpc[w] \in {"fail", "error"} => status[wtask[w]] \in {"running", "failed", "cancelled"}

\* A worker is idle exactly when it has no task.
WorkerHolds ==
    \A w \in Workers : wpc[w] = "idle" <=> wtask[w] = NoTask

OutcomeInv == SerialInv /\ RequestStatus /\ QueuedStatus /\ WorkerStatus /\ WorkerHolds

\* An absent review is nowhere in the engine.
LEMMA AbsentIsNowhere ==
    ASSUME SerialInv, NEW t \in Reviews, Absent(t)
    PROVE  ~OnTheWay(t) /\ \A w \in Workers : wtask[w] # t
  BY NoTaskAssumption DEF SerialInv, FlightInv, Occupies, Absent, OnTheWay

\* Requests and cancellations keep the invariant.
LEMMA RequestOutcome ==
    ASSUME OneAtATime, OutcomeInv, NEW t \in Reviews, NEW k \in Slots, Request(t, k)
    PROVE  OutcomeInv'
<1> SerialInv /\ TypeInv
  BY DEF OutcomeInv, SerialInv
<1>1. SerialInv'
  BY RequestSerial
<1>2. Slots = {k}
  BY DEF OneAtATime
<1>3. /\ UNCHANGED dispatchVars /\ UNCHANGED wpc
      /\ \A u \in Reviews : u # t => rpc'[u] = rpc[u] /\ status'[u] = status[u]
  BY DEF TypeInv, TypeOK, Request, CreateReview, Submit, SubmitFails, RetryLoad, RetryCheck,
         RetryReset, RetryEnqueue, RetryBuildFails, RetryDbFault, dbVars
<1>4. \/ tasksByID' = tasksByID
      \/ tasksByID' = tasksByID \cup {t} /\ rpc[t][k] \in {"created", "reset"}
  <2>1. CASE Submit(t, k) \/ RetryEnqueue(t, k)
    BY <2>1 DEF Submit, RetryEnqueue, Enqueue, AlreadyQueued, AppendTask, queueVars
  <2>2. CASE UNCHANGED queueVars
    BY <2>2 DEF queueVars
  <2>3. CASE ~(Submit(t, k) \/ RetryEnqueue(t, k))
    <3>1. UNCHANGED queueVars
      BY <2>3 DEF Request, CreateReview, SubmitFails, RetryLoad, RetryCheck, RetryReset,
         RetryBuildFails, RetryDbFault
    <3> QED
      BY <2>2, <3>1
  <2> QED
    BY <2>1, <2>3
<1>5. CASE UNCHANGED status
  <2>1. QueuedStatus'
    BY <1>3, <1>4, <1>5 DEF OutcomeInv, RequestStatus, QueuedStatus, OnTheWay, dispatchVars
  <2>2. WorkerStatus' /\ WorkerHolds'
    BY <1>3, <1>5 DEF OutcomeInv, WorkerStatus, WorkerHolds, dispatchVars
  <2>3. rpc'[t][k] \in {"idle", rpc[t][k]} \/ RetryLoad(t, k) \/ RetryCheck(t, k)
    <3>1. ~CreateReview(t, k) /\ ~RetryReset(t, k)
      BY <1>5 DEF CreateReview, RetryReset, OutcomeInv, RequestStatus, TypeInv, TypeOK
    <3>2. CASE Submit(t, k) \/ SubmitFails(t, k) \/ RetryEnqueue(t, k) \/ RetryBuildFails(t, k)
               \/ RetryDbFault(t, k)
      BY <3>2 DEF Submit, SubmitFails, RetryEnqueue, RetryBuildFails, RetryDbFault, TypeInv, TypeOK
    <3> QED
      BY <3>1, <3>2 DEF Request
  <2>4. RequestStatus'
    <3>1. CASE rpc'[t][k] \in {"idle", rpc[t][k]}
      BY <1>2, <1>3, <1>5, <3>1 DEF OutcomeInv, RequestStatus
    <3>2. CASE RetryLoad(t, k)
      BY <1>2, <1>3, <1>5, <3>2 DEF RetryLoad, OutcomeInv, RequestStatus, TypeInv, TypeOK
    <3>3. CASE RetryCheck(t, k)
      BY <1>2, <1>3, <1>5, <3>3 DEF RetryCheck, OutcomeInv, RequestStatus, TypeInv, TypeOK
    <3> QED
      BY <2>3, <3>1, <3>2, <3>3
  <2> QED
    BY <1>1, <2>1, <2>2, <2>4 DEF OutcomeInv
<1>6. CASE ~UNCHANGED status
  <2>1. CreateReview(t, k) \/ SubmitFails(t, k) \/ RetryReset(t, k) \/ RetryBuildFails(t, k)
    BY <1>6 DEF Request, Submit, RetryLoad, RetryCheck, RetryEnqueue, RetryDbFault, dbVars
  <2>2. Absent(t)
    BY <2>1 DEF CreateReview, SubmitFails, RetryReset, RetryBuildFails, SerialInv, FreshInv, RequestInv
  <2>3. UNCHANGED queueVars
    BY <2>1 DEF CreateReview, SubmitFails, RetryReset, RetryBuildFails
  <2>4. QueuedStatus' /\ WorkerStatus' /\ WorkerHolds'
    <3>1. ~OnTheWay(t) /\ \A w \in Workers : wtask[w] # t
      BY <2>2, AbsentIsNowhere
    <3>2. \A u \in Reviews : OnTheWay(u)' <=> OnTheWay(u)
      BY <1>3, <2>3 DEF OnTheWay, dispatchVars, queueVars
    <3>3. QueuedStatus'
      BY <1>3, <3>1, <3>2 DEF OutcomeInv, QueuedStatus
    <3>4. \A w \in Workers : wtask[w] # NoTask => wtask[w] \in Reviews
      BY DEF TypeInv, TypeOK, DispatchTypeOK
    <3>5. \A w \in Workers : wtask'[w] # NoTask => status'[wtask'[w]] = status[wtask[w]]
      BY <1>3, <3>1, <3>4 DEF dispatchVars
    <3>6. WorkerStatus'
      BY <1>3, <3>5 DEF OutcomeInv, WorkerStatus, dispatchVars
    <3> QED
      BY <1>3, <3>3, <3>6 DEF OutcomeInv, WorkerHolds, dispatchVars
  <2>5. (rpc'[t][k] \in {"created", "reset"} /\ status'[t] = "pending") \/ rpc'[t][k] = "idle"
    BY <2>1 DEF CreateReview, SubmitFails, RetryReset, RetryBuildFails, TypeInv, TypeOK
  <2>6. RequestStatus'
    BY <1>2, <1>3, <2>5 DEF OutcomeInv, RequestStatus
  <2> QED
    BY <1>1, <2>4, <2>6 DEF OutcomeInv
<1> QED
  BY <1>5, <1>6

\* What a worker writes while it processes a task is what its place allows.
LEMMA ProcessWrites ==
    ASSUME OutcomeInv, NEW w \in Workers, ProcessTask(w), wtask[w] # NoTask
    PROVE  LET t == wtask[w] IN
           /\ \A u \in Reviews : u # t => status'[u] = status[u]
           /\ \A v \in Workers : v # w => wpc'[v] = wpc[v]
           /\ UNCHANGED wtask
           /\ wpc'[w] \in {"check", "claim"} => status'[t] \in {"pending", "cancelled"}
           /\ wpc'[w] \in {"prepare", "mark", "run"} => status'[t] \in {"running", "cancelled"}
           /\ wpc'[w] \in {"fail", "error"} => status'[t] \in {"running", "failed", "cancelled"}
           /\ status[t] = "failed" => status'[t] = "failed"
           /\ status[t] = "completed" => status'[t] = "completed"
           /\ status[t] = "cancelled" /\ status'[t] # "cancelled"
                 => wpc[w] \in {"mark", "run"} \/ status'[t] = "failed"
<1> DEFINE t == wtask[w]
<1> TypeInv
  BY DEF OutcomeInv, SerialInv
<1>1. t \in Reviews
  BY DEF TypeInv, TypeOK, DispatchTypeOK
<1>2. UNCHANGED wtask /\ \A v \in Workers : v # w => wpc'[v] = wpc[v]
  BY ProcessStep DEF ProcessFrame, Goto, dispatchVars, TypeInv, TypeOK
<1>3. \A u \in Reviews : u # t => status'[u] = status[u]
  BY ProcessStep, <1>1 DEF SetStatus, TypeInv, TypeOK
<1>4. /\ wpc[w] \in {"check", "claim"} => status[t] \in {"pending", "cancelled"}
      /\ wpc[w] \in {"prepare", "mark", "run"} => status[t] \in {"running", "cancelled"}
      /\ wpc[w] \in {"fail", "error"} => status[t] \in {"running", "failed", "cancelled"}
  BY DEF OutcomeInv, WorkerStatus
<1> USE DEF Goto, SetStatus, TrySetStatus, TypeInv, TypeOK
<1>5. CASE CheckStatus(w) \/ Claim(w) \/ ClaimDbFault(w)
  BY <1>1, <1>2, <1>3, <1>4, <1>5 DEF CheckStatus, Claim, ClaimDbFault
<1>6. CASE Prepare(w) \/ MarkRunning(w)
  BY <1>1, <1>2, <1>3, <1>4, <1>6 DEF Prepare, MarkRunning
<1>7. CASE RunSucceeds(w) \/ RunFails(w)
  BY <1>1, <1>2, <1>3, <1>4, <1>7 DEF RunSucceeds, RunFails
<1>8. CASE RecordFailure(w) \/ HandleError(w)
  BY <1>1, <1>2, <1>3, <1>4, <1>8 DEF RecordFailure, HandleError
<1> QED
  BY <1>5, <1>6, <1>7, <1>8 DEF ProcessTask

\* A step of the dispatch loop takes up no review that was not taken up before.
LEMMA DispatchOutcome ==
    ASSUME OutcomeInv, DispatchStep
    PROVE  RequestStatus' /\ QueuedStatus' /\ WorkerStatus' /\ WorkerHolds'
<1> SerialInv /\ QueueTypeOK /\ DispatchTypeOK
  BY DEF OutcomeInv, SerialInv, TypeInv, TypeOK
<1>1. UNCHANGED <<status, rpc, wpc, wtask>>
  BY DEF DispatchStep, Dispatch, AwaitSignal, DequeueTask, QueueDrained, SendTask, dbVars, reqVars
<1>2. \A u \in Reviews : OnTheWay(u)' => OnTheWay(u)
  <2>1. CASE AwaitSignal \/ QueueDrained
    BY <2>1 DEF AwaitSignal, QueueDrained, TakeSignal, OnTheWay, queueVars
  <2>2. CASE DequeueTask
    <3>1. PICK t \in Reviews : Dequeue(t) /\ dtask' = t
      BY <2>2 DEF DequeueTask
    <3>2. PICK q \in Repos : DequeueRecovered(q, t) \/ DequeueFront(q, t)
      BY <3>1 DEF Dequeue
    <3>3. CASE DequeueRecovered(q, t)
      BY <2>2, <3>1, <3>3 DEF DequeueRecovered, HoldsRecovered, DequeueTask, OnTheWay
    <3>4. CASE DequeueFront(q, t)
      <4>1. 1 \in 1..Len(tasks[q]) /\ t = tasks[q][1]
        BY <3>4 DEF DequeueFront, Dispatchable, QueueTypeOK
      <4>2. t \in tasksByID
        BY <4>1 DEF SerialInv, ListInv
      <4> QED
        BY <2>2, <3>1, <3>4, <4>2 DEF DequeueFront, DequeueTask, OnTheWay
    <3> QED
      BY <3>2, <3>3, <3>4
  <2>3. CASE SendTask
    <3> DEFINE n == Len(taskQueue)
    <3>1. /\ Len(taskQueue') = n + 1 /\ taskQueue'[n + 1] = dtask
          /\ \A i \in 1..n : taskQueue'[i] = taskQueue[i]
          /\ \A i \in 1..(n + 1) : i = n + 1 \/ i \in 1..n
      BY <2>3 DEF SendTask, DispatchTypeOK
    <3> QED
      BY <2>3, <3>1, NoTaskAssumption DEF SendTask, OnTheWay, queueVars
  <2> QED
    BY <2>1, <2>2, <2>3 DEF DispatchStep, Dispatch
<1>3. RequestStatus' /\ WorkerStatus' /\ WorkerHolds'
  BY <1>1 DEF OutcomeInv, RequestStatus, WorkerStatus, WorkerHolds
<1>4. QueuedStatus'
  BY <1>1, <1>2 DEF OutcomeInv, QueuedStatus
<1> QED
  BY <1>3, <1>4

\* A task in the hands of a worker is not on its way, in the hands of no other
\* worker, and no request is about to queue it.
LEMMA WorkerAlone ==
    ASSUME SerialInv, NEW w \in Workers, wtask[w] # NoTask
    PROVE  /\ wtask[w] \in Reviews
           /\ ~OnTheWay(wtask[w])
           /\ \A v \in Workers : v # w => wtask[v] # wtask[w]
           /\ \A k \in Slots : rpc[wtask[w]][k] \notin {"created", "checked", "reset"}
<1> DEFINE t == wtask[w]
<1>1. t \in Reviews
  BY DEF SerialInv, TypeInv, TypeOK, DispatchTypeOK
<1>2. Occupies(t) /\ RepoOf[t] \in Repos
  BY <1>1, RepoOfAssumption DEF SerialInv, FlightInv
<1>3. t \notin tasksByID
  BY <1>2 DEF SerialInv, CurrentInv, Occupies
<1>4. ~OnTheWay(t)
  BY <1>3 DEF OnTheWay, SerialInv, PlaceInv
<1>5. \A v \in Workers : v # w => wtask[v] # t
  BY DEF SerialInv, PlaceInv
<1>6. \A k \in Slots : rpc[t][k] \notin {"created", "checked", "reset"}
  BY <1>1, <1>2 DEF SerialInv, RequestInv, Absent, Occupies
<1> QED
  BY <1>1, <1>4, <1>5, <1>6

\* So do the steps of the workers.
LEMMA WorkerOutcome ==
    ASSUME OutcomeInv, NEW w \in Workers, Worker(w)
    PROVE  RequestStatus' /\ QueuedStatus' /\ WorkerStatus' /\ WorkerHolds'
<1> SerialInv /\ TypeInv /\ DispatchTypeOK
  BY DEF OutcomeInv, SerialInv, TypeInv, TypeOK
<1>1. CASE WorkerReceive(w)
  <2> DEFINE n == Len(taskQueue)
             t == taskQueue[1]
  <2>1. /\ wtask' = [wtask EXCEPT ![w] = t] /\ wpc' = [wpc EXCEPT ![w] = "check"]
        /\ UNCHANGED <<status, rpc, dtask, tasksByID>>
        /\ n \in Nat \ {0} /\ 1 \in 1..n /\ t \in Reviews
        /\ Len(taskQueue') = n - 1
        /\ \A i \in 1..(n - 1) : taskQueue'[i] = taskQueue[i + 1] /\ i + 1 \in 1..n
    BY <1>1 DEF WorkerReceive, ReceiveTask, Goto, DispatchTypeOK, dbVars, reqVars, queueVars
  <2>2. \A u \in Reviews : OnTheWay(u)' => OnTheWay(u)
    BY <2>1 DEF OnTheWay
  <2>3. status[t] \in {"pending", "cancelled"}
    BY <2>1 DEF OutcomeInv, QueuedStatus, OnTheWay
  <2>4. /\ wtask'[w] = t /\ wpc'[w] = "check" /\ t # NoTask
        /\ \A v \in Workers : v # w => wtask'[v] = wtask[v] /\ wpc'[v] = wpc[v]
    BY <2>1, NoTaskAssumption DEF DispatchTypeOK, TypeInv, TypeOK
  <2>5. RequestStatus' /\ QueuedStatus'
    BY <2>1, <2>2 DEF OutcomeInv, RequestStatus, QueuedStatus
  <2>6. WorkerStatus' /\ WorkerHolds'
    BY <2>1, <2>3, <2>4 DEF OutcomeInv, WorkerStatus, WorkerHolds
  <2> QED
    BY <2>5, <2>6
<1>2. CASE ProcessTask(w)
  <2>1. wpc[w] # "idle" /\ wtask[w] # NoTask
    BY <1>2 DEF ProcessTask, CheckStatus, Claim, ClaimDbFault, Prepare, MarkRunning, RunSucceeds,
        RunFails, RecordFailure, HandleError, OutcomeInv, WorkerHolds
  <2>2. ProcessFrame /\ wpc'[w] # "idle"
    BY <1>2, ProcessStep DEF Goto, TypeInv, TypeOK
  <2>3. UNCHANGED queueVars /\ UNCHANGED dispatchVars /\ UNCHANGED rpc
    BY <2>2 DEF ProcessFrame, reqVars
  <2>4. \A u \in Reviews : OnTheWay(u)' <=> OnTheWay(u)
    BY <2>3 DEF OnTheWay, queueVars, dispatchVars
  <2>5. \A u \in Reviews : OnTheWay(u) => u # wtask[w]
    BY <2>1, WorkerAlone
  <2>6. QueuedStatus'
    BY <1>2, <2>1, <2>4, <2>5, ProcessWrites DEF OutcomeInv, QueuedStatus
  <2>7. RequestStatus'
    BY <1>2, <2>1, <2>3, WorkerAlone, ProcessWrites DEF OutcomeInv, RequestStatus
  <2>8. WorkerStatus'
    <3> SUFFICES ASSUME NEW v \in Workers, wtask'[v] # NoTask
                 PROVE  (/\ wpc[v] \in {"check", "claim"} => status[wtask[v]] \in {"pending", "cancelled"}
                         /\ wpc[v] \in {"prepare", "mark", "run"} => status[wtask[v]] \in {"running", "cancelled"}
                         /\ wpc[v] \in {"fail", "error"}
                               => status[wtask[v]] \in {"running", "failed", "cancelled"})'
      BY DEF WorkerStatus
    <3>1. CASE v = w
      BY <1>2, <2>1, <3>1, ProcessWrites
    <3>2. CASE v # w
      <4>1. wtask'[v] = wtask[v] /\ wtask[v] \in Reviews /\ wtask[v] # wtask[w]
        BY <2>1, <2>3, <3>2, WorkerAlone DEF dispatchVars, DispatchTypeOK
      <4>2. status'[wtask'[v]] = status[wtask[v]] /\ wpc'[v] = wpc[v]
        BY <1>2, <2>1, <3>2, <4>1, ProcessWrites
      <4> QED
        BY <4>1, <4>2 DEF OutcomeInv, WorkerStatus
    <3> QED
      BY <3>1, <3>2
  <2>9. WorkerHolds'
    BY <1>2, <2>1, <2>2, <2>3, ProcessWrites DEF OutcomeInv, WorkerHolds, dispatchVars
  <2> QED
    BY <2>6, <2>7, <2>8, <2>9
<1>3. CASE WorkerDone(w)
  <2>1. /\ wtask' = [wtask EXCEPT ![w] = NoTask] /\ wpc' = [wpc EXCEPT ![w] = "idle"]
        /\ UNCHANGED <<status, rpc, dtask, taskQueue>>
        /\ tasksByID' \subseteq tasksByID
    BY <1>3 DEF WorkerDone, CompleteTask, MarkComplete, Goto, dbVars, reqVars
  <2>2. /\ wtask'[w] = NoTask /\ wpc'[w] = "idle"
        /\ \A v \in Workers : v # w => wtask'[v] = wtask[v] /\ wpc'[v] = wpc[v]
    BY <2>1 DEF DispatchTypeOK, TypeInv, TypeOK
  <2>3. RequestStatus' /\ QueuedStatus'
    BY <2>1 DEF OutcomeInv, RequestStatus, QueuedStatus, OnTheWay
  <2>4. WorkerStatus' /\ WorkerHolds'
    BY <2>1, <2>2 DEF OutcomeInv, WorkerStatus, WorkerHolds
  <2> QED
    BY <2>3, <2>4
<1> QED
  BY <1>1, <1>2, <1>3 DEF Worker

\* The invariant is inductive.
LEMMA NextOutcome == OneAtATime /\ OutcomeInv /\ [Next]_vars => OutcomeInv'
<1> SUFFICES ASSUME OneAtATime, OutcomeInv, [Next]_vars PROVE OutcomeInv'
  OBVIOUS
<1> SerialInv /\ TypeInv
  BY DEF OutcomeInv, SerialInv
<1>1. SerialInv'
  BY NextSerial
<1>2. CASE Startup \/ Crash \/ UNCHANGED vars
  <2>1. StartEngine \/ Serve \/ UNCHANGED vars
    BY <1>2, BoundsAssumption DEF Startup, RecoverReview, GiveUpReview, Crash, OneAtATime, SerialInv,
        RecoveryInv, TypeInv, TypeOK
  <2>2. UNCHANGED <<queueVars, dispatchVars, status, rpc, wpc>>
    BY <2>1 DEF StartEngine, Serve, vars, dbVars, reqVars
  <2>3. RequestStatus' /\ QueuedStatus' /\ WorkerStatus' /\ WorkerHolds'
    BY <2>2 DEF OutcomeInv, RequestStatus, QueuedStatus, WorkerStatus, WorkerHolds, OnTheWay,
        queueVars, dispatchVars
  <2> QED
    BY <1>1, <2>3 DEF OutcomeInv
<1>3. ASSUME NEW t \in Reviews, CancelReview(t)
      PROVE  OutcomeInv'
  <2>1. /\ UNCHANGED <<queueVars, dispatchVars, rpc, wpc>>
        /\ status[t] \in Open
        /\ \A u \in Reviews : status'[u] = IF u = t THEN "cancelled" ELSE status[u]
    BY <1>3 DEF CancelReview, reqVars, TypeInv, TypeOK
  <2>2. QueuedStatus' /\ RequestStatus'
    BY <2>1 DEF OutcomeInv, RequestStatus, QueuedStatus, OnTheWay, queueVars, dispatchVars
  <2>3. \A w \in Workers : wtask[w] # NoTask => wtask[w] \in Reviews
    BY DEF TypeInv, TypeOK, DispatchTypeOK
  <2>4. WorkerStatus' /\ WorkerHolds'
    BY <2>1, <2>3 DEF OutcomeInv, WorkerStatus, WorkerHolds, dispatchVars
  <2> QED
    BY <1>1, <2>2, <2>4 DEF OutcomeInv
<1>4. CASE DispatchStep
  BY <1>1, <1>4, DispatchOutcome DEF OutcomeInv
<1>5. ASSUME NEW w \in Workers, Worker(w)
      PROVE  OutcomeInv'
  BY <1>1, <1>5, WorkerOutcome DEF OutcomeInv
<1> QED
  BY <1>2, <1>3, <1>4, <1>5, RequestOutcome DEF Next

\* The invariant holds initially.
LEMMA InitOutcome == Init => OutcomeInv
  BY InitSerial, NoTaskAssumption
  DEF Init, QueueInit, DispatchInit, OutcomeInv, RequestStatus, QueuedStatus, WorkerStatus,
      WorkerHolds, OnTheWay

\* Who may take a review out of the status completed or cancelled: nobody, but
\* for the worker that had claimed it before it was cancelled.
LEMMA SettledStays ==
    ASSUME OneAtATime, OutcomeInv, [Next]_vars, NEW t \in Reviews
    PROVE  /\ status[t] = "completed" => status'[t] = "completed"
           /\ status[t] = "cancelled" /\ status'[t] \in {"pending", "running", "completed"}
                => \E w \in Workers : wtask[w] = t /\ wpc[w] \in {"mark", "run"}
<1> SerialInv /\ TypeInv
  BY DEF OutcomeInv, SerialInv
<1>1. CASE Startup \/ Crash \/ DispatchStep \/ UNCHANGED vars
  <2>1. ~Crash /\ ~GiveUpReview
    BY BoundsAssumption DEF OneAtATime, Crash, GiveUpReview, SerialInv, RecoveryInv, TypeInv, TypeOK
  <2>2. UNCHANGED status
    BY <1>1, <2>1 DEF Startup, StartEngine, RecoverReview, Serve, DispatchStep, vars, dbVars
  <2> QED
    BY <2>2
<1>2. ASSUME NEW u \in Reviews, NEW k \in Slots, Request(u, k), status'[t] # status[t]
      PROVE  status[t] \notin {"completed", "cancelled"} \/ (status'[t] = "failed" /\ status[t] = "cancelled")
  <2>1. CreateReview(u, k) \/ SubmitFails(u, k) \/ RetryReset(u, k) \/ RetryBuildFails(u, k)
    BY <1>2 DEF Request, Submit, RetryLoad, RetryCheck, RetryEnqueue, RetryDbFault, dbVars
  <2>2. u = t
    BY <1>2, <2>1 DEF CreateReview, SubmitFails, RetryReset, RetryBuildFails, TypeInv, TypeOK
  <2> QED
    BY <2>1, <2>2 DEF CreateReview, SubmitFails, RetryReset, RetryBuildFails, OutcomeInv, RequestStatus,
        TypeInv, TypeOK
<1>3. ASSUME NEW u \in Reviews, CancelReview(u), status'[t] # status[t]
      PROVE  status[t] \in Open
  BY <1>3 DEF CancelReview, TypeInv, TypeOK
<1>4. ASSUME NEW w \in Workers, Worker(w), status'[t] # status[t]
      PROVE  /\ status[t] # "completed"
             /\ status[t] = "cancelled" => wtask[w] = t /\ (wpc[w] \in {"mark", "run"} \/ status'[t] = "failed")
  <2>1. ProcessTask(w)
    BY <1>4 DEF Worker, WorkerReceive, WorkerDone, dbVars
  <2>2. wtask[w] # NoTask
    BY <2>1 DEF ProcessTask, CheckStatus, Claim, ClaimDbFault, Prepare, MarkRunning, RunSucceeds,
        RunFails, RecordFailure, HandleError, OutcomeInv, WorkerHolds
  <2> QED
    BY <1>4, <2>1, <2>2, ProcessWrites
<1> QED
  BY <1>1, <1>2, <1>3, <1>4 DEF Next

\* A completed review stays completed: no late write of a worker, a retry or
\* recovery takes it back.
THEOREM CompletedStays ==
    ASSUME OneAtATime
    PROVE  Spec => CompletedIsFinal
<1>1. OutcomeInv /\ [Next]_vars
        => [\A t \in Reviews : status[t] = "completed" => status'[t] = "completed"]_status
  BY SettledStays
<1> QED
  BY <1>1, InitOutcome, NextOutcome, PTL DEF Spec, CompletedIsFinal

\* A review cancelled while it waits is not run: only a worker that had claimed
\* it before can bring it back.
THEOREM CancelledStays ==
    ASSUME OneAtATime
    PROVE  Spec => CancelledWhileWaitingStays
<1>1. OutcomeInv /\ [Next]_vars
        => [\A t \in Reviews :
              status[t] = "cancelled" /\ status'[t] \in {"pending", "running", "completed"}
                => \E w \in Workers : wtask[w] = t /\ wpc[w] \in {"mark", "run"}]_status
  BY SettledStays
<1> QED
  BY <1>1, InitOutcome, NextOutcome, PTL DEF Spec, CancelledWhileWaitingStays

-----------------------------------------------------------------------------
(* No pending review is forgotten, with any number of crashes, of          *)
(* overlapping requests, of workers, and a queue that the overlapping      *)
(* retries have filled with duplicates.                                    *)
(*                                                                         *)
(* PendingHeld alone is not inductive.  A request whose Enqueue finds the  *)
(* id in the index gives up its hold on the review, so the index must only *)
(* name reviews that wait in a list, and it does not: a running review     *)
(* that recovery installed and that was displaced stays indexed for ever.  *)
(* Such a review is Parked: no request works on it and it never becomes    *)
(* pending again.                                                          *)

\* In a list, of whatever repository.
Listed(t) == \E r \in Repos : \E i \in 1..Len(tasks[r]) : tasks[r][i] = t

\* Known to no part of the engine.
Nowhere(t) == t \notin tasksByID /\ ~Listed(t) /\ t \notin InFlight

NoRequest(t) == \A k \in Slots : rpc[t][k] = "idle"

\* Left in the index by recovery, and not handed out.
Parked(t) ==
    /\ status[t] \in {"running", "cancelled"}
    /\ t \notin InFlight
    /\ NoRequest(t)

\* The index names the reviews that wait, and those that are parked.
IndexInv == \A t \in tasksByID : Waiting(t) \/ Parked(t)

\* What recovery has still to handle is what it has read, untouched since.
RecoverInv ==
    /\ toRecover # {} => phase = "recovering"
    /\ \A row \in toRecover : Nowhere(row.id) /\ status[row.id] = row.status

\* Requests arrive only when the server serves, and nothing outlives it.
PhaseInv ==
    /\ phase # "serving" => \A t \in Reviews : NoRequest(t)
    /\ phase = "down" => \A t \in Reviews : Nowhere(t)

\* A worker will still look at the status of t.
Looking(t) == \E w \in Workers : wtask[w] = t /\ wpc[w] \in {"check", "claim"}

\* Who will take the next step for a pending review.
Covered(t) ==
    \/ Waiting(t)
    \/ dtask = t
    \/ \E i \in 1..Len(taskQueue) : taskQueue[i] = t
    \/ Looking(t)
    \/ \E k \in Slots : rpc[t][k] \in {"created", "reset"}
    \/ \E row \in toRecover : row.id = t
    \/ phase = "down"

PendingInv == faults = 0 => \A t \in Reviews : status[t] = "pending" => Covered(t)

HoldInv == TypeInv /\ IndexInv /\ RecoverInv /\ PhaseInv /\ PendingInv

-----------------------------------------------------------------------------
(* What the operations of the queue do to the reviews in it *)

\* Nothing moves in a step that leaves queue and dispatcher alone.
LEMMA PlacesStutter ==
    ASSUME UNCHANGED queueVars, UNCHANGED dispatchVars
    PROVE  /\ InFlight' = InFlight
           /\ \A u : (Waiting(u)' <=> Waiting(u)) /\ (Listed(u)' <=> Listed(u)) /\ (Nowhere(u)' <=> Nowhere(u))
  BY DEF InFlight, Waiting, Listed, Nowhere, queueVars, dispatchVars

\* Queueing adds one review to the index and takes nobody off a list; a review
\* that was not indexed waits afterwards.
LEMMA EnqueueWaits ==
    ASSUME QueueTypeOK, NEW t \in Reviews, Enqueue(t), UNCHANGED dispatchVars
    PROVE  /\ InFlight' = InFlight
           /\ tasksByID' = tasksByID \cup {t}
           /\ \A u \in Reviews : Waiting(u) => Waiting(u)'
           /\ t \notin tasksByID => Waiting(t)'
           /\ \A u \in Reviews : u # t /\ Nowhere(u) => Nowhere(u)'
<1> DEFINE q == RepoOf[t]
           n == Len(tasks[q])
<1>1. q \in Repos /\ tasks[q] \in Seq(Reviews) /\ n \in Nat
  BY RepoOfAssumption DEF QueueTypeOK
<1>2. InFlight' = InFlight
  BY FlightStutter
<1>3. CASE AlreadyQueued(t)
  BY <1>2, <1>3 DEF AlreadyQueued, queueVars, Waiting, Listed, Nowhere
<1>4. CASE AppendTask(t)
  <2>1. /\ tasks' = [tasks EXCEPT ![q] = Append(tasks[q], t)]
        /\ known' = known \cup {q} /\ tasksByID' = tasksByID \cup {t}
    BY <1>4 DEF AppendTask
  <2>2. /\ Len(tasks'[q]) = n + 1 /\ tasks'[q][n + 1] = t /\ n + 1 \in 1..(n + 1)
        /\ \A i \in 1..n : tasks'[q][i] = tasks[q][i] /\ i \in 1..(n + 1)
        /\ \A i \in 1..(n + 1) : i = n + 1 \/ i \in 1..n
        /\ \A r \in Repos : r # q => tasks'[r] = tasks[r]
    BY <1>1, <2>1 DEF QueueTypeOK
  <2>3. \A u \in Reviews : RepoOf[u] \in Repos
    BY RepoOfAssumption
  <2>4. \A u \in Reviews : Waiting(u) => Waiting(u)'
    <3> SUFFICES ASSUME NEW u \in Reviews, Waiting(u) PROVE Waiting(u)'
      OBVIOUS
    <3>1. CASE RepoOf[u] = q
      BY <2>1, <2>2, <3>1 DEF Waiting
    <3>2. CASE RepoOf[u] # q
      BY <2>1, <2>2, <2>3, <3>2 DEF Waiting
    <3> QED
      BY <3>1, <3>2
  <2>5. Waiting(t)'
    BY <2>1, <2>2 DEF Waiting
  <2>6. \A u \in Reviews : u # t /\ ~Listed(u) => ~Listed(u)'
    <3> SUFFICES ASSUME NEW u \in Reviews, u # t, NEW r \in Repos, NEW i \in 1..Len(tasks'[r]),
                        tasks'[r][i] = u
                 PROVE  Listed(u)
      BY DEF Listed
    <3>1. CASE r = q
      BY <1>1, <2>2, <3>1 DEF Listed
    <3>2. CASE r # q
      BY <2>2, <3>2 DEF Listed
    <3> QED
      BY <3>1, <3>2
  <2> QED
    BY <1>2, <2>1, <2>4, <2>5, <2>6 DEF Nowhere
<1> QED
  BY <1>3, <1>4 DEF Enqueue

\* Installing a recovered review touches no list.
LEMMA InstallKeeps ==
    ASSUME QueueTypeOK, NEW t \in Reviews, EnqueueAsRunning(t), UNCHANGED dispatchVars
    PROVE  /\ InFlight' = InFlight
           /\ tasksByID' = tasksByID \cup {t}
           /\ \A u \in Reviews : Waiting(u) => Waiting(u)'
           /\ \A u \in Reviews : u # t /\ Nowhere(u) => Nowhere(u)'
<1>1. InFlight' = InFlight
  BY FlightStutter
<1> QED
  BY <1>1 DEF EnqueueAsRunning, AlreadyQueued, InstallRunning, queueVars, Waiting, Listed, Nowhere

\* The dispatch loop takes one review from the index and, at most, one entry of
\* it from a list.
LEMMA DequeueTakes ==
    ASSUME QueueTypeOK, DispatchTypeOK, DequeueTask
    PROVE  \E t \in Reviews :
              /\ dtask' = t /\ dtask = NoTask /\ UNCHANGED <<taskQueue, wtask>>
              /\ ~Nowhere(t)
              /\ tasksByID' = tasksByID \ {t}
              /\ InFlight' = InFlight \cup {t}
              /\ \A u \in Reviews : u # t /\ Waiting(u) => Waiting(u)'
              /\ \A u \in Reviews : Nowhere(u) => Nowhere(u)'
<1>1. PICK t \in Reviews : Dequeue(t) /\ dtask' = t
  BY DEF DequeueTask
<1>2. PICK q \in Repos : DequeueRecovered(q, t) \/ DequeueFront(q, t)
  BY <1>1 DEF Dequeue
<1>3. dtask = NoTask /\ dtask \notin Reviews /\ UNCHANGED <<taskQueue, wtask>>
  BY NoTaskAssumption DEF DequeueTask, DispatchTypeOK
<1>4. InFlight' = InFlight \cup {t}
  BY <1>1, <1>3 DEF InFlight
<1>5. CASE DequeueRecovered(q, t)
  <2>1. UNCHANGED <<known, tasks>> /\ tasksByID' = tasksByID \ {t} /\ t \in tasksByID
    BY <1>5 DEF DequeueRecovered, HoldsRecovered
  <2>2. \A u \in Reviews : (Waiting(u) => Waiting(u)') /\ (Listed(u)' => Listed(u))
    BY <2>1 DEF Waiting, Listed
  <2>3. \A u \in Reviews : Nowhere(u) => u # t /\ Nowhere(u)'
    BY <1>4, <2>1, <2>2 DEF Nowhere
  <2> QED
    BY <1>1, <1>3, <1>4, <2>1, <2>2, <2>3
<1>6. CASE DequeueFront(q, t)
  <2> DEFINE n == Len(tasks[q])
  <2>1. /\ UNCHANGED known /\ tasksByID' = tasksByID \ {t}
        /\ tasks[q] \in Seq(Reviews) /\ n \in Nat \ {0} /\ 1 \in 1..n /\ t = tasks[q][1]
        /\ \A r \in Repos : r # q => tasks'[r] = tasks[r]
        /\ Len(tasks'[q]) = n - 1
        /\ \A i \in 1..(n - 1) : tasks'[q][i] = tasks[q][i + 1] /\ i + 1 \in 1..n
        /\ \A i \in 1..n : i = 1 \/ (i - 1 \in 1..(n - 1) /\ tasks'[q][i - 1] = tasks[q][i])
    BY <1>6 DEF DequeueFront, Dispatchable, QueueTypeOK
  <2>2. \A u \in Reviews : u # t /\ Waiting(u) => Waiting(u)'
    <3> SUFFICES ASSUME NEW u \in Reviews, u # t, Waiting(u) PROVE Waiting(u)'
      OBVIOUS
    <3>1. CASE RepoOf[u] = q
      BY <2>1, <3>1 DEF Waiting
    <3>2. CASE RepoOf[u] # q
      BY <2>1, <3>2, RepoOfAssumption DEF Waiting
    <3> QED
      BY <3>1, <3>2
  <2>3. \A u \in Reviews : Listed(u)' => Listed(u)
    <3> SUFFICES ASSUME NEW u \in Reviews, NEW r \in Repos, NEW i \in 1..Len(tasks'[r]), tasks'[r][i] = u
                 PROVE  Listed(u)
      BY DEF Listed
    <3>1. CASE r = q
      BY <2>1, <3>1 DEF Listed
    <3>2. CASE r # q
      BY <2>1, <3>2 DEF Listed
    <3> QED
      BY <3>1, <3>2
  <2>4. Listed(t)
    BY <2>1 DEF Listed
  <2>5. \A u \in Reviews : Nowhere(u) => u # t /\ Nowhere(u)'
    BY <1>4, <2>1, <2>3, <2>4 DEF Nowhere
  <2>6. ~Nowhere(t)
    BY <2>4 DEF Nowhere
  <2> QED
    BY <1>1, <1>3, <1>4, <2>1, <2>2, <2>5, <2>6
<1> QED
  BY <1>2, <1>5, <1>6

\* Completing a task takes it off the index, and the entry of its repository is
\* dropped only when nobody waits there.
LEMMA CompleteKeeps ==
    ASSUME QueueTypeOK, DispatchTypeOK, NEW w \in Workers, CompleteTask(w)
    PROVE  /\ wtask[w] \in Reviews
           /\ wtask' = [wtask EXCEPT ![w] = NoTask] /\ UNCHANGED <<dtask, taskQueue>>
           /\ tasksByID' = tasksByID \ {wtask[w]}
           /\ InFlight' \subseteq InFlight
           /\ \A u \in Reviews : Waiting(u) => Waiting(u)'
           /\ \A u \in Reviews : Nowhere(u) => Nowhere(u)'
<1> DEFINE t == wtask[w]
<1>1. t \in Reviews /\ RepoOf[t] \in Repos /\ MarkComplete(t)
  BY RepoOfAssumption DEF CompleteTask, DispatchTypeOK
<1>2. wtask' = [wtask EXCEPT ![w] = NoTask] /\ UNCHANGED <<dtask, taskQueue>>
  BY DEF CompleteTask
<1>3. InFlight' \subseteq InFlight
  BY <1>2, NoTaskAssumption DEF InFlight, DispatchTypeOK
<1>4. /\ UNCHANGED tasks /\ tasksByID' = tasksByID \ {t}
      /\ \A r \in Repos : r \in known /\ tasks[r] # <<>> => r \in known'
  BY <1>1 DEF MarkComplete
<1>5. \A u \in Reviews : Waiting(u) => Waiting(u)'
  BY <1>4, RepoOfAssumption DEF Waiting
<1>6. \A u \in Reviews : Nowhere(u) => Nowhere(u)'
  BY <1>3, <1>4 DEF Nowhere, Listed
<1> QED
  BY <1>1, <1>2, <1>3, <1>4, <1>5, <1>6
-----------------------------------------------------------------------------
(* The invariant is inductive *)

\* The invariant holds initially.
LEMMA InitHold == Init => HoldInv
<1> SUFFICES ASSUME Init PROVE HoldInv
  OBVIOUS
<1>1. \A t \in Reviews : Nowhere(t)
  BY NoTaskAssumption DEF Init, QueueInit, DispatchInit, Nowhere, Listed, InFlight
<1> QED
  BY <1>1, InitTyped
  DEF Init, QueueInit, HoldInv, IndexInv, RecoverInv, PhaseInv, NoRequest, PendingInv

\* Recovery has one row for a review.
LEMMA RowsUnique ==
    ASSUME TypeOK, RecoverInv, NEW a \in toRecover, NEW b \in toRecover, a.id = b.id
    PROVE  a = b
<1>1. a \in [id : Reviews, status : Open] /\ b \in [id : Reviews, status : Open]
  BY DEF TypeOK
<1>2. a.status = b.status
  BY DEF RecoverInv
<1>3. a = [id |-> a.id, status |-> a.status] /\ b = [id |-> b.id, status |-> b.status]
  BY <1>1
<1> QED
  BY <1>2, <1>3

\* Start-up and recovery: what is read is handled, one review after the other.
LEMMA StartupHold ==
    ASSUME HoldInv, Startup
    PROVE  HoldInv'
<1> TypeInv /\ QueueTypeOK
  BY DEF HoldInv, TypeInv, TypeOK
<1>1. TypeInv'
  BY StartupTyped
<1>2. CASE StartEngine
  <2>1. /\ UNCHANGED queueVars /\ UNCHANGED dispatchVars /\ UNCHANGED <<status, wpc, rpc>>
        /\ phase = "down" /\ phase' = "recovering"
    BY <1>2 DEF StartEngine, dbVars, reqVars
  <2>2. \A t \in Reviews : Nowhere(t) /\ Nowhere(t)' /\ NoRequest(t) /\ NoRequest(t)'
    BY <2>1, PlacesStutter DEF HoldInv, PhaseInv, NoRequest
  <2>3. toRecover' = PendingOrRunning \/ (toRecover' = {} /\ faults' # 0)
    BY <1>2 DEF StartEngine, DbFault, HoldInv, RecoverInv, TypeInv, TypeOK
  <2>4. IndexInv'
    BY <2>1, <2>2 DEF IndexInv, Nowhere, queueVars, TypeInv, TypeOK, QueueTypeOK
  <2>5. RecoverInv'
    BY <2>1, <2>2, <2>3 DEF RecoverInv, PendingOrRunning
  <2>6. PhaseInv'
    BY <2>1, <2>2 DEF PhaseInv
  <2>7. PendingInv'
    <3> SUFFICES ASSUME faults' = 0, NEW u \in Reviews, status'[u] = "pending"
                 PROVE  \E row \in toRecover' : row.id = u
      BY DEF PendingInv, Covered
    <3>1. [id |-> u, status |-> status[u]] \in PendingOrRunning
      BY <2>1 DEF PendingOrRunning
    <3> QED
      BY <2>3, <3>1
  <2> QED
    BY <1>1, <2>4, <2>5, <2>6, <2>7 DEF HoldInv
<1>3. CASE RecoverReview
  <2>1. PICK row \in toRecover :
            /\ IF row.status = "running" THEN EnqueueAsRunning(row.id) ELSE Enqueue(row.id)
            /\ toRecover' = toRecover \ {row}
    BY <1>3 DEF RecoverReview
  <2> DEFINE t == row.id
  <2>2. /\ UNCHANGED dispatchVars /\ UNCHANGED <<status, wpc, rpc, phase, faults>>
        /\ phase = "recovering"
    BY <1>3 DEF RecoverReview, dbVars, reqVars
  <2>3. /\ t \in Reviews /\ row.status \in Open
        /\ Nowhere(t) /\ status[t] = row.status
    BY DEF HoldInv, RecoverInv, TypeInv, TypeOK
  <2>4. /\ InFlight' = InFlight
        /\ tasksByID' = tasksByID \cup {t}
        /\ \A u \in Reviews : Waiting(u) => Waiting(u)'
        /\ \A u \in Reviews : u # t /\ Nowhere(u) => Nowhere(u)'
    BY <2>1, <2>2, <2>3, EnqueueWaits, InstallKeeps
  <2>5. row.status = "pending" => Waiting(t)'
    BY <2>1, <2>2, <2>3, EnqueueWaits DEF Nowhere
  <2>6. \A u \in Reviews : Parked(u) => Parked(u)'
    BY <2>2, <2>4 DEF Parked, NoRequest
  <2>7. row.status = "running" => Parked(t)'
    BY <2>2, <2>3, <2>4 DEF Parked, NoRequest, HoldInv, PhaseInv, Nowhere
  <2>8. IndexInv'
    BY <2>3, <2>4, <2>5, <2>6, <2>7 DEF HoldInv, IndexInv, QueueTypeOK
  <2>9. \A other \in toRecover : other.id = t => other = row
    BY RowsUnique DEF HoldInv, TypeInv
  <2>10. RecoverInv'
    BY <2>1, <2>2, <2>4, <2>9 DEF HoldInv, RecoverInv, TypeInv, TypeOK
  <2>11. PhaseInv'
    BY <2>2 DEF HoldInv, PhaseInv, NoRequest
  <2>12. PendingInv'
    <3> SUFFICES ASSUME faults' = 0, NEW u \in Reviews, status'[u] = "pending"
                 PROVE  Covered(u)'
      BY DEF PendingInv
    <3>1. Covered(u)
      BY <2>2 DEF HoldInv, PendingInv
    <3>2. CASE u = t
      BY <2>2, <2>3, <2>5, <3>2 DEF Covered
    <3>3. CASE u # t
      BY <2>1, <2>2, <2>4, <3>1, <3>3 DEF Covered, Looking, dispatchVars
    <3> QED
      BY <3>2, <3>3
  <2> QED
    BY <1>1, <2>8, <2>10, <2>11, <2>12 DEF HoldInv
<1>4. CASE GiveUpReview
  <2>1. PICK row \in toRecover :
            /\ status' = [status EXCEPT ![row.id] = "failed"]
            /\ toRecover' = toRecover \ {row}
    BY <1>4 DEF GiveUpReview
  <2> DEFINE t == row.id
  <2>2. /\ UNCHANGED queueVars /\ UNCHANGED dispatchVars /\ UNCHANGED <<wpc, rpc, phase, faults>>
        /\ phase = "recovering"
    BY <1>4 DEF GiveUpReview, reqVars
  <2>3. t \in Reviews /\ Nowhere(t) /\ status[t] = row.status
    BY DEF HoldInv, RecoverInv, TypeInv, TypeOK
  <2>4. \A u \in Reviews : status'[u] = IF u = t THEN "failed" ELSE status[u]
    BY <2>1, <2>3 DEF TypeInv, TypeOK
  <2>5. IndexInv'
    BY <2>2, <2>3, <2>4, PlacesStutter
    DEF HoldInv, IndexInv, Parked, NoRequest, Nowhere, queueVars, QueueTypeOK
  <2>6. \A other \in toRecover : other.id = t => other = row
    BY RowsUnique DEF HoldInv, TypeInv
  <2>7. RecoverInv'
    BY <2>1, <2>2, <2>4, <2>6, PlacesStutter DEF HoldInv, RecoverInv, TypeInv, TypeOK
  <2>8. PhaseInv'
    BY <2>2 DEF HoldInv, PhaseInv, NoRequest
  <2>9. PendingInv'
    BY <2>1, <2>2, <2>4, PlacesStutter DEF HoldInv, PendingInv, Covered, Looking, dispatchVars
  <2> QED
    BY <1>1, <2>5, <2>7, <2>8, <2>9 DEF HoldInv
<1>5. CASE Serve
  <2>1. /\ UNCHANGED queueVars /\ UNCHANGED dispatchVars /\ UNCHANGED <<status, wpc, rpc, faults>>
        /\ toRecover = {} /\ toRecover' = {} /\ phase = "recovering" /\ phase' = "serving"
    BY <1>5 DEF Serve, dbVars, reqVars
  <2>2. IndexInv'
    BY <2>1, PlacesStutter DEF HoldInv, IndexInv, Parked, NoRequest, queueVars, QueueTypeOK
  <2>3. RecoverInv' /\ PhaseInv'
    BY <2>1 DEF RecoverInv, PhaseInv
  <2>4. PendingInv'
    BY <2>1, PlacesStutter DEF HoldInv, PendingInv, Covered, Looking, dispatchVars
  <2> QED
    BY <1>1, <2>2, <2>3, <2>4 DEF HoldInv
<1> QED
  BY <1>2, <1>3, <1>4, <1>5 DEF Startup

\* A crash leaves nothing but the database.
LEMMA CrashHold ==
    ASSUME HoldInv, Crash
    PROVE  HoldInv'
<1>1. TypeInv'
  BY CrashTyped DEF HoldInv
<1>2. \A t \in Reviews : Nowhere(t)'
  BY NoTaskAssumption DEF Crash, QueueReset, DispatchReset, Nowhere, Listed, InFlight
<1>3. /\ phase' = "down" /\ toRecover' = {} /\ tasksByID' = {}
      /\ \A t \in Reviews : NoRequest(t)'
  BY DEF Crash, QueueReset, NoRequest
<1> QED
  BY <1>1, <1>2, <1>3 DEF HoldInv, IndexInv, RecoverInv, PhaseInv, PendingInv, Covered
\* A request that queues its review, or finds it indexed, leaves it waiting; the
\* other steps of a request keep the review in its own hands.
LEMMA RequestHold ==
    ASSUME HoldInv, NEW t \in Reviews, NEW k \in Slots, Request(t, k)
    PROVE  HoldInv'
<1> TypeInv /\ QueueTypeOK
  BY DEF HoldInv, TypeInv, TypeOK
<1>1. TypeInv'
  BY RequestTyped
<1>2. /\ UNCHANGED dispatchVars /\ UNCHANGED <<wpc, toRecover, phase>>
      /\ \A u \in Reviews : u # t => rpc'[u] = rpc[u] /\ status'[u] = status[u]
      /\ \A j \in Slots : j # k => rpc'[t][j] = rpc[t][j]
  BY DEF TypeInv, TypeOK, Request, CreateReview, Submit, SubmitFails, RetryLoad, RetryCheck,
         RetryReset, RetryEnqueue, RetryBuildFails, RetryDbFault, procVars, dbVars
<1>3. phase = "serving" /\ toRecover = {} /\ ~Parked(t)
  <2>1. \/ rpc[t][k] # "idle"
        \/ phase = "serving" /\ status[t] \in {"none", "failed"}
    BY DEF Request, CreateReview, Submit, SubmitFails, RetryLoad, RetryCheck, RetryReset,
         RetryEnqueue, RetryBuildFails, RetryDbFault
  <2> QED
    BY <2>1 DEF HoldInv, PhaseInv, RecoverInv, NoRequest, Parked
<1>4. RecoverInv' /\ PhaseInv'
  BY <1>2, <1>3 DEF RecoverInv, PhaseInv
<1>5. CASE Submit(t, k) \/ RetryEnqueue(t, k)
  <2>1. Enqueue(t) /\ UNCHANGED <<status, faults>> /\ rpc'[t][k] = "idle"
    BY <1>5 DEF Submit, RetryEnqueue, dbVars, procVars, TypeInv, TypeOK
  <2>2. /\ InFlight' = InFlight
        /\ tasksByID' = tasksByID \cup {t}
        /\ \A u \in Reviews : Waiting(u) => Waiting(u)'
        /\ t \notin tasksByID => Waiting(t)'
    BY <1>2, <2>1, EnqueueWaits
  <2>3. Waiting(t)'
    BY <1>3, <2>2 DEF HoldInv, IndexInv
  <2>4. IndexInv'
    BY <1>2, <2>1, <2>2, <2>3 DEF HoldInv, IndexInv, Parked, NoRequest, QueueTypeOK
  <2>5. PendingInv'
    <3> SUFFICES ASSUME faults' = 0, NEW u \in Reviews, status'[u] = "pending", u # t
                 PROVE  Covered(u)'
      BY <2>3 DEF PendingInv, Covered
    <3>1. Covered(u)
      BY <2>1 DEF HoldInv, PendingInv
    <3> QED
      BY <1>2, <2>2, <3>1 DEF Covered, Looking, dispatchVars
  <2> QED
    BY <1>1, <1>4, <2>4, <2>5 DEF HoldInv
<1>6. CASE ~(Submit(t, k) \/ RetryEnqueue(t, k))
  <2>1. UNCHANGED queueVars
    BY <1>6 DEF Request, CreateReview, SubmitFails, RetryLoad, RetryCheck, RetryReset,
         RetryBuildFails, RetryDbFault
  <2>2. IndexInv'
    BY <1>2, <1>3, <2>1, PlacesStutter
    DEF HoldInv, IndexInv, Parked, NoRequest, queueVars, QueueTypeOK
  <2>3. PendingInv'
    <3> SUFFICES ASSUME faults' = 0, NEW u \in Reviews, status'[u] = "pending"
                 PROVE  Covered(u)'
      BY DEF PendingInv
    <3>1. faults = 0
      BY <1>6 DEF Request, CreateReview, SubmitFails, RetryLoad, RetryCheck, RetryReset,
         RetryBuildFails, RetryDbFault, DbFault, procVars, TypeInv, TypeOK
    <3>2. CASE u # t
      <4>1. Covered(u)
        BY <1>2, <3>1, <3>2 DEF HoldInv, PendingInv
      <4> QED
        BY <1>2, <2>1, <3>2, <4>1, PlacesStutter DEF Covered, Looking, dispatchVars
    <3>3. CASE u = t
      <4>1. CASE CreateReview(t, k) \/ RetryReset(t, k)
        <5>1. rpc'[t][k] \in {"created", "reset"}
          BY <4>1 DEF CreateReview, RetryReset, TypeInv, TypeOK
        <5> QED
          BY <3>3, <5>1 DEF Covered
      <4>2. CASE RetryCheck(t, k)
        <5>1. status[t] = "pending" /\ rpc[t][k] = "loaded"
          BY <3>3, <4>2 DEF RetryCheck, dbVars
        <5>2. Covered(t)
          BY <3>1, <5>1 DEF HoldInv, PendingInv
        <5> QED
          BY <1>2, <2>1, <3>3, <5>1, <5>2, PlacesStutter DEF Covered, Looking, dispatchVars
      <4>3. ~SubmitFails(t, k) /\ ~RetryBuildFails(t, k) /\ ~RetryLoad(t, k)
        BY <3>3 DEF SubmitFails, RetryBuildFails, RetryLoad, dbVars, TypeInv, TypeOK
      <4>4. ~RetryDbFault(t, k)
        BY <3>1 DEF RetryDbFault, DbFault
      <4> QED
        BY <1>6, <4>1, <4>2, <4>3, <4>4 DEF Request
    <3> QED
      BY <3>2, <3>3
  <2> QED
    BY <1>1, <1>4, <2>2, <2>3 DEF HoldInv
<1> QED
  BY <1>5, <1>6

\* A cancelled review is pending no more.
LEMMA CancelHold ==
    ASSUME HoldInv, NEW t \in Reviews, CancelReview(t)
    PROVE  HoldInv'
<1> TypeInv /\ QueueTypeOK
  BY DEF HoldInv, TypeInv, TypeOK
<1>1. /\ UNCHANGED queueVars /\ UNCHANGED dispatchVars /\ UNCHANGED <<wpc, rpc, toRecover, phase, faults>>
      /\ phase = "serving" /\ toRecover = {}
      /\ \A u \in Reviews : status'[u] = IF u = t THEN "cancelled" ELSE status[u]
  BY DEF CancelReview, reqVars, procVars, TypeInv, TypeOK, HoldInv, RecoverInv
<1>2. IndexInv'
  BY <1>1, PlacesStutter DEF HoldInv, IndexInv, Parked, NoRequest, queueVars, QueueTypeOK
<1>3. RecoverInv' /\ PhaseInv'
  BY <1>1 DEF RecoverInv, PhaseInv
<1>4. PendingInv'
  BY <1>1, PlacesStutter DEF HoldInv, PendingInv, Covered, Looking, dispatchVars
<1> QED
  BY <1>1, <1>2, <1>3, <1>4, CancelTyped DEF HoldInv

\* The dispatch loop hands a review on from the queue to itself and to the
\* channel.
LEMMA DispatchHold ==
    ASSUME HoldInv, DispatchStep, TypeInv'
    PROVE  HoldInv'
<1> TypeInv /\ QueueTypeOK /\ DispatchTypeOK
  BY DEF HoldInv, TypeInv, TypeOK
<1>1. UNCHANGED <<status, wpc, rpc, toRecover, phase, faults>>
  BY DEF DispatchStep, dbVars, reqVars, procVars
<1>2. CASE DequeueTask
  <2>1. PICK t \in Reviews :
           /\ dtask' = t /\ dtask = NoTask /\ UNCHANGED <<taskQueue, wtask>>
           /\ ~Nowhere(t)
           /\ tasksByID' = tasksByID \ {t}
           /\ InFlight' = InFlight \cup {t}
           /\ \A u \in Reviews : u # t /\ Waiting(u) => Waiting(u)'
           /\ \A u \in Reviews : Nowhere(u) => Nowhere(u)'
    BY <1>2, DequeueTakes
  <2>2. IndexInv'
    BY <1>1, <2>1 DEF HoldInv, IndexInv, Parked, NoRequest, QueueTypeOK
  <2>3. RecoverInv' /\ PhaseInv'
    BY <1>1, <2>1 DEF HoldInv, RecoverInv, PhaseInv, NoRequest, TypeInv, TypeOK
  <2>4. PendingInv'
    BY <1>1, <2>1, NoTaskAssumption DEF HoldInv, PendingInv, Covered, Looking
  <2> QED
    BY <2>2, <2>3, <2>4 DEF HoldInv
<1>3. CASE AwaitSignal \/ QueueDrained \/ SendTask
  <2>1. UNCHANGED <<known, tasks, tasksByID, wtask>>
    BY <1>3 DEF AwaitSignal, TakeSignal, QueueDrained, SendTask, queueVars
  <2>2. InFlight' = InFlight
    <3>1. CASE SendTask
      BY <3>1, MoveStutters
    <3>2. CASE AwaitSignal \/ QueueDrained
      BY <3>2 DEF AwaitSignal, TakeSignal, QueueDrained, InFlight
    <3> QED
      BY <1>3, <3>1, <3>2
  <2>3. \A u : (Waiting(u)' <=> Waiting(u)) /\ (Nowhere(u)' <=> Nowhere(u))
    BY <2>1, <2>2 DEF Waiting, Listed, Nowhere
  <2>4. \A u \in Reviews : dtask = u \/ (\E i \in 1..Len(taskQueue) : taskQueue[i] = u)
                        => dtask' = u \/ (\E i \in 1..Len(taskQueue') : taskQueue'[i] = u)
    <3>1. CASE SendTask
      <4> DEFINE n == Len(taskQueue)
      <4>1. /\ Len(taskQueue') = n + 1 /\ taskQueue'[n + 1] = dtask /\ n + 1 \in 1..(n + 1)
            /\ \A i \in 1..n : taskQueue'[i] = taskQueue[i] /\ i \in 1..(n + 1)
        BY <3>1 DEF SendTask, DispatchTypeOK
      <4> QED
        BY <4>1
    <3>2. CASE AwaitSignal \/ QueueDrained
      BY <3>2 DEF AwaitSignal, QueueDrained
    <3> QED
      BY <1>3, <3>1, <3>2
  <2>5. IndexInv'
    BY <1>1, <2>1, <2>2, <2>3 DEF HoldInv, IndexInv, Parked, NoRequest, QueueTypeOK
  <2>6. RecoverInv' /\ PhaseInv'
    BY <1>1, <2>3 DEF HoldInv, RecoverInv, PhaseInv, NoRequest
  <2>7. PendingInv'
    BY <1>1, <2>1, <2>3, <2>4 DEF HoldInv, PendingInv, Covered, Looking
  <2> QED
    BY <2>5, <2>6, <2>7 DEF HoldInv
<1> QED
  BY <1>2, <1>3 DEF DispatchStep, Dispatch

\* A worker that has received a pending review looks at its status, and goes
\* on looking until it has claimed it.
LEMMA WorkerHold ==
    ASSUME HoldInv, NEW w \in Workers, Worker(w)
    PROVE  HoldInv'
<1> TypeInv /\ QueueTypeOK /\ DispatchTypeOK
  BY DEF HoldInv, TypeInv, TypeOK
<1>1. TypeInv'
  BY WorkersTyped
<1>2. CASE WorkerReceive(w)
  <2> DEFINE n == Len(taskQueue)
             t == taskQueue[1]
  <2>1. /\ UNCHANGED queueVars /\ UNCHANGED <<status, rpc, toRecover, phase, faults, dtask>>
        /\ ReceiveTask(w) /\ wtask[w] = NoTask
        /\ wtask' = [wtask EXCEPT ![w] = t] /\ wpc' = [wpc EXCEPT ![w] = "check"]
        /\ \A i \in 1..n : i = 1 \/ (i - 1 \in 1..Len(taskQueue') /\ taskQueue'[i - 1] = taskQueue[i])
    BY <1>2 DEF WorkerReceive, ReceiveTask, Goto, DispatchTypeOK, dbVars, reqVars, procVars
  <2>2. InFlight' = InFlight
    BY <2>1, MoveStutters
  <2>3. \A u : (Waiting(u)' <=> Waiting(u)) /\ (Nowhere(u)' <=> Nowhere(u))
    BY <2>1, <2>2 DEF Waiting, Listed, Nowhere, queueVars
  <2>4. /\ wtask'[w] = t /\ wpc'[w] = "check"
        /\ \A v \in Workers : v # w => wtask'[v] = wtask[v] /\ wpc'[v] = wpc[v]
    BY <2>1 DEF DispatchTypeOK, TypeInv, TypeOK
  <2>5. \A u \in Reviews :
            Looking(u) \/ (\E i \in 1..n : taskQueue[i] = u)
                => Looking(u)' \/ (\E i \in 1..Len(taskQueue') : taskQueue'[i] = u)
    BY <2>1, <2>4, NoTaskAssumption DEF Looking
  <2>6. IndexInv'
    BY <2>1, <2>2, <2>3 DEF HoldInv, IndexInv, Parked, NoRequest, QueueTypeOK, queueVars
  <2>7. RecoverInv' /\ PhaseInv'
    BY <2>1, <2>3 DEF HoldInv, RecoverInv, PhaseInv, NoRequest
  <2>8. PendingInv'
    BY <2>1, <2>3, <2>5 DEF HoldInv, PendingInv, Covered
  <2> QED
    BY <1>1, <2>6, <2>7, <2>8 DEF HoldInv
<1>3. CASE ProcessTask(w)
  <2> DEFINE t == wtask[w]
  <2>1. /\ UNCHANGED queueVars /\ UNCHANGED dispatchVars /\ UNCHANGED <<rpc, toRecover, phase>>
        /\ \A v \in Workers : v # w => wpc'[v] = wpc[v]
        /\ \A u \in Reviews : u # t => status'[u] = status[u]
        /\ \A u \in Reviews : status'[u] = status[u] \/ status'[u] \in {"running", "completed", "failed"}
    BY <1>3, ProcessStep DEF ProcessFrame, Goto, SetStatus, reqVars, TypeInv, TypeOK
  <2>2. \A u \in Reviews : u \notin InFlight => status'[u] = status[u]
    BY <2>1 DEF InFlight
  <2>3. IndexInv'
    BY <2>1, <2>2, PlacesStutter DEF HoldInv, IndexInv, Parked, NoRequest, QueueTypeOK, queueVars
  <2>4. RecoverInv'
    BY <2>1, <2>2, PlacesStutter DEF HoldInv, RecoverInv, Nowhere, TypeInv, TypeOK
  <2>5. PhaseInv'
    BY <2>1, PlacesStutter DEF HoldInv, PhaseInv, NoRequest
  <2>6. faults' = 0 => faults = 0
    BY <1>3 DEF ProcessTask, CheckStatus, Claim, ClaimDbFault, Prepare, MarkRunning, RunSucceeds,
        RunFails, RecordFailure, HandleError, TrySetStatus, DbFault, TypeInv, TypeOK
  <2>7. ASSUME faults' = 0, t \in Reviews, status'[t] = "pending", wpc[w] \in {"check", "claim"}
        PROVE  wpc'[w] \in {"check", "claim"}
    <3>1. CheckStatus(w) \/ Claim(w)
      BY <1>3, <2>7 DEF ProcessTask, ClaimDbFault, Prepare, MarkRunning, RunSucceeds, RunFails,
        RecordFailure, HandleError, DbFault, TypeInv, TypeOK
    <3> QED
      BY <2>7, <3>1 DEF CheckStatus, Claim, SetStatus, Goto, TypeInv, TypeOK
  <2>8. PendingInv'
    <3> SUFFICES ASSUME faults' = 0, NEW u \in Reviews, status'[u] = "pending"
                 PROVE  Covered(u)'
      BY DEF PendingInv
    <3>1. Covered(u)
      BY <2>1, <2>6 DEF HoldInv, PendingInv
    <3>2. Looking(u) => Looking(u)'
      BY <2>1, <2>7 DEF Looking, dispatchVars
    <3> QED
      BY <2>1, <3>1, <3>2, PlacesStutter DEF Covered, dispatchVars
  <2> QED
    BY <1>1, <2>3, <2>4, <2>5, <2>8 DEF HoldInv
<1>4. CASE WorkerDone(w)
  <2>1. /\ UNCHANGED <<status, rpc, toRecover, phase, faults>>
        /\ CompleteTask(w) /\ wpc[w] = "done"
        /\ wpc' = [wpc EXCEPT ![w] = "idle"]
    BY <1>4 DEF WorkerDone, Goto, dbVars, reqVars, procVars
  <2>2. /\ wtask[w] \in Reviews
        /\ wtask' = [wtask EXCEPT ![w] = NoTask] /\ UNCHANGED <<dtask, taskQueue>>
        /\ tasksByID' = tasksByID \ {wtask[w]}
        /\ InFlight' \subseteq InFlight
        /\ \A u \in Reviews : Waiting(u) => Waiting(u)'
        /\ \A u \in Reviews : Nowhere(u) => Nowhere(u)'
    BY <2>1, CompleteKeeps
  <2>3. IndexInv'
    BY <2>1, <2>2 DEF HoldInv, IndexInv, Parked, NoRequest, QueueTypeOK
  <2>4. RecoverInv' /\ PhaseInv'
    BY <2>1, <2>2 DEF HoldInv, RecoverInv, PhaseInv, NoRequest, TypeInv, TypeOK
  <2>5. \A u \in Reviews : Looking(u) => Looking(u)'
    BY <2>1, <2>2 DEF Looking, DispatchTypeOK, TypeInv, TypeOK
  <2>6. PendingInv'
    BY <2>1, <2>2, <2>5 DEF HoldInv, PendingInv, Covered
  <2> QED
    BY <1>1, <2>3, <2>4, <2>6 DEF HoldInv
<1> QED
  BY <1>2, <1>3, <1>4 DEF Worker

\* The invariant is inductive.
LEMMA NextHold == HoldInv /\ [Next]_vars => HoldInv'
<1> SUFFICES ASSUME HoldInv, [Next]_vars PROVE HoldInv'
  OBVIOUS
<1>1. TypeInv'
  BY NextTyped DEF HoldInv
<1>2. CASE UNCHANGED vars
  <2>1. /\ UNCHANGED queueVars /\ UNCHANGED dispatchVars
        /\ UNCHANGED <<status, wpc, rpc, toRecover, phase, faults>>
    BY <1>2 DEF vars, dbVars, reqVars, procVars
  <2>2. IndexInv' /\ RecoverInv' /\ PhaseInv'
    BY <2>1, PlacesStutter
    DEF HoldInv, IndexInv, RecoverInv, PhaseInv, Parked, NoRequest, queueVars, TypeInv, TypeOK, QueueTypeOK
  <2>3. PendingInv'
    BY <2>1, PlacesStutter DEF HoldInv, PendingInv, Covered, Looking, dispatchVars
  <2> QED
    BY <1>1, <2>2, <2>3 DEF HoldInv
<1> QED
  BY <1>1, <1>2, StartupHold, CrashHold, RequestHold, CancelHold, DispatchHold, WorkerHold DEF Next

\* No pending review is forgotten: as long as no database statement fails,
\* somebody still holds it, whatever crashes, cancellations and overlapping
\* retries have happened, and however many.
THEOREM NoReviewForgotten == Spec => []PendingHeld
<1>1. HoldInv => PendingHeld
  BY DEF HoldInv, PendingInv, Covered, Looking, PendingHeld, Held, InFlight
<1> QED
  BY <1>1, InitHold, NextHold, PTL DEF Spec
=============================================================================
