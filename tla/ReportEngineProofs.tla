------------------------ MODULE ReportEngineProofs ------------------------
(***************************************************************************)
(* Theorems about ReportEngine, for every value of its constants: any      *)
(* number of reports, repositories, workers, requests, sections, retries   *)
(* and crashes.                                                            *)
(*                                                                         *)
(* Three of them assume what the runs do: Patient, that nobody retries a   *)
(* report that still has a task.  The code does not see to it, and with    *)
(* two tasks for one report they fail.  Typing and that no new report is   *)
(* forgotten hold without it.                                              *)
(***************************************************************************)
EXTENDS ReportEngine, SequenceTheorems, TLAPS

USE DEF Statuses, Open, SectionStatuses

-----------------------------------------------------------------------------
(* Typing, part by part.  The retry counts are what needs an invariant: no  *)
(* row and no object has a higher one than there were retries, and the      *)
(* object of a retry that was not saved yet has a lower one.                *)

RowPart ==
    /\ row \in [Reports -> Row]
    /\ \A r \in Reports : row[r].retries <= retries

SectionPart == sections \in [Reports -> Seq(SectionStatuses)]

QueuePart ==
    /\ queue \in Seq(Task) /\ Len(queue) <= QueueCap
    /\ \A i \in 1..Len(queue) : queue[i].retries <= retries

\* Who is idle has no task, and a section that is generated exists.
WorkerPart ==
    /\ pc \in [Workers -> {"idle", "start", "prepare", "structure", "structured",
                           "section", "generate", "merge", "complete", "error"}]
    /\ task \in [Workers -> Task \cup {NoTask}]
    /\ loaded \in [Workers -> Seq(SectionStatuses)]
    /\ pos \in [Workers -> Nat]
    /\ \A w \in Workers :
           /\ pos[w] \in 1..Len(loaded[w])+1
           /\ pc[w] = "generate" => pos[w] <= Len(loaded[w])
           /\ pc[w] = "idle" <=> task[w] = NoTask
           /\ task[w] # NoTask => task[w].retries <= retries

ClientPart ==
    /\ request \in [Clients -> {"idle", "created", "loaded", "saved"}]
    /\ object \in [Clients -> Task \cup {NoTask}]
    /\ \A c \in Clients :
           /\ request[c] = "idle" <=> object[c] = NoTask
           /\ object[c] # NoTask => object[c].retries <= retries
           /\ request[c] = "loaded" => object[c].retries < retries

RestPart ==
    /\ created \in Seq(Reports)
    /\ checkout \in [Repos -> Refs \cup {NoRef}]
    /\ agent \in BOOLEAN
    /\ recovering \subseteq Reports
    /\ stopping \in BOOLEAN
    /\ retries \in 0..RetryBound
    /\ crashes \in 0..MaxCrashes

TypeInv == RowPart /\ SectionPart /\ QueuePart /\ WorkerPart /\ ClientPart /\ RestPart

\* The parts make up the types.
LEMMA PartsAreTypes == TypeInv => TypeOK
<1> SUFFICES ASSUME TypeInv PROVE TypeOK
  OBVIOUS
<1>1. \A r \in Reports : row[r].retries <= RetryBound
  BY ReportBoundsAssumption DEF TypeInv, RowPart, RestPart, Row
<1> QED
  BY <1>1 DEF TypeInv, TypeOK, RowPart, SectionPart, QueuePart, WorkerPart, ClientPart, RestPart

\* A task has a report and a count, and is not the absence of one.
LEMMA TaskFields ==
    ASSUME NEW o \in Task
    PROVE  o.report \in Reports /\ o.retries \in Nat /\ o.started \in BOOLEAN /\ o # NoTask
  BY ReportAssumption DEF Task

\* What the writes of a row do.
LEMMA SaveRow ==
    ASSUME RowPart, NEW o \in Task, NEW s \in Statuses, Save(o, s), o.retries <= retries,
           UNCHANGED retries
    PROVE  /\ RowPart'
           /\ \A r \in Reports : r # o.report => row'[r] = row[r]
           /\ row'[o.report].status = s /\ row'[o.report].retries = o.retries
  BY DEF RowPart, Save, Row, Task

LEMMA SetStatusRow ==
    ASSUME RowPart, NEW r \in Reports, NEW s \in Statuses, SetStatus(r, s), UNCHANGED retries
    PROVE  /\ RowPart'
           /\ \A q \in Reports : q # r => row'[q] = row[q]
           /\ row'[r].status = s /\ row'[r].retries = row[r].retries
  BY DEF RowPart, SetStatus, Row

\* What a task made from a row is.
LEMMA TaskOfRow ==
    ASSUME RowPart, NEW r \in Reports
    PROVE  /\ TaskOf(r) \in Task /\ TaskOf(r) # NoTask
           /\ TaskOf(r).report = r /\ TaskOf(r).retries = row[r].retries
           /\ TaskOf(r).retries <= retries
  BY TaskFields DEF RowPart, TaskOf, Row, Task

\* What the queue does: one task more at its end ...
LEMMA EnqueueQueue ==
    ASSUME QueuePart, NEW o \in Task, o.retries <= retries, UNCHANGED retries, Enqueue(o)
    PROVE  /\ QueuePart'
           /\ Len(queue) \in Nat /\ Len(queue') = Len(queue) + 1
           /\ queue'[Len(queue) + 1] = o /\ Len(queue) + 1 \in 1..Len(queue')
           /\ \A i \in 1..Len(queue) : queue'[i] = queue[i] /\ i \in 1..Len(queue')
           /\ \A i \in 1..Len(queue') : i = Len(queue) + 1 \/ i \in 1..Len(queue)
<1> DEFINE n == Len(queue)
<1>1. n \in Nat /\ n < QueueCap /\ queue' = Append(queue, o) /\ queue \in Seq(Task)
  BY ReportAssumption DEF Enqueue, Full, QueuePart
<1>2. /\ queue' \in Seq(Task) /\ Len(queue') = n + 1
      /\ queue'[n + 1] = o
      /\ \A i \in 1..n : queue'[i] = queue[i]
  BY <1>1
<1>3. \A i \in 1..(n + 1) : i = n + 1 \/ i \in 1..n
  BY <1>1
<1>4. \A i \in 1..(n + 1) : queue'[i].retries <= retries
  BY <1>2, <1>3 DEF QueuePart
<1>5. n + 1 <= QueueCap
  BY <1>1, ReportAssumption
<1> QED
  BY <1>1, <1>2, <1>3, <1>4, <1>5 DEF QueuePart

\* ... or its first task less.
LEMMA ReceiveQueue ==
    ASSUME QueuePart, queue # <<>>, queue' = Tail(queue), UNCHANGED retries
    PROVE  /\ QueuePart'
           /\ Head(queue) \in Task /\ Head(queue) = queue[1] /\ 1 \in 1..Len(queue)
           /\ Head(queue).retries <= retries
           /\ \A i \in 1..Len(queue') : queue'[i] = queue[i + 1] /\ i + 1 \in 1..Len(queue) /\ i + 1 # 1
           /\ \A i \in 1..Len(queue) : i = 1 \/ (i - 1 \in 1..Len(queue') /\ queue'[i - 1] = queue[i])
<1> DEFINE n == Len(queue)
<1>1. n \in Nat \ {0} /\ queue \in Seq(Task) /\ 1 \in 1..n
  BY DEF QueuePart
<1>2. /\ queue' \in Seq(Task) /\ Len(queue') = n - 1
      /\ \A i \in 1..(n - 1) : queue'[i] = queue[i + 1]
  BY <1>1
<1>3. Head(queue) = queue[1] /\ queue[1] \in Task
  BY <1>1
<1>4. \A i \in 1..(n - 1) : i + 1 \in 1..n /\ i + 1 # 1
  BY <1>1
<1>5. \A i \in 1..n : i = 1 \/ (i - 1 \in 1..(n - 1) /\ (i - 1) + 1 = i)
  BY <1>1
<1>6. n - 1 <= QueueCap
  BY <1>1, ReportAssumption DEF QueuePart
<1>7. \A i \in 1..(n - 1) : queue'[i].retries <= retries
  BY <1>2, <1>4 DEF QueuePart
<1>8. queue[1].retries <= retries
  BY <1>1 DEF QueuePart
<1>9. \A i \in 1..n : i = 1 \/ (i - 1 \in 1..(n - 1) /\ queue'[i - 1] = queue[i])
  BY <1>2, <1>5
<1> QED
  BY <1>1, <1>2, <1>3, <1>4, <1>6, <1>7, <1>8, <1>9 DEF QueuePart

\* Writing the status of a section, which changes nothing beyond the last one.
LEMMA WriteSection ==
    ASSUME NEW s \in Seq(SectionStatuses), NEW i \in Nat, NEW e \in SectionStatuses
    PROVE  /\ [s EXCEPT ![i] = e] \in Seq(SectionStatuses)
           /\ Len([s EXCEPT ![i] = e]) = Len(s)
           /\ \A j \in 1..Len(s) : [s EXCEPT ![i] = e][j] = IF j = i THEN e ELSE s[j]
<1>1. CASE i \in 1..Len(s)
  BY <1>1, ExceptSeq
<1>2. CASE i \notin 1..Len(s)
  <2>1. s \in [1..Len(s) -> SectionStatuses]
    BY LenProperties
  <2>2. [s EXCEPT ![i] = e] = s
    BY <1>2, <2>1
  <2> QED
    BY <1>2, <2>2
<1> QED
  BY <1>1, <1>2

\* Adding the sections of a structure.
LEMMA AddSections ==
    ASSUME NEW s \in Seq(SectionStatuses)
    PROVE  LET t == s \o [i \in 1..Leaves |-> "pending"] IN
           /\ t \in Seq(SectionStatuses)
           /\ Len(t) = Len(s) + Leaves
<1> DEFINE p == [i \in 1..Leaves |-> "pending"]
<1>1. p \in Seq(SectionStatuses) /\ Len(p) = Leaves
  BY ReportAssumption
<1> HIDE DEF p
<1>2. s \o p \in Seq(SectionStatuses) /\ Len(s \o p) = Len(s) + Leaves
  BY <1>1, ConcatProperties
<1> QED
  BY <1>2 DEF p

\* Initially everything has its type.
LEMMA InitTyped == Init => TypeInv
<1> SUFFICES ASSUME Init PROVE TypeInv
  OBVIOUS
<1>1. RowPart
  BY DEF Init, RowPart, Row
<1>2. SectionPart /\ QueuePart
  BY ReportAssumption DEF Init, SectionPart, QueuePart
<1>3. WorkerPart /\ ClientPart
  BY DEF Init, WorkerPart, ClientPart
<1>4. agent \in BOOLEAN
  BY ReportAssumption DEF Init
<1>5. stopping \in BOOLEAN
  BY DEF Init
<1>6. /\ created \in Seq(Reports) /\ checkout \in [Repos -> Refs \cup {NoRef}]
      /\ recovering \subseteq Reports /\ retries \in 0..RetryBound /\ crashes \in 0..MaxCrashes
  BY ReportBoundsAssumption DEF Init
<1>7. RestPart
  BY <1>4, <1>5, <1>6 DEF RestPart
<1> QED
  BY <1>1, <1>2, <1>3, <1>7 DEF TypeInv

\* What a busy worker, and a busy client, has in hand is a task.
LEMMA WorkerTask ==
    ASSUME WorkerPart, NEW w \in Workers, pc[w] # "idle"
    PROVE  task[w] \in Task /\ task[w] # NoTask /\ task[w].report \in Reports /\ task[w].retries <= retries
  BY TaskFields DEF WorkerPart

LEMMA ClientTask ==
    ASSUME ClientPart, NEW c \in Clients, request[c] # "idle"
    PROVE  object[c] \in Task /\ object[c] # NoTask /\ object[c].report \in Reports /\ object[c].retries <= retries
  BY TaskFields DEF ClientPart

\* A step of a worker that only moves its program counter, or ends its task.
LEMMA WorkerMoves ==
    ASSUME WorkerPart, NEW w \in Workers, UNCHANGED <<loaded, pos, retries>>,
           \/ /\ pc[w] # "idle"
              /\ \E label \in {"prepare", "structure", "structured", "section", "merge", "complete", "error"} :
                     Goto(w, label)
              /\ UNCHANGED task
           \/ Drop(w)
    PROVE  WorkerPart'
  BY DEF WorkerPart, Goto, Drop

\* The steps of the workers keep the types.
LEMMA WorkerTyped ==
    ASSUME TypeInv, NEW w \in Workers, Worker(w)
    PROVE  TypeInv'
<1> USE DEF TypeInv
<1>1. UNCHANGED <<created, request, object, agent, recovering, stopping, retries, crashes>>
  BY DEF Worker, ReceiveTask, StartReport, EnsureRepository, GenerateStructure, Panic, BeginSections,
         SkipSection, StartSection, EndSection, SectionsDone, MergeSections, CompleteReport, HandleError,
         dbVars, clientVars, procVars, boundVars
<1>2. ClientPart'
  BY <1>1 DEF ClientPart
<1>3. checkout' \in [Repos -> Refs \cup {NoRef}] => RestPart'
  BY <1>1 DEF RestPart
<1>4. checkout \in [Repos -> Refs \cup {NoRef}]
  BY DEF RestPart
<1>5. UNCHANGED row => RowPart'
  BY <1>1 DEF RowPart
<1>6. UNCHANGED queue => QueuePart'
  BY <1>1 DEF QueuePart
<1>7. UNCHANGED sections => SectionPart'
  BY DEF SectionPart
<1>8. CASE ReceiveTask(w)
  <2>1. /\ pc[w] = "idle" /\ queue # <<>> /\ queue' = Tail(queue)
        /\ task' = [task EXCEPT ![w] = Head(queue)] /\ pc' = [pc EXCEPT ![w] = "start"]
        /\ UNCHANGED <<row, sections, checkout, loaded, pos>>
    BY <1>8 DEF ReceiveTask, Goto, dbVars
  <2>2. /\ QueuePart'
        /\ Head(queue) \in Task /\ Head(queue).retries <= retries /\ Head(queue) # NoTask
    BY <1>1, <2>1, ReceiveQueue, TaskFields
  <2>3. WorkerPart'
    BY <1>1, <2>1, <2>2 DEF WorkerPart
  <2> QED
    BY <1>2, <1>3, <1>4, <1>5, <1>7, <2>1, <2>2, <2>3
<1>9. CASE StartReport(w)
  <2>1. /\ pc[w] = "start" /\ pc' = [pc EXCEPT ![w] = "prepare"]
        /\ task' = [task EXCEPT ![w] = [task[w] EXCEPT !.started = TRUE]]
        /\ Save(task'[w], "analyzing")
        /\ UNCHANGED <<sections, queue, checkout, loaded, pos>>
    BY <1>9 DEF StartReport, Goto
  <2>2. task[w] \in Task /\ task[w].retries <= retries
    BY <2>1, WorkerTask
  <2>3. /\ task'[w] = [task[w] EXCEPT !.started = TRUE]
        /\ \A v \in Workers : v # w => task'[v] = task[v]
    BY <2>1 DEF WorkerPart
  <2>4. task'[w] \in Task /\ task'[w].retries = task[w].retries
    BY <2>2, <2>3 DEF Task
  <2>5. task'[w] # NoTask
    BY <2>4, TaskFields
  <2>6. RowPart'
    BY <1>1, <2>1, <2>2, <2>4, SaveRow
  <2>7. WorkerPart'
    BY <1>1, <2>1, <2>2, <2>3, <2>4, <2>5 DEF WorkerPart
  <2> QED
    BY <1>2, <1>3, <1>4, <1>6, <1>7, <2>1, <2>6, <2>7
<1>10. CASE EnsureRepository(w)
  <2>1. /\ pc[w] = "prepare"
        /\ Goto(w, "structure") \/ Goto(w, "error")
        /\ UNCHANGED <<sections, queue, task, loaded, pos>>
    BY <1>10 DEF EnsureRepository
  <2>2. task[w] \in Task /\ task[w].report \in Reports /\ task[w].retries <= retries
    BY <2>1, WorkerTask
  <2>3. WorkerPart'
    BY <1>1, <2>1, WorkerMoves
  <2>4. RowPart'
    BY <1>1, <1>5, <1>10, <2>2, SaveRow DEF EnsureRepository
  <2>5. checkout' \in [Repos -> Refs \cup {NoRef}]
    BY <1>4, <1>10, <2>2, ReportAssumption DEF EnsureRepository
  <2> QED
    BY <1>2, <1>3, <1>6, <1>7, <2>1, <2>3, <2>4, <2>5
<1>11. CASE GenerateStructure(w)
  <2>1. /\ pc[w] = "structure"
        /\ Goto(w, "structured") \/ Goto(w, "error")
        /\ UNCHANGED <<row, checkout, queue, task, loaded, pos>>
    BY <1>11 DEF GenerateStructure
  <2>2. task[w].report \in Reports
    BY <2>1, WorkerTask
  <2>3. SectionPart'
    BY <1>7, <1>11, <2>2, AddSections DEF GenerateStructure, SectionPart
  <2>4. WorkerPart'
    BY <1>1, <2>1, WorkerMoves
  <2> QED
    BY <1>2, <1>3, <1>4, <1>5, <1>6, <2>1, <2>3, <2>4
<1>12. CASE BeginSections(w)
  <2>1. /\ pc[w] = "structured" /\ pc' = [pc EXCEPT ![w] = "section"]
        /\ Save(task[w], "generating")
        /\ loaded' = [loaded EXCEPT ![w] = sections[task[w].report]]
        /\ pos' = [pos EXCEPT ![w] = 1]
        /\ UNCHANGED <<sections, checkout, queue, task>>
    BY <1>12 DEF BeginSections, Goto
  <2>2. task[w] \in Task /\ task[w].report \in Reports /\ task[w].retries <= retries
    BY <2>1, WorkerTask
  <2>3. sections[task[w].report] \in Seq(SectionStatuses) /\ 1 \in 1..Len(sections[task[w].report])+1
    BY <2>2, LenProperties DEF SectionPart
  <2>4. RowPart'
    BY <1>1, <2>1, <2>2, SaveRow
  <2>5. WorkerPart'
    BY <1>1, <2>1, <2>3 DEF WorkerPart
  <2> QED
    BY <1>2, <1>3, <1>4, <1>6, <1>7, <2>1, <2>4, <2>5
<1>13. CASE SkipSection(w) \/ EndSection(w)
  <2>1. /\ pc[w] \in {"section", "generate"} /\ pc' = [pc EXCEPT ![w] = "section"]
        /\ pos' = [pos EXCEPT ![w] = pos[w] + 1]
        /\ pos[w] <= Len(loaded[w]) /\ pos[w] \in Nat /\ Len(loaded[w]) \in Nat
        /\ UNCHANGED <<row, checkout, queue, task, loaded>>
    BY <1>13, LenProperties DEF SkipSection, EndSection, Goto, WorkerPart, dbVars
  <2>2. task[w].report \in Reports
    BY <2>1, WorkerTask
  <2>3. SectionPart'
    BY <1>7, <1>13, <2>1, <2>2, WriteSection DEF SkipSection, EndSection, SectionPart, dbVars
  <2>4. WorkerPart'
    BY <1>1, <2>1 DEF WorkerPart
  <2> QED
    BY <1>2, <1>3, <1>4, <1>5, <1>6, <2>1, <2>3, <2>4
<1>14. CASE StartSection(w)
  <2>1. /\ pc[w] = "section" /\ pc' = [pc EXCEPT ![w] = "generate"]
        /\ pos[w] <= Len(loaded[w]) /\ pos[w] \in Nat
        /\ Save(task[w], "generating")
        /\ sections' = [sections EXCEPT ![task[w].report] =
                            [sections[task[w].report] EXCEPT ![pos[w]] = "running"]]
        /\ UNCHANGED <<checkout, queue, task, loaded, pos>>
    BY <1>14 DEF StartSection, Goto, WorkerPart
  <2>2. task[w] \in Task /\ task[w].report \in Reports /\ task[w].retries <= retries
    BY <2>1, WorkerTask
  <2>3. SectionPart'
    BY <2>1, <2>2, WriteSection DEF SectionPart
  <2>4. RowPart'
    BY <1>1, <2>1, <2>2, SaveRow
  <2>5. WorkerPart'
    BY <1>1, <2>1 DEF WorkerPart
  <2> QED
    BY <1>2, <1>3, <1>4, <1>6, <2>1, <2>3, <2>4, <2>5
<1>15. CASE Panic(w) \/ SectionsDone(w)
  <2>1. UNCHANGED <<row, sections, checkout, queue>>
    BY <1>15 DEF Panic, SectionsDone, dbVars
  <2>2. WorkerPart'
    BY <1>1, <1>15, WorkerMoves DEF Panic, SectionsDone
  <2> QED
    BY <1>2, <1>3, <1>4, <1>5, <1>6, <1>7, <2>1, <2>2
<1>16. CASE MergeSections(w) \/ CompleteReport(w) \/ HandleError(w)
  <2>1. /\ pc[w] # "idle"
        /\ \E s \in Statuses : Save(task[w], s)
        /\ Drop(w) \/ (Goto(w, "complete") /\ UNCHANGED task)
        /\ UNCHANGED <<sections, checkout, queue, loaded, pos>>
    BY <1>16 DEF MergeSections, CompleteReport, HandleError
  <2>2. task[w] \in Task /\ task[w].retries <= retries
    BY <2>1, WorkerTask
  <2>3. RowPart'
    BY <1>1, <2>1, <2>2, SaveRow
  <2>4. WorkerPart'
    BY <1>1, <2>1, WorkerMoves
  <2> QED
    BY <1>2, <1>3, <1>4, <1>6, <1>7, <2>1, <2>3, <2>4
<1> QED
  BY <1>8, <1>9, <1>10, <1>11, <1>12, <1>13, <1>14, <1>15, <1>16 DEF Worker

\* The steps of the requests keep the types.
LEMMA ClientTyped ==
    ASSUME TypeInv, NEW c \in Clients,
           Client(c) \/ \E r \in Reports : CreateReport(c, r) \/ RetryReport(c, r)
    PROVE  TypeInv'
<1> USE DEF TypeInv
<1>1. /\ UNCHANGED <<sections, checkout, pc, task, loaded, pos, agent, recovering, stopping, crashes>>
      /\ retries' \in {retries, retries + 1}
  BY DEF Client, SubmitReport, RejectReport, RequestPanics, RetrySave, RetrySubmit, RetryRejected,
         CreateReport, RetryReport, dbVars, workerVars, procVars, boundVars
<1>2. SectionPart'
  BY <1>1 DEF SectionPart
<1>3. retries \in Nat
  BY ReportBoundsAssumption DEF RestPart
<1>4. CASE Client(c)
  <2>1. UNCHANGED <<created, retries>> /\ request[c] # "idle"
    BY <1>4 DEF Client, SubmitReport, RejectReport, RequestPanics, RetrySave, RetrySubmit, RetryRejected,
         dbVars, boundVars
  <2>2. object[c] \in Task /\ object[c].report \in Reports /\ object[c].retries <= retries
    BY <2>1, ClientTask
  <2>3. WorkerPart' /\ RestPart'
    BY <1>1, <2>1 DEF WorkerPart, RestPart
  <2>4. CASE RetrySave(c)
    <3>1. /\ request[c] = "loaded" /\ request' = [request EXCEPT ![c] = "saved"]
          /\ object' = [object EXCEPT ![c] = [object[c] EXCEPT !.retries = object[c].retries + 1]]
          /\ Save(object'[c], "pending")
          /\ UNCHANGED queue
      BY <2>4 DEF RetrySave
    <3>2. /\ object'[c] = [object[c] EXCEPT !.retries = object[c].retries + 1]
          /\ \A d \in Clients : d # c => object'[d] = object[d]
      BY <3>1 DEF ClientPart
    <3>3. object'[c] \in Task /\ object'[c].retries = object[c].retries + 1
      BY <2>2, <3>2 DEF Task
    <3>4. object[c].retries < retries /\ object[c].retries \in Nat /\ object'[c] # NoTask
      BY <2>2, <3>1, <3>3, TaskFields DEF ClientPart
    <3>5. object'[c].retries <= retries
      BY <1>3, <3>3, <3>4
    <3>6. RowPart'
      BY <2>1, <3>1, <3>3, <3>5, SaveRow
    <3>7. ClientPart'
      BY <2>1, <3>1, <3>2, <3>3, <3>4, <3>5 DEF ClientPart
    <3>8. QueuePart'
      BY <2>1, <3>1 DEF QueuePart
    <3> QED
      BY <1>2, <2>3, <3>6, <3>7, <3>8
  <2>5. CASE ~RetrySave(c)
    <3>1. /\ Answer(c)
          /\ UNCHANGED row \/ SetStatus(object[c].report, "failed")
          /\ UNCHANGED queue \/ Enqueue(object[c])
      BY <1>4, <2>5 DEF Client, SubmitReport, RejectReport, RequestPanics, RetrySubmit, RetryRejected, dbVars
    <3>2. ClientPart'
      BY <2>1, <3>1 DEF Answer, ClientPart
    <3>3. RowPart'
      <4>1. CASE UNCHANGED row
        BY <2>1, <4>1 DEF RowPart
      <4>2. CASE SetStatus(object[c].report, "failed")
        BY <2>1, <2>2, <4>2, SetStatusRow
      <4> QED
        BY <3>1, <4>1, <4>2
    <3>4. QueuePart'
      <4>1. CASE UNCHANGED queue
        BY <2>1, <4>1 DEF QueuePart
      <4>2. CASE Enqueue(object[c])
        BY <2>1, <2>2, <4>2, EnqueueQueue
      <4> QED
        BY <3>1, <4>1, <4>2
    <3> QED
      BY <1>2, <2>3, <3>2, <3>3, <3>4
  <2> QED
    BY <2>4, <2>5
<1>5. ASSUME NEW r \in Reports, CreateReport(c, r)
      PROVE  TypeInv'
  <2>1. /\ Accept(c, TaskOf(r), "created") /\ SetStatus(r, "pending")
        /\ created' = Append(created, r) /\ UNCHANGED <<queue, retries>>
    BY <1>5 DEF CreateReport, boundVars
  <2>2. TaskOf(r) \in Task /\ TaskOf(r).retries <= retries /\ TaskOf(r) # NoTask
    BY TaskOfRow
  <2>3. RowPart'
    BY <2>1, SetStatusRow
  <2>4. ClientPart'
    BY <2>1, <2>2 DEF Accept, ClientPart
  <2>5. QueuePart' /\ WorkerPart'
    BY <1>1, <2>1 DEF QueuePart, WorkerPart
  <2>6. RestPart'
    BY <1>1, <2>1 DEF RestPart
  <2> QED
    BY <1>2, <2>3, <2>4, <2>5, <2>6
<1>6. ASSUME NEW r \in Reports, RetryReport(c, r)
      PROVE  TypeInv'
  <2>1. /\ Accept(c, TaskOf(r), "loaded") /\ retries < RetryBound /\ retries' = retries + 1
        /\ UNCHANGED <<row, created, queue>>
    BY <1>6 DEF RetryReport, dbVars
  <2>2. TaskOf(r) \in Task /\ TaskOf(r).retries <= retries /\ TaskOf(r) # NoTask
    BY TaskOfRow
  <2>3. \A n \in Nat : n <= retries => n <= retries' /\ n < retries'
    BY <1>3, <2>1
  <2>4. RowPart'
    BY <2>1, <2>3 DEF RowPart, Row
  <2>5. QueuePart'
    <3>1. \A i \in 1..Len(queue) : queue[i].retries \in Nat
      BY TaskFields DEF QueuePart
    <3> QED
      BY <2>1, <2>3, <3>1 DEF QueuePart
  <2>6. WorkerPart'
    <3>1. \A w \in Workers : task[w] # NoTask => task[w].retries \in Nat
      BY TaskFields DEF WorkerPart
    <3> QED
      BY <1>1, <2>3, <3>1 DEF WorkerPart
  <2>7. ClientPart'
    <3>1. \A d \in Clients : object[d] # NoTask => object[d].retries \in Nat
      BY TaskFields DEF ClientPart
    <3>2. TaskOf(r).retries \in Nat
      BY <2>2, TaskFields
    <3>3. /\ request' = [request EXCEPT ![c] = "loaded"]
          /\ object' = [object EXCEPT ![c] = TaskOf(r)]
      BY <2>1 DEF Accept
    <3>4. \A d \in Clients : d # c => object'[d] = object[d] /\ request'[d] = request[d]
      BY <3>3 DEF ClientPart
    <3>5. object'[c] = TaskOf(r) /\ request'[c] = "loaded"
      BY <3>3 DEF ClientPart
    <3>6. \A d \in Clients : request'[d] = "loaded" => object'[d].retries < retries'
      BY <2>2, <2>3, <3>1, <3>2, <3>4, <3>5 DEF ClientPart
    <3>7. \A d \in Clients : object'[d] # NoTask => object'[d].retries <= retries'
      BY <2>2, <2>3, <3>1, <3>2, <3>4, <3>5 DEF ClientPart
    <3> QED
      BY <2>2, <3>3, <3>4, <3>5, <3>6, <3>7 DEF ClientPart
  <2>8. RestPart'
    BY <1>1, <1>3, <2>1, ReportBoundsAssumption DEF RestPart
  <2> QED
    BY <1>2, <2>4, <2>5, <2>6, <2>7, <2>8
<1> QED
  BY <1>4, <1>5, <1>6

\* A step that leaves the memory alone, up to what recovery has to do.
LEMMA OtherTyped ==
    ASSUME TypeInv, UNCHANGED <<sections, checkout, pc, task, loaded, pos, request, object, retries>>,
           RowPart', QueuePart', RestPart'
    PROVE  TypeInv'
  BY DEF TypeInv, SectionPart, WorkerPart, ClientPart

\* Every step keeps the types.
LEMMA NextTyped == TypeInv /\ [Next]_vars => TypeInv'
<1> SUFFICES ASSUME TypeInv, [Next]_vars PROVE TypeInv'
  OBVIOUS
<1>1. UNCHANGED retries /\ UNCHANGED row => RowPart'
  BY DEF TypeInv, RowPart
<1>2. UNCHANGED retries /\ UNCHANGED queue => QueuePart'
  BY DEF TypeInv, QueuePart
<1>3. ASSUME NEW r \in Reports, CancelReport(r)
      PROVE  TypeInv'
  <2>1. /\ UNCHANGED <<sections, checkout, pc, task, loaded, pos, request, object, retries>>
        /\ UNCHANGED <<created, queue, agent, recovering, stopping, crashes>>
        /\ SetStatus(r, "cancelled")
    BY <1>3 DEF CancelReport, workerVars, clientVars, procVars, boundVars
  <2>2. RowPart'
    BY <2>1, SetStatusRow DEF TypeInv
  <2>3. RestPart'
    BY <2>1 DEF TypeInv, RestPart
  <2> QED
    BY <1>2, <2>1, <2>2, <2>3, OtherTyped
<1>4. CASE Recovery
  <2>1. PICK r \in recovering :
            /\ recovering' = recovering \ {r}
            /\ \/ Enqueue(TaskOf(r)) /\ UNCHANGED row
               \/ SetStatus(r, "failed") /\ UNCHANGED queue
    BY <1>4 DEF Recovery, RecoverReport, GiveUpReport, dbVars
  <2>2. /\ UNCHANGED <<sections, checkout, pc, task, loaded, pos, request, object, retries>>
        /\ UNCHANGED <<created, agent, stopping, crashes>>
    BY <1>4 DEF Recovery, RecoverReport, GiveUpReport, dbVars, workerVars, clientVars, boundVars
  <2>3. r \in Reports
    BY DEF TypeInv, RestPart
  <2>4. TaskOf(r) \in Task /\ TaskOf(r).retries <= retries
    BY <2>3, TaskOfRow DEF TypeInv
  <2>5. RowPart'
    BY <1>1, <2>1, <2>2, <2>3, SetStatusRow DEF TypeInv
  <2>6. QueuePart'
    BY <1>2, <2>1, <2>2, <2>4, EnqueueQueue DEF TypeInv
  <2>7. RestPart'
    BY <2>1, <2>2 DEF TypeInv, RestPart
  <2> QED
    BY <2>2, <2>5, <2>6, <2>7, OtherTyped
<1>5. CASE StopEngine \/ UNCHANGED vars
  <2>1. /\ UNCHANGED <<sections, checkout, pc, task, loaded, pos, request, object, retries>>
        /\ UNCHANGED <<row, created, queue, agent, recovering, crashes>>
        /\ stopping' = TRUE \/ stopping' = stopping
    BY <1>5 DEF StopEngine, vars, dbVars, workerVars, clientVars, procVars, boundVars
  <2>2. stopping' \in BOOLEAN
    BY <2>1 DEF TypeInv, RestPart
  <2>3. RestPart'
    BY <2>1, <2>2 DEF TypeInv, RestPart
  <2> QED
    BY <1>1, <1>2, <2>1, <2>3, OtherTyped
<1>6. CASE CrashAndRestart
  <2>1. RowPart' /\ SectionPart'
    BY <1>6 DEF CrashAndRestart, TypeInv, RowPart, SectionPart, dbVars
  <2>2. QueuePart'
    BY <1>6, ReportAssumption DEF CrashAndRestart, QueuePart
  <2>3. WorkerPart' /\ ClientPart'
    BY <1>6 DEF CrashAndRestart, TypeInv, WorkerPart, ClientPart
  <2>4. agent' \in BOOLEAN
    BY <1>6, ReportAssumption DEF CrashAndRestart
  <2>5. stopping' \in BOOLEAN
    BY <1>6 DEF CrashAndRestart
  <2>6. /\ created' \in Seq(Reports) /\ checkout' \in [Repos -> Refs \cup {NoRef}]
        /\ recovering' \subseteq Reports /\ retries' \in 0..RetryBound /\ crashes' \in 0..MaxCrashes
    BY <1>6, ReportBoundsAssumption DEF CrashAndRestart, TypeInv, RestPart, dbVars
  <2>7. RestPart'
    BY <2>4, <2>5, <2>6 DEF RestPart
  <2> QED
    BY <2>1, <2>2, <2>3, <2>7 DEF TypeInv
<1> QED
  BY <1>3, <1>4, <1>5, <1>6, WorkerTyped, ClientTyped DEF Next

\* Type correctness: in particular the channel of tasks never holds more than
\* its capacity, and no retry count ever exceeds the number of retries, however
\* the whole-row saves of stale objects interleave.
THEOREM TypeCorrect == Spec => []TypeOK
  BY InitTyped, NextTyped, PartsAreTypes, PTL DEF Spec

-----------------------------------------------------------------------------
(* A report has one task *)

\* The tasks of a report: none of them twice, and none beside a request or
\* beside recovery.
QueueOnce == \A i, j \in 1..Len(queue) : i # j => queue[i].report # queue[j].report

WorkersOnce ==
    \A w \in Workers : task[w] # NoTask =>
        /\ \A i \in 1..Len(queue) : queue[i].report # task[w].report
        /\ \A v \in Workers : v # w /\ task[v] # NoTask => task[v].report # task[w].report

ClientsOnce ==
    \A c \in Clients : object[c] # NoTask =>
        /\ \A i \in 1..Len(queue) : queue[i].report # object[c].report
        /\ \A w \in Workers : task[w] # NoTask => task[w].report # object[c].report
        /\ \A d \in Clients : d # c /\ object[d] # NoTask => object[d].report # object[c].report

OnceInv == QueueOnce /\ WorkersOnce /\ ClientsOnce /\ \A r \in recovering : ~HasTask(r)

\* A report that does not exist yet, or has completed, has no task.
EndedInv ==
    \A r \in Reports : row[r].status \in {"none", "completed"} => ~HasTask(r) /\ r \notin recovering

ExecutionInv == TypeInv /\ OnceInv /\ EndedInv

\* The places a task can be.
LEMMA HasTaskMeans ==
    ASSUME QueuePart, NEW r
    PROVE  HasTask(r) <=> \/ \E i \in 1..Len(queue) : queue[i].report = r
                          \/ \E w \in Workers : task[w] # NoTask /\ task[w].report = r
                          \/ \E c \in Clients : object[c] # NoTask /\ object[c].report = r
  BY DEF QueuePart, HasTask, Queued, Working, Requested

LEMMA HasTaskMeansThen ==
    ASSUME QueuePart', NEW r
    PROVE  HasTask(r)' <=> \/ \E i \in 1..Len(queue') : queue'[i].report = r
                           \/ \E w \in Workers : task'[w] # NoTask /\ task'[w].report = r
                           \/ \E c \in Clients : object'[c] # NoTask /\ object'[c].report = r
  BY DEF QueuePart, HasTask, Queued, Working, Requested

\* A step after which nobody has a task he did not have.
Lessens ==
    /\ \A w \in Workers : task'[w] # NoTask => task[w] # NoTask /\ task'[w].report = task[w].report
    /\ \A c \in Clients : object'[c] # NoTask => object[c] # NoTask /\ object'[c].report = object[c].report

\* Such a step leaves every report with one task, if it has one.
LEMMA LessensOnce ==
    ASSUME QueuePart, QueuePart', OnceInv, Lessens, UNCHANGED queue, recovering' \subseteq recovering
    PROVE  OnceInv' /\ \A r \in Reports : HasTask(r)' => HasTask(r)
<1>1. \A r : HasTask(r)' => HasTask(r)
  BY HasTaskMeans, HasTaskMeansThen DEF Lessens
<1>2. QueueOnce'
  BY DEF OnceInv, QueueOnce
<1>3. WorkersOnce'
  BY DEF OnceInv, WorkersOnce, Lessens
<1>4. ClientsOnce'
  BY DEF OnceInv, ClientsOnce, Lessens
<1> QED
  BY <1>1, <1>2, <1>3, <1>4 DEF OnceInv

\* So does a step that queues a task of a report that nobody else has left.
LEMMA EnqueueOnce ==
    ASSUME QueuePart, OnceInv, Lessens, NEW o \in Task, o.retries <= retries, UNCHANGED retries,
           Enqueue(o),
           \A i \in 1..Len(queue) : queue[i].report # o.report,
           \A w \in Workers : task'[w] # NoTask => task'[w].report # o.report,
           \A c \in Clients : object'[c] # NoTask => object'[c].report # o.report,
           recovering' \subseteq recovering \ {o.report}
    PROVE  OnceInv' /\ \A r \in Reports : HasTask(r)' => HasTask(r) \/ r = o.report
<1>1. /\ QueuePart' /\ Len(queue) \in Nat
      /\ \A i \in 1..Len(queue') :
             \/ i = Len(queue) + 1 /\ queue'[i] = o
             \/ i \in 1..Len(queue) /\ queue'[i] = queue[i]
  BY EnqueueQueue
<1>2. \A r : HasTask(r)' => HasTask(r) \/ r = o.report
  BY <1>1, HasTaskMeans, HasTaskMeansThen DEF Lessens
<1>3. QueueOnce'
  BY <1>1 DEF OnceInv, QueueOnce
<1>4. WorkersOnce'
  BY <1>1 DEF OnceInv, WorkersOnce, Lessens
<1>5. ClientsOnce'
  BY <1>1 DEF OnceInv, ClientsOnce, Lessens
<1> QED
  BY <1>2, <1>3, <1>4, <1>5 DEF OnceInv

\* What the steps of a worker do to rows: only that of its task is written, and
\* only the last step writes that it is complete.
LEMMA WorkerSaves ==
    ASSUME TypeInv, NEW w \in Workers, Worker(w)
    PROVE  \/ UNCHANGED row
           \/ /\ task[w] # NoTask /\ task[w].report \in Reports
              /\ \A r \in Reports : r # task[w].report => row'[r] = row[r]
              /\ row'[task[w].report].retries = task[w].retries
              /\ \/ row'[task[w].report].status \in {"analyzing", "generating", "failed"}
                 \/ row'[task[w].report].status = "completed" /\ CompleteReport(w)
<1> USE DEF TypeInv
<1>1. \/ UNCHANGED row
      \/ pc[w] # "idle" /\ Save(task[w], "completed") /\ CompleteReport(w)
      \/ pc[w] # "idle" /\ \E s \in {"analyzing", "generating", "failed"} : Save(task[w], s)
      \/ StartReport(w)
  BY DEF Worker, ReceiveTask, EnsureRepository, GenerateStructure, Panic, BeginSections,
         SkipSection, StartSection, EndSection, SectionsDone, MergeSections, CompleteReport, HandleError,
         dbVars
<1>2. UNCHANGED retries
  BY DEF Worker, ReceiveTask, StartReport, EnsureRepository, GenerateStructure, Panic, BeginSections,
         SkipSection, StartSection, EndSection, SectionsDone, MergeSections, CompleteReport, HandleError,
         boundVars
<1>3. CASE StartReport(w)
  <2>1. /\ pc[w] # "idle" /\ Save(task'[w], "analyzing")
        /\ task' = [task EXCEPT ![w] = [task[w] EXCEPT !.started = TRUE]]
    BY <1>3 DEF StartReport
  <2>2. task[w] \in Task /\ task[w] # NoTask /\ task[w].report \in Reports /\ task[w].retries <= retries
    BY <2>1, WorkerTask
  <2>3. task'[w] = [task[w] EXCEPT !.started = TRUE]
    BY <2>1 DEF WorkerPart
  <2>4. task'[w] \in Task /\ task'[w].report = task[w].report /\ task'[w].retries = task[w].retries
    BY <2>2, <2>3 DEF Task
  <2> QED
    BY <1>2, <2>1, <2>2, <2>4, SaveRow
<1>4. ASSUME NEW s \in {"analyzing", "generating", "failed", "completed"}, pc[w] # "idle", Save(task[w], s)
      PROVE  /\ task[w] # NoTask /\ task[w].report \in Reports
             /\ \A r \in Reports : r # task[w].report => row'[r] = row[r]
             /\ row'[task[w].report].status = s /\ row'[task[w].report].retries = task[w].retries
  BY <1>2, <1>4, WorkerTask, SaveRow
<1> QED
  BY <1>1, <1>3, <1>4

\* A worker that does not take a task only keeps, or drops, its own.
LEMMA WorkerKeeps ==
    ASSUME TypeInv, NEW w \in Workers, Worker(w), ~ReceiveTask(w)
    PROVE  /\ UNCHANGED <<queue, request, object, recovering, created, stopping, retries, crashes>>
           /\ \A v \in Workers : v # w => task'[v] = task[v] /\ pc'[v] = pc[v]
           /\ task[w] # NoTask
           /\ task'[w] # NoTask => task'[w].report = task[w].report
<1> USE DEF TypeInv
<1> DEFINE Moves(label) == UNCHANGED task /\ Goto(w, label)
           Starts == /\ Goto(w, "prepare")
                     /\ task' = [task EXCEPT ![w] = [task[w] EXCEPT !.started = TRUE]]
<1>1. UNCHANGED <<queue, request, object, recovering, created, stopping, retries, crashes>>
  BY DEF Worker, StartReport, EnsureRepository, GenerateStructure, Panic, BeginSections,
         SkipSection, StartSection, EndSection, SectionsDone, MergeSections, CompleteReport, HandleError,
         dbVars, clientVars, procVars, boundVars
<1>2. pc[w] # "idle"
  BY DEF Worker, StartReport, EnsureRepository, GenerateStructure, Panic, BeginSections,
         SkipSection, StartSection, EndSection, SectionsDone, MergeSections, CompleteReport, HandleError
<1>3. \/ UNCHANGED <<pc, task>>
      \/ Moves("structure") \/ Moves("error") \/ Moves("structured") \/ Moves("section")
      \/ Moves("generate") \/ Moves("merge") \/ Moves("complete")
      \/ Drop(w)
      \/ Starts
  BY DEF Worker, StartReport, EnsureRepository, GenerateStructure, Panic, BeginSections,
         SkipSection, StartSection, EndSection, SectionsDone, MergeSections, CompleteReport, HandleError
<1>4. task[w] \in Task /\ task[w] # NoTask
  BY <1>2, WorkerTask
<1>5. ASSUME NEW label, Moves(label)
      PROVE  /\ \A v \in Workers : v # w => task'[v] = task[v] /\ pc'[v] = pc[v]
             /\ task'[w] = task[w]
  BY <1>5 DEF WorkerPart, Goto
<1>6. CASE Drop(w)
  BY <1>1, <1>4, <1>6 DEF WorkerPart, Drop, Goto
<1>7. CASE Starts
  <2>1. [task[w] EXCEPT !.started = TRUE].report = task[w].report
    BY <1>4 DEF Task
  <2> QED
    BY <1>1, <1>4, <1>7, <2>1 DEF WorkerPart, Goto
<1> HIDE DEF Moves
<1> QED
  BY <1>1, <1>3, <1>4, <1>5, <1>6, <1>7

\* Initially nobody has a task.
LEMMA InitExecution == Init => ExecutionInv
<1> SUFFICES ASSUME Init PROVE ExecutionInv
  OBVIOUS
<1>1. TypeInv
  BY InitTyped
<1>2. \A r : ~HasTask(r)
  BY DEF Init, HasTask, Queued, Working, Requested
<1>3. OnceInv
  BY <1>2 DEF Init, OnceInv, QueueOnce, WorkersOnce, ClientsOnce
<1>4. EndedInv
  BY <1>2 DEF Init, EndedInv
<1> QED
  BY <1>1, <1>3, <1>4 DEF ExecutionInv

\* The steps of the workers keep one task per report.
LEMMA WorkerOnce ==
    ASSUME ExecutionInv, TypeInv', NEW w \in Workers, Worker(w)
    PROVE  OnceInv' /\ \A r \in Reports : HasTask(r)' => HasTask(r)
<1> USE DEF ExecutionInv
<1>1. QueuePart /\ QueuePart' /\ WorkerPart
  BY DEF TypeInv
<1>2. CASE ReceiveTask(w)
  <2>1. /\ pc[w] = "idle" /\ queue # <<>> /\ queue' = Tail(queue)
        /\ task' = [task EXCEPT ![w] = Head(queue)]
        /\ UNCHANGED <<object, recovering, retries>>
    BY <1>2 DEF ReceiveTask, clientVars, procVars, boundVars
  <2>2. /\ Head(queue) = queue[1] /\ 1 \in 1..Len(queue) /\ Head(queue) \in Task
        /\ \A i \in 1..Len(queue') : queue'[i] = queue[i + 1] /\ i + 1 \in 1..Len(queue) /\ i + 1 # 1
    BY <1>1, <2>1, ReceiveQueue
  <2>3. /\ task'[w] = queue[1] /\ task[w] = NoTask
        /\ \A v \in Workers : v # w => task'[v] = task[v]
    BY <1>1, <2>1, <2>2 DEF WorkerPart
  <2>4. \A r : HasTask(r)' => HasTask(r)
    BY <1>1, <2>1, <2>2, <2>3, HasTaskMeans, HasTaskMeansThen
  <2>5. QueueOnce'
    <3>1. SUFFICES ASSUME NEW i \in 1..Len(queue'), NEW j \in 1..Len(queue'), i # j
                   PROVE  queue'[i].report # queue'[j].report
      BY DEF QueueOnce
    <3>2. Len(queue') \in Nat
      BY <1>1 DEF QueuePart
    <3>3. i + 1 # j + 1
      BY <3>1, <3>2
    <3> QED
      BY <2>2, <3>3 DEF OnceInv, QueueOnce
  <2>6. \A i \in 1..Len(queue') : queue'[i].report # queue[1].report
    BY <2>2 DEF OnceInv, QueueOnce
  <2>7. WorkersOnce'
    BY <2>2, <2>3, <2>6 DEF OnceInv, WorkersOnce
  <2>8. ClientsOnce'
    BY <2>1, <2>2, <2>3 DEF OnceInv, ClientsOnce
  <2> QED
    BY <2>1, <2>4, <2>5, <2>7, <2>8 DEF OnceInv, TypeInv, RestPart
<1>3. CASE ~ReceiveTask(w)
  BY <1>1, <1>3, WorkerKeeps, LessensOnce DEF Lessens
<1> QED
  BY <1>2, <1>3

\* A task of its own is all that a report has.
LEMMA OnlyWorker ==
    ASSUME QueuePart', OnceInv', NEW w \in Workers, NEW r, task[w] # NoTask, task[w].report = r,
           OnceInv, QueuePart, Drop(w), WorkerPart, UNCHANGED <<queue, object>>
    PROVE  ~HasTask(r)'
<1>1. task'[w] = NoTask /\ \A v \in Workers : v # w => task'[v] = task[v]
  BY DEF Drop, WorkerPart
<1> QED
  BY <1>1, HasTaskMeansThen DEF OnceInv, WorkersOnce, ClientsOnce

\* The steps of the workers complete only reports whose task they drop.
LEMMA WorkerEnded ==
    ASSUME ExecutionInv, TypeInv', OnceInv', NEW w \in Workers, Worker(w),
           \A r \in Reports : HasTask(r)' => HasTask(r)
    PROVE  EndedInv'
<1> USE DEF ExecutionInv
<1>1. recovering' = recovering
  BY WorkerKeeps DEF ReceiveTask, procVars
<1>2. SUFFICES ASSUME NEW r \in Reports, row'[r].status \in {"none", "completed"}
               PROVE  ~HasTask(r)' /\ r \notin recovering
  BY <1>1 DEF EndedInv
<1>3. CASE row'[r] = row[r]
  BY <1>2, <1>3 DEF EndedInv
<1>4. CASE row'[r] # row[r]
  <2>1. task[w] # NoTask /\ r = task[w].report /\ CompleteReport(w)
    BY <1>2, <1>4, WorkerSaves
  <2>2. Drop(w) /\ UNCHANGED <<queue, object>>
    BY <2>1 DEF CompleteReport, clientVars
  <2>3. ~HasTask(r)'
    BY <2>1, <2>2, OnlyWorker DEF TypeInv
  <2>4. HasTask(r)
    BY <2>1 DEF HasTask, Working
  <2> QED
    BY <2>3, <2>4 DEF OnceInv
<1> QED
  BY <1>3, <1>4

\* The steps of the requests keep one task per report, when they are patient.
LEMMA ClientOnce ==
    ASSUME ExecutionInv, TypeInv', NEW c \in Clients, Client(c)
    PROVE  OnceInv' /\ \A r \in Reports : HasTask(r)' => HasTask(r)
<1> USE DEF ExecutionInv, TypeInv
<1>1. /\ UNCHANGED <<task, recovering, retries>> /\ request[c] # "idle"
      /\ \/ Answer(c) /\ UNCHANGED queue
         \/ Answer(c) /\ Enqueue(object[c])
         \/ RetrySave(c)
  BY DEF Client, SubmitReport, RejectReport, RequestPanics, RetrySave, RetrySubmit, RetryRejected,
         workerVars, procVars, boundVars
<1>2. object[c] \in Task /\ object[c] # NoTask /\ object[c].retries <= retries
  BY <1>1, ClientTask
<1>3. Answer(c) => object'[c] = NoTask /\ \A d \in Clients : d # c => object'[d] = object[d]
  BY DEF Answer, ClientPart
<1>4. CASE Answer(c) /\ UNCHANGED queue
  BY <1>1, <1>3, <1>4, LessensOnce DEF Lessens
<1>5. CASE Answer(c) /\ Enqueue(object[c])
  <2>1. HasTask(object[c].report)
    BY <1>2 DEF HasTask, Requested
  <2>2. object[c].report \notin recovering
    BY <2>1 DEF OnceInv
  <2>3. Lessens
    BY <1>1, <1>3, <1>5 DEF Lessens
  <2>4. /\ \A i \in 1..Len(queue) : queue[i].report # object[c].report
        /\ \A w \in Workers : task'[w] # NoTask => task'[w].report # object[c].report
        /\ \A d \in Clients : object'[d] # NoTask => object'[d].report # object[c].report
    BY <1>1, <1>2, <1>3, <1>5 DEF OnceInv, ClientsOnce
  <2>5. recovering' \subseteq recovering \ {object[c].report}
    BY <1>1, <2>2
  <2>6. OnceInv' /\ \A r \in Reports : HasTask(r)' => HasTask(r) \/ r = object[c].report
    BY <1>1, <1>2, <1>5, <2>3, <2>4, <2>5, EnqueueOnce
  <2> QED
    BY <2>1, <2>6
<1>6. CASE RetrySave(c)
  <2>1. /\ object' = [object EXCEPT ![c] = [object[c] EXCEPT !.retries = object[c].retries + 1]]
        /\ UNCHANGED queue
    BY <1>6 DEF RetrySave
  <2>2. [object[c] EXCEPT !.retries = object[c].retries + 1].report = object[c].report
    BY <1>2 DEF Task
  <2>3. \A d \in Clients : object'[d] # NoTask => object[d] # NoTask /\ object'[d].report = object[d].report
    BY <1>2, <2>1, <2>2 DEF ClientPart
  <2> QED
    BY <1>1, <2>1, <2>3, LessensOnce DEF Lessens
<1> QED
  BY <1>1, <1>4, <1>5, <1>6

LEMMA ClientEnded ==
    ASSUME ExecutionInv, TypeInv', NEW c \in Clients, Client(c),
           \A r \in Reports : HasTask(r)' => HasTask(r)
    PROVE  EndedInv'
<1> USE DEF ExecutionInv, TypeInv
<1>1. /\ UNCHANGED <<recovering, retries>> /\ request[c] # "idle"
      /\ UNCHANGED row \/ SetStatus(object[c].report, "failed") \/ RetrySave(c)
  BY DEF Client, SubmitReport, RejectReport, RequestPanics, RetrySave, RetrySubmit, RetryRejected,
         dbVars, procVars, boundVars
<1>2. object[c] \in Task /\ object[c].report \in Reports /\ object[c].retries <= retries
  BY <1>1, ClientTask
<1>3. \A r \in Reports : row'[r] = row[r] \/ row'[r].status \in {"failed", "pending"}
  <2>1. CASE SetStatus(object[c].report, "failed")
    BY <1>1, <1>2, <2>1, SetStatusRow
  <2>2. CASE RetrySave(c)
    BY <2>2 DEF RetrySave, Save, RowPart
  <2> QED
    BY <1>1, <2>1, <2>2
<1> QED
  BY <1>1, <1>3 DEF EndedInv

\* A request that is accepted is the only one of its report.
LEMMA AcceptOnce ==
    ASSUME ExecutionInv, TypeInv', NEW c \in Clients, NEW r \in Reports, NEW label,
           Accept(c, TaskOf(r), label), ~HasTask(r), UNCHANGED <<queue, task, recovering>>
    PROVE  /\ OnceInv' /\ \A q \in Reports : HasTask(q)' => HasTask(q) \/ q = r
           /\ recovering = {}
<1> USE DEF ExecutionInv, TypeInv
<1>1. /\ object[c] = NoTask /\ recovering = {}
      /\ object'[c] = TaskOf(r) /\ \A d \in Clients : d # c => object'[d] = object[d]
  BY DEF Accept, ClientPart
<1>2. TaskOf(r) # NoTask /\ TaskOf(r).report = r
  BY TaskOfRow
<1>3. \A q : HasTask(q)' => HasTask(q) \/ q = r
  BY <1>1, <1>2, HasTaskMeans, HasTaskMeansThen
<1>4. /\ \A i \in 1..Len(queue) : queue[i].report # r
      /\ \A w \in Workers : task[w] # NoTask => task[w].report # r
      /\ \A d \in Clients : object[d] # NoTask => object[d].report # r
  BY HasTaskMeans
<1>5. ClientsOnce'
  BY <1>1, <1>2, <1>4 DEF OnceInv, ClientsOnce
<1>6. QueueOnce' /\ WorkersOnce'
  BY DEF OnceInv, QueueOnce, WorkersOnce
<1> QED
  BY <1>1, <1>3, <1>5, <1>6 DEF OnceInv

\* Every step keeps one task per report, when requests are patient.
LEMMA NextExecution == Patient => (ExecutionInv /\ [Next]_vars => ExecutionInv')
<1> SUFFICES ASSUME Patient, ExecutionInv, [Next]_vars PROVE ExecutionInv'
  OBVIOUS
<1>1. TypeInv /\ TypeInv' /\ OnceInv /\ EndedInv
  BY NextTyped DEF ExecutionInv
<1>2. RowPart /\ QueuePart /\ QueuePart' /\ recovering \subseteq Reports
  BY <1>1 DEF TypeInv, RestPart
<1>3. SUFFICES OnceInv' /\ EndedInv'
  BY <1>1 DEF ExecutionInv
<1>4. ASSUME NEW w \in Workers, Worker(w)
      PROVE  OnceInv' /\ EndedInv'
  BY <1>1, <1>4, WorkerOnce, WorkerEnded
<1>5. ASSUME NEW c \in Clients, Client(c)
      PROVE  OnceInv' /\ EndedInv'
  BY <1>1, <1>5, ClientOnce, ClientEnded
<1>6. ASSUME NEW c \in Clients, NEW r \in Reports, CreateReport(c, r) \/ RetryReport(c, r)
      PROVE  OnceInv' /\ EndedInv'
  <2>1. /\ UNCHANGED <<queue, task, recovering>>
        /\ \E label : Accept(c, TaskOf(r), label)
    BY <1>6 DEF CreateReport, RetryReport, workerVars, procVars
  <2>2. ~HasTask(r)
    BY <1>1, <1>6 DEF CreateReport, RetryReport, EndedInv
  <2>3. /\ OnceInv' /\ \A q \in Reports : HasTask(q)' => HasTask(q) \/ q = r
        /\ recovering = {}
    BY <1>1, <2>1, <2>2, AcceptOnce
  <2>4. /\ row'[r].status \notin {"none", "completed"}
        /\ \A q \in Reports : q # r => row'[q] = row[q]
    BY <1>2, <1>6 DEF CreateReport, RetryReport, SetStatus, RowPart, Row, Retriable, dbVars
  <2> QED
    BY <1>1, <2>1, <2>3, <2>4 DEF EndedInv
<1>7. ASSUME NEW r \in Reports, CancelReport(r)
      PROVE  OnceInv' /\ EndedInv'
  <2>1. UNCHANGED <<queue, task, object, recovering, retries>> /\ SetStatus(r, "cancelled")
    BY <1>7 DEF CancelReport, workerVars, clientVars, procVars, boundVars
  <2>2. OnceInv' /\ \A q \in Reports : HasTask(q)' => HasTask(q)
    BY <1>2, <1>1, <2>1, LessensOnce DEF Lessens
  <2>3. \A q \in Reports : row'[q] = row[q] \/ row'[q].status = "cancelled"
    BY <1>2, <2>1, SetStatusRow
  <2> QED
    BY <1>1, <2>1, <2>2, <2>3 DEF EndedInv
<1>8. CASE Recovery
  <2>1. PICK r \in recovering :
            /\ recovering' = recovering \ {r}
            /\ \/ Enqueue(TaskOf(r)) /\ UNCHANGED row
               \/ SetStatus(r, "failed") /\ UNCHANGED queue
    BY <1>8 DEF Recovery, RecoverReport, GiveUpReport, dbVars
  <2>2. UNCHANGED <<task, object, retries>>
    BY <1>8 DEF Recovery, RecoverReport, GiveUpReport, workerVars, clientVars, boundVars
  <2>3. r \in Reports /\ ~HasTask(r)
    BY <1>1, <1>2 DEF OnceInv
  <2>4. Lessens
    BY <2>2 DEF Lessens
  <2>5. CASE Enqueue(TaskOf(r)) /\ UNCHANGED row
    <3>1. TaskOf(r) \in Task /\ TaskOf(r).report = r /\ TaskOf(r).retries <= retries
      BY <1>2, <2>3, TaskOfRow
    <3>2. /\ \A i \in 1..Len(queue) : queue[i].report # r
          /\ \A w \in Workers : task[w] # NoTask => task[w].report # r
          /\ \A d \in Clients : object[d] # NoTask => object[d].report # r
      BY <1>2, <2>3, HasTaskMeans
    <3>3. OnceInv' /\ \A q \in Reports : HasTask(q)' => HasTask(q) \/ q = r
      BY <1>1, <1>2, <2>1, <2>2, <2>4, <2>5, <3>1, <3>2, EnqueueOnce
    <3> QED
      BY <1>1, <2>1, <2>5, <3>3 DEF EndedInv
  <2>6. CASE SetStatus(r, "failed") /\ UNCHANGED queue
    <3>1. OnceInv' /\ \A q \in Reports : HasTask(q)' => HasTask(q)
      BY <1>1, <1>2, <2>1, <2>4, <2>6, LessensOnce
    <3>2. \A q \in Reports : row'[q] = row[q] \/ row'[q].status = "failed"
      BY <1>2, <2>2, <2>3, <2>6, SetStatusRow
    <3> QED
      BY <1>1, <2>1, <3>1, <3>2 DEF EndedInv
  <2> QED
    BY <2>1, <2>5, <2>6
<1>9. CASE StopEngine \/ UNCHANGED vars
  <2>1. UNCHANGED <<row, queue, task, object, recovering>>
    BY <1>9 DEF StopEngine, vars, dbVars, workerVars, clientVars, procVars
  <2>2. OnceInv' /\ \A q \in Reports : HasTask(q)' => HasTask(q)
    BY <1>2, <1>1, <2>1, LessensOnce DEF Lessens
  <2> QED
    BY <1>1, <2>1, <2>2 DEF EndedInv
<1>10. CASE CrashAndRestart
  <2>1. /\ queue' = <<>> /\ row' = row
        /\ task' = [w \in Workers |-> NoTask] /\ object' = [c \in Clients |-> NoTask]
        /\ recovering' = {r \in Reports : row[r].status \in Open}
    BY <1>10 DEF CrashAndRestart, dbVars
  <2>2. \A r : ~HasTask(r)'
    BY <1>2, <2>1, HasTaskMeansThen
  <2>3. OnceInv'
    BY <2>1, <2>2 DEF OnceInv, QueueOnce, WorkersOnce, ClientsOnce
  <2>4. EndedInv'
    BY <2>1, <2>2 DEF EndedInv
  <2> QED
    BY <2>3, <2>4
<1> QED
  BY <1>4, <1>5, <1>6, <1>7, <1>8, <1>9, <1>10 DEF Next

\* No report is worked on twice at a time, even across crashes and recovery, as
\* long as nobody retries a report that still has a task (which the handler
\* does not check).
THEOREM OneTask == Patient => (Spec => []OneExecution)
<1> SUFFICES ASSUME Patient PROVE Spec => []OneExecution
  OBVIOUS
<1>1. ExecutionInv => OneExecution
  BY DEF ExecutionInv, OnceInv, WorkersOnce, OneExecution
<1>2. ExecutionInv /\ [Next]_vars => ExecutionInv'
  BY NextExecution
<1> QED
  BY <1>1, <1>2, InitExecution, PTL DEF Spec

\* A completed report is left alone by every step.
LEMMA CompletedAlone ==
    ASSUME ExecutionInv, [Next]_vars, NEW r \in Reports, row[r].status = "completed"
    PROVE  row'[r] = row[r]
<1>1. TypeInv /\ RowPart /\ QueuePart /\ ClientPart /\ ~HasTask(r) /\ r \notin recovering
  BY DEF ExecutionInv, TypeInv, EndedInv
<1>2. ASSUME NEW w \in Workers, Worker(w)
      PROVE  row'[r] = row[r]
  BY <1>1, <1>2, WorkerSaves, HasTaskMeans
<1>3. ASSUME NEW c \in Clients, Client(c)
      PROVE  row'[r] = row[r]
  <2>1. /\ UNCHANGED retries /\ request[c] # "idle"
        /\ UNCHANGED row \/ SetStatus(object[c].report, "failed") \/ RetrySave(c)
    BY <1>3 DEF Client, SubmitReport, RejectReport, RequestPanics, RetrySave, RetrySubmit, RetryRejected,
           dbVars, boundVars
  <2>2. object[c] \in Task /\ object[c] # NoTask /\ object[c].report \in Reports
    BY <1>1, <2>1, ClientTask
  <2>3. object[c].report # r
    BY <1>1, <2>2, HasTaskMeans
  <2>4. CASE SetStatus(object[c].report, "failed")
    BY <1>1, <2>1, <2>2, <2>3, <2>4, SetStatusRow
  <2>5. CASE RetrySave(c)
    <3>1. /\ object' = [object EXCEPT ![c] = [object[c] EXCEPT !.retries = object[c].retries + 1]]
          /\ Save(object'[c], "pending")
      BY <2>5 DEF RetrySave
    <3>2. object'[c].report = object[c].report
      BY <1>1, <2>2, <3>1 DEF ClientPart, Task
    <3> QED
      BY <1>1, <2>3, <3>1, <3>2 DEF Save, RowPart
  <2> QED
    BY <2>1, <2>4, <2>5
<1>4. ASSUME NEW c \in Clients, NEW s \in Reports, CreateReport(c, s) \/ RetryReport(c, s)
      PROVE  row'[r] = row[r]
  BY <1>1, <1>4 DEF CreateReport, RetryReport, SetStatus, RowPart, dbVars
<1>5. ASSUME NEW s \in Reports, CancelReport(s)
      PROVE  row'[r] = row[r]
  BY <1>1, <1>5 DEF CancelReport, SetStatus, RowPart
<1>6. CASE Recovery
  BY <1>1, <1>6 DEF Recovery, RecoverReport, GiveUpReport, SetStatus, RowPart, dbVars
<1>7. CASE StopEngine \/ CrashAndRestart \/ UNCHANGED vars
  BY <1>7 DEF StopEngine, CrashAndRestart, vars, dbVars
<1> QED
  BY <1>2, <1>3, <1>4, <1>5, <1>6, <1>7 DEF Next

\* Completed is final: whoever saves the object of a report has its task, and a
\* completed report has none.
THEOREM CompletedStays == Patient => (Spec => CompletedIsFinal)
<1> SUFFICES ASSUME Patient PROVE Spec => CompletedIsFinal
  OBVIOUS
<1>1. ExecutionInv /\ [Next]_vars => ExecutionInv'
  BY NextExecution
<1>2. ExecutionInv /\ [Next]_vars
        => [\A r \in Reports : row[r].status = "completed" => row'[r].status = "completed"]_row
  BY CompletedAlone
<1> QED
  BY <1>1, <1>2, InitExecution, PTL DEF Spec, CompletedIsFinal

-----------------------------------------------------------------------------
(* Sections *)

Settled == {"completed", "failed"}
Early == {"start", "prepare", "structure", "error"}
Late == {"structured", "section", "generate", "merge", "complete"}

\* What a worker has behind it is written; what it will skip is complete.
Progress(w) ==
    task[w] # NoTask =>
        LET s == sections[task[w].report] IN
        /\ pc[w] \in {"section", "generate"} =>
               /\ Len(s) = Len(loaded[w])
               /\ \A i \in 1..Len(s) : i < pos[w] => s[i] \in Settled
               /\ \A i \in 1..Len(s) : i >= pos[w] /\ loaded[w][i] = "completed" => s[i] = "completed"
        /\ pc[w] \in {"merge", "complete"} => \A i \in 1..Len(s) : s[i] \in Settled

ProgressInv == \A w \in Workers : Progress(w)

\* A worker finds no sections, until it has generated those of one structure;
\* a report without a worker has none, or is complete.
WorkerStructure(w) ==
    /\ pc[w] \in Early => sections[task[w].report] = <<>>
    /\ pc[w] \in Late => Len(sections[task[w].report]) = Leaves

ReportStructure(r) ==
    IF row[r].status = "completed" THEN Len(sections[r]) = Leaves
    ELSE (\E w \in Workers : Working(w, r)) \/ sections[r] = <<>>

StructureInv ==
    crashes = 0 => (\A w \in Workers : WorkerStructure(w)) /\ (\A r \in Reports : ReportStructure(r))

WrittenInv ==
    \A r \in Reports : row[r].status = "completed" =>
        \A i \in 1..Len(sections[r]) : sections[r][i] \in Settled

WholeInv == ExecutionInv /\ ProgressInv /\ StructureInv /\ WrittenInv

LEMMA InitWhole == Init => WholeInv
<1> SUFFICES ASSUME Init PROVE WholeInv
  OBVIOUS
<1>1. ExecutionInv
  BY InitExecution
<1>2. ProgressInv /\ WrittenInv
  BY DEF Init, ProgressInv, Progress, WrittenInv
<1>3. StructureInv
  BY DEF Init, StructureInv, WorkerStructure, ReportStructure, Early, Late
<1> QED
  BY <1>1, <1>2, <1>3 DEF WholeInv

\* A worker touches the sections of the report it works on, and nothing of the
\* other workers.
LEMMA WorkerLocal ==
    ASSUME TypeInv, NEW w \in Workers, Worker(w)
    PROVE  /\ \A v \in Workers : v # w =>
                  task'[v] = task[v] /\ pc'[v] = pc[v] /\ loaded'[v] = loaded[v] /\ pos'[v] = pos[v]
           /\ \A r \in Reports : task[w] = NoTask \/ r # task[w].report => sections'[r] = sections[r]
<1> USE DEF TypeInv
<1>1. \A v \in Workers : v # w => task'[v] = task[v] /\ pc'[v] = pc[v]
  BY WorkerKeeps DEF ReceiveTask, Goto, WorkerPart
<1>2. \/ UNCHANGED <<loaded, pos>>
      \/ UNCHANGED loaded /\ pos' = [pos EXCEPT ![w] = @ + 1]
      \/ pos' = [pos EXCEPT ![w] = 1] /\ loaded' = [loaded EXCEPT ![w] = sections[task[w].report]]
  BY DEF Worker, ReceiveTask, StartReport, EnsureRepository, GenerateStructure, Panic, BeginSections,
         SkipSection, StartSection, EndSection, SectionsDone, MergeSections, CompleteReport, HandleError
<1>3. \A v \in Workers : v # w => loaded'[v] = loaded[v] /\ pos'[v] = pos[v]
  BY <1>2 DEF WorkerPart
<1>4. \A r \in Reports : task[w] = NoTask \/ r # task[w].report => sections'[r] = sections[r]
  <2>1. CASE GenerateStructure(w)
    BY <2>1 DEF GenerateStructure, SectionPart, WorkerPart
  <2>2. CASE StartSection(w) \/ EndSection(w)
    BY <2>2 DEF StartSection, EndSection, SectionPart, WorkerPart
  <2>3. CASE ~(GenerateStructure(w) \/ StartSection(w) \/ EndSection(w))
    <3>1. UNCHANGED sections
      BY <2>3 DEF Worker, ReceiveTask, StartReport, EnsureRepository, Panic, BeginSections,
             SkipSection, SectionsDone, MergeSections, CompleteReport, HandleError, dbVars
    <3> QED
      BY <3>1
  <2> QED
    BY <2>1, <2>2, <2>3
<1> QED
  BY <1>1, <1>3, <1>4

\* What the worker's own step does to its progress.
LEMMA OwnProgress ==
    ASSUME TypeInv, TypeInv', NEW w \in Workers, Worker(w), Progress(w)
    PROVE  Progress(w)'
<1> USE DEF TypeInv, Settled
<1>1. CASE ReceiveTask(w) \/ StartReport(w) \/ EnsureRepository(w) \/ GenerateStructure(w) \/ Panic(w)
           \/ CompleteReport(w) \/ HandleError(w)
  <2>1. pc'[w] \notin {"section", "generate", "merge", "complete"}
    BY <1>1 DEF ReceiveTask, StartReport, EnsureRepository, GenerateStructure, Panic, CompleteReport,
           HandleError, Goto, Drop, WorkerPart
  <2> QED
    BY <2>1 DEF Progress
<1>2. CASE BeginSections(w)
  <2>1. /\ pc'[w] = "section" /\ loaded'[w] = sections[task[w].report] /\ pos'[w] = 1
        /\ UNCHANGED <<task, sections>>
    BY <1>2 DEF BeginSections, Goto, WorkerPart
  <2> QED
    BY <2>1 DEF Progress
<1> DEFINE r == task[w].report
           s == sections[r]
           n == pos[w]
<1>3. /\ pc[w] # "idle" => r \in Reports /\ task[w] # NoTask /\ s \in Seq(SectionStatuses) /\ Len(s) \in Nat
      /\ n \in Nat /\ loaded[w] \in Seq(SectionStatuses) /\ Len(loaded[w]) \in Nat
  BY WorkerTask, LenProperties DEF WorkerPart, SectionPart
<1>4. CASE SkipSection(w)
  <2>1. /\ pc[w] = "section" /\ n <= Len(loaded[w]) /\ loaded[w][n] = "completed" /\ pos'[w] = n + 1
        /\ UNCHANGED <<pc, task, loaded, sections>>
    BY <1>4 DEF SkipSection, WorkerPart, dbVars
  <2>2. \A i \in 1..Len(s) : i < n + 1 => i < n \/ i = n
    BY <1>3, <2>1
  <2>3. \A i \in 1..Len(s) : i >= n + 1 => i >= n
    BY <1>3, <2>1
  <2>4. \A i \in 1..Len(s) : i < n + 1 => s[i] \in Settled
    BY <1>3, <2>1, <2>2 DEF Progress
  <2> QED
    BY <1>3, <2>1, <2>3, <2>4 DEF Progress
<1>5. CASE StartSection(w)
  <2>1. /\ pc[w] = "section" /\ pc'[w] = "generate" /\ n <= Len(loaded[w]) /\ loaded[w][n] # "completed"
        /\ sections'[r] = [s EXCEPT ![n] = "running"]
        /\ UNCHANGED <<task, loaded, pos>>
    BY <1>3, <1>5 DEF StartSection, Goto, WorkerPart, SectionPart
  <2>2. /\ Len(sections'[r]) = Len(s)
        /\ \A i \in 1..Len(s) : i # n => sections'[r][i] = s[i]
    BY <1>3, <2>1, WriteSection
  <2>3. /\ Len(s) = Len(loaded[w])
        /\ \A i \in 1..Len(s) : i < n => s[i] \in Settled
        /\ \A i \in 1..Len(s) : i >= n /\ loaded[w][i] = "completed" => s[i] = "completed" /\ i # n
    BY <1>3, <2>1 DEF Progress
  <2>4. \A i \in 1..Len(s) : i < n => i # n
    BY <1>3
  <2>5. /\ \A i \in 1..Len(s) : i < n => sections'[r][i] \in Settled
        /\ \A i \in 1..Len(s) : i >= n /\ loaded[w][i] = "completed" => sections'[r][i] = "completed"
    BY <2>2, <2>3, <2>4
  <2> HIDE DEF s, n
  <2> QED
    BY <2>1, <2>2, <2>3, <2>5 DEF Progress, n
<1>6. CASE EndSection(w)
  <2>1. /\ pc[w] = "generate" /\ pc'[w] = "section" /\ pos'[w] = n + 1
        /\ \E e \in Settled : sections'[r] = [s EXCEPT ![n] = e]
        /\ UNCHANGED <<task, loaded>>
    BY <1>3, <1>6 DEF EndSection, Goto, WorkerPart, SectionPart
  <2>2. /\ Len(sections'[r]) = Len(s)
        /\ \A i \in 1..Len(s) : i # n => sections'[r][i] = s[i]
        /\ \A i \in 1..Len(s) : i = n => sections'[r][i] \in Settled
    BY <1>3, <2>1, WriteSection
  <2>3. \A i \in 1..Len(s) : i < n + 1 => i < n \/ i = n
    BY <1>3
  <2>4. \A i \in 1..Len(s) : i >= n + 1 => i >= n /\ i # n
    BY <1>3
  <2> QED
    BY <1>3, <2>1, <2>2, <2>3, <2>4 DEF Progress
<1>7. CASE SectionsDone(w)
  <2>1. /\ pc[w] = "section" /\ pc'[w] = "merge" /\ n > Len(loaded[w])
        /\ UNCHANGED <<task, sections>>
    BY <1>7 DEF SectionsDone, Goto, WorkerPart, dbVars
  <2>2. Len(s) = Len(loaded[w]) => \A i \in 1..Len(s) : i < n
    BY <1>3, <2>1
  <2> QED
    BY <1>3, <2>1, <2>2 DEF Progress
<1>8. CASE MergeSections(w)
  <2>1. pc[w] = "merge" /\ pc'[w] = "complete" /\ UNCHANGED <<task, sections>>
    BY <1>8 DEF MergeSections, Goto, WorkerPart
  <2> QED
    BY <2>1 DEF Progress
<1> QED
  BY <1>1, <1>2, <1>4, <1>5, <1>6, <1>7, <1>8 DEF Worker

\* The steps of the others leave sections and workers alone, unless the server
\* crashes, and complete no report.
LEMMA OthersComplete ==
    ASSUME ExecutionInv, [Next]_vars, \A w \in Workers : ~Worker(w)
    PROVE  /\ UNCHANGED sections
           /\ UNCHANGED <<pc, task, loaded, pos, crashes>> \/ CrashAndRestart
           /\ \A r \in Reports : row[r].status = "completed" <=> row'[r].status = "completed"
<1> USE DEF ExecutionInv, TypeInv
<1>1. /\ UNCHANGED sections
      /\ UNCHANGED <<pc, task, loaded, pos, crashes>> \/ CrashAndRestart
  BY DEF Next, Client, SubmitReport, RejectReport, RequestPanics, RetrySave, RetrySubmit, RetryRejected,
         CreateReport, RetryReport, CancelReport, Recovery, RecoverReport, GiveUpReport, StopEngine,
         CrashAndRestart, vars, dbVars, workerVars, boundVars
<1>2. \A r \in Reports : row[r].status = "completed" => row'[r].status = "completed"
  BY CompletedAlone
<1> DEFINE Kept == \A r \in Reports : row'[r] = row[r] \/ row'[r].status # "completed"
<1>3. ASSUME NEW c \in Clients, Client(c)
      PROVE  Kept
  <2>1. UNCHANGED row \/ SetStatus(object[c].report, "failed") \/ Save(object'[c], "pending")
    BY <1>3 DEF Client, SubmitReport, RejectReport, RequestPanics, RetrySave, RetrySubmit, RetryRejected, dbVars
  <2> QED
    BY <2>1 DEF SetStatus, Save, RowPart, Row
<1>4. ASSUME NEW c \in Clients, NEW s \in Reports, CreateReport(c, s) \/ RetryReport(c, s)
      PROVE  Kept
  BY <1>4 DEF CreateReport, RetryReport, SetStatus, RowPart, Row, dbVars
<1>5. ASSUME NEW s \in Reports, CancelReport(s)
      PROVE  Kept
  BY <1>5 DEF CancelReport, SetStatus, RowPart, Row
<1>6. Recovery => Kept
  BY DEF Recovery, RecoverReport, GiveUpReport, SetStatus, RowPart, Row, dbVars
<1>7. StopEngine \/ CrashAndRestart \/ UNCHANGED vars => Kept
  BY DEF StopEngine, CrashAndRestart, vars, dbVars
<1>8. Kept
  BY <1>3, <1>4, <1>5, <1>6, <1>7 DEF Next
<1> QED
  BY <1>1, <1>2, <1>8

\* Every step keeps the progress: no two workers write the same sections.
LEMMA NextProgress ==
    ASSUME ExecutionInv, TypeInv', ProgressInv, [Next]_vars
    PROVE  ProgressInv'
<1> USE DEF ExecutionInv
<1>1. ASSUME NEW w \in Workers, Worker(w), NEW v \in Workers
      PROVE  Progress(v)'
  <2>1. CASE v = w
    BY <1>1, <2>1, OwnProgress DEF ProgressInv
  <2>2. CASE v # w
    <3>1. /\ task'[v] = task[v] /\ pc'[v] = pc[v] /\ loaded'[v] = loaded[v] /\ pos'[v] = pos[v]
          /\ \A r \in Reports : task[w] = NoTask \/ r # task[w].report => sections'[r] = sections[r]
      BY <1>1, <2>2, WorkerLocal
    <3>2. task[v] # NoTask => task[v].report \in Reports /\ sections'[task[v].report] = sections[task[v].report]
      BY <2>2, <3>1, TaskFields DEF OnceInv, WorkersOnce, TypeInv, WorkerPart
    <3>3. Progress(v)
      BY DEF ProgressInv
    <3> QED
      BY <3>1, <3>2, <3>3 DEF Progress
  <2> QED
    BY <2>1, <2>2
<1>2. CASE \A w \in Workers : ~Worker(w)
  <2>1. UNCHANGED sections /\ (UNCHANGED <<pc, task, loaded, pos>> \/ CrashAndRestart)
    BY <1>2, OthersComplete
  <2>2. CASE UNCHANGED <<pc, task, loaded, pos>>
    BY <2>1, <2>2 DEF ProgressInv, Progress
  <2>3. CASE CrashAndRestart
    BY <2>3 DEF CrashAndRestart, ProgressInv, Progress
  <2> QED
    BY <2>1, <2>2, <2>3
<1> QED
  BY <1>1, <1>2 DEF ProgressInv

\* A report that is written when it completes stays so.
LEMMA NextWritten ==
    ASSUME ExecutionInv, ProgressInv, WrittenInv, [Next]_vars
    PROVE  WrittenInv'
<1> USE DEF ExecutionInv
<1> SUFFICES ASSUME NEW r \in Reports, row'[r].status = "completed"
             PROVE  \A i \in 1..Len(sections'[r]) : sections'[r][i] \in Settled
  BY DEF WrittenInv
<1>1. CASE \A w \in Workers : ~Worker(w)
  BY <1>1, OthersComplete DEF WrittenInv
<1>2. ASSUME NEW w \in Workers, Worker(w)
      PROVE  \A i \in 1..Len(sections'[r]) : sections'[r][i] \in Settled
  <2>1. CASE row[r].status = "completed"
    <3>1. ~HasTask(r)
      BY <2>1 DEF EndedInv
    <3>2. task[w] = NoTask \/ r # task[w].report
      BY <3>1 DEF HasTask, Working
    <3>3. sections'[r] = sections[r]
      BY <1>2, <3>2, WorkerLocal
    <3> QED
      BY <2>1, <3>3 DEF WrittenInv
  <2>2. CASE row[r].status # "completed"
    <3>1. task[w] # NoTask /\ task[w].report = r /\ CompleteReport(w)
      BY <1>2, <2>2, WorkerSaves
    <3>2. pc[w] = "complete" /\ UNCHANGED sections
      BY <3>1 DEF CompleteReport
    <3> QED
      BY <3>1, <3>2 DEF ProgressInv, Progress
  <2> QED
    BY <2>1, <2>2
<1> QED
  BY <1>1, <1>2

\* What the worker's own step does to the structure of its report.
LEMMA OwnStructure ==
    ASSUME ExecutionInv, TypeInv', NEW w \in Workers, Worker(w), crashes = 0, StructureInv
    PROVE  WorkerStructure(w)'
<1> USE DEF ExecutionInv, TypeInv, Early, Late
<1> DEFINE r == task[w].report
<1>1. WorkerStructure(w) /\ \A q \in Reports : ReportStructure(q)
  BY DEF StructureInv
<1>2. pc[w] # "idle" => r \in Reports /\ sections[r] \in Seq(SectionStatuses)
  BY WorkerTask DEF SectionPart
<1>3. CASE ReceiveTask(w)
  <2>1. /\ queue # <<>> /\ queue' = Tail(queue) /\ task' = [task EXCEPT ![w] = Head(queue)]
        /\ pc' = [pc EXCEPT ![w] = "start"]
        /\ UNCHANGED <<sections, retries>>
    BY <1>3 DEF ReceiveTask, Goto, dbVars, boundVars
  <2>2. Head(queue) = queue[1] /\ 1 \in 1..Len(queue) /\ Head(queue) \in Task
    BY <2>1, ReceiveQueue
  <2>3. /\ queue[1].report \in Reports /\ HasTask(queue[1].report)
        /\ \A v \in Workers : ~Working(v, queue[1].report)
    BY <2>2, TaskFields, HasTaskMeans DEF OnceInv, WorkersOnce, Working
  <2>4. sections[queue[1].report] = <<>>
    BY <1>1, <2>3 DEF ReportStructure, EndedInv
  <2>5. task'[w] = queue[1] /\ pc'[w] = "start"
    BY <2>1, <2>2 DEF WorkerPart
  <2> QED
    BY <2>1, <2>4, <2>5 DEF WorkerStructure
<1>4. CASE StartReport(w) \/ EnsureRepository(w)
  <2>1. pc[w] \in {"start", "prepare"} /\ pc'[w] \in {"prepare", "structure", "error"} /\ UNCHANGED sections
    BY <1>4 DEF StartReport, EnsureRepository, Goto, WorkerPart
  <2>2. ~ReceiveTask(w) /\ task'[w] # NoTask
    BY <2>1 DEF ReceiveTask, WorkerPart
  <2>3. task'[w].report = r
    BY <2>2, WorkerKeeps
  <2> QED
    BY <1>1, <2>1, <2>3 DEF WorkerStructure
<1>5. CASE GenerateStructure(w)
  <2>1. /\ pc[w] = "structure" /\ UNCHANGED task
        /\ \/ pc'[w] = "structured"
              /\ sections' = [sections EXCEPT ![r] = sections[r] \o [i \in 1..Leaves |-> "pending"]]
           \/ pc'[w] = "error" /\ UNCHANGED sections
    BY <1>5 DEF GenerateStructure, Goto, WorkerPart
  <2>2. sections[r] = <<>>
    BY <1>1, <2>1 DEF WorkerStructure
  <2>3. Len(sections[r] \o [i \in 1..Leaves |-> "pending"]) = Leaves
    BY <1>2, <2>1, <2>2, AddSections, ReportAssumption
  <2> QED
    BY <1>2, <2>1, <2>2, <2>3 DEF WorkerStructure, SectionPart
<1>6. CASE Panic(w) \/ CompleteReport(w) \/ HandleError(w)
  BY <1>6 DEF Panic, CompleteReport, HandleError, Drop, Goto, WorkerPart, WorkerStructure
<1>7. CASE BeginSections(w) \/ SkipSection(w) \/ SectionsDone(w) \/ MergeSections(w)
  <2>1. pc[w] \in Late /\ pc'[w] \in Late /\ UNCHANGED <<task, sections>>
    BY <1>7 DEF BeginSections, SkipSection, SectionsDone, MergeSections, Goto, WorkerPart, dbVars
  <2> QED
    BY <1>1, <2>1 DEF WorkerStructure
<1>8. CASE StartSection(w) \/ EndSection(w)
  <2>1. /\ pc[w] \in Late /\ pc'[w] \in Late /\ UNCHANGED task /\ pos[w] \in Nat
        /\ \E e \in SectionStatuses :
               sections' = [sections EXCEPT ![r] = [sections[r] EXCEPT ![pos[w]] = e]]
    BY <1>8 DEF StartSection, EndSection, Goto, WorkerPart
  <2>2. Len(sections'[r]) = Len(sections[r])
    BY <1>2, <2>1, WriteSection DEF SectionPart
  <2> QED
    BY <1>1, <2>1, <2>2 DEF WorkerStructure
<1> QED
  BY <1>3, <1>4, <1>5, <1>6, <1>7, <1>8 DEF Worker

\* Every step keeps the structure of the reports, until the server crashes.
LEMMA NextStructure ==
    ASSUME ExecutionInv, TypeInv', StructureInv, [Next]_vars
    PROVE  StructureInv'
<1> USE DEF ExecutionInv
<1>1. CASE \A w \in Workers : ~Worker(w)
  <2>1. /\ UNCHANGED sections
        /\ UNCHANGED <<pc, task, crashes>> \/ CrashAndRestart
        /\ \A r \in Reports : row[r].status = "completed" <=> row'[r].status = "completed"
    BY <1>1, OthersComplete
  <2>2. CASE UNCHANGED <<pc, task, crashes>>
    BY <2>1, <2>2 DEF StructureInv, WorkerStructure, ReportStructure, Working
  <2>3. CASE CrashAndRestart
    BY <2>3, ReportBoundsAssumption DEF CrashAndRestart, StructureInv, TypeInv, RestPart
  <2> QED
    BY <2>1, <2>2, <2>3
<1>2. ASSUME NEW w \in Workers, Worker(w)
      PROVE  StructureInv'
  <2>1. UNCHANGED crashes
    BY <1>2, WorkerKeeps DEF ReceiveTask, boundVars
  <2> SUFFICES ASSUME crashes = 0
               PROVE  (\A v \in Workers : WorkerStructure(v)') /\ (\A r \in Reports : ReportStructure(r)')
    BY <2>1 DEF StructureInv
  <2>2. /\ \A v \in Workers : WorkerStructure(v)
        /\ \A r \in Reports : ReportStructure(r)
    BY DEF StructureInv
  <2>3. /\ \A v \in Workers : v # w => task'[v] = task[v] /\ pc'[v] = pc[v]
        /\ \A r \in Reports : task[w] = NoTask \/ r # task[w].report => sections'[r] = sections[r]
    BY <1>2, WorkerLocal
  <2>4. ASSUME NEW v \in Workers
        PROVE  WorkerStructure(v)'
    <3>1. CASE v = w
      BY <1>2, <3>1, OwnStructure
    <3>2. CASE v # w
      <4>1. task[v] # NoTask => sections'[task[v].report] = sections[task[v].report]
        <5> SUFFICES ASSUME task[v] # NoTask PROVE sections'[task[v].report] = sections[task[v].report]
          OBVIOUS
        <5>1. task[v].report \in Reports
          BY TaskFields DEF TypeInv, WorkerPart
        <5>2. task[w] = NoTask \/ task[v].report # task[w].report
          BY <3>2 DEF OnceInv, WorkersOnce
        <5> QED
          BY <2>3, <5>1, <5>2
      <4>2. pc[v] \in Early \cup Late => task[v] # NoTask
        BY DEF TypeInv, WorkerPart, Early, Late
      <4> QED
        BY <2>2, <2>3, <3>2, <4>1, <4>2 DEF WorkerStructure
    <3> QED
      BY <3>1, <3>2
  <2>5. ASSUME NEW r \in Reports, task[w] = NoTask \/ r # task[w].report
        PROVE  ReportStructure(r)'
    <3>1. row'[r] = row[r] /\ sections'[r] = sections[r]
      BY <1>2, <2>3, <2>5, WorkerSaves
    <3>2. \A v \in Workers : Working(v, r) => Working(v, r)'
      BY <2>3, <2>5 DEF Working
    <3> QED
      BY <2>2, <3>1, <3>2 DEF ReportStructure
  <2>6. ASSUME NEW r \in Reports, task[w] # NoTask, r = task[w].report
        PROVE  ReportStructure(r)'
    <3>1. row[r].status # "completed"
      BY <2>6 DEF EndedInv, HasTask, Working
    <3>2. CASE CompleteReport(w)
      <4>1. /\ pc[w] = "complete" /\ UNCHANGED <<sections, retries>>
            /\ Save(task[w], "completed")
        BY <3>2 DEF CompleteReport, boundVars
      <4>2. row'[r].status = "completed"
        BY <2>6, <4>1, WorkerTask, SaveRow DEF TypeInv
      <4> QED
        BY <2>2, <2>6, <4>1, <4>2 DEF WorkerStructure, ReportStructure, Late
    <3>3. CASE ~CompleteReport(w)
      <4>1. row'[r].status # "completed"
        BY <1>2, <2>6, <3>1, <3>3, WorkerSaves
      <4>2. CASE Panic(w) \/ HandleError(w)
        <5>1. pc[w] \in Early /\ UNCHANGED sections
          BY <4>2 DEF Panic, HandleError, Early, dbVars
        <5> QED
          BY <2>2, <2>6, <4>1, <5>1 DEF WorkerStructure, ReportStructure
      <4>3. CASE ~(Panic(w) \/ HandleError(w))
        <5>1. pc'[w] # "idle"
          BY <1>2, <3>3, <4>3 DEF Worker, ReceiveTask, StartReport, EnsureRepository, GenerateStructure,
                 BeginSections, SkipSection, StartSection, EndSection, SectionsDone, MergeSections, Goto,
                 TypeInv, WorkerPart
        <5>2. task'[w] # NoTask
          BY <5>1 DEF TypeInv, WorkerPart
        <5>3. ~ReceiveTask(w)
          BY <2>6 DEF ReceiveTask, TypeInv, WorkerPart
        <5>4. Working(w, r)'
          BY <1>2, <2>6, <5>2, <5>3, WorkerKeeps DEF Working
        <5> QED
          BY <4>1, <5>4 DEF ReportStructure
      <4> QED
        BY <4>2, <4>3
    <3> QED
      BY <3>2, <3>3
  <2> QED
    BY <2>4, <2>5, <2>6
<1> QED
  BY <1>1, <1>2

\* A completed report has no section left to write and, when the server has
\* not crashed, the sections of exactly one structure: no second worker, and no
\* stale retry, gets between a structure and its sections.
THEOREM CompletedWhole == Patient => (Spec => []CompletedIsWhole)
<1> SUFFICES ASSUME Patient PROVE Spec => []CompletedIsWhole
  OBVIOUS
<1>1. WholeInv /\ [Next]_vars => WholeInv'
  <2> SUFFICES ASSUME WholeInv, [Next]_vars PROVE WholeInv'
    OBVIOUS
  <2>1. ExecutionInv /\ ExecutionInv' /\ TypeInv'
    BY NextExecution DEF WholeInv, ExecutionInv
  <2> QED
    BY <2>1, NextProgress, NextStructure, NextWritten DEF WholeInv
<1>2. WholeInv => CompletedIsWhole
  <2> SUFFICES ASSUME WholeInv, NEW r \in Reports, row[r].status = "completed"
               PROVE  /\ \A i \in DOMAIN sections[r] : sections[r][i] \in {"completed", "failed"}
                      /\ crashes = 0 => Len(sections[r]) = Leaves
    BY DEF CompletedIsWhole
  <2>1. DOMAIN sections[r] = 1..Len(sections[r])
    BY DEF WholeInv, ExecutionInv, TypeInv, SectionPart
  <2>2. \A i \in 1..Len(sections[r]) : sections[r][i] \in {"completed", "failed"}
    BY DEF WholeInv, WrittenInv, Settled
  <2>3. crashes = 0 => Len(sections[r]) = Leaves
    BY DEF WholeInv, StructureInv, ReportStructure
  <2> QED
    BY <2>1, <2>2, <2>3
<1> QED
  BY <1>1, <1>2, InitWhole, PTL DEF Spec

-----------------------------------------------------------------------------
(* The ref that is read *)

\* One worker, or one ref for each repository.
Undisturbed ==
    \/ \A v, w \in Workers : v = w
    \/ \A r, s \in Reports : RepoOf[r] = RepoOf[s] => RefOf[r] = RefOf[s]

RefInv ==
    \A w \in Workers : pc[w] \in {"structure", "structured", "section", "generate"}
        => checkout[RepoOf[task[w].report]] = RefOf[task[w].report]

\* Only preparing moves the checkout, and only to the ref of the worker's report.
LEMMA NextRef ==
    ASSUME Undisturbed, TypeInv, TypeInv', RefInv, [Next]_vars
    PROVE  RefInv'
<1> USE DEF TypeInv
<1>1. CASE UNCHANGED <<pc, task, checkout>>
  BY <1>1 DEF RefInv
<1>2. CASE CrashAndRestart
  BY <1>2 DEF CrashAndRestart, RefInv
<1>3. ASSUME NEW w \in Workers, Worker(w)
      PROVE  RefInv'
  <2> SUFFICES ASSUME NEW v \in Workers, pc'[v] \in {"structure", "structured", "section", "generate"}
               PROVE  checkout'[RepoOf[task'[v].report]] = RefOf[task'[v].report]
    BY DEF RefInv
  <2>1. task'[v] \in Task /\ task'[v] # NoTask /\ task'[v].report \in Reports
    BY TaskFields DEF WorkerPart
  <2>2. ~ReceiveTask(w) => task[v] # NoTask /\ task'[v].report = task[v].report
    BY <1>3, <2>1, WorkerKeeps
  <2>3. CASE EnsureRepository(w)
    <3>1. /\ pc[w] = "prepare" /\ pc' = [pc EXCEPT ![w] = pc'[w]] /\ UNCHANGED task
          /\ \/ checkout' = [checkout EXCEPT ![RepoOf[task[w].report]] = RefOf[task[w].report]]
             \/ pc'[w] = "error" /\ UNCHANGED checkout
      BY <2>3 DEF EnsureRepository, Goto, WorkerPart
    <3>2. task[w].report \in Reports /\ RepoOf[task[w].report] \in Repos /\ RepoOf[task[v].report] \in Repos
      BY <2>1, <3>1, WorkerTask, ReportAssumption
    <3>3. v # w => pc'[v] = pc[v]
      BY <3>1 DEF WorkerPart
    <3>4. RepoOf[task[v].report] = RepoOf[task[w].report]
              => v = w \/ RefOf[task[v].report] = RefOf[task[w].report]
      BY <2>1, <3>1, <3>2 DEF Undisturbed
    <3>5. v # w => checkout[RepoOf[task[v].report]] = RefOf[task[v].report]
      BY <3>3 DEF RefInv
    <3> QED
      BY <3>1, <3>2, <3>4, <3>5 DEF RestPart
  <2>4. CASE ReceiveTask(w)
    <3>1. /\ UNCHANGED checkout
          /\ v # w /\ pc'[v] = pc[v] /\ task'[v] = task[v]
      BY <2>4 DEF ReceiveTask, Goto, WorkerPart
    <3> QED
      BY <3>1 DEF RefInv
  <2>5. CASE ~EnsureRepository(w) /\ ~ReceiveTask(w)
    <3>1. UNCHANGED checkout
      BY <1>3, <2>5 DEF Worker, StartReport, GenerateStructure, Panic, BeginSections, SkipSection,
             StartSection, EndSection, SectionsDone, MergeSections, CompleteReport, HandleError
    <3>2. pc[v] \in {"structure", "structured", "section", "generate"}
      <4>1. CASE v # w
        BY <1>3, <2>5, <4>1, WorkerKeeps
      <4>2. CASE v = w
        BY <1>3, <2>5, <4>2 DEF Worker, StartReport, GenerateStructure, Panic, BeginSections, SkipSection,
               StartSection, EndSection, SectionsDone, MergeSections, CompleteReport, HandleError,
               Goto, Drop, WorkerPart
      <4> QED
        BY <4>1, <4>2
    <3> QED
      BY <2>2, <2>5, <3>1, <3>2 DEF RefInv
  <2> QED
    BY <2>3, <2>4, <2>5
<1> QED
  BY <1>1, <1>2, <1>3 DEF Next, Client, SubmitReport, RejectReport, RequestPanics, RetrySave, RetrySubmit,
     RetryRejected, CreateReport, RetryReport, CancelReport, Recovery, RecoverReport, GiveUpReport,
     StopEngine, vars, workerVars

\* What the agents read is the ref of their report, when one worker runs, or
\* when no two refs of one repository are reported on.  With neither, a report
\* moves the directory under another one.
THEOREM RefIsRight == Undisturbed => (Spec => []RightRef)
<1> SUFFICES ASSUME Undisturbed PROVE Spec => []RightRef
  OBVIOUS
<1>1. Init => TypeInv /\ RefInv
  BY InitTyped DEF Init, RefInv
<1>2. TypeInv /\ RefInv /\ [Next]_vars => TypeInv' /\ RefInv'
  BY NextTyped, NextRef
<1>3. RefInv => RightRef
  BY DEF RefInv, RightRef
<1> QED
  BY <1>1, <1>2, <1>3, PTL DEF Spec

-----------------------------------------------------------------------------
(* Pending reports *)

Covered(r) ==
    \/ \E i \in 1..Len(queue) : queue[i].report = r
    \/ \E w \in Workers : Working(w, r) /\ pc[w] = "start"
    \/ \E c \in Clients : Requested(c, r) /\ request[c] = "created"
    \/ r \in recovering
    \/ stopping

PendingInv ==
    \A r \in Reports : row[r].status = "pending" /\ row[r].retries = 0 => Covered(r)

\* The steps of the workers leave no pending report uncovered.
LEMMA WorkerPending ==
    ASSUME TypeInv, PendingInv, NEW w \in Workers, Worker(w)
    PROVE  PendingInv'
<1> USE DEF TypeInv
<1> SUFFICES ASSUME NEW r \in Reports, row'[r].status = "pending", row'[r].retries = 0
             PROVE  Covered(r)'
  BY DEF PendingInv
<1>1. row'[r] = row[r] /\ Covered(r)
  BY WorkerSaves DEF PendingInv
<1>2. CASE ReceiveTask(w)
  <2>1. /\ queue # <<>> /\ queue' = Tail(queue) /\ pc[w] = "idle"
        /\ task' = [task EXCEPT ![w] = Head(queue)] /\ pc' = [pc EXCEPT ![w] = "start"]
        /\ UNCHANGED <<request, object, recovering, stopping, retries>>
    BY <1>2 DEF ReceiveTask, Goto, clientVars, procVars, boundVars
  <2>2. /\ Head(queue) = queue[1] /\ queue[1] \in Task
        /\ \A i \in 1..Len(queue) : i = 1 \/ (i - 1 \in 1..Len(queue') /\ queue'[i - 1] = queue[i])
    BY <2>1, ReceiveQueue
  <2>3. /\ task'[w] = queue[1] /\ pc'[w] = "start" /\ task'[w] # NoTask
        /\ \A v \in Workers : v # w => task'[v] = task[v] /\ pc'[v] = pc[v]
    BY <2>1, <2>2, TaskFields DEF WorkerPart
  <2>4. CASE \E i \in 1..Len(queue) : queue[i].report = r
    BY <2>2, <2>3, <2>4 DEF Covered, Working
  <2>5. CASE \E v \in Workers : Working(v, r) /\ pc[v] = "start"
    BY <2>1, <2>3, <2>5 DEF Covered, Working
  <2> QED
    BY <1>1, <2>1, <2>4, <2>5 DEF Covered, Requested
<1>3. CASE ~ReceiveTask(w)
  <2>1. /\ UNCHANGED <<queue, request, object, recovering, stopping, retries>>
        /\ \A v \in Workers : v # w => task'[v] = task[v] /\ pc'[v] = pc[v]
    BY <1>3, WorkerKeeps
  <2>2. ~(Working(w, r) /\ pc[w] = "start")
    <3> SUFFICES ASSUME Working(w, r), pc[w] = "start" PROVE FALSE
      OBVIOUS
    <3>1. StartReport(w)
      BY DEF Worker, ReceiveTask, EnsureRepository, GenerateStructure, Panic, BeginSections, SkipSection,
             StartSection, EndSection, SectionsDone, MergeSections, CompleteReport, HandleError
    <3>2. /\ Save(task'[w], "analyzing")
          /\ task' = [task EXCEPT ![w] = [task[w] EXCEPT !.started = TRUE]]
      BY <3>1 DEF StartReport
    <3>3. task'[w].report = r
      BY <3>2, WorkerTask DEF Working, WorkerPart, Task
    <3>4. row'[r].status = "analyzing"
      BY <3>2, <3>3 DEF Save, RowPart
    <3> QED
      BY <3>4
  <2> QED
    BY <1>1, <2>1, <2>2 DEF Covered, Working, Requested
<1> QED
  BY <1>2, <1>3

\* So do those of the requests.
LEMMA ClientPending ==
    ASSUME TypeInv, PendingInv, NEW c \in Clients, Client(c)
    PROVE  PendingInv'
<1> USE DEF TypeInv
<1> SUFFICES ASSUME NEW r \in Reports, row'[r].status = "pending", row'[r].retries = 0
             PROVE  Covered(r)'
  BY DEF PendingInv
<1>1. /\ UNCHANGED <<pc, task, recovering, stopping, retries>> /\ request[c] # "idle"
  BY DEF Client, SubmitReport, RejectReport, RequestPanics, RetrySave, RetrySubmit, RetryRejected,
         workerVars, procVars, boundVars
<1>2. object[c] \in Task /\ object[c].report \in Reports /\ object[c].retries \in Nat
      /\ object[c].retries <= retries /\ object[c] # NoTask
  BY <1>1, ClientTask, TaskFields
<1>3. \A d \in Clients : d # c => request'[d] = request[d] /\ object'[d] = object[d]
  BY DEF Client, SubmitReport, RejectReport, RequestPanics, RetrySave, RetrySubmit, RetryRejected,
         Answer, ClientPart
<1>4. CASE RetrySave(c)
  <2>1. /\ object' = [object EXCEPT ![c] = [object[c] EXCEPT !.retries = object[c].retries + 1]]
        /\ Save(object'[c], "pending") /\ request[c] = "loaded" /\ UNCHANGED queue
    BY <1>4 DEF RetrySave
  <2>2. object'[c].report = object[c].report /\ object'[c].retries = object[c].retries + 1
    BY <1>2, <2>1 DEF ClientPart, Task
  <2>3. object[c].retries + 1 # 0
    BY <1>2
  <2>4. row'[r] = row[r]
    BY <2>1, <2>2, <2>3 DEF Save, RowPart, Row
  <2> QED
    BY <1>1, <1>3, <2>1, <2>4 DEF Covered, PendingInv, Working, Requested
<1>5. CASE SubmitReport(c) \/ RetrySubmit(c)
  <2>1. Enqueue(object[c]) /\ UNCHANGED row
    BY <1>5 DEF SubmitReport, RetrySubmit, dbVars
  <2>2. /\ queue'[Len(queue) + 1] = object[c] /\ Len(queue) + 1 \in 1..Len(queue')
        /\ \A i \in 1..Len(queue) : queue'[i] = queue[i] /\ i \in 1..Len(queue')
    BY <1>1, <1>2, <2>1, EnqueueQueue
  <2> QED
    BY <1>1, <1>3, <2>1, <2>2 DEF Covered, PendingInv, Working, Requested
<1>6. CASE RejectReport(c)
  <2>1. SetStatus(object[c].report, "failed") /\ UNCHANGED queue
    BY <1>6 DEF RejectReport
  <2>2. r # object[c].report /\ row'[r] = row[r]
    BY <2>1 DEF SetStatus, RowPart, Row
  <2> QED
    BY <1>1, <1>3, <2>1, <2>2 DEF Covered, PendingInv, Working, Requested
<1>7. CASE RetryRejected(c)
  BY <1>1, <1>3, <1>7 DEF RetryRejected, Covered, PendingInv, Working, Requested, dbVars
<1>8. CASE RequestPanics(c)
  BY <1>1, <1>8 DEF RequestPanics, Covered
<1> QED
  BY <1>4, <1>5, <1>6, <1>7, <1>8 DEF Client

\* And every step.
LEMMA NextPending ==
    ASSUME TypeInv, PendingInv, [Next]_vars
    PROVE  PendingInv'
<1> USE DEF TypeInv
<1>1. ASSUME NEW c \in Clients, NEW s \in Reports, CreateReport(c, s)
      PROVE  PendingInv'
  <2>1. /\ SetStatus(s, "pending") /\ UNCHANGED <<queue, pc, task, recovering, stopping, retries>>
        /\ request[c] = "idle"
        /\ request' = [request EXCEPT ![c] = "created"] /\ object' = [object EXCEPT ![c] = TaskOf(s)]
    BY <1>1 DEF CreateReport, Accept, workerVars, procVars, boundVars
  <2>2. /\ object'[c] = TaskOf(s) /\ request'[c] = "created"
        /\ \A d \in Clients : d # c => request'[d] = request[d] /\ object'[d] = object[d]
    BY <2>1 DEF ClientPart
  <2>3. Covered(s)'
    BY <2>2, TaskOfRow DEF Covered, Requested
  <2>4. \A q \in Reports : q # s => row'[q] = row[q]
    BY <2>1, SetStatusRow
  <2> QED
    BY <2>1, <2>2, <2>3, <2>4 DEF PendingInv, Covered, Working, Requested
<1>2. ASSUME NEW c \in Clients, NEW s \in Reports, RetryReport(c, s)
      PROVE  PendingInv'
  <2>1. /\ UNCHANGED <<row, queue, pc, task, recovering, stopping>>
        /\ request[c] = "idle"
        /\ \A d \in Clients : d # c => request'[d] = request[d] /\ object'[d] = object[d]
    BY <1>2 DEF RetryReport, Accept, ClientPart, dbVars, workerVars, procVars
  <2> QED
    BY <2>1 DEF PendingInv, Covered, Working, Requested
<1>3. ASSUME NEW s \in Reports, CancelReport(s)
      PROVE  PendingInv'
  <2>1. SetStatus(s, "cancelled") /\ UNCHANGED <<queue, pc, task, request, object, recovering, stopping, retries>>
    BY <1>3 DEF CancelReport, workerVars, clientVars, procVars, boundVars
  <2>2. row'[s].status = "cancelled" /\ \A q \in Reports : q # s => row'[q] = row[q]
    BY <2>1, SetStatusRow
  <2> QED
    BY <2>1, <2>2 DEF PendingInv, Covered, Working, Requested
<1>4. CASE Recovery
  <2>1. PICK s \in recovering :
            /\ recovering' = recovering \ {s}
            /\ \/ Enqueue(TaskOf(s)) /\ UNCHANGED row
               \/ SetStatus(s, "failed") /\ UNCHANGED queue
    BY <1>4 DEF Recovery, RecoverReport, GiveUpReport, dbVars
  <2>2. UNCHANGED <<pc, task, request, object, stopping, retries>>
    BY <1>4 DEF Recovery, RecoverReport, GiveUpReport, workerVars, clientVars, boundVars
  <2>3. s \in Reports /\ TaskOf(s) \in Task /\ TaskOf(s).report = s /\ TaskOf(s).retries <= retries
    BY TaskOfRow DEF RestPart
  <2>4. CASE Enqueue(TaskOf(s)) /\ UNCHANGED row
    <3>1. /\ queue'[Len(queue) + 1] = TaskOf(s) /\ Len(queue) + 1 \in 1..Len(queue')
          /\ \A i \in 1..Len(queue) : queue'[i] = queue[i] /\ i \in 1..Len(queue')
      BY <2>2, <2>3, <2>4, EnqueueQueue
    <3> QED
      BY <2>1, <2>2, <2>3, <2>4, <3>1 DEF PendingInv, Covered, Working, Requested
  <2>5. CASE SetStatus(s, "failed") /\ UNCHANGED queue
    <3>1. row'[s].status = "failed" /\ \A q \in Reports : q # s => row'[q] = row[q]
      BY <2>2, <2>3, <2>5, SetStatusRow
    <3> QED
      BY <2>1, <2>2, <2>5, <3>1 DEF PendingInv, Covered, Working, Requested
  <2> QED
    BY <2>1, <2>4, <2>5
<1>5. CASE StopEngine
  BY <1>5 DEF StopEngine, PendingInv, Covered
<1>6. CASE CrashAndRestart
  BY <1>6 DEF CrashAndRestart, PendingInv, Covered, dbVars
<1>7. CASE UNCHANGED vars
  BY <1>7 DEF PendingInv, Covered, Working, Requested, vars, dbVars, workerVars, clientVars, procVars
<1> QED
  BY <1>1, <1>2, <1>3, <1>4, <1>5, <1>6, <1>7, WorkerPending, ClientPending DEF Next

\* A report that was created is not forgotten: until it is started, failed or
\* cancelled, somebody holds it, whatever the capacity of the queue and whenever
\* the server stops or crashes.  Only a retry can leave a report behind.
THEOREM NoReportForgotten == Spec => []PendingHeld
<1>1. Init => TypeInv /\ PendingInv
  BY InitTyped DEF Init, PendingInv
<1>2. TypeInv /\ PendingInv /\ [Next]_vars => TypeInv' /\ PendingInv'
  BY NextTyped, NextPending
<1>3. TypeInv /\ PendingInv => PendingHeld
  <2> SUFFICES ASSUME QueuePart, NEW r \in Reports, Covered(r) PROVE Held(r)
    BY DEF TypeInv, PendingInv, PendingHeld
  <2> QED
    BY HasTaskMeans DEF Covered, Held, HasTask, Working, Requested
<1> QED
  BY <1>1, <1>2, <1>3, PTL DEF Spec
=============================================================================
