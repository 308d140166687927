---------------------------- MODULE IntakeProofs ----------------------------
(***************************************************************************)
(* Theorems about what is reviewed, where and by which rules: WebhookIntake *)
(* for every set of deliveries and any number of requests at a time, and,  *)
(* of IntakeSpec, GitWorkspace, ReviewConfigs and Migrations, for all      *)
(* repositories, administrators, files, databases and bounds.              *)
(***************************************************************************)
EXTENDS Intake, SequenceTheorems, FiniteSetTheorems, WellFoundedInduction, TLAPS

-----------------------------------------------------------------------------
(* Least and greatest elements *)

LEMMA MinIs ==
    ASSUME NEW S \in SUBSET Nat, S # {}
    PROVE  Min(S) \in S /\ \A y \in S : Min(S) <= y
<1> DEFINE R == {ss \in Nat \X Nat : ss[1] < ss[2]}
<1>1. IsWellFoundedOn(R, Nat)
  BY NatLessThanWellFounded DEF OpToRel
<1>2. \A x, y \in Nat : <<x, y>> \in R <=> x < y
  OBVIOUS
<1> HIDE DEF R
<1>3. PICK x \in S : \A y \in S : ~(<<y, x>> \in R)
  BY <1>1, WFMin
<1>4. \A y \in S : x <= y
  <2> SUFFICES ASSUME NEW y \in S PROVE x <= y
    OBVIOUS
  <2>1. x \in Nat /\ y \in Nat
    OBVIOUS
  <2>2. <<y, x>> \in R <=> y < x
    BY <1>2, <2>1
  <2>3. ~(y < x)
    BY <1>3, <2>2
  <2> QED
    BY <2>1, <2>3
<1> QED
  BY <1>3, <1>4 DEF Min

LEMMA MaxIs ==
    ASSUME NEW n \in Nat, NEW S \in SUBSET (0..n), S # {}
    PROVE  Max(S) \in S /\ \A y \in S : y <= Max(S)
<1> DEFINE T == {n - x : x \in S}
<1>1. T \in SUBSET Nat /\ T # {}
  <2>1. \A x \in S : n - x \in Nat
    OBVIOUS
  <2> QED
    BY <2>1
<1>2. Min(T) \in T /\ \A y \in T : Min(T) <= y
  BY <1>1, MinIs
<1>3. PICK x \in S : Min(T) = n - x
  BY <1>2
<1>4. \A y \in S : n - x <= n - y
  BY <1>2, <1>3
<1>5. \A y \in S : x >= y
  BY <1>4
<1> QED
  BY <1>3, <1>5 DEF Max

-----------------------------------------------------------------------------
(* Typing *)

AllSteps == {"lookup", "revision", "create", "conflict", "submit", "merge"}
AllAnswers == {"unsupported", "no url", "skipped", "exists", "not created", "triggered", "not submitted",
               "merged", "not merged"}
URLs == {NoURL} \cup {PRURL(e) : e \in Events}
RowType == [repo : {e.repo : e \in Events}, pr : Nat, url : URLs, commit : {e.commit : e \in Events},
            rev : Nat \ {0}, status : {"pending", "queued", "failed"}]
Busy == [pc : AllSteps, event : Events, rev : Nat \ {0}, row : Nat \cup {None}]
AnswerType == [event : Events, answer : AllAnswers, row : Nat \cup {None}]

\* Revisions are counted among the rows there are, so none is beyond them; a
\* row that is submitted is there.
RevInv ==
    /\ \A i \in DOMAIN rows : rows[i].rev <= i
    /\ \A s \in Slots : ~At(s, "idle") => request[s].rev <= Len(rows) + 1
    /\ \A s \in Slots : At(s, "submit") => request[s].row \in DOMAIN rows

TypeInv ==
    /\ rows \in Seq(RowType) /\ Len(rows) <= MaxRows
    /\ configs \subseteq {e.repo : e \in Events}
    /\ merged \subseteq DOMAIN rows
    /\ request \in [Slots -> Busy \cup {Idle}]
    /\ answers \in Seq(AnswerType)
    /\ faults \in 0..MaxFaults
    /\ RevInv

LEMMA RowIs ==
    ASSUME TypeInv, NEW i \in DOMAIN rows
    PROVE  rows[i] \in RowType /\ i \in 1..Len(rows) /\ Len(rows) \in Nat
  BY DEF TypeInv

LEMMA BusyIs ==
    ASSUME TypeInv, NEW s \in Slots, ~At(s, "idle")
    PROVE  request[s] \in Busy
  BY DEF TypeInv, At, Idle

LEMMA IdleThere ==
    ASSUME NEW s \in Slots, request'[s] = Idle, \A t \in Slots : t # s => request'[t] = request[t]
    PROVE  \A t \in Slots : At(t, "idle")' \/ request'[t] = request[t]
  BY DEF At, Idle

LEMMA Answered ==
    ASSUME TypeInv, NEW s \in Slots, NEW a \in AllAnswers, NEW i \in Nat \cup {None}, ~At(s, "idle"), Answer(s, a, i)
    PROVE  /\ request' \in [Slots -> Busy \cup {Idle}] /\ request'[s] = Idle
           /\ \A t \in Slots : t # s => request'[t] = request[t]
           /\ answers' \in Seq(AnswerType) /\ Len(answers') = Len(answers) + 1
           /\ \A n \in DOMAIN answers : n \in DOMAIN answers' /\ answers'[n] = answers[n]
           /\ DOMAIN answers' = DOMAIN answers \cup {Len(answers')}
           /\ Len(answers') \notin DOMAIN answers
           /\ answers'[Len(answers')].event = request[s].event
           /\ answers'[Len(answers')].answer = a /\ answers'[Len(answers')].row = i
<1>1. request[s] \in Busy
  BY BusyIs
<1>2. [event |-> request[s].event, answer |-> a, row |-> i] \in AnswerType
  BY <1>1 DEF Busy, AnswerType
<1>3. /\ request' \in [Slots -> Busy \cup {Idle}] /\ request'[s] = Idle
      /\ \A t \in Slots : t # s => request'[t] = request[t]
  BY DEF Answer, TypeInv
<1>4. answers \in Seq(AnswerType) /\ answers' = Append(answers, [event |-> request[s].event, answer |-> a, row |-> i])
  BY DEF Answer, TypeInv
<1>5. PICK x \in AnswerType : /\ x = [event |-> request[s].event, answer |-> a, row |-> i]
                              /\ x.event = request[s].event /\ x.answer = a /\ x.row = i
  BY <1>2
<1>6. /\ answers' \in Seq(AnswerType) /\ Len(answers') = Len(answers) + 1
      /\ \A n \in DOMAIN answers : n \in DOMAIN answers' /\ answers'[n] = answers[n]
      /\ DOMAIN answers' = DOMAIN answers \cup {Len(answers')}
      /\ Len(answers') \notin DOMAIN answers
      /\ answers'[Len(answers')] = x
  <2>1. answers' = Append(answers, x) /\ answers \in Seq(AnswerType)
    BY <1>4, <1>5
  <2> QED
    BY <2>1
<1>7. /\ answers'[Len(answers')].event = request[s].event
      /\ answers'[Len(answers')].answer = a /\ answers'[Len(answers')].row = i
  BY <1>5, <1>6
<1> QED
  BY <1>3, <1>6, <1>7

LEMMA Continued ==
    ASSUME TypeInv, NEW s \in Slots, NEW r \in Busy, Continue(s, r)
    PROVE  /\ request' \in [Slots -> Busy \cup {Idle}] /\ request'[s] = r
           /\ \A t \in Slots : t # s => request'[t] = request[t]
           /\ UNCHANGED answers
  BY DEF TypeInv, Continue

LEMMA SameIs ==
    ASSUME TypeInv, NEW url, NEW commit, Same(url, commit) # {}
    PROVE  /\ Min(Same(url, commit)) \in Nat \cap DOMAIN rows
           /\ rows[Min(Same(url, commit))].url = url /\ rows[Min(Same(url, commit))].commit = commit
<1>1. Same(url, commit) \in SUBSET Nat
  BY DEF TypeInv, Same
<1>2. Min(Same(url, commit)) \in Same(url, commit)
  BY <1>1, MinIs
<1> QED
  BY <1>1, <1>2 DEF Same

LEMMA RevisionIs ==
    ASSUME TypeInv, NEW url
    PROVE  MaxRevision(url) \in 0..Len(rows)
<1> DEFINE S == {0} \cup {rows[i].rev : i \in {i \in DOMAIN rows : rows[i].url = url}}
<1>1. \A i \in DOMAIN rows : rows[i].rev \in 0..Len(rows)
  <2> SUFFICES ASSUME NEW i \in DOMAIN rows PROVE rows[i].rev \in 0..Len(rows)
    OBVIOUS
  <2>1. rows[i].rev \in Nat /\ i \in 1..Len(rows) /\ Len(rows) \in Nat
    BY RowIs DEF RowType
  <2>2. rows[i].rev <= i
    BY DEF TypeInv, RevInv
  <2> QED
    BY <2>1, <2>2
<1>2. S \in SUBSET (0..Len(rows)) /\ S # {} /\ Len(rows) \in Nat
  BY <1>1 DEF TypeInv
<1>3. Max(S) \in S
  BY <1>2, MaxIs
<1> QED
  BY <1>2, <1>3 DEF MaxRevision

LEMMA BusyWith ==
    ASSUME NEW r \in Busy, NEW step \in AllSteps
    PROVE  /\ [r EXCEPT !.pc = step] \in Busy
           /\ [r EXCEPT !.pc = step].pc = step /\ [r EXCEPT !.pc = step].event = r.event
           /\ [r EXCEPT !.pc = step].rev = r.rev
  BY DEF Busy

LEMMA BusyWithRev ==
    ASSUME NEW r \in Busy, NEW n \in Nat \ {0}
    PROVE  /\ [r EXCEPT !.rev = n] \in Busy
           /\ [r EXCEPT !.rev = n].pc = r.pc /\ [r EXCEPT !.rev = n].event = r.event
           /\ [r EXCEPT !.rev = n].rev = n
  BY DEF Busy

LEMMA BusyWithRow ==
    ASSUME NEW r \in Busy, NEW i \in Nat
    PROVE  /\ [r EXCEPT !.row = i] \in Busy
           /\ [r EXCEPT !.row = i].pc = r.pc /\ [r EXCEPT !.row = i].event = r.event
           /\ [r EXCEPT !.row = i].rev = r.rev /\ [r EXCEPT !.row = i].row = i
  BY DEF Busy

\* A request that goes on, or is answered, while the rows stay.
LEMMA ContinueTyped ==
    ASSUME TypeInv, NEW s \in Slots, NEW r \in Busy, Continue(s, r), r.rev <= Len(rows) + 1, r.pc # "submit",
           UNCHANGED <<rows, configs, merged>>, faults' \in 0..MaxFaults
    PROVE  TypeInv'
<1>1. /\ request' \in [Slots -> Busy \cup {Idle}] /\ request'[s] = r
      /\ \A t \in Slots : t # s => request'[t] = request[t]
      /\ UNCHANGED answers
  BY Continued
<1>2. RevInv'
  BY <1>1 DEF TypeInv, RevInv, At
<1> QED
  BY <1>1, <1>2 DEF TypeInv

LEMMA AnswerTyped ==
    ASSUME TypeInv, NEW s \in Slots, NEW a \in AllAnswers, NEW i \in Nat \cup {None}, ~At(s, "idle"), Answer(s, a, i),
           UNCHANGED <<rows, configs>>, merged' \subseteq DOMAIN rows, faults' \in 0..MaxFaults
    PROVE  TypeInv'
<1>1. /\ request' \in [Slots -> Busy \cup {Idle}] /\ request'[s] = Idle
      /\ \A t \in Slots : t # s => request'[t] = request[t]
      /\ answers' \in Seq(AnswerType)
  BY Answered
<1>2. \A t \in Slots : At(t, "idle")' \/ request'[t] = request[t]
  BY <1>1, IdleThere
<1>3. \A t \in Slots : At(t, "idle")' => ~At(t, "submit")'
  BY DEF At
<1>4. RevInv'
  BY <1>2, <1>3 DEF TypeInv, RevInv, At
<1> QED
  BY <1>1, <1>4 DEF TypeInv

LEMMA StatusSet ==
    ASSUME TypeInv, NEW i \in DOMAIN rows, NEW st \in {"queued", "failed"}, rows' = [rows EXCEPT ![i].status = st]
    PROVE  /\ rows' \in Seq(RowType) /\ Len(rows') = Len(rows) /\ DOMAIN rows' = DOMAIN rows
           /\ \A j \in DOMAIN rows : /\ rows'[j].rev = rows[j].rev /\ rows'[j].url = rows[j].url
                                     /\ rows'[j].repo = rows[j].repo /\ rows'[j].pr = rows[j].pr
                                     /\ rows'[j].commit = rows[j].commit
<1> DEFINE x == [rows[i] EXCEPT !.status = st]
<1>1. rows[i] \in RowType /\ i \in 1..Len(rows)
  BY RowIs
<1>2. /\ x \in RowType /\ x.rev = rows[i].rev /\ x.url = rows[i].url
      /\ x.repo = rows[i].repo /\ x.pr = rows[i].pr /\ x.commit = rows[i].commit
  BY <1>1 DEF RowType
<1>3. rows' = [rows EXCEPT ![i] = x] /\ rows \in Seq(RowType)
  BY DEF TypeInv
<1> HIDE DEF x
<1>4. /\ rows' \in Seq(RowType) /\ Len(rows') = Len(rows)
      /\ \A j \in 1..Len(rows) : rows'[j] = IF j = i THEN x ELSE rows[j]
  BY <1>1, <1>2, <1>3, ExceptSeq
<1>5. DOMAIN rows = 1..Len(rows) /\ DOMAIN rows' = 1..Len(rows)
  BY <1>3, <1>4
<1> QED
  BY <1>2, <1>4, <1>5

LEMMA FaultIs == ASSUME TypeInv, Fault PROVE faults' \in 0..MaxFaults
  BY IntakeAssumption DEF TypeInv, Fault

LEMMA ReceiveTyped ==
    ASSUME TypeInv, NEW s \in Slots, NEW e \in Events, Receive(s, e)
    PROVE  TypeInv'
<1>1. UNCHANGED <<rows, configs, merged, faults>>
  BY DEF Receive
<1>2. ASSUME NEW w \in AllAnswers, UNCHANGED request,
             answers' = Append(answers, [event |-> e, answer |-> w, row |-> None])
      PROVE  TypeInv'
  <2>1. [event |-> e, answer |-> w, row |-> None] \in AnswerType
    BY DEF AnswerType
  <2>2. answers' \in Seq(AnswerType)
    BY <1>2, <2>1 DEF TypeInv
  <2>3. RevInv'
    BY <1>1, <1>2 DEF TypeInv, RevInv, At
  <2> QED
    BY <1>1, <1>2, <2>2, <2>3 DEF TypeInv
<1>3. ASSUME NEW step \in AllSteps, step # "submit", Continue(s, [pc |-> step, event |-> e, rev |-> 1, row |-> None])
      PROVE  TypeInv'
  <2>1. [pc |-> step, event |-> e, rev |-> 1, row |-> None] \in Busy
    BY DEF Busy
  <2>2. 1 <= Len(rows) + 1
    BY DEF TypeInv
  <2> QED
    BY <1>1, <1>3, <2>1, <2>2, ContinueTyped DEF TypeInv
<1>4. \/ \E w \in AllAnswers : UNCHANGED request /\ answers' = Append(answers, [event |-> e, answer |-> w, row |-> None])
      \/ \E step \in AllSteps \ {"submit"} : Continue(s, [pc |-> step, event |-> e, rev |-> 1, row |-> None])
  BY DEF Receive, AllAnswers, AllSteps
<1> QED
  BY <1>2, <1>3, <1>4

LEMMA ServeTyped ==
    ASSUME TypeInv, NEW s \in Slots, Serve(s)
    PROVE  TypeInv'
<1> DEFINE r == request[s]
           e == request[s].event
<1>1. ~At(s, "idle") /\ r \in Busy /\ e \in Events /\ r.rev <= Len(rows) + 1
  <2>1. ~At(s, "idle")
    BY DEF Serve, Lookup, CountRevision, CreateRow, FindExisting, Submit, Merge, At
  <2> QED
    BY <2>1, BusyIs DEF TypeInv, RevInv, Busy
<1>2. \A step \in AllSteps : [r EXCEPT !.pc = step] \in Busy /\ [r EXCEPT !.pc = step].rev = r.rev /\ [r EXCEPT !.pc = step].pc = step
  BY <1>1, BusyWith
<1>3. faults \in 0..MaxFaults
  BY DEF TypeInv
<1>4. CASE Lookup(s)
  <2> DEFINE url == PRURL(e)
             step == IF IsPRUpdateEvent(Parse(e).action) THEN "revision" ELSE "create"
  <2>1. \/ Same(url, e.commit) # {} /\ Answer(s, "exists", Min(Same(url, e.commit))) /\ UNCHANGED faults
        \/ Continue(s, [r EXCEPT !.pc = step]) /\ (UNCHANGED faults \/ Fault)
    BY <1>4 DEF Lookup
  <2>2. UNCHANGED <<rows, configs, merged>>
    BY <1>4 DEF Lookup
  <2>3. step \in AllSteps /\ step # "submit"
    BY DEF AllSteps
  <2>4. Same(url, e.commit) # {} => Min(Same(url, e.commit)) \in Nat
    BY SameIs
  <2>5. merged \subseteq DOMAIN rows /\ "exists" \in AllAnswers
    BY DEF TypeInv, AllAnswers
  <2> HIDE DEF step
  <2> QED
    BY <1>1, <1>2, <1>3, <2>1, <2>2, <2>3, <2>4, <2>5, AnswerTyped, ContinueTyped, FaultIs
<1>5. CASE CountRevision(s)
  <2>1. /\ \/ Continue(s, [r EXCEPT !.pc = "create", !.rev = MaxRevision(PRURL(e)) + 1]) /\ UNCHANGED faults
           \/ Fault /\ Continue(s, [r EXCEPT !.pc = "create"])
        /\ UNCHANGED <<rows, configs, merged>>
    BY <1>5 DEF CountRevision
  <2>2. MaxRevision(PRURL(e)) \in 0..Len(rows) /\ Len(rows) \in Nat
    BY RevisionIs DEF TypeInv
  <2> DEFINE q == [r EXCEPT !.pc = "create", !.rev = MaxRevision(PRURL(e)) + 1]
  <2>4. "create" \in AllSteps
    BY DEF AllSteps
  <2>3. q \in Busy /\ q.rev <= Len(rows) + 1 /\ q.pc # "submit"
    <3>1. MaxRevision(PRURL(e)) + 1 \in Nat \ {0} /\ MaxRevision(PRURL(e)) + 1 <= Len(rows) + 1
      BY <2>2
    <3>2. [r EXCEPT !.pc = "create"] \in Busy /\ [r EXCEPT !.pc = "create"].pc = "create"
      BY <1>1, <2>4, BusyWith
    <3> QED
      BY <3>1, <3>2, BusyWithRev
  <2> HIDE DEF q
  <2>5. CASE Continue(s, q) /\ UNCHANGED faults
    BY <1>3, <2>1, <2>3, <2>5, ContinueTyped
  <2>6. CASE Fault /\ Continue(s, [r EXCEPT !.pc = "create"])
    BY <1>1, <1>2, <2>1, <2>4, <2>6, ContinueTyped, FaultIs
  <2> QED
    BY <2>1, <2>5, <2>6 DEF q
<1>6. CASE FindExisting(s)
  <2>1. /\ \/ Same(PRURL(e), e.commit) # {} /\ Answer(s, "exists", Min(Same(PRURL(e), e.commit))) /\ UNCHANGED faults
           \/ Fault /\ Answer(s, "not created", None)
        /\ UNCHANGED <<rows, configs, merged>>
    BY <1>6 DEF FindExisting
  <2>2. Same(PRURL(e), e.commit) # {} => Min(Same(PRURL(e), e.commit)) \in Nat
    BY SameIs
  <2>3. merged \subseteq DOMAIN rows /\ "exists" \in AllAnswers /\ "not created" \in AllAnswers
    BY DEF TypeInv, AllAnswers
  <2> QED
    BY <1>1, <1>3, <2>1, <2>2, <2>3, AnswerTyped, FaultIs
<1>7. CASE Merge(s)
  <2>1. /\ \/ /\ merged' = merged \cup {i \in DOMAIN rows : rows[i].url = PRURL(e)}
              /\ Answer(s, "merged", None) /\ UNCHANGED faults
           \/ Fault /\ Answer(s, "not merged", None) /\ UNCHANGED merged
        /\ UNCHANGED <<rows, configs>>
    BY <1>7 DEF Merge
  <2>2. merged' \subseteq DOMAIN rows /\ "merged" \in AllAnswers /\ "not merged" \in AllAnswers
    BY <2>1 DEF TypeInv, AllAnswers
  <2> QED
    BY <1>1, <1>3, <2>1, <2>2, AnswerTyped, FaultIs
<1>8. CASE CreateRow(s)
  <2> DEFINE url == IF Parse(e).kind = "push" THEN NoURL ELSE PRURL(e)
             row == [repo |-> e.repo, pr |-> e.pr, url |-> url, commit |-> e.commit, rev |-> r.rev, status |-> "pending"]
  <2>1. UNCHANGED merged /\ merged \subseteq DOMAIN rows /\ {"create", "conflict", "submit"} \subseteq AllSteps
        /\ "not created" \in AllAnswers
    BY <1>8 DEF CreateRow, TypeInv, AllSteps, AllAnswers
  <2>2. CASE /\ Len(rows) < MaxRows /\ rows' = Append(rows, row)
             /\ Continue(s, [r EXCEPT !.pc = "submit", !.row = Len(rows) + 1])
             /\ configs' = configs \cup {e.repo} /\ UNCHANGED faults
    <3> DEFINE q == [r EXCEPT !.pc = "submit", !.row = Len(rows) + 1]
    <3>1. Len(rows) \in Nat /\ MaxRows \in Nat
      BY IntakeAssumption DEF TypeInv
    <3>2. q \in Busy /\ q.rev = r.rev /\ q.row = Len(rows) + 1
      <4>1. [r EXCEPT !.pc = "submit"] \in Busy /\ [r EXCEPT !.pc = "submit"].rev = r.rev
        BY <1>1, <2>1, BusyWith
      <4>2. Len(rows) + 1 \in Nat
        BY <3>1
      <4> QED
        BY <4>1, <4>2, BusyWithRow
    <3>3. url \in URLs
      BY <1>1 DEF URLs
    <3>4. row \in RowType /\ row.rev = r.rev
      BY <1>1, <3>3, IntakeAssumption DEF RowType, Busy
    <3> HIDE DEF q, row
    <3>5. /\ request' \in [Slots -> Busy \cup {Idle}] /\ request'[s] = q
          /\ \A t \in Slots : t # s => request'[t] = request[t]
          /\ UNCHANGED answers
      BY <2>2, <3>2, Continued DEF q
    <3>6. /\ rows' \in Seq(RowType) /\ Len(rows') = Len(rows) + 1
          /\ DOMAIN rows' = DOMAIN rows \cup {Len(rows) + 1}
          /\ \A i \in DOMAIN rows : rows'[i] = rows[i]
          /\ rows'[Len(rows) + 1] = row
      BY <2>2, <3>4 DEF TypeInv
    <3>7. \A i \in DOMAIN rows' : rows'[i].rev <= i
      BY <1>1, <3>4, <3>6 DEF TypeInv, RevInv
    <3>8. ASSUME NEW t \in Slots, ~At(t, "idle")'
          PROVE  request'[t].rev <= Len(rows') + 1 /\ (At(t, "submit")' => request'[t].row \in DOMAIN rows')
      <4>1. CASE t = s
        BY <1>1, <3>1, <3>2, <3>5, <3>6, <4>1 DEF Busy
      <4>2. CASE t # s
        <5>1. request'[t] = request[t] /\ ~At(t, "idle") /\ (At(t, "submit")' => At(t, "submit"))
          BY <3>5, <3>8, <4>2 DEF At
        <5>2. request[t].rev \in Nat
          BY <5>1, BusyIs DEF Busy
        <5> QED
          BY <3>1, <3>6, <5>1, <5>2 DEF TypeInv, RevInv
      <4> QED
        BY <4>1, <4>2
    <3>9. RevInv'
      BY <3>7, <3>8 DEF RevInv, At
    <3>10. configs' \subseteq {f.repo : f \in Events}
      BY <1>1, <2>2 DEF TypeInv
    <3>11. UNCHANGED faults /\ Len(rows) < MaxRows
      BY <2>2
    <3>12. merged' \subseteq DOMAIN rows' /\ Len(rows') <= MaxRows
      <4>1. Len(rows') = Len(rows) + 1 /\ DOMAIN rows' = DOMAIN rows \cup {Len(rows) + 1}
        BY <3>6
      <4>2. Len(rows') <= MaxRows
        BY <3>1, <3>11, <4>1
      <4> QED
        BY <2>1, <4>1, <4>2
    <3>13. answers' \in Seq(AnswerType)
      BY <3>5 DEF TypeInv
    <3> QED
      BY <1>3, <3>5, <3>6, <3>9, <3>10, <3>11, <3>12, <3>13 DEF TypeInv
  <2>3. CASE \/ Continue(s, [r EXCEPT !.pc = "conflict"]) /\ UNCHANGED <<rows, configs, faults>>
             \/ Answer(s, "not created", None) /\ UNCHANGED <<rows, configs, faults>>
             \/ Fault /\ Answer(s, "not created", None) /\ UNCHANGED <<rows, configs>>
    BY <1>1, <1>2, <1>3, <2>1, <2>3, AnswerTyped, ContinueTyped, FaultIs
  <2> QED
    BY <1>8, <2>2, <2>3 DEF CreateRow
<1>9. CASE Submit(s)
  <2> DEFINE i == r.row
  <2>0. At(s, "submit")
    BY <1>9 DEF Submit
  <2>1. i \in DOMAIN rows /\ i \in Nat
    BY <2>0 DEF TypeInv, RevInv
  <2>2. PICK a \in {"triggered", "not submitted"} : Answer(s, a, i)
    BY <1>9 DEF Submit
  <2>3. rows' = rows \/ \E st \in {"queued", "failed"} : rows' = [rows EXCEPT ![i].status = st]
    BY <1>9 DEF Submit
  <2>4. UNCHANGED <<configs, merged>> /\ faults' \in 0..MaxFaults
    BY <1>3, <1>9, FaultIs DEF Submit
  <2>6. /\ rows' \in Seq(RowType) /\ Len(rows') = Len(rows) /\ DOMAIN rows' = DOMAIN rows
        /\ \A j \in DOMAIN rows : rows'[j].rev = rows[j].rev
    <3>1. CASE rows' = rows
      BY <3>1 DEF TypeInv
    <3>2. CASE \E st \in {"queued", "failed"} : rows' = [rows EXCEPT ![i].status = st]
      BY <2>1, <3>2, StatusSet
    <3> QED
      BY <2>3, <3>1, <3>2
  <2>7. /\ request' \in [Slots -> Busy \cup {Idle}] /\ request'[s] = Idle
        /\ \A t \in Slots : t # s => request'[t] = request[t]
        /\ answers' \in Seq(AnswerType)
    <3>1. a \in AllAnswers
      BY DEF AllAnswers
    <3> QED
      BY <1>1, <2>1, <2>2, <3>1, Answered
  <2>8. \A t \in Slots : At(t, "idle")' \/ request'[t] = request[t]
    BY <2>7, IdleThere
  <2>9. \A t \in Slots : At(t, "idle")' => ~At(t, "submit")'
    BY DEF At
  <2>10. RevInv'
    BY <2>6, <2>8, <2>9 DEF TypeInv, RevInv, At
  <2> QED
    BY <2>4, <2>6, <2>7, <2>10 DEF TypeInv
<1> QED
  BY <1>4, <1>5, <1>6, <1>7, <1>8, <1>9 DEF Serve

LEMMA NextTyped == TypeInv /\ [Next]_vars => TypeInv'
<1> SUFFICES ASSUME TypeInv, [Next]_vars PROVE TypeInv'
  OBVIOUS
<1>1. CASE UNCHANGED vars
  BY <1>1 DEF vars, TypeInv, RevInv, At
<1> QED
  BY <1>1, ServeTyped, ReceiveTyped DEF Next

LEMMA InitTyped == Init => TypeInv
<1> SUFFICES ASSUME Init PROVE TypeInv
  OBVIOUS
<1>1. rows \in Seq(RowType) /\ Len(rows) = 0 /\ DOMAIN rows = {} /\ answers \in Seq(AnswerType)
  BY DEF Init
<1>2. \A s \in Slots : request[s] = Idle /\ At(s, "idle")
  BY DEF Init, At, Idle
<1>3. RevInv
  BY <1>1, <1>2 DEF RevInv, At, Idle
<1> QED
  BY <1>1, <1>3, IntakeAssumption DEF Init, TypeInv

\* Type correctness: revisions are counted from one, whatever is counted while
\* others create rows, and no statement names a row that is not there.
THEOREM TypeCorrect == Spec => []TypeOK
<1>1. TypeInv => TypeOK
  <2> SUFFICES ASSUME TypeInv PROVE TypeOK
    OBVIOUS
  <2>1. \A i \in DOMAIN rows : rows[i].status \in {"pending", "queued", "failed"} /\ rows[i].rev \in Nat \ {0}
    BY RowIs DEF RowType
  <2>2. \A s \in Slots : request[s].pc \in {"idle", "lookup", "revision", "create", "conflict", "submit", "merge"}
    BY DEF TypeInv, Busy, Idle, AllSteps
  <2> QED
    BY <2>1, <2>2 DEF TypeInv, TypeOK
<1> QED
  BY <1>1, InitTyped, NextTyped, PTL DEF Spec

-----------------------------------------------------------------------------
(* Events *)

\* Row i is the review that e asks for.
ReviewOf(i, e) ==
    /\ rows[i].commit = e.commit
    /\ Parse(e).kind = "pull_request" => rows[i].url = PRURL(e)

\* The unique index holds of what is stored.
UniqueInv == \A i, j \in DOMAIN rows : (rows[i].url = rows[j].url /\ rows[i].commit = rows[j].commit) => i = j

UrlInv == \A i \in DOMAIN rows : rows[i].url # NoURL => rows[i].url = <<rows[i].repo, rows[i].pr>>

\* A row that is submitted is the row of that request, and of no other one.
SubmitInv ==
    \A s \in Slots : At(s, "submit") =>
        /\ ReviewOf(request[s].row, request[s].event)
        /\ \A t \in Slots : (t # s /\ At(t, "submit")) => request[t].row # request[s].row

\* ... and no request was told that it was triggered.
NewlyInv ==
    \A s \in Slots : At(s, "submit") =>
        \A n \in DOMAIN answers : answers[n].answer = "triggered" => answers[n].row # request[s].row

\* No row is triggered twice, and each answer names the row it is about.
TriggeredOnce ==
    \A n, m \in DOMAIN answers :
        (answers[n].answer = "triggered" /\ answers[m].answer = "triggered" /\ answers[n].row = answers[m].row) => n = m

AnsweredRight(a) ==
    /\ a.answer = "triggered" => a.row \in DOMAIN rows /\ ReviewOf(a.row, a.event)
    /\ a.answer = "exists" => /\ a.row \in DOMAIN rows
                              /\ rows[a.row].url = PRURL(a.event) /\ rows[a.row].commit = a.event.commit

AnswerInv == \A n \in DOMAIN answers : AnsweredRight(answers[n])

EventsInv == UniqueInv /\ UrlInv /\ SubmitInv /\ NewlyInv /\ TriggeredOnce /\ AnswerInv /\ MergedWereAsked

\* What identifies a review is written once.
SameRows ==
    \A i \in DOMAIN rows :
        /\ i \in DOMAIN rows' /\ rows'[i].url = rows[i].url /\ rows'[i].commit = rows[i].commit
        /\ rows'[i].repo = rows[i].repo /\ rows'[i].pr = rows[i].pr

\* Answers are only added.
SameAnswers == \A n \in DOMAIN answers : n \in DOMAIN answers' /\ answers'[n] = answers[n]

LEMMA AnswersStay ==
    ASSUME EventsInv, SameRows, SameAnswers
    PROVE  \A n \in DOMAIN answers : AnsweredRight(answers[n])'
  BY DEF EventsInv, AnswerInv, AnsweredRight, SameRows, SameAnswers, ReviewOf

LEMMA MergedStay ==
    ASSUME TypeInv, EventsInv, SameRows, SameAnswers, NEW i \in merged
    PROVE  \E n \in DOMAIN answers' : answers'[n].answer = "merged" /\ PRURL(answers'[n].event) = rows'[i].url
  BY DEF EventsInv, MergedWereAsked, SameRows, SameAnswers, TypeInv

\* A step that creates no row and sends none to be submitted, and says of no row
\* that it was triggered.
LEMMA QuietKept ==
    ASSUME TypeInv, EventsInv, DOMAIN rows' = DOMAIN rows, SameRows, SameAnswers,
           \A t \in Slots : At(t, "submit")' => request'[t] = request[t],
           \A n \in DOMAIN answers' : n \notin DOMAIN answers => /\ answers'[n].answer # "triggered"
                                                                /\ AnsweredRight(answers[n])',
           \A i \in merged' : i \notin merged =>
               \E n \in DOMAIN answers' : answers'[n].answer = "merged" /\ PRURL(answers'[n].event) = rows'[i].url
    PROVE  EventsInv'
<1>1. UniqueInv' /\ UrlInv'
  BY DEF EventsInv, UniqueInv, UrlInv, SameRows
<1>2. \A t \in Slots : At(t, "submit")' => At(t, "submit") /\ request[t].row \in DOMAIN rows
  BY DEF At, TypeInv, RevInv
<1>3. SubmitInv'
  BY <1>2 DEF EventsInv, SubmitInv, SameRows, ReviewOf
<1>4. NewlyInv'
  BY <1>2 DEF EventsInv, NewlyInv, SameAnswers
<1>5. TriggeredOnce'
  BY DEF EventsInv, TriggeredOnce, SameAnswers
<1>6. \A n \in DOMAIN answers : AnsweredRight(answers[n])'
  BY AnswersStay
<1>7. AnswerInv'
  BY <1>6 DEF AnswerInv
<1>8. MergedWereAsked'
  BY MergedStay DEF MergedWereAsked
<1> QED
  BY <1>1, <1>3, <1>4, <1>5, <1>7, <1>8 DEF EventsInv

\* The event and the answers of a request that goes on or is answered.
LEMMA AnswerKept ==
    ASSUME TypeInv, EventsInv, NEW s \in Slots, NEW a \in AllAnswers, a # "triggered", NEW i \in Nat \cup {None},
           ~At(s, "idle"), Answer(s, a, i), UNCHANGED rows, merged' \subseteq DOMAIN rows,
           a = "exists" => /\ i \in DOMAIN rows /\ rows[i].url = PRURL(request[s].event)
                           /\ rows[i].commit = request[s].event.commit,
           \A j \in merged' : j \notin merged => a = "merged" /\ PRURL(request[s].event) = rows[j].url
    PROVE  EventsInv'
<1>1. PICK n, e : n = Len(answers') /\ e = request[s].event
  OBVIOUS
<1>2. /\ \A m \in DOMAIN answers : m \in DOMAIN answers' /\ answers'[m] = answers[m]
      /\ DOMAIN answers' = DOMAIN answers \cup {n}
      /\ request'[s] = Idle
      /\ \A t \in Slots : t # s => request'[t] = request[t]
  BY <1>1, Answered
<1>3. answers'[n].answer = a /\ answers'[n].row = i /\ answers'[n].event = e
  BY <1>1, Answered
<1>4. AnsweredRight(answers[n])'
  BY <1>1, <1>3 DEF AnsweredRight
<1>5. \A t \in Slots : At(t, "idle")' \/ request'[t] = request[t]
  BY <1>2, IdleThere
<1>6. \A t \in Slots : At(t, "submit")' => request'[t] = request[t]
  BY <1>5 DEF At
<1>7. SameRows /\ SameAnswers /\ DOMAIN rows' = DOMAIN rows
  BY <1>2 DEF SameRows, SameAnswers
<1>8. \A j \in merged' : j \notin merged =>
          \E m \in DOMAIN answers' : answers'[m].answer = "merged" /\ PRURL(answers'[m].event) = rows'[j].url
  <2> SUFFICES ASSUME NEW j \in merged', j \notin merged
               PROVE  answers'[n].answer = "merged" /\ PRURL(answers'[n].event) = rows'[j].url
    BY <1>2
  <2>1. a = "merged" /\ PRURL(e) = rows[j].url
    BY <1>1
  <2> QED
    BY <1>3, <2>1
<1>9. \A m \in DOMAIN answers' : m \notin DOMAIN answers => answers'[m].answer # "triggered" /\ AnsweredRight(answers[m])'
  BY <1>2, <1>3, <1>4
<1> QED
  BY <1>6, <1>7, <1>8, <1>9, QuietKept

LEMMA ContinueKept ==
    ASSUME TypeInv, EventsInv, NEW s \in Slots, NEW r \in Busy, Continue(s, r), r.pc # "submit",
           UNCHANGED <<rows, merged>>
    PROVE  EventsInv'
<1>1. /\ request'[s] = r /\ \A t \in Slots : t # s => request'[t] = request[t]
      /\ UNCHANGED answers
  BY Continued
<1>2. \A t \in Slots : At(t, "submit")' => request'[t] = request[t]
  BY <1>1 DEF At
<1>3. SameRows /\ SameAnswers /\ DOMAIN rows' = DOMAIN rows /\ DOMAIN answers' = DOMAIN answers /\ merged' = merged
  BY <1>1 DEF SameRows, SameAnswers
<1> QED
  BY <1>2, <1>3, QuietKept

LEMMA ReceiveKept ==
    ASSUME TypeInv, EventsInv, NEW s \in Slots, NEW e \in Events, Receive(s, e)
    PROVE  EventsInv'
<1>1. UNCHANGED <<rows, merged>>
  BY DEF Receive
<1>2. ASSUME NEW w \in AllAnswers, w \notin {"triggered", "exists"}, UNCHANGED request,
             answers' = Append(answers, [event |-> e, answer |-> w, row |-> None])
      PROVE  EventsInv'
  <2>1. PICK a \in AnswerType : a.answer = w /\ answers' = Append(answers, a)
    BY <1>2 DEF AnswerType
  <2>2. PICK n : /\ \A m \in DOMAIN answers : m \in DOMAIN answers' /\ answers'[m] = answers[m]
                 /\ DOMAIN answers' = DOMAIN answers \cup {n} /\ answers'[n] = a
    BY <2>1 DEF TypeInv
  <2>3. AnsweredRight(answers[n])' /\ answers'[n].answer # "triggered"
    BY <1>2, <2>1, <2>2 DEF AnsweredRight
  <2>4. SameRows /\ SameAnswers /\ DOMAIN rows' = DOMAIN rows /\ merged' = merged
    BY <1>1, <2>2 DEF SameRows, SameAnswers
  <2> QED
    BY <1>2, <2>2, <2>3, <2>4, QuietKept
<1>3. ASSUME NEW step \in AllSteps, step # "submit", Continue(s, [pc |-> step, event |-> e, rev |-> 1, row |-> None])
      PROVE  EventsInv'
  <2>1. [pc |-> step, event |-> e, rev |-> 1, row |-> None] \in Busy
    BY DEF Busy
  <2> QED
    BY <1>1, <1>3, <2>1, ContinueKept
<1>4. \/ \E w \in AllAnswers \ {"triggered", "exists"} :
            UNCHANGED request /\ answers' = Append(answers, [event |-> e, answer |-> w, row |-> None])
      \/ \E step \in AllSteps \ {"submit"} : Continue(s, [pc |-> step, event |-> e, rev |-> 1, row |-> None])
  BY DEF Receive, AllAnswers, AllSteps
<1> QED
  BY <1>2, <1>3, <1>4

\* The steps that leave the rows as they are.
LEMMA LookedUpKept ==
    ASSUME TypeInv, EventsInv, NEW s \in Slots, Lookup(s) \/ CountRevision(s) \/ FindExisting(s) \/ Merge(s)
    PROVE  EventsInv'
<1> DEFINE r == request[s]
           e == request[s].event
<1>1. ~At(s, "idle") /\ r \in Busy /\ UNCHANGED rows /\ merged \subseteq DOMAIN rows
  <2>1. ~At(s, "idle")
    BY DEF Lookup, CountRevision, FindExisting, Merge, At
  <2> QED
    BY <2>1, BusyIs DEF TypeInv, Lookup, CountRevision, FindExisting, Merge
<1>2. \A step \in AllSteps : [r EXCEPT !.pc = step] \in Busy /\ [r EXCEPT !.pc = step].pc = step
  BY <1>1, BusyWith
<1>3. {"exists", "not created", "merged", "not merged"} \subseteq AllAnswers /\ {"create", "revision"} \subseteq AllSteps
  BY DEF AllAnswers, AllSteps
<1>4. ASSUME Same(PRURL(e), e.commit) # {}, Answer(s, "exists", Min(Same(PRURL(e), e.commit))), UNCHANGED merged
      PROVE  EventsInv'
  <2>1. PICK i \in Nat \cap DOMAIN rows : /\ i = Min(Same(PRURL(e), e.commit))
                                          /\ rows[i].url = PRURL(e) /\ rows[i].commit = e.commit
    BY <1>4, SameIs
  <2>2. Answer(s, "exists", i)
    BY <1>4, <2>1
  <2> QED
    BY <1>1, <1>3, <1>4, <2>1, <2>2, AnswerKept
<1>5. CASE Lookup(s)
  <2> DEFINE step == IF IsPRUpdateEvent(Parse(e).action) THEN "revision" ELSE "create"
  <2>1. /\ \/ Same(PRURL(e), e.commit) # {} /\ Answer(s, "exists", Min(Same(PRURL(e), e.commit)))
           \/ Continue(s, [r EXCEPT !.pc = step])
        /\ UNCHANGED merged
    BY <1>5 DEF Lookup
  <2>2. step \in AllSteps /\ step # "submit"
    BY DEF AllSteps
  <2> HIDE DEF step
  <2> QED
    BY <1>1, <1>2, <1>4, <2>1, <2>2, ContinueKept
<1>6. CASE CountRevision(s)
  <2>1. /\ \/ Continue(s, [r EXCEPT !.pc = "create", !.rev = MaxRevision(PRURL(e)) + 1])
           \/ Continue(s, [r EXCEPT !.pc = "create"])
        /\ UNCHANGED merged
    BY <1>6 DEF CountRevision
  <2>2. MaxRevision(PRURL(e)) + 1 \in Nat \ {0}
    BY RevisionIs DEF TypeInv
  <2>3. [r EXCEPT !.pc = "create"] \in Busy /\ [r EXCEPT !.pc = "create"].pc = "create"
    BY <1>2, <1>3
  <2> DEFINE q == [r EXCEPT !.pc = "create", !.rev = MaxRevision(PRURL(e)) + 1]
  <2>4. q \in Busy /\ q.pc # "submit"
    BY <2>2, <2>3, BusyWithRev
  <2> HIDE DEF q
  <2>5. Continue(s, q) \/ Continue(s, [r EXCEPT !.pc = "create"])
    BY <2>1 DEF q
  <2> QED
    BY <1>1, <2>1, <2>3, <2>4, <2>5, ContinueKept
<1>7. CASE FindExisting(s)
  <2>1. /\ \/ Same(PRURL(e), e.commit) # {} /\ Answer(s, "exists", Min(Same(PRURL(e), e.commit)))
           \/ Answer(s, "not created", None)
        /\ UNCHANGED merged
    BY <1>7 DEF FindExisting
  <2>2. CASE Answer(s, "not created", None)
    BY <1>1, <1>3, <2>1, <2>2, AnswerKept
  <2> QED
    BY <1>4, <2>1, <2>2
<1>8. CASE Merge(s)
  <2>1. \/ merged' = merged \cup {i \in DOMAIN rows : rows[i].url = PRURL(e)} /\ Answer(s, "merged", None)
        \/ UNCHANGED merged /\ Answer(s, "not merged", None)
    BY <1>8 DEF Merge
  <2>2. CASE merged' = merged \cup {i \in DOMAIN rows : rows[i].url = PRURL(e)} /\ Answer(s, "merged", None)
    BY <1>1, <1>3, <2>2, AnswerKept
  <2>3. CASE UNCHANGED merged /\ Answer(s, "not merged", None)
    BY <1>1, <1>3, <2>3, AnswerKept
  <2> QED
    BY <2>1, <2>2, <2>3
<1> QED
  BY <1>5, <1>6, <1>7, <1>8

\* A row is created only for a pull request and commit that no row has.
LEMMA CreateKept ==
    ASSUME TypeInv, EventsInv, NEW s \in Slots, CreateRow(s)
    PROVE  EventsInv'
<1> DEFINE r == request[s]
           e == request[s].event
           url == IF Parse(e).kind = "push" THEN NoURL ELSE PRURL(e)
           row == [repo |-> e.repo, pr |-> e.pr, url |-> url, commit |-> e.commit, rev |-> r.rev, status |-> "pending"]
<1>1. ~At(s, "idle") /\ r \in Busy /\ e \in Events /\ UNCHANGED merged /\ merged \subseteq DOMAIN rows
  <2>1. ~At(s, "idle")
    BY DEF CreateRow, At
  <2> QED
    BY <2>1, BusyIs DEF TypeInv, CreateRow, Busy
<1>2. {"create", "conflict", "submit"} \subseteq AllSteps /\ "not created" \in AllAnswers
  BY DEF AllSteps, AllAnswers
<1>3. \A step \in AllSteps : /\ [r EXCEPT !.pc = step] \in Busy /\ [r EXCEPT !.pc = step].pc = step
                           /\ [r EXCEPT !.pc = step].event = e
  BY <1>1, BusyWith
<1>4. CASE \/ Continue(s, [r EXCEPT !.pc = "conflict"]) /\ UNCHANGED rows
           \/ Answer(s, "not created", None) /\ UNCHANGED rows
  <2>1. CASE Continue(s, [r EXCEPT !.pc = "conflict"]) /\ UNCHANGED rows
    BY <1>1, <1>2, <1>3, <2>1, ContinueKept
  <2>2. CASE Answer(s, "not created", None) /\ UNCHANGED rows
    BY <1>1, <1>2, <2>2, AnswerKept
  <2> QED
    BY <1>4, <2>1, <2>2
<1>5. CASE /\ IndexHolds(url, e.commit) /\ rows' = Append(rows, row)
           /\ Continue(s, [r EXCEPT !.pc = "submit", !.row = Len(rows) + 1])
  <2>1. PICK n : n = Len(rows) + 1
    OBVIOUS
  <2>2. n \in Nat /\ n \notin DOMAIN rows
    BY <2>1 DEF TypeInv
  <2>3. PICK b \in Busy : b = [r EXCEPT !.pc = "submit"] /\ b.pc = "submit" /\ b.event = e
    BY <1>2, <1>3
  <2>4. PICK q \in Busy : q = [b EXCEPT !.row = n] /\ q.pc = "submit" /\ q.event = e /\ q.row = n
    <3>1. /\ [b EXCEPT !.row = n] \in Busy
          /\ [b EXCEPT !.row = n].pc = b.pc /\ [b EXCEPT !.row = n].event = b.event
          /\ [b EXCEPT !.row = n].row = n
      BY <2>2, BusyWithRow
    <3> QED
      BY <2>3, <3>1
  <2>5. /\ request'[s] = q /\ UNCHANGED answers
        /\ \A t \in Slots : t # s => request'[t] = request[t]
    BY <1>5, <2>1, <2>3, <2>4, Continued
  <2>6. PICK u, c, x : u = url /\ c = e.commit /\ x = row
    OBVIOUS
  <2>7. /\ x.url = u /\ x.commit = c /\ (u # NoURL => u = <<x.repo, x.pr>>)
        /\ Parse(e).kind = "pull_request" => u = PRURL(e)
    BY <2>6 DEF PRURL
  <2>8. /\ DOMAIN rows' = DOMAIN rows \cup {n} /\ rows'[n] = x
        /\ \A i \in DOMAIN rows : i \in DOMAIN rows' /\ rows'[i] = rows[i]
    BY <1>5, <2>1, <2>6 DEF TypeInv
  <2>9. \A i \in DOMAIN rows : ~(rows[i].url = u /\ rows[i].commit = c)
    BY <1>5, <2>6 DEF IndexHolds, Same
  <2>10. UniqueInv'
    BY <2>7, <2>8, <2>9 DEF EventsInv, UniqueInv
  <2>11. UrlInv'
    BY <2>7, <2>8 DEF EventsInv, UrlInv
  <2>12. \A t \in Slots : (t # s /\ At(t, "submit")') => /\ At(t, "submit") /\ request'[t] = request[t]
                                                       /\ request[t].row \in DOMAIN rows
    BY <2>5 DEF At, TypeInv, RevInv
  <2>13. SubmitInv'
    <3> SUFFICES ASSUME NEW t \in Slots, At(t, "submit")'
                 PROVE  /\ ReviewOf(request[t].row, request[t].event)'
                        /\ \A v \in Slots : (v # t /\ At(v, "submit")') => request'[v].row # request'[t].row
      BY DEF SubmitInv
    <3>1. CASE t = s
      <4>1. ReviewOf(request[t].row, request[t].event)'
        <5>1. x.commit = q.event.commit /\ (Parse(q.event).kind = "pull_request" => x.url = PRURL(q.event))
          BY <2>4, <2>6, <2>7
        <5>2. request'[t] = q /\ rows'[q.row] = x
          BY <2>4, <2>5, <2>8, <3>1
        <5> QED
          BY <5>1, <5>2 DEF ReviewOf
      <4> QED
        BY <2>2, <2>4, <2>5, <2>12, <3>1, <4>1
    <3>2. CASE t # s
      <4>1. ReviewOf(request[t].row, request[t].event)'
        BY <2>8, <2>12, <3>2 DEF EventsInv, SubmitInv, ReviewOf
      <4>2. ASSUME NEW v \in Slots, v # t, At(v, "submit")'
            PROVE  request'[v].row # request'[t].row
        <5>1. CASE v = s
          BY <2>2, <2>4, <2>5, <2>12, <3>2, <5>1
        <5>2. CASE v # s
          BY <2>12, <3>2, <4>2, <5>2 DEF EventsInv, SubmitInv
        <5> QED
          BY <5>1, <5>2
      <4> QED
        BY <4>1, <4>2
    <3> QED
      BY <3>1, <3>2
  <2>14. NewlyInv'
    <3> SUFFICES ASSUME NEW t \in Slots, At(t, "submit")', NEW k \in DOMAIN answers, answers[k].answer = "triggered"
                 PROVE  answers[k].row # request'[t].row
      BY <2>5 DEF NewlyInv
    <3>1. answers[k].row \in DOMAIN rows
      BY DEF EventsInv, AnswerInv, AnsweredRight
    <3>2. CASE t = s
      BY <2>2, <2>4, <2>5, <3>1, <3>2
    <3>3. CASE t # s
      BY <2>12, <3>3 DEF EventsInv, NewlyInv
    <3> QED
      BY <3>2, <3>3
  <2>15. TriggeredOnce'
    BY <2>5 DEF EventsInv, TriggeredOnce
  <2>16. AnswerInv'
    <3>1. \A k \in DOMAIN answers : AnsweredRight(answers[k])'
      BY <2>5, <2>8 DEF EventsInv, AnswerInv, AnsweredRight, ReviewOf
    <3> QED
      BY <2>5, <3>1 DEF AnswerInv
  <2>17. MergedWereAsked'
    BY <1>1, <2>5, <2>8 DEF EventsInv, MergedWereAsked
  <2> QED
    BY <2>10, <2>11, <2>13, <2>14, <2>15, <2>16, <2>17 DEF EventsInv
<1> QED
  BY <1>4, <1>5 DEF CreateRow

LEMMA ReviewStays ==
    ASSUME SameRows, NEW s, request'[s] = request[s], request[s].row \in DOMAIN rows,
           ReviewOf(request[s].row, request[s].event)
    PROVE  ReviewOf(request[s].row, request[s].event)'
  BY DEF SameRows, ReviewOf

\* A row that is answered as triggered was the row of that request alone.
LEMMA SubmitKept ==
    ASSUME TypeInv, EventsInv, NEW s \in Slots, Submit(s)
    PROVE  EventsInv'
<1>1. PICK i, e : i = request[s].row /\ e = request[s].event
  OBVIOUS
<1>2. At(s, "submit") /\ ~At(s, "idle") /\ i \in DOMAIN rows /\ i \in Nat /\ ReviewOf(i, e)
  <2>1. At(s, "submit")
    BY DEF Submit
  <2>2. ~At(s, "idle")
    BY <2>1 DEF At
  <2>3. i \in DOMAIN rows /\ i \in Nat
    BY <1>1, <2>1 DEF TypeInv, RevInv
  <2>4. ReviewOf(i, e)
    BY <1>1, <2>1 DEF EventsInv, SubmitInv
  <2> QED
    BY <2>1, <2>2, <2>3, <2>4
<1>3. PICK a \in {"triggered", "not submitted"} : Answer(s, a, i)
  BY <1>1 DEF Submit
<1>4. SameRows /\ DOMAIN rows' = DOMAIN rows /\ merged' = merged
  <2>1. rows' = rows \/ \E st \in {"queued", "failed"} : rows' = [rows EXCEPT ![i].status = st]
    BY <1>1 DEF Submit
  <2>2. CASE rows' = rows
    BY <2>2 DEF SameRows, Submit
  <2>3. CASE \E st \in {"queued", "failed"} : rows' = [rows EXCEPT ![i].status = st]
    BY <1>2, <2>3, StatusSet DEF SameRows, Submit
  <2> QED
    BY <2>1, <2>2, <2>3
<1>5. PICK n : n = Len(answers')
  OBVIOUS
<1>6. /\ \A m \in DOMAIN answers : m \in DOMAIN answers' /\ answers'[m] = answers[m]
      /\ DOMAIN answers' = DOMAIN answers \cup {n} /\ n \notin DOMAIN answers
      /\ request'[s] = Idle /\ \A t \in Slots : t # s => request'[t] = request[t]
  <2>1. a \in AllAnswers
    BY DEF AllAnswers
  <2>2. i \in Nat \cup {None}
    BY <1>2
  <2> QED
    BY <1>2, <1>3, <1>5, <2>1, <2>2, Answered
<1>7. answers'[n].answer = a /\ answers'[n].row = i /\ answers'[n].event = e
  <2>1. a \in AllAnswers
    BY DEF AllAnswers
  <2>2. i \in Nat \cup {None}
    BY <1>2
  <2> QED
    BY <1>1, <1>2, <1>3, <1>5, <2>1, <2>2, Answered
<1>8. \A t \in Slots : At(t, "submit")' => /\ t # s /\ At(t, "submit") /\ request'[t] = request[t]
                                          /\ request[t].row \in DOMAIN rows /\ request[t].row # i
  <2>1. \A t \in Slots : At(t, "idle")' \/ request'[t] = request[t]
    BY <1>6, IdleThere
  <2>2. \A t \in Slots : At(t, "submit")' => request'[t] = request[t] /\ At(t, "submit")
    BY <2>1 DEF At
  <2>3. ~At(s, "submit")'
    <3>1. Idle.pc # "submit"
      BY DEF Idle
    <3> QED
      BY <1>6, <3>1 DEF At
  <2>4. \A t \in Slots : At(t, "submit")' => t # s
    BY <2>3
  <2> QED
    BY <1>1, <1>2, <2>2, <2>4 DEF TypeInv, RevInv, EventsInv, SubmitInv
<1>9. UniqueInv' /\ UrlInv'
  BY <1>4 DEF EventsInv, UniqueInv, UrlInv, SameRows
<1>10. SubmitInv'
  <2> SUFFICES ASSUME NEW t \in Slots, At(t, "submit")'
               PROVE  /\ ReviewOf(request[t].row, request[t].event)'
                      /\ \A v \in Slots : (v # t /\ At(v, "submit")') => request'[v].row # request'[t].row
    BY DEF SubmitInv
  <2>1. /\ request'[t] = request[t] /\ request[t].row \in DOMAIN rows
        /\ ReviewOf(request[t].row, request[t].event)
    BY <1>8 DEF EventsInv, SubmitInv
  <2>2. ReviewOf(request[t].row, request[t].event)'
    BY <1>4, <2>1, ReviewStays
  <2>3. \A v \in Slots : (v # t /\ At(v, "submit")') => request'[v].row # request'[t].row
    BY <1>8 DEF EventsInv, SubmitInv
  <2> QED
    BY <2>2, <2>3
<1>11. NewlyInv'
  <2> SUFFICES ASSUME NEW t \in Slots, At(t, "submit")', NEW k \in DOMAIN answers', answers'[k].answer = "triggered"
               PROVE  answers'[k].row # request'[t].row
    BY DEF NewlyInv
  <2>1. CASE k = n
    BY <1>7, <1>8, <2>1
  <2>2. CASE k # n
    BY <1>6, <1>8, <2>2 DEF EventsInv, NewlyInv
  <2> QED
    BY <2>1, <2>2
<1>12. TriggeredOnce'
  <2>1. \A k \in DOMAIN answers : answers[k].answer = "triggered" => answers[k].row # i
    BY <1>1, <1>2 DEF EventsInv, NewlyInv
  <2>2. \A k, m \in DOMAIN answers' : k \in DOMAIN answers \/ k = n
    BY <1>6
  <2> SUFFICES ASSUME NEW k \in DOMAIN answers', NEW m \in DOMAIN answers',
                      answers'[k].answer = "triggered", answers'[m].answer = "triggered",
                      answers'[k].row = answers'[m].row
               PROVE  k = m
    BY DEF TriggeredOnce
  <2>3. CASE k \in DOMAIN answers /\ m \in DOMAIN answers
    BY <1>6, <2>3 DEF EventsInv, TriggeredOnce
  <2>4. CASE k = n
    BY <1>6, <1>7, <2>1, <2>2, <2>4
  <2>5. CASE m = n
    BY <1>6, <1>7, <2>1, <2>2, <2>5
  <2> QED
    BY <2>2, <2>3, <2>4, <2>5
<1>13. AnswerInv'
  <2>1. \A k \in DOMAIN answers : AnsweredRight(answers[k])'
    <3>1. SameAnswers
      BY <1>6 DEF SameAnswers
    <3> QED
      BY <1>4, <3>1, AnswersStay
  <2>2. AnsweredRight(answers[n])'
    BY <1>2, <1>4, <1>7 DEF AnsweredRight, SameRows, ReviewOf
  <2> QED
    BY <1>6, <2>1, <2>2 DEF AnswerInv
<1>14. MergedWereAsked'
  <2>1. SameAnswers
    BY <1>6 DEF SameAnswers
  <2> QED
    BY <1>4, <2>1, MergedStay DEF MergedWereAsked
<1> QED
  BY <1>9, <1>10, <1>11, <1>12, <1>13, <1>14 DEF EventsInv

LEMMA NextEvents == TypeInv /\ EventsInv /\ [Next]_vars => EventsInv'
<1> SUFFICES ASSUME TypeInv, EventsInv, [Next]_vars PROVE EventsInv'
  OBVIOUS
<1>1. CASE UNCHANGED vars
  <2>1. SameRows /\ SameAnswers /\ DOMAIN rows' = DOMAIN rows /\ DOMAIN answers' = DOMAIN answers /\ merged' = merged
    BY <1>1 DEF vars, SameRows, SameAnswers
  <2> QED
    BY <1>1, <2>1, QuietKept DEF vars
<1>2. ASSUME NEW s \in Slots, Serve(s) PROVE EventsInv'
  BY <1>2, LookedUpKept, CreateKept, SubmitKept DEF Serve
<1> QED
  BY <1>1, <1>2, ReceiveKept DEF Next

LEMMA InitEvents == Init => EventsInv
<1> SUFFICES ASSUME Init PROVE EventsInv
  OBVIOUS
<1>1. DOMAIN rows = {} /\ DOMAIN answers = {} /\ merged = {}
  BY DEF Init
<1>2. \A s \in Slots : ~At(s, "submit")
  BY DEF Init, At, Idle
<1> QED
  BY <1>1, <1>2 DEF EventsInv, UniqueInv, UrlInv, SubmitInv, NewlyInv, TriggeredOnce, AnswerInv, MergedWereAsked

\* However deliveries overlap and repeat, whatever statements fail: a commit of
\* a pull request is reviewed once, a sender that is told of an existing review
\* is told of that of his pull request and commit, and only reviews of a pull
\* request that was reported closed are marked so (webhook.go, review.go).
THEOREM EachEventOnce == Spec => []EventsHandledOnce
<1>1. TypeInv /\ EventsInv => EventsHandledOnce
  <2> SUFFICES ASSUME TypeInv, EventsInv PROVE EventsHandledOnce
    OBVIOUS
  <2>1. OneReviewPerCommit
    <3> SUFFICES ASSUME NEW n \in DOMAIN answers
                 PROVE  Cardinality(Triggered(PRURL(answers[n].event), answers[n].event.commit)) <= 1
      BY DEF OneReviewPerCommit
    <3> DEFINE T == Triggered(PRURL(answers[n].event), answers[n].event.commit)
    <3>1. \A k \in T : /\ k \in DOMAIN answers /\ answers[k].answer = "triggered" /\ answers[k].row \in DOMAIN rows
                       /\ rows[answers[k].row].url = PRURL(answers[n].event)
                       /\ rows[answers[k].row].commit = answers[n].event.commit
      BY DEF Triggered, EventsInv, AnswerInv, AnsweredRight, ReviewOf
    <3>2. \A k, m \in T : k = m
      BY <3>1 DEF EventsInv, UniqueInv, TriggeredOnce
    <3> HIDE DEF T
    <3>3. T = {} \/ \E k : T = {k}
      <4>1. CASE T # {}
        <5>1. PICK k : k \in T
          BY <4>1
        <5>2. T = {k}
          BY <3>2, <5>1
        <5> QED
          BY <5>2
      <4> QED
        BY <4>1
    <3>4. CASE T = {}
      BY <3>4, FS_EmptySet DEF T
    <3>5. CASE \E k : T = {k}
      <4>1. Cardinality(T) = 1
        BY <3>5, FS_Singleton
      <4> QED
        BY <4>1 DEF T
    <3> QED
      BY <3>3, <3>4, <3>5
  <2>2. ExistingIsTheSame
    <3> SUFFICES ASSUME NEW n \in DOMAIN answers, answers[n].answer = "exists", PRURL(answers[n].event) # NoURL
                 PROVE  /\ rows[answers[n].row].repo = answers[n].event.repo
                        /\ rows[answers[n].row].pr = answers[n].event.pr
                        /\ rows[answers[n].row].commit = answers[n].event.commit
      BY DEF ExistingIsTheSame
    <3>1. /\ answers[n].row \in DOMAIN rows /\ rows[answers[n].row].url = PRURL(answers[n].event)
          /\ rows[answers[n].row].commit = answers[n].event.commit
      BY DEF EventsInv, AnswerInv, AnsweredRight
    <3>2. rows[answers[n].row].url = <<rows[answers[n].row].repo, rows[answers[n].row].pr>>
      BY <3>1 DEF EventsInv, UrlInv
    <3>3. PRURL(answers[n].event) = <<answers[n].event.repo, answers[n].event.pr>>
      BY DEF PRURL
    <3>4. \A a, b, c, d : <<a, b>> = <<c, d>> => a = c /\ b = d
      OBVIOUS
    <3>5. <<rows[answers[n].row].repo, rows[answers[n].row].pr>> = <<answers[n].event.repo, answers[n].event.pr>>
      BY <3>1, <3>2, <3>3
    <3> QED
      BY <3>1, <3>4, <3>5
  <2> QED
    BY <2>1, <2>2 DEF EventsInv, EventsHandledOnce
<1> QED
  BY <1>1, InitTyped, NextTyped, InitEvents, NextEvents, PTL DEF Spec

-----------------------------------------------------------------------------
(* Directories *)

GitP == INSTANCE GitWorkspaceProofs WITH faults <- failures

LEMMA SameDirectories ==
    /\ Git!DirectoryAssumption = GitP!DirectoryAssumption
    /\ Git!Init = GitP!Init
<1>1. Git!DirectoryAssumption = GitP!DirectoryAssumption
  BY DEF Git!DirectoryAssumption, GitP!DirectoryAssumption, Git!Commits, GitP!Commits, Git!Versions, GitP!Versions
<1>2. Git!Init = GitP!Init
  BY DEF Git!Init, GitP!Init, Git!EmptyDir, GitP!EmptyDir, Git!Idle, GitP!Idle
<1> QED BY <1>1, <1>2

\* The steps that the proofs of GitWorkspace are about are those of Git.
LEMMA SameSteps == Git!Next = GitP!Next
BY DEF Git!Push, GitP!Push, Git!BeginPR, GitP!BeginPR, Git!BeginPush, GitP!BeginPush, Git!At, GitP!At, Git!Go,
   GitP!Go, Git!Fault, GitP!Fault, Git!Killed, GitP!Killed, Git!env, GitP!env, Git!CheckPath,
   GitP!CheckPath, Git!InitRepo, GitP!InitRepo, Git!AddOrigin, GitP!AddOrigin, Git!FetchNew, GitP!FetchNew,
   Git!CheckedOut, GitP!CheckedOut, Git!CheckoutNew, GitP!CheckoutNew, Git!CompareHead, GitP!CompareHead,
   Git!CleanupGitLock, GitP!CleanupGitLock, Git!ResetAndClean, GitP!ResetAndClean, Git!Tidy, GitP!Tidy,
   Git!CheckoutDetached, GitP!CheckoutDetached, Git!FastForward, GitP!FastForward, Git!FetchAllowed,
   GitP!FetchAllowed, Git!FetchPRRef, GitP!FetchPRRef, Git!DeleteLocalBranch, GitP!DeleteLocalBranch,
   Git!RetryFetch, GitP!RetryFetch, Git!CheckoutBranch, GitP!CheckoutBranch, Git!TidyAgain, GitP!TidyAgain,
   Git!CloneBranch, GitP!CloneBranch, Git!AgentsEnd, GitP!AgentsEnd, Git!RetryBegins, GitP!RetryBegins,
   Git!RetryEnds, GitP!RetryEnds, Git!Crash, GitP!Crash, Git!EnsurePRRepository, GitP!EnsurePRRepository,
   Git!Next, GitP!Next, Git!vars, GitP!vars, Git!EmptyDir, GitP!EmptyDir, Git!Idle, GitP!Idle

LEMMA SameReaders == Git!AgentsReadTheirCommit = GitP!AgentsReadTheirCommit
BY DEF Git!AgentsReadTheirCommit, GitP!AgentsReadTheirCommit, Git!RightCommit, GitP!RightCommit,
   Git!FreshTree, GitP!FreshTree, Git!LaterTaskWorks, GitP!LaterTaskWorks, Git!At, GitP!At

LEMMA IntakeDirectories == IntakeSpec => GitP!Spec
<1>1. IntakeInit => GitP!Init
  BY SameDirectories DEF IntakeInit
<1>2. [IntakeNext]_allVars => [GitP!Next]_(GitP!vars)
  <2>1. [IntakeNext]_allVars => [Git!Next]_(Git!vars)
    BY DEF IntakeNext, allVars, gitVars, Git!vars
  <2> QED BY <2>1, SameSteps DEF Git!vars, GitP!vars
<1> QED BY <1>1, <1>2, PTL DEF IntakeSpec, GitP!Spec

\* The agents of a pull request read its own commit, at the head they were asked
\* about or a later one, while nothing goes wrong without files of others, and a
\* failed task does not spoil the directory (EnsurePRRepository, ClonePR).
THEOREM AgentsReadTheirs == IntakeSpec => []AgentsReadTheirCommit
<1>1. GitP!Spec => []GitP!AgentsReadTheirCommit
  BY DirectoriesAssumption, SameDirectories, GitP!CommitIsRight
<1>2. GitP!AgentsReadTheirCommit => AgentsReadTheirCommit
  BY SameReaders DEF AgentsReadTheirCommit
<1> QED BY <1>1, <1>2, IntakeDirectories, PTL

-----------------------------------------------------------------------------
(* Rules *)

RuleContents == Contents \cup {Empty, None}
Saving == {"lock", "compare", "empty", "write"}
EditorRecord ==
    [pc : {"idle"}] \cup [pc : {"view"}, of : Files, seen : RuleContents, overtaken : BOOLEAN]
    \cup [pc : Saving, of : Files, seen : RuleContents, new : RuleContents, overtaken : BOOLEAN]
    \cup [pc : {"copy", "copied"}, of : Files, new : RuleContents] \cup [pc : {"update"}, of : Repos, new : Files \cup {None}]
LoadSteps == {"root", "row", "file", "default", "done"}
LoadRecord ==
    [pc : {"idle"}] \cup [pc : LoadSteps, of : Repos, root : RuleContents, file : Files \cup {None}, used : RuleContents,
                         calm : BOOLEAN, want : RuleContents]
RuleTyped ==
    /\ file \in [Files -> RuleContents]
    /\ config \in [Repos -> [state : {"none", "live", "deleted"}, file : Files \cup {None}]]
    /\ lock \in Admins \cup {None} /\ editor \in [Admins -> EditorRecord] /\ load \in LoadRecord
RuleCounts == edits \in 0..MaxEdits /\ loads \in 0..MaxLoads /\ queries \in 0..MaxFaults

\* Who is about to write holds the lock, and nobody but a creation, which
\* takes none, has come between the comparison and the writing.
EditInv(a) ==
    /\ editor[a].pc \in {"compare", "empty", "write"} => lock = a
    /\ (editor[a].pc = "empty" /\ ~editor[a].overtaken) => file[editor[a].of] \in {None, editor[a].seen}

\* What a load has ruled out so far, while nobody changes what it reads.
LoadInv ==
    (load.pc # "idle" /\ load.calm) =>
        /\ load.pc \in {"row", "file", "default"} => load.root \notin Valid
        /\ load.pc = "file" => load.file = Rules!FileOf(load.of) /\ load.file # None
        /\ load.pc = "default" => Rules!FileOf(load.of) = None \/ file[Rules!FileOf(load.of)] \notin Valid
        /\ load.want = IF load.pc = "done" THEN load.used ELSE Rules!Pick(load.root, load.of)

RuleInv == RuleTyped /\ LoadInv /\ \A a \in Admins : EditInv(a)

LEMMA RulesInitially == Rules!Init => RuleInv /\ RuleCounts
<1> SUFFICES ASSUME Rules!Init PROVE RuleInv /\ RuleCounts
  OBVIOUS
<1>1. (CHOOSE c \in Valid : TRUE) \in Contents
  BY RulesAssumption
<1>2. Rules!Idle \in EditorRecord /\ Rules!Idle \in LoadRecord /\ Rules!Idle.pc = "idle"
  BY DEF Rules!Idle, EditorRecord, LoadRecord
<1>3. RuleTyped
  BY <1>1, <1>2 DEF Rules!Init, RuleTyped, RuleContents
<1>4. RuleCounts
  BY RulesAssumption, IntakeAssumption DEF Rules!Init, RuleCounts
<1> QED BY <1>2, <1>3, <1>4 DEF Rules!Init, RuleInv, LoadInv, EditInv

\* Bounds are bounds.
LEMMA RulesCounted == RuleCounts /\ [Rules!Next]_(Rules!vars) => RuleCounts'
<1> SUFFICES ASSUME RuleCounts, [Rules!Next]_(Rules!vars) PROVE RuleCounts'
  OBVIOUS
<1> DEFINE Counted == /\ edits' = edits \/ (edits < MaxEdits /\ edits' = edits + 1)
                      /\ loads' = loads \/ (loads < MaxLoads /\ loads' = loads + 1)
                      /\ queries' = queries \/ (queries < MaxFaults /\ queries' = queries + 1)
<1>1. Counted
  <2>1. ASSUME NEW a \in Admins, \/ Rules!GetRule(a) \/ Rules!BeginSave(a) \/ Rules!Lock(a) \/ Rules!Compare(a)
                                 \/ Rules!EmptyFile(a) \/ Rules!WriteFile(a) \/ Rules!CreateRuleFile(a) \/ Rules!CopyFile(a)
        PROVE  Counted
    BY <2>1 DEF Rules!GetRule, Rules!BeginSave, Rules!Lock, Rules!Compare, Rules!EmptyFile, Rules!WriteFile,
       Rules!CreateRuleFile, Rules!CopyFile, Rules!Request
  <2>2. ASSUME NEW a \in Admins, \/ Rules!CreateRepositoryConfig(a) \/ Rules!UpdateRepositoryConfig(a)
                                 \/ Rules!SaveConfig(a) \/ Rules!DeleteRepositoryConfig(a)
        PROVE  Counted
    BY <2>2 DEF Rules!CreateRepositoryConfig, Rules!UpdateRepositoryConfig, Rules!SaveConfig,
       Rules!DeleteRepositoryConfig, Rules!Request
  <2>3. ASSUME NEW r \in Repos, Rules!EnsureConfig(r) PROVE Counted
    BY <2>3 DEF Rules!EnsureConfig
  <2>4. ASSUME \/ Rules!BeginLoad \/ Rules!LoadFromRepoRoot \/ Rules!FindConfig \/ Rules!LoadConfigured
               \/ Rules!LoadDefaultReviewConfig
        PROVE  Counted
    BY <2>4 DEF Rules!BeginLoad, Rules!LoadFromRepoRoot, Rules!FindConfig, Rules!LoadConfigured,
       Rules!LoadDefaultReviewConfig, Rules!Keep
  <2>5. ASSUME UNCHANGED Rules!vars PROVE Counted
    BY <2>5 DEF Rules!vars
  <2> QED BY <2>1, <2>2, <2>3, <2>4, <2>5 DEF Rules!Next
<1> QED BY <1>1, RulesAssumption, IntakeAssumption DEF RuleCounts

\* A change of what is read is noted.
LEMMA StirredIs ==
    ASSUME load \in LoadRecord, Rules!Stirred
    PROVE  load' \in LoadRecord /\ LoadInv'
<1>1. CASE load.pc = "idle"
  BY <1>1 DEF Rules!Stirred, LoadInv
<1>2. CASE load.pc # "idle"
  BY <1>2 DEF Rules!Stirred, LoadRecord, LoadInv
<1> QED BY <1>1, <1>2

\* A step of a request that leaves files and configurations alone.
LEMMA GoKeeps ==
    ASSUME RuleInv, NEW a \in Admins, NEW r \in EditorRecord, editor' = [editor EXCEPT ![a] = r],
           UNCHANGED <<file, config, load>>,
           lock' = lock \/ (lock = None /\ lock' = a) \/ (lock = a /\ lock' = None),
           r.pc \in {"compare", "empty", "write"} => lock' = a,
           (r.pc = "empty" /\ ~r.overtaken) => file[r.of] \in {None, r.seen}
    PROVE  RuleInv'
<1>1. RuleTyped' /\ editor'[a] = r /\ \A b \in Admins \ {a} : editor'[b] = editor[b]
  BY DEF RuleInv, RuleTyped
<1>2. LoadInv'
  BY DEF RuleInv, LoadInv, Rules!FileOf, Rules!Pick, Rules!Loads
<1>3. EditInv(a)'
  BY <1>1 DEF EditInv
<1>4. ASSUME NEW b \in Admins \ {a} PROVE EditInv(b)'
  BY <1>1, RulesAssumption DEF RuleInv, EditInv
<1> QED BY <1>1, <1>2, <1>3, <1>4 DEF RuleInv

LEMMA RequestKeeps ==
    ASSUME RuleInv, NEW a \in Admins,
           \/ Rules!GetRule(a) \/ Rules!BeginSave(a) \/ Rules!Lock(a) \/ Rules!Compare(a) \/ Rules!CreateRuleFile(a)
           \/ Rules!UpdateRepositoryConfig(a)
    PROVE  RuleInv'
<1>1. RuleTyped /\ EditInv(a) /\ editor[a] \in EditorRecord
  BY DEF RuleInv, RuleTyped
<1>2. CASE Rules!GetRule(a)
  <2>1. PICK f \in Files : editor' = [editor EXCEPT ![a] = [pc |-> "view", of |-> f, seen |-> file[f], overtaken |-> FALSE]]
    BY <1>2 DEF Rules!GetRule, Rules!Go
  <2>2. [pc |-> "view", of |-> f, seen |-> file[f], overtaken |-> FALSE] \in EditorRecord
    BY <1>1 DEF EditorRecord, RuleTyped
  <2> QED BY <1>2, <2>1, <2>2, GoKeeps DEF Rules!GetRule
<1>3. CASE Rules!BeginSave(a)
  <2>1. PICK c \in Written : editor' = [editor EXCEPT ![a] = [pc |-> "lock", of |-> editor[a].of, seen |-> editor[a].seen,
                                                             new |-> c, overtaken |-> editor[a].overtaken]]
    BY <1>3 DEF Rules!BeginSave, Rules!Go
  <2>2. [pc |-> "lock", of |-> editor[a].of, seen |-> editor[a].seen, new |-> c, overtaken |-> editor[a].overtaken] \in EditorRecord
    BY <1>1, <1>3, RulesAssumption DEF EditorRecord, Rules!BeginSave, Rules!At, Saving, RuleContents
  <2> QED BY <1>3, <2>1, <2>2, GoKeeps DEF Rules!BeginSave
<1>4. CASE Rules!Lock(a)
  <2> DEFINE r == [editor[a] EXCEPT !.pc = "compare"]
  <2>1. r \in EditorRecord /\ r.pc = "compare"
    BY <1>1, <1>4 DEF EditorRecord, Rules!Lock, Rules!At, Saving
  <2> QED BY <1>4, <2>1, GoKeeps DEF Rules!Lock, Rules!Go
<1>5. CASE Rules!Compare(a)
  <2>1. lock = a /\ editor[a].pc = "compare"
    BY <1>1, <1>5 DEF Rules!Compare, Rules!At, EditInv
  <2>2. CASE file[editor[a].of] \in {None, editor[a].seen}
    <3> DEFINE r == [editor[a] EXCEPT !.pc = "empty"]
    <3>1. r \in EditorRecord /\ r.pc = "empty" /\ r.of = editor[a].of /\ r.seen = editor[a].seen
      BY <1>1, <2>1 DEF EditorRecord, Saving
    <3> QED BY <1>5, <2>1, <2>2, <3>1, GoKeeps DEF Rules!Compare, Rules!Go
  <2>3. CASE file[editor[a].of] \notin {None, editor[a].seen}
    <3>1. Rules!Idle \in EditorRecord /\ Rules!Idle.pc = "idle"
      BY DEF Rules!Idle, EditorRecord
    <3> QED BY <1>5, <2>1, <2>3, <3>1, GoKeeps DEF Rules!Compare, Rules!Go
  <2> QED BY <2>2, <2>3
<1>6. CASE Rules!CreateRuleFile(a)
  <2>1. PICK f \in Files, from \in Files :
            editor' = [editor EXCEPT ![a] = [pc |-> "copy", of |-> f,
                          new |-> IF Rules!Exists(from) THEN file[from] ELSE CHOOSE c \in Valid : TRUE]]
    BY <1>6 DEF Rules!CreateRuleFile, Rules!Go
  <2> DEFINE c == IF Rules!Exists(from) THEN file[from] ELSE CHOOSE c \in Valid : TRUE
  <2>2. c \in RuleContents
    BY <1>1, RulesAssumption DEF RuleTyped, RuleContents
  <2> HIDE DEF c
  <2>3. [pc |-> "copy", of |-> f, new |-> c] \in EditorRecord
    BY <2>2 DEF EditorRecord
  <2>4. editor' = [editor EXCEPT ![a] = [pc |-> "copy", of |-> f, new |-> c]]
    BY <2>1 DEF c
  <2> QED BY <1>6, <2>3, <2>4, GoKeeps DEF Rules!CreateRuleFile
<1>7. CASE Rules!UpdateRepositoryConfig(a)
  <2>1. PICK r \in Repos, f \in Files \cup {None} : editor' = [editor EXCEPT ![a] = [pc |-> "update", of |-> r, new |-> f]]
    BY <1>7 DEF Rules!UpdateRepositoryConfig, Rules!Go
  <2>2. [pc |-> "update", of |-> r, new |-> f] \in EditorRecord
    BY DEF EditorRecord
  <2> QED BY <1>7, <2>1, <2>2, GoKeeps DEF Rules!UpdateRepositoryConfig
<1> QED BY <1>2, <1>3, <1>4, <1>5, <1>6, <1>7

\* Two requests do not write at a time, and a creation overtakes who is about to.
LEMMA FilesKept ==
    ASSUME RuleInv, NEW a \in Admins, Rules!EmptyFile(a) \/ Rules!WriteFile(a) \/ Rules!CopyFile(a)
    PROVE  RuleInv'
<1>1. RuleTyped /\ editor[a] \in EditorRecord /\ \A b \in Admins : EditInv(b)
  BY DEF RuleInv, RuleTyped
<1>2. Rules!Idle \in EditorRecord /\ Rules!Idle.pc = "idle"
  BY DEF Rules!Idle, EditorRecord
<1>3. CASE Rules!EmptyFile(a)
  <2> DEFINE r == [editor[a] EXCEPT !.pc = "write"]
  <2>1. editor[a].pc = "empty" /\ lock = a /\ editor' = [editor EXCEPT ![a] = r] /\ UNCHANGED <<config, lock>>
    BY <1>1, <1>3 DEF Rules!EmptyFile, Rules!At, Rules!Go, EditInv
  <2>2. r \in EditorRecord /\ r.pc = "write" /\ editor[a].of \in Files
    BY <1>1, <2>1 DEF EditorRecord, Saving
  <2>3. file' = [file EXCEPT ![editor[a].of] = Empty] /\ load' \in LoadRecord /\ LoadInv'
    BY <1>1, <1>3, StirredIs DEF Rules!EmptyFile, Rules!Put, RuleTyped
  <2>4. RuleTyped'
    BY <1>1, <2>1, <2>2, <2>3 DEF RuleTyped, RuleContents
  <2>5. ASSUME NEW b \in Admins PROVE EditInv(b)'
    BY <1>1, <2>1, <2>2, RulesAssumption DEF EditInv, RuleTyped
  <2> QED BY <2>3, <2>4, <2>5 DEF RuleInv
<1>4. CASE Rules!WriteFile(a)
  <2>1. editor[a].pc = "write" /\ lock = a /\ lock' = None /\ editor' = [editor EXCEPT ![a] = Rules!Idle] /\ UNCHANGED config
    BY <1>1, <1>4 DEF Rules!WriteFile, Rules!At, Rules!Go, EditInv
  <2>2. editor[a].of \in Files /\ editor[a].new \in RuleContents
    BY <1>1, <2>1 DEF EditorRecord, Saving
  <2>3. file' = [file EXCEPT ![editor[a].of] = editor[a].new] /\ load' \in LoadRecord /\ LoadInv'
    BY <1>1, <1>4, StirredIs DEF Rules!WriteFile, Rules!Put, RuleTyped
  <2>4. RuleTyped'
    BY <1>1, <1>2, <2>1, <2>2, <2>3 DEF RuleTyped
  <2>5. ASSUME NEW b \in Admins PROVE EditInv(b)'
    BY <1>1, <1>2, <2>1, RulesAssumption DEF EditInv, RuleTyped
  <2> QED BY <2>3, <2>4, <2>5 DEF RuleInv
<1>5. CASE Rules!CopyFile(a)
  <2>1. PICK r, c : /\ editor[a].pc \in {"copy", "copied"} /\ UNCHANGED <<config, lock>>
                    /\ Rules!Put(editor[a].of, c) /\ Rules!Overtake(a, r)
                    /\ \/ editor[a].pc = "copy" /\ c = Empty /\ r = [editor[a] EXCEPT !.pc = "copied"]
                       \/ editor[a].pc = "copied" /\ c = editor[a].new /\ r = Rules!Idle
    BY <1>5 DEF Rules!CopyFile, Rules!At
  <2>2. r \in EditorRecord /\ r.pc \in {"copied", "idle"} /\ editor[a].of \in Files /\ c \in RuleContents
    BY <1>1, <1>2, <2>1 DEF EditorRecord, Saving, RuleContents
  <2>3. file' = [file EXCEPT ![editor[a].of] = c] /\ load' \in LoadRecord /\ LoadInv'
    BY <1>1, <2>1, StirredIs DEF Rules!Put, RuleTyped
  <2>4. ASSUME NEW b \in Admins PROVE editor'[b] \in EditorRecord /\ EditInv(b)'
    <3>1. CASE b = a
      BY <2>1, <2>2, <3>1 DEF Rules!Overtake, EditInv
    <3>2. CASE b # a /\ editor[b].pc \in {"view", "lock", "compare", "empty"} /\ editor[b].of = editor[a].of
      <4>1. editor'[b] = [editor[b] EXCEPT !.overtaken = TRUE] /\ editor[b] \in EditorRecord
        BY <1>1, <2>1, <3>2 DEF Rules!Overtake, RuleTyped
      <4>2. editor'[b] \in EditorRecord /\ editor'[b].overtaken = TRUE /\ editor'[b].pc = editor[b].pc
        BY <3>2, <4>1 DEF EditorRecord, Saving
      <4> QED BY <1>1, <2>1, <4>2 DEF EditInv
    <3>3. CASE b # a /\ ~(editor[b].pc \in {"view", "lock", "compare", "empty"} /\ editor[b].of = editor[a].of)
      <4>1. editor'[b] = editor[b] /\ editor[b] \in EditorRecord
        BY <1>1, <2>1, <3>3 DEF Rules!Overtake, RuleTyped
      <4>2. editor[b].pc = "empty" => file'[editor[b].of] = file[editor[b].of]
        BY <1>1, <2>2, <2>3, <3>3 DEF RuleTyped
      <4> QED BY <1>1, <2>1, <4>1, <4>2 DEF EditInv
    <3> QED BY <3>1, <3>2, <3>3
  <2>5. RuleTyped'
    BY <1>1, <2>1, <2>2, <2>3, <2>4 DEF RuleTyped, Rules!Overtake
  <2> QED BY <2>3, <2>4, <2>5 DEF RuleInv
<1> QED BY <1>3, <1>4, <1>5

LEMMA ConfigKeeps ==
    ASSUME RuleInv,
           \/ \E r \in Repos : Rules!EnsureConfig(r)
           \/ \E a \in Admins : \/ Rules!CreateRepositoryConfig(a) \/ Rules!DeleteRepositoryConfig(a)
                                \/ Rules!SaveConfig(a)
    PROVE  RuleInv'
<1> DEFINE ConfigRecord == [state : {"none", "live", "deleted"}, file : Files \cup {None}]
<1>1. RuleTyped /\ \A b \in Admins : EditInv(b)
  BY DEF RuleInv
<1>2. load' \in LoadRecord /\ LoadInv' /\ UNCHANGED <<file, lock>>
  <2>1. Rules!Stirred /\ UNCHANGED <<file, lock>>
    BY DEF Rules!EnsureConfig, Rules!CreateRepositoryConfig, Rules!DeleteRepositoryConfig, Rules!SaveConfig
  <2> QED BY <1>1, <2>1, StirredIs DEF RuleTyped
<1> DEFINE Kept == /\ config' \in [Repos -> ConfigRecord]
                   /\ UNCHANGED editor \/ \E a \in Admins : editor' = [editor EXCEPT ![a] = Rules!Idle]
<1>3. Kept
  <2>1. ASSUME NEW r \in Repos, Rules!EnsureConfig(r) PROVE Kept
    BY <1>1, <2>1 DEF Rules!EnsureConfig, RuleTyped
  <2>2. ASSUME NEW a \in Admins, Rules!CreateRepositoryConfig(a) PROVE Kept
    BY <1>1, <2>2 DEF Rules!CreateRepositoryConfig, RuleTyped
  <2>3. ASSUME NEW a \in Admins, Rules!DeleteRepositoryConfig(a) PROVE Kept
    <3>1. PICK r \in Repos : config' = [config EXCEPT ![r].state = "deleted"]
      BY <2>3 DEF Rules!DeleteRepositoryConfig
    <3> QED BY <1>1, <2>3, <3>1 DEF Rules!DeleteRepositoryConfig, RuleTyped
  <2>4. ASSUME NEW a \in Admins, Rules!SaveConfig(a) PROVE Kept
    <3>1. editor[a].of \in Repos /\ editor[a].new \in Files \cup {None}
      BY <1>1, <2>4 DEF Rules!SaveConfig, Rules!At, RuleTyped, EditorRecord, Saving
    <3> QED BY <1>1, <2>4, <3>1 DEF Rules!SaveConfig, Rules!Go, RuleTyped
  <2> QED BY <2>1, <2>2, <2>3, <2>4
<1>4. Rules!Idle \in EditorRecord /\ Rules!Idle.pc = "idle"
  BY DEF Rules!Idle, EditorRecord
<1>5. RuleTyped'
  BY <1>1, <1>2, <1>3, <1>4 DEF RuleTyped
<1>6. ASSUME NEW b \in Admins PROVE EditInv(b)'
  <2>1. editor'[b] = editor[b] \/ editor'[b] = Rules!Idle
    BY <1>1, <1>3 DEF RuleTyped
  <2> QED BY <1>1, <1>2, <1>4, <2>1 DEF EditInv
<1> QED BY <1>2, <1>5, <1>6 DEF RuleInv

\* The order in which a load asks is the order of priority.
LEMMA LoadKeeps ==
    ASSUME RuleInv,
           \/ Rules!BeginLoad \/ Rules!LoadFromRepoRoot \/ Rules!FindConfig \/ Rules!LoadConfigured
           \/ Rules!LoadDefaultReviewConfig
    PROVE  RuleInv'
<1>1. RuleTyped /\ LoadInv /\ UNCHANGED <<file, config, lock, editor>>
  BY DEF RuleInv, Rules!BeginLoad, Rules!LoadFromRepoRoot, Rules!FindConfig, Rules!LoadConfigured,
     Rules!LoadDefaultReviewConfig, Rules!Keep
<1>2. \A r \in Repos : Rules!FileOf(r) \in Files \cup {None} /\ Rules!FileOf(r)' = Rules!FileOf(r)
  BY <1>1 DEF RuleTyped, Rules!FileOf
<1>3. \A r \in Repos, c \in RuleContents : Rules!Pick(c, r) \in RuleContents /\ Rules!Pick(c, r)' = Rules!Pick(c, r)
  BY <1>1, RulesAssumption DEF RuleTyped, Rules!Pick, Rules!Loads, RuleContents
<1>4. \A r \in Repos : \A c : Rules!Pick(c, r) = IF c \in Valid THEN c
                              ELSE IF Rules!FileOf(r) # None /\ file[Rules!FileOf(r)] \in Valid THEN file[Rules!FileOf(r)]
                              ELSE IF file[Default] \in Valid THEN file[Default] ELSE None
  BY DEF Rules!Pick, Rules!Loads, Rules!FileOf
<1>5. load' \in LoadRecord /\ LoadInv'
  <2>1. CASE Rules!BeginLoad
    <3>1. PICK r \in Repos, root \in RuleContents :
              load' = [pc |-> "root", of |-> r, root |-> root, file |-> None, used |-> None, calm |-> TRUE,
                       want |-> Rules!Pick(root, r)]
      BY <2>1 DEF Rules!BeginLoad, RuleContents
    <3> QED BY <1>3, <3>1 DEF LoadRecord, LoadSteps, LoadInv, RuleContents
  <2>2. CASE load.pc \in LoadSteps
    <3>1. /\ load.of \in Repos /\ load.root \in RuleContents /\ load.want \in RuleContents
          /\ load \in [pc : LoadSteps, of : Repos, root : RuleContents, file : Files \cup {None}, used : RuleContents,
                       calm : BOOLEAN, want : RuleContents]
      BY <1>1, <2>2 DEF RuleTyped, LoadRecord, LoadSteps
    <3>2. ASSUME NEW c \in RuleContents, load' = Rules!Loaded(c), load.pc # "done",
                 load.calm => c = Rules!Pick(load.root, load.of)
          PROVE  load' \in LoadRecord /\ LoadInv'
      <4>1. /\ load' \in LoadRecord /\ load'.pc = "done" /\ load'.used = c /\ load'.want = load.want /\ load'.calm = load.calm
        BY <3>1, <3>2 DEF Rules!Loaded, LoadRecord, LoadSteps
      <4> QED BY <1>1, <3>1, <3>2, <4>1 DEF LoadInv, LoadSteps
    <3>3. ASSUME NEW step \in {"row", "file", "default"}, NEW f \in Files \cup {None}, NEW c \in {load.calm, FALSE},
                 load' = [load EXCEPT !.pc = step, !.file = f, !.calm = c], load.pc # "done",
                 load.calm => load.root \notin Valid,
                 step = "file" => f = Rules!FileOf(load.of) /\ f # None,
                 step = "default" /\ c => Rules!FileOf(load.of) = None \/ file[Rules!FileOf(load.of)] \notin Valid
          PROVE  load' \in LoadRecord /\ LoadInv'
      <4>1. /\ load' \in LoadRecord /\ load'.pc = step /\ load'.of = load.of /\ load'.root = load.root
            /\ load'.want = load.want /\ load'.calm = c /\ load'.file = f
        BY <3>1, <3>3 DEF LoadRecord, LoadSteps
      <4> QED BY <1>1, <1>2, <1>3, <3>1, <3>3, <4>1 DEF LoadInv, LoadSteps
    <3>4. CASE Rules!LoadFromRepoRoot
      <4>1. CASE load.root \in Valid
        BY <1>4, <3>1, <3>2, <3>4, <4>1 DEF Rules!LoadFromRepoRoot, Rules!Loads
      <4>2. CASE load.root \notin Valid
        <5>1. load' = [load EXCEPT !.pc = "row", !.file = load.file, !.calm = load.calm] /\ load.file \in Files \cup {None}
          BY <3>1, <3>4, <4>2 DEF Rules!LoadFromRepoRoot, Rules!Loads
        <5> QED BY <3>1, <3>3, <3>4, <4>2, <5>1 DEF Rules!LoadFromRepoRoot
      <4> QED BY <4>1, <4>2
    <3>5. CASE Rules!FindConfig
      <4>1. load.pc = "row" /\ (load.calm => load.root \notin Valid)
        BY <1>1, <3>5 DEF Rules!FindConfig, LoadInv
      <4>2. CASE load' = [load EXCEPT !.file = Rules!FileOf(load.of), !.pc = IF Rules!FileOf(load.of) = None THEN "default" ELSE "file"]
        <5> DEFINE step == IF Rules!FileOf(load.of) = None THEN "default" ELSE "file"
        <5>1. load' = [load EXCEPT !.pc = step, !.file = Rules!FileOf(load.of), !.calm = load.calm]
          BY <3>1, <4>2
        <5>2. step \in {"file", "default"} /\ (step = "default" <=> Rules!FileOf(load.of) = None)
          OBVIOUS
        <5> HIDE DEF step
        <5> QED BY <1>2, <3>1, <3>3, <4>1, <5>1, <5>2
      <4>3. CASE load' = [load EXCEPT !.pc = "default", !.calm = FALSE]
        <5>1. load' = [load EXCEPT !.pc = "default", !.file = load.file, !.calm = FALSE] /\ load.file \in Files \cup {None}
          BY <3>1, <4>3
        <5> QED BY <3>1, <3>3, <4>1, <5>1
      <4> QED BY <3>5, <4>2, <4>3 DEF Rules!FindConfig
    <3>6. CASE Rules!LoadConfigured
      <4>1. load.pc = "file" /\ (load.calm => load.root \notin Valid /\ load.file = Rules!FileOf(load.of) /\ load.file # None)
        BY <1>1, <3>6 DEF Rules!LoadConfigured, LoadInv
      <4>2. CASE file[load.file] \in Valid
        <5>1. file[load.file] \in RuleContents
          BY <4>2, RulesAssumption DEF RuleContents
        <5> QED BY <1>4, <3>1, <3>2, <3>6, <4>1, <4>2, <5>1 DEF Rules!LoadConfigured, Rules!Loads
      <4>3. CASE file[load.file] \notin Valid
        <5>1. load' = [load EXCEPT !.pc = "default", !.file = load.file, !.calm = load.calm] /\ load.file \in Files \cup {None}
          BY <3>1, <3>6, <4>3 DEF Rules!LoadConfigured, Rules!Loads
        <5> QED BY <3>1, <3>3, <4>1, <4>3, <5>1
      <4> QED BY <4>2, <4>3
    <3>7. CASE Rules!LoadDefaultReviewConfig
      <4> DEFINE c == IF file[Default] \in Valid THEN file[Default] ELSE None
      <4>1. load.pc = "default" /\ load' = Rules!Loaded(c) /\ c \in RuleContents
        BY <3>7, RulesAssumption DEF Rules!LoadDefaultReviewConfig, Rules!Loads, RuleContents
      <4>2. load.calm => load.root \notin Valid /\ (Rules!FileOf(load.of) = None \/ file[Rules!FileOf(load.of)] \notin Valid)
        BY <1>1, <4>1 DEF LoadInv
      <4>3. load.calm => c = Rules!Pick(load.root, load.of)
        BY <1>4, <3>1, <4>2
      <4> HIDE DEF c
      <4> QED BY <3>2, <4>1, <4>3
    <3>8. CASE Rules!BeginLoad
      BY <2>1, <3>8
    <3> QED BY <3>4, <3>5, <3>6, <3>7, <3>8
  <2> QED BY <2>1, <2>2 DEF Rules!LoadFromRepoRoot, Rules!FindConfig, Rules!LoadConfigured,
             Rules!LoadDefaultReviewConfig, LoadSteps
<1>6. RuleTyped' /\ \A a \in Admins : EditInv(a)'
  BY <1>1, <1>5 DEF RuleInv, RuleTyped, EditInv
<1> QED BY <1>5, <1>6 DEF RuleInv

LEMMA RulesStep == RuleInv /\ [Rules!Next]_(Rules!vars) => RuleInv'
<1> SUFFICES ASSUME RuleInv, [Rules!Next]_(Rules!vars) PROVE RuleInv'
  OBVIOUS
<1>1. CASE UNCHANGED Rules!vars
  BY <1>1 DEF Rules!vars, RuleInv, RuleTyped, LoadInv, EditInv, Rules!FileOf, Rules!Pick, Rules!Loads
<1>2. CASE Rules!Next
  BY <1>2, RequestKeeps, FilesKept, ConfigKeeps, LoadKeeps DEF Rules!Next
<1> QED BY <1>1, <1>2

LEMMA IntakeRules == IntakeSpec => Rules!Init /\ [][Rules!Next]_(Rules!vars)
<1>1. IntakeInit => Rules!Init
  BY DEF IntakeInit
<1>2. [IntakeNext]_allVars => [Rules!Next]_(Rules!vars)
  BY DEF IntakeNext, allVars, rulesVars, Rules!vars
<1> QED BY <1>1, <1>2, PTL DEF IntakeSpec

\* Who saves a rule file overwrites what he has seen, as long as nobody creates
\* the file meanwhile; a task is given the rules that priority asks for, as
\* long as nobody changes them meanwhile; and the file of a repository changes
\* by an update of an administrator only (SaveRule, LoadReviewConfig,
\* EnsureConfig).
THEOREM RulesAreKept == IntakeSpec => RulesKept
<1>1. RuleInv /\ [Rules!Next]_(Rules!vars) =>
          [\A a \in Admins : (Rules!At(a, "empty") /\ editor'[a].pc = "write" /\ ~editor[a].overtaken) =>
              file[editor[a].of] \in {None, editor[a].seen}]_(Rules!vars)
  BY DEF RuleInv, EditInv, Rules!At
<1>2. RuleInv => Rules!LoadedAsConfigured
  BY DEF RuleInv, LoadInv, Rules!LoadedAsConfigured
<1>3. RuleInv /\ [Rules!Next]_(Rules!vars) =>
          [\A r \in Repos :
              (config[r].state = "live" /\ config'[r].state = "live" /\ config'[r].file # config[r].file) =>
                  \E a \in Admins : Rules!At(a, "update") /\ editor[a].of = r /\ editor[a].new = config'[r].file]_(Rules!vars)
  <2> SUFFICES ASSUME RuleInv, Rules!Next, NEW r \in Repos, config[r].state = "live", config'[r].state = "live",
                      config'[r].file # config[r].file
               PROVE  \E a \in Admins : Rules!At(a, "update") /\ editor[a].of = r /\ editor[a].new = config'[r].file
    OBVIOUS
  <2>1. config \in [Repos -> [state : {"none", "live", "deleted"}, file : Files \cup {None}]]
    BY DEF RuleInv, RuleTyped
  <2>2. config' # config
    OBVIOUS
  <2>3. \/ \E q \in Repos : Rules!EnsureConfig(q)
        \/ \E a \in Admins : \/ Rules!CreateRepositoryConfig(a) \/ Rules!DeleteRepositoryConfig(a) \/ Rules!SaveConfig(a)
    BY <2>2 DEF Rules!Next, Rules!GetRule, Rules!BeginSave, Rules!Lock, Rules!Compare, Rules!EmptyFile, Rules!WriteFile,
       Rules!CreateRuleFile, Rules!CopyFile, Rules!UpdateRepositoryConfig, Rules!BeginLoad, Rules!LoadFromRepoRoot,
       Rules!FindConfig, Rules!LoadConfigured, Rules!LoadDefaultReviewConfig, Rules!Keep
  <2>4. ASSUME NEW q \in Repos, Rules!EnsureConfig(q) PROVE FALSE
    BY <2>1, <2>4 DEF Rules!EnsureConfig
  <2>5. ASSUME NEW a \in Admins, Rules!CreateRepositoryConfig(a) PROVE FALSE
    BY <2>1, <2>5 DEF Rules!CreateRepositoryConfig
  <2>6. ASSUME NEW a \in Admins, Rules!DeleteRepositoryConfig(a) PROVE FALSE
    BY <2>1, <2>6 DEF Rules!DeleteRepositoryConfig
  <2>7. ASSUME NEW a \in Admins, Rules!SaveConfig(a)
        PROVE  Rules!At(a, "update") /\ editor[a].of = r /\ editor[a].new = config'[r].file
    BY <2>1, <2>7 DEF Rules!SaveConfig
  <2> QED BY <2>3, <2>4, <2>5, <2>6, <2>7
<1> QED BY <1>1, <1>2, <1>3, RulesInitially, RulesStep, IntakeRules, PTL
       DEF RulesKept, Rules!OverwritesWhatWasSeen, Rules!FileStaysConfigured

-----------------------------------------------------------------------------
(* Tables *)

Copying == {"create", "copy", "drop", "rename", "index", "commit"}
OneByOne == {"check", "structure"} \cup Copying
Reasons == {"statement", "twins", "columns"}
TablesTyped ==
    /\ tables \in [Tables!Tables -> TableRecord] /\ providers \in {"array", "other"}
    /\ pc \in OneByOne \cup {"auto", "data", "running", "down"}
    /\ pc = "down" => at = 1
    /\ pc \in OneByOne => at \in 1..4
    /\ pc \in {"auto", "data", "running"} => at = 5
    /\ why \in Reasons \cup {None}
TableCounts == mishaps \in 0..MaxFaults /\ kills \in 0..MaxCrashes

\* The transaction holds the rows of the table that is copied, and its copy has
\* the key.
Whole(c) == c \in TableRecord /\ c.state = "current" /\ (Tables!Table \in Tables!Unique => c.pk)
CopyInv ==
    /\ pc \in Copying => tx.table \in TableRecord /\ tx = [table |-> tx.table, copy |-> tx.copy]
    /\ pc \in {"create", "copy"} => tx.table = tables[Tables!Table]
    /\ pc \in {"copy", "drop", "rename"} => Whole(tx.copy)
    /\ pc \in {"drop", "rename"} => tx.copy.rows = tables[Tables!Table].rows
    /\ pc \in {"index", "commit"} => Whole(tx.table) /\ tx.table.rows = tables[Tables!Table].rows
    /\ pc = "structure" => Tables!Table \in Tables!Summary /\ tables[Tables!Table].state = "current"

\* The tables that have had their turn are not old, and have a key.
Ready(t) == tables[t].state # "old" /\ (tables[t].state = "current" => tables[t].pk)
KeysInv ==
    /\ \A t \in Tables!Unique : tables[t].state # "absent" => tables[t].pk
    /\ (pc # "down" /\ mishaps = 0) => \A i \in 1..4 : i < at => Ready(Tables!Order[i])
    /\ pc \in {"data", "running"} => \A t \in Tables!Tables : Tables!Done(t)

WhyInv == (pc = "down" /\ mishaps > 0 /\ kills = 0) => why # None

TableInv == TablesTyped /\ TableCounts /\ CopyInv /\ KeysInv /\ WhyInv

LEMMA OrderIs ==
    /\ \A i \in 1..4 : Tables!Order[i] \in Tables!Tables
    /\ \A i, j \in 1..4 : Tables!Order[i] = Tables!Order[j] => i = j
    /\ \A t \in Tables!Tables : \E i \in 1..4 : t = Tables!Order[i]
    /\ Tables!Tables = Tables!Unique \cup Tables!Summary /\ Tables!Unique \cap Tables!Summary = {}
<1>1. /\ Tables!Order[1] = "repository_review_configs" /\ Tables!Order[2] = "reviews"
      /\ Tables!Order[3] = "review_rules" /\ Tables!Order[4] = "review_rule_runs"
  BY DEF Tables!Order
<1>2. 1..4 = {1, 2, 3, 4}
  OBVIOUS
<1> QED BY <1>1, <1>2 DEF Tables!Tables, Tables!Unique, Tables!Summary

LEMMA IndexIs ==
    ASSUME NEW r \in TableRecord, NEW b \in BOOLEAN
    PROVE  LET q == [r EXCEPT !.index = b] IN
           q \in TableRecord /\ q.rows = r.rows /\ q.state = r.state /\ q.pk = r.pk /\ q.lean = r.lean /\ q.index = b
BY DEF TableRecord

LEMMA NewIs ==
    ASSUME NEW k \in BOOLEAN, NEW l \in BOOLEAN
    PROVE  LET q == [Tables!Absent EXCEPT !.state = "current", !.pk = k, !.lean = l] IN
           q \in TableRecord /\ q.state = "current" /\ q.pk = k
BY DEF Tables!Absent, TableRecord

LEMMA TablesInitially == Tables!Init => TableInv
BY TablesAssumption, IntakeAssumption, DirectoriesAssumption
   DEF Tables!Init, TableInv, TablesTyped, TableCounts, CopyInv, KeysInv, WhyInv, OneByOne, Copying, Git!DirectoryAssumption

\* A mishap is counted; init gives up after most.
LEMMA FailKeeps ==
    ASSUME TableInv, NEW reason \in Reasons, Tables!Fail(reason), UNCHANGED <<tables, providers, kills>>,
           UNCHANGED mishaps \/ Tables!Mishap
    PROVE  TableInv'
BY TablesAssumption, IntakeAssumption
   DEF Tables!Fail, Tables!Mishap, TableInv, TablesTyped, TableCounts, CopyInv, KeysInv, WhyInv, OneByOne, Copying, Reasons

\* A step within a transaction.
LEMMA WithinKeeps ==
    ASSUME TableInv, pc \in OneByOne, NEW step \in Copying, Tables!Then(step), UNCHANGED <<tables, providers, kills>>,
           UNCHANGED mishaps \/ Tables!Mishap, CopyInv'
    PROVE  TableInv'
<1>1. TablesTyped' /\ TableCounts' /\ WhyInv'
  BY IntakeAssumption DEF TableInv, TablesTyped, TableCounts, WhyInv, Tables!Then, Tables!Mishap, OneByOne, Copying
<1>2. KeysInv'
  BY IntakeAssumption DEF TableInv, TableCounts, KeysInv, Tables!Then, Tables!Mishap, Ready, OneByOne, Copying
<1> QED BY <1>1, <1>2 DEF TableInv

\* The turn of the next table.
LEMMA NextTableKeeps ==
    ASSUME TableInv, pc \in OneByOne, Tables!NextTable, UNCHANGED <<providers, kills>>, UNCHANGED mishaps \/ Tables!Mishap,
           NEW r \in TableRecord, tables' = [tables EXCEPT ![Tables!Table] = r],
           mishaps' = 0 => r.state # "old" /\ (r.state = "current" => r.pk),
           Tables!Table \in Tables!Unique /\ r.state # "absent" => r.pk
    PROVE  TableInv'
<1>1. at \in 1..4 /\ at' = at + 1 /\ pc' = IF at < 4 THEN "check" ELSE "auto"
  BY DEF TableInv, TablesTyped, Tables!NextTable
<1>2. TablesTyped' /\ TableCounts' /\ WhyInv'
  <2>1. TableCounts'
    BY IntakeAssumption DEF TableInv, TableCounts, Tables!Mishap
  <2>2. tables' \in [Tables!Tables -> TableRecord] /\ providers' \in {"array", "other"} /\ why' \in Reasons \cup {None}
    BY DEF TableInv, TablesTyped, Tables!NextTable
  <2>3. (at' \in 1..4 /\ pc' = "check") \/ (at' = 5 /\ pc' = "auto")
    BY <1>1
  <2> QED BY <2>1, <2>2, <2>3 DEF TablesTyped, WhyInv, OneByOne, Copying
<1>3. CopyInv'
  BY <1>1 DEF CopyInv, Copying
<1>4. /\ Tables!Table = Tables!Order[at] /\ tables \in [Tables!Tables -> TableRecord]
      /\ \A t \in Tables!Tables : tables'[t] = IF t = Tables!Table THEN r ELSE tables[t]
  BY DEF Tables!Table, TableInv, TablesTyped
<1>5. KeysInv'
  <2>1. \A t \in Tables!Unique : tables'[t].state # "absent" => tables'[t].pk
    BY <1>4, OrderIs DEF TableInv, KeysInv
  <2>2. ASSUME mishaps' = 0, NEW i \in 1..4, i < at' PROVE Ready(Tables!Order[i])'
    <3>1. mishaps = 0
      BY <2>2 DEF TableInv, TableCounts, Tables!Mishap
    <3>2. CASE i = at
      BY <1>4, <2>2, <3>2, OrderIs DEF Ready
    <3>3. CASE i # at
      <4>1. i < at /\ pc # "down"
        BY <1>1, <2>2, <3>3 DEF OneByOne, Copying
      <4>2. Ready(Tables!Order[i]) /\ tables'[Tables!Order[i]] = tables[Tables!Order[i]]
        BY <1>1, <1>4, <3>1, <3>3, <4>1, OrderIs DEF TableInv, KeysInv
      <4> QED BY <4>2 DEF Ready
    <3> QED BY <3>2, <3>3
  <2> QED BY <1>1, <2>1, <2>2 DEF KeysInv
<1> QED BY <1>2, <1>3, <1>5 DEF TableInv

LEMMA CopyKeeps ==
    ASSUME TableInv, Tables!Check \/ Tables!Create \/ Tables!Copy \/ Tables!Drop \/ Tables!Rename
    PROVE  TableInv'
<1>1. /\ pc \in OneByOne /\ at \in 1..4 /\ tables[Tables!Table] \in TableRecord /\ UNCHANGED <<tables, providers, kills, mishaps>>
      /\ tables \in [Tables!Tables -> TableRecord] /\ CopyInv
      /\ Tables!Table \in Tables!Tables
  <2>1. pc \in OneByOne /\ UNCHANGED <<tables, providers, kills, mishaps>>
    BY DEF Tables!Check, Tables!Create, Tables!Copy, Tables!Drop, Tables!Rename, Tables!Statement, Tables!Same, OneByOne, Copying
  <2> QED BY <2>1, OrderIs DEF TableInv, TablesTyped, Tables!Table
<1>2. at' = at => UNCHANGED Tables!Table
  BY DEF Tables!Table
<1>3. CASE Tables!Check
  <2> DEFINE t == tables[Tables!Table]
  <2>1. CASE t.state = "old" /\ Tables!Then("create") /\ tx' = [table |-> t, copy |-> None]
    <3>1. CopyInv'
      BY <1>1, <1>2, <2>1 DEF CopyInv, Tables!Then, Copying
    <3> QED BY <1>1, <2>1, <3>1, WithinKeeps DEF Copying
  <2>2. CASE t.state = "current" /\ Tables!Table \in Tables!Summary /\ Tables!Then("structure") /\ UNCHANGED tx
    <3>1. CopyInv'
      BY <1>1, <1>2, <2>2 DEF CopyInv, Tables!Then, Copying
    <3>2. TablesTyped' /\ WhyInv' /\ TableCounts'
      BY <1>1, <2>2 DEF TableInv, TablesTyped, TableCounts, WhyInv, Tables!Then, OneByOne, Copying
    <3>3. KeysInv'
      BY <1>1, <2>2 DEF TableInv, KeysInv, Tables!Then, Ready, OneByOne, Copying
    <3> QED BY <3>1, <3>2, <3>3 DEF TableInv
  <2>3. CASE ~(t.state = "old" \/ (t.state = "current" /\ Tables!Table \in Tables!Summary)) /\ Tables!NextTable
    <3>1. tables' = [tables EXCEPT ![Tables!Table] = t]
      BY <1>1
    <3>2. t.state \in {"absent", "current"} /\ (t.state = "current" => Tables!Table \in Tables!Unique /\ t.pk)
      BY <1>1, <2>3, OrderIs DEF TableInv, KeysInv, TableRecord
    <3> QED BY <1>1, <2>3, <3>1, <3>2, NextTableKeeps DEF TableInv, KeysInv
  <2> QED BY <1>3, <2>1, <2>2, <2>3 DEF Tables!Check
<1>4. CASE Tables!Create
  <2> DEFINE c == [Tables!Absent EXCEPT !.state = "current", !.pk = Tables!Table \in Tables!Unique,
                                        !.lean = Tables!Table \in Tables!Summary /\ tx.table.lean]
  <2>1. Tables!Then("copy") /\ pc = "create" /\ tx' = [tx EXCEPT !.copy = c]
    BY <1>4 DEF Tables!Create, Tables!Statement
  <2>2. Whole(c)
    <3>1. (Tables!Table \in Tables!Unique) \in BOOLEAN /\ (Tables!Table \in Tables!Summary /\ tx.table.lean) \in BOOLEAN
      OBVIOUS
    <3>2. c \in TableRecord /\ c.state = "current" /\ c.pk = (Tables!Table \in Tables!Unique)
      BY <3>1, NewIs, Zenon
    <3> QED BY <3>2, Zenon DEF Whole
  <2>3. CopyInv'
    BY <1>1, <1>2, <2>1, <2>2 DEF CopyInv, Whole, Tables!Then, Copying
  <2> QED BY <1>1, <2>1, <2>3, WithinKeeps DEF Copying
<1>5. CASE Tables!Copy
  <2>1. CASE Tables!Fail("columns")
    BY <1>1, <2>1, FailKeeps DEF Reasons
  <2>2. CASE tx' = [tx EXCEPT !.copy.rows = tx.table.rows] /\ Tables!Then("drop")
    <3>1. pc = "copy" /\ tx = [table |-> tx.table, copy |-> tx.copy] /\ Whole(tx.copy) /\ tx.table = tables[Tables!Table]
      BY <1>1, <1>5 DEF Tables!Copy, Tables!Statement, CopyInv, Copying
    <3>2. tx'.table = tx.table /\ tx'.copy = [tx.copy EXCEPT !.rows = tx.table.rows] /\ tx' = [table |-> tx'.table, copy |-> tx'.copy]
      BY <2>2, <3>1
    <3>3. tx'.copy.rows = tables[Tables!Table].rows /\ Whole(tx'.copy)
      BY <1>1, <3>1, <3>2 DEF Whole, TableRecord
    <3>4. CopyInv'
      BY <1>1, <1>2, <2>2, <3>1, <3>2, <3>3 DEF CopyInv, Whole, Tables!Then, Copying
    <3> QED BY <1>1, <2>2, <3>4, WithinKeeps DEF Copying
  <2> QED BY <1>5, <2>1, <2>2 DEF Tables!Copy
<1>6. CASE Tables!Drop
  <2>1. pc = "drop" /\ tx' = [tx EXCEPT !.table = Tables!Absent] /\ Tables!Then("rename") /\ Tables!Absent \in TableRecord
    BY <1>6 DEF Tables!Drop, Tables!Statement, Tables!Absent, TableRecord
  <2>2. CopyInv'
    BY <1>1, <1>2, <2>1 DEF CopyInv, Whole, Tables!Then, Copying
  <2> QED BY <1>1, <2>1, <2>2, WithinKeeps DEF Copying
<1>7. CASE Tables!Rename
  <2>1. pc = "rename" /\ tx' = [tx EXCEPT !.table = tx.copy, !.copy = None] /\ Tables!Then("index")
    BY <1>7 DEF Tables!Rename, Tables!Statement
  <2>2. CopyInv'
    BY <1>1, <1>2, <2>1 DEF CopyInv, Whole, Tables!Then, Copying
  <2> QED BY <1>1, <2>1, <2>2, WithinKeeps DEF Copying
<1> QED BY <1>3, <1>4, <1>5, <1>6, <1>7

LEMMA IndexKeeps ==
    ASSUME TableInv, Tables!CreateIndex
    PROVE  TableInv'
<1>1. pc = "index" /\ UNCHANGED <<tables, providers, kills>> /\ CopyInv
  BY DEF Tables!CreateIndex, Tables!Statement, Tables!Same, TableInv
<1>2. CASE Tables!Fail("twins") /\ UNCHANGED mishaps
  BY <1>1, <1>2, FailKeeps DEF Reasons
<1>3. CASE Tables!Then("commit") /\ (UNCHANGED mishaps \/ Tables!Mishap)
           /\ (UNCHANGED tx \/ tx' = [tx EXCEPT !.table.index = Tables!Table \in Tables!Unique])
  <2> DEFINE Indexed == /\ tx'.table \in TableRecord /\ tx' = [table |-> tx'.table, copy |-> tx'.copy]
                        /\ tx'.table.rows = tx.table.rows /\ tx'.table.state = tx.table.state /\ tx'.table.pk = tx.table.pk
  <2>1. Indexed
    <3>1. tx.table \in TableRecord /\ tx = [table |-> tx.table, copy |-> tx.copy]
      BY <1>1 DEF CopyInv, Copying
    <3>2. CASE UNCHANGED tx
      BY <3>1, <3>2
    <3>3. ASSUME tx' = [tx EXCEPT !.table.index = Tables!Table \in Tables!Unique] PROVE Indexed
      <4> DEFINE q == [tx.table EXCEPT !.index = Tables!Table \in Tables!Unique]
      <4>1. (Tables!Table \in Tables!Unique) \in BOOLEAN
        OBVIOUS
      <4>2. q \in TableRecord /\ q.rows = tx.table.rows /\ q.state = tx.table.state /\ q.pk = tx.table.pk
        BY <3>1, <4>1, IndexIs, Zenon
      <4>3. tx' = [tx EXCEPT !.table = q]
        BY <3>3
      <4> HIDE DEF q
      <4>4. tx' = [table |-> q, copy |-> tx.copy]
        BY <3>1, <4>3
      <4> QED BY <4>2, <4>4
    <3> QED BY <1>3, <3>2, <3>3
  <2>2. CopyInv'
    BY <1>1, <1>3, <2>1 DEF CopyInv, Whole, Tables!Then, Tables!Table, Copying
  <2> QED BY <1>1, <1>3, <2>2, WithinKeeps DEF Copying, OneByOne
<1> QED BY <1>2, <1>3 DEF Tables!CreateIndex

LEMMA CommitKeeps ==
    ASSUME TableInv, Tables!Commit \/ Tables!CheckStructure
    PROVE  TableInv'
<1>1. /\ pc \in OneByOne /\ at \in 1..4 /\ tables[Tables!Table] \in TableRecord /\ UNCHANGED <<providers, kills>>
      /\ tables \in [Tables!Tables -> TableRecord] /\ CopyInv /\ Tables!Table \in Tables!Tables
  <2>1. pc \in OneByOne /\ UNCHANGED <<providers, kills>>
    BY DEF Tables!Commit, Tables!CheckStructure, Tables!Statement, OneByOne, Copying
  <2> QED BY <2>1, OrderIs DEF TableInv, TablesTyped, Tables!Table
<1>2. CASE Tables!Commit
  <2>1. pc = "commit" /\ tables' = [tables EXCEPT ![Tables!Table] = tx.table] /\ Whole(tx.table) /\ UNCHANGED mishaps
    BY <1>1, <1>2 DEF Tables!Commit, Tables!Statement, CopyInv
  <2>2. CASE Tables!Table \in Tables!Summary
    <3>1. Tables!Then("structure") /\ tx' = None
      BY <1>2, <2>2 DEF Tables!Commit
    <3>2. TablesTyped' /\ TableCounts' /\ WhyInv'
      BY <1>1, <2>1, <3>1 DEF TableInv, TablesTyped, TableCounts, WhyInv, Whole, Tables!Then, OneByOne, Copying
    <3>3. CopyInv'
      BY <1>1, <2>1, <2>2, <3>1 DEF CopyInv, Whole, Tables!Then, Tables!Table, Copying
    <3>4. \A i \in 1..4 : i < at => tables'[Tables!Order[i]] = tables[Tables!Order[i]]
      BY <1>1, <2>1, OrderIs DEF Tables!Table
    <3>5. \A t \in Tables!Unique : tables'[t] = tables[t]
      BY <1>1, <2>1, <2>2, OrderIs
    <3>6. KeysInv'
      BY <1>1, <2>1, <3>1, <3>4, <3>5 DEF TableInv, KeysInv, Tables!Then, Ready, OneByOne, Copying
    <3> QED BY <3>2, <3>3, <3>6 DEF TableInv
  <2>3. CASE Tables!Table \notin Tables!Summary
    <3>1. Tables!NextTable /\ Tables!Table \in Tables!Unique
      BY <1>1, <1>2, <2>3, OrderIs DEF Tables!Commit
    <3> QED BY <1>1, <2>1, <3>1, NextTableKeeps DEF Whole
  <2> QED BY <2>2, <2>3
<1>3. CASE Tables!CheckStructure /\ Tables!NextTable
  <2>1. pc = "structure" /\ Tables!Table \in Tables!Summary /\ tables[Tables!Table].state = "current"
    BY <1>1, <1>3 DEF Tables!CheckStructure, Tables!Statement, CopyInv
  <2>2. PICK q \in TableRecord : /\ tables' = [tables EXCEPT ![Tables!Table] = q]
                                 /\ mishaps' = 0 => q.state # "old" /\ (q.state = "current" => q.pk)
    <3>1. Tables!Absent \in TableRecord /\ Tables!Absent.state = "absent"
      BY DEF Tables!Absent, TableRecord
    <3>2. CASE UNCHANGED mishaps /\ tables' = IF tables[Tables!Table].pk THEN tables ELSE [tables EXCEPT ![Tables!Table] = Tables!Absent]
      <4>1. CASE tables[Tables!Table].pk
        <5>1. tables' = [tables EXCEPT ![Tables!Table] = tables[Tables!Table]]
          BY <1>1, <3>2, <4>1
        <5> QED BY <1>1, <2>1, <4>1, <5>1
      <4>2. CASE ~tables[Tables!Table].pk
        BY <3>1, <3>2, <4>2
      <4> QED BY <4>1, <4>2
    <3>3. CASE Tables!Mishap /\ UNCHANGED tables
      <4>1. tables' = [tables EXCEPT ![Tables!Table] = tables[Tables!Table]] /\ mishaps' # 0
        BY <1>1, <3>3 DEF Tables!Mishap, TableInv, TableCounts
      <4> QED BY <1>1, <4>1
    <3> QED BY <1>3, <3>2, <3>3 DEF Tables!CheckStructure
  <2>3. UNCHANGED mishaps \/ Tables!Mishap
    BY <1>3 DEF Tables!CheckStructure
  <2> QED BY <1>1, <1>3, <2>1, <2>2, <2>3, NextTableKeeps, OrderIs
<1>4. CASE Tables!Fail("statement") /\ Tables!Mishap /\ UNCHANGED tables
  BY <1>1, <1>4, FailKeeps DEF Reasons
<1> QED BY <1>2, <1>3, <1>4 DEF Tables!CheckStructure

\* Creating what is missing makes no table old and takes no key.
LEMMA MigrateKeeps ==
    ASSUME TableInv, Tables!AutoMigrate
    PROVE  TableInv'
<1>1. pc = "auto" /\ UNCHANGED <<providers, mishaps, kills>> /\ tables \in [Tables!Tables -> TableRecord] /\ at = 5
  BY DEF Tables!AutoMigrate, Tables!Statement, TableInv, TablesTyped
<1>2. CASE Tables!Fail("twins") /\ UNCHANGED tables
  BY <1>1, <1>2, FailKeeps DEF Reasons
<1>3. ASSUME NEW t \in Tables!Tables, UNCHANGED <<pc, at, tx, why>>,
             tables' = [tables EXCEPT ![t] = [Tables!Migrated(tables[t]) EXCEPT !.index = t \in Tables!Unique]]
      PROVE  TableInv'
  <2> DEFINE r == [Tables!Migrated(tables[t]) EXCEPT !.index = t \in Tables!Unique]
  <2>1. /\ r \in TableRecord /\ r.state # "absent" /\ (tables[t].state # "old" => r.state # "old")
        /\ tables[t].state = "absent" \/ tables[t].pk => r.pk
    <3>1. tables[t] \in TableRecord
      BY <1>1
    <3>2. /\ Tables!Migrated(tables[t]) \in TableRecord /\ Tables!Migrated(tables[t]).state # "absent"
          /\ tables[t].state # "old" => Tables!Migrated(tables[t]).state # "old"
          /\ tables[t].state = "absent" \/ tables[t].pk => Tables!Migrated(tables[t]).pk
      BY <3>1 DEF Tables!Migrated, TableRecord
    <3>3. (t \in Tables!Unique) \in BOOLEAN
      OBVIOUS
    <3>4. /\ r \in TableRecord /\ r.state = Tables!Migrated(tables[t]).state /\ r.pk = Tables!Migrated(tables[t]).pk
      BY <3>2, <3>3, IndexIs, Zenon
    <3> HIDE DEF r
    <3> QED BY <3>2, <3>4
  <2>2. tables' = [tables EXCEPT ![t] = r]
    BY <1>3
  <2> HIDE DEF r
  <2>3. TablesTyped' /\ TableCounts' /\ WhyInv' /\ CopyInv'
    BY <1>1, <1>3, <2>1, <2>2 DEF TableInv, TablesTyped, TableCounts, WhyInv, CopyInv, OneByOne, Copying
  <2>4. \A q \in Tables!Tables : Ready(q) => Ready(q)'
    BY <1>1, <2>1, <2>2 DEF Ready, TableRecord
  <2>5. \A q \in Tables!Unique : tables'[q].state # "absent" => tables'[q].pk
    BY <1>1, <2>1, <2>2, OrderIs DEF TableInv, KeysInv
  <2>6. KeysInv'
    BY <1>1, <1>3, <2>4, <2>5, OrderIs DEF TableInv, KeysInv
  <2> QED BY <2>3, <2>6 DEF TableInv
<1>4. CASE (\A t \in Tables!Tables : Tables!Done(t)) /\ Tables!Then("data") /\ UNCHANGED <<tables, tx>>
  <2>1. TablesTyped' /\ TableCounts' /\ WhyInv' /\ CopyInv'
    BY <1>1, <1>4 DEF TableInv, TablesTyped, TableCounts, WhyInv, CopyInv, OneByOne, Copying, Tables!Then
  <2>2. KeysInv'
    BY <1>1, <1>4 DEF TableInv, KeysInv, Ready, Tables!Then, Tables!Done
  <2> QED BY <2>1, <2>2 DEF TableInv
<1> QED BY <1>2, <1>3, <1>4 DEF Tables!AutoMigrate

LEMMA ServerKeeps ==
    ASSUME TableInv, Tables!FixGitProvidersData \/ Tables!Insert
    PROVE  TableInv'
<1>1. pc \in {"data", "running"} /\ pc' = "running" /\ UNCHANGED <<at, tx, why, kills>> /\ (UNCHANGED mishaps \/ Tables!Mishap)
      /\ providers' \in {providers, "array"} /\ at = 5 /\ tables \in [Tables!Tables -> TableRecord]
  BY DEF Tables!FixGitProvidersData, Tables!Insert, Tables!Statement, Tables!Then, TableInv, TablesTyped
<1> DEFINE SameShape ==
        /\ tables' \in [Tables!Tables -> TableRecord]
        /\ \A t \in Tables!Tables : /\ tables'[t].state = tables[t].state /\ tables'[t].pk = tables[t].pk
                                    /\ tables'[t].lean = tables[t].lean /\ tables'[t].index = tables[t].index
<1>2. SameShape
  <2>1. CASE UNCHANGED tables
    BY <1>1, <2>1
  <2>2. ASSUME NEW t \in Tables!Tables, NEW r \in Rows, tables' = [tables EXCEPT ![t].rows = @ \cup {r}]
        PROVE  SameShape
    BY <1>1, <2>2 DEF TableRecord
  <2> QED BY <2>1, <2>2 DEF Tables!FixGitProvidersData, Tables!Insert
<1>3. TablesTyped' /\ TableCounts' /\ WhyInv' /\ CopyInv'
  BY <1>1, <1>2, IntakeAssumption
     DEF TableInv, TablesTyped, TableCounts, WhyInv, CopyInv, OneByOne, Copying, Tables!Mishap
<1>4. KeysInv'
  <2>1. mishaps' = 0 => mishaps = 0
    BY <1>1 DEF TableInv, TableCounts, Tables!Mishap
  <2>2. \A t \in Tables!Tables : (Ready(t) => Ready(t)') /\ (Tables!Done(t) => Tables!Done(t)')
    BY <1>2 DEF Ready, Tables!Done
  <2>3. \A t \in Tables!Unique : tables'[t].state # "absent" => tables'[t].pk
    BY <1>2, OrderIs DEF TableInv, KeysInv
  <2> QED BY <1>1, <2>1, <2>2, <2>3, OrderIs DEF TableInv, KeysInv
<1> QED BY <1>3, <1>4 DEF TableInv

LEMMA EndKeeps ==
    ASSUME TableInv, Tables!Start \/ Tables!Crash \/ UNCHANGED Tables!vars
    PROVE  TableInv'
<1>1. CASE Tables!Start
  <2>1. TablesTyped' /\ TableCounts' /\ WhyInv' /\ CopyInv'
    BY <1>1 DEF Tables!Start, TableInv, TablesTyped, TableCounts, WhyInv, CopyInv, OneByOne, Copying
  <2>2. KeysInv'
    BY <1>1 DEF Tables!Start, TableInv, KeysInv
  <2> QED BY <2>1, <2>2 DEF TableInv
<1>2. CASE Tables!Crash
  BY <1>2, DirectoriesAssumption
     DEF Tables!Crash, TableInv, TablesTyped, TableCounts, WhyInv, CopyInv, KeysInv, OneByOne, Copying, Git!DirectoryAssumption
<1>3. CASE UNCHANGED Tables!vars
  BY <1>3 DEF Tables!vars, TableInv, TablesTyped, TableCounts, WhyInv, CopyInv, KeysInv, Whole, Ready, Tables!Table, Tables!Done
<1> QED BY <1>1, <1>2, <1>3

LEMMA TablesStep == TableInv /\ [Tables!Next]_(Tables!vars) => TableInv'
<1> SUFFICES ASSUME TableInv, [Tables!Next]_(Tables!vars) PROVE TableInv'
  OBVIOUS
<1>1. ASSUME NEW step, Tables!Broken(step) PROVE TableInv'
  BY <1>1, FailKeeps DEF Tables!Broken, Tables!Same, Reasons
<1>2. CASE Tables!migrate
  BY <1>1, <1>2, CopyKeeps, IndexKeeps, CommitKeeps, MigrateKeeps, ServerKeeps DEF Tables!migrate
<1> QED BY <1>2, ServerKeeps, EndKeeps DEF Tables!Next

\* Nothing but a commit, the repair of the summaries, the automatic migration
\* and the handlers touches a table.
LEMMA RowsStay ==
    ASSUME TableInv, [Tables!Next]_(Tables!vars), NEW t \in Tables!Unique
    PROVE  tables[t].rows \subseteq tables'[t].rows
<1>1. t \in Tables!Tables /\ tables \in [Tables!Tables -> TableRecord] /\ t \notin Tables!Summary
  BY OrderIs DEF TableInv, TablesTyped
<1>2. CASE UNCHANGED tables
  BY <1>2
<1>3. CASE Tables!Commit
  BY <1>1, <1>3 DEF Tables!Commit, Tables!Statement, TableInv, CopyInv
<1>4. CASE Tables!CheckStructure
  BY <1>1, <1>4 DEF Tables!CheckStructure, Tables!Statement, TableInv, CopyInv
<1>5. CASE Tables!AutoMigrate
  <2>1. CASE UNCHANGED tables
    BY <2>1
  <2>2. ASSUME NEW q \in Tables!Tables,
               tables' = [tables EXCEPT ![q] = [Tables!Migrated(tables[q]) EXCEPT !.index = q \in Tables!Unique]]
        PROVE  tables[t].rows \subseteq tables'[t].rows
    <3>1. Tables!Migrated(tables[q]).rows = tables[q].rows /\ Tables!Migrated(tables[q]) \in TableRecord
      BY <1>1 DEF Tables!Migrated, TableRecord
    <3> QED BY <1>1, <2>2, <3>1 DEF TableRecord
  <2> QED BY <1>5, <2>1, <2>2 DEF Tables!AutoMigrate
<1>6. CASE Tables!Insert
  BY <1>1, <1>6 DEF Tables!Insert, TableRecord
<1> QED BY <1>2, <1>3, <1>4, <1>5, <1>6 DEF Tables!Next, Tables!vars, Tables!migrate, Tables!Start, Tables!Check, Tables!Create,
           Tables!Copy, Tables!Drop, Tables!Rename, Tables!CreateIndex, Tables!FixGitProvidersData, Tables!Broken,
           Tables!Same, Tables!Crash

LEMMA IntakeTables == IntakeSpec => Tables!Init /\ [][Tables!Next]_(Tables!vars)
<1>1. IntakeInit => Tables!Init
  BY DEF IntakeInit
<1>2. [IntakeNext]_allVars => [Tables!Next]_(Tables!vars)
  BY DEF IntakeNext, allVars, tablesVars, Tables!vars
<1> QED BY <1>1, <1>2, PTL DEF IntakeSpec

\* However often migrations fail, are killed and begin again, no review and no
\* configuration of a repository is lost, a server that runs has all tables with
\* their columns, keys and indexes, and a start that fails says why
\* (internal/database/database.go).
THEOREM TablesAreKept == IntakeSpec => TablesKept
<1>1. TableInv /\ [Tables!Next]_(Tables!vars) =>
          [\A t \in Tables!Unique : tables[t].rows \subseteq tables'[t].rows]_(Tables!vars)
  BY RowsStay
<1>2. TableInv => Tables!RunsMigrated
  <2> SUFFICES ASSUME TableInv, pc = "running", mishaps = 0, NEW t \in Tables!Tables
               PROVE  tables[t].state = "current" /\ tables[t].pk /\ Tables!Done(t)
    BY DEF Tables!RunsMigrated
  <2>1. Tables!Done(t) /\ tables[t] \in TableRecord
    BY DEF TableInv, KeysInv, TablesTyped
  <2>2. Ready(t)
    <3>1. PICK i \in 1..4 : t = Tables!Order[i]
      BY OrderIs
    <3>2. i < at
      BY DEF TableInv, TablesTyped
    <3> QED BY <3>1, <3>2 DEF TableInv, KeysInv
  <2> QED BY <2>1, <2>2 DEF Ready, Tables!Done, TableRecord
<1>3. TableInv => Tables!FailsForAReason
  BY DEF TableInv, WhyInv, Tables!FailsForAReason
<1> QED BY <1>1, <1>2, <1>3, TablesInitially, TablesStep, IntakeTables, PTL DEF TablesKept, Tables!RowsKept

-----------------------------------------------------------------------------
(* Addresses *)

Words == Named \cup Dotted \cup {Port, None}
Schemes == {"https", "http", "ssh", "none"}

\* Addresses in which there is something to read.
URLRecord ==
    {u \in [scheme : Schemes, host : Words, port : BOOLEAN, path : Seq(Words), git : BOOLEAN] :
        u.path # <<>> \/ (u.scheme # "ssh" /\ (u.host # None \/ u.port))}

LEMMA JoinedIs ==
    ASSUME NEW h \in Words, NEW s \in Seq(Words)
    PROVE  /\ <<h>> \o s \in Seq(Words) /\ Len(<<h>> \o s) = Len(s) + 1
           /\ Head(<<h>> \o s) = h /\ Tail(<<h>> \o s) = s
           /\ \A k \in 1..Len(s) : (<<h>> \o s)[k + 1] = s[k]
<1> DEFINE r == <<h>> \o s
<1>1. <<h>> \in Seq(Words) /\ Len(<<h>>) = 1 /\ <<h>>[1] = h
  OBVIOUS
<1>2. r \in Seq(Words) /\ Len(r) = Len(s) + 1 /\ \A i \in 1..(1 + Len(s)) : r[i] = IF i <= 1 THEN <<h>>[i] ELSE s[i - 1]
  BY <1>1, ConcatProperties
<1>3. Len(s) \in Nat
  OBVIOUS
<1> HIDE DEF r
<1>4. r[1] = h /\ r # <<>> /\ Head(r) = h
  BY <1>1, <1>2, <1>3
<1>5. \A k \in 1..Len(s) : r[k + 1] = s[k]
  BY <1>2, <1>3
<1>6. Tail(r) \in Seq(Words) /\ Len(Tail(r)) = Len(s) /\ \A i \in 1..Len(s) : Tail(r)[i] = r[i + 1]
  BY <1>2, <1>3, <1>4, HeadTailProperties
<1>7. Tail(r) = s
  BY <1>5, <1>6, SeqEqual
<1> QED BY <1>2, <1>4, <1>5, <1>7 DEF r

LEMMA FirstTwoAre ==
    ASSUME NEW s \in Seq(Words), Len(s) > 1
    PROVE  /\ SubSeq(s, 1, 2) \in Seq(Words) /\ Len(SubSeq(s, 1, 2)) = 2
           /\ Len(s) = 2 => SubSeq(s, 1, 2) = s
           /\ Paths!IsPrefix(SubSeq(s, 1, 2), s)
           /\ \A h \in Words : SubSeq(<<h>> \o s, 2, 3) = SubSeq(s, 1, 2)
<1> DEFINE t == SubSeq(s, 1, 2)
<1>0. Len(s) \in Nat /\ \A i \in 1..Len(s) : s[i] \in Words
  OBVIOUS
<1>1. t \in Seq(Words) /\ Len(t) = 2 /\ \A i \in 1..2 : t[i] = s[1 + i - 1]
  BY <1>0, SubSeqProperties
<1>2. t[1] = s[1] /\ t[2] = s[2]
  BY <1>1
<1> HIDE DEF t
<1>3. Len(s) = 2 => t = s
  BY <1>0, <1>1, <1>2, SeqEqual
<1>4. ASSUME NEW h \in Words PROVE SubSeq(<<h>> \o s, 2, 3) = t
  <2> DEFINE r == <<h>> \o s
  <2>1. r \in Seq(Words) /\ Len(r) = Len(s) + 1 /\ r[2] = s[1] /\ r[3] = s[2]
    BY <1>0, JoinedIs
  <2> HIDE DEF r
  <2>2. SubSeq(r, 2, 3) \in Seq(Words) /\ Len(SubSeq(r, 2, 3)) = 2 /\ \A i \in 1..2 : SubSeq(r, 2, 3)[i] = r[2 + i - 1]
    BY <1>0, <2>1, SubSeqProperties
  <2>3. SubSeq(r, 2, 3)[1] = t[1] /\ SubSeq(r, 2, 3)[2] = t[2]
    BY <1>2, <2>1, <2>2
  <2>4. SubSeq(r, 2, 3) = t
    BY <1>1, <2>2, <2>3, SeqEqual
  <2> QED BY <2>4 DEF r
<1>5. SubSeq(t, 1, Len(t)) = t
  BY <1>1, SubSeqFull
<1>6. Paths!IsPrefix(t, s)
  <2>1. SubSeq(s, 1, Len(t)) = t
    BY <1>1 DEF t
  <2> QED BY <1>0, <1>1, <1>5, <2>1 DEF Paths!IsPrefix
<1> QED BY <1>1, <1>3, <1>4, <1>6 DEF t

\* The parts of an address, and what is left of them without the server.
LEMMA PartsAre ==
    ASSUME NEW u \in URLRecord
    PROVE  /\ Paths!normalizeURL(u) \in Seq(Words) /\ Paths!AfterColon(u) \in Seq(Words) /\ Paths!AfterColon(u) # <<>>
           /\ ~u.port => Paths!normalizeURL(u) = IF u.host = None THEN u.path ELSE <<u.host>> \o u.path
           /\ u.port => Paths!normalizeURL(u) =
                            IF u.host = None THEN <<Port>> \o u.path ELSE <<u.host>> \o (<<Port>> \o u.path)
<1>1. u.path \in Seq(Words) /\ u.host \in Words /\ None \in Words /\ Port \in Words /\ u.port \in BOOLEAN
  BY DEF URLRecord, Words
<1>2. <<Port>> \o u.path \in Seq(Words) /\ <<Port>> \o u.path # <<>>
  BY <1>1, JoinedIs
<1>3. <<u.host>> \o u.path \in Seq(Words) /\ <<u.host>> \o u.path # <<>>
  BY <1>1, JoinedIs
<1>4. <<u.host>> \o (<<Port>> \o u.path) \in Seq(Words) /\ <<u.host>> \o (<<Port>> \o u.path) # <<>>
  BY <1>1, <1>2, JoinedIs
<1>5. <<>> \o u.path = u.path /\ <<>> \o (<<Port>> \o u.path) = <<Port>> \o u.path /\ <<>> \in Seq(Words)
      /\ <<>> \o <<>> = <<>>
  BY <1>1, <1>2, ConcatEmptySeq
<1>6. <<u.host>> \o <<>> = <<u.host>> /\ <<>> \o <<Port>> = <<Port>>
  BY <1>1, ConcatEmptySeq
<1>7. (<<u.host>> \o <<Port>>) \o u.path = <<u.host>> \o (<<Port>> \o u.path)
  <2>1. <<u.host>> \in Seq(Words) /\ <<Port>> \in Seq(Words)
    BY <1>1
  <2> QED BY <1>1, <2>1, ConcatAssociative
<1>8. CASE ~u.port
  <2>1. Paths!normalizeURL(u) = IF u.host = None THEN u.path ELSE <<u.host>> \o u.path
    BY <1>5, <1>6, <1>8 DEF Paths!normalizeURL
  <2>2. u.scheme # "ssh" => u.host # None \/ u.path # <<>>
    BY <1>8 DEF URLRecord
  <2>3. u.scheme = "ssh" => u.path # <<>>
    BY DEF URLRecord
  <2> QED BY <1>1, <1>3, <1>8, <2>1, <2>2, <2>3 DEF Paths!AfterColon
<1>9. CASE u.port
  <2>1. Paths!normalizeURL(u) = IF u.host = None THEN <<Port>> \o u.path ELSE <<u.host>> \o (<<Port>> \o u.path)
    BY <1>5, <1>6, <1>7, <1>9 DEF Paths!normalizeURL
  <2>2. u.scheme = "ssh" => u.path # <<>>
    BY DEF URLRecord
  <2> QED BY <1>1, <1>2, <1>4, <1>9, <2>1, <2>2 DEF Paths!AfterColon
<1> QED BY <1>1, <1>8, <1>9

\* A path of two levels, or the levels of a project of GitLab.
LEMMA LevelsAre ==
    ASSUME NEW s \in Seq(Words), Paths!TwoLevels(s) # None
    PROVE  /\ Len(s) > 1 /\ Len(Paths!TwoLevels(s)) = 2 /\ Paths!TwoLevels(s) \in Seq(Words)
           /\ Len(s) > 2 => Paths!TwoLevels(s) = SubSeq(s, 2, 3)
           /\ Len(s) = 2 => Paths!TwoLevels(s) = s
<1>1. Len(s) \in Nat /\ \A i \in 1..Len(s) : s[i] \in Words
  OBVIOUS
<1>2. Len(s) > 1
  BY <1>1 DEF Paths!TwoLevels
<1>3. Len(s) > 2 => SubSeq(s, 2, 3) \in Seq(Words) /\ Len(SubSeq(s, 2, 3)) = 2
  <2> SUFFICES ASSUME Len(s) > 2 PROVE SubSeq(s, 2, 3) \in Seq(Words) /\ Len(SubSeq(s, 2, 3)) = 2
    OBVIOUS
  <2>1. \A i \in 2..3 : s[i] \in Words
    BY <1>1
  <2>2. /\ SubSeq(s, 2, 3) \in Seq(Words)
        /\ Len(SubSeq(s, 2, 3)) = IF 2 <= 3 THEN 3 - 2 + 1 ELSE 0
    BY <2>1, SubSeqProperties
  <2> QED BY <2>2
<1> QED BY <1>1, <1>2, <1>3 DEF Paths!TwoLevels

LEMMA PathTyped ==
    ASSUME NEW u \in URLRecord, NEW t \in Paths!Types, Paths!ParseRepoPath(t, u) # None
    PROVE  Paths!ParseRepoPath(t, u) \in Seq(Words)
<1>1. Paths!normalizeURL(u) \in Seq(Words) /\ Paths!AfterColon(u) \in Seq(Words) /\ Paths!AfterColon(u) # <<>>
  BY PartsAre
<1>2. CASE t = "github"
  <2>1. Paths!ParseRepoPath(t, u) = Paths!TwoLevels(Paths!normalizeURL(u))
    BY <1>2 DEF Paths!ParseRepoPath
  <2> QED BY <1>1, <2>1, LevelsAre
<1>3. CASE t = "gitea"
  <2>1. Paths!ParseRepoPath(t, u) = Paths!TwoLevels(Paths!AfterColon(u))
    BY <1>3 DEF Paths!ParseRepoPath
  <2> QED BY <1>1, <2>1, LevelsAre
<1>4. CASE t = "gitlab"
  <2>1. Tail(Paths!AfterColon(u)) \in Seq(Words)
    BY <1>1, HeadTailProperties
  <2>2. Paths!ParseRepoPath(t, u) \in {Paths!AfterColon(u), Tail(Paths!AfterColon(u)), None}
    BY <1>4 DEF Paths!ParseRepoPath
  <2> QED BY <1>1, <2>1, <2>2
<1> QED BY <1>2, <1>3, <1>4 DEF Paths!Types

\* An address of a report that says which server it means is read as the path
\* it has, the first two levels of it for GitHub and Gitea.
LEMMA ReportPath ==
    ASSUME NEW u \in Addresses, NEW t \in Paths!Types, Paths!Clear(u), Paths!ParseRepoPath(t, u) # None,
           t = "gitlab" => u.host \in Dotted,
           t = "gitea" /\ u.scheme = "ssh" => Len(u.path) = 2
    PROVE  /\ t = "gitlab" => Paths!ParseRepoPath(t, u) = u.path
           /\ t # "gitlab" => Paths!IsPrefix(Paths!ParseRepoPath(t, u), u.path)
<1>1. u \in URLRecord /\ Len(u.path) > 1 /\ u.path \in Seq(Words) /\ u.host \in Words
  <2>1. u \in AddressRecord /\ Len(u.path) > 1
    BY AddressesAssumption
  <2>2. Named \subseteq Words /\ Dotted \cup {None} \subseteq Words
    BY DEF Words
  <2>3. u.path \in Seq(Named) /\ u.host \in Words
    BY <2>1, <2>2 DEF AddressRecord
  <2>4. u.path \in Seq(Words)
    BY <2>2, <2>3, SeqMonotonic
  <2>5. u \in [scheme : Schemes, host : Words, port : BOOLEAN, path : Seq(Words), git : BOOLEAN]
    BY <2>1, <2>3, <2>4 DEF AddressRecord, Schemes
  <2>6. u.path # <<>>
    BY <2>1
  <2> QED BY <2>1, <2>3, <2>4, <2>5, <2>6 DEF URLRecord
<1>2. u.host # None /\ ~u.port
  BY DEF Paths!Clear
<1> DEFINE parts == <<u.host>> \o u.path
<1>3. Paths!normalizeURL(u) = parts /\ Paths!AfterColon(u) = IF u.scheme = "ssh" THEN u.path ELSE parts
  BY <1>1, <1>2, PartsAre DEF Paths!AfterColon
<1>4. /\ parts \in Seq(Words) /\ Len(parts) = Len(u.path) + 1 /\ Len(u.path) \in Nat
      /\ Head(parts) = u.host /\ Tail(parts) = u.path
  BY <1>1, JoinedIs
<1>5. Paths!IsPrefix(SubSeq(u.path, 1, 2), u.path) /\ SubSeq(parts, 2, 3) = SubSeq(u.path, 1, 2)
      /\ (Len(u.path) = 2 => SubSeq(u.path, 1, 2) = u.path)
  BY <1>1, FirstTwoAre
<1> HIDE DEF parts
<1>6. Paths!TwoLevels(parts) = SubSeq(u.path, 1, 2)
  BY <1>1, <1>4, <1>5 DEF Paths!TwoLevels
<1>7. CASE t = "github"
  BY <1>3, <1>5, <1>6, <1>7 DEF Paths!ParseRepoPath
<1>8. CASE t = "gitea"
  <2>1. Paths!ParseRepoPath(t, u) = Paths!TwoLevels(Paths!AfterColon(u))
    BY <1>8 DEF Paths!ParseRepoPath
  <2>2. CASE u.scheme = "ssh"
    BY <1>3, <1>5, <1>8, <2>1, <2>2 DEF Paths!TwoLevels
  <2>3. CASE u.scheme # "ssh"
    BY <1>3, <1>5, <1>6, <1>8, <2>1, <2>3
  <2> QED BY <2>2, <2>3
<1>9. CASE t = "gitlab"
  <2>1. CASE u.scheme = "ssh"
    <3>1. Head(u.path) \notin Dotted
      BY <2>1, AddressesAssumption
    <3> QED BY <1>1, <1>3, <1>4, <1>9, <2>1, <3>1 DEF Paths!ParseRepoPath
  <2>2. CASE u.scheme # "ssh"
    BY <1>1, <1>3, <1>4, <1>9, <2>2 DEF Paths!ParseRepoPath
  <2> QED BY <2>1, <2>2
<1> QED BY <1>7, <1>8, <1>9 DEF Paths!Types

\* The parser of the comment channel agrees with those of the providers on
\* projects of two levels.
LEMMA CommentPath ==
    ASSUME NEW u \in URLRecord, NEW t \in Paths!Types, u.scheme # "ssh", ~u.port,
           Paths!ParseRepoPath(t, u) # None, Len(Paths!ParseRepoPath(t, u)) = 2, Paths!parseRepoURL(u) # None
    PROVE  Paths!parseRepoURL(u) = Paths!ParseRepoPath(t, u)
<1> DEFINE parts == Paths!normalizeURL(u)
<1>1. u.path \in Seq(Words) /\ u.scheme \in Schemes
  BY DEF URLRecord
<1>2. (IF u.host = None THEN <<>> ELSE <<u.host>>) \o u.path = parts
  <2>1. <<>> \o u.path = u.path
    BY <1>1, ConcatEmptySeq
  <2> QED BY <2>1, PartsAre
<1>3. parts \in Seq(Words) /\ parts = Paths!AfterColon(u) /\ parts # <<>>
  BY PartsAre DEF Paths!AfterColon
<1>4. Paths!parseRepoURL(u) = IF u.scheme = "none" THEN (IF Len(parts) = 2 THEN parts ELSE None)
                              ELSE (IF Len(parts) < 3 THEN None ELSE SubSeq(parts, 2, 3))
  BY <1>1, <1>2 DEF Paths!parseRepoURL, Schemes
<1> HIDE DEF parts
<1>5. Len(parts) \in Nat
  BY <1>3
<1>6. CASE t = "github" \/ t = "gitea"
  <2>1. Paths!ParseRepoPath(t, u) = Paths!TwoLevels(parts)
    BY <1>3, <1>6 DEF Paths!ParseRepoPath, parts
  <2> QED BY <1>4, <1>5, <2>1 DEF Paths!TwoLevels
<1>7. CASE t = "gitlab"
  <2>1. Paths!ParseRepoPath(t, u) = IF Head(parts) \in Dotted THEN Tail(parts) ELSE parts
    BY <1>3, <1>7 DEF Paths!ParseRepoPath
  <2>2. Len(Tail(parts)) = Len(parts) - 1 /\ Tail(parts) = SubSeq(parts, 2, Len(parts))
    BY <1>3, HeadTailProperties, TailIsSubSeq
  <2>3. CASE Head(parts) \in Dotted
    <3>1. Len(parts) = 3
      BY <1>5, <2>1, <2>2, <2>3
    <3>2. Tail(parts) = SubSeq(parts, 2, 3)
      BY <2>2, <3>1
    <3> QED BY <1>4, <2>1, <2>3, <3>1, <3>2
  <2>4. CASE Head(parts) \notin Dotted
    <3>1. Paths!ParseRepoPath(t, u) = parts
      BY <2>1, <2>4
    <3>2. Len(parts) = 2
      BY <3>1
    <3> QED BY <1>4, <3>1, <3>2
  <2> QED BY <2>3, <2>4
<1> QED BY <1>6, <1>7 DEF Paths!Types

\* The server and the project of an event, and the address that is made of them.
OriginRecord == {o \in [server : ProviderRecord, path : Seq(Words)] : \E e \in Sent : e.type = o.server.type /\ e.path = o.path}
OriginURL(o) ==
    IF o.server.type = "gitea" \/ o.server.host = None THEN Paths!At(Public[o.server.type], o.path)
    ELSE [Paths!At(o.server.host, o.path) EXCEPT !.scheme = IF o.server.bare THEN "none" ELSE "https"]

LEMMA AddressMade ==
    ASSUME NEW h \in Words, NEW s \in Seq(Words), h # None
    PROVE  Paths!At(h, s) \in URLRecord
BY DEF Paths!At, URLRecord, Schemes

LEMMA OriginIs ==
    ASSUME NEW o \in OriginRecord
    PROVE  /\ OriginURL(o) \in URLRecord /\ OriginURL(o).scheme # "ssh" /\ ~OriginURL(o).port
           /\ OriginURL(o).path = o.path /\ OriginURL(o).host \in Dotted
           /\ Len(o.path) > 1 /\ (o.server.type # "gitlab" => Len(o.path) = 2) /\ o.path \in Seq(Words)
<1>1. o.path \in Seq(Words) /\ o.server \in ProviderRecord
  BY DEF OriginRecord
<1>2. Len(o.path) > 1 /\ (o.server.type # "gitlab" => Len(o.path) = 2)
  <2>1. PICK e \in Sent : e.type = o.server.type /\ e.path = o.path
    BY DEF OriginRecord
  <2>2. Len(e.path) = 2 \/ (e.type = "gitlab" /\ Len(e.path) > 2)
    BY AddressesAssumption
  <2>3. Len(e.path) \in Nat
    BY <1>1, <2>1
  <2>4. Len(e.path) > 1 /\ (e.type # "gitlab" => Len(e.path) = 2)
    BY <2>2, <2>3
  <2> QED BY <2>1, <2>4
<1>3. Public[o.server.type] \in Dotted /\ None \notin Dotted /\ Dotted \subseteq Words
  BY <1>1, AddressesAssumption DEF ProviderRecord, Words
<1>4. o.server.host # None => o.server.host \in Dotted
  BY <1>1 DEF ProviderRecord
<1> DEFINE a == Paths!At(Public[o.server.type], o.path)
           b == Paths!At(o.server.host, o.path)
<1>5. a \in URLRecord /\ a.scheme = "https" /\ ~a.port /\ a.path = o.path /\ a.host = Public[o.server.type]
  BY <1>1, <1>3, AddressMade DEF Paths!At
<1>6. ASSUME o.server.host # None
      PROVE  LET c == [b EXCEPT !.scheme = IF o.server.bare THEN "none" ELSE "https"]
             IN c \in URLRecord /\ c.scheme # "ssh" /\ ~c.port /\ c.path = o.path /\ c.host = o.server.host
  BY <1>1, <1>3, <1>4, <1>6 DEF Paths!At, URLRecord, Schemes
<1>7. CASE o.server.type = "gitea" \/ o.server.host = None
  BY <1>1, <1>2, <1>3, <1>5, <1>7 DEF OriginURL
<1>8. CASE ~(o.server.type = "gitea" \/ o.server.host = None)
  BY <1>1, <1>2, <1>4, <1>6, <1>8 DEF OriginURL
<1> QED BY <1>7, <1>8

\* It is read as the project that sent the event.
LEMMA OriginPath ==
    ASSUME NEW o \in OriginRecord
    PROVE  Paths!ParseRepoPath(o.server.type, OriginURL(o)) = o.path
<1> DEFINE u == OriginURL(o)
           parts == <<u.host>> \o u.path
<1>1. /\ u \in URLRecord /\ u.scheme # "ssh" /\ ~u.port /\ u.path = o.path /\ u.host \in Dotted
      /\ Len(o.path) > 1 /\ (o.server.type # "gitlab" => Len(o.path) = 2) /\ o.path \in Seq(Words)
  BY OriginIs
<1> HIDE DEF u
<1>2. u.host \in Words /\ u.host # None
  BY <1>1, AddressesAssumption DEF Words
<1>3. Paths!normalizeURL(u) = parts /\ Paths!AfterColon(u) = parts
  BY <1>1, <1>2, PartsAre DEF Paths!AfterColon
<1>4. /\ parts \in Seq(Words) /\ Len(parts) = Len(u.path) + 1 /\ Len(u.path) \in Nat
      /\ Head(parts) = u.host /\ Tail(parts) = u.path
  BY <1>1, <1>2, JoinedIs
<1>5. Len(u.path) = 2 => SubSeq(parts, 2, 3) = u.path
  BY <1>1, <1>2, FirstTwoAre
<1> HIDE DEF parts
<1>6. Len(u.path) = 2 => Paths!TwoLevels(parts) = u.path
  BY <1>4, <1>5 DEF Paths!TwoLevels
<1>7. o.server.type \in Paths!Types
  BY DEF OriginRecord, ProviderRecord
<1>8. CASE o.server.type = "gitlab"
  <2>0. Len(u.path) > 1
    BY <1>1
  <2> DEFINE path == IF Head(Paths!AfterColon(u)) \in Dotted THEN Tail(Paths!AfterColon(u)) ELSE Paths!AfterColon(u)
  <2>1. path = u.path
    BY <1>1, <1>3, <1>4
  <2>2. Paths!ParseRepoPath("gitlab", u) = IF Len(path) < 2 THEN None ELSE path
    BY DEF Paths!ParseRepoPath
  <2> HIDE DEF path
  <2>3. Paths!ParseRepoPath("gitlab", u) = u.path
    BY <1>4, <2>0, <2>1, <2>2
  <2> QED BY <1>1, <1>8, <2>3 DEF u
<1>9. CASE o.server.type # "gitlab"
  <2>1. Paths!ParseRepoPath("github", u) = Paths!TwoLevels(parts) /\ Paths!ParseRepoPath("gitea", u) = Paths!TwoLevels(parts)
    BY <1>3 DEF Paths!ParseRepoPath
  <2>2. o.server.type = "github" \/ o.server.type = "gitea"
    BY <1>7, <1>9 DEF Paths!Types
  <2> QED BY <1>1, <1>6, <1>9, <2>1, <2>2 DEF u
<1> QED BY <1>8, <1>9

PlaceRecord == [host : Dotted, path : Seq(Words)]
Origins == OriginRecord \cup {None}
ReviewRecord ==
    [pc : {"idle"}] \cup [pc : {"asked", "refused"}, url : URLRecord, origin : Origins]
    \cup [pc : {"asked", "queued", "failed"}, url : URLRecord, origin : Origins, type : Paths!Types, path : Seq(Words)]
    \cup [pc : {"asked", "cloned"}, url : URLRecord, origin : Origins, type : Paths!Types, from : PlaceRecord]
    \cup [pc : {"commented"}, url : URLRecord, origin : Origins, from : PlaceRecord, comment : PlaceRecord \cup {None}]
PageRecord == [server : Dotted, page : Nat]
ListingRecord ==
    [pc : {"idle"}]
    \cup [pc : {"page", "failed", "done"}, by : ProviderRecord, page : Nat, read : Seq(PageRecord), even : BOOLEAN]

PathsTyped ==
    /\ configured \in Configurations
    /\ manager \in [Paths!Types -> ProviderRecord \cup {None}]
    /\ \A t \in Paths!Types : manager[t] # None => manager[t].type = t
    /\ review \in ReviewRecord /\ listing \in ListingRecord
    /\ report.pc \in {"idle", "read", "refused"}
    /\ changes \in 0..MaxChanges /\ tries \in 0..MaxTries

\* What a task remembers is what its address says to the provider that the
\* engine has, which changes only when every task is submitted anew.
Read(t) == Paths!ParseRepoPath(t, review.url)
ReviewInv ==
    review.pc # "idle" =>
        /\ review.url.scheme # "ssh"
        /\ review.origin # None => review.url = OriginURL(review.origin)
        /\ review.pc = "queued" =>
              /\ manager[review.type] # None /\ Read(review.type) # None /\ review.path = Read(review.type)
        /\ review.pc = "cloned" =>
              /\ manager[review.type] # None /\ Read(review.type) # None
              /\ review.from = Paths!buildCloneURL(manager[review.type], Read(review.type))
        /\ review.pc = "commented" =>
              /\ \E t \in Paths!Types : Read(t) # None /\ review.from.path = Read(t)
              /\ review.comment # None =>
                    Paths!parseRepoURL(review.url) # None /\ review.comment.path = Paths!parseRepoURL(review.url)

\* A report is read by a provider that matches its address.
ReportInv ==
    report.pc = "read" =>
        /\ report.url \in Addresses /\ report.by \in ProviderRecord /\ Paths!MatchesURL(report.by, report.url)
        /\ report.by.type = "gitea" /\ report.url.scheme = "ssh" => Len(report.url.path) = 2
        /\ Paths!ParseRepoPath(report.by.type, report.url) # None
        /\ report.from = Paths!buildCloneURL(report.by, Paths!ParseRepoPath(report.by.type, report.url))

\* The pages that were read are the first ones; only GitLab and Gitea are asked
\* for one more than there are.
ListingInv ==
    /\ listing.pc \in {"page", "done"} =>
        \A i \in DOMAIN listing.read :
            /\ listing.read[i].page = i
            /\ \/ listing.read[i].server = Paths!Server(listing.by)
               \/ listing.by.type = "github" /\ listing.by.token
    /\ listing.pc = "page" => listing.page \in 1..(Pages + 1) /\ Len(listing.read) = listing.page - 1
    /\ listing.pc = "done" => Len(listing.read) = Pages

PathInv == PathsTyped /\ ReviewInv /\ ReportInv /\ ListingInv

LEMMA ServersAre ==
    ASSUME NEW p \in ProviderRecord
    PROVE  /\ Paths!Server(p) \in Dotted /\ Paths!CloneHost(p) \in Dotted
           /\ \A s \in Seq(Words) : Paths!buildCloneURL(p, s) \in PlaceRecord /\ Paths!buildCloneURL(p, s).path = s
<1>1. Paths!Server(p) \in Dotted /\ Paths!CloneHost(p) \in Dotted
  BY AddressesAssumption DEF Paths!Server, Paths!CloneHost, ProviderRecord
<1> QED BY <1>1 DEF Paths!buildCloneURL, Paths!Place, PlaceRecord

LEMMA CreatedAre ==
    ASSUME configured \in Configurations, NEW down
    PROVE  /\ Paths!Created(down) \subseteq DOMAIN configured
           /\ \E n \in Nat : DOMAIN configured = 1..n
           /\ \A i \in DOMAIN configured : configured[i] \in ProviderRecord
BY AddressesAssumption DEF Paths!Created

LEMMA InitializeIs ==
    ASSUME configured \in Configurations, NEW down
    PROVE  /\ Paths!Initialize(down) \in [Paths!Types -> ProviderRecord \cup {None}]
           /\ \A t \in Paths!Types : Paths!Initialize(down)[t] # None => Paths!Initialize(down)[t].type = t
<1> SUFFICES ASSUME NEW t \in Paths!Types
             PROVE  LET p == Paths!Initialize(down)[t]
                    IN p \in ProviderRecord \cup {None} /\ (p # None => p.type = t)
  BY DEF Paths!Initialize
<1> DEFINE S == {i \in Paths!Created(down) : configured[i].type = t}
<1>1. CASE S = {}
  BY <1>1 DEF Paths!Initialize
<1>2. CASE S # {}
  <2>1. PICK n \in Nat : DOMAIN configured = 1..n
    BY CreatedAre
  <2>2. S \in SUBSET (0..n)
    BY <2>1, CreatedAre
  <2>3. Max(S) \in S
    BY <1>2, <2>1, <2>2, MaxIs
  <2>4. Paths!Max(S) = Max(S)
    BY DEF Paths!Max, Max
  <2>5. Paths!Initialize(down)[t] = configured[Max(S)]
    BY <1>2, <2>4 DEF Paths!Initialize
  <2> QED BY <2>3, <2>5, CreatedAre
<1> QED BY <1>1, <1>2

LEMMA FoundIs ==
    ASSUME configured \in Configurations, NEW u \in Addresses, NEW down,
           Paths!GetOrCreateProviderForURL(u, down) # None
    PROVE  LET p == Paths!GetOrCreateProviderForURL(u, down)
           IN /\ p \in ProviderRecord /\ Paths!MatchesURL(p, u)
              /\ p.type = "gitea" /\ u.scheme = "ssh" => Len(u.path) = 2
<1> DEFINE p == Paths!GetOrCreateProviderForURL(u, down)
           S == Paths!Candidates(u, down)
           t == Paths!DetectProviderFromURL(u)
<1>1. CASE S # {}
  <2>1. S \in SUBSET Nat
    BY CreatedAre DEF Paths!Candidates
  <2>2. Min(S) \in S
    BY <1>1, <2>1, MinIs
  <2>3. Paths!Min(S) = Min(S)
    BY DEF Paths!Min, Min
  <2>4. p = configured[Min(S)]
    BY <1>1, <2>3 DEF Paths!GetOrCreateProviderForURL
  <2>5. p \in ProviderRecord /\ Paths!MatchesURL(p, u) /\ Min(S) \in DOMAIN configured
    BY <2>2, <2>4, CreatedAre DEF Paths!Candidates
  <2>6. ASSUME p.type = "gitea", u.scheme = "ssh" PROVE Len(u.path) = 2
    <3>1. ~(Len(u.path) > 2)
      BY <2>4, <2>5, <2>6, AddressesAssumption
    <3>2. Len(u.path) > 1 /\ Len(u.path) \in Nat
      BY AddressesAssumption DEF AddressRecord
    <3> DEFINE n == Len(u.path)
    <3>3. n \in Nat /\ ~(n > 2) /\ n > 1
      BY <3>1, <3>2
    <3> HIDE DEF n
    <3>4. n = 2
      BY <3>3
    <3> QED BY <3>4 DEF n
  <2> QED BY <2>5, <2>6
<1>2. CASE S = {}
  <2>1. t # None /\ Paths!MatchesURL(Paths!Anonymous(t), u) /\ p = Paths!Anonymous(t)
    BY <1>2 DEF Paths!GetOrCreateProviderForURL
  <2>2. t \in {"github", "gitlab"}
    BY <2>1 DEF Paths!DetectProviderFromURL
  <2> QED BY <2>1, <2>2 DEF Paths!Anonymous, ProviderRecord, Paths!Types
<1> QED BY <1>1, <1>2

LEMMA AskedIs ==
    ASSUME NEW q \in Asked, Len(Paths!normalizeURL(q.url)) > 1
    PROVE  Paths!RepoURL(q) \in URLRecord /\ Paths!RepoURL(q).scheme # "ssh"
<1> DEFINE u == q.url
<1>1. u \in AddressRecord /\ u.scheme # "ssh" /\ q.type \in Paths!Types \cup {None}
  BY AddressesAssumption
<1>2. u \in [scheme : Schemes, host : Words, port : BOOLEAN, path : Seq(Words), git : BOOLEAN]
  <2>1. Named \subseteq Words /\ Dotted \cup {None} \subseteq Words
    BY DEF Words
  <2>2. u.path \in Seq(Named) /\ u.host \in Words
    BY <1>1, <2>1 DEF AddressRecord
  <2>3. u.path \in Seq(Words)
    BY <2>1, <2>2, SeqMonotonic
  <2> QED BY <1>1, <2>2, <2>3 DEF AddressRecord, Schemes
<1>3. u \in URLRecord
  <2> SUFFICES ASSUME u.path = <<>>, u.host = None, ~u.port PROVE FALSE
    BY <1>1, <1>2 DEF URLRecord
  <2>1. Paths!normalizeURL(u) = (<<>> \o <<>>) \o <<>>
    BY DEF Paths!normalizeURL
  <2>2. <<>> \o <<>> = <<>>
    OBVIOUS
  <2>3. Paths!normalizeURL(u) = <<>>
    BY <2>1, <2>2
  <2>4. Len(<<>>) = 0
    OBVIOUS
  <2> QED BY <2>3, <2>4
<1> DEFINE h == Public[IF q.type = None THEN "github" ELSE q.type]
           a == Paths!At(h, Paths!normalizeURL(u))
<1>4. h \in Words /\ h # None
  <2>1. (IF q.type = None THEN "github" ELSE q.type) \in Paths!Types
    BY <1>1 DEF Paths!Types
  <2> QED BY <2>1, AddressesAssumption DEF Words
<1>5. a \in URLRecord /\ a.scheme = "https"
  BY <1>3, <1>4, PartsAre, AddressMade DEF Paths!At
<1> HIDE DEF a
<1>6. u.git \in BOOLEAN
  BY <1>2
<1>7. [a EXCEPT !.git = u.git] \in URLRecord /\ [a EXCEPT !.git = u.git].scheme = "https"
  BY <1>5, <1>6 DEF URLRecord
<1> QED BY <1>1, <1>3, <1>7 DEF Paths!RepoURL, a

LEMMA PathsInitially == Paths!Init => PathInv
<1> SUFFICES ASSUME Paths!Init PROVE PathInv
  OBVIOUS
<1>1. configured \in Configurations
  BY DEF Paths!Init
<1>2. PICK down \in BOOLEAN : manager = Paths!Initialize(down)
  BY DEF Paths!Init
<1>3. /\ manager \in [Paths!Types -> ProviderRecord \cup {None}]
      /\ \A t \in Paths!Types : manager[t] # None => manager[t].type = t
  BY <1>1, <1>2, InitializeIs
<1>4. Paths!Idle \in ReviewRecord /\ Paths!Idle \in ListingRecord /\ Paths!Idle.pc = "idle"
  BY DEF Paths!Idle, ReviewRecord, ListingRecord
<1> QED BY <1>1, <1>3, <1>4, AddressesAssumption DEF Paths!Init, PathInv, PathsTyped, ReviewInv, ReportInv, ListingInv

\* A request or an event is accepted.
LEMMA AcceptKeeps ==
    ASSUME PathInv, NEW u \in URLRecord, u.scheme # "ssh", NEW o \in Origins, o # None => u = OriginURL(o),
           Paths!Accept(u, o)
    PROVE  PathInv'
<1>1. review' = [pc |-> "asked", url |-> u, origin |-> o]
      /\ UNCHANGED <<configured, manager, report, listing, changes, tries>>
  BY DEF Paths!Accept
<1>2. review' \in ReviewRecord /\ review'.pc = "asked"
  BY <1>1 DEF ReviewRecord
<1>3. ReviewInv'
  BY <1>1, <1>2 DEF ReviewInv
<1> QED BY <1>1, <1>2, <1>3 DEF PathInv, PathsTyped, ReportInv, ListingInv

LEMMA RequestsAccepted ==
    ASSUME PathInv, \/ \E q \in Asked : Paths!CreateReview(q)
                    \/ \E e \in Sent : Paths!HandleWebhook(e)
    PROVE  PathInv'
<1>1. CASE \E q \in Asked : Paths!CreateReview(q)
  <2>1. PICK q \in Asked : Paths!CreateReview(q)
    BY <1>1
  <2> QED BY <2>1, AskedIs, AcceptKeeps DEF Paths!CreateReview, Origins
<1>2. CASE \E e \in Sent : Paths!HandleWebhook(e)
  <2>1. PICK e \in Sent : Paths!HandleWebhook(e)
    BY <1>2
  <2> DEFINE p == manager[e.type]
             o == [server |-> p, path |-> e.path]
  <2>2. e.type \in Paths!Types /\ e.path \in Seq(Words)
    <3>1. e.type \in Paths!Types /\ e.path \in Seq(Named)
      BY AddressesAssumption
    <3>2. Named \subseteq Words
      BY DEF Words
    <3> QED BY <3>1, <3>2, SeqMonotonic
  <2>3. p # None /\ p \in ProviderRecord /\ p.type = e.type
    BY <2>1, <2>2 DEF Paths!HandleWebhook, PathInv, PathsTyped
  <2>4. o \in OriginRecord
    BY <2>2, <2>3 DEF OriginRecord
  <2>5. Paths!buildRepoURL(e) = OriginURL(o)
    BY <2>3 DEF Paths!buildRepoURL, OriginURL
  <2>6. Paths!Accept(Paths!buildRepoURL(e), o)
    BY <2>1 DEF Paths!HandleWebhook
  <2> HIDE DEF o
  <2>7. o \in Origins
    BY <2>4 DEF Origins
  <2> QED BY <2>4, <2>5, <2>6, <2>7, OriginIs, AcceptKeeps
<1> QED BY <1>1, <1>2

LEMMA CommentTyped ==
    ASSUME NEW u \in URLRecord, u.scheme # "ssh", Paths!parseRepoURL(u) # None
    PROVE  Paths!parseRepoURL(u) \in Seq(Words)
<1>1. u.path \in Seq(Words) /\ u.scheme \in Schemes /\ u.host \in Words
  BY DEF URLRecord
<1> DEFINE parts == (IF u.host = None THEN <<>> ELSE <<u.host>>) \o u.path
           whole == Paths!normalizeURL(u)
<1>2. parts \in Seq(Words) /\ whole \in Seq(Words)
  <2>1. <<>> \o u.path = u.path
    BY <1>1, ConcatEmptySeq
  <2> QED BY <1>1, <2>1, JoinedIs, PartsAre
<1>3. Paths!parseRepoURL(u) = IF u.scheme = "none" THEN (IF Len(whole) = 2 THEN whole ELSE None)
                              ELSE (IF Len(parts) < 3 THEN None ELSE SubSeq(parts, 2, 3))
  BY <1>1 DEF Paths!parseRepoURL, Schemes
<1> HIDE DEF parts, whole
<1>4. ~(Len(parts) < 3) => SubSeq(parts, 2, 3) \in Seq(Words)
  <2> SUFFICES ASSUME ~(Len(parts) < 3) PROVE SubSeq(parts, 2, 3) \in Seq(Words)
    OBVIOUS
  <2>1. \A i \in 2..3 : parts[i] \in Words
    BY <1>2
  <2> QED BY <2>1, SubSeqProperties
<1> QED BY <1>2, <1>3, <1>4

\* The settings change, or the engine starts again.
LEMMA EditKeeps == ASSUME PathInv, Paths!Edit PROVE PathInv'
<1>1. configured' \in Configurations /\ changes' \in 0..MaxChanges
  BY AddressesAssumption DEF Paths!Edit, PathInv, PathsTyped
<1>2. UNCHANGED <<manager, review, report, listing, tries>>
  BY DEF Paths!Edit
<1> QED BY <1>1, <1>2 DEF PathInv, PathsTyped, ReviewInv, Read, ReportInv, ListingInv

\* An earlier step of a review, with the address it had.
LEMMA Again ==
    ASSUME review \in ReviewRecord, review.pc \in {"queued", "cloned", "failed"}
    PROVE  LET r == [review EXCEPT !.pc = "asked"]
           IN r \in ReviewRecord /\ r.pc = "asked" /\ r.url = review.url /\ r.origin = review.origin
BY DEF ReviewRecord

LEMMA RestartKeeps == ASSUME PathInv, NEW down, Paths!Restart(down) PROVE PathInv'
<1>1. /\ manager' = Paths!Initialize(down)
      /\ review' = [review EXCEPT !.pc = IF review.pc \in {"queued", "cloned"} THEN "asked" ELSE review.pc]
      /\ report' = Paths!Idle /\ listing' = Paths!Idle /\ UNCHANGED <<configured, changes>>
      /\ tries < MaxTries /\ tries' = tries + 1
  BY DEF Paths!Restart
<1>2. /\ manager' \in [Paths!Types -> ProviderRecord \cup {None}]
      /\ \A t \in Paths!Types : manager'[t] # None => manager'[t].type = t
  BY <1>1, InitializeIs DEF PathInv, PathsTyped
<1>3. tries' \in 0..MaxTries
  BY <1>1, AddressesAssumption DEF PathInv, PathsTyped
<1>4. review \in ReviewRecord /\ ReviewInv
  BY DEF PathInv, PathsTyped
<1>5. review' \in ReviewRecord /\ ReviewInv'
  <2>1. CASE review.pc \in {"queued", "cloned"}
    <3>1. review' = [review EXCEPT !.pc = "asked"]
      BY <1>1, <2>1
    <3> QED BY <1>4, <2>1, <3>1, Again DEF ReviewInv
  <2>2. CASE review.pc \notin {"queued", "cloned"}
    <3>1. review' = review
      BY <1>1, <1>4, <2>2 DEF ReviewRecord
    <3> QED BY <1>4, <2>2, <3>1 DEF ReviewInv, Read
  <2> QED BY <2>1, <2>2
<1>6. Paths!Idle \in ListingRecord /\ Paths!Idle.pc = "idle"
  BY DEF Paths!Idle, ListingRecord
<1> QED BY <1>1, <1>2, <1>3, <1>5, <1>6 DEF PathInv, PathsTyped, ReportInv, ListingInv

\* The task of a review goes on.
LEMMA ProceedKeeps ==
    ASSUME PathInv, NEW r, Paths!Proceed(r), r \in ReviewRecord, ReviewInv'
    PROVE  PathInv'
BY DEF Paths!Proceed, PathInv, PathsTyped, ReportInv, ListingInv

LEMMA SubmitKeepsPaths == ASSUME PathInv, Paths!Submit PROVE PathInv'
<1> DEFINE p == Paths!Chosen(review.url)
           t == Paths!DetectProviderFromURL(review.url)
           known == p # None /\ Paths!ParseRepoPath(p.type, review.url) # None
           q == [pc |-> "queued", url |-> review.url, origin |-> review.origin,
                 type |-> p.type, path |-> Paths!ParseRepoPath(p.type, review.url)]
           n == [pc |-> "refused", url |-> review.url, origin |-> review.origin]
<1>1. review.pc = "asked" /\ Paths!Proceed(IF known THEN q ELSE n)
  BY DEF Paths!Submit
<1>2. review \in ReviewRecord /\ ReviewInv
  BY DEF PathInv, PathsTyped
<1>3. review.url \in URLRecord /\ review.origin \in Origins
  BY <1>1, <1>2 DEF ReviewRecord
<1>4. CASE known
  <2>1. t # None /\ p = manager[t]
    BY <1>4 DEF Paths!Chosen
  <2>2. t \in Paths!Types
    BY <2>1 DEF Paths!DetectProviderFromURL, Paths!Types
  <2>3. p.type = t /\ p.type \in Paths!Types
    BY <1>4, <2>1, <2>2 DEF PathInv, PathsTyped
  <2>4. Paths!ParseRepoPath(p.type, review.url) \in Seq(Words)
    BY <1>3, <1>4, <2>3, PathTyped
  <2>5. q \in ReviewRecord
    BY <1>3, <2>3, <2>4 DEF ReviewRecord
  <2>6. review' = q /\ manager' = manager /\ Paths!Proceed(q)
    BY <1>1, <1>4 DEF Paths!Proceed
  <2>7. /\ review'.pc = "queued" /\ review'.url = review.url /\ review'.origin = review.origin
        /\ review'.type = t /\ review'.path = Paths!ParseRepoPath(t, review.url)
    BY <2>3, <2>6
  <2>8. manager[t] # None /\ Paths!ParseRepoPath(t, review.url) # None
    BY <1>4, <2>1, <2>3
  <2> HIDE DEF q, p, t, known
  <2>9. ReviewInv'
    BY <1>1, <1>2, <2>6, <2>7, <2>8 DEF ReviewInv, Read
  <2> QED BY <2>5, <2>6, <2>9, ProceedKeeps
<1>5. CASE ~known
  <2>1. n \in ReviewRecord
    BY <1>3 DEF ReviewRecord
  <2>2. review' = n /\ Paths!Proceed(n)
    BY <1>1, <1>5 DEF Paths!Proceed
  <2>3. ReviewInv'
    BY <1>1, <1>2, <2>2 DEF ReviewInv
  <2> QED BY <2>1, <2>2, <2>3, ProceedKeeps
<1> QED BY <1>4, <1>5

LEMMA CloneKeeps == ASSUME PathInv, Paths!Clone PROVE PathInv'
<1>1. review.pc = "queued" /\ review \in ReviewRecord /\ ReviewInv
  BY DEF Paths!Clone, PathInv, PathsTyped
<1> DEFINE t == review.type
           c == [pc |-> "cloned", url |-> review.url, origin |-> review.origin, type |-> t,
                 from |-> Paths!buildCloneURL(manager[t], review.path)]
           f == [review EXCEPT !.pc = "failed"]
<1>2. /\ review.url \in URLRecord /\ review.origin \in Origins /\ t \in Paths!Types /\ review.path \in Seq(Words)
  BY <1>1 DEF ReviewRecord
<1>3. manager[t] # None /\ Read(t) # None /\ review.path = Read(t) /\ manager[t] \in ProviderRecord
  BY <1>1, <1>2 DEF ReviewInv, PathInv, PathsTyped
<1>4. CASE Paths!Proceed(f)
  <2>1. f \in ReviewRecord /\ f.pc = "failed" /\ f.url = review.url /\ f.origin = review.origin
    BY <1>1 DEF ReviewRecord
  <2>2. review' = f
    BY <1>4 DEF Paths!Proceed
  <2> HIDE DEF f
  <2>3. ReviewInv'
    BY <1>1, <2>1, <2>2 DEF ReviewInv
  <2> QED BY <1>4, <2>1, <2>3, ProceedKeeps
<1>5. CASE Paths!Proceed(c)
  <2>1. c \in ReviewRecord
    BY <1>2, <1>3, ServersAre DEF ReviewRecord
  <2>2. review' = c /\ manager' = manager
    BY <1>5 DEF Paths!Proceed
  <2>3. /\ review'.pc = "cloned" /\ review'.url = review.url /\ review'.origin = review.origin /\ review'.type = t
        /\ review'.from = Paths!buildCloneURL(manager[t], Read(t))
    BY <1>3, <2>2
  <2> HIDE DEF c, t
  <2>4. ReviewInv'
    BY <1>1, <1>3, <2>2, <2>3 DEF ReviewInv, Read
  <2> QED BY <1>5, <2>1, <2>4, ProceedKeeps
<1> QED BY <1>4, <1>5 DEF Paths!Clone

LEMMA RetryKeeps == ASSUME PathInv, Paths!Retry PROVE PathInv'
<1>1. review.pc = "failed" /\ review \in ReviewRecord /\ ReviewInv
  BY DEF Paths!Retry, PathInv, PathsTyped
<1>2. review' = [review EXCEPT !.pc = "asked"] /\ tries < MaxTries /\ tries' = tries + 1
      /\ UNCHANGED <<configured, manager, report, listing, changes>>
  BY DEF Paths!Retry
<1>3. review' \in ReviewRecord /\ ReviewInv'
  BY <1>1, <1>2, Again DEF ReviewInv
<1>4. tries' \in 0..MaxTries
  BY <1>2, AddressesAssumption DEF PathInv, PathsTyped
<1> QED BY <1>2, <1>3, <1>4 DEF PathInv, PathsTyped, ReportInv, ListingInv

LEMMA PublishKeepsPaths == ASSUME PathInv, Paths!Publish PROVE PathInv'
<1>1. review.pc = "cloned" /\ review \in ReviewRecord /\ ReviewInv
  BY DEF Paths!Publish, PathInv, PathsTyped
<1> DEFINE t == review.type
           path == Paths!parseRepoURL(review.url)
           d == [pc |-> "commented", url |-> review.url, origin |-> review.origin, from |-> review.from,
                 comment |-> IF path = None THEN None ELSE Paths!Place(Paths!Server(manager[t]), path)]
<1>2. /\ review.url \in URLRecord /\ review.origin \in Origins /\ t \in Paths!Types /\ review.from \in PlaceRecord
  BY <1>1 DEF ReviewRecord
<1>3. /\ manager[t] # None /\ Read(t) # None /\ manager[t] \in ProviderRecord
      /\ review.from = Paths!buildCloneURL(manager[t], Read(t)) /\ review.url.scheme # "ssh"
  BY <1>1, <1>2 DEF ReviewInv, PathInv, PathsTyped
<1>4. path # None => path \in Seq(Words)
  BY <1>2, <1>3, CommentTyped
<1>5. review.from.path = Read(t)
  BY <1>2, <1>3, PathTyped, ServersAre DEF Read
<1>6. d \in ReviewRecord
  BY <1>2, <1>3, <1>4, ServersAre DEF ReviewRecord, PlaceRecord, Paths!Place
<1>7. review' = d /\ manager' = manager /\ Paths!Proceed(d)
  BY DEF Paths!Publish, Paths!Proceed
<1>8. /\ review'.pc = "commented" /\ review'.url = review.url /\ review'.origin = review.origin
      /\ review'.from = review.from
      /\ review'.comment # None => path # None /\ review'.comment.path = path
  BY <1>7 DEF Paths!Place
<1> HIDE DEF d
<1>9. ReviewInv'
  BY <1>1, <1>2, <1>3, <1>5, <1>7, <1>8 DEF ReviewInv, Read
<1> QED BY <1>6, <1>7, <1>9, ProceedKeeps

\* A report is prepared, branches are asked for, a page is read.
LEMMA ReportKeeps ==
    ASSUME PathInv, NEW u \in Addresses, NEW down, Paths!PrepareRepository(u, down)
    PROVE  PathInv'
<1> DEFINE p == Paths!GetOrCreateProviderForURL(u, down)
           known == p # None /\ Paths!ParseRepoPath(p.type, u) # None
           r == [pc |-> "read", url |-> u, by |-> p, from |-> Paths!buildCloneURL(p, Paths!ParseRepoPath(p.type, u))]
           n == [pc |-> "refused", url |-> u]
<1>1. report' = (IF known THEN r ELSE n) /\ UNCHANGED <<configured, manager, review, listing, changes, tries>>
  BY DEF Paths!PrepareRepository
<1>2. report'.pc \in {"idle", "read", "refused"} /\ ReportInv'
  <2>1. CASE known
    <3>1. /\ p \in ProviderRecord /\ Paths!MatchesURL(p, u)
          /\ p.type = "gitea" /\ u.scheme = "ssh" => Len(u.path) = 2
      BY <2>1, FoundIs DEF PathInv, PathsTyped
    <3>2. report'.pc = "read" /\ report'.url = u /\ report'.by = p
          /\ report'.from = Paths!buildCloneURL(p, Paths!ParseRepoPath(p.type, u))
      BY <1>1, <2>1
    <3> HIDE DEF r, n
    <3> QED BY <2>1, <3>1, <3>2 DEF ReportInv
  <2>2. CASE ~known
    BY <1>1, <2>2 DEF ReportInv
  <2> QED BY <2>1, <2>2
<1> QED BY <1>1, <1>2 DEF PathInv, PathsTyped, ReviewInv, Read, ListingInv

\* Nothing but the list is touched.
LEMMA ListingKeeps ==
    ASSUME PathInv, UNCHANGED <<configured, manager, review, report, changes, tries>>,
           listing' \in ListingRecord, ListingInv'
    PROVE  PathInv'
BY DEF PathInv, PathsTyped, ReviewInv, Read, ReportInv

LEMMA BranchesKeep ==
    ASSUME PathInv, NEW u \in Addresses, NEW down, NEW even \in BOOLEAN, Paths!GetBranches(u, down, even)
    PROVE  PathInv'
<1> DEFINE p == Paths!GetOrCreateProviderForURL(u, down)
<1>1. /\ p # None /\ listing' = [pc |-> "page", by |-> p, page |-> 1, read |-> <<>>, even |-> even]
      /\ UNCHANGED <<configured, manager, review, report, changes, tries>>
  BY DEF Paths!GetBranches
<1>2. p \in ProviderRecord
  BY <1>1, FoundIs DEF PathInv, PathsTyped
<1>3. listing' \in ListingRecord
  BY <1>1, <1>2 DEF ListingRecord
<1>4. ListingInv'
  <2>1. listing'.pc = "page" /\ listing'.page = 1 /\ listing'.read = <<>> /\ Len(<<>>) = 0 /\ DOMAIN <<>> = {}
    BY <1>1
  <2>2. 1 \in 1..(Pages + 1) /\ 0 = 1 - 1
    BY AddressesAssumption
  <2> QED BY <2>1, <2>2 DEF ListingInv
<1> QED BY <1>1, <1>3, <1>4, ListingKeeps

LEMMA PageKeeps == ASSUME PathInv, Paths!ListPage \/ Paths!PageFails PROVE PathInv'
<1>1. /\ listing.pc = "page" /\ UNCHANGED <<configured, manager, review, report, changes, tries>>
      /\ listing \in ListingRecord /\ ListingInv
  BY DEF Paths!ListPage, Paths!PageFails, PathInv, PathsTyped
<1>2. /\ listing.by \in ProviderRecord /\ listing.page \in Nat /\ listing.read \in Seq(PageRecord) /\ listing.even \in BOOLEAN
      /\ listing \in [pc : {"page", "failed", "done"}, by : ProviderRecord, page : Nat, read : Seq(PageRecord), even : BOOLEAN]
  BY <1>1 DEF ListingRecord
<1>3. CASE Paths!PageFails
  <2>1. listing' = [listing EXCEPT !.pc = "failed"]
    BY <1>3 DEF Paths!PageFails
  <2>2. listing' \in ListingRecord /\ listing'.pc = "failed"
    BY <1>2, <2>1 DEF ListingRecord
  <2> QED BY <1>1, <2>2, ListingKeeps DEF ListingInv
<1>4. CASE Paths!ListPage
  <2>1. PICK server \in {Paths!Server(listing.by)} \cup
                        (IF listing.by.type = "github" /\ listing.by.token THEN {Public["github"]} ELSE {}) :
            listing' = [listing EXCEPT
                !.pc = IF Paths!LastPage(listing) THEN "done" ELSE "page",
                !.page = listing.page + 1,
                !.read = IF listing.page > Pages THEN listing.read
                         ELSE Append(listing.read, [server |-> server, page |-> listing.page])]
    BY <1>4 DEF Paths!ListPage
  <2>2. /\ server \in Dotted
        /\ server = Paths!Server(listing.by) \/ (listing.by.type = "github" /\ listing.by.token)
    BY <1>2, ServersAre, AddressesAssumption DEF Paths!Types
  <2> DEFINE e == [server |-> server, page |-> listing.page]
             s == IF listing.page > Pages THEN listing.read ELSE Append(listing.read, e)
             l == IF Paths!LastPage(listing) THEN "done" ELSE "page"
  <2>3. listing.page \in 1..(Pages + 1) /\ Len(listing.read) = listing.page - 1 /\ Pages \in Nat
    BY <1>1, AddressesAssumption DEF ListingInv
  <2>4. /\ listing'.pc = l /\ listing'.page = listing.page + 1 /\ listing'.read = s /\ listing'.by = listing.by
        /\ listing'.even = listing.even
        /\ listing' \in [pc : {l}, by : ProviderRecord, page : {listing.page + 1}, read : {s}, even : BOOLEAN]
    BY <1>2, <2>1
  <2>5. e \in PageRecord /\ e.page = listing.page /\ e.server = server
    BY <1>2, <2>2 DEF PageRecord
  <2>6. s \in Seq(PageRecord) /\ Len(s) = (IF listing.page > Pages THEN Pages ELSE listing.page)
        /\ \A i \in DOMAIN s : (i \in DOMAIN listing.read /\ s[i] = listing.read[i]) \/ (i = listing.page /\ s[i] = e)
    <3> HIDE DEF e
    <3>1. CASE listing.page > Pages
      BY <1>2, <2>3, <3>1
    <3>2. CASE ~(listing.page > Pages)
      <4>1. /\ Append(listing.read, e) \in Seq(PageRecord) /\ Len(Append(listing.read, e)) = listing.page
            /\ \A i \in 1..listing.page :
                  Append(listing.read, e)[i] = IF i = listing.page THEN e ELSE listing.read[i]
        BY <1>2, <2>3, <2>5
      <4>2. DOMAIN Append(listing.read, e) = 1..listing.page /\ DOMAIN listing.read = 1..(listing.page - 1)
        BY <1>2, <2>3, <4>1
      <4> QED BY <2>3, <3>2, <4>1, <4>2
    <3> QED BY <3>1, <3>2
  <2> HIDE DEF e, s, l
  <2>7. listing' \in ListingRecord
    <3>1. l \in {"page", "done"} /\ listing.page + 1 \in Nat
      BY <1>2 DEF l
    <3> QED BY <2>4, <2>6, <3>1 DEF ListingRecord
  <2>8. \A i \in DOMAIN s :
            /\ s[i].page = i
            /\ s[i].server = Paths!Server(listing.by) \/ (listing.by.type = "github" /\ listing.by.token)
    BY <1>1, <2>2, <2>5, <2>6 DEF ListingInv
  <2>9. CASE Paths!LastPage(listing)
    <3>1. listing'.pc = "done"
      BY <2>4, <2>9 DEF l
    <3>2. listing.page >= Pages
      BY <2>3, <2>9 DEF Paths!LastPage
    <3>3. Len(s) = Pages
      BY <2>3, <2>6, <3>2
    <3> QED BY <1>1, <2>4, <2>7, <2>8, <3>1, <3>3, ListingKeeps DEF ListingInv
  <2>10. CASE ~Paths!LastPage(listing)
    <3>1. listing'.pc = "page"
      BY <2>4, <2>10 DEF l
    <3>2. ~(listing.page > Pages)
      BY <2>10 DEF Paths!LastPage
    <3>3. listing.page + 1 \in 1..(Pages + 1) /\ Len(s) = (listing.page + 1) - 1
      BY <2>3, <2>6, <3>2
    <3> QED BY <1>1, <2>4, <2>7, <2>8, <3>1, <3>3, ListingKeeps DEF ListingInv
  <2> QED BY <2>9, <2>10
<1> QED BY <1>3, <1>4

LEMMA PathsStep == PathInv /\ [Paths!Next]_(Paths!vars) => PathInv'
<1> SUFFICES ASSUME PathInv, [Paths!Next]_(Paths!vars) PROVE PathInv'
  OBVIOUS
<1>1. CASE UNCHANGED Paths!vars
  BY <1>1 DEF Paths!vars, PathInv, PathsTyped, ReviewInv, Read, ReportInv, ListingInv
<1>2. CASE Paths!Next
  BY <1>2, RequestsAccepted, EditKeeps, RestartKeeps, SubmitKeepsPaths, CloneKeeps, RetryKeeps, PublishKeepsPaths,
     ReportKeeps, BranchesKeep, PageKeeps DEF Paths!Next
<1> QED BY <1>1, <1>2

LEMMA IntakePaths == IntakeSpec => Paths!Init /\ [][Paths!Next]_(Paths!vars)
<1>1. IntakeInit => Paths!Init
  BY DEF IntakeInit
<1>2. [IntakeNext]_allVars => [Paths!Next]_(Paths!vars)
  BY DEF IntakeNext, allVars, addressVars, Paths!vars
<1> QED BY <1>1, <1>2, PTL DEF IntakeSpec

\* Whatever was remembered belongs to the project that was meant.
LEMMA ProjectsAre == PathInv => RightProject
<1> SUFFICES ASSUME PathInv PROVE RightProject
  OBVIOUS
<1>1. Paths!ReportsReadTheirProject
  <2> SUFFICES ASSUME report.pc = "read", Paths!Clear(report.url), ~report.by.bare
               PROVE  /\ report.from.host = report.url.host
                      /\ report.by.type = "gitlab" => report.from.path = report.url.path
                      /\ report.by.type # "gitlab" => Paths!IsPrefix(report.from.path, report.url.path)
    BY DEF Paths!ReportsReadTheirProject
  <2> DEFINE u == report.url
             p == report.by
             s == Paths!ParseRepoPath(p.type, u)
  <2>1. /\ u \in Addresses /\ p \in ProviderRecord /\ Paths!MatchesURL(p, u)
        /\ p.type = "gitea" /\ u.scheme = "ssh" => Len(u.path) = 2
        /\ s # None /\ report.from = Paths!buildCloneURL(p, s)
    BY DEF PathInv, ReportInv
  <2>2. p.type \in Paths!Types /\ u.path \in Seq(Named) /\ u.host \in Dotted \cup {None} /\ u.host # None /\ ~u.port
    BY <2>1, AddressesAssumption DEF ProviderRecord, AddressRecord, Paths!Clear
  <2>3. Head(Paths!normalizeURL(u)) = u.host
    <3>1. Named \subseteq Words /\ Dotted \subseteq Words
      BY DEF Words
    <3>2. u.path \in Seq(Words) /\ u.host \in Words
      BY <2>2, <3>1, SeqMonotonic
    <3>3. <<u.host>> \o <<>> = <<u.host>>
      OBVIOUS
    <3>4. Paths!normalizeURL(u) = <<u.host>> \o u.path
      BY <2>2, <3>3 DEF Paths!normalizeURL
    <3> QED BY <3>2, <3>4, JoinedIs
  <2>4. Paths!CloneHost(p) = u.host
    <3>1. CASE p.host = None
      <4>1. u.host \in Like[p.type]
        BY <2>1, <2>3, <3>1 DEF Paths!MatchesURL
      <4> QED BY <2>2, <3>1, <4>1 DEF Paths!Clear, Paths!CloneHost
    <3>2. CASE p.host # None
      <4>1. u.host = p.host \/ <<p.host, u.host>> \in Longer
        BY <2>1, <2>3, <3>2 DEF Paths!MatchesURL
      <4>2. <<p.host, u.host>> \notin Longer
        <5>1. \A pair \in Longer : u.host # pair[2]
          BY DEF Paths!Clear
        <5>2. <<p.host, u.host>>[2] = u.host
          OBVIOUS
        <5> QED BY <5>1, <5>2
      <4> QED BY <3>2, <4>1, <4>2 DEF Paths!CloneHost
    <3> QED BY <3>1, <3>2
  <2>5. report.from.host = u.host /\ report.from.path = s
    BY <2>1, <2>4 DEF Paths!buildCloneURL, Paths!Place
  <2>6. /\ p.type = "gitlab" => s = u.path
        /\ p.type # "gitlab" => Paths!IsPrefix(s, u.path)
    BY <2>1, <2>2, ReportPath
  <2> QED BY <2>5, <2>6
<1>2. Paths!CommentsWhereReviewed
  <2> SUFFICES ASSUME review.pc = "commented", review.comment # None, ~review.url.port, Len(review.from.path) = 2
               PROVE  review.comment.path = review.from.path
    BY DEF Paths!CommentsWhereReviewed
  <2>1. PICK t \in Paths!Types : Read(t) # None /\ review.from.path = Read(t)
    BY DEF PathInv, ReviewInv
  <2>2. /\ Paths!parseRepoURL(review.url) # None /\ review.comment.path = Paths!parseRepoURL(review.url)
        /\ review.url.scheme # "ssh"
    BY DEF PathInv, ReviewInv
  <2>3. review.url \in URLRecord
    BY DEF PathInv, PathsTyped, ReviewRecord
  <2> QED BY <2>1, <2>2, <2>3, CommentPath DEF Read
<1>3. Paths!EventsCloneTheirProject
  <2> DEFINE p == review.origin.server
  <2> SUFFICES ASSUME review.pc = "cloned", review.origin # None, p = manager[p.type], review.type = p.type, ~p.bare
               PROVE  review.from = Paths!Place(Paths!Server(p), review.origin.path)
    BY DEF Paths!EventsCloneTheirProject
  <2>1. /\ review.url = OriginURL(review.origin)
        /\ review.from = Paths!buildCloneURL(p, Paths!ParseRepoPath(p.type, review.url))
    BY DEF PathInv, ReviewInv, Read
  <2>2. review.origin \in OriginRecord
    BY DEF PathInv, PathsTyped, ReviewRecord, Origins
  <2>3. Paths!CloneHost(p) = Paths!Server(p)
    BY DEF Paths!CloneHost, Paths!Server
  <2> QED BY <2>1, <2>2, <2>3, OriginPath DEF Paths!buildCloneURL
<1>4. Paths!ListedWhole
  BY DEF PathInv, ListingInv, Paths!ListedWhole
<1> QED BY <1>1, <1>2, <1>3, <1>4 DEF RightProject

\* A report reads the project its address names; the comment of a review goes
\* to the project that was cloned for it; an event leads to the project that
\* sent it; a list of branches is whole and of one server: whatever is
\* configured, and also when the settings change and the engine starts again
\* between a request and its task (GetOrCreateProviderForURL, ParseRepoPath,
\* buildCloneURL, parseRepoURL, ListBranches).
THEOREM ProjectsAreRight == IntakeSpec => []RightProject
<1> QED BY PathsInitially, PathsStep, ProjectsAre, IntakePaths, PTL

-----------------------------------------------------------------------------
(* Settings *)

AllSecrets == Secrets \cup Short \cup {Typed} \cup Masks
Values == {v \in Seq(SettingItem) : NamedOnce(v)}
Shown == Values \cup {Gone}
AdminRecord ==
    [step : {"idle"}]
    \cup [step : {"view", "edited", "apply"}, draft : [Config!Keys -> Shown], truth : [Config!Keys -> Shown],
          scope : SUBSET Config!Categories,
          used : {None} \cup [key : Config!Keys, name : DOMAIN TypeOf, secret : AllSecrets]]
SettingsTyped ==
    /\ settings \in [Config!Keys -> [state : {"none", "live", "deleted"}, value : Values]]
    /\ admin \in [Admins -> AdminRecord]
SettingsCounts == views \in 0..MaxViews /\ statements \in 0..MaxFaults

\* Of a setting that was not there an administrator has seen no secret.
Unmasked(v) == \A i \in DOMAIN v : ~Config!isMaskedValue(v[i].secret)
DraftInv(a) ==
    admin[a].step # "idle" =>
        \A k \in Config!Keys : admin[a].truth[k] = Gone => admin[a].draft[k] = Gone \/ Unmasked(admin[a].draft[k])
SettingsInv == SettingsTyped /\ \A a \in Admins : DraftInv(a)

\* A value whose items are made anew, each with the name it had.
LEMMA SameNames ==
    ASSUME NEW v \in Values, NEW w, DOMAIN w = DOMAIN v, w = [i \in DOMAIN w |-> w[i]],
           \A i \in DOMAIN v : w[i] \in SettingItem /\ w[i].name = v[i].name
    PROVE  w \in Values
<1>1. v \in Seq(SettingItem) /\ NamedOnce(v)
  BY DEF Values
<1>2. Len(v) \in Nat /\ DOMAIN v = 1..Len(v)
  BY <1>1, LenProperties
<1>3. w \in [1..Len(v) -> SettingItem]
  BY <1>2
<1>4. w \in Seq(SettingItem)
  BY <1>2, <1>3
<1>5. NamedOnce(w)
  BY <1>1 DEF NamedOnce
<1> QED BY <1>4, <1>5 DEF Values

LEMMA ItemIs ==
    ASSUME NEW v \in Values, NEW i \in DOMAIN v
    PROVE  v[i] \in SettingItem /\ v[i].name \in DOMAIN TypeOf /\ v[i].secret \in AllSecrets
<1>1. v[i] \in SettingItem
  BY DEF Values
<1> QED BY <1>1 DEF SettingItem, AllSecrets

LEMMA NewSecret ==
    ASSUME NEW x \in SettingItem, NEW s \in AllSecrets
    PROVE  /\ [x EXCEPT !.secret = s] \in SettingItem /\ [x EXCEPT !.secret = s].name = x.name
           /\ [x EXCEPT !.secret = s].secret = s
BY DEF SettingItem, AllSecrets

LEMMA MaskIs ==
    ASSUME NEW v \in Values
    PROVE  Config!maskSettingsValue(v) \in Values
<1> DEFINE w == Config!maskSettingsValue(v)
<1>1. w = [i \in DOMAIN v |-> [v[i] EXCEPT !.secret = Config!maskSensitiveValue(v[i].secret)]]
  BY DEF Config!maskSettingsValue
<1>2. ASSUME NEW i \in DOMAIN v PROVE w[i] \in SettingItem /\ w[i].name = v[i].name
  <2>1. v[i] \in SettingItem /\ v[i].secret \in AllSecrets
    BY ItemIs
  <2>2. Config!maskSensitiveValue(v[i].secret) \in AllSecrets
    BY <2>1 DEF Config!maskSensitiveValue, AllSecrets, Masks
  <2>3. w[i] = [v[i] EXCEPT !.secret = Config!maskSensitiveValue(v[i].secret)]
    BY <1>1
  <2>4. PICK x \in SettingItem : x = v[i]
    BY <2>1
  <2>5. PICK s \in AllSecrets : s = Config!maskSensitiveValue(v[i].secret)
    BY <2>2
  <2>6. w[i] = [x EXCEPT !.secret = s]
    BY <2>3, <2>4, <2>5
  <2> QED BY <2>4, <2>6, NewSecret
<1>3. DOMAIN w = DOMAIN v /\ w = [i \in DOMAIN w |-> w[i]]
  BY <1>1
<1> QED BY <1>2, <1>3, SameNames

LEMMA RestoreIs ==
    ASSUME NEW v \in Values, NEW old \in Values
    PROVE  Config!restoreMaskedValues(v, old) \in Values
<1> DEFINE w == Config!restoreMaskedValues(v, old)
<1>1. w = [i \in DOMAIN v |-> IF Config!isMaskedValue(v[i].secret) /\ i \in DOMAIN old
                              THEN [v[i] EXCEPT !.secret = old[i].secret] ELSE v[i]]
  BY DEF Config!restoreMaskedValues
<1>2. ASSUME NEW i \in DOMAIN v PROVE w[i] \in SettingItem /\ w[i].name = v[i].name
  <2>1. v[i] \in SettingItem
    BY ItemIs
  <2>2. i \in DOMAIN old => old[i].secret \in AllSecrets
    BY ItemIs
  <2> QED BY <1>1, <2>1, <2>2, NewSecret
<1>3. DOMAIN w = DOMAIN v /\ w = [i \in DOMAIN w |-> w[i]]
  BY <1>1
<1> QED BY <1>2, <1>3, SameNames

LEMMA EmptyIs == <<>> \in Values
BY DEF Values, NamedOnce

\* What the settings page makes of a value.
LEMMA RemovedIs ==
    ASSUME NEW v \in Values, NEW n \in DOMAIN v
    PROVE  /\ Config!RemoveAt(v, n) \in Values
           /\ \A i \in DOMAIN Config!RemoveAt(v, n) : \E j \in DOMAIN v : Config!RemoveAt(v, n)[i] = v[j]
<1>1. v \in Seq(SettingItem) /\ NamedOnce(v) /\ Len(v) \in Nat /\ DOMAIN v = 1..Len(v)
      /\ \A i \in 1..Len(v) : v[i] \in SettingItem
  BY LenProperties DEF Values
<1> DEFINE l == SubSeq(v, 1, n - 1)
           r == SubSeq(v, n + 1, Len(v))
           w == l \o r
<1>2. n \in 1..Len(v)
  BY <1>1
<1>3. l \in Seq(SettingItem) /\ Len(l) = n - 1 /\ \A i \in 1..(n - 1) : l[i] = v[i]
  <2>1. \A i \in 1..(n - 1) : v[i] \in SettingItem
    BY <1>1, <1>2
  <2>2. /\ l \in Seq(SettingItem) /\ Len(l) = (IF 1 <= n - 1 THEN (n - 1) - 1 + 1 ELSE 0)
        /\ \A i \in 1..((n - 1) - 1 + 1) : l[i] = v[1 + i - 1]
    BY <1>2, <2>1, SubSeqProperties
  <2> QED BY <1>2, <2>2
<1>4. r \in Seq(SettingItem) /\ Len(r) = Len(v) - n /\ \A i \in 1..(Len(v) - n) : r[i] = v[n + i]
  <2>1. \A i \in (n + 1)..Len(v) : v[i] \in SettingItem
    BY <1>1, <1>2
  <2>2. /\ r \in Seq(SettingItem) /\ Len(r) = (IF n + 1 <= Len(v) THEN Len(v) - (n + 1) + 1 ELSE 0)
        /\ \A i \in 1..(Len(v) - (n + 1) + 1) : r[i] = v[(n + 1) + i - 1]
    BY <1>1, <1>2, <2>1, SubSeqProperties
  <2>3. Len(v) - (n + 1) + 1 = Len(v) - n /\ \A i \in 1..(Len(v) - n) : (n + 1) + i - 1 = n + i
    BY <1>1, <1>2
  <2>4. (IF n + 1 <= Len(v) THEN Len(v) - (n + 1) + 1 ELSE 0) = Len(v) - n
    BY <1>1, <1>2
  <2> HIDE DEF r
  <2>5. \A i \in 1..(Len(v) - n) : r[i] = v[n + i]
    BY <2>2, <2>3
  <2> QED BY <2>2, <2>4, <2>5
<1> HIDE DEF l, r
<1>5. w \in Seq(SettingItem) /\ Len(w) = Len(v) - 1
      /\ \A i \in 1..(Len(v) - 1) : w[i] = IF i <= n - 1 THEN l[i] ELSE r[i - (n - 1)]
  <2>1. /\ w \in Seq(SettingItem) /\ Len(w) = Len(l) + Len(r)
        /\ \A i \in 1..(Len(l) + Len(r)) : w[i] = IF i <= Len(l) THEN l[i] ELSE r[i - Len(l)]
    BY <1>3, <1>4, ConcatProperties
  <2>2. Len(l) + Len(r) = Len(v) - 1
    BY <1>1, <1>2, <1>3, <1>4
  <2> HIDE DEF w
  <2> QED BY <1>3, <2>1, <2>2
<1>6. \A i \in 1..(Len(v) - 1) : w[i] = v[IF i < n THEN i ELSE i + 1]
  <2> SUFFICES ASSUME NEW i \in 1..(Len(v) - 1) PROVE w[i] = v[IF i < n THEN i ELSE i + 1]
    OBVIOUS
  <2>1. CASE i < n
    BY <1>1, <1>2, <1>3, <1>5, <2>1
  <2>2. CASE ~(i < n)
    <3>1. w[i] = r[i - (n - 1)] /\ i - (n - 1) \in 1..(Len(v) - n)
      BY <1>1, <1>2, <1>5, <2>2
    <3>2. r[i - (n - 1)] = v[n + (i - (n - 1))]
      BY <1>4, <3>1
    <3>3. n + (i - (n - 1)) = i + 1
      BY <1>1, <1>2
    <3> QED BY <2>2, <3>1, <3>2, <3>3
  <2> QED BY <2>1, <2>2
<1>7. DOMAIN w = 1..(Len(v) - 1)
  BY <1>5
<1> HIDE DEF w
<1>8. NamedOnce(w)
  <2> SUFFICES ASSUME NEW i \in 1..(Len(v) - 1), NEW j \in 1..(Len(v) - 1), w[i].name = w[j].name PROVE i = j
    BY <1>7 DEF NamedOnce
  <2> DEFINE i1 == IF i < n THEN i ELSE i + 1
             j1 == IF j < n THEN j ELSE j + 1
  <2>1. i1 \in DOMAIN v /\ j1 \in DOMAIN v
    BY <1>1, <1>2
  <2>2. v[i1].name = v[j1].name
    BY <1>6
  <2>3. i1 = j1
    BY <1>1, <2>1, <2>2 DEF NamedOnce
  <2> QED BY <1>1, <1>2, <2>3
<1>9. \A i \in DOMAIN w : \E j \in DOMAIN v : w[i] = v[j]
  <2> SUFFICES ASSUME NEW i \in 1..(Len(v) - 1) PROVE \E j \in DOMAIN v : w[i] = v[j]
    BY <1>7
  <2> DEFINE j == IF i < n THEN i ELSE i + 1
  <2>1. j \in DOMAIN v
    BY <1>1, <1>2
  <2>2. w[i] = v[j]
    BY <1>6
  <2> QED BY <2>1, <2>2
<1>10. w = Config!RemoveAt(v, n)
  BY DEF w, l, r, Config!RemoveAt
<1>11. w \in Values
  BY <1>5, <1>8 DEF Values
<1> QED BY <1>9, <1>10, <1>11

LEMMA AddIs ==
    ASSUME NEW v \in Values, NEW x \in SettingItem, \A i \in DOMAIN v : v[i].name # x.name
    PROVE  Append(v, x) \in Values
<1>1. v \in Seq(SettingItem) /\ NamedOnce(v) /\ Len(v) \in Nat /\ DOMAIN v = 1..Len(v)
  BY LenProperties DEF Values
<1> DEFINE w == Append(v, x)
<1>2. w \in Seq(SettingItem) /\ Len(w) = Len(v) + 1 /\ (\A i \in 1..Len(v) : w[i] = v[i]) /\ w[Len(v) + 1] = x
  BY <1>1, AppendProperties
<1> HIDE DEF w
<1>3. DOMAIN w = 1..(Len(v) + 1)
  BY <1>2
<1>4. NamedOnce(w)
  <2> SUFFICES ASSUME NEW i \in 1..(Len(v) + 1), NEW j \in 1..(Len(v) + 1), w[i].name = w[j].name PROVE i = j
    BY <1>3 DEF NamedOnce
  <2>1. CASE i = Len(v) + 1 /\ j # Len(v) + 1
    BY <1>1, <1>2, <2>1
  <2>2. CASE j = Len(v) + 1 /\ i # Len(v) + 1
    BY <1>1, <1>2, <2>2
  <2>3. CASE i \in 1..Len(v) /\ j \in 1..Len(v)
    BY <1>1, <1>2, <2>3 DEF NamedOnce
  <2> QED BY <1>1, <2>1, <2>2, <2>3
<1> QED BY <1>2, <1>4 DEF Values, w

LEMMA EditedIs ==
    ASSUME NEW v \in Shown, NEW w \in Config!Edits(v)
    PROVE  w \in Shown /\ (v = Gone => Unmasked(w))
<1>1. \A n \in Config!Names : [name |-> n, secret |-> Typed] \in SettingItem
  BY DEF Config!Names, SettingItem
<1>2. CASE v = Gone
  <2>1. PICK n \in Config!Names : w = <<[name |-> n, secret |-> Typed]>>
    BY <1>2 DEF Config!Edits
  <2> DEFINE x == [name |-> n, secret |-> Typed]
  <2>2. x \in SettingItem /\ x.secret = Typed
    BY <1>1
  <2> HIDE DEF x
  <2>3. w = <<x>>
    BY <2>1 DEF x
  <2>4. DOMAIN w = {1} /\ w[1] = x /\ w \in Seq(SettingItem)
    BY <2>2, <2>3
  <2>5. w \in Values /\ Unmasked(w)
    BY <2>2, <2>4, SettingsAssumption DEF Values, NamedOnce, Unmasked
  <2> QED BY <2>5 DEF Shown
<1>3. CASE v # Gone
  <2>1. v \in Values
    BY <1>3 DEF Shown
  <2>2. \/ w = Gone
        \/ \E i \in DOMAIN v : w = [v EXCEPT ![i].secret = Typed]
        \/ \E n \in Config!Names \ {v[i].name : i \in DOMAIN v} : w = Append(v, [name |-> n, secret |-> Typed])
        \/ \E i \in DOMAIN v : w = Config!RemoveAt(v, i)
    BY <1>3 DEF Config!Edits
  <2>3. ASSUME NEW n \in DOMAIN v, w = [v EXCEPT ![n].secret = Typed] PROVE w \in Values
    <3>1. ASSUME NEW i \in DOMAIN v PROVE w[i] \in SettingItem /\ w[i].name = v[i].name
      <4>1. v[i] \in SettingItem
        BY <2>1, ItemIs
      <4>2. Typed \in AllSecrets
        BY DEF AllSecrets
      <4>3. w[i] = IF i = n THEN [v[i] EXCEPT !.secret = Typed] ELSE v[i]
        BY <2>3
      <4> QED BY <4>1, <4>2, <4>3, NewSecret
    <3>2. DOMAIN w = DOMAIN v /\ w = [i \in DOMAIN w |-> w[i]]
      BY <2>3
    <3> QED BY <2>1, <3>1, <3>2, SameNames
  <2>4. ASSUME NEW n \in Config!Names \ {v[i].name : i \in DOMAIN v}, w = Append(v, [name |-> n, secret |-> Typed])
        PROVE  w \in Values
    <3> DEFINE x == [name |-> n, secret |-> Typed]
    <3>1. x \in SettingItem /\ x.name = n
      BY <1>1
    <3>2. \A i \in DOMAIN v : v[i].name # n
      BY <2>4
    <3> QED BY <2>1, <2>4, <3>1, <3>2, AddIs
  <2> QED BY <1>3, <2>1, <2>2, <2>3, <2>4, RemovedIs DEF Shown
<1> QED BY <1>2, <1>3

\* An edit makes no mask.
LEMMA StaysUnmasked ==
    ASSUME NEW v \in Shown, v # Gone, Unmasked(v), NEW w \in Config!Edits(v), w # Gone
    PROVE  Unmasked(w)
<1>1. v \in Values /\ ~Config!isMaskedValue(Typed)
  BY SettingsAssumption DEF Shown
<1>2. v \in Seq(SettingItem) /\ Len(v) \in Nat /\ DOMAIN v = 1..Len(v) /\ \A i \in 1..Len(v) : v[i] \in SettingItem
  BY <1>1, LenProperties DEF Values
<1>3. \/ \E i \in DOMAIN v : w = [v EXCEPT ![i].secret = Typed]
      \/ \E n \in Config!Names \ {v[i].name : i \in DOMAIN v} : w = Append(v, [name |-> n, secret |-> Typed])
      \/ \E i \in DOMAIN v : w = Config!RemoveAt(v, i)
  BY DEF Config!Edits
<1>4. ASSUME NEW n \in DOMAIN v, w = [v EXCEPT ![n].secret = Typed] PROVE Unmasked(w)
  <2>1. DOMAIN w = DOMAIN v /\ \A i \in DOMAIN v : w[i] = IF i = n THEN [v[i] EXCEPT !.secret = Typed] ELSE v[i]
    BY <1>4
  <2>2. Typed \in AllSecrets
    BY DEF AllSecrets
  <2>3. ASSUME NEW i \in DOMAIN v PROVE w[i].secret \in {Typed, v[i].secret}
    <3>1. v[i] \in SettingItem
      BY <1>2
    <3>2. [v[i] EXCEPT !.secret = Typed].secret = Typed
      BY <3>1 DEF SettingItem
    <3> QED BY <2>1, <3>2
  <2> QED BY <1>1, <2>1, <2>3 DEF Unmasked
<1>5. ASSUME NEW n \in Config!Names, w = Append(v, [name |-> n, secret |-> Typed]) PROVE Unmasked(w)
  <2> DEFINE x == [name |-> n, secret |-> Typed]
  <2>1. x \in SettingItem /\ x.secret = Typed
    BY DEF Config!Names, SettingItem
  <2> HIDE DEF x
  <2>2. w = Append(v, x)
    BY <1>5 DEF x
  <2>3. w \in Seq(SettingItem) /\ Len(w) = Len(v) + 1 /\ (\A i \in 1..Len(v) : w[i] = v[i]) /\ w[Len(v) + 1] = x
    BY <1>2, <2>1, <2>2, AppendProperties
  <2>4. DOMAIN w = 1..(Len(v) + 1)
    BY <2>3
  <2>5. \A i \in DOMAIN w : i \in DOMAIN v \/ i = Len(v) + 1
    BY <1>2, <2>4
  <2> QED BY <1>1, <1>2, <2>1, <2>3, <2>5 DEF Unmasked
<1>6. ASSUME NEW n \in DOMAIN v, w = Config!RemoveAt(v, n) PROVE Unmasked(w)
  <2>1. \A i \in DOMAIN w : \E j \in DOMAIN v : w[i] = v[j]
    BY <1>1, <1>6, RemovedIs
  <2> QED BY <2>1 DEF Unmasked
<1> QED BY <1>3, <1>4, <1>5, <1>6

SettingRow == [state : {"none", "live", "deleted"}, value : Values]
ActiveAdmin ==
    [step : {"view", "edited", "apply"}, draft : [Config!Keys -> Shown], truth : [Config!Keys -> Shown],
     scope : SUBSET Config!Categories, used : {None} \cup [key : Config!Keys, name : DOMAIN TypeOf, secret : AllSecrets]]

LEMMA ActiveIs ==
    ASSUME SettingsInv, NEW a \in Admins, admin[a].step # "idle"
    PROVE  /\ admin[a] \in ActiveAdmin
           /\ \A k \in Config!Keys : admin[a].truth[k] = Gone => admin[a].draft[k] = Gone \/ Unmasked(admin[a].draft[k])
BY DEF SettingsInv, SettingsTyped, AdminRecord, ActiveAdmin, DraftInv

\* One administrator goes on.
LEMMA AdminKeeps ==
    ASSUME SettingsInv, NEW a \in Admins, NEW r \in ActiveAdmin, admin' = [admin EXCEPT ![a] = r],
           \A k \in Config!Keys : r.truth[k] = Gone => r.draft[k] = Gone \/ Unmasked(r.draft[k]),
           settings' \in [Config!Keys -> SettingRow]
    PROVE  SettingsInv'
<1>1. r \in AdminRecord
  BY DEF AdminRecord, ActiveAdmin
<1>2. admin' \in [Admins -> AdminRecord] /\ admin'[a] = r /\ \A b \in Admins : b # a => admin'[b] = admin[b]
  BY <1>1 DEF SettingsInv, SettingsTyped
<1>3. \A b \in Admins : DraftInv(b)'
  BY <1>2 DEF SettingsInv, DraftInv
<1> QED BY <1>2, <1>3 DEF SettingsInv, SettingsTyped, SettingRow

LEMMA DoneKeeps ==
    ASSUME SettingsInv, NEW a \in Admins, admin' = [admin EXCEPT ![a] = Config!Idle],
           settings' \in [Config!Keys -> SettingRow]
    PROVE  SettingsInv'
<1>1. Config!Idle \in AdminRecord /\ Config!Idle.step = "idle"
  BY DEF Config!Idle, AdminRecord
<1>2. admin' \in [Admins -> AdminRecord] /\ admin'[a] = Config!Idle /\ \A b \in Admins : b # a => admin'[b] = admin[b]
  BY <1>1 DEF SettingsInv, SettingsTyped
<1>3. \A b \in Admins : DraftInv(b)'
  BY <1>1, <1>2 DEF SettingsInv, DraftInv
<1> QED BY <1>2, <1>3 DEF SettingsInv, SettingsTyped, SettingRow

LEMMA SettingsInitially == Config!Init => SettingsInv /\ SettingsCounts
<1> SUFFICES ASSUME Config!Init PROVE SettingsInv /\ SettingsCounts
  OBVIOUS
<1>1. Config!Idle \in AdminRecord /\ Config!Idle.step = "idle"
  BY DEF Config!Idle, AdminRecord
<1>2. settings \in [Config!Keys -> [state : {"none", "live", "deleted"}, value : Values]]
  <2>1. /\ settings \in [Config!Keys -> [state : {"none", "live", "deleted"}, value : Seq(SettingItem)]]
        /\ \A k \in Config!Keys : NamedOnce(settings[k].value)
    BY SettingsAssumption DEF Config!Init
  <2>2. \A k \in Config!Keys : settings[k] \in [state : {"none", "live", "deleted"}, value : Values]
    BY <2>1 DEF Values
  <2> QED BY <2>1, <2>2
<1>3. SettingsCounts
  BY SettingsAssumption, IntakeAssumption DEF Config!Init, SettingsCounts
<1> QED BY <1>1, <1>2, <1>3 DEF Config!Init, SettingsInv, SettingsTyped, DraftInv

LEMMA StartKeepsSettings == ASSUME SettingsInv, Config!Start \/ Config!Restart PROVE SettingsInv'
<1>1. settings \in [Config!Keys -> SettingRow] /\ admin \in [Admins -> AdminRecord]
  BY DEF SettingsInv, SettingsTyped, SettingRow
<1>2. CASE Config!Start
  <2>1. Config!RepairMalformedSettings \in [Config!Keys -> SettingRow]
    <3>1. \A k \in Config!Keys : settings[k] \in SettingRow /\ [settings[k] EXCEPT !.state = "deleted"] \in SettingRow
      BY <1>1 DEF SettingRow
    <3> QED BY <3>1 DEF Config!RepairMalformedSettings
  <2>2. settings' \in [Config!Keys -> SettingRow] /\ admin' = admin
    BY <1>1, <1>2, <2>1 DEF Config!Start
  <2> QED BY <2>2 DEF SettingsInv, SettingsTyped, SettingRow, DraftInv
<1>3. CASE Config!Restart
  <2>1. /\ settings' = settings
        /\ admin' = [a \in Admins |-> IF admin[a].step = "apply" THEN Config!Idle ELSE admin[a]]
    BY <1>3 DEF Config!Restart
  <2>2. Config!Idle \in AdminRecord /\ Config!Idle.step = "idle"
    BY DEF Config!Idle, AdminRecord
  <2>3. admin' \in [Admins -> AdminRecord] /\ \A a \in Admins : admin'[a] \in {Config!Idle, admin[a]}
    BY <1>1, <2>1, <2>2
  <2>4. \A a \in Admins : DraftInv(a)'
    BY <2>2, <2>3 DEF SettingsInv, DraftInv
  <2> QED BY <1>1, <2>1, <2>3, <2>4 DEF SettingsInv, SettingsTyped, SettingRow
<1> QED BY <1>2, <1>3

LEMMA StoredIs ==
    ASSUME SettingsInv, NEW k \in Config!Keys
    PROVE  /\ settings[k] \in SettingRow /\ Config!Stored(k) \in Shown
           /\ Config!Stored(k) # Gone => Config!Stored(k) \in Values /\ settings[k].state = "live"
           /\ settings[k].state = "live" <=> Config!Stored(k) # Gone
<1>1. settings[k] \in SettingRow
  BY DEF SettingsInv, SettingsTyped, SettingRow
<1>2. settings[k].value \in Values
  BY <1>1 DEF SettingRow
<1>3. Gone \notin Values
  BY SettingsAssumption DEF Values
<1> QED BY <1>1, <1>2, <1>3 DEF Config!Stored, Shown

LEMMA ViewKeeps == ASSUME SettingsInv, NEW a \in Admins, Config!View(a) PROVE SettingsInv'
<1> DEFINE shown == [k \in Config!Keys |-> IF Config!Stored(k) = Gone THEN Gone
                                           ELSE Config!maskSettingsValue(Config!Stored(k))]
           r == [step |-> "view", draft |-> shown, truth |-> Config!Live, scope |-> {}, used |-> None]
<1>1. admin' = [admin EXCEPT ![a] = r] /\ settings' = settings
  BY DEF Config!View
<1>2. shown \in [Config!Keys -> Shown]
  <2> SUFFICES ASSUME NEW k \in Config!Keys PROVE shown[k] \in Shown
    OBVIOUS
  <2>1. Config!Stored(k) # Gone => Config!maskSettingsValue(Config!Stored(k)) \in Values
    BY StoredIs, MaskIs
  <2> QED BY <2>1 DEF Shown
<1>3. Config!Live \in [Config!Keys -> Shown] /\ \A k \in Config!Keys : Config!Live[k] = Config!Stored(k)
  BY StoredIs DEF Config!Live
<1>4. r.draft = shown /\ r.truth = Config!Live /\ r \in ActiveAdmin
  BY <1>2, <1>3 DEF ActiveAdmin
<1>5. \A k \in Config!Keys : r.truth[k] = Gone => r.draft[k] = Gone
  BY <1>3, <1>4
<1>6. settings' \in [Config!Keys -> SettingRow]
  BY <1>1 DEF SettingsInv, SettingsTyped, SettingRow
<1> HIDE DEF r
<1> QED BY <1>1, <1>4, <1>5, <1>6, AdminKeeps

\* An edit of a value, and what does not touch a draft: sending it and testing.
LEMMA EditKeepsSettings == ASSUME SettingsInv, NEW a \in Admins, Config!Edit(a) PROVE SettingsInv'
<1>1. PICK k \in Config!Keys : \E v \in Config!Edits(admin[a].draft[k]) :
          admin' = [admin EXCEPT ![a].draft[k] = v, ![a].step = "edited", ![a].used = None]
  BY DEF Config!Edit
<1>2. PICK v \in Config!Edits(admin[a].draft[k]) :
          admin' = [admin EXCEPT ![a].draft[k] = v, ![a].step = "edited", ![a].used = None]
  BY <1>1
<1>3. admin[a].step # "idle" /\ settings' = settings
  BY DEF Config!Edit
<1>4. PICK x \in ActiveAdmin :
          /\ x = admin[a]
          /\ \A l \in Config!Keys : x.truth[l] = Gone => x.draft[l] = Gone \/ Unmasked(x.draft[l])
  BY <1>3, ActiveIs
<1> DEFINE r == [x EXCEPT !.draft = [x.draft EXCEPT ![k] = v], !.step = "edited", !.used = None]
<1>5. admin' = [admin EXCEPT ![a] = r]
  BY <1>2, <1>4 DEF SettingsInv, SettingsTyped
<1>6. x.draft \in [Config!Keys -> Shown] /\ x.draft[k] \in Shown
  BY DEF ActiveAdmin
<1>7. v \in Shown /\ (x.draft[k] = Gone => Unmasked(v))
  BY <1>2, <1>4, <1>6, EditedIs
<1>8. r \in ActiveAdmin /\ r.truth = x.truth /\ r.draft = [x.draft EXCEPT ![k] = v]
  BY <1>6, <1>7 DEF ActiveAdmin
<1>9. \A l \in Config!Keys : r.truth[l] = Gone => r.draft[l] = Gone \/ Unmasked(r.draft[l])
  <2> SUFFICES ASSUME NEW l \in Config!Keys, x.truth[l] = Gone, l = k PROVE v = Gone \/ Unmasked(v)
    BY <1>4, <1>6, <1>8
  <2>1. x.draft[k] = Gone \/ Unmasked(x.draft[k])
    BY <1>4
  <2> QED BY <1>2, <1>4, <1>6, <1>7, <2>1, StaysUnmasked
<1>10. settings' \in [Config!Keys -> SettingRow]
  BY <1>3 DEF SettingsInv, SettingsTyped, SettingRow
<1> HIDE DEF r
<1> QED BY <1>5, <1>8, <1>9, <1>10, AdminKeeps

LEMMA SendKeeps == ASSUME SettingsInv, NEW a \in Admins, Config!Send(a) PROVE SettingsInv'
<1>1. PICK s \in {Config!Categories} \cup {{c} : c \in Config!Categories} :
          admin' = [admin EXCEPT ![a].step = "apply", ![a].scope = s, ![a].used = None]
  BY DEF Config!Send
<1>2. s \in SUBSET Config!Categories
  BY <1>1
<1>3. admin[a].step # "idle" /\ settings' = settings
  BY DEF Config!Send
<1>4. PICK x \in ActiveAdmin :
          /\ x = admin[a]
          /\ \A l \in Config!Keys : x.truth[l] = Gone => x.draft[l] = Gone \/ Unmasked(x.draft[l])
  BY <1>3, ActiveIs
<1> DEFINE r == [x EXCEPT !.step = "apply", !.scope = s, !.used = None]
<1>5. admin' = [admin EXCEPT ![a] = r]
  BY <1>1, <1>4 DEF SettingsInv, SettingsTyped
<1>6. r \in ActiveAdmin /\ r.truth = x.truth /\ r.draft = x.draft
  BY <1>2 DEF ActiveAdmin
<1>7. settings' \in [Config!Keys -> SettingRow]
  BY <1>3 DEF SettingsInv, SettingsTyped, SettingRow
<1> HIDE DEF r
<1> QED BY <1>4, <1>5, <1>6, <1>7, AdminKeeps

\* The first stored provider of a type is one of those that are stored.
LEMMA RealIs ==
    ASSUME SettingsInv, NEW k \in Config!Keys, NEW t, Config!getRealProviderCredentials(k, t) # Gone
    PROVE  LET v == Config!Stored(k)
               n == CHOOSE i \in {j \in DOMAIN v : TypeOf[v[j].name] = t} :
                        \A j \in {l \in DOMAIN v : TypeOf[v[l].name] = t} : i <= j
           IN /\ v \in Values /\ n \in DOMAIN v /\ TypeOf[v[n].name] = t
              /\ Config!getRealProviderCredentials(k, t) = v[n]
<1> DEFINE v == Config!Stored(k)
           S == {i \in DOMAIN v : TypeOf[v[i].name] = t}
<1>1. v # Gone /\ S # {} /\ Config!getRealProviderCredentials(k, t) = v[CHOOSE i \in S : \A j \in S : i <= j]
  BY DEF Config!getRealProviderCredentials
<1>2. v \in Values
  BY <1>1, StoredIs
<1>3. S \in SUBSET Nat
  <2>1. DOMAIN v = 1..Len(v) /\ Len(v) \in Nat
    BY <1>2, LenProperties DEF Values
  <2> QED BY <2>1
<1>4. Min(S) = CHOOSE i \in S : \A j \in S : i <= j
  BY DEF Min
<1>5. Min(S) \in S
  BY <1>1, <1>3, MinIs
<1> QED BY <1>1, <1>2, <1>4, <1>5

LEMMA TestKeeps ==
    ASSUME SettingsInv, NEW a \in Admins, NEW k \in Config!Keys, Config!Test(a, k)
    PROVE  SettingsInv'
<1>1. admin[a].step # "idle" /\ settings' = settings /\ admin[a].draft[k] # Gone
  BY DEF Config!Test
<1>2. PICK x \in ActiveAdmin :
          /\ x = admin[a]
          /\ \A l \in Config!Keys : x.truth[l] = Gone => x.draft[l] = Gone \/ Unmasked(x.draft[l])
  BY <1>1, ActiveIs
<1>3. PICK i \in DOMAIN x.draft[k] :
          LET item == x.draft[k][i]
              real == Config!getRealProviderCredentials(k, TypeOf[item.name])
              with == IF Config!isMaskedValue(item.secret) /\ real # Gone THEN real.secret ELSE item.secret
          IN admin' = [admin EXCEPT ![a].used = [key |-> k, name |-> item.name, secret |-> with]]
  BY <1>2 DEF Config!Test
<1> DEFINE item == x.draft[k][i]
           real == Config!getRealProviderCredentials(k, TypeOf[item.name])
           with == IF Config!isMaskedValue(item.secret) /\ real # Gone THEN real.secret ELSE item.secret
           u == [key |-> k, name |-> item.name, secret |-> with]
           r == [x EXCEPT !.used = u]
<1>4. x.draft[k] \in Values
  BY <1>1, <1>2 DEF ActiveAdmin, Shown
<1>5. item.name \in DOMAIN TypeOf /\ item.secret \in AllSecrets
  BY <1>4, ItemIs
<1>6. real # Gone => real.secret \in AllSecrets
  BY RealIs, ItemIs
<1>7. u \in [key : Config!Keys, name : DOMAIN TypeOf, secret : AllSecrets]
  BY <1>5, <1>6
<1>8. admin' = [admin EXCEPT ![a].used = u]
  BY <1>3
<1> HIDE DEF u
<1>9. admin' = [admin EXCEPT ![a] = r]
  BY <1>2, <1>8 DEF SettingsInv, SettingsTyped
<1>10. r \in ActiveAdmin /\ r.truth = x.truth /\ r.draft = x.draft
  BY <1>7 DEF ActiveAdmin
<1>11. settings' \in [Config!Keys -> SettingRow]
  BY <1>1 DEF SettingsInv, SettingsTyped, SettingRow
<1> HIDE DEF r
<1> QED BY <1>2, <1>9, <1>10, <1>11, AdminKeeps

\* A category is stored.
LEMMA CategoryTyped ==
    ASSUME SettingsInv, NEW a \in Admins, admin[a].step = "apply", NEW c, NEW readable, Config!SetCategory(a, c, readable)
    PROVE  settings' \in [Config!Keys -> SettingRow]
<1>1. PICK x \in ActiveAdmin : x = admin[a]
  BY ActiveIs
<1> DEFINE row(k) == IF k \notin Config!KeysOf(c) THEN settings[k]
               ELSE IF x.draft[k] # Gone
                    THEN Config!Upsert(k, x.draft[k], IF readable THEN settings[k].value ELSE <<>>)
               ELSE IF readable /\ settings[k].state = "live" THEN [settings[k] EXCEPT !.state = "deleted"]
               ELSE settings[k]
<1>2. settings' = [k \in Config!Keys |-> row(k)]
  BY <1>1 DEF Config!SetCategory
<1>3. ASSUME NEW k \in Config!Keys PROVE row(k) \in SettingRow
  <2>1. settings[k] \in SettingRow /\ settings[k].value \in Values /\ [settings[k] EXCEPT !.state = "deleted"] \in SettingRow
    BY DEF SettingsInv, SettingsTyped, SettingRow
  <2>2. x.draft[k] # Gone => x.draft[k] \in Values
    BY DEF ActiveAdmin, Shown
  <2>3. ASSUME x.draft[k] # Gone, NEW old \in Values PROVE Config!Upsert(k, x.draft[k], old) \in SettingRow
    <3>1. x.draft[k] \in Values
      BY <2>2, <2>3
    <3>2. Config!restoreMaskedValues(x.draft[k], old) \in Values
      BY <3>1, RestoreIs
    <3> QED BY <3>1, <3>2 DEF Config!Upsert, SettingRow
  <2>4. (IF readable THEN settings[k].value ELSE <<>>) \in Values
    BY <2>1, EmptyIs
  <2> QED BY <2>1, <2>3, <2>4
<1> QED BY <1>2, <1>3

LEMMA ApplyKeeps == ASSUME SettingsInv, NEW a \in Admins, Config!Apply(a) PROVE SettingsInv'
<1>1. admin[a].step = "apply"
  BY DEF Config!Apply
<1>2. PICK c \in admin[a].scope :
          \/ /\ Config!SetCategory(a, c, TRUE) \/ Config!SetCategory(a, c, FALSE)
             /\ admin' = [admin EXCEPT ![a] = IF admin[a].scope = {c} THEN Config!Idle
                                              ELSE [admin[a] EXCEPT !.scope = admin[a].scope \ {c}]]
          \/ admin' = [admin EXCEPT ![a] = Config!Idle] /\ UNCHANGED settings
  BY DEF Config!Apply, Config!After
<1>3. settings' \in [Config!Keys -> SettingRow]
  <2>1. settings \in [Config!Keys -> SettingRow]
    BY DEF SettingsInv, SettingsTyped, SettingRow
  <2> QED BY <1>1, <1>2, <2>1, CategoryTyped
<1>4. CASE admin' = [admin EXCEPT ![a] = Config!Idle]
  BY <1>3, <1>4, DoneKeeps
<1>5. CASE admin' = [admin EXCEPT ![a] = [admin[a] EXCEPT !.scope = admin[a].scope \ {c}]]
  <2>1. PICK x \in ActiveAdmin :
            /\ x = admin[a]
            /\ \A l \in Config!Keys : x.truth[l] = Gone => x.draft[l] = Gone \/ Unmasked(x.draft[l])
    BY <1>1, ActiveIs
  <2> DEFINE r == [x EXCEPT !.scope = x.scope \ {c}]
  <2>2. r \in ActiveAdmin /\ r.truth = x.truth /\ r.draft = x.draft
    BY DEF ActiveAdmin
  <2>3. admin' = [admin EXCEPT ![a] = r]
    BY <1>5, <2>1
  <2> HIDE DEF r
  <2> QED BY <1>3, <2>1, <2>2, <2>3, AdminKeeps
<1> QED BY <1>2, <1>4, <1>5

LEMMA SettingsStep == SettingsInv /\ [Config!Next]_(Config!vars) => SettingsInv'
<1> SUFFICES ASSUME SettingsInv, [Config!Next]_(Config!vars) PROVE SettingsInv'
  OBVIOUS
<1>1. CASE UNCHANGED Config!vars
  BY <1>1 DEF Config!vars, SettingsInv, SettingsTyped, DraftInv
<1>2. CASE Config!Next
  BY <1>2, StartKeepsSettings, ViewKeeps, EditKeepsSettings, SendKeeps, ApplyKeeps, TestKeeps DEF Config!Next
<1> QED BY <1>1, <1>2

LEMMA SettingsCounted == SettingsCounts /\ [Config!Next]_(Config!vars) => SettingsCounts'
<1> SUFFICES ASSUME SettingsCounts, [Config!Next]_(Config!vars) PROVE SettingsCounts'
  OBVIOUS
<1>1. CASE UNCHANGED Config!vars
  BY <1>1 DEF Config!vars, SettingsCounts
<1>2. CASE Config!Next
  <2>1. \/ views' = views
        \/ views < MaxViews /\ views' = views + 1
    BY <1>2 DEF Config!Next, Config!Start, Config!Restart, Config!View, Config!Edit, Config!Send, Config!Apply, Config!Test
  <2>2. \/ statements' = statements
        \/ statements < MaxFaults /\ statements' = statements + 1
    BY <1>2 DEF Config!Next, Config!Start, Config!Restart, Config!View, Config!Edit, Config!Send, Config!Apply, Config!Test,
       Config!Fault
  <2> QED BY <2>1, <2>2, SettingsAssumption, IntakeAssumption DEF SettingsCounts
<1> QED BY <1>1, <1>2

LEMMA OthersUntouched ==
    ASSUME SettingsInv, NEW b \in Admins,
           \/ Config!View(b) \/ Config!Edit(b) \/ Config!Send(b) \/ Config!Apply(b)
           \/ \E k \in Config!Keys : Config!Test(b, k)
    PROVE  \A a \in Admins : a # b => admin'[a] = admin[a]
<1> SUFFICES ASSUME NEW a \in Admins, a # b PROVE admin'[a] = admin[a]
  OBVIOUS
<1>1. admin \in [Admins -> AdminRecord]
  BY DEF SettingsInv, SettingsTyped
<1>2. CASE Config!View(b)
  BY <1>1, <1>2 DEF Config!View
<1>3. CASE Config!Edit(b)
  BY <1>1, <1>3 DEF Config!Edit
<1>4. CASE Config!Send(b)
  BY <1>1, <1>4 DEF Config!Send
<1>5. CASE Config!Apply(b)
  BY <1>1, <1>5 DEF Config!Apply
<1>6. ASSUME NEW k \in Config!Keys, Config!Test(b, k) PROVE admin'[a] = admin[a]
  BY <1>1, <1>6 DEF Config!Test
<1> QED BY <1>2, <1>3, <1>4, <1>5, <1>6

\* A category ends in one way without a failure.
LEMMA AppliesIs ==
    ASSUME SettingsInv, SettingsCounts, Config!Next, NEW a \in Admins, NEW c, Config!Applies(a, c), statements' = statements
    PROVE  Config!SetCategory(a, c, TRUE)
<1>1. /\ admin[a].step = "apply" /\ c \in admin[a].scope /\ running' = running
      /\ admin'[a] = Config!Idle \/ c \notin admin'[a].scope
  BY DEF Config!Applies
<1>2. Config!Idle.step = "idle"
  BY DEF Config!Idle
<1>3. admin'[a] # admin[a]
  BY <1>1, <1>2
<1>4. ~Config!Start
  BY <1>3 DEF Config!Start
<1>5. ~Config!Restart
  BY <1>1 DEF Config!Restart
<1>6. PICK b \in Admins : \/ Config!View(b) \/ Config!Edit(b) \/ Config!Send(b) \/ Config!Apply(b)
                          \/ \E k \in Config!Keys : Config!Test(b, k)
  BY <1>4, <1>5 DEF Config!Next
<1>7. b = a
  BY <1>3, <1>6, OthersUntouched
<1>8. Config!Apply(a)
  BY <1>1, <1>2, <1>6, <1>7 DEF Config!View, Config!Edit, Config!Send, Config!Test
<1>9. ~Config!Fault
  BY DEF Config!Fault, SettingsCounts
<1>10. PICK d \in admin[a].scope : Config!SetCategory(a, d, TRUE) /\ admin' = [admin EXCEPT ![a] = Config!After(a, d)]
  BY <1>8, <1>9 DEF Config!Apply
<1>11. admin'[a] = Config!After(a, d)
  BY <1>10 DEF SettingsInv, SettingsTyped
<1>12. PICK x \in ActiveAdmin : x = admin[a]
  BY <1>1, ActiveIs
<1>13. d = c
  <2>1. CASE admin[a].scope = {d}
    BY <1>1, <2>1
  <2>2. CASE admin[a].scope # {d}
    <3>1. Config!After(a, d) = [x EXCEPT !.scope = x.scope \ {d}]
      BY <1>12, <2>2 DEF Config!After
    <3>2. [x EXCEPT !.scope = x.scope \ {d}].step = x.step /\ [x EXCEPT !.scope = x.scope \ {d}].scope = x.scope \ {d}
      BY DEF ActiveAdmin
    <3>3. c \notin x.scope \ {d}
      BY <1>1, <1>2, <1>11, <1>12, <3>1, <3>2
    <3> QED BY <1>1, <1>12, <3>3
  <2> QED BY <2>1, <2>2
<1> QED BY <1>10, <1>13

\* The first item of a name is the only one.
LEMMA OnlyOne ==
    ASSUME NEW v \in Values, NEW i \in DOMAIN v
    PROVE  (CHOOSE j \in DOMAIN v : v[j].name = v[i].name) = i
BY DEF Values, NamedOnce

LEMMA StoredOne ==
    ASSUME SettingsInv, NEW a \in Admins, admin[a].step = "apply", NEW c, Config!SetCategory(a, c, TRUE),
           NEW k \in Config!KeysOf(c), Config!Stored(k) = admin[a].truth[k], Config!InPlace(a, k)
    PROVE  Config!Stored(k)' = Config!Meant(a, k)
<1>1. PICK x \in ActiveAdmin :
          /\ x = admin[a]
          /\ \A l \in Config!Keys : x.truth[l] = Gone => x.draft[l] = Gone \/ Unmasked(x.draft[l])
  BY ActiveIs
<1>2. k \in Config!Keys
  BY DEF Config!KeysOf
<1> DEFINE draft == x.draft[k]
           truth == x.truth[k]
<1>3. draft \in Shown /\ truth \in Shown /\ truth = Config!Stored(k)
  BY <1>1, <1>2 DEF ActiveAdmin
<1>4. settings[k] \in SettingRow /\ (settings[k].state = "live" <=> truth # Gone)
      /\ (settings[k].state = "live" => truth = settings[k].value)
  BY <1>2, <1>3, StoredIs DEF Config!Stored
<1>5. settings'[k] = IF draft # Gone THEN Config!Upsert(k, draft, settings[k].value)
                     ELSE IF settings[k].state = "live" THEN [settings[k] EXCEPT !.state = "deleted"]
                     ELSE settings[k]
  BY <1>1, <1>2 DEF Config!SetCategory
<1>6. Config!Stored(k)' = IF settings'[k].state = "live" THEN settings'[k].value ELSE Gone
  BY DEF Config!Stored
<1>7. CASE draft = Gone
  <2>1. Config!Meant(a, k) = Gone
    BY <1>1, <1>7 DEF Config!Meant
  <2>2. settings'[k].state # "live"
    BY <1>4, <1>5, <1>7 DEF SettingRow
  <2> QED BY <1>6, <2>1, <2>2
<1>8. CASE draft # Gone
  <2>1. draft \in Values
    BY <1>3, <1>8 DEF Shown
  <2> DEFINE shown(i) == truth[CHOOSE j \in DOMAIN truth : truth[j].name = draft[i].name].secret
             meant(i) == IF Config!isMaskedValue(draft[i].secret) THEN [draft[i] EXCEPT !.secret = shown(i)] ELSE draft[i]
  <2>2. Config!Meant(a, k) = [i \in DOMAIN draft |-> meant(i)]
    BY <1>1, <1>8 DEF Config!Meant
  <2>3. \A i \in DOMAIN draft : Config!isMaskedValue(draft[i].secret) => i \in DOMAIN truth /\ truth[i].name = draft[i].name
    BY <1>1, <1>8 DEF Config!InPlace
  <2>4. /\ Config!Upsert(k, draft, settings[k].value).state = "live"
        /\ Config!Upsert(k, draft, settings[k].value).value =
              IF settings[k].state = "live" THEN Config!restoreMaskedValues(draft, settings[k].value) ELSE draft
    BY DEF Config!Upsert
  <2>5. Config!Stored(k)' = IF settings[k].state = "live" THEN Config!restoreMaskedValues(draft, truth) ELSE draft
    BY <1>4, <1>5, <1>6, <1>8, <2>4
  <2>6. CASE settings[k].state = "live"
    <3>1. truth \in Values
      BY <1>3, <1>4, <2>6 DEF Shown
    <3>2. Config!restoreMaskedValues(draft, truth) =
              [i \in DOMAIN draft |-> IF Config!isMaskedValue(draft[i].secret) /\ i \in DOMAIN truth
                                      THEN [draft[i] EXCEPT !.secret = truth[i].secret] ELSE draft[i]]
      BY DEF Config!restoreMaskedValues
    <3>3. ASSUME NEW i \in DOMAIN draft
          PROVE  meant(i) = IF Config!isMaskedValue(draft[i].secret) /\ i \in DOMAIN truth
                            THEN [draft[i] EXCEPT !.secret = truth[i].secret] ELSE draft[i]
      <4>1. CASE Config!isMaskedValue(draft[i].secret)
        <5>1. i \in DOMAIN truth /\ truth[i].name = draft[i].name
          BY <2>3, <4>1
        <5>2. (CHOOSE j \in DOMAIN truth : truth[j].name = draft[i].name) = i
          BY <3>1, <5>1, OnlyOne
        <5> QED BY <4>1, <5>1, <5>2
      <4>2. CASE ~Config!isMaskedValue(draft[i].secret)
        BY <4>2
      <4> QED BY <4>1, <4>2
    <3> HIDE DEF meant
    <3> QED BY <2>2, <2>5, <2>6, <3>2, <3>3
  <2>7. CASE settings[k].state # "live"
    <3>1. Unmasked(draft)
      BY <1>1, <1>2, <1>4, <1>8, <2>7
    <3>2. \A i \in DOMAIN draft : meant(i) = draft[i]
      BY <3>1 DEF Unmasked
    <3>3. draft = [i \in DOMAIN draft |-> draft[i]]
      BY <2>1 DEF Values
    <3> HIDE DEF meant
    <3>4. [i \in DOMAIN draft |-> meant(i)] = [i \in DOMAIN draft |-> draft[i]]
      BY <3>2
    <3> QED BY <2>2, <2>5, <2>7, <3>3, <3>4
  <2> QED BY <2>6, <2>7
<1> QED BY <1>7, <1>8

\* The same item is found from either end, if there is one.
LEMMA SameItem ==
    ASSUME SettingsInv, NEW k \in Config!Keys, NEW t, Config!Stored(k) # Gone, running[k] = Config!Stored(k),
           Config!Cardinality({i \in DOMAIN Config!Stored(k) : TypeOf[Config!Stored(k)[i].name] = t}) = 1
    PROVE  /\ Config!getRealProviderCredentials(k, t) # Gone
           /\ Config!getRealProviderCredentials(k, t).secret = Config!EngineToken(k, t)
<1> DEFINE v == Config!Stored(k)
           S == {i \in DOMAIN v : TypeOf[v[i].name] = t}
<1>1. v \in Values
  BY StoredIs
<1>2. DOMAIN v = 1..Len(v) /\ Len(v) \in Nat
  BY <1>1, LenProperties DEF Values
<1>3. IsFiniteSet(S)
  <2>1. IsFiniteSet(1..Len(v))
    BY <1>2, FS_Interval
  <2>2. S \subseteq 1..Len(v)
    BY <1>2
  <2> QED BY <2>1, <2>2, FS_Subset
<1>4. Config!Cardinality(S) = Cardinality(S)
  BY DEF Config!Cardinality, Cardinality, Config!IsFiniteSet, IsFiniteSet
<1>5. PICK n : S = {n}
  <2>1. Cardinality(S) = 1
    BY <1>4
  <2> QED BY <1>3, <2>1, FS_Singleton
<1>6. n \in DOMAIN v /\ n \in Nat
  BY <1>2, <1>5
<1>7. (CHOOSE i \in S : \A j \in S : i <= j) = n /\ (CHOOSE i \in S : \A j \in S : j <= i) = n
  BY <1>5, <1>6
<1>8. v[n] \in SettingItem /\ v[n] # Gone
  BY <1>1, <1>6, ItemIs, SettingsAssumption
<1>9. Config!getRealProviderCredentials(k, t) = v[n]
  BY <1>5, <1>7 DEF Config!getRealProviderCredentials
<1>10. Config!EngineToken(k, t) = v[n].secret
  <2>1. PICK s : s = v
    OBVIOUS
  <2> DEFINE T == {i \in DOMAIN s : TypeOf[s[i].name] = t}
  <2>2. running[k] = s
    BY <2>1
  <2>3. T = {n}
    BY <1>5, <2>1
  <2>4. Config!EngineToken(k, t) = IF T = {} THEN None ELSE s[CHOOSE i \in T : \A j \in T : j <= i].secret
    BY <2>2 DEF Config!EngineToken
  <2> HIDE DEF T
  <2>5. (CHOOSE i \in T : \A j \in T : j <= i) = n
    BY <1>6, <2>3
  <2> QED BY <2>1, <2>3, <2>4, <2>5
<1> QED BY <1>8, <1>9, <1>10

LEMMA TestIs ==
    ASSUME SettingsInv, Config!Next, NEW a \in Admins, admin[a].step \in {"view", "edited"},
           admin'[a].step = admin[a].step, admin'[a].used # None, admin'[a].used # admin[a].used,
           LET k == admin'[a].used.key
               t == TypeOf[admin'[a].used.name]
           IN /\ \E i \in DOMAIN admin[a].draft[k] :
                    /\ admin[a].draft[k][i].name = admin'[a].used.name
                    /\ Config!isMaskedValue(admin[a].draft[k][i].secret)
              /\ Config!Stored(k) # Gone /\ running[k] = Config!Stored(k)
              /\ Config!Cardinality({i \in DOMAIN Config!Stored(k) : TypeOf[Config!Stored(k)[i].name] = t}) = 1
    PROVE  admin'[a].used.secret = Config!EngineToken(admin'[a].used.key, TypeOf[admin'[a].used.name])
<1>1. admin \in [Admins -> AdminRecord] /\ admin'[a] # admin[a] /\ admin[a].step # "apply" /\ admin[a].step # "idle"
  BY DEF SettingsInv, SettingsTyped
<1>2. ~Config!Start /\ ~Config!Restart
  BY <1>1 DEF Config!Start, Config!Restart
<1>3. PICK b \in Admins : \/ Config!View(b) \/ Config!Edit(b) \/ Config!Send(b) \/ Config!Apply(b)
                          \/ \E k \in Config!Keys : Config!Test(b, k)
  BY <1>2 DEF Config!Next
<1>4. b = a
  BY <1>1, <1>3, OthersUntouched
<1>5. PICK x \in ActiveAdmin : x = admin[a]
  BY <1>1, ActiveIs
<1>6. ~Config!View(a) /\ ~Config!Apply(a)
  <2>0. Config!Idle.step = "idle"
    BY DEF Config!Idle
  <2>1. admin[a] # Config!Idle
    BY <1>1, <2>0
  <2> QED BY <1>1, <2>1 DEF Config!View, Config!Apply
<1>7. ~Config!Edit(a)
  <2> SUFFICES ASSUME Config!Edit(a) PROVE FALSE
    OBVIOUS
  <2>0. PICK k \in Config!Keys : \E v \in Config!Edits(admin[a].draft[k]) :
            admin' = [admin EXCEPT ![a].draft[k] = v, ![a].step = "edited", ![a].used = None]
    BY DEF Config!Edit
  <2>1. PICK v \in Config!Edits(admin[a].draft[k]) :
            admin' = [admin EXCEPT ![a].draft[k] = v, ![a].step = "edited", ![a].used = None]
    BY <2>0
  <2>2. admin'[a] = [x EXCEPT !.draft = [x.draft EXCEPT ![k] = v], !.step = "edited", !.used = None]
    BY <1>1, <1>5, <2>1
  <2>3. admin'[a].used = None
    BY <2>2 DEF ActiveAdmin
  <2> QED BY <2>3
<1>8. ~Config!Send(a)
  <2> SUFFICES ASSUME Config!Send(a) PROVE FALSE
    OBVIOUS
  <2>1. PICK s \in {Config!Categories} \cup {{c} : c \in Config!Categories} :
            admin' = [admin EXCEPT ![a].step = "apply", ![a].scope = s, ![a].used = None]
    BY DEF Config!Send
  <2>2. admin'[a] = [x EXCEPT !.step = "apply", !.scope = s, !.used = None]
    BY <1>1, <1>5, <2>1
  <2>3. admin'[a].used = None
    BY <2>2 DEF ActiveAdmin
  <2> QED BY <2>3
<1>9. PICK k \in Config!Keys : Config!Test(a, k)
  BY <1>3, <1>4, <1>6, <1>7, <1>8
<1>10. PICK i \in DOMAIN x.draft[k] :
          LET item == x.draft[k][i]
              real == Config!getRealProviderCredentials(k, TypeOf[item.name])
              with == IF Config!isMaskedValue(item.secret) /\ real # Gone THEN real.secret ELSE item.secret
          IN admin' = [admin EXCEPT ![a].used = [key |-> k, name |-> item.name, secret |-> with]]
  BY <1>5, <1>9 DEF Config!Test
<1> DEFINE item == x.draft[k][i]
           real == Config!getRealProviderCredentials(k, TypeOf[item.name])
           with == IF Config!isMaskedValue(item.secret) /\ real # Gone THEN real.secret ELSE item.secret
           u == [key |-> k, name |-> item.name, secret |-> with]
<1>11. admin'[a].used = u
  <2>1. admin'[a] = [x EXCEPT !.used = u]
    BY <1>1, <1>5, <1>10
  <2> HIDE DEF u
  <2> QED BY <2>1 DEF ActiveAdmin
<1>12. admin'[a].used.key = k /\ admin'[a].used.name = item.name /\ admin'[a].used.secret = with
  BY <1>11
<1>13. x.draft[k] # Gone /\ x.draft[k] \in Values
  <2>1. x.draft[k] # Gone
    BY <1>5, <1>9 DEF Config!Test
  <2> QED BY <2>1 DEF ActiveAdmin, Shown
<1>14. Config!isMaskedValue(item.secret)
  <2>1. PICK j \in DOMAIN x.draft[k] : x.draft[k][j].name = item.name /\ Config!isMaskedValue(x.draft[k][j].secret)
    BY <1>5, <1>12
  <2>2. j = i
    BY <1>13, <2>1 DEF Values, NamedOnce
  <2> QED BY <2>1, <2>2
<1> HIDE DEF u, item
<1>15. /\ Config!Stored(k) # Gone /\ running[k] = Config!Stored(k)
       /\ Config!Cardinality({j \in DOMAIN Config!Stored(k) : TypeOf[Config!Stored(k)[j].name] = TypeOf[item.name]}) = 1
  BY <1>12
<1>16. real # Gone /\ real.secret = Config!EngineToken(k, TypeOf[item.name])
  BY <1>15, SameItem
<1>17. with = Config!EngineToken(k, TypeOf[item.name])
  BY <1>14, <1>16
<1> QED BY <1>12, <1>17

LEMMA IntakeSettings == IntakeSpec => Config!Init /\ [][Config!Next]_(Config!vars)
<1>1. IntakeInit => Config!Init
  BY DEF IntakeInit
<1>2. [IntakeNext]_allVars => [Config!Next]_(Config!vars)
  BY DEF IntakeNext, allVars, settingsVars, Config!vars
<1> QED BY <1>1, <1>2, PTL DEF IntakeSpec

\* Settings that are sent back are stored as they were meant, masked secrets
\* included, if nobody else has changed them, no masked item was moved and no
\* statement fails; and a test of a masked secret tries the one the engine uses
\* (restoreMaskedValues, getRealProviderCredentials).
THEOREM SettingsAreAsMeant == IntakeSpec => SettingsAsMeant
<1>1. SettingsInv /\ SettingsCounts /\ [Config!Next]_(Config!vars) =>
          [\A a \in Admins, c \in Config!Categories :
              (Config!Applies(a, c) /\ statements' = statements
                  /\ \A k \in Config!KeysOf(c) : Config!Stored(k) = admin[a].truth[k] /\ Config!InPlace(a, k))
              => \A k \in Config!KeysOf(c) : Config!Stored(k)' = Config!Meant(a, k)]_(Config!vars)
  <2> SUFFICES ASSUME SettingsInv, SettingsCounts, Config!Next, NEW a \in Admins, NEW c \in Config!Categories,
                      Config!Applies(a, c), statements' = statements,
                      \A k \in Config!KeysOf(c) : Config!Stored(k) = admin[a].truth[k] /\ Config!InPlace(a, k),
                      NEW k \in Config!KeysOf(c)
               PROVE  Config!Stored(k)' = Config!Meant(a, k)
    OBVIOUS
  <2>1. Config!SetCategory(a, c, TRUE)
    BY AppliesIs
  <2>2. admin[a].step = "apply"
    BY DEF Config!Applies
  <2> QED BY <2>1, <2>2, StoredOne
<1>2. SettingsInv /\ [Config!Next]_(Config!vars) =>
          [\A a \in Admins :
              (admin[a].step \in {"view", "edited"} /\ admin'[a].step = admin[a].step
                  /\ admin'[a].used # None /\ admin'[a].used # admin[a].used) =>
                LET k == admin'[a].used.key
                    t == TypeOf[admin'[a].used.name]
                    masked == \E i \in DOMAIN admin[a].draft[k] :
                                 /\ admin[a].draft[k][i].name = admin'[a].used.name
                                 /\ Config!isMaskedValue(admin[a].draft[k][i].secret)
                IN (masked /\ Config!Stored(k) # Gone /\ running[k] = Config!Stored(k)
                      /\ Config!Cardinality({i \in DOMAIN Config!Stored(k) : TypeOf[Config!Stored(k)[i].name] = t}) = 1)
                   => admin'[a].used.secret = Config!EngineToken(k, t)]_(Config!vars)
  BY TestIs
<1>3. IntakeSpec => [](SettingsInv /\ SettingsCounts)
  BY SettingsInitially, SettingsStep, SettingsCounted, IntakeSettings, PTL
<1>4. IntakeSpec => Config!StoredAsMeant
  BY <1>1, <1>3, IntakeSettings, PTL DEF Config!StoredAsMeant
<1>5. IntakeSpec => Config!TestTriesTheSame
  BY <1>2, <1>3, IntakeSettings, PTL DEF Config!TestTriesTheSame
<1> QED BY <1>4, <1>5 DEF SettingsAsMeant

-----------------------------------------------------------------------------
(* Types *)

LEMMA IntakeWebhooks == IntakeSpec => Spec
<1>1. IntakeInit => Init
  BY DEF IntakeInit
<1>2. [IntakeNext]_allVars => [Next]_vars
  BY DEF IntakeNext, allVars, vars
<1> QED BY <1>1, <1>2, PTL DEF IntakeSpec, Spec

LEMMA SameTypes == GitP!TypeOK => Git!TypeOK
BY DEF Git!TypeOK, GitP!TypeOK, Git!Versions, GitP!Versions, Git!Commits, GitP!Commits, Git!Dirs, GitP!Dirs, Git!Jobs, GitP!Jobs,
   Git!UpdateSteps, GitP!UpdateSteps

\* Every component keeps its types and its bounds.
THEOREM IntakeTyped == IntakeSpec => []IntakeTypeOK
<1>1. IntakeSpec => []Git!TypeOK
  <2>1. GitP!Spec => []GitP!TypeOK
    BY DirectoriesAssumption, SameDirectories, GitP!TypeCorrect
  <2> QED BY <2>1, SameTypes, IntakeDirectories, PTL
<1>2. IntakeSpec => []Config!TypeOK
  <2>1. SettingsInv /\ SettingsCounts => Config!TypeOK
    <3> SUFFICES ASSUME SettingsInv, SettingsCounts PROVE Config!TypeOK
      OBVIOUS
    <3>1. \A k \in Config!Keys : settings[k].state \in {"none", "live", "deleted"}
      BY DEF SettingsInv, SettingsTyped
    <3>2. ASSUME NEW a \in Admins, admin[a].step # "idle"
          PROVE  admin[a].step \in {"view", "edited", "apply"} /\ admin[a].scope \subseteq Config!Categories
      BY <3>2, ActiveIs DEF ActiveAdmin
    <3> QED BY <3>1, <3>2 DEF Config!TypeOK, SettingsCounts
  <2> QED BY <2>1, SettingsInitially, SettingsStep, SettingsCounted, IntakeSettings, PTL
<1>3. IntakeSpec => []Rules!TypeOK
  <2>1. RuleInv /\ RuleCounts => Rules!TypeOK
    <3> SUFFICES ASSUME RuleInv, RuleCounts PROVE Rules!TypeOK
      OBVIOUS
    <3>1. RuleTyped
      BY DEF RuleInv
    <3>2. \A a \in Admins : editor[a].pc \in {"idle", "view", "lock", "compare", "empty", "write", "copy", "copied", "update"}
      BY <3>1 DEF RuleTyped, EditorRecord, Saving
    <3>3. load.pc \in {"idle", "root", "row", "file", "default", "done"}
      BY <3>1 DEF RuleTyped, LoadRecord, LoadSteps
    <3> QED BY <3>1, <3>2, <3>3 DEF RuleTyped, RuleCounts, RuleContents, Rules!TypeOK
  <2> QED BY <2>1, RulesInitially, RulesStep, RulesCounted, IntakeRules, PTL
<1>4. IntakeSpec => []Tables!TypeOK
  <2>1. TableInv => Tables!TypeOK
    <3> SUFFICES ASSUME TableInv PROVE Tables!TypeOK
      OBVIOUS
    <3>1. TablesTyped /\ TableCounts
      BY DEF TableInv
    <3>2. \A t \in Tables!Tables : tables[t].rows \subseteq Rows /\ tables[t].state \in {"absent", "old", "current"}
      BY <3>1 DEF TablesTyped, TableRecord
    <3>3. pc \in Tables!Steps \cup {"running", "down"}
      BY <3>1 DEF TablesTyped, OneByOne, Copying, Tables!Steps
    <3>4. at \in 1..5
      BY <3>1 DEF TablesTyped
    <3>5. why \in {None, "statement", "twins", "columns"}
      BY <3>1 DEF TablesTyped, Reasons
    <3>6. providers \in {"array", "other"}
      BY <3>1 DEF TablesTyped
    <3> QED BY <3>1, <3>2, <3>3, <3>4, <3>5, <3>6 DEF TableCounts, Tables!TypeOK
  <2> QED BY <2>1, TablesInitially, TablesStep, IntakeTables, PTL
<1>5. IntakeSpec => []Paths!TypeOK
  <2>1. PathInv => Paths!TypeOK
    <3> SUFFICES ASSUME PathInv PROVE Paths!TypeOK
      OBVIOUS
    <3>1. review.pc \in {"idle", "asked", "queued", "failed", "cloned", "commented", "refused"}
      BY DEF PathInv, PathsTyped, ReviewRecord
    <3>2. listing.pc \in {"idle", "page", "failed", "done"}
      BY DEF PathInv, PathsTyped, ListingRecord
    <3> QED BY <3>1, <3>2 DEF PathInv, PathsTyped, Paths!TypeOK
  <2> QED BY <2>1, PathsInitially, PathsStep, IntakePaths, PTL
<1>6. IntakeSpec => []TypeOK
  BY TypeCorrect, IntakeWebhooks, PTL
<1> QED BY <1>1, <1>2, <1>3, <1>4, <1>5, <1>6, PTL DEF IntakeTypeOK
=============================================================================
