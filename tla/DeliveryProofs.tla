--------------------------- MODULE DeliveryProofs ---------------------------
(***************************************************************************)
(* Theorems about the components of Delivery, for every value of their     *)
(* constants: publications (OutputDelivery), with any plans and number of  *)
(* attempts, however calls fail and the process is stopped or dies, and    *)
(* calls of agents (AgentCalls) side by side.                              *)
(***************************************************************************)
EXTENDS Delivery, FiniteSetTheorems, NaturalsInduction, WellFoundedInduction, TLAPS

-----------------------------------------------------------------------------
(* The delivery log of webhooks *)

\* Assumed of the plans: a rule names its webhook once.  With two, there are
\* two rows, each of which is right about its own.
OneWebhook ==
    \A q \in Plans, p \in Pubs : \A i, j \in DOMAIN q.channels[p] :
        (q.channels[p][i] = "webhook" /\ q.channels[p][j] = "webhook") => i = j

\* What is needed of the types; the comments a publication has found may be
\* anything.
Entries == [status : {"success", "failed"}, count : Nat]
Shape(F) == [Pubs -> [at : Nat, step : Steps, attempt : Nat, found : F, alone : BOOLEAN, clean : BOOLEAN]]
ShapeInv ==
    /\ plan \in Plans
    /\ posts \in [Pubs -> Nat] /\ acks \in [Pubs -> BOOLEAN] /\ rows \in [Pubs -> Seq(Entries)]
    /\ \E F : pub \in Shape(F)

\* Where a publication is: at one of its channels until it is done, and
\* between two attempts only at a webhook.
PlaceOf(p) ==
    /\ pub[p].step = "new" => pub[p].at = 0
    /\ pub[p].step \notin {"new", "done"} => pub[p].at \in DOMAIN Channels[p]
    /\ pub[p].step \in {"send", "backoff"} => Channels[p][pub[p].at] = "webhook"

\* The attempts that are counted: as many as there may be, one less before the
\* next one, none where no webhook is at work.
AttemptsOf(p) ==
    /\ pub[p].attempt <= maxRetries
    /\ pub[p].step = "send" => pub[p].attempt < maxRetries
    /\ pub[p].step \notin {"send", "backoff"} => pub[p].attempt = 0

\* Before its webhook is over a publication has no row, no answer, and no more
\* requests than attempts, which a process that died has forgotten.
LogOf(p) ==
    IF Served(p, "webhook")
    THEN /\ Len(rows[p]) = 1
         /\ (rows[p][1].status = "success") = acks[p]
         /\ posts[p] <= rows[p][1].count
         /\ rows[p][1].count <= maxRetries
    ELSE /\ rows[p] = <<>> /\ acks[p] = FALSE
         /\ crashed \/ posts[p] <= pub[p].attempt

OneLog(p) == PlaceOf(p) /\ AttemptsOf(p) /\ LogOf(p)
LogInv == ShapeInv /\ \A p \in Pubs : OneLog(p)

-----------------------------------------------------------------------------
LEMMA ChannelsTyped ==
    ASSUME LogInv, NEW p \in Pubs
    PROVE  /\ Channels[p] \in Seq({"comment", "webhook", "file"})
           /\ Len(Channels[p]) \in Nat /\ DOMAIN Channels[p] = 1..Len(Channels[p])
<1>1. Channels[p] \in Seq({"comment", "webhook", "file"})
  BY DeliveryAssumption DEF LogInv, ShapeInv, Channels
<1> QED BY <1>1

\* Nothing about a publication changes but what its log does not depend on.
LEMMA Untouched ==
    ASSUME NEW p \in Pubs, OneLog(p), UNCHANGED plan,
           pub'[p].at = pub[p].at, pub'[p].step = pub[p].step, pub'[p].attempt = pub[p].attempt,
           rows'[p] = rows[p], posts'[p] = posts[p], acks'[p] = acks[p], crashed => crashed'
    PROVE  OneLog(p)'
BY DEF OneLog, PlaceOf, AttemptsOf, LogOf, Served, Channels

\* The webhook is over when its channel is, and no other channel ends it.
LEMMA ServedNext ==
    ASSUME OneWebhook, LogInv, NEW p \in Pubs, pub[p].at \in DOMAIN Channels[p], UNCHANGED plan,
           pub'[p].at = pub[p].at + 1
    PROVE  /\ Served(p, "webhook")' <=> (Served(p, "webhook") \/ Channels[p][pub[p].at] = "webhook")
           /\ Channels[p][pub[p].at] = "webhook" => ~Served(p, "webhook")
<1>1. DOMAIN Channels[p] = 1..Len(Channels[p]) /\ Len(Channels[p]) \in Nat /\ pub[p].at \in Nat
  BY ChannelsTyped
<1>2. Channels' = Channels
  BY DEF Channels
<1>3. \A i, j \in DOMAIN Channels[p] : (Channels[p][i] = "webhook" /\ Channels[p][j] = "webhook") => i = j
  BY DEF OneWebhook, LogInv, ShapeInv, Channels
<1>4. \A k \in DOMAIN Channels[p] : (pub[p].at + 1 > k) <=> (pub[p].at > k \/ k = pub[p].at)
  BY <1>1
<1>5. ~(pub[p].at > pub[p].at)
  BY <1>1
<1> QED BY <1>2, <1>3, <1>4, <1>5 DEF Served

\* The step after a channel.
LEMMA NextPlace ==
    ASSUME LogInv, NEW p \in Pubs, pub[p].at \in DOMAIN Channels[p], UNCHANGED plan,
           pub'[p].at = pub[p].at + 1, pub'[p].step = NextStep(p, pub[p].at + 1), pub'[p].attempt = 0
    PROVE  PlaceOf(p)' /\ AttemptsOf(p)'
<1>1. DOMAIN Channels[p] = 1..Len(Channels[p]) /\ Len(Channels[p]) \in Nat /\ pub[p].at \in Nat
  BY ChannelsTyped
<1>2. Channels' = Channels
  BY DEF Channels
<1>3. NextStep(p, pub[p].at + 1) \in {"done", "begin"}
  BY DEF NextStep
<1>4. NextStep(p, pub[p].at + 1) = "begin" => pub[p].at + 1 \in DOMAIN Channels[p]
  BY <1>1 DEF NextStep
<1>5. PlaceOf(p)'
  BY <1>2, <1>3, <1>4 DEF PlaceOf
<1>6. AttemptsOf(p)'
  BY <1>3, DeliveryAssumption DEF AttemptsOf
<1> QED BY <1>5, <1>6

\* A channel that is not a webhook ends, however it ends.
LEMMA OtherChannelEnds ==
    ASSUME OneWebhook, LogInv, NEW p \in Pubs, pub[p].at \in DOMAIN Channels[p],
           Channels[p][pub[p].at] # "webhook", UNCHANGED <<plan, posts, acks, rows, crashed>>,
           pub'[p].at = pub[p].at + 1, pub'[p].step = NextStep(p, pub[p].at + 1), pub'[p].attempt = 0
    PROVE  OneLog(p)'
<1>1. PlaceOf(p)' /\ AttemptsOf(p)'
  BY NextPlace
<1>2. Served(p, "webhook")' <=> Served(p, "webhook")
  BY ServedNext
<1>3. pub[p].step \notin {"send", "backoff"}
  BY DEF LogInv, OneLog, PlaceOf
<1>4. pub[p].attempt = 0
  BY <1>3 DEF LogInv, OneLog, AttemptsOf
<1>5. LogOf(p)'
  BY <1>2, <1>4 DEF LogInv, OneLog, LogOf
<1> QED BY <1>1, <1>5 DEF OneLog

\* One that goes on stays where it is.
LEMMA OtherChannelGoesOn ==
    ASSUME LogInv, NEW p \in Pubs, pub[p].at \in DOMAIN Channels[p],
           Channels[p][pub[p].at] # "webhook", UNCHANGED <<plan, posts, acks, rows, crashed>>,
           pub'[p].at = pub[p].at, pub'[p].step \in {"update", "post", "delete"},
           pub'[p].attempt = pub[p].attempt
    PROVE  OneLog(p)'
<1>1. pub[p].step \notin {"send", "backoff"}
  BY DEF LogInv, OneLog, PlaceOf
<1>2. PlaceOf(p)' /\ AttemptsOf(p)'
  BY <1>1 DEF LogInv, OneLog, PlaceOf, AttemptsOf, Channels
<1>3. LogOf(p)'
  BY DEF LogInv, OneLog, LogOf, Served, Channels
<1> QED BY <1>2, <1>3 DEF OneLog

\* The webhook is over: its row counts all the requests that were sent.
LEMMA WebhookEnds ==
    ASSUME OneWebhook, LogInv, ~crashed, NEW p \in Pubs, pub[p].at \in DOMAIN Channels[p],
           Channels[p][pub[p].at] = "webhook", UNCHANGED <<plan, crashed>>,
           NEW status \in {"success", "failed"}, NEW n \in Nat, n <= maxRetries,
           SaveDeliveryLog(p, status, n), posts'[p] <= n, acks'[p] = (status = "success"),
           pub'[p].at = pub[p].at + 1, pub'[p].step = NextStep(p, pub[p].at + 1), pub'[p].attempt = 0
    PROVE  OneLog(p)'
<1>1. PlaceOf(p)' /\ AttemptsOf(p)'
  BY NextPlace
<1>2. Served(p, "webhook")' /\ ~Served(p, "webhook")
  BY ServedNext
<1>3. rows[p] = <<>> /\ rows \in [Pubs -> Seq(Entries)]
  BY <1>2 DEF LogInv, OneLog, LogOf, ShapeInv
<1>4. rows'[p] = Append(rows[p], [status |-> status, count |-> n])
  BY <1>3 DEF SaveDeliveryLog
<1>5. Len(rows'[p]) = 1 /\ rows'[p][1] = [status |-> status, count |-> n]
  BY <1>3, <1>4 DEF Entries
<1>6. LogOf(p)'
  BY <1>2, <1>5 DEF LogOf
<1> QED BY <1>1, <1>6 DEF OneLog

-----------------------------------------------------------------------------
\* What the steps of a publication do to pub.
Typed == \E F : pub \in Shape(F)
Others(p) == \A q \in Pubs \ {p} : pub'[q] = pub[q]
Moves(p) ==
    /\ Typed' /\ Others(p)
    /\ pub'[p].at = pub[p].at + 1 /\ pub'[p].step = NextStep(p, pub[p].at + 1) /\ pub'[p].attempt = 0
Stays(p) ==
    /\ Typed' /\ Others(p)
    /\ pub'[p].at = pub[p].at

LEMMA MovedTyped ==
    ASSUME NEW F, pub \in Shape(F), NEW p \in Pubs
    PROVE  /\ Moved(p) \in Shape(F)
           /\ \A q \in Pubs \ {p} : Moved(p)[q] = pub[q]
           /\ Moved(p)[p].at = pub[p].at + 1
           /\ Moved(p)[p].step = NextStep(p, pub[p].at + 1)
           /\ Moved(p)[p].attempt = 0
<1>1. NextStep(p, pub[p].at + 1) \in Steps
  BY DEF NextStep, Steps
<1>2. pub[p].at + 1 \in Nat /\ 0 \in Nat
  BY DEF Shape
<1> QED BY <1>1, <1>2 DEF Moved, Shape

LEMMA CleanTyped ==
    ASSUME NEW F, NEW m \in Shape(F), NEW p \in Pubs, pub' = m \/ pub' = [m EXCEPT ![p].clean = FALSE]
    PROVE  /\ pub' \in Shape(F)
           /\ \A q \in Pubs \ {p} : pub'[q] = m[q]
           /\ pub'[p].at = m[p].at /\ pub'[p].step = m[p].step /\ pub'[p].attempt = m[p].attempt
BY DEF Shape

LEMMA NextMoves ==
    ASSUME Typed, NEW p \in Pubs, pub' = Moved(p) \/ pub' = [Moved(p) EXCEPT ![p].clean = FALSE]
    PROVE  Moves(p)
<1>1. PICK F : pub \in Shape(F)
  BY DEF Typed
<1>2. PICK m \in Shape(F) : m = Moved(p)
  BY <1>1, MovedTyped
<1>3. /\ \A q \in Pubs \ {p} : m[q] = pub[q]
      /\ m[p].at = pub[p].at + 1 /\ m[p].step = NextStep(p, pub[p].at + 1) /\ m[p].attempt = 0
  BY <1>1, <1>2, MovedTyped
<1>4. pub' = m \/ pub' = [m EXCEPT ![p].clean = FALSE]
  BY <1>2
<1>5. /\ pub' \in Shape(F)
      /\ \A q \in Pubs \ {p} : pub'[q] = m[q]
      /\ pub'[p].at = m[p].at /\ pub'[p].step = m[p].step /\ pub'[p].attempt = m[p].attempt
  BY <1>4, CleanTyped
<1>6. Typed'
  BY <1>5 DEF Typed, Shape
<1> QED BY <1>3, <1>5, <1>6 DEF Moves, Others

LEMMA StepStays ==
    ASSUME Typed, NEW p \in Pubs, NEW s \in Steps, Step(p, s)
    PROVE  Stays(p) /\ pub'[p].step = s /\ pub'[p].attempt = pub[p].attempt
<1>1. PICK F : pub \in Shape(F)
  BY DEF Typed
<1>2. pub' \in Shape(F)
  BY <1>1 DEF Step, Shape
<1>3. Typed'
  BY <1>2 DEF Typed, Shape
<1>4. Others(p) /\ pub'[p].at = pub[p].at /\ pub'[p].step = s /\ pub'[p].attempt = pub[p].attempt
  BY <1>1 DEF Step, Shape, Others
<1> QED BY <1>3, <1>4 DEF Stays

LEMMA AttemptStays ==
    ASSUME Typed, NEW p \in Pubs, NEW n \in Nat,
           pub' = [pub EXCEPT ![p].attempt = n, ![p].step = "backoff"]
    PROVE  Stays(p) /\ pub'[p].step = "backoff" /\ pub'[p].attempt = n
<1>1. PICK F : pub \in Shape(F)
  BY DEF Typed
<1>2. pub' \in Shape(F)
  BY <1>1 DEF Shape, Steps
<1>3. Typed'
  BY <1>2 DEF Typed, Shape
<1>4. Others(p) /\ pub'[p].at = pub[p].at /\ pub'[p].step = "backoff" /\ pub'[p].attempt = n
  BY <1>1 DEF Shape, Others
<1> QED BY <1>3, <1>4 DEF Stays

LEMMA FoundStays ==
    ASSUME Typed, NEW p \in Pubs, NEW found, NEW s \in Steps,
           pub' = [pub EXCEPT ![p].found = found, ![p].step = s]
    PROVE  Stays(p) /\ pub'[p].step = s /\ pub'[p].attempt = pub[p].attempt
<1>1. PICK F : pub \in Shape(F)
  BY DEF Typed
<1>2. pub' \in Shape(F \cup {found})
  BY <1>1 DEF Shape
<1>3. Typed'
  BY <1>2 DEF Typed, Shape
<1>4. Others(p) /\ pub'[p].at = pub[p].at /\ pub'[p].step = s /\ pub'[p].attempt = pub[p].attempt
  BY <1>1 DEF Shape, Others
<1> QED BY <1>3, <1>4 DEF Stays

LEMMA RemoveStays ==
    ASSUME Typed, NEW p \in Pubs, NEW found,
           \/ pub' = [pub EXCEPT ![p].found = found]
           \/ pub' = [[pub EXCEPT ![p].found = found] EXCEPT ![p].clean = FALSE]
    PROVE  Stays(p) /\ pub'[p].step = pub[p].step /\ pub'[p].attempt = pub[p].attempt
<1>1. PICK F : pub \in Shape(F)
  BY DEF Typed
<1>2. [pub EXCEPT ![p].found = found] \in Shape(F \cup {found})
  BY <1>1 DEF Shape
<1>3. pub' \in Shape(F \cup {found})
  BY <1>2 DEF Shape
<1>4. Typed'
  BY <1>3 DEF Typed, Shape
<1>5. Others(p) /\ pub'[p].at = pub[p].at /\ pub'[p].step = pub[p].step /\ pub'[p].attempt = pub[p].attempt
  BY <1>1, <1>2 DEF Shape, Others
<1> QED BY <1>4, <1>5 DEF Stays

-----------------------------------------------------------------------------
\* A step of publication p leaves the logs of the others alone.
LEMMA OneIsEnough ==
    ASSUME LogInv, NEW p \in Pubs, Typed', Others(p), UNCHANGED <<plan, crashed>>,
           posts' \in [Pubs -> Nat], acks' \in [Pubs -> BOOLEAN], rows' \in [Pubs -> Seq(Entries)],
           \A q \in Pubs \ {p} : posts'[q] = posts[q] /\ acks'[q] = acks[q] /\ rows'[q] = rows[q],
           OneLog(p)'
    PROVE  LogInv'
<1>1. ShapeInv'
  BY DEF LogInv, ShapeInv, Typed
<1>2. ASSUME NEW q \in Pubs \ {p} PROVE OneLog(q)'
  <2>1. OneLog(q) /\ pub'[q] = pub[q]
    BY DEF LogInv, Others
  <2> QED BY <2>1, Untouched
<1> QED BY <1>1, <1>2 DEF LogInv

\* A step at a comment or a file.
LEMMA OtherStep ==
    ASSUME OneWebhook, LogInv, NEW p \in Pubs, NEW c \in {"comment", "file"}, NEW s \in Steps \ {"new", "done"},
           At(p, c, s), UNCHANGED <<plan, posts, acks, rows, crashed>>,
           \/ Moves(p)
           \/ Stays(p) /\ pub'[p].step \in {"update", "post", "delete"} /\ pub'[p].attempt = pub[p].attempt
    PROVE  LogInv'
<1>1. pub[p].at \in DOMAIN Channels[p] /\ Channels[p][pub[p].at] # "webhook"
  BY DEF At, LogInv, OneLog, PlaceOf
<1>2. OneLog(p)'
  BY <1>1, OtherChannelEnds, OtherChannelGoesOn DEF Moves, Stays
<1>3. Typed' /\ Others(p)
  BY DEF Moves, Stays
<1> QED BY <1>2, <1>3, OneIsEnough DEF LogInv, ShapeInv

LEMMA CommentKeeps ==
    ASSUME OneWebhook, LogInv, NEW p \in Pubs,
           SkipComment(p) \/ ListComments(p) \/ UpdateComment(p) \/ DeleteDuplicates(p) \/ PostComment(p)
    PROVE  LogInv'
<1>1. Typed
  BY DEF LogInv, ShapeInv, Typed
<1>2. CASE SkipComment(p)
  <2>1. At(p, "comment", "begin") /\ UNCHANGED <<plan, posts, acks, rows, crashed>> /\ pub' = Moved(p)
    BY <1>2 DEF SkipComment, NextChannel, otherVars
  <2>2. Moves(p)
    BY <1>1, <2>1, NextMoves
  <2> QED BY <2>1, <2>2, OtherStep DEF Steps
<1>3. CASE ListComments(p)
  <2>1. At(p, "comment", "begin") /\ UNCHANGED <<plan, posts, acks, rows, crashed>>
    BY <1>3 DEF ListComments, otherVars
  <2>2. CASE ChannelFails(p)
    <3>1. Moves(p)
      BY <1>1, <2>2, NextMoves DEF ChannelFails
    <3> QED BY <2>1, <3>1, OtherStep DEF Steps
  <2>3. CASE \E s \in {"post", "update"} : \E found :
               pub' = [pub EXCEPT ![p].found = found, ![p].step = s]
    <3>1. PICK s \in {"post", "update"} : \E found :
               pub' = [pub EXCEPT ![p].found = found, ![p].step = s]
      BY <2>3
    <3>2. PICK found : pub' = [pub EXCEPT ![p].found = found, ![p].step = s]
      BY <3>1
    <3>3. s \in Steps
      BY DEF Steps
    <3>4. Stays(p) /\ pub'[p].step = s /\ pub'[p].attempt = pub[p].attempt
      BY <1>1, <3>2, <3>3, FoundStays
    <3> QED BY <2>1, <3>4, OtherStep DEF Steps
  <2> QED BY <1>3, <2>2, <2>3 DEF ListComments
<1>4. CASE UpdateComment(p)
  <2>1. At(p, "comment", "update") /\ UNCHANGED <<plan, posts, acks, rows, crashed>>
    BY <1>4 DEF UpdateComment, otherVars
  <2>2. CASE Step(p, "delete")
    <3>1. Stays(p) /\ pub'[p].step = "delete" /\ pub'[p].attempt = pub[p].attempt
      BY <1>1, <2>2, StepStays DEF Steps
    <3> QED BY <2>1, <3>1, OtherStep DEF Steps
  <2>3. CASE NextChannel(p) \/ ChannelFails(p)
    <3>1. Moves(p)
      BY <1>1, <2>3, NextMoves DEF ChannelFails, NextChannel
    <3> QED BY <2>1, <3>1, OtherStep DEF Steps
  <2> QED BY <1>4, <2>2, <2>3 DEF UpdateComment
<1>5. CASE DeleteDuplicates(p)
  <2>1. At(p, "comment", "delete") /\ UNCHANGED <<plan, posts, acks, rows, crashed>>
    BY <1>5 DEF DeleteDuplicates, otherVars
  <2>2. CASE NextChannel(p)
    <3>1. Moves(p)
      BY <1>1, <2>2, NextMoves DEF NextChannel
    <3> QED BY <2>1, <3>1, OtherStep DEF Steps
  <2>3. CASE \E found : \/ pub' = [pub EXCEPT ![p].found = found]
                        \/ pub' = [[pub EXCEPT ![p].found = found] EXCEPT ![p].clean = FALSE]
    <3>1. Stays(p) /\ pub'[p].step = pub[p].step /\ pub'[p].attempt = pub[p].attempt
      BY <1>1, <2>3, RemoveStays
    <3>2. pub[p].step = "delete"
      BY <2>1 DEF At
    <3> QED BY <2>1, <3>1, <3>2, OtherStep DEF Steps
  <2> QED BY <1>5, <2>2, <2>3 DEF DeleteDuplicates
<1>6. CASE PostComment(p)
  <2>1. At(p, "comment", "post") /\ UNCHANGED <<plan, posts, acks, rows, crashed>>
    BY <1>6 DEF PostComment, otherVars
  <2>2. Moves(p)
    BY <1>1, <1>6, NextMoves DEF PostComment, ChannelFails, NextChannel
  <2> QED BY <2>1, <2>2, OtherStep DEF Steps
<1> QED BY <1>2, <1>3, <1>4, <1>5, <1>6

LEMMA WriteFileKeeps ==
    ASSUME OneWebhook, LogInv, NEW p \in Pubs, WriteFile(p)
    PROVE  LogInv'
<1>1. At(p, "file", "begin") /\ UNCHANGED <<plan, posts, acks, rows, crashed>>
  BY DEF WriteFile
<1>2. Moves(p)
  BY NextMoves DEF WriteFile, ChannelFails, NextChannel, LogInv, ShapeInv, Typed
<1> QED BY <1>1, <1>2, OtherStep DEF Steps

-----------------------------------------------------------------------------
\* The webhook.
LEMMA AtWebhook ==
    ASSUME LogInv, OneWebhook, NEW p \in Pubs, NEW s \in Steps \ {"new", "done"}, At(p, "webhook", s)
    PROVE  /\ pub[p].at \in DOMAIN Channels[p] /\ Channels[p][pub[p].at] = "webhook" /\ ~crashed
           /\ pub[p].step = s
           /\ ~Served(p, "webhook")
           /\ rows[p] = <<>> /\ acks[p] = FALSE /\ posts[p] <= pub[p].attempt
           /\ pub[p].attempt \in Nat /\ posts[p] \in Nat
<1>1. pub[p].step = s /\ Channels[p][pub[p].at] = "webhook" /\ ~crashed
  BY DEF At
<1>2. pub[p].at \in DOMAIN Channels[p]
  BY <1>1 DEF LogInv, OneLog, PlaceOf
<1>3. pub[p].attempt \in Nat /\ pub[p].at \in Nat /\ posts[p] \in Nat
  BY DEF LogInv, ShapeInv, Shape
<1>4. ~Served(p, "webhook")
  <2>1. \A i, j \in DOMAIN Channels[p] : (Channels[p][i] = "webhook" /\ Channels[p][j] = "webhook") => i = j
    BY DEF OneWebhook, LogInv, ShapeInv, Channels
  <2> QED BY <1>1, <1>2, <1>3, <2>1 DEF Served
<1> QED BY <1>1, <1>2, <1>3, <1>4 DEF LogInv, OneLog, LogOf

LEMMA StartKeeps ==
    ASSUME OneWebhook, LogInv, NEW p \in Pubs, Start(p)
    PROVE  LogInv'
<1>1. At(p, "webhook", "begin") /\ UNCHANGED <<plan, posts, acks, rows, crashed>> /\ Step(p, "send")
  BY DEF Start, webVars
<1>2. /\ pub[p].at \in DOMAIN Channels[p] /\ Channels[p][pub[p].at] = "webhook" /\ ~crashed
      /\ pub[p].step = "begin" /\ ~Served(p, "webhook")
      /\ rows[p] = <<>> /\ acks[p] = FALSE /\ posts[p] <= pub[p].attempt
  BY <1>1, AtWebhook DEF Steps
<1>3. Stays(p) /\ pub'[p].step = "send" /\ pub'[p].attempt = pub[p].attempt
  BY <1>1, StepStays DEF LogInv, ShapeInv, Typed, Steps
<1>4. pub[p].attempt = 0
  BY <1>2 DEF LogInv, OneLog, AttemptsOf
<1>5. PlaceOf(p)' /\ AttemptsOf(p)'
  BY <1>1, <1>2, <1>3, <1>4, DeliveryAssumption DEF PlaceOf, AttemptsOf, Channels, Stays
<1>6. LogOf(p)'
  BY <1>1, <1>2, <1>3 DEF LogOf, Served, Channels, Stays
<1> QED BY <1>1, <1>3, <1>5, <1>6, OneIsEnough DEF OneLog, Stays, LogInv, ShapeInv

LEMMA AnotherPost ==
    ASSUME LogInv, NEW p \in Pubs, posts' \in {posts, [posts EXCEPT ![p] = @ + 1]}
    PROVE  /\ posts' \in [Pubs -> Nat] /\ posts'[p] <= posts[p] + 1
           /\ \A q \in Pubs \ {p} : posts'[q] = posts[q]
BY DEF LogInv, ShapeInv

LEMMA RowTyped ==
    ASSUME LogInv, NEW p \in Pubs, NEW status \in {"success", "failed"}, NEW n \in Nat,
           SaveDeliveryLog(p, status, n)
    PROVE  /\ rows' \in [Pubs -> Seq(Entries)]
           /\ \A q \in Pubs \ {p} : rows'[q] = rows[q]
<1>1. [status |-> status, count |-> n] \in Entries
  BY DEF Entries
<1>2. rows \in [Pubs -> Seq(Entries)]
  BY DEF LogInv, ShapeInv
<1>3. Append(rows[p], [status |-> status, count |-> n]) \in Seq(Entries)
  BY <1>1, <1>2
<1> QED BY <1>2, <1>3 DEF SaveDeliveryLog

LEMMA SendRequestKeeps ==
    ASSUME OneWebhook, LogInv, NEW p \in Pubs, SendRequest(p)
    PROVE  LogInv'
<1>1. At(p, "webhook", "send") /\ UNCHANGED <<plan, crashed>>
  BY DEF SendRequest, webVars
<1>2. /\ pub[p].at \in DOMAIN Channels[p] /\ Channels[p][pub[p].at] = "webhook" /\ ~crashed
      /\ pub[p].step = "send" /\ ~Served(p, "webhook")
      /\ rows[p] = <<>> /\ acks[p] = FALSE /\ posts[p] <= pub[p].attempt
      /\ pub[p].attempt \in Nat /\ posts[p] \in Nat
  BY <1>1, AtWebhook DEF Steps
<1>3. PICK n \in Nat : n = pub[p].attempt + 1
  BY <1>2
<1>4. n <= maxRetries /\ posts[p] + 1 <= n
  BY <1>2, <1>3, DeliveryAssumption DEF LogInv, OneLog, AttemptsOf
<1>5. Typed
  BY DEF LogInv, ShapeInv, Typed
<1>6. CASE /\ posts' = [posts EXCEPT ![p] = @ + 1] /\ acks' = [acks EXCEPT ![p] = TRUE]
           /\ SaveDeliveryLog(p, "success", n) /\ NextChannel(p)
  <2>1. Moves(p)
    BY <1>5, <1>6, NextMoves DEF NextChannel
  <2>2. posts' \in [Pubs -> Nat] /\ posts'[p] <= n /\ \A q \in Pubs \ {p} : posts'[q] = posts[q]
    BY <1>2, <1>4, <1>6, AnotherPost, DeliveryAssumption
  <2>3. acks' \in [Pubs -> BOOLEAN] /\ acks'[p] = TRUE /\ \A q \in Pubs \ {p} : acks'[q] = acks[q]
    BY <1>6 DEF LogInv, ShapeInv
  <2>4. rows' \in [Pubs -> Seq(Entries)] /\ \A q \in Pubs \ {p} : rows'[q] = rows[q]
    BY <1>6, RowTyped
  <2>5. OneLog(p)'
    BY <1>1, <1>2, <1>4, <1>6, <2>1, <2>2, <2>3, WebhookEnds DEF Moves
  <2> QED BY <1>1, <2>1, <2>2, <2>3, <2>4, <2>5, OneIsEnough DEF Moves
<1>7. CASE /\ posts' \in {posts, [posts EXCEPT ![p] = @ + 1]}
           /\ pub' = [pub EXCEPT ![p].attempt = n, ![p].step = "backoff"]
           /\ UNCHANGED <<acks, rows>>
  <2>1. Stays(p) /\ pub'[p].step = "backoff" /\ pub'[p].attempt = n
    BY <1>5, <1>7, AttemptStays
  <2>2. posts' \in [Pubs -> Nat] /\ posts'[p] <= n /\ \A q \in Pubs \ {p} : posts'[q] = posts[q]
    <3>1. posts' \in [Pubs -> Nat] /\ posts'[p] <= posts[p] + 1 /\ \A q \in Pubs \ {p} : posts'[q] = posts[q]
      BY <1>7, AnotherPost
    <3> QED BY <1>2, <1>4, <3>1, DeliveryAssumption
  <2>3. PlaceOf(p)' /\ AttemptsOf(p)'
    BY <1>1, <1>2, <1>4, <2>1 DEF PlaceOf, AttemptsOf, Channels, Stays
  <2>4. LogOf(p)'
    BY <1>1, <1>2, <1>7, <2>1, <2>2 DEF LogOf, Served, Channels, Stays
  <2> QED BY <1>1, <1>7, <2>1, <2>2, <2>3, <2>4, OneIsEnough DEF OneLog, Stays, LogInv, ShapeInv
<1> QED BY <1>3, <1>6, <1>7 DEF SendRequest

\* The sender is done without success.
LEMMA GivenUp ==
    ASSUME OneWebhook, LogInv, NEW p \in Pubs, NEW s \in {"send", "backoff"}, At(p, "webhook", s),
           SaveDeliveryLog(p, "failed", pub[p].attempt), NextChannel(p),
           UNCHANGED <<plan, posts, acks, crashed>>
    PROVE  LogInv'
<1>1. /\ pub[p].at \in DOMAIN Channels[p] /\ Channels[p][pub[p].at] = "webhook" /\ ~crashed
      /\ acks[p] = FALSE /\ posts[p] <= pub[p].attempt /\ pub[p].attempt \in Nat
  BY AtWebhook DEF Steps
<1>2. pub[p].attempt <= maxRetries
  BY DEF LogInv, OneLog, AttemptsOf
<1>3. Moves(p)
  BY NextMoves DEF NextChannel, LogInv, ShapeInv, Typed
<1>4. rows' \in [Pubs -> Seq(Entries)] /\ \A q \in Pubs \ {p} : rows'[q] = rows[q]
  BY <1>1, RowTyped
<1>5. acks'[p] = ("failed" = "success")
  BY <1>1
<1>6. OneLog(p)'
  BY <1>1, <1>2, <1>3, <1>5, WebhookEnds DEF Moves
<1> QED BY <1>3, <1>4, <1>6, OneIsEnough DEF Moves, LogInv, ShapeInv

LEMMA BackoffKeeps ==
    ASSUME OneWebhook, LogInv, NEW p \in Pubs, Backoff(p)
    PROVE  LogInv'
<1>1. At(p, "webhook", "backoff") /\ UNCHANGED <<plan, posts, acks, crashed>>
  BY DEF Backoff, webVars
<1>2. CASE SaveDeliveryLog(p, "failed", pub[p].attempt) /\ NextChannel(p)
  BY <1>1, <1>2, GivenUp
<1>3. CASE ~Exhausted(p) /\ Step(p, "send") /\ UNCHANGED rows
  <2>1. /\ pub[p].at \in DOMAIN Channels[p] /\ Channels[p][pub[p].at] = "webhook" /\ ~crashed
        /\ ~Served(p, "webhook") /\ rows[p] = <<>> /\ acks[p] = FALSE /\ posts[p] <= pub[p].attempt
        /\ pub[p].attempt \in Nat
    BY <1>1, AtWebhook DEF Steps
  <2>2. Stays(p) /\ pub'[p].step = "send" /\ pub'[p].attempt = pub[p].attempt
    BY <1>3, StepStays DEF LogInv, ShapeInv, Typed, Steps
  <2>3. pub[p].attempt < maxRetries
    BY <1>3, <2>1, DeliveryAssumption DEF Exhausted
  <2>4. PlaceOf(p)' /\ AttemptsOf(p)'
    BY <1>1, <2>1, <2>2, <2>3, DeliveryAssumption DEF PlaceOf, AttemptsOf, Channels, Stays
  <2>5. LogOf(p)'
    BY <1>1, <1>3, <2>1, <2>2 DEF LogOf, Served, Channels, Stays
  <2> QED BY <1>1, <1>3, <2>2, <2>4, <2>5, OneIsEnough DEF OneLog, Stays, LogInv, ShapeInv
<1> QED BY <1>2, <1>3 DEF Backoff

LEMMA GiveUpKeeps ==
    ASSUME OneWebhook, LogInv, NEW p \in Pubs, GiveUp(p)
    PROVE  LogInv'
BY GivenUp DEF GiveUp, webVars

-----------------------------------------------------------------------------
\* The other steps.
LEMMA BeginTyped ==
    ASSUME Typed, NEW p \in Pubs, Begin(p)
    PROVE  /\ Typed'
           /\ pub'[p].at = 1 /\ pub'[p].step = NextStep(p, 1) /\ pub'[p].attempt = pub[p].attempt
           /\ \A q \in Pubs \ {p} : /\ pub'[q].at = pub[q].at /\ pub'[q].step = pub[q].step
                                    /\ pub'[q].attempt = pub[q].attempt
<1>1. PICK F : pub \in Shape(F)
  BY DEF Typed
<1>2. NextStep(p, 1) \in Steps
  BY DEF NextStep, Steps
<1>3. PICK alone \in BOOLEAN : alone = (Active = {})
  OBVIOUS
<1>4. pub' = [q \in Pubs |->
                IF q = p THEN [pub[p] EXCEPT !.at = 1, !.step = NextStep(p, 1), !.alone = alone]
                ELSE IF q \in Active THEN [pub[q] EXCEPT !.alone = FALSE] ELSE pub[q]]
  BY <1>3 DEF Begin
<1>5. pub' \in Shape(F)
  BY <1>1, <1>2, <1>4 DEF Shape
<1>6. Typed'
  BY <1>5 DEF Typed, Shape
<1>7. pub'[p].at = 1 /\ pub'[p].step = NextStep(p, 1) /\ pub'[p].attempt = pub[p].attempt
  BY <1>1, <1>4 DEF Shape
<1>8. \A q \in Pubs \ {p} : /\ pub'[q].at = pub[q].at /\ pub'[q].step = pub[q].step
                            /\ pub'[q].attempt = pub[q].attempt
  BY <1>1, <1>4 DEF Shape
<1> QED BY <1>6, <1>7, <1>8

LEMMA BeginKeeps ==
    ASSUME LogInv, NEW p \in Pubs, Begin(p)
    PROVE  LogInv'
<1>1. pub[p].step = "new" /\ UNCHANGED <<plan, posts, acks, rows, crashed>>
  BY DEF Begin
<1>2. /\ Typed'
      /\ pub'[p].at = 1 /\ pub'[p].step = NextStep(p, 1) /\ pub'[p].attempt = pub[p].attempt
      /\ \A q \in Pubs \ {p} : /\ pub'[q].at = pub[q].at /\ pub'[q].step = pub[q].step
                               /\ pub'[q].attempt = pub[q].attempt
  BY BeginTyped DEF LogInv, ShapeInv, Typed
<1>3. ShapeInv'
  BY <1>1, <1>2 DEF LogInv, ShapeInv, Typed
<1>4. ASSUME NEW q \in Pubs \ {p} PROVE OneLog(q)'
  <2>1. OneLog(q)
    BY DEF LogInv
  <2> QED BY <1>1, <1>2, <2>1, Untouched
<1>5. OneLog(p)'
  <2>1. pub[p].at = 0 /\ pub[p].attempt = 0
    BY <1>1 DEF LogInv, OneLog, PlaceOf, AttemptsOf
  <2>2. DOMAIN Channels[p] = 1..Len(Channels[p]) /\ Len(Channels[p]) \in Nat
    BY ChannelsTyped
  <2>3. NextStep(p, 1) \in {"done", "begin"} /\ (NextStep(p, 1) = "begin" => 1 \in DOMAIN Channels[p])
    BY <2>2 DEF NextStep
  <2>4. PlaceOf(p)' /\ AttemptsOf(p)'
    BY <1>1, <1>2, <2>1, <2>3, DeliveryAssumption DEF PlaceOf, AttemptsOf, Channels
  <2>5. ~Served(p, "webhook") /\ ~Served(p, "webhook")'
    BY <1>1, <1>2, <2>1, <2>2 DEF Served, Channels
  <2>6. LogOf(p)'
    BY <1>1, <1>2, <2>5 DEF LogInv, OneLog, LogOf
  <2> QED BY <2>4, <2>6 DEF OneLog
<1> QED BY <1>3, <1>4, <1>5 DEF LogInv

\* The process dies and forgets its attempts, the rows and what the endpoint
\* has taken remain.
LEMMA CrashKeeps ==
    ASSUME LogInv, Crash
    PROVE  LogInv'
<1>1. crashed' /\ UNCHANGED <<plan, posts, acks, rows>>
  BY DEF Crash
<1>2. PICK F : pub \in Shape(F)
  BY DEF LogInv, ShapeInv
<1>3. pub' \in Shape(F \cup {{}})
  BY <1>2 DEF Crash, Shape
<1>4. \A p \in Pubs : pub'[p].at = pub[p].at /\ pub'[p].step = pub[p].step /\ pub'[p].attempt = 0
  BY <1>2 DEF Crash, Shape
<1>5. ShapeInv'
  BY <1>1, <1>3 DEF LogInv, ShapeInv, Shape
<1>6. ASSUME NEW p \in Pubs PROVE OneLog(p)'
  <2>1. OneLog(p) /\ pub'[p].at = pub[p].at /\ pub'[p].step = pub[p].step /\ pub'[p].attempt = 0
    BY <1>4 DEF LogInv
  <2>2. PlaceOf(p)' /\ AttemptsOf(p)'
    BY <1>1, <2>1, DeliveryAssumption DEF OneLog, PlaceOf, AttemptsOf, Channels
  <2>3. LogOf(p)'
    BY <1>1, <2>1 DEF OneLog, LogOf, Served, Channels
  <2> QED BY <2>2, <2>3 DEF OneLog
<1> QED BY <1>5, <1>6 DEF LogInv

LEMMA Elsewhere ==
    ASSUME LogInv, UNCHANGED <<plan, posts, acks, rows, pub, crashed>>
    PROVE  LogInv'
<1>1. ShapeInv'
  BY DEF LogInv, ShapeInv, Shape
<1>2. ASSUME NEW p \in Pubs PROVE OneLog(p)'
  <2>1. OneLog(p)
    BY DEF LogInv
  <2> QED BY <2>1, Untouched
<1> QED BY <1>1, <1>2 DEF LogInv

LEMMA LogInitially ==
    ASSUME Init
    PROVE  LogInv
<1>1. \A p \in Pubs : /\ pub[p].at = 0 /\ pub[p].step = "new" /\ pub[p].attempt = 0
                      /\ rows[p] = <<>> /\ posts[p] = 0 /\ acks[p] = FALSE
  BY DEF Init
<1>2. ShapeInv
  <2>1. pub \in Shape({{}})
    BY DEF Init, Shape, Steps
  <2>2. rows \in [Pubs -> Seq(Entries)]
    BY DEF Init
  <2> QED BY <2>1, <2>2 DEF Init, ShapeInv
<1>3. ASSUME NEW p \in Pubs PROVE OneLog(p)
  <2>1. DOMAIN Channels[p] = 1..Len(Channels[p]) /\ Len(Channels[p]) \in Nat
    BY <1>2, DeliveryAssumption DEF ShapeInv, Channels
  <2>2. ~Served(p, "webhook")
    BY <1>1, <2>1 DEF Served
  <2> QED BY <1>1, <2>2, DeliveryAssumption DEF OneLog, PlaceOf, AttemptsOf, LogOf
<1> QED BY <1>2, <1>3 DEF LogInv

LEMMA LogStep ==
    ASSUME OneWebhook, LogInv, [Next]_vars
    PROVE  LogInv'
<1>1. CASE \E p \in Pubs : Begin(p)
  BY <1>1, BeginKeeps
<1>2. ASSUME NEW p \in Pubs, Publish(p) PROVE LogInv'
  BY <1>2, CommentKeeps, StartKeeps, SendRequestKeeps, BackoffKeeps, GiveUpKeeps, WriteFileKeeps DEF Publish
<1>3. CASE UserComments
  BY <1>3, Elsewhere DEF UserComments
<1>4. CASE Cancel
  BY <1>4, Elsewhere DEF Cancel
<1>5. CASE Crash
  BY <1>5, CrashKeeps
<1>6. CASE UNCHANGED vars
  BY <1>6, Elsewhere DEF vars
<1> QED BY <1>1, <1>2, <1>3, <1>4, <1>5, <1>6 DEF Next

\* The delivery log tells what happened to the webhook of every rule that names
\* one: one row when it is over and none before, success exactly for an answer
\* that was received, no more requests than the row counts and no more than
\* maxRetries, whenever the process is stopped or dies (output/webhook.go).
THEOREM LogIsTrue == OneWebhook => (Spec => []LogTellsTruth)
<1> SUFFICES ASSUME OneWebhook PROVE Spec => []LogTellsTruth
  OBVIOUS
<1>1. Init => LogInv
  BY LogInitially
<1>2. LogInv /\ [Next]_vars => LogInv'
  BY LogStep
<1>3. LogInv => LogTellsTruth
  <2> SUFFICES ASSUME LogInv, NEW p \in Pubs
               PROVE  /\ Len(rows[p]) = IF Served(p, "webhook") THEN 1 ELSE 0
                      /\ \A i \in DOMAIN rows[p] :
                            /\ (rows[p][i].status = "success") = acks[p]
                            /\ posts[p] <= rows[p][i].count
                            /\ rows[p][i].count <= maxRetries
    BY DEF LogTellsTruth
  <2>1. LogOf(p) /\ rows[p] \in Seq(Entries)
    BY DEF LogInv, OneLog, ShapeInv
  <2>2. CASE Served(p, "webhook")
    <3>1. DOMAIN rows[p] = {1} /\ Len(rows[p]) = 1
      BY <2>1, <2>2 DEF LogOf
    <3> QED BY <2>1, <2>2, <3>1 DEF LogOf
  <2>3. CASE ~Served(p, "webhook")
    BY <2>1, <2>3 DEF LogOf
  <2> QED BY <2>2, <2>3
<1> QED BY <1>1, <1>2, <1>3, PTL DEF Spec

-----------------------------------------------------------------------------
(* Calls of agents *)

CallSteps == {"new", "run", "backoff"} \cup Agent!Building \cup Agent!Ends
Values == {s[f] : s \in Settings, f \in Agent!Fields} \cup {ModelOf[x] : x \in Calls} \cup {None, Default, Torn}
CallRecord ==
    [step : CallSteps, attempt : 0..maxRepeats, got : Settings \cup {Agent!Unset}, with : [Agent!Fields -> Values],
     outcomes : Seq({"ok", "final", "retryable"}), disturbed : BOOLEAN]
CallTyped ==
    /\ Agent!TypeOK
    /\ shared \in [Agent!Fields -> Values]
    /\ call \in [Calls -> CallRecord]

\* The steps at which a call has written a field and has it still to read, and
\* those at which it has read it.
Pending(f) ==
    {"request"} \cup (IF f = "model" THEN {"key", "timeout", "prepare"} ELSE {})
                \cup (IF f = "key" THEN {"timeout", "prepare", "start"} ELSE {})
HasRead(f) ==
    {"run"} \cup (IF f = "timeout" THEN {"prepare", "start"} ELSE {}) \cup (IF f = "model" THEN {"start"} ELSE {})

\* What an undisturbed call has read of the settings is in the shared fields
\* until it reads it from there, and in its own request afterwards.
FieldInv(x) ==
    /\ ~call[x].disturbed =>
          \A f \in Agent!Fields : call[x].got[f] # None =>
              /\ call[x].step \in Pending(f) => shared[f] = call[x].got[f]
              /\ call[x].step \in HasRead(f) /\ (f = "model" => ModelOf[x] = None) => call[x].with[f] = call[x].got[f]
    /\ call[x].step \in HasRead("model") /\ ModelOf[x] # None => call[x].with["model"] = ModelOf[x]

\* A call has as many outcomes as attempts that are over, and all that were
\* repeated were worth it.
OutcomeInv(x) ==
    LET out == call[x].outcomes IN
    /\ \A i \in DOMAIN out : i < Len(out) => out[i] = "retryable"
    /\ call[x].step \in {"new", "run"} \cup Agent!Building =>
          Len(out) = call[x].attempt /\ \A i \in DOMAIN out : out[i] = "retryable"
    /\ call[x].step \in {"backoff", "cancelled"} =>
          /\ Len(out) = call[x].attempt + 1 /\ call[x].attempt < maxRepeats
          /\ \A i \in DOMAIN out : out[i] = "retryable"
    /\ call[x].step \in {"ok", "failed"} =>
          /\ Len(out) = call[x].attempt + 1
          /\ out[Len(out)] = "retryable" => call[x].attempt = maxRepeats

CallInv == CallTyped /\ \A x \in Calls : FieldInv(x) /\ OutcomeInv(x)

LEMMA CallInit == Agent!Init => CallInv
<1> SUFFICES ASSUME Agent!Init PROVE CallInv
  OBVIOUS
<1>1. call \in [Calls -> CallRecord]
  BY CallsAssumption DEF Agent!Init, CallRecord, CallSteps, Agent!Unset, Values
<1>2. shared \in [Agent!Fields -> Values]
  BY DEF Agent!Init, Agent!Unset, Values
<1>3. \A f \in Agent!Fields : shared[f] \in {s[f] : s \in Settings} \cup {None, Default}
  BY DEF Agent!Init, Agent!Unset
<1>4. Agent!TypeOK
  <2>1. \A x \in Calls : /\ call[x].step \in CallSteps /\ call[x].attempt \in 0..maxRepeats
                         /\ call[x].got \in Settings \cup {Agent!Unset} /\ call[x].disturbed \in BOOLEAN
    BY <1>1 DEF CallRecord
  <2>2. held = {} /\ agentsCancelled = FALSE /\ upsets = 0 /\ agent \in Agent!Agents /\ db \in Settings
    BY DEF Agent!Init
  <2>3. upsets \in 0..MaxUpsets /\ held \subseteq Calls
    BY <2>2, CallsAssumption
  <2> QED BY <1>3, <2>1, <2>2, <2>3 DEF Agent!TypeOK, CallSteps
<1>5. \A x \in Calls : FieldInv(x) /\ OutcomeInv(x)
  BY CallsAssumption DEF Agent!Init, FieldInv, OutcomeInv, Pending, HasRead, Agent!Unset, Agent!Building, Agent!Writes,
     Agent!Fields
<1> QED BY <1>1, <1>2, <1>4, <1>5 DEF CallInv, CallTyped

\* What is written is what was read, where something was.
LEMMA WrittenIsRead ==
    ASSUME CallTyped, NEW x \in Calls, NEW f \in Agent!Fields
    PROVE  /\ Agent!Written(x, f) \in Values \cap ({s[f] : s \in Settings} \cup {None, Default})
           /\ call[x].got[f] # None => Agent!Written(x, f) = call[x].got[f]
BY DEF CallTyped, CallRecord, Agent!TypeOK, Agent!Agents, Agent!Written, Agent!CursorField, Agent!GeminiField,
   Agent!QoderField, Agent!Unset, Values

\* A step of one call that leaves the shared fields alone.
LEMMA OwnStep ==
    ASSUME CallInv, NEW x \in Calls, NEW r \in CallRecord, call' = [call EXCEPT ![x] = r],
           UNCHANGED <<agent, db, shared>>, held' \subseteq Calls, agentsCancelled' \in BOOLEAN, upsets' \in 0..MaxUpsets,
           (FieldInv(x) /\ OutcomeInv(x))'
    PROVE  CallInv'
<1>1. call' \in [Calls -> CallRecord] /\ \A y \in Calls \ {x} : call'[y] = call[y]
  BY DEF CallInv, CallTyped
<1>2. ASSUME NEW y \in Calls \ {x} PROVE (FieldInv(y) /\ OutcomeInv(y))'
  BY <1>1, <1>2 DEF CallInv, FieldInv, OutcomeInv
<1>3. Agent!TypeOK'
  BY <1>1 DEF CallInv, CallTyped, Agent!TypeOK, CallRecord, CallSteps
<1> QED BY <1>1, <1>2, <1>3 DEF CallInv, CallTyped

\* Writing a field disturbs who has read something else.
LEMMA WriteKeeps ==
    ASSUME CallInv, NEW x \in Calls, NEW f \in Agent!Fields, Agent!Write(x, f)
    PROVE  CallInv'
<1> DEFINE v == Agent!Written(x, f)
           next == Agent!NextWrite(f)
<1>1. v \in Values \cap ({s[f] : s \in Settings} \cup {None, Default}) /\ (call[x].got[f] # None => v = call[x].got[f])
  BY WrittenIsRead DEF CallInv
<1>2. /\ f = "model" => next = "key"
      /\ f = "key" => next = "timeout"
      /\ f = "timeout" => next = "request"
      /\ next \in Agent!Building /\ f \in Agent!Building
  BY DEF Agent!NextWrite, Agent!Building, Agent!Writes, Agent!Fields
<1>3. shared' \in [Agent!Fields -> Values] /\ shared'[f] = v /\ \A g \in Agent!Fields \ {f} : shared'[g] = shared[g]
  BY <1>1 DEF Agent!Write, CallInv, CallTyped
<1>4. call[x].step = f /\ call'[x] = [call[x] EXCEPT !.step = next]
  BY DEF Agent!Write, Agent!At
<1>5. ASSUME NEW y \in Calls \ {x}
      PROVE  call'[y] = IF call[y].step \in Agent!Building /\ call[y].got # call[x].got
                        THEN [call[y] EXCEPT !.disturbed = TRUE] ELSE call[y]
  BY <1>5 DEF Agent!Write
<1>6. call' \in [Calls -> CallRecord]
  <2>1. ASSUME NEW y \in Calls PROVE call'[y] \in CallRecord
    <3>1. call[y] \in CallRecord /\ next \in CallSteps
      BY <1>2 DEF CallInv, CallTyped, CallSteps
    <3>2. [call[y] EXCEPT !.disturbed = TRUE] \in CallRecord /\ [call[y] EXCEPT !.step = next] \in CallRecord
      BY <3>1 DEF CallRecord
    <3> QED BY <1>4, <1>5, <3>1, <3>2
  <2> QED BY <2>1 DEF Agent!Write
<1>7. ASSUME NEW y \in Calls PROVE (FieldInv(y) /\ OutcomeInv(y))'
  <2>1. FieldInv(y) /\ OutcomeInv(y) /\ call[y] \in CallRecord
    BY DEF CallInv, CallTyped
  <2>2. CASE y = x
    BY <1>1, <1>2, <1>3, <1>4, <2>1, <2>2
       DEF FieldInv, OutcomeInv, Pending, HasRead, CallRecord, Agent!Fields
  <2>3. CASE y # x /\ call[y].step \in Agent!Building /\ call[y].got # call[x].got
    <3>1. /\ call'[y].disturbed = TRUE /\ call'[y].step = call[y].step /\ call'[y].outcomes = call[y].outcomes
          /\ call'[y].attempt = call[y].attempt /\ call'[y].with = call[y].with
      BY <1>5, <2>1, <2>3 DEF CallRecord
    <3> QED BY <2>1, <3>1 DEF FieldInv, OutcomeInv
  <2>4. CASE y # x /\ call[y].step \in Agent!Building /\ call[y].got = call[x].got
    <3>1. call'[y] = call[y]
      BY <1>5, <2>4
    <3> QED BY <1>1, <1>3, <2>1, <2>4, <3>1 DEF FieldInv, OutcomeInv
  <2>5. CASE y # x /\ call[y].step \notin Agent!Building
    <3>1. call'[y] = call[y] /\ \A g \in Agent!Fields : call[y].step \notin Pending(g)
      BY <1>5, <2>5 DEF Pending, Agent!Building, Agent!Writes, Agent!Fields
    <3> QED BY <2>1, <3>1 DEF FieldInv, OutcomeInv
  <2> QED BY <2>2, <2>3, <2>4, <2>5
<1>8. Agent!TypeOK'
  <2>1. /\ UNCHANGED <<agent, db, held, agentsCancelled, upsets>>
        /\ \A g \in Agent!Fields : shared'[g] \in {s[g] : s \in Settings} \cup {None, Default}
    BY <1>1, <1>3 DEF Agent!Write, Agent!env, CallInv, CallTyped, Agent!TypeOK
  <2> QED BY <1>6, <2>1 DEF CallInv, CallTyped, Agent!TypeOK, CallRecord, CallSteps
<1> QED BY <1>3, <1>6, <1>7, <1>8 DEF CallInv, CallTyped

\* A field is read as it is, or the call is disturbed.
LEMMA ReadsField ==
    ASSUME CallInv, NEW x \in Calls, NEW f \in Agent!Fields, NEW v \in Agent!ReadField(x, f)
    PROVE  v \in Values /\ (~Agent!Disturbed(x, f) => v = shared[f] /\ ~call[x].disturbed)
BY DEF Agent!ReadField, Agent!Disturbed, CallInv, CallTyped, Values, CallRecord

LEMMA ReadKeeps ==
    ASSUME CallInv, NEW x \in Calls, NEW f \in Agent!Fields, NEW v \in Agent!ReadField(x, f), NEW s,
           \/ call[x].step = "request" /\ f = "timeout" /\ s = "prepare"
           \/ call[x].step = "prepare" /\ f = "model" /\ s = "start" /\ ModelOf[x] = None
           \/ call[x].step = "start" /\ f = "key" /\ s = "run",
           Agent!Reads(x, f, v, s), UNCHANGED <<agent, db, shared, agentsCancelled, upsets>>, held' \subseteq Calls
    PROVE  CallInv'
<1> DEFINE r == [call[x] EXCEPT !.with[f] = v, !.step = s, !.disturbed = Agent!Disturbed(x, f)]
<1>1. call[x] \in CallRecord /\ v \in Values /\ (~Agent!Disturbed(x, f) => v = shared[f] /\ ~call[x].disturbed)
  BY ReadsField DEF CallInv, CallTyped
<1>2. r \in CallRecord
  BY <1>1 DEF CallRecord, CallSteps, Agent!Building, Agent!Disturbed
<1>3. call' = [call EXCEPT ![x] = r]
  BY DEF Agent!Reads, CallInv, CallTyped
<1>4. (FieldInv(x) /\ OutcomeInv(x))'
  <2>1. /\ call'[x].step = s /\ call'[x].disturbed = Agent!Disturbed(x, f) /\ call'[x].got = call[x].got
        /\ call'[x].outcomes = call[x].outcomes /\ call'[x].attempt = call[x].attempt
        /\ call'[x].with = [call[x].with EXCEPT ![f] = v]
    BY <1>1, <1>3 DEF CallInv, CallTyped, CallRecord
  <2>2. call'[x].with[f] = v /\ \A g \in Agent!Fields \ {f} : call'[x].with[g] = call[x].with[g]
    BY <1>1, <2>1 DEF CallRecord
  <2>3. OutcomeInv(x)'
    BY <2>1 DEF CallInv, OutcomeInv, Agent!Building
  <2>4. FieldInv(x)'
    BY <1>1, <2>1, <2>2 DEF CallInv, FieldInv, Pending, HasRead, Agent!Fields
  <2> QED BY <2>3, <2>4
<1> QED BY <1>2, <1>3, <1>4, OwnStep DEF CallInv, CallTyped, Agent!TypeOK

\* Loading undoes what disturbed the call before, or reads nothing.
LEMMA LoadKeeps ==
    ASSUME CallInv, NEW x \in Calls, Agent!Load(x)
    PROVE  CallInv'
<1>1. call[x] \in CallRecord /\ Agent!TypeOK
  BY DEF CallInv, CallTyped
<1>2. PICK r : /\ call' = [call EXCEPT ![x] = r]
               /\ \/ r = [call[x] EXCEPT !.got = db, !.step = "model", !.disturbed = FALSE]
                  \/ r = [call[x] EXCEPT !.got = Agent!Unset, !.step = "request"]
  BY DEF Agent!Load, CallInv, CallTyped
<1>3. r \in CallRecord
  BY <1>1, <1>2 DEF CallRecord, CallSteps, Agent!Building, Agent!Writes, Agent!Fields, Agent!TypeOK
<1>4. call'[x] = r
  BY <1>2 DEF CallInv, CallTyped
<1>5. /\ r.outcomes = call[x].outcomes /\ r.attempt = call[x].attempt /\ r.step \in Agent!Building
      /\ r.step = "model" \/ (r.step = "request" /\ r.got = Agent!Unset)
  BY <1>1, <1>2 DEF CallRecord, Agent!Building, Agent!Writes, Agent!Fields
<1>6. OutcomeInv(x)'
  <2>1. call[x].step \in Agent!Building
    BY DEF Agent!Load, Agent!At, Agent!Building
  <2> QED BY <1>4, <1>5, <2>1 DEF CallInv, OutcomeInv, Agent!Building, Agent!Writes, Agent!Fields
<1>7. FieldInv(x)'
  BY <1>4, <1>5 DEF FieldInv, Pending, HasRead, Agent!Unset, Agent!Fields
<1>8. UNCHANGED <<agent, db, shared, held, agentsCancelled>> /\ upsets' \in 0..MaxUpsets
  BY <1>1, CallsAssumption DEF Agent!Load, Agent!env, Agent!TypeOK
<1> QED BY <1>1, <1>2, <1>3, <1>6, <1>7, <1>8, OwnStep DEF Agent!TypeOK

\* The end of an attempt.
LEMMA EndKeeps ==
    ASSUME CallInv, NEW x \in Calls, NEW o \in {"ok", "final", "retryable"}, call[x].step \in {"start", "run"},
           call' = [call EXCEPT ![x] = Agent!Ended(x, o)],
           UNCHANGED <<agent, db, shared, held, agentsCancelled, upsets>>
    PROVE  CallInv'
<1> DEFINE r == Agent!Ended(x, o)
           out == call[x].outcomes
<1>1. call[x] \in CallRecord /\ Agent!TypeOK
  BY DEF CallInv, CallTyped
<1>2. r.step = IF o = "ok" THEN "ok" ELSE IF o = "retryable" /\ call[x].attempt < maxRepeats THEN "backoff" ELSE "failed"
  BY <1>1 DEF Agent!Ended, Agent!Repeat, CallRecord
<1>3. /\ r.outcomes = Append(out, o) /\ r.got = Agent!Unset /\ r.attempt = call[x].attempt
      /\ r.with = Agent!Unset /\ r.disturbed = FALSE
  BY <1>1 DEF Agent!Ended, CallRecord
<1>4. r \in CallRecord
  <2>1. Append(out, o) \in Seq({"ok", "final", "retryable"})
    BY <1>1 DEF CallRecord
  <2>2. Agent!Unset \in [Agent!Fields -> Values]
    BY DEF Agent!Unset, Values
  <2>3. r.step \in CallSteps
    BY <1>2 DEF CallSteps, Agent!Ends
  <2> QED BY <1>1, <1>3, <2>1, <2>2, <2>3 DEF CallRecord, Agent!Ended
<1>5. call'[x] = r
  BY DEF CallInv, CallTyped
<1>6. OutcomeInv(x)'
  <2>1. out \in Seq({"ok", "final", "retryable"}) /\ call[x].attempt \in 0..maxRepeats
    BY <1>1 DEF CallRecord
  <2>2. Len(out) = call[x].attempt /\ \A i \in DOMAIN out : out[i] = "retryable"
    BY DEF CallInv, OutcomeInv, Agent!Building
  <2>3. /\ Len(r.outcomes) = call[x].attempt + 1 /\ r.outcomes[Len(r.outcomes)] = o
        /\ \A i \in DOMAIN r.outcomes : i < Len(r.outcomes) => r.outcomes[i] = "retryable"
    BY <1>3, <2>1, <2>2
  <2>4. r.step = "backoff" => \A i \in DOMAIN r.outcomes : r.outcomes[i] = "retryable"
    <3>1. r.step = "backoff" => o = "retryable"
      BY <1>2
    <3>2. DOMAIN r.outcomes = 1..Len(r.outcomes)
      BY <1>3, <2>1
    <3> QED BY <2>3, <3>1, <3>2
  <2>5. r.step \in {"ok", "failed", "backoff"} /\ (r.step = "backoff" => call[x].attempt < maxRepeats)
        /\ (r.step \in {"ok", "failed"} /\ o = "retryable" => call[x].attempt = maxRepeats)
    BY <1>2, <2>1, CallsAssumption
  <2> QED BY <1>3, <1>5, <2>3, <2>4, <2>5 DEF OutcomeInv, Agent!Building, Agent!Writes, Agent!Fields
<1>7. FieldInv(x)'
  BY <1>2, <1>5 DEF FieldInv, Pending, HasRead
<1> QED BY <1>1, <1>4, <1>6, <1>7, OwnStep DEF Agent!TypeOK

LEMMA OutcomesAre ==
    ASSUME CallInv, NEW exit
    PROVE  Agent!Outcome(exit) \in {"ok", "final", "retryable"}
BY DEF CallInv, CallTyped, Agent!TypeOK, Agent!Agents, Agent!Outcome, Agent!CursorOutcome, Agent!GeminiOutcome,
   Agent!QoderOutcome

LEMMA CallStep == CallInv /\ [Agent!Next]_(Agent!vars) => CallInv'
<1> SUFFICES ASSUME CallInv, [Agent!Next]_(Agent!vars) PROVE CallInv'
  OBVIOUS
<1>1. ASSUME NEW x \in Calls, Agent!Begin(x) \/ Agent!Backoff(x) PROVE CallInv'
  <2>1. call[x] \in CallRecord /\ Agent!TypeOK /\ FieldInv(x) /\ OutcomeInv(x)
    BY DEF CallInv, CallTyped
  <2>2. PICK r : /\ call' = [call EXCEPT ![x] = r]
                 /\ \/ call[x].step = "new" /\ r = [call[x] EXCEPT !.step = "load"]
                    \/ call[x].step = "backoff" /\ r = [call[x] EXCEPT !.step = "cancelled"]
                    \/ call[x].step = "backoff" /\ r = [call[x] EXCEPT !.attempt = @ + 1, !.step = "load"]
    BY <1>1 DEF Agent!Begin, Agent!Backoff, Agent!At, Agent!Go, CallInv, CallTyped
  <2>3. /\ r.outcomes = call[x].outcomes /\ r.step \in {"load", "cancelled"}
        /\ call[x].attempt \in 0..maxRepeats
        /\ r.step = "cancelled" => call[x].step = "backoff" /\ r.attempt = call[x].attempt
        /\ r.step = "load" => \/ call[x].step = "new" /\ r.attempt = call[x].attempt
                              \/ call[x].step = "backoff" /\ r.attempt = call[x].attempt + 1
    BY <2>1, <2>2 DEF CallRecord
  <2>4. call[x].step = "backoff" => call[x].attempt < maxRepeats
    BY <2>1 DEF OutcomeInv
  <2>5. r \in CallRecord
    <3>1. {"load", "cancelled"} \subseteq CallSteps
      BY DEF CallSteps, Agent!Building, Agent!Ends
    <3>2. call[x].step = "backoff" => call[x].attempt + 1 \in 0..maxRepeats
      BY <2>3, <2>4, CallsAssumption
    <3> QED BY <2>1, <2>2, <3>1, <3>2 DEF CallRecord
  <2>6. call'[x] = r
    BY <2>2 DEF CallInv, CallTyped
  <2>7. OutcomeInv(x)'
    BY <2>1, <2>3, <2>6 DEF OutcomeInv, Agent!Building, Agent!Writes, Agent!Fields
  <2>8. FieldInv(x)'
    BY <2>3, <2>6 DEF FieldInv, Pending, HasRead
  <2>9. UNCHANGED <<agent, db, shared, held, agentsCancelled, upsets>>
    BY <1>1 DEF Agent!Begin, Agent!Backoff, Agent!env
  <2> QED BY <2>1, <2>2, <2>5, <2>7, <2>8, <2>9, OwnStep DEF Agent!TypeOK
<1>2. ASSUME NEW x \in Calls, Agent!Load(x) PROVE CallInv'
  BY <1>2, LoadKeeps
<1>3. ASSUME NEW x \in Calls, Agent!MakeRequest(x) PROVE CallInv'
  <2>1. PICK v \in Agent!ReadField(x, "timeout") : Agent!Reads(x, "timeout", v, "prepare")
    BY <1>3 DEF Agent!MakeRequest
  <2> QED BY <1>3, <2>1, ReadKeeps DEF Agent!MakeRequest, Agent!At, Agent!env, Agent!Fields, CallInv, CallTyped, Agent!TypeOK
<1>4. ASSUME NEW x \in Calls, Agent!PrepareRequest(x) PROVE CallInv'
  <2>1. CASE ModelOf[x] = None
    <3>1. PICK v \in Agent!ReadField(x, "model") : Agent!Reads(x, "model", v, "start")
      BY <1>4, <2>1 DEF Agent!PrepareRequest
    <3> QED BY <1>4, <2>1, <3>1, ReadKeeps DEF Agent!PrepareRequest, Agent!At, Agent!env, Agent!Fields, CallInv, CallTyped,
               Agent!TypeOK
  <2>2. CASE ModelOf[x] # None
    <3> DEFINE r == [call[x] EXCEPT !.with.model = ModelOf[x], !.step = "start"]
    <3>1. call[x] \in CallRecord /\ FieldInv(x) /\ OutcomeInv(x) /\ call[x].step = "prepare" /\ Agent!TypeOK
      BY <1>4 DEF CallInv, CallTyped, Agent!PrepareRequest, Agent!At
    <3>2. r \in CallRecord
      <4>1. "start" \in CallSteps /\ ModelOf[x] \in Values /\ "model" \in Agent!Fields
        BY DEF CallSteps, Agent!Building, Values, Agent!Fields
      <4>2. [call[x].with EXCEPT !["model"] = ModelOf[x]] \in [Agent!Fields -> Values]
        BY <3>1, <4>1 DEF CallRecord
      <4> QED BY <3>1, <4>1, <4>2 DEF CallRecord
    <3>3. call' = [call EXCEPT ![x] = r] /\ call'[x] = r
      BY <1>4, <2>2 DEF Agent!PrepareRequest, CallInv, CallTyped
    <3>4. /\ r.step = "start" /\ r.with["model"] = ModelOf[x] /\ r.got = call[x].got /\ r.disturbed = call[x].disturbed
          /\ r.outcomes = call[x].outcomes /\ r.attempt = call[x].attempt
          /\ \A g \in Agent!Fields \ {"model"} : r.with[g] = call[x].with[g]
      BY <3>1 DEF CallRecord, Agent!Fields
    <3>5. UNCHANGED <<agent, db, shared, held, agentsCancelled, upsets>>
      BY <1>4 DEF Agent!PrepareRequest, Agent!env
    <3>6. OutcomeInv(x)'
      BY <3>1, <3>3, <3>4 DEF OutcomeInv, Agent!Building
    <3>7. FieldInv(x)'
      BY <2>2, <3>1, <3>3, <3>4, <3>5 DEF FieldInv, Pending, HasRead, Agent!Fields
    <3> QED BY <3>1, <3>2, <3>3, <3>5, <3>6, <3>7, OwnStep DEF Agent!TypeOK
  <2> QED BY <2>1, <2>2
<1>5. ASSUME NEW x \in Calls, Agent!StartProcess(x) PROVE CallInv'
  <2>1. CASE call' = [call EXCEPT ![x] = Agent!Ended(x, "final")] /\ UNCHANGED held
    BY <1>5, <2>1, EndKeeps DEF Agent!StartProcess, Agent!At, Agent!env
  <2>2. CASE (\E v \in Agent!ReadField(x, "key") : Agent!Reads(x, "key", v, "run")) /\ held' \in {held, held \cup {x}}
    <3>1. PICK v \in Agent!ReadField(x, "key") : Agent!Reads(x, "key", v, "run")
      BY <2>2
    <3>2. held' \subseteq Calls
      BY <2>2 DEF CallInv, CallTyped, Agent!TypeOK
    <3> QED BY <1>5, <3>1, <3>2, ReadKeeps DEF Agent!StartProcess, Agent!At, Agent!env, Agent!Fields
  <2> QED BY <1>5, <2>1, <2>2 DEF Agent!StartProcess
<1>6. ASSUME NEW x \in Calls, Agent!Wait(x) PROVE CallInv'
  BY <1>6, EndKeeps, OutcomesAre DEF Agent!Wait, Agent!At, Agent!env
<1>7. ASSUME NEW x \in Calls, NEW f \in Agent!Fields, Agent!Write(x, f) PROVE CallInv'
  BY <1>7, WriteKeeps
<1>8. CASE (\E x \in Calls : Agent!Release(x)) \/ Agent!ChangeSettings \/ Agent!Cancel \/ UNCHANGED Agent!vars
  <2> DEFINE Kept == /\ UNCHANGED <<agent, shared, call>> /\ db' \in Settings /\ held' \subseteq Calls
                     /\ agentsCancelled' \in BOOLEAN /\ upsets' \in 0..MaxUpsets
  <2>0. Agent!TypeOK
    BY DEF CallInv, CallTyped
  <2>1. ASSUME NEW x \in Calls, Agent!Release(x) PROVE Kept
    BY <2>0, <2>1 DEF Agent!Release, Agent!env, Agent!TypeOK
  <2>2. ASSUME Agent!ChangeSettings PROVE Kept
    <3>1. upsets' \in 0..MaxUpsets
      BY <2>0, <2>2, CallsAssumption DEF Agent!ChangeSettings, Agent!TypeOK
    <3> QED BY <2>0, <2>2, <3>1 DEF Agent!ChangeSettings, Agent!TypeOK
  <2>3. ASSUME Agent!Cancel PROVE Kept
    BY <2>0, <2>3 DEF Agent!Cancel, Agent!TypeOK
  <2>4. ASSUME UNCHANGED Agent!vars PROVE Kept
    BY <2>0, <2>4 DEF Agent!vars, Agent!TypeOK
  <2>5. Kept
    BY <1>8, <2>1, <2>2, <2>3, <2>4
  <2> QED BY <2>5 DEF CallInv, CallTyped, Agent!TypeOK, FieldInv, OutcomeInv
<1> QED BY <1>1, <1>2, <1>3, <1>4, <1>5, <1>6, <1>7, <1>8 DEF Agent!Next, Agent!Execute

LEMMA DeliveryCalls == DeliverySpec => Agent!Init /\ [][Agent!Next]_(Agent!vars)
<1>1. DeliveryInit => Agent!Init
  BY DEF DeliveryInit
<1>2. [DeliveryNext]_allVars => [Agent!Next]_(Agent!vars)
  BY DEF DeliveryNext, allVars, callVars, Agent!vars
<1> QED BY <1>1, <1>2, PTL DEF DeliverySpec

\* A call that no call with other settings disturbs runs with what it has read
\* of them and with the model of its rule; it is not repeated after an answer,
\* a timeout or a rejected login, and is given up only after maxRetries
\* repetitions otherwise (agent/cursor/cursor.go, executor.go).
THEOREM CallsAreAsMeant == DeliverySpec => []CallsAsMeant
<1>1. CallInv => CallsAsMeant
  <2> SUFFICES ASSUME CallInv, NEW x \in Calls
               PROVE  /\ (call[x].step = "run" =>
                             /\ ModelOf[x] # None => call[x].with.model = ModelOf[x]
                             /\ ~call[x].disturbed =>
                                   \A f \in Agent!Fields :
                                      (call[x].got[f] # None /\ (f = "model" => ModelOf[x] = None)) =>
                                          call[x].with[f] = call[x].got[f])
                      /\ LET out == call[x].outcomes IN
                         /\ \A i \in DOMAIN out : i < Len(out) => out[i] = "retryable"
                         /\ Len(out) <= maxRepeats + 1
                         /\ (call[x].step = "failed" /\ out # <<>> /\ out[Len(out)] = "retryable" /\ ~agentsCancelled) =>
                               call[x].attempt = maxRepeats
    BY DEF CallsAsMeant, Agent!SettingsReachCall, Agent!RepeatedWhenUseful, Agent!At
  <2>1. FieldInv(x) /\ OutcomeInv(x) /\ call[x] \in CallRecord
    BY DEF CallInv, CallTyped
  <2>2. call[x].step \in CallSteps /\ call[x].attempt \in 0..maxRepeats
    BY <2>1 DEF CallRecord
  <2>3. Len(call[x].outcomes) <= maxRepeats + 1
    BY <2>1, <2>2, CallsAssumption DEF OutcomeInv, CallSteps, Agent!Ends
  <2> QED BY <2>1, <2>3 DEF FieldInv, OutcomeInv, HasRead
<1> QED BY <1>1, CallInit, CallStep, DeliveryCalls, PTL

-----------------------------------------------------------------------------
(* Comments *)

CommentRecord == [marker : Markers \cup {Foreign}, from : Pubs \cup {Foreign}, gone : BOOLEAN]
PubRecord == [at : Nat, step : Steps, attempt : Nat, found : SUBSET Nat, alone : BOOLEAN, clean : BOOLEAN]
CommentTyped ==
    /\ service \in Services /\ plan \in Plans
    /\ comments \in Seq(CommentRecord) /\ begun \in Seq(Pubs)
    /\ pub \in [Pubs -> PubRecord]
    /\ \A p \in Pubs : pub[p].step = "new" => pub[p].at = 0 /\ pub[p].alone

\* What a publication has found are comments of its rule, and some, as long as
\* it works on them.
FoundInv(p) ==
    /\ \A i \in pub[p].found : i \in DOMAIN comments /\ comments[i].marker = markerOf[p]
    /\ (~crashed /\ pub[p].step \in {"update", "delete"}) => pub[p].found # {}

\* The comment of a marker that is listed before all others of it is there:
\* the one that is updated, never one that is deleted.
Ahead(i, j) == IF service = "gitlab" THEN i >= j ELSE i <= j
Keeper(m) ==
    \E k \in DOMAIN comments : /\ comments[k].marker = m /\ ~comments[k].gone
                               /\ \A j \in DOMAIN comments : comments[j].marker = m => Ahead(k, j)
KeepInv == \A i \in DOMAIN comments : comments[i].marker # Foreign => Keeper(comments[i].marker)

\* While none has had another one beside it, one publication is under way at
\* most; it posts where there is no comment.
AllAlone == \A p \in Pubs : pub[p].alone
SoleInv == AllAlone => \A p, q \in Active : p = q
DupInv ==
    (AllAlone /\ Len(comments) <= PageSize) =>
        /\ \A m \in Markers : \A i, j \in Shown(m) : i = j
        /\ \A p \in Pubs : (~crashed /\ pub[p].step = "post") => Shown(markerOf[p]) = {}

\* A publication that has been alone since it began, the last one, knows all
\* comments of its rule until it has made them one.
Lone(p) == pub[p].alone /\ Last(begun) = p
LoneInv(p) == Lone(p) => Active \subseteq {p}
FreshInv(p) ==
    (markerOf[p] # NoPR /\ Lone(p) /\ pub[p].clean /\ Len(comments) <= PageSize) =>
        /\ ~crashed =>
              /\ pub[p].step \in {"update", "delete"} => pub[p].found = Shown(markerOf[p])
              /\ pub[p].step = "delete" => comments[FirstOf(pub[p].found)].from = p
              /\ pub[p].step = "post" => Shown(markerOf[p]) = {}
        /\ Served(p, "comment") => \E i \in DOMAIN comments : Shown(markerOf[p]) = {i} /\ comments[i].from = p

CommentInv ==
    /\ CommentTyped /\ KeepInv /\ SoleInv /\ DupInv
    /\ \A p \in Pubs : FoundInv(p) /\ LoneInv(p) /\ FreshInv(p)

-----------------------------------------------------------------------------
LEMMA MinIs ==
    ASSUME NEW S \in SUBSET Nat, S # {}
    PROVE  Min(S) \in S /\ \A y \in S : Min(S) <= y
<1> DEFINE R == {ss \in Nat \X Nat : ss[1] < ss[2]}
<1>1. IsWellFoundedOn(R, Nat)
  BY NatLessThanWellFounded DEF OpToRel
<1>2. \A x, y \in Nat : <<x, y>> \in R <=> x < y
  OBVIOUS
<1> HIDE DEF R
<1>3. PICK x \in S : \A y \in S : ~(<<y, x>> \in R)
  BY <1>1, WFMin
<1>4. \A y \in S : x <= y
  <2> SUFFICES ASSUME NEW y \in S PROVE x <= y
    OBVIOUS
  <2>1. x \in Nat /\ y \in Nat
    OBVIOUS
  <2>2. <<y, x>> \in R <=> y < x
    BY <1>2, <2>1
  <2>3. ~(y < x)
    BY <1>3, <2>2
  <2> QED
    BY <2>1, <2>3
<1> QED
  BY <1>3, <1>4 DEF Min

LEMMA MaxIs ==
    ASSUME NEW n \in Nat, NEW S \in SUBSET (0..n), S # {}
    PROVE  Max(S) \in S /\ \A y \in S : y <= Max(S)
<1> DEFINE T == {n - x : x \in S}
<1>1. T \in SUBSET Nat /\ T # {}
  <2>1. \A x \in S : n - x \in Nat
    OBVIOUS
  <2> QED
    BY <2>1
<1>2. Min(T) \in T /\ \A y \in T : Min(T) <= y
  BY <1>1, MinIs
<1>3. PICK x \in S : Min(T) = n - x
  BY <1>2
<1>4. \A y \in S : n - x <= n - y
  BY <1>2, <1>3
<1>5. \A y \in S : x >= y
  BY <1>4
<1> QED
  BY <1>3, <1>5 DEF Max

\* The first of what was found is ahead of the others.
LEMMA FirstIs ==
    ASSUME CommentTyped, NEW S \in SUBSET (DOMAIN comments), S # {}
    PROVE  FirstOf(S) \in S /\ \A j \in S : Ahead(FirstOf(S), j)
<1>1. Len(comments) \in Nat /\ S \in SUBSET Nat /\ S \in SUBSET (0..Len(comments))
  BY DEF CommentTyped
<1> QED BY <1>1, MinIs, MaxIs DEF FirstOf, Ahead

\* On a page that holds them all, all comments are listed.
LEMMA PageIs ==
    ASSUME CommentTyped
    PROVE  /\ Listed \subseteq Present
           /\ Len(comments) <= PageSize => Listed = Present /\ Newest = Present
<1>1. Oldest \subseteq Present /\ Newest \subseteq Present
  BY DEF Oldest, Newest
<1>2. Listed = IF service = "gitlab" THEN Newest ELSE Oldest
  BY DeliveryAssumption DEF CommentTyped, Listed, ListOnGitHub, ListOnGitLab, ListOnGitea
<1>3. ASSUME Len(comments) <= PageSize, NEW i \in Present, NEW S \in SUBSET Present, i \notin S
      PROVE  Cardinality(S) < PageSize
  <2>1. PICK n \in Nat : n = Len(comments) /\ i \in 1..n /\ S \subseteq (1..n) \ {i}
    BY <1>3 DEF Present, CommentTyped
  <2>2. IsFiniteSet(1..n) /\ Cardinality(1..n) = n
    <3>1. 1 \in Int /\ n \in Int /\ ~(1 > n) /\ n - 1 + 1 = n
      BY <2>1
    <3>2. IsFiniteSet(1..n) /\ Cardinality(1..n) = IF 1 > n THEN 0 ELSE n - 1 + 1
      BY <3>1, FS_Interval, Zenon
    <3> QED BY <3>1, <3>2
  <2>3. IsFiniteSet((1..n) \ {i}) /\ Cardinality((1..n) \ {i}) = n - 1
    BY <2>1, <2>2, FS_RemoveElement
  <2>4. IsFiniteSet(S) /\ Cardinality(S) <= n - 1
    <3>1. S \in SUBSET ((1..n) \ {i})
      BY <2>1
    <3>2. IsFiniteSet(S) /\ Cardinality(S) <= Cardinality((1..n) \ {i})
      BY <2>3, <3>1, FS_Subset, Zenon
    <3> QED BY <2>3, <3>2
  <2>5. Cardinality(S) \in Nat
    BY <2>4, FS_CardinalityType
  <2> QED BY <1>3, <2>1, <2>4, <2>5, DeliveryAssumption
<1>4. ASSUME Len(comments) <= PageSize PROVE Oldest = Present /\ Newest = Present
  <2>1. ASSUME NEW i \in Present
        PROVE  Cardinality({j \in Present : j < i}) < PageSize /\ Cardinality({j \in Present : j > i}) < PageSize
    <3>1. i \in Nat
      BY DEF Present, CommentTyped
    <3>2. i \notin {j \in Present : j < i} /\ i \notin {j \in Present : j > i}
      BY <3>1
    <3> QED BY <1>3, <1>4, <3>2
  <2> QED BY <2>1 DEF Oldest, Newest
<1> QED BY <1>1, <1>2, <1>4

LEMMA MatchingIs ==
    ASSUME CommentTyped, NEW m
    PROVE  /\ Matching(m) \subseteq Shown(m)
           /\ Len(comments) <= PageSize => Matching(m) = Shown(m)
BY PageIs DEF Matching, Shown, Present

LEMMA PlansAre ==
    ASSUME CommentTyped, NEW p \in Pubs
    PROVE  /\ Channels[p] \in Seq({"comment", "webhook", "file"}) /\ DOMAIN Channels[p] = 1..Len(Channels[p])
           /\ Len(Channels[p]) \in Nat /\ markerOf[p] # Foreign /\ markerOf[p] \in Markers
<1>1. Channels[p] \in Seq({"comment", "webhook", "file"}) /\ markerOf[p] # Foreign
  BY DeliveryAssumption DEF CommentTyped, Channels, markerOf
<1> QED BY <1>1 DEF CommentTyped, markerOf, Markers

-----------------------------------------------------------------------------
\* A step of a publication that is under way, which leaves the others alone.
Own(p) ==
    /\ pub[p].step \notin {"new", "done"} /\ pub'[p].step # "new"
    /\ pub' \in [Pubs -> PubRecord] /\ pub'[p].alone = pub[p].alone
    /\ \A q \in Pubs \ {p} : pub'[q] = pub[q]
    /\ UNCHANGED <<service, plan, begun, crashed>>

\* The comments that were there stay, with their markers.
Growing ==
    /\ comments' \in Seq(CommentRecord) /\ DOMAIN comments \subseteq DOMAIN comments' /\ Len(comments) <= Len(comments')
    /\ \A i \in DOMAIN comments : comments'[i].marker = comments[i].marker

LEMMA OwnKeeps ==
    ASSUME CommentInv, NEW p \in Pubs, Own(p), Growing, FoundInv(p)', KeepInv', FreshInv(p)',
           (AllAlone /\ Len(comments') <= PageSize) =>
               /\ \A m \in Markers : \A i, j \in Shown(m)' : i = j
               /\ (~crashed /\ pub'[p].step = "post") => Shown(markerOf[p])' = {}
    PROVE  CommentInv'
<1>1. CommentTyped /\ p \in Active /\ Active' \subseteq Active
  BY DEF CommentInv, Own, Active
<1>2. CommentTyped'
  BY <1>1 DEF CommentTyped, Own, Growing
<1>3. AllAlone' = AllAlone
  BY <1>1 DEF CommentTyped, Own, AllAlone
<1>4. SoleInv'
  BY <1>1, <1>3 DEF CommentInv, SoleInv
<1>5. ASSUME NEW q \in Pubs \ {p} PROVE FoundInv(q)' /\ LoneInv(q)' /\ FreshInv(q)'
  <2>1. pub'[q] = pub[q] /\ Lone(q)' = Lone(q)
    BY DEF Own, Lone
  <2>2. FoundInv(q)'
    BY <2>1 DEF CommentInv, FoundInv, Growing, Own, markerOf
  <2>3. ~Lone(q)
    BY <1>1 DEF CommentInv, LoneInv
  <2> QED BY <2>1, <2>2, <2>3 DEF LoneInv, FreshInv
<1>6. LoneInv(p)'
  <2>1. Lone(p)' = Lone(p)
    BY DEF Own, Lone
  <2> QED BY <1>1, <2>1 DEF CommentInv, LoneInv
<1>7. DupInv'
  <2> SUFFICES ASSUME AllAlone, Len(comments') <= PageSize, NEW q \in Pubs \ {p}, ~crashed, pub'[q].step = "post"
               PROVE  FALSE
    BY <1>3 DEF DupInv, Own
  <2>1. q \in Active
    BY DEF Own, Active
  <2> QED BY <1>1, <2>1 DEF CommentInv, SoleInv
<1> QED BY <1>2, <1>4, <1>5, <1>6, <1>7 DEF CommentInv

\* A step that leaves the comments alone, too, and is not the beginning of one
\* that changes them.
LEMMA AsideKeeps ==
    ASSUME CommentInv, NEW p \in Pubs, Own(p), UNCHANGED comments, pub'[p].found = pub[p].found,
           pub'[p].step \notin {"update", "delete", "post"},
           (markerOf[p] # NoPR /\ Lone(p) /\ pub'[p].clean /\ Len(comments) <= PageSize) =>
               /\ pub[p].clean
               /\ Served(p, "comment")' =>
                     \/ Served(p, "comment")
                     \/ \E i \in DOMAIN comments : Shown(markerOf[p]) = {i} /\ comments[i].from = p
    PROVE  CommentInv'
<1>1. CommentTyped /\ markerOf' = markerOf /\ \A m : Shown(m)' = Shown(m)
  BY DEF CommentInv, Own, markerOf, Shown
<1>2. Growing
  BY <1>1 DEF CommentTyped, Growing
<1>3. FoundInv(p)'
  BY <1>1 DEF CommentInv, FoundInv
<1>4. KeepInv'
  BY DEF CommentInv, KeepInv, Keeper, Ahead, Own
<1>5. Lone(p)' = Lone(p)
  BY DEF Own, Lone
<1>6. FreshInv(p)'
  BY <1>1, <1>5 DEF CommentInv, FreshInv
<1>7. (AllAlone /\ Len(comments) <= PageSize) => \A m \in Markers : \A i, j \in Shown(m) : i = j
  BY DEF CommentInv, DupInv
<1> QED BY <1>1, <1>2, <1>3, <1>4, <1>6, <1>7, OwnKeeps

\* A comment that is replaced, in place.
LEMMA ReplacedIs ==
    ASSUME NEW s \in Seq(CommentRecord), NEW i \in DOMAIN s, NEW r \in CommentRecord
    PROVE  LET t == [s EXCEPT ![i] = r] IN
           /\ t \in Seq(CommentRecord) /\ DOMAIN t = DOMAIN s /\ Len(t) = Len(s) /\ t[i] = r
           /\ \A j \in DOMAIN s : j # i => t[j] = s[j]
OBVIOUS

LEMMA MovedPub ==
    ASSUME CommentTyped, NEW p \in Pubs
    PROVE  /\ Moved(p) \in [Pubs -> PubRecord]
           /\ Moved(p)[p].at = pub[p].at + 1 /\ Moved(p)[p].step \in {"done", "begin"} /\ Moved(p)[p].found = pub[p].found
           /\ Moved(p)[p].alone = pub[p].alone /\ Moved(p)[p].clean = pub[p].clean
           /\ \A q \in Pubs \ {p} : Moved(p)[q] = pub[q]
<1>1. NextStep(p, pub[p].at + 1) \in {"done", "begin"} /\ pub \in Shape(SUBSET Nat) /\ [Pubs -> PubRecord] = Shape(SUBSET Nat)
  BY DEF NextStep, CommentTyped, PubRecord, Shape
<1>2. /\ Moved(p)[p].found = pub[p].found /\ Moved(p)[p].alone = pub[p].alone
      /\ Moved(p)[p].clean = pub[p].clean
  <2>1. pub[p] \in PubRecord /\ DOMAIN pub = Pubs
    BY DEF CommentTyped
  <2>2. Moved(p)[p] = [[[pub[p] EXCEPT !.at = @ + 1] EXCEPT !.step = NextStep(p, pub[p].at + 1)] EXCEPT !.attempt = 0]
    BY <2>1 DEF Moved
  <2> QED BY <2>1, <2>2 DEF PubRecord
<1> QED BY <1>1, <1>2, MovedTyped

\* To the next channel: what has been served is what was served before, and
\* the channel it comes from.
LEMMA MovedIs ==
    ASSUME CommentTyped, NEW p \in Pubs, pub[p].step \notin {"new", "done"}, UNCHANGED <<service, plan, begun, crashed>>,
           pub' = Moved(p) \/ pub' = [Moved(p) EXCEPT ![p].clean = FALSE]
    PROVE  /\ Own(p) /\ pub'[p].found = pub[p].found /\ pub'[p].step \in {"done", "begin"}
           /\ pub'[p].clean \in {pub[p].clean, FALSE} /\ (pub' = Moved(p) => pub'[p].clean = pub[p].clean)
           /\ Served(p, "comment")' => Served(p, "comment") \/ Channels[p][pub[p].at] = "comment"
<1>1. pub[p] \in PubRecord /\ pub[p].at \in Nat
  BY DEF CommentTyped, PubRecord
<1>2. Moved(p) \in [Pubs -> PubRecord]
  BY MovedPub
<1>3. /\ Moved(p)[p].at = pub[p].at + 1 /\ Moved(p)[p].step \in {"done", "begin"} /\ Moved(p)[p].found = pub[p].found
      /\ Moved(p)[p].alone = pub[p].alone /\ Moved(p)[p].clean = pub[p].clean
      /\ \A q \in Pubs \ {p} : Moved(p)[q] = pub[q]
  BY MovedPub
<1>4. /\ pub' \in [Pubs -> PubRecord] /\ pub'[p].at = pub[p].at + 1 /\ pub'[p].step \in {"done", "begin"}
      /\ pub'[p].found = pub[p].found /\ pub'[p].alone = pub[p].alone /\ pub'[p].clean \in {pub[p].clean, FALSE}
      /\ \A q \in Pubs \ {p} : pub'[q] = pub[q]
  BY <1>2, <1>3 DEF PubRecord
<1>5. Channels' = Channels
  BY DEF Channels
<1>6. Served(p, "comment")' => Served(p, "comment") \/ Channels[p][pub[p].at] = "comment"
  <2> SUFFICES ASSUME NEW k \in DOMAIN Channels[p], Channels[p][k] = "comment", pub'[p].at > k
               PROVE  pub[p].at > k \/ k = pub[p].at
    BY <1>5 DEF Served
  <2> QED BY <1>1, <1>4, PlansAre
<1> QED BY <1>3, <1>4, <1>6 DEF Own

LEMMA OthersServed ==
    ASSUME CommentInv, NEW p \in Pubs,
           SkipComment(p) \/ Start(p) \/ SendRequest(p) \/ Backoff(p) \/ GiveUp(p) \/ WriteFile(p)
    PROVE  CommentInv'
<1>1. CommentTyped /\ pub[p] \in PubRecord /\ UNCHANGED <<service, plan, comments, begun, crashed>>
  BY DEF CommentInv, CommentTyped, SkipComment, Start, SendRequest, Backoff, GiveUp, WriteFile, otherVars, webVars
<1>2. /\ pub[p].step \in {"begin", "send", "backoff"}
      /\ Channels[p][pub[p].at] = "comment" => markerOf[p] = NoPR
  BY DEF SkipComment, Start, SendRequest, Backoff, GiveUp, WriteFile, At
<1>3. CASE NextChannel(p) \/ ChannelFails(p)
  <2>1. pub' = Moved(p) \/ pub' = [Moved(p) EXCEPT ![p].clean = FALSE]
    BY <1>3 DEF NextChannel, ChannelFails
  <2> QED BY <1>1, <1>2, <2>1, MovedIs, AsideKeeps
<1>4. CASE \E s \in {"send", "backoff"}, n \in Nat : pub' = [pub EXCEPT ![p].attempt = n, ![p].step = s]
  <2>1. PICK s \in {"send", "backoff"}, n \in Nat : pub' = [pub EXCEPT ![p].attempt = n, ![p].step = s]
    BY <1>4
  <2>2. /\ pub' \in [Pubs -> PubRecord] /\ pub'[p].step = s /\ pub'[p].found = pub[p].found /\ pub'[p].alone = pub[p].alone
        /\ pub'[p].clean = pub[p].clean /\ pub'[p].at = pub[p].at /\ \A q \in Pubs \ {p} : pub'[q] = pub[q]
    BY <1>1, <2>1 DEF CommentTyped, PubRecord, Steps
  <2>3. Own(p)
    BY <1>1, <1>2, <2>2 DEF Own
  <2>4. Served(p, "comment")' = Served(p, "comment")
    BY <1>1, <2>2 DEF Served, Channels
  <2> QED BY <1>1, <2>2, <2>3, <2>4, AsideKeeps
<1>5. ASSUME NEW s \in {"send", "backoff"}, Step(p, s)
      PROVE  \E n \in Nat : pub' = [pub EXCEPT ![p].attempt = n, ![p].step = s]
  <2>1. pub[p].attempt \in Nat /\ pub' = [pub EXCEPT ![p].attempt = pub[p].attempt, ![p].step = s]
    BY <1>1, <1>5 DEF Step, CommentTyped, PubRecord
  <2> QED BY <2>1
<1>6. pub[p].attempt + 1 \in Nat
  BY <1>1 DEF PubRecord
<1> QED BY <1>3, <1>4, <1>5, <1>6 DEF SkipComment, Start, SendRequest, Backoff, GiveUp, WriteFile

\* A call that fails leaves the comments alone.
LEMMA FailureKeeps ==
    ASSUME CommentInv, NEW p \in Pubs, pub[p].step \notin {"new", "done"}, ChannelFails(p), UNCHANGED <<comments, otherVars>>
    PROVE  CommentInv'
<1>1. CommentTyped /\ pub' = [Moved(p) EXCEPT ![p].clean = FALSE] /\ UNCHANGED <<service, plan, begun, crashed>>
  BY DEF CommentInv, ChannelFails, otherVars
<1>2. pub'[p].clean = FALSE
  <2>1. Moved(p) \in [Pubs -> PubRecord]
    BY <1>1, MovedPub
  <2> QED BY <1>1, <2>1 DEF PubRecord
<1> QED BY <1>1, <1>2, MovedIs, AsideKeeps

LEMMA ListKeeps ==
    ASSUME CommentInv, NEW p \in Pubs, ListComments(p)
    PROVE  CommentInv'
<1>1. CommentTyped /\ pub[p] \in PubRecord /\ UNCHANGED <<service, plan, comments, begun, crashed>> /\ pub[p].step = "begin"
      /\ markerOf' = markerOf /\ (\A m : Shown(m)' = Shown(m)) /\ ~crashed
  BY DEF CommentInv, CommentTyped, ListComments, otherVars, At, Shown, markerOf
<1>2. CASE ChannelFails(p)
  BY <1>1, <1>2, FailureKeeps DEF ListComments
<1>3. ASSUME NEW found, found = Matching(markerOf[p]),
             pub' = [pub EXCEPT ![p].found = found, ![p].step = IF found = {} THEN "post" ELSE "update"]
      PROVE  CommentInv'
  <2>1. found \subseteq Shown(markerOf[p]) /\ (Len(comments) <= PageSize => found = Shown(markerOf[p]))
    BY <1>1, <1>3, MatchingIs
  <2>2. found \subseteq Nat /\ \A i \in found : i \in DOMAIN comments /\ comments[i].marker = markerOf[p]
    BY <1>1, <2>1 DEF Shown, CommentTyped
  <2>3. /\ pub' \in [Pubs -> PubRecord] /\ pub'[p].step = (IF found = {} THEN "post" ELSE "update") /\ pub'[p].found = found
        /\ pub'[p].alone = pub[p].alone /\ pub'[p].clean = pub[p].clean /\ pub'[p].at = pub[p].at
        /\ \A q \in Pubs \ {p} : pub'[q] = pub[q]
    BY <1>1, <1>3, <2>2 DEF CommentTyped, PubRecord, Steps
  <2>4. Own(p) /\ Growing /\ Lone(p)' = Lone(p)
    BY <1>1, <2>3 DEF Own, Growing, Lone, CommentTyped
  <2>5. FoundInv(p)'
    BY <1>1, <2>2, <2>3 DEF FoundInv
  <2>6. KeepInv'
    BY <1>1 DEF CommentInv, KeepInv, Keeper, Ahead
  <2>7. Served(p, "comment")' = Served(p, "comment")
    BY <1>1, <2>3 DEF Served, Channels
  <2>8. FreshInv(p)'
    BY <1>1, <2>1, <2>3, <2>4, <2>7 DEF CommentInv, FreshInv
  <2>9. (AllAlone /\ Len(comments) <= PageSize) =>
            /\ \A m \in Markers : \A i, j \in Shown(m) : i = j
            /\ pub'[p].step = "post" => Shown(markerOf[p]) = {}
    BY <2>1, <2>3 DEF CommentInv, DupInv
  <2> QED BY <1>1, <2>4, <2>5, <2>6, <2>8, <2>9, OwnKeeps
<1> QED BY <1>2, <1>3 DEF ListComments

\* The first of what was found is updated, in place.
LEMMA UpdateKeeps ==
    ASSUME CommentInv, NEW p \in Pubs, UpdateComment(p)
    PROVE  CommentInv'
<1> DEFINE i == FirstOf(pub[p].found)
<1>1. CommentTyped /\ pub[p] \in PubRecord /\ UNCHANGED <<service, plan, begun, crashed>> /\ pub[p].step = "update"
      /\ markerOf' = markerOf /\ ~crashed /\ pub[p].found # {} /\ Channels[p][pub[p].at] = "comment"
  BY DEF CommentInv, CommentTyped, UpdateComment, otherVars, At, markerOf, FoundInv
<1>2. i \in pub[p].found /\ i \in DOMAIN comments /\ comments[i].marker = markerOf[p]
  <2>1. pub[p].found \in SUBSET (DOMAIN comments)
    BY DEF CommentInv, FoundInv
  <2> QED BY <1>1, <2>1, FirstIs DEF CommentInv, FoundInv
<1>3. CASE ChannelFails(p) /\ UNCHANGED comments
  BY <1>1, <1>3, FailureKeeps DEF UpdateComment
<1>4. CASE comments[i].gone /\ NextChannel(p) /\ UNCHANGED comments
  <2>1. ~(markerOf[p] # NoPR /\ Lone(p) /\ pub[p].clean /\ Len(comments) <= PageSize)
    BY <1>1, <1>2, <1>4 DEF CommentInv, FreshInv, Shown
  <2> QED BY <1>1, <1>4, <2>1, MovedIs, AsideKeeps DEF NextChannel
<1>5. CASE ~comments[i].gone /\ comments' = Updated(i, p) /\ Step(p, "delete")
  <2>1. /\ comments' \in Seq(CommentRecord) /\ DOMAIN comments' = DOMAIN comments /\ Len(comments') = Len(comments)
        /\ comments'[i].from = p
        /\ \A j \in DOMAIN comments : /\ comments'[j].marker = comments[j].marker /\ comments'[j].gone = comments[j].gone
                                      /\ j # i => comments'[j] = comments[j]
    <3> DEFINE r == [comments[i] EXCEPT !.from = p]
    <3>1. r \in CommentRecord /\ r.from = p /\ r.marker = comments[i].marker /\ r.gone = comments[i].gone
      <4>1. comments[i] \in CommentRecord
        BY <1>1, <1>2 DEF CommentTyped
      <4> QED BY <4>1 DEF CommentRecord
    <3>2. comments' = [comments EXCEPT ![i] = r]
      BY <1>5 DEF Updated
    <3> HIDE DEF r, i
    <3> QED BY <1>1, <1>2, <3>1, <3>2, ReplacedIs DEF CommentTyped
  <2>2. /\ pub' \in [Pubs -> PubRecord] /\ pub'[p].step = "delete" /\ pub'[p].found = pub[p].found
        /\ pub'[p].alone = pub[p].alone /\ pub'[p].clean = pub[p].clean /\ pub'[p].at = pub[p].at
        /\ \A q \in Pubs \ {p} : pub'[q] = pub[q]
    BY <1>1, <1>5 DEF Step, CommentTyped, PubRecord, Steps
  <2>3. Own(p) /\ Growing /\ Lone(p)' = Lone(p)
    BY <1>1, <2>1, <2>2 DEF Own, Growing, Lone
  <2>4. \A m : Shown(m)' = Shown(m)
    BY <2>1 DEF Shown
  <2>5. FoundInv(p)'
    BY <1>1, <2>1, <2>2 DEF CommentInv, FoundInv
  <2>6. KeepInv'
    BY <1>1, <2>1 DEF CommentInv, KeepInv, Keeper, Ahead
  <2>7. Served(p, "comment")' = Served(p, "comment") /\ FirstOf(pub[p].found)' = i
    BY <1>1, <2>2 DEF Served, Channels, FirstOf
  <2>8. FreshInv(p)'
    <3> SUFFICES ASSUME markerOf[p] # NoPR, Lone(p), pub[p].clean, Len(comments) <= PageSize
                 PROVE  /\ pub'[p].found = Shown(markerOf[p]) /\ comments'[i].from = p
                        /\ Served(p, "comment") => \E k \in DOMAIN comments' : Shown(markerOf[p]) = {k} /\ comments'[k].from = p
      BY <1>1, <2>1, <2>2, <2>3, <2>4, <2>7 DEF FreshInv, Served
    <3>1. pub[p].found = Shown(markerOf[p]) /\ (Served(p, "comment") => \E k \in DOMAIN comments : Shown(markerOf[p]) = {k})
      BY <1>1 DEF CommentInv, FreshInv
    <3>2. Served(p, "comment") => Shown(markerOf[p]) = {i}
      BY <1>2, <3>1
    <3> QED BY <1>2, <2>1, <2>2, <3>1, <3>2
  <2>9. (AllAlone /\ Len(comments') <= PageSize) => \A m \in Markers : \A k, j \in Shown(m)' : k = j
    BY <2>1, <2>4 DEF CommentInv, DupInv
  <2> QED BY <2>2, <2>3, <2>5, <2>6, <2>8, <2>9, OwnKeeps
<1> QED BY <1>3, <1>4, <1>5 DEF UpdateComment

\* One of the others is deleted, unless GitLab does not find it.
LEMMA DeleteKeeps ==
    ASSUME CommentInv, NEW p \in Pubs, DeleteDuplicates(p)
    PROVE  CommentInv'
<1> DEFINE h == FirstOf(pub[p].found)
           others == pub[p].found \ {h}
           i == FirstOf(others)
<1>1. CommentTyped /\ pub[p] \in PubRecord /\ UNCHANGED <<service, plan, begun, crashed>> /\ pub[p].step = "delete"
      /\ markerOf' = markerOf /\ ~crashed /\ pub[p].found # {} /\ Channels[p][pub[p].at] = "comment"
  BY DEF CommentInv, CommentTyped, DeleteDuplicates, otherVars, At, markerOf, FoundInv
<1>2. /\ pub[p].found \in SUBSET (DOMAIN comments) /\ \A j \in pub[p].found : comments[j].marker = markerOf[p]
      /\ h \in pub[p].found /\ \A j \in pub[p].found : Ahead(h, j)
  <2>1. pub[p].found \in SUBSET (DOMAIN comments) /\ \A j \in pub[p].found : comments[j].marker = markerOf[p]
    BY DEF CommentInv, FoundInv
  <2> QED BY <1>1, <2>1, FirstIs
<1>3. CASE others = {}
  <2>1. NextChannel(p) /\ UNCHANGED comments
    BY <1>3 DEF DeleteDuplicates
  <2>2. (markerOf[p] # NoPR /\ Lone(p) /\ pub[p].clean /\ Len(comments) <= PageSize) =>
            Shown(markerOf[p]) = {h} /\ comments[h].from = p
    BY <1>1, <1>2, <1>3 DEF CommentInv, FreshInv
  <2> QED BY <1>1, <1>2, <2>1, <2>2, MovedIs, AsideKeeps DEF NextChannel
<1>4. CASE others # {}
  <2>1. i \in pub[p].found /\ i # h /\ i \in DOMAIN comments /\ comments[i].marker = markerOf[p] /\ Ahead(h, i) /\ ~Ahead(i, h)
    <3>1. i \in others
      BY <1>1, <1>2, <1>4, FirstIs
    <3>2. i \in Nat /\ h \in Nat
      BY <1>1, <1>2, <3>1 DEF CommentTyped
    <3> QED BY <1>2, <3>1, <3>2 DEF Ahead
  <2> HIDE DEF h, i
  <2>2. PICK c \in BOOLEAN : pub' = [pub EXCEPT ![p].found = @ \ {i}, ![p].clean = c] /\ c \in {pub[p].clean, FALSE}
                             /\ \/ c = FALSE /\ UNCHANGED comments
                                \/ c = pub[p].clean /\ comments' = IF service = "gitlab" THEN DeleteNote(i) ELSE DeleteComment(i)
    <3>1. CASE pub' = [pub EXCEPT ![p].found = @ \ {i}]
      <4>1. pub' = [pub EXCEPT ![p].found = @ \ {i}, ![p].clean = pub[p].clean]
        BY <1>1, <3>1 DEF CommentTyped, PubRecord
      <4> QED BY <1>1, <1>4, <3>1, <4>1 DEF DeleteDuplicates, PubRecord, h, i
    <3>2. CASE pub' = [[pub EXCEPT ![p].found = @ \ {i}] EXCEPT ![p].clean = FALSE] /\ UNCHANGED comments
      <4>1. pub' = [pub EXCEPT ![p].found = @ \ {i}, ![p].clean = FALSE]
        BY <1>1, <3>2 DEF CommentTyped, PubRecord
      <4> QED BY <3>2, <4>1
    <3> QED BY <1>4, <3>1, <3>2 DEF DeleteDuplicates, h, i
  <2>3. /\ pub' \in [Pubs -> PubRecord] /\ pub'[p].step = "delete" /\ pub'[p].found = pub[p].found \ {i}
        /\ pub'[p].alone = pub[p].alone /\ pub'[p].clean = c /\ pub'[p].at = pub[p].at
        /\ \A q \in Pubs \ {p} : pub'[q] = pub[q]
    BY <1>1, <2>2 DEF CommentTyped, PubRecord
  <2>4. comments' = comments \/ comments' = DeleteComment(i)
    BY <2>2 DEF DeleteNote
  <2>5. /\ comments' \in Seq(CommentRecord) /\ DOMAIN comments' = DOMAIN comments /\ Len(comments') = Len(comments)
        /\ \A j \in DOMAIN comments : /\ comments'[j].marker = comments[j].marker /\ comments'[j].from = comments[j].from
                                      /\ j # i => comments'[j] = comments[j]
                                      /\ comments[j].gone => comments'[j].gone
    <3> DEFINE r == [comments[i] EXCEPT !.gone = TRUE]
    <3>1. /\ r \in CommentRecord /\ r.from = comments[i].from /\ r.marker = comments[i].marker /\ r.gone
          /\ comments \in Seq(CommentRecord) /\ i \in DOMAIN comments
      <4>1. comments[i] \in CommentRecord
        BY <1>1, <2>1 DEF CommentTyped
      <4> QED BY <1>1, <2>1, <4>1 DEF CommentRecord, CommentTyped
    <3>2. comments' = comments \/ comments' = [comments EXCEPT ![i] = r]
      BY <2>4 DEF DeleteComment
    <3> HIDE DEF r
    <3> QED BY <3>1, <3>2, ReplacedIs
  <2>6. Own(p) /\ Growing /\ Lone(p)' = Lone(p)
    BY <1>1, <2>3, <2>5 DEF Own, Growing, Lone
  <2>7. h \in pub'[p].found /\ FoundInv(p)'
    BY <1>1, <1>2, <2>1, <2>3, <2>5 DEF FoundInv
  <2>8. KeepInv'
    <3> SUFFICES ASSUME NEW j \in DOMAIN comments, comments[j].marker # Foreign PROVE Keeper(comments[j].marker)'
      BY <2>5 DEF KeepInv
    <3>1. PICK k \in DOMAIN comments : /\ comments[k].marker = comments[j].marker /\ ~comments[k].gone
                                       /\ \A l \in DOMAIN comments : comments[l].marker = comments[j].marker => Ahead(k, l)
      BY DEF CommentInv, KeepInv, Keeper
    <3>2. k # i
      BY <1>2, <2>1, <3>1
    <3>3. \A l : Ahead(k, l)' = Ahead(k, l)
      BY <1>1 DEF Ahead
    <3> QED BY <2>5, <3>1, <3>2, <3>3 DEF Keeper
  <2>9. Served(p, "comment")' = Served(p, "comment")
    BY <1>1, <2>3 DEF Served, Channels
  <2>10. FreshInv(p)'
    <3> SUFFICES ASSUME markerOf[p] # NoPR, Lone(p), c, Len(comments) <= PageSize
                 PROVE  /\ pub'[p].found = Shown(markerOf[p])' /\ comments'[FirstOf(pub'[p].found)].from = p
                        /\ Served(p, "comment") => \E k \in DOMAIN comments' : Shown(markerOf[p])' = {k} /\ comments'[k].from = p
      BY <1>1, <2>3, <2>5, <2>6, <2>9 DEF FreshInv, FirstOf
    <3>1. pub[p].clean /\ comments' = IF service = "gitlab" THEN DeleteNote(i) ELSE DeleteComment(i)
      BY <2>2
    <3>2. pub[p].found = Shown(markerOf[p]) /\ comments[h].from = p
      BY <1>1, <3>1 DEF CommentInv, FreshInv, h
    <3>3. comments' = DeleteComment(i)
      <4>1. i \in Present /\ Newest = Present
        BY <1>1, <2>1, <3>2, PageIs DEF Shown, Present
      <4> QED BY <3>1, <4>1 DEF DeleteNote, ListOnGitLab
    <3>4. comments'[i].gone
      <4>1. comments \in Seq(CommentRecord) /\ i \in DOMAIN comments
        BY <1>1, <2>1 DEF CommentTyped
      <4>2. comments'[i] = [comments[i] EXCEPT !.gone = TRUE] /\ comments[i] \in CommentRecord
        BY <3>3, <4>1 DEF DeleteComment
      <4> QED BY <4>2 DEF CommentRecord
    <3>5. Shown(markerOf[p])' = pub[p].found \ {i}
      <4>1. \A j \in DOMAIN comments : j # i => (comments'[j] = comments[j])
        BY <2>5
      <4> QED BY <1>1, <2>5, <3>2, <3>4, <4>1 DEF Shown
    <3>6. FirstOf(pub'[p].found) = h
      <4>1. /\ FirstOf(pub'[p].found) \in pub'[p].found /\ Ahead(FirstOf(pub'[p].found), h)
        BY <1>1, <1>2, <2>3, <2>7, FirstIs
      <4>2. FirstOf(pub'[p].found) \in Nat /\ h \in Nat /\ Ahead(h, FirstOf(pub'[p].found))
        BY <1>1, <1>2, <2>3, <4>1 DEF PubRecord
      <4> QED BY <4>1, <4>2 DEF Ahead
    <3>7. Served(p, "comment") => FALSE
      <4>1. Served(p, "comment") => \E k \in DOMAIN comments : Shown(markerOf[p]) = {k}
        BY <3>1 DEF CommentInv, FreshInv
      <4> QED BY <1>2, <2>1, <3>2, <4>1
    <3> QED BY <1>2, <2>1, <2>3, <2>5, <3>2, <3>5, <3>6, <3>7
  <2>11. (AllAlone /\ Len(comments') <= PageSize) => \A m \in Markers : \A k, j \in Shown(m)' : k = j
    <3>1. \A m : Shown(m)' \subseteq Shown(m)
      BY <2>5 DEF Shown
    <3> QED BY <2>5, <3>1 DEF CommentInv, DupInv
  <2> QED BY <2>3, <2>6, <2>7, <2>8, <2>10, <2>11, OwnKeeps
<1> QED BY <1>3, <1>4

\* What is appended is behind all others on one service, ahead of them on another.
LEMMA AppendKeeps ==
    ASSUME CommentTyped, KeepInv, NEW r \in CommentRecord, ~r.gone, comments' = Append(comments, r), UNCHANGED service
    PROVE  /\ Growing /\ KeepInv' /\ Len(comments') = Len(comments) + 1 /\ comments'[Len(comments) + 1] = r
           /\ Len(comments) + 1 \in DOMAIN comments'
           /\ \A m : Shown(m)' = Shown(m) \cup (IF r.marker = m THEN {Len(comments) + 1} ELSE {})
<1> DEFINE n == Len(comments) + 1
<1>1. /\ comments' \in Seq(CommentRecord) /\ n \in Nat /\ Len(comments) \in Nat /\ DOMAIN comments = 1..Len(comments)
      /\ DOMAIN comments' = 1..n /\ Len(comments') = n
      /\ comments'[n] = r /\ \A j \in DOMAIN comments : comments'[j] = comments[j]
  BY DEF CommentTyped
<1>2. Growing
  BY <1>1 DEF Growing
<1>3. \A m : Shown(m)' = Shown(m) \cup (IF r.marker = m THEN {n} ELSE {})
  BY <1>1 DEF Shown
<1>4. KeepInv'
  <2> SUFFICES ASSUME NEW j \in 1..n, NEW m, m = comments'[j].marker, m # Foreign PROVE Keeper(m)'
    BY <1>1 DEF KeepInv, Keeper, Ahead
  <2>1. CASE r.marker = m /\ (service = "gitlab" \/ ~\E l \in DOMAIN comments : comments[l].marker = m)
    <3>1. ASSUME NEW l \in 1..n, comments'[l].marker = m
          PROVE  IF service = "gitlab" THEN n >= l ELSE n <= l
      <4>1. CASE service = "gitlab"
        BY <1>1, <4>1
      <4>2. CASE service # "gitlab"
        <5>1. l \notin DOMAIN comments
          BY <1>1, <2>1, <3>1, <4>2
        <5>2. l = n
          BY <1>1, <5>1
        <5> QED BY <1>1, <4>2, <5>2
      <4> QED BY <4>1, <4>2
    <3> HIDE DEF n
    <3>2. n \in DOMAIN comments' /\ comments'[n].marker = m /\ ~comments'[n].gone
      BY <1>1, <2>1
    <3> QED BY <1>1, <3>1, <3>2 DEF Keeper, Ahead
  <2>2. CASE (r.marker # m \/ service # "gitlab") /\ \E l \in DOMAIN comments : comments[l].marker = m
    <3>1. PICK k \in DOMAIN comments : /\ comments[k].marker = m /\ ~comments[k].gone
                                       /\ \A l \in DOMAIN comments : comments[l].marker = m => Ahead(k, l)
      BY <2>2 DEF KeepInv, Keeper
    <3>2. \A l \in 1..n : comments'[l].marker = m => Ahead(k, l)'
      BY <1>1, <2>2, <3>1 DEF Ahead
    <3> QED BY <1>1, <3>1, <3>2 DEF Keeper
  <2> QED BY <1>1, <2>1, <2>2
<1> QED BY <1>1, <1>2, <1>3, <1>4

LEMMA PostKeeps ==
    ASSUME CommentInv, NEW p \in Pubs, PostComment(p)
    PROVE  CommentInv'
<1> DEFINE r == [marker |-> markerOf[p], from |-> p, gone |-> FALSE]
           n == Len(comments) + 1
<1>1. CommentTyped /\ pub[p] \in PubRecord /\ UNCHANGED <<service, plan, begun, crashed>> /\ pub[p].step = "post"
      /\ markerOf' = markerOf /\ ~crashed /\ Channels[p][pub[p].at] = "comment"
  BY DEF CommentInv, CommentTyped, PostComment, otherVars, At, markerOf
<1>2. CASE ChannelFails(p) /\ UNCHANGED comments
  BY <1>1, <1>2, FailureKeeps DEF PostComment
<1>3. CASE comments' = Posted(p) /\ NextChannel(p)
  <2>1. r \in CommentRecord /\ ~r.gone /\ r.marker = markerOf[p] /\ r.from = p
    BY <1>1, PlansAre DEF CommentRecord
  <2> HIDE DEF r
  <2>2. /\ Growing /\ KeepInv' /\ Len(comments') = n /\ comments'[n] = r /\ n \in DOMAIN comments'
        /\ \A m : Shown(m)' = Shown(m) \cup (IF r.marker = m THEN {n} ELSE {})
    BY <1>1, <1>3, <2>1, AppendKeeps DEF CommentInv, Posted, r
  <2>3. /\ Own(p) /\ pub'[p].found = pub[p].found /\ pub'[p].step \in {"done", "begin"} /\ pub'[p].clean = pub[p].clean
        /\ Lone(p)' = Lone(p)
    BY <1>1, <1>3, MovedIs DEF NextChannel, Own, Lone
  <2>4. FoundInv(p)'
    BY <1>1, <2>2, <2>3 DEF CommentInv, FoundInv, Growing
  <2>5. Len(comments) <= Len(comments') /\ Len(comments) \in Nat /\ Len(comments') \in Nat
    BY <1>1, <2>2 DEF CommentTyped
  <2>6. FreshInv(p)'
    <3>1. (markerOf[p] # NoPR /\ Lone(p) /\ pub[p].clean /\ Len(comments') <= PageSize) => Shown(markerOf[p]) = {}
      BY <1>1, <2>5, DeliveryAssumption DEF CommentInv, FreshInv
    <3>2. (markerOf[p] # NoPR /\ Lone(p) /\ pub[p].clean /\ Len(comments') <= PageSize) =>
              Shown(markerOf[p])' = {n} /\ comments'[n].from = p
      <4>1. Shown(markerOf[p])' = Shown(markerOf[p]) \cup {n} /\ comments'[n] = r
        <5>1. PICK m : m = markerOf[p]
          OBVIOUS
        <5>2. Shown(m) = Shown(markerOf[p]) /\ Shown(m)' = Shown(markerOf[p])'
          BY <1>1, <5>1 DEF Shown
        <5>3. Shown(m)' = Shown(m) \cup (IF r.marker = m THEN {n} ELSE {})
          BY <2>2
        <5> QED BY <2>1, <2>2, <5>1, <5>2, <5>3
      <4> QED BY <2>1, <3>1, <4>1
    <3> QED BY <1>1, <2>2, <2>3, <3>2 DEF FreshInv
  <2>7. (AllAlone /\ Len(comments') <= PageSize) => \A m \in Markers : \A k, j \in Shown(m)' : k = j
    BY <1>1, <2>1, <2>2, <2>5, DeliveryAssumption DEF CommentInv, DupInv
  <2> QED BY <2>2, <2>3, <2>4, <2>6, <2>7, OwnKeeps
<1> QED BY <1>2, <1>3 DEF PostComment

\* Who begins is alone if nobody is under way, and nobody who is remains so.
LEMMA BeginsBeside ==
    ASSUME CommentInv, NEW p \in Pubs, Begin(p)
    PROVE  CommentInv'
<1>1. CommentTyped /\ pub[p] \in PubRecord /\ UNCHANGED <<service, plan, comments, crashed>> /\ pub[p].step = "new"
      /\ markerOf' = markerOf /\ Channels' = Channels /\ ~crashed /\ (\A m : Shown(m)' = Shown(m)) /\ pub[p].at = 0
  BY DEF CommentInv, CommentTyped, Begin, markerOf, Channels, Shown
<1>2. /\ NextStep(p, 1) \in {"done", "begin"} /\ (Active = {}) \in BOOLEAN
      /\ pub' = [q \in Pubs |->
                   IF q = p THEN [pub[p] EXCEPT !.at = 1, !.step = NextStep(p, 1), !.alone = (Active = {})]
                   ELSE IF q \in Active THEN [pub[q] EXCEPT !.alone = FALSE] ELSE pub[q]]
  BY DEF Begin, NextStep
<1>3. /\ pub'[p] \in PubRecord /\ pub'[p].at = 1 /\ pub'[p].step = NextStep(p, 1) /\ pub'[p].alone = (Active = {})
      /\ pub'[p].found = pub[p].found
  <2>1. pub'[p] = [pub[p] EXCEPT !.at = 1, !.step = NextStep(p, 1), !.alone = (Active = {})]
    BY <1>2
  <2>2. ASSUME NEW b \in BOOLEAN, NEW s \in {"done", "begin"}
        PROVE  LET r == [pub[p] EXCEPT !.at = 1, !.step = s, !.alone = b] IN
               r \in PubRecord /\ r.at = 1 /\ r.step = s /\ r.alone = b /\ r.found = pub[p].found
    BY <1>1, <2>2 DEF PubRecord, Steps
  <2> QED BY <1>2, <2>1, <2>2, Zenon
<1>4. \A q \in Pubs \ {p} : /\ pub'[q] \in PubRecord /\ pub'[q].at = pub[q].at /\ pub'[q].step = pub[q].step
                            /\ pub'[q].found = pub[q].found /\ pub'[q].clean = pub[q].clean
                            /\ pub'[q].alone = (pub[q].alone /\ q \notin Active)
  <2> SUFFICES ASSUME NEW q \in Pubs \ {p}
               PROVE  /\ pub'[q] \in PubRecord /\ pub'[q].at = pub[q].at /\ pub'[q].step = pub[q].step
                      /\ pub'[q].found = pub[q].found /\ pub'[q].clean = pub[q].clean
                      /\ pub'[q].alone = (pub[q].alone /\ q \notin Active)
    OBVIOUS
  <2>1. pub[q] \in PubRecord /\ pub'[q] = IF q \in Active THEN [pub[q] EXCEPT !.alone = FALSE] ELSE pub[q]
    BY <1>1, <1>2 DEF CommentTyped
  <2> QED BY <2>1 DEF PubRecord
<1>5. begun' = Append(begun, p) /\ begun' \in Seq(Pubs) /\ Last(begun') = p
  <2>1. begun \in Seq(Pubs) /\ begun' = Append(begun, p)
    BY <1>1 DEF Begin, CommentTyped
  <2>2. begun' \in Seq(Pubs) /\ begun'[Len(begun')] = p
    BY <2>1
  <2> QED BY <2>1, <2>2 DEF Last
<1>6. Active' \subseteq Active \cup {p}
  BY <1>4 DEF Active
<1>7. CommentTyped'
  <2>1. pub' \in [Pubs -> PubRecord]
    BY <1>2, <1>3, <1>4
  <2>2. \A q \in Pubs : pub'[q].step = "new" => pub'[q].at = 0 /\ pub'[q].alone
    BY <1>1, <1>2, <1>3, <1>4 DEF CommentTyped, Active
  <2> QED BY <1>1, <1>5, <2>1, <2>2 DEF CommentTyped
<1>8. AllAlone' => AllAlone /\ Active = {}
  <2>1. AllAlone' => Active = {}
    BY <1>3 DEF AllAlone
  <2>2. pub[p].alone
    BY <1>1 DEF CommentTyped
  <2> QED BY <1>4, <2>1, <2>2 DEF AllAlone
<1>9. SoleInv' /\ DupInv'
  <2>1. \A q \in Pubs : pub'[q].step = "post" => pub[q].step = "post"
    BY <1>2, <1>3, <1>4
  <2> QED BY <1>1, <1>6, <1>8, <2>1 DEF CommentInv, SoleInv, DupInv
<1>10. KeepInv'
  BY <1>1 DEF CommentInv, KeepInv, Keeper, Ahead
<1>11. ASSUME NEW q \in Pubs PROVE FoundInv(q)'
  <2>1. FoundInv(q) /\ pub'[q].found = pub[q].found /\ (pub'[q].step \in {"update", "delete"} => pub[q].step = pub'[q].step)
    BY <1>2, <1>3, <1>4 DEF CommentInv
  <2> QED BY <1>1, <2>1 DEF FoundInv
<1>12. LoneInv(p)' /\ FreshInv(p)'
  <2>1. ~Served(p, "comment")'
    BY <1>1, <1>3, PlansAre DEF Served
  <2>2. LoneInv(p)'
    BY <1>3, <1>6 DEF LoneInv, Lone
  <2> QED BY <1>2, <1>3, <2>1, <2>2 DEF FreshInv
<1>13. ASSUME NEW q \in Pubs \ {p} PROVE LoneInv(q)' /\ FreshInv(q)'
  BY <1>5 DEF LoneInv, FreshInv, Lone
<1> QED BY <1>7, <1>9, <1>10, <1>11, <1>12, <1>13 DEF CommentInv

LEMMA UsersKeep ==
    ASSUME CommentInv, UserComments
    PROVE  CommentInv'
<1> DEFINE r == [marker |-> Foreign, from |-> Foreign, gone |-> FALSE]
<1>1. CommentTyped /\ UNCHANGED <<service, plan, pub, begun, crashed>> /\ comments' = Append(comments, r)
  BY DEF CommentInv, UserComments
<1>2. r \in CommentRecord /\ ~r.gone /\ r.marker = Foreign
  BY DEF CommentRecord
<1> HIDE DEF r
<1>3. /\ Growing /\ KeepInv' /\ Len(comments') = Len(comments) + 1 /\ Len(comments) \in Nat
      /\ \A m : Shown(m)' = Shown(m) \cup (IF r.marker = m THEN {Len(comments) + 1} ELSE {})
  BY <1>1, <1>2, AppendKeeps DEF CommentInv, CommentTyped
<1>4. \A m : m # Foreign => Shown(m)' = Shown(m)
  BY <1>2, <1>3
<1>5. Foreign \notin Markers
  BY DeliveryAssumption DEF Markers
<1>6. Len(comments') <= PageSize => Len(comments) <= PageSize
  BY <1>3, DeliveryAssumption
<1>7. CommentTyped' /\ markerOf' = markerOf /\ Channels' = Channels /\ Active' = Active /\ AllAlone' = AllAlone
  BY <1>1, <1>3 DEF CommentTyped, Growing, markerOf, Channels, Active, AllAlone
<1>8. SoleInv' /\ DupInv'
  <2>1. \A p \in Pubs : markerOf[p] \in Markers
    BY <1>1, PlansAre
  <2> QED BY <1>1, <1>4, <1>5, <1>6, <1>7, <2>1 DEF CommentInv, SoleInv, DupInv
<1>9. ASSUME NEW p \in Pubs PROVE FoundInv(p)' /\ LoneInv(p)' /\ FreshInv(p)'
  <2>1. markerOf[p] # Foreign
    BY <1>1, PlansAre
  <2>2. Shown(markerOf[p])' = Shown(markerOf[p]) /\ Lone(p)' = Lone(p) /\ Served(p, "comment")' = Served(p, "comment")
    BY <1>1, <1>4, <1>7, <2>1 DEF Lone, Served
  <2>3. FoundInv(p) /\ LoneInv(p) /\ FreshInv(p)
    BY DEF CommentInv
  <2>4. FoundInv(p)' /\ LoneInv(p)'
    BY <1>1, <1>3, <1>7, <2>2, <2>3 DEF FoundInv, LoneInv, Growing
  <2>5. \A i \in DOMAIN comments : comments'[i] = comments[i]
    BY <1>1, <1>2 DEF CommentTyped
  <2>6. DOMAIN comments \subseteq DOMAIN comments'
    BY <1>3 DEF Growing
  <2>7. FirstOf(pub[p].found)' = FirstOf(pub[p].found)
    BY <1>1 DEF FirstOf
  <2>8. (~crashed /\ pub[p].step = "delete") => FirstOf(pub[p].found) \in DOMAIN comments
    <3>1. pub[p].found \in SUBSET (DOMAIN comments)
      BY <2>3 DEF FoundInv
    <3> QED BY <1>1, <2>3, <3>1, FirstIs DEF FoundInv
  <2>9. FreshInv(p)'
    BY <1>1, <1>6, <1>7, <2>2, <2>3, <2>5, <2>6, <2>7, <2>8 DEF FreshInv
  <2> QED BY <2>4, <2>9
<1> QED BY <1>3, <1>7, <1>8, <1>9 DEF CommentInv

\* Who dies forgets what was found; nothing is done with it any more.
LEMMA CrashForgets ==
    ASSUME CommentInv, Crash
    PROVE  CommentInv'
<1>1. /\ CommentTyped /\ crashed' /\ UNCHANGED <<service, plan, comments, begun>>
      /\ pub' = [p \in Pubs |-> [pub[p] EXCEPT !.attempt = 0, !.found = {}]]
  BY DEF CommentInv, Crash
<1>2. \A p \in Pubs : /\ pub'[p] \in PubRecord /\ pub'[p].found = {} /\ pub'[p].step = pub[p].step /\ pub'[p].at = pub[p].at
                       /\ pub'[p].alone = pub[p].alone /\ pub'[p].clean = pub[p].clean
  BY <1>1 DEF CommentTyped, PubRecord
<1>3. CommentTyped'
  BY <1>1, <1>2 DEF CommentTyped
<1>4. markerOf' = markerOf /\ Channels' = Channels /\ Active' = Active /\ AllAlone' = AllAlone /\ \A m : Shown(m)' = Shown(m)
  BY <1>1, <1>2 DEF markerOf, Channels, Active, AllAlone, Shown
<1>5. KeepInv' /\ SoleInv' /\ DupInv'
  BY <1>1, <1>4 DEF CommentInv, KeepInv, Keeper, Ahead, SoleInv, DupInv
<1>6. ASSUME NEW p \in Pubs PROVE FoundInv(p)' /\ LoneInv(p)' /\ FreshInv(p)'
  <2>1. FoundInv(p)'
    BY <1>1, <1>2 DEF FoundInv
  <2>2. Lone(p)' = Lone(p) /\ Served(p, "comment")' = Served(p, "comment")
    BY <1>1, <1>2, <1>4 DEF Lone, Served
  <2> QED BY <1>1, <1>2, <1>4, <2>1, <2>2 DEF CommentInv, LoneInv, FreshInv
<1> QED BY <1>3, <1>5, <1>6 DEF CommentInv

LEMMA CommentInit ==
    ASSUME Init
    PROVE  CommentInv
<1>1. comments = <<>> /\ begun = <<>> /\ pub = [p \in Pubs |-> [at |-> 0, step |-> "new", attempt |-> 0, found |-> {},
                      alone |-> TRUE, clean |-> TRUE]]
  BY DEF Init
<1>2. \A p \in Pubs : /\ pub[p] \in PubRecord /\ pub[p].step = "new" /\ pub[p].found = {} /\ pub[p].at = 0 /\ pub[p].alone
  BY <1>1 DEF PubRecord, Steps
<1>3. CommentTyped
  BY <1>1, <1>2 DEF CommentTyped, Init
<1>4. Active = {} /\ (\A m : Shown(m) = {}) /\ DOMAIN comments = {}
  BY <1>1, <1>2 DEF Active, Shown
<1>5. \A p \in Pubs : ~Served(p, "comment")
  BY <1>2, <1>3, PlansAre DEF Served
<1> QED BY <1>2, <1>3, <1>4, <1>5 DEF CommentInv, KeepInv, SoleInv, DupInv, FoundInv, LoneInv, FreshInv

LEMMA CommentStep ==
    ASSUME CommentInv, [Next]_vars
    PROVE  CommentInv'
<1>1. CASE \E p \in Pubs : Begin(p)
  BY <1>1, BeginsBeside
<1>2. CASE \E p \in Pubs : Publish(p)
  BY <1>2, OthersServed, ListKeeps, UpdateKeeps, DeleteKeeps, PostKeeps DEF Publish
<1>3. CASE UserComments
  BY <1>3, UsersKeep
<1>4. CASE Crash
  BY <1>4, CrashForgets
<1>5. CASE Cancel \/ UNCHANGED vars
  <2>1. UNCHANGED <<service, plan, comments, pub, begun, crashed>>
    BY <1>5 DEF Cancel, vars
  <2>2. /\ markerOf' = markerOf /\ Channels' = Channels /\ Active' = Active /\ AllAlone' = AllAlone /\ (\A m : Shown(m)' = Shown(m))
        /\ \A p \in Pubs : Lone(p)' = Lone(p) /\ Served(p, "comment")' = Served(p, "comment")
    BY <2>1 DEF markerOf, Channels, Active, AllAlone, Shown, Lone, Served
  <2>3. CommentTyped' /\ KeepInv' /\ SoleInv' /\ DupInv'
    BY <2>1, <2>2 DEF CommentInv, CommentTyped, KeepInv, Keeper, Ahead, SoleInv, DupInv
  <2>4. ASSUME NEW p \in Pubs PROVE FoundInv(p)' /\ LoneInv(p)' /\ FreshInv(p)'
    BY <2>1, <2>2 DEF CommentInv, FoundInv, LoneInv, FreshInv, FirstOf
  <2> QED BY <2>3, <2>4 DEF CommentInv
<1> QED BY <1>1, <1>2, <1>3, <1>4, <1>5 DEF Next

LEMMA CommentsAre ==
    ASSUME CommentInv
    PROVE  CommentsKept
<1>1. OneCommentShown
  <2> SUFFICES ASSUME NEW p \in Pubs, Served(p, "comment"), markerOf[p] # NoPR, pub[p].alone, pub[p].clean, Last(begun) = p,
                      Len(comments) <= PageSize
               PROVE  Cardinality(Shown(markerOf[p])) = 1 /\ \A i \in Shown(markerOf[p]) : comments[i].from = p
    BY DEF OneCommentShown
  <2>1. PICK i \in DOMAIN comments : Shown(markerOf[p]) = {i} /\ comments[i].from = p
    BY DEF CommentInv, FreshInv, Lone
  <2>2. Cardinality(Shown(markerOf[p])) = 1
    BY <2>1, FS_Singleton
  <2> QED BY <2>1, <2>2
<1>2. NoDuplicates
  <2> SUFFICES ASSUME AllAlone, Len(comments) <= PageSize, NEW m \in Markers
               PROVE  Cardinality(Shown(m)) <= 1
    BY DEF NoDuplicates, AllAlone
  <2>1. \A i, j \in Shown(m) : i = j
    BY DEF CommentInv, DupInv
  <2>2. CASE Shown(m) = {}
    BY <2>2, FS_EmptySet
  <2>3. CASE Shown(m) # {}
    <3>1. PICK i : Shown(m) = {i}
      BY <2>1, <2>3
    <3>2. Cardinality(Shown(m)) = 1
      BY <3>1, FS_Singleton
    <3> QED BY <3>2
  <2> QED BY <2>2, <2>3
<1>3. CommentStays
  BY DEF CommentInv, KeepInv, Keeper, CommentStays, Shown
<1> QED BY <1>1, <1>2, <1>3 DEF CommentsKept

\* The comments of a rule on a pull request, however publications overlap,
\* fail and are interrupted: one that had no other beside it and whose calls
\* went well leaves one, with its result; without overlaps there never are
\* two; and a pull request that has had one keeps one (ListComments,
\* UpdateComment and DeleteComment of the comment channel).
THEOREM CommentsAreKept == DeliverySpec => []CommentsKept
<1>1. DeliveryInit => CommentInv
  BY CommentInit DEF DeliveryInit
<1>2. CommentInv /\ [DeliveryNext]_allVars => CommentInv'
  <2>1. [DeliveryNext]_allVars => [Next]_vars
    BY DEF DeliveryNext, allVars, vars
  <2> QED BY <2>1, CommentStep
<1>3. CommentInv => CommentsKept
  BY CommentsAre
<1> QED BY <1>1, <1>2, <1>3, PTL DEF DeliverySpec

-----------------------------------------------------------------------------
(* The types *)

\* What the invariants above leave open: the bounds of a publication's channel
\* and of its endpoint's requests, which hold for a process that died as well,
\* the files, and that a publication begins once.
RestInv ==
    /\ \A p \in Pubs : pub[p].at <= Len(Channels[p]) + 1 /\ posts[p] <= maxRetries
    /\ files \in [Markers -> Pubs \cup {Foreign}]
    /\ IsInjective(begun) /\ \A i \in DOMAIN begun : pub[begun[i]].step # "new"
    /\ cancelled \in BOOLEAN /\ crashed \in BOOLEAN
    /\ foreign \in 0..MaxForeign /\ faults \in 0..MaxFaults
DeliveryInv == LogInv /\ CommentInv /\ CallInv /\ RestInv

LEMMA DeliveryTyped ==
    ASSUME DeliveryInv
    PROVE  DeliveryTypeOK
<1>1. CommentTyped /\ ShapeInv
  BY DEF DeliveryInv, CommentInv, LogInv
<1>2. ASSUME NEW i \in DOMAIN comments
      PROVE  /\ comments[i].marker \in Markers \cup {Foreign}
             /\ comments[i].from \in Pubs \cup {Foreign} /\ comments[i].gone \in BOOLEAN
  <2>1. comments[i] \in CommentRecord
    BY <1>1 DEF CommentTyped
  <2> QED BY <2>1 DEF CommentRecord
<1>3. posts \in [Pubs -> 0..maxRetries]
  BY <1>1, DeliveryAssumption DEF ShapeInv, DeliveryInv, RestInv
<1>4. ASSUME NEW p \in Pubs
      PROVE  /\ pub[p].step \in Steps /\ pub[p].at \in 0..(Len(Channels[p]) + 1)
             /\ pub[p].attempt \in 0..maxRetries /\ pub[p].found \subseteq DOMAIN comments
  <2>1. pub[p] \in PubRecord
    BY <1>1 DEF CommentTyped
  <2>2. pub[p].step \in Steps /\ pub[p].at \in Nat /\ pub[p].attempt \in Nat
    BY <2>1 DEF PubRecord
  <2>3. pub[p].at <= Len(Channels[p]) + 1 /\ pub[p].attempt <= maxRetries /\ FoundInv(p)
    BY DEF DeliveryInv, RestInv, LogInv, OneLog, AttemptsOf, CommentInv
  <2>4. Len(Channels[p]) \in Nat
    BY <1>1, PlansAre
  <2> QED BY <2>2, <2>3, <2>4, DeliveryAssumption DEF FoundInv
<1>5. TypeOK
  BY <1>1, <1>2, <1>3, <1>4 DEF TypeOK, CommentTyped, ShapeInv, DeliveryInv, RestInv
<1> QED BY <1>5 DEF DeliveryTypeOK, DeliveryInv, CallInv, CallTyped

\* Where a step of a publication takes it.
LEMMA PublishMoves ==
    ASSUME LogInv, NEW p \in Pubs, Publish(p)
    PROVE  /\ Others(p) /\ ~crashed /\ pub[p].step \notin {"new", "done"} /\ pub'[p].step # "new"
           /\ pub'[p].at \in {pub[p].at, pub[p].at + 1}
<1> DEFINE Goes == Moves(p) \/ (Stays(p) /\ pub'[p].step # "new")
<1>1. Typed
  BY DEF LogInv, ShapeInv, Typed
<1>2. ~crashed /\ pub[p].step \notin {"new", "done"}
  BY DEF Publish, SkipComment, ListComments, UpdateComment, DeleteDuplicates, PostComment, Start, SendRequest, Backoff,
         GiveUp, WriteFile, At
<1>3. NextChannel(p) \/ ChannelFails(p) => Goes
  BY <1>1, NextMoves DEF NextChannel, ChannelFails
<1>4. (\E s \in {"send", "delete"} : Step(p, s)) => Goes
  BY <1>1, StepStays DEF Steps
<1>5. Goes
  <2>1. CASE SkipComment(p) \/ PostComment(p) \/ WriteFile(p) \/ GiveUp(p)
    BY <1>3, <2>1 DEF SkipComment, PostComment, WriteFile, GiveUp
  <2>2. CASE Start(p) \/ Backoff(p) \/ UpdateComment(p)
    BY <1>3, <1>4, <2>2 DEF Start, Backoff, UpdateComment
  <2>3. CASE SendRequest(p)
    <3>1. CASE NextChannel(p)
      BY <1>3, <3>1
    <3>2. CASE pub' = [pub EXCEPT ![p].attempt = pub[p].attempt + 1, ![p].step = "backoff"]
      <4>1. pub[p].attempt + 1 \in Nat
        BY DEF LogInv, ShapeInv, Shape
      <4> QED BY <1>1, <3>2, <4>1, AttemptStays
    <3> QED BY <2>3, <3>1, <3>2 DEF SendRequest
  <2>4. CASE ListComments(p)
    <3>1. CASE ChannelFails(p)
      BY <1>3, <3>1
    <3>2. CASE \E s \in {"post", "update"} : \E found : pub' = [pub EXCEPT ![p].found = found, ![p].step = s]
      BY <1>1, <3>2, FoundStays DEF Steps
    <3> QED BY <2>4, <3>1, <3>2 DEF ListComments
  <2>5. CASE DeleteDuplicates(p)
    <3>1. CASE NextChannel(p)
      BY <1>3, <3>1
    <3>2. CASE \E found : \/ pub' = [pub EXCEPT ![p].found = found]
                          \/ pub' = [[pub EXCEPT ![p].found = found] EXCEPT ![p].clean = FALSE]
      BY <1>1, <1>2, <3>2, RemoveStays
    <3> QED BY <2>5, <3>1, <3>2 DEF DeleteDuplicates
  <2> QED BY <2>1, <2>2, <2>3, <2>4, <2>5 DEF Publish
<1> QED BY <1>2, <1>5 DEF Moves, Stays, NextStep

\* What else a step of a publication changes.
LEMMA PublishRest ==
    ASSUME NEW p \in Pubs, Publish(p)
    PROVE  /\ UNCHANGED <<begun, cancelled, crashed, foreign>>
           /\ faults' = faults \/ (faults < MaxFaults /\ faults' = faults + 1)
           /\ posts' = posts \/ posts' = [posts EXCEPT ![p] = @ + 1]
           /\ files' = files \/ files' = [files EXCEPT ![markerOf[p]] = p]
<1>1. CASE SkipComment(p) \/ ListComments(p) \/ UpdateComment(p) \/ DeleteDuplicates(p) \/ PostComment(p)
  BY <1>1 DEF SkipComment, ListComments, UpdateComment, DeleteDuplicates, PostComment, otherVars, ChannelFails, Fails
<1>2. CASE Start(p) \/ SendRequest(p) \/ Backoff(p) \/ GiveUp(p)
  BY <1>2 DEF Start, SendRequest, Backoff, GiveUp, webVars
<1>3. CASE WriteFile(p)
  BY <1>3 DEF WriteFile, ChannelFails, Fails
<1> QED BY <1>1, <1>2, <1>3 DEF Publish

LEMMA RestInit ==
    ASSUME Init
    PROVE  RestInv
<1>1. CommentTyped /\ \A p \in Pubs : pub[p].at = 0 /\ posts[p] = 0
  BY CommentInit DEF CommentInv, Init
<1>2. \A p \in Pubs : pub[p].at <= Len(Channels[p]) + 1 /\ posts[p] <= maxRetries
  BY <1>1, PlansAre, DeliveryAssumption
<1>3. IsInjective(begun) /\ DOMAIN begun = {}
  BY DEF Init, IsInjective
<1>4. files \in [Markers -> Pubs \cup {Foreign}] /\ cancelled \in BOOLEAN /\ crashed \in BOOLEAN
  BY DEF Init
<1>5. foreign \in 0..MaxForeign /\ faults \in 0..MaxFaults
  BY DeliveryAssumption DEF Init
<1> QED BY <1>2, <1>3, <1>4, <1>5 DEF RestInv

LEMMA RestPublish ==
    ASSUME OneWebhook, DeliveryInv, NEW p \in Pubs, Publish(p)
    PROVE  RestInv'
<1>1. /\ Others(p) /\ ~crashed /\ pub[p].step \notin {"new", "done"} /\ pub'[p].step # "new"
      /\ pub'[p].at \in {pub[p].at, pub[p].at + 1}
  BY PublishMoves DEF DeliveryInv
<1>2. /\ UNCHANGED <<begun, cancelled, crashed, foreign>>
      /\ faults' = faults \/ (faults < MaxFaults /\ faults' = faults + 1)
      /\ posts' = posts \/ posts' = [posts EXCEPT ![p] = @ + 1]
      /\ files' = files \/ files' = [files EXCEPT ![markerOf[p]] = p]
  BY PublishRest
<1>3. LogInv' /\ LogInv
  BY LogStep DEF Next, DeliveryInv
<1>4. CommentTyped /\ UNCHANGED plan
  BY DEF DeliveryInv, CommentInv, Publish, SkipComment, ListComments, UpdateComment, DeleteDuplicates, PostComment, Start,
         SendRequest, Backoff, GiveUp, WriteFile, otherVars, webVars
<1>5. ASSUME NEW q \in Pubs PROVE pub'[q].at <= Len(Channels'[q]) + 1
  <2>1. Channels' = Channels /\ pub[q].at <= Len(Channels[q]) + 1
    BY <1>4 DEF Channels, DeliveryInv, RestInv
  <2>2. CASE q # p
    BY <1>1, <2>1, <2>2 DEF Others
  <2>3. CASE q = p
    <3>1. pub[p].at \in 1..Len(Channels[p])
      BY <1>1, <1>3, <1>4, PlansAre DEF LogInv, OneLog, PlaceOf
    <3> QED BY <1>1, <1>4, <2>1, <2>3, <3>1, PlansAre
  <2> QED BY <2>2, <2>3
<1>6. ASSUME NEW q \in Pubs PROVE posts'[q] <= maxRetries
  <2>1. posts \in [Pubs -> Nat] /\ posts[q] <= maxRetries
    BY <1>3 DEF LogInv, ShapeInv, DeliveryInv, RestInv
  <2>2. CASE posts'[q] = posts[q]
    BY <2>1, <2>2
  <2>3. CASE q = p
    <3>1. OneLog(p)' /\ posts'[p] \in Nat /\ pub'[p].attempt \in Nat /\ rows'[p] \in Seq(Entries)
      BY <1>3 DEF LogInv, ShapeInv, Shape
    <3>2. CASE Served(p, "webhook")'
      <4>1. rows'[p][1] \in Entries
        BY <3>1, <3>2 DEF OneLog, LogOf
      <4>2. posts'[p] <= rows'[p][1].count /\ rows'[p][1].count <= maxRetries /\ rows'[p][1].count \in Nat
        BY <3>1, <3>2, <4>1 DEF OneLog, LogOf, Entries
      <4> QED BY <2>3, <3>1, <4>2, DeliveryAssumption
    <3>3. CASE ~Served(p, "webhook")'
      <4>1. posts'[p] <= pub'[p].attempt /\ pub'[p].attempt <= maxRetries
        BY <1>1, <1>2, <3>1, <3>3 DEF OneLog, LogOf, AttemptsOf
      <4> QED BY <2>3, <3>1, <4>1, DeliveryAssumption
    <3> QED BY <3>2, <3>3
  <2> QED BY <1>2, <2>1, <2>2, <2>3
<1>7. files' \in [Markers -> Pubs \cup {Foreign}]
  BY <1>2, <1>4, PlansAre DEF DeliveryInv, RestInv
<1>8. \A i \in DOMAIN begun' : pub'[begun'[i]].step # "new"
  <2>1. begun \in Seq(Pubs) /\ \A i \in DOMAIN begun : pub[begun[i]].step # "new"
    BY <1>4 DEF CommentTyped, DeliveryInv, RestInv
  <2> QED BY <1>1, <1>2, <2>1 DEF Others
<1>9. faults' \in 0..MaxFaults
  BY <1>2, DeliveryAssumption DEF DeliveryInv, RestInv
<1> QED BY <1>2, <1>5, <1>6, <1>7, <1>8, <1>9 DEF DeliveryInv, RestInv

LEMMA RestBegin ==
    ASSUME DeliveryInv, NEW p \in Pubs, Begin(p)
    PROVE  RestInv'
<1>1. /\ pub[p].step = "new" /\ begun' = Append(begun, p)
      /\ UNCHANGED <<plan, posts, files, cancelled, crashed, foreign, faults>>
  BY DEF Begin
<1>2. CommentTyped
  BY DEF DeliveryInv, CommentInv
<1>3. /\ pub'[p].at = 1 /\ pub'[p].step = NextStep(p, 1)
      /\ \A q \in Pubs \ {p} : pub'[q].at = pub[q].at /\ pub'[q].step = pub[q].step
  BY BeginTyped DEF DeliveryInv, LogInv, ShapeInv, Typed
<1>4. ASSUME NEW q \in Pubs PROVE pub'[q].at <= Len(Channels'[q]) + 1
  <2>1. Channels' = Channels /\ pub[q].at <= Len(Channels[q]) + 1 /\ Len(Channels[q]) \in Nat
    BY <1>1, <1>2, PlansAre DEF Channels, DeliveryInv, RestInv
  <2> QED BY <1>3, <2>1
<1>5. begun \in Seq(Pubs) /\ \A i \in DOMAIN begun : begun[i] # p /\ pub[begun[i]].step # "new"
  BY <1>1, <1>2 DEF CommentTyped, DeliveryInv, RestInv
<1>6. \A i \in DOMAIN begun' : IF i \in DOMAIN begun THEN begun'[i] = begun[i] ELSE i = Len(begun) + 1 /\ begun'[i] = p
  BY <1>1, <1>5
<1>7. IsInjective(begun')
  BY <1>5, <1>6 DEF IsInjective, DeliveryInv, RestInv
<1>8. \A i \in DOMAIN begun' : pub'[begun'[i]].step # "new"
  BY <1>3, <1>5, <1>6 DEF NextStep
<1> QED BY <1>1, <1>4, <1>7, <1>8 DEF DeliveryInv, RestInv

LEMMA RestStep ==
    ASSUME OneWebhook, DeliveryInv, [Next]_vars
    PROVE  RestInv'
<1>1. CASE \E p \in Pubs : Begin(p) \/ Publish(p)
  BY <1>1, RestBegin, RestPublish
<1>2. CASE UserComments
  <2>1. UNCHANGED <<plan, pub, posts, files, begun, cancelled, crashed, faults>> /\ foreign' \in 0..MaxForeign
    BY <1>2, DeliveryAssumption DEF UserComments, DeliveryInv, RestInv
  <2> QED BY <2>1 DEF DeliveryInv, RestInv, Channels
<1>3. CASE Crash
  <2>1. UNCHANGED <<plan, posts, files, begun, cancelled, foreign, faults>> /\ crashed' = TRUE
    BY <1>3 DEF Crash
  <2>2. \A p \in Pubs : pub'[p].at = pub[p].at /\ pub'[p].step = pub[p].step
    BY <1>3 DEF Crash, DeliveryInv, CommentInv, CommentTyped, PubRecord
  <2>3. \A i \in DOMAIN begun : begun[i] \in Pubs
    BY DEF DeliveryInv, CommentInv, CommentTyped
  <2> QED BY <2>1, <2>2, <2>3 DEF DeliveryInv, RestInv, Channels
<1>4. CASE Cancel
  <2>1. UNCHANGED <<plan, pub, posts, files, begun, crashed, foreign, faults>> /\ cancelled' = TRUE
    BY <1>4 DEF Cancel
  <2> QED BY <2>1 DEF DeliveryInv, RestInv, Channels
<1>5. CASE UNCHANGED vars
  BY <1>5 DEF vars, DeliveryInv, RestInv, Channels
<1> QED BY <1>1, <1>2, <1>3, <1>4, <1>5 DEF Next

\* The states of publications and calls have their types: no endpoint is asked
\* more than maxRetries times for a result, also where the process dies, and
\* what a publication works on are comments of its pull request.
THEOREM DeliveriesTyped == OneWebhook => (DeliverySpec => []DeliveryTypeOK)
<1> SUFFICES ASSUME OneWebhook PROVE DeliverySpec => []DeliveryTypeOK
  OBVIOUS
<1>1. DeliveryInit => DeliveryInv
  BY LogInitially, CommentInit, CallInit, RestInit DEF DeliveryInit, DeliveryInv
<1>2. DeliveryInv /\ [DeliveryNext]_allVars => DeliveryInv'
  <2> SUFFICES ASSUME DeliveryInv, [DeliveryNext]_allVars PROVE DeliveryInv'
    OBVIOUS
  <2>1. [Next]_vars /\ [Agent!Next]_(Agent!vars)
    BY DEF DeliveryNext, allVars, callVars, vars, Agent!vars
  <2>2. LogInv' /\ CommentInv' /\ CallInv'
    BY <2>1, LogStep, CommentStep, CallStep DEF DeliveryInv
  <2> QED BY <2>1, <2>2, RestStep DEF DeliveryInv
<1>3. DeliveryInv => DeliveryTypeOK
  BY DeliveryTyped
<1> QED BY <1>1, <1>2, <1>3, PTL DEF DeliverySpec
=============================================================================
