----------------------- MODULE InboundPipelineProofs -----------------------
(***************************************************************************)
(* Safety of the inbound pipeline for any number of jobs, webhooks, slots  *)
(* and faults.  BufferBelowLimit needs to know what a job about to save    *)
(* has read.  The other invariants only hold until two jobs overlap, and   *)
(* rest on Deduplicated: the dedup keys, the deliveries and the one        *)
(* running job.  TextsUnique adds who has which text, for                  *)
(* TextIsForwardedOnce; KeepIInv adds that the running job has read what   *)
(* is still in the buffer, for TextIsKept.                                 *)
(***************************************************************************)
EXTENDS InboundPipeline, FiniteSetTheorems, TLAPS

Queued == Active \union {"absent", "waiting"}
Past   == {"load", "save", "clear", "media", "configs", "add"}

\* What TypeOK leaves out: the deliveries are finitely many, and a job still in
\* the queue has attempts left.
Bounded ==
  /\ IsFiniteSet(deliveries)
  /\ \A j \in Jobs : pc[j] \in Queued => failures[j] < MaxAttempts

\* A job that decided to save has read a buffer with room for two more.
RoomToSave ==
  \A j \in Jobs : pc[j] = "save" => Len(loaded[j]) + 1 < MaxBuffered

\* At most one job runs; a delivery's key is set; a job about to set its key is
\* the first to; a job past that has enqueued, of the deliveries with its key,
\* those of the loop's earlier turns and no other exists.
OneRuns == \A i, j \in Running : i = j

DeliveredSeen == \A d \in deliveries : key[d.job] \in seen

KeyFresh == \A j \in Jobs : pc[j] = "dedupSet" => key[j] \notin seen

OwnDeliveries ==
  \A j \in Jobs : pc[j] \in Past =>
    /\ key[j] \in seen
    /\ \A d \in deliveries : key[d.job] = key[j] =>
         pc[j] = "add" /\ d.webhook <= enqueued[j]

NotTwice == \A d, e \in deliveries : SameMessage(d, e) => d = e

Deduplicated ==
  "overlap" \notin blame =>
    OneRuns /\ DeliveredSeen /\ KeyFresh /\ OwnDeliveries /\ NotTwice

IInv == TypeOK /\ Bounded /\ BufferBelowLimit /\ RoomToSave

-----------------------------------------------------------------------------

\* The texts a job hands on are a sequence of jobs.
LEMMA TextsType ==
  ASSUME TypeOK, NEW j \in Jobs
  PROVE  Texts(j) \in Seq(Jobs)
  BY DEF TypeOK, Texts

LEMMA InitIInv == Init => IInv
<1> SUFFICES ASSUME Init PROVE IInv
  OBVIOUS
<1>1. TypeOK
  BY LimitsAssumption DEF Init, TypeOK
<1>2. Bounded
  BY LimitsAssumption, FS_EmptySet DEF Init, Bounded
<1>3. BufferBelowLimit /\ RoomToSave
  BY LimitsAssumption DEF Init, BufferBelowLimit, RoomToSave
<1> QED
  BY <1>1, <1>2, <1>3 DEF IInv

\* A new delivery is one of Delivery, and the set of them stays finite.
LEMMA AddDelivery ==
  ASSUME TypeOK, Bounded, NEW j \in Jobs, enqueueDelivery(j)
  PROVE  /\ deliveries' \subseteq Delivery
         /\ IsFiniteSet(deliveries')
<1> DEFINE n == enqueued[j] + 1
           d == [job |-> j, copy |-> Copies(j, n), webhook |-> n, texts |-> Texts(j)]
<1>1. n \in 1..NumWebhooks
  BY LimitsAssumption DEF TypeOK
<1>2. Copies(j, n) \in Nat
  BY FS_Subset, FS_CardinalityType DEF Copies, Bounded
<1>3. d \in Delivery
  BY <1>1, <1>2, TextsType DEF Delivery
<1>4. deliveries' = deliveries \union {d}
  BY DEF enqueueDelivery
<1> QED
  BY <1>3, <1>4, FS_AddElement DEF TypeOK, Bounded

\* Leaving the stages keeps the job's own variables in range.
LEMMA LeaveType ==
  ASSUME TypeOK, Bounded, NEW j \in Jobs, NEW outcome \in Settled, Leave(j, outcome),
         UNCHANGED failures
  PROVE  /\ pc' \in [Jobs -> Active \union Settled \union {"absent", "waiting"}]
         /\ loaded' \in [Jobs -> Seq(Jobs)]
         /\ enqueued' \in [Jobs -> 0..NumWebhooks - 1]
         /\ \A i \in Jobs : pc'[i] \in Queued => failures'[i] < MaxAttempts
<1>1. pc' \in [Jobs -> Active \union Settled \union {"absent", "waiting"}]
  BY DEF TypeOK, Leave, Goto
<1>2. loaded' \in [Jobs -> Seq(Jobs)]
  BY DEF TypeOK, Leave
<1>3. enqueued' \in [Jobs -> 0..NumWebhooks - 1]
  BY LimitsAssumption DEF TypeOK, Leave
<1>4. ASSUME NEW i \in Jobs, pc'[i] \in Queued PROVE failures'[i] < MaxAttempts
  BY <1>4 DEF TypeOK, Bounded, Leave, Goto, Queued, Active, Settled
<1> QED
  BY <1>1, <1>2, <1>3, <1>4

LEMMA StepTypeOK == IInv /\ [Next]_vars => TypeOK' /\ Bounded'
<1> SUFFICES ASSUME IInv, [Next]_vars PROVE TypeOK' /\ Bounded'
  OBVIOUS
<1> USE DEF IInv
<1>1. ASSUME NEW j \in Jobs, handleMessagesUpsert(j) PROVE TypeOK' /\ Bounded'
  BY <1>1 DEF handleMessagesUpsert, Goto, TypeOK, Bounded, Queued, Active, Settled
<1>2. ASSUME NEW j \in Jobs, processJob(j) PROVE TypeOK' /\ Bounded'
  BY <1>2 DEF processJob, Goto, Note, TypeOK, Bounded, Queued, Active, Settled, Blames
<1>3. ASSUME NEW j \in Jobs, dedupGet(j) PROVE TypeOK' /\ Bounded'
  BY <1>3 DEF dedupGet, Goto, TypeOK, Bounded, Queued, Active, Settled
<1>4. ASSUME NEW j \in Jobs, dedupSet(j) PROVE TypeOK' /\ Bounded'
  BY <1>4 DEF dedupSet, Goto, TypeOK, Bounded, Queued, Active, Settled
<1>5. ASSUME NEW j \in Jobs, loadBuffer(j) PROVE TypeOK' /\ Bounded'
  BY <1>5 DEF loadBuffer, Goto, TypeOK, Bounded, Queued, Active, Settled
<1>6. ASSUME NEW j \in Jobs, saveBuffer(j) PROVE TypeOK' /\ Bounded'
  BY <1>6, TextsType, LimitsAssumption
     DEF saveBuffer, Goto, Leave, TypeOK, Bounded, Queued, Active, Settled
<1>7. ASSUME NEW j \in Jobs, clearBuffer(j) PROVE TypeOK' /\ Bounded'
  BY <1>7 DEF clearBuffer, Goto, Note, TypeOK, Bounded, Queued, Active, Settled, Blames
<1>8. ASSUME NEW j \in Jobs, processMedia(j) PROVE TypeOK' /\ Bounded'
  BY <1>8 DEF processMedia, Goto, TypeOK, Bounded, Queued, Active, Settled
<1>9. ASSUME NEW j \in Jobs, loadWebhookConfigs(j) PROVE TypeOK' /\ Bounded'
  <2>1. CASE Goto(j, "add") /\ UNCHANGED <<loaded, enqueued, faults>>
    BY <1>9, <2>1 DEF loadWebhookConfigs, Goto, TypeOK, Bounded, Queued, Active, Settled
  <2>2. CASE Leave(j, "forwarded") /\ Fault
    <3>1. UNCHANGED <<failures, stalled, seen, buffer, deliveries, blame>>
      BY <1>9 DEF loadWebhookConfigs
    <3>2. faults' \in 0..MaxFaults
      BY <2>2, LimitsAssumption DEF Fault, TypeOK
    <3>3. "forwarded" \in Settled
      BY DEF Settled
    <3> QED
      BY <2>2, <3>1, <3>2, <3>3, LeaveType DEF TypeOK, Bounded
  <2> QED
    BY <1>9, <2>1, <2>2 DEF loadWebhookConfigs
<1>10. ASSUME NEW j \in Jobs, enqueueDelivery(j) PROVE TypeOK' /\ Bounded'
  <2>1. CASE enqueued[j] + 1 < NumWebhooks
    <3>1. enqueued' \in [Jobs -> 0..NumWebhooks - 1]
      <4>1. enqueued[j] \in Nat
        BY LimitsAssumption DEF TypeOK
      <4>2. enqueued' = [enqueued EXCEPT ![j] = enqueued[j] + 1]
        BY <1>10, <2>1 DEF enqueueDelivery
      <4> QED
        BY <2>1, <4>1, <4>2, LimitsAssumption DEF TypeOK
    <3>2. UNCHANGED <<pc, failures, stalled, loaded, seen, buffer, faults, blame>>
      BY <1>10, <2>1 DEF enqueueDelivery
    <3> QED
      BY <1>10, <3>1, <3>2, AddDelivery DEF TypeOK, Bounded
  <2>2. CASE ~(enqueued[j] + 1 < NumWebhooks)
    <3>1. Leave(j, "forwarded") /\ UNCHANGED <<failures, stalled, seen, buffer, faults, blame>>
      BY <1>10, <2>2 DEF enqueueDelivery
    <3>2. "forwarded" \in Settled
      BY DEF Settled
    <3> QED
      BY <1>10, <3>1, <3>2, AddDelivery, LeaveType DEF TypeOK, Bounded
  <2> QED
    BY <2>1, <2>2
<1>11. ASSUME NEW j \in Jobs, stageFails(j) PROVE TypeOK' /\ Bounded'
  BY <1>11, LimitsAssumption
     DEF stageFails, retried, Goto, Leave, Fault, TypeOK, Bounded, Queued, Active, Settled
<1>12. ASSUME crash PROVE TypeOK' /\ Bounded'
  BY <1>12, LimitsAssumption
     DEF crash, Fault, Running, TypeOK, Bounded, Queued, Active, Settled
<1>13. ASSUME bufferExpires PROVE TypeOK' /\ Bounded'
  BY <1>13, LimitsAssumption DEF bufferExpires, Fault, TypeOK, Bounded
<1>14. CASE UNCHANGED vars
  BY <1>14 DEF vars, TypeOK, Bounded
<1> QED
  BY <1>1, <1>2, <1>3, <1>4, <1>5, <1>6, <1>7, <1>8, <1>9, <1>10, <1>11, <1>12, <1>13, <1>14
     DEF Next, Stage

\* What is stored never reaches the limit: only saveBuffer stores, and a job gets
\* to it only with a buffer read that leaves room.
LEMMA StepBelowLimit == IInv /\ [Next]_vars => BufferBelowLimit' /\ RoomToSave'
<1> SUFFICES ASSUME IInv, [Next]_vars PROVE BufferBelowLimit' /\ RoomToSave'
  OBVIOUS
<1> USE DEF IInv
<1>1. ASSUME NEW j \in Jobs, NEW next, next # "save", pc' = [pc EXCEPT ![j] = next],
             UNCHANGED loaded
      PROVE  RoomToSave'
  BY <1>1 DEF RoomToSave, TypeOK
<1>2. ASSUME NEW j \in Jobs, NEW outcome, outcome # "save", pc' = [pc EXCEPT ![j] = outcome],
             loaded' = [loaded EXCEPT ![j] = <<>>]
      PROVE  RoomToSave'
  BY <1>2 DEF RoomToSave, TypeOK
<1>3. ASSUME NEW j \in Jobs, loadBuffer(j) PROVE BufferBelowLimit' /\ RoomToSave'
  <2>1. PICK final, elapsed \in BOOLEAN :
          /\ loaded' = [loaded EXCEPT ![j] = buffer]
          /\ pc' = [pc EXCEPT ![j] =
               IF kind[j] = "media"
               THEN IF buffer = <<>> THEN "media" ELSE "clear"
               ELSE IF shouldFlushBuffer(Append(buffer, j), final, elapsed)
                    THEN "clear" ELSE "save"]
    BY <1>3 DEF loadBuffer, Goto
  <2>2. pc'[j] = "save" => ~(Len(Append(buffer, j)) >= MaxBuffered)
    BY <2>1 DEF shouldFlushBuffer, TypeOK
  <2>3. pc'[j] = "save" => Len(loaded'[j]) + 1 < MaxBuffered
    BY <2>1, <2>2, LimitsAssumption DEF TypeOK
  <2>4. \A i \in Jobs \ {j} : pc'[i] = pc[i] /\ loaded'[i] = loaded[i]
    BY <2>1 DEF TypeOK
  <2> QED
    BY <1>3, <2>3, <2>4 DEF loadBuffer, BufferBelowLimit, RoomToSave
<1>4. ASSUME NEW j \in Jobs, saveBuffer(j) PROVE BufferBelowLimit' /\ RoomToSave'
  <2>1. Len(Texts(j)) < MaxBuffered
    BY <1>4, LimitsAssumption DEF saveBuffer, RoomToSave, Texts, TypeOK
  <2> QED
    BY <1>2, <1>4, <2>1 DEF saveBuffer, Leave, Goto, BufferBelowLimit
<1>5. ASSUME NEW j \in Jobs, clearBuffer(j) PROVE BufferBelowLimit' /\ RoomToSave'
  <2>1. PICK next : next # "save" /\ pc' = [pc EXCEPT ![j] = next]
    BY <1>5 DEF clearBuffer, Goto
  <2>2. Len(buffer') = 0
    BY <1>5 DEF clearBuffer
  <2>3. BufferBelowLimit'
    BY <2>2, LimitsAssumption DEF BufferBelowLimit
  <2>4. UNCHANGED loaded
    BY <1>5 DEF clearBuffer
  <2>5. RoomToSave'
    BY <1>1, <2>1, <2>4
  <2> QED
    BY <2>3, <2>5
<1>6. ASSUME NEW j \in Jobs,
             handleMessagesUpsert(j) \/ processJob(j) \/ dedupGet(j) \/ dedupSet(j)
               \/ processMedia(j)
      PROVE  BufferBelowLimit' /\ RoomToSave'
  BY <1>1, <1>6
     DEF handleMessagesUpsert, processJob, dedupGet, dedupSet, processMedia, Goto,
         BufferBelowLimit
<1>7. ASSUME NEW j \in Jobs, loadWebhookConfigs(j) PROVE BufferBelowLimit' /\ RoomToSave'
  BY <1>1, <1>2, <1>7 DEF loadWebhookConfigs, Leave, Goto, BufferBelowLimit
<1>8. ASSUME NEW j \in Jobs, enqueueDelivery(j) PROVE BufferBelowLimit' /\ RoomToSave'
  BY <1>2, <1>8 DEF enqueueDelivery, Leave, Goto, BufferBelowLimit, RoomToSave
<1>9. ASSUME NEW j \in Jobs, stageFails(j) PROVE BufferBelowLimit' /\ RoomToSave'
  BY <1>2, <1>9 DEF stageFails, retried, Leave, Goto, BufferBelowLimit
<1>10. ASSUME crash PROVE BufferBelowLimit' /\ RoomToSave'
  BY <1>10 DEF crash, Running, Active, BufferBelowLimit, RoomToSave, TypeOK
<1>11. ASSUME bufferExpires PROVE BufferBelowLimit' /\ RoomToSave'
  BY <1>11, LimitsAssumption DEF bufferExpires, BufferBelowLimit, RoomToSave
<1>12. CASE UNCHANGED vars
  BY <1>12 DEF vars, BufferBelowLimit, RoomToSave
<1> QED
  BY <1>3, <1>4, <1>5, <1>6, <1>7, <1>8, <1>9, <1>10, <1>11, <1>12 DEF Next, Stage

LEMMA SpecIInv == Spec => []IInv
<1>1. Init => IInv
  BY InitIInv
<1>2. IInv /\ [Next]_vars => IInv'
  BY StepTypeOK, StepBelowLimit DEF IInv
<1> QED
  BY <1>1, <1>2, PTL DEF Spec

\* The variables keep their types, in particular every job fails at most
\* MaxAttempts times and a forward loop stays within the webhooks.
THEOREM TypeCorrect == Spec => []TypeOK
<1>1. IInv => TypeOK
  BY DEF IInv
<1> QED
  BY <1>1, SpecIInv, PTL

\* The stored buffer stays below the limit for every number of concurrent jobs.
THEOREM BufferStaysBelowLimit == Spec => []BufferBelowLimit
<1>1. IInv => BufferBelowLimit
  BY DEF IInv
<1> QED
  BY <1>1, SpecIInv, PTL
-----------------------------------------------------------------------------

\* A step that changes neither keys nor deliveries, starts no overlap, and takes no job to a
\* state in which something is asked of it, keeps Deduplicated.
LEMMA QuietStep ==
  ASSUME IInv, Deduplicated, UNCHANGED <<seen, deliveries>>,
         blame' \in {blame, blame \union {"media"}},
         \A i \in Jobs :
           \/ pc'[i] = pc[i] /\ (pc[i] = "add" => enqueued'[i] = enqueued[i])
           \/ pc'[i] \notin Active
           \/ pc[i] \in Past \ {"add"} /\ pc'[i] \in Past
  PROVE  Deduplicated'
<1> SUFFICES ASSUME "overlap" \notin blame
             PROVE  (OneRuns /\ DeliveredSeen /\ KeyFresh /\ OwnDeliveries /\ NotTwice)'
  BY DEF Deduplicated
<1>1. OneRuns /\ DeliveredSeen /\ KeyFresh /\ OwnDeliveries /\ NotTwice
  BY DEF Deduplicated
<1>2. OneRuns'
  <2>1. Running' \subseteq Running
    BY DEF Running, Past, Active
  <2> QED
    BY <1>1, <2>1 DEF OneRuns
<1>3. DeliveredSeen' /\ NotTwice'
  BY <1>1 DEF DeliveredSeen, NotTwice, SameMessage
<1>4. KeyFresh'
  BY <1>1 DEF KeyFresh, Active, Past
<1>5. OwnDeliveries'
  BY <1>1 DEF OwnDeliveries, Active, Past
<1> QED
  BY <1>2, <1>3, <1>4, <1>5

\* A job starts: if none was running it is the only one.
LEMMA StartStep ==
  ASSUME IInv, Deduplicated, NEW j \in Jobs, processJob(j)
  PROVE  Deduplicated'
<1> SUFFICES ASSUME "overlap" \notin blame'
             PROVE  (OneRuns /\ DeliveredSeen /\ KeyFresh /\ OwnDeliveries /\ NotTwice)'
  BY DEF Deduplicated
<1>1. /\ Running = {} /\ "overlap" \notin blame
      /\ pc' = [pc EXCEPT ![j] = "dedupGet"]
      /\ UNCHANGED <<enqueued, seen, deliveries>>
  BY DEF processJob, Note, Goto
<1>2. OneRuns /\ DeliveredSeen /\ KeyFresh /\ OwnDeliveries /\ NotTwice
  BY <1>1 DEF Deduplicated
<1>3. \A i \in Jobs \ {j} : pc'[i] = pc[i]
  BY <1>1 DEF IInv, TypeOK
<1>4. pc'[j] = "dedupGet"
  BY <1>1 DEF IInv, TypeOK
<1>5. Running' \subseteq {j}
  BY <1>1, <1>3 DEF Running
<1>6. OneRuns'
  BY <1>5 DEF OneRuns
<1>7. DeliveredSeen' /\ NotTwice'
  BY <1>1, <1>2 DEF DeliveredSeen, NotTwice, SameMessage
<1>8. KeyFresh' /\ OwnDeliveries'
  BY <1>1, <1>2, <1>3, <1>4 DEF KeyFresh, OwnDeliveries, Past
<1> QED
  BY <1>6, <1>7, <1>8

\* The key is read: only a job whose key is not set goes on.
LEMMA GetStep ==
  ASSUME IInv, Deduplicated, NEW j \in Jobs, dedupGet(j)
  PROVE  Deduplicated'
<1> SUFFICES ASSUME "overlap" \notin blame'
             PROVE  (OneRuns /\ DeliveredSeen /\ KeyFresh /\ OwnDeliveries /\ NotTwice)'
  BY DEF Deduplicated
<1>1. /\ pc[j] = "dedupGet"
      /\ pc' = [pc EXCEPT ![j] = IF key[j] \in seen THEN "dropped" ELSE "dedupSet"]
      /\ UNCHANGED <<enqueued, seen, deliveries, blame>>
  BY DEF dedupGet, Goto
<1>2. OneRuns /\ DeliveredSeen /\ KeyFresh /\ OwnDeliveries /\ NotTwice
  BY <1>1 DEF Deduplicated
<1>3. \A i \in Jobs \ {j} : pc'[i] = pc[i]
  BY <1>1 DEF IInv, TypeOK
<1>4. pc'[j] = IF key[j] \in seen THEN "dropped" ELSE "dedupSet"
  BY <1>1 DEF IInv, TypeOK
<1>5. Running' \subseteq Running
  BY <1>1, <1>3 DEF Running, Active
<1>6. OneRuns'
  BY <1>2, <1>5 DEF OneRuns
<1>7. DeliveredSeen' /\ NotTwice'
  BY <1>1, <1>2 DEF DeliveredSeen, NotTwice, SameMessage
<1>8. KeyFresh' /\ OwnDeliveries'
  BY <1>1, <1>2, <1>3, <1>4 DEF KeyFresh, OwnDeliveries, Past
<1> QED
  BY <1>6, <1>7, <1>8

\* The key is set: as it was not, no delivery has it.
LEMMA SetStep ==
  ASSUME IInv, Deduplicated, NEW j \in Jobs, dedupSet(j)
  PROVE  Deduplicated'
<1> SUFFICES ASSUME "overlap" \notin blame'
             PROVE  (OneRuns /\ DeliveredSeen /\ KeyFresh /\ OwnDeliveries /\ NotTwice)'
  BY DEF Deduplicated
<1>1. /\ pc[j] = "dedupSet"
      /\ pc' = [pc EXCEPT ![j] = "load"]
      /\ seen' = seen \union {key[j]}
      /\ UNCHANGED <<enqueued, deliveries, blame>>
  BY DEF dedupSet, Goto
<1>2. OneRuns /\ DeliveredSeen /\ KeyFresh /\ OwnDeliveries /\ NotTwice
  BY <1>1 DEF Deduplicated
<1>3. \A i \in Jobs \ {j} : pc'[i] = pc[i]
  BY <1>1 DEF IInv, TypeOK
<1>4. pc'[j] = "load"
  BY <1>1 DEF IInv, TypeOK
<1>5. \A i \in Jobs \ {j} : pc[i] \notin Active
  BY <1>1, <1>2 DEF OneRuns, Running, Active
<1>6. OneRuns'
  BY <1>3, <1>5 DEF OneRuns, Running
<1>7. DeliveredSeen' /\ NotTwice'
  BY <1>1, <1>2 DEF DeliveredSeen, NotTwice, SameMessage
<1>8. KeyFresh'
  BY <1>3, <1>4, <1>5 DEF KeyFresh, Active
<1>9. \A d \in deliveries : key[d.job] # key[j]
  BY <1>1, <1>2 DEF DeliveredSeen, KeyFresh
<1>10. OwnDeliveries'
  BY <1>1, <1>3, <1>4, <1>5, <1>9 DEF OwnDeliveries, Active, Past
<1> QED
  BY <1>6, <1>7, <1>8, <1>10

\* A delivery is added: its webhook is past those of the loop's earlier turns.
LEMMA AddStep ==
  ASSUME IInv, Deduplicated, NEW j \in Jobs, enqueueDelivery(j)
  PROVE  Deduplicated'
<1> SUFFICES ASSUME "overlap" \notin blame'
             PROVE  (OneRuns /\ DeliveredSeen /\ KeyFresh /\ OwnDeliveries /\ NotTwice)'
  BY DEF Deduplicated
<1> DEFINE n == enqueued[j] + 1
           new == [job |-> j, copy |-> Copies(j, n), webhook |-> n, texts |-> Texts(j)]
<1>1. /\ pc[j] = "add"
      /\ deliveries' = deliveries \union {new}
      /\ UNCHANGED <<seen, blame>>
  BY DEF enqueueDelivery
<1>2. \/ enqueued' = [enqueued EXCEPT ![j] = n] /\ pc' = pc
      \/ pc' = [pc EXCEPT ![j] = "forwarded"]
  BY DEF enqueueDelivery, Leave, Goto
<1>3. OneRuns /\ DeliveredSeen /\ KeyFresh /\ OwnDeliveries /\ NotTwice
  BY <1>1 DEF Deduplicated
<1>4. new.job = j /\ new.webhook = n
  OBVIOUS
<1> HIDE DEF new
<1>5. \A i \in Jobs \ {j} : pc[i] \notin Active /\ pc'[i] = pc[i]
  BY <1>1, <1>2, <1>3 DEF OneRuns, Running, Active, IInv, TypeOK
<1>6. OneRuns'
  BY <1>5 DEF OneRuns, Running
<1>7. key[j] \in seen /\ \A d \in deliveries : key[d.job] = key[j] => d.webhook <= enqueued[j]
  BY <1>1, <1>3 DEF OwnDeliveries, Past
<1>8. DeliveredSeen'
  BY <1>1, <1>3, <1>4, <1>7 DEF DeliveredSeen
<1>9. enqueued[j] \in Nat /\ \A d \in deliveries : d.webhook \in Nat
  BY LimitsAssumption DEF IInv, TypeOK, Delivery
<1>10. NotTwice'
  <2>1. \A d \in deliveries : ~SameMessage(d, new) /\ ~SameMessage(new, d)
    BY <1>4, <1>7, <1>9 DEF SameMessage
  <2> QED
    BY <1>1, <1>3, <2>1 DEF NotTwice, SameMessage
<1>11. KeyFresh'
  BY <1>1, <1>2, <1>5 DEF KeyFresh, Active, IInv, TypeOK
<1>12. OwnDeliveries'
  <2>1. ASSUME NEW i \in Jobs, pc'[i] \in Past
        PROVE  /\ key[i] \in seen'
               /\ \A d \in deliveries' : key[d.job] = key[i] =>
                    pc'[i] = "add" /\ d.webhook <= enqueued'[i]
    <3>1. i = j
      BY <1>5, <2>1 DEF Past, Active
    <3>2. pc'[j] = "add" /\ enqueued'[j] = n
      BY <1>1, <1>2, <2>1, <3>1 DEF Past, IInv, TypeOK
    <3> QED
      BY <1>1, <1>4, <1>7, <1>9, <3>1, <3>2
  <2> QED
    BY <2>1 DEF OwnDeliveries
<1> QED
  BY <1>6, <1>8, <1>10, <1>11, <1>12

LEMMA StepDeduplicated == IInv /\ Deduplicated /\ [Next]_vars => Deduplicated'
<1> SUFFICES ASSUME IInv, Deduplicated, [Next]_vars PROVE Deduplicated'
  OBVIOUS
<1>1. ASSUME NEW j \in Jobs, handleMessagesUpsert(j) PROVE Deduplicated'
  BY <1>1, QuietStep DEF handleMessagesUpsert, Goto, Active, IInv, TypeOK
<1>2. ASSUME NEW j \in Jobs, loadBuffer(j) \/ saveBuffer(j) \/ processMedia(j)
      PROVE  Deduplicated'
  BY <1>2, QuietStep
     DEF loadBuffer, saveBuffer, processMedia, Leave, Goto, Active, Past, IInv, TypeOK
<1>3. ASSUME NEW j \in Jobs, clearBuffer(j) PROVE Deduplicated'
  BY <1>3, QuietStep DEF clearBuffer, Note, Goto, Active, Past, IInv, TypeOK
<1>4. ASSUME NEW j \in Jobs, loadWebhookConfigs(j) PROVE Deduplicated'
  BY <1>4, QuietStep DEF loadWebhookConfigs, Leave, Goto, Active, Past, IInv, TypeOK
<1>5. ASSUME NEW j \in Jobs, stageFails(j) PROVE Deduplicated'
  BY <1>5, QuietStep DEF stageFails, retried, Leave, Goto, Active, IInv, TypeOK
<1>6. ASSUME crash PROVE Deduplicated'
  BY <1>6, QuietStep DEF crash, Running, Active, IInv, TypeOK
<1>7. ASSUME bufferExpires PROVE Deduplicated'
  BY <1>7, QuietStep DEF bufferExpires
<1>8. CASE UNCHANGED vars
  BY <1>8, QuietStep DEF vars
<1> QED
  BY <1>1, <1>2, <1>3, <1>4, <1>5, <1>6, <1>7, <1>8, StartStep, GetStep, SetStep, AddStep
     DEF Next, Stage

LEMMA SpecDeduplicated == Spec => []Deduplicated
<1>1. Init => Deduplicated
  BY DEF Init, Deduplicated, OneRuns, DeliveredSeen, KeyFresh, OwnDeliveries, NotTwice,
         Running, Active, Past
<1>2. IInv /\ Deduplicated /\ [Next]_vars => Deduplicated'
  BY StepDeduplicated
<1> QED
  BY <1>1, <1>2, SpecIInv, PTL DEF Spec

\* Until two jobs overlap, no webhook gets a message twice, for every number of
\* jobs, of messages notified twice, of retries and of crashes.
THEOREM DeliveredAtMostOnce == Spec => []AtMostOncePerWebhook
<1>1. Deduplicated => AtMostOncePerWebhook
  BY DEF Deduplicated, NotTwice, AtMostOncePerWebhook
<1> QED
  BY <1>1, SpecDeduplicated, PTL
-----------------------------------------------------------------------------

\* What is known of the texts until two jobs overlap.  A text counts as used when
\* it is buffered, delivered or handed on by a running job: its key is set then, so
\* that a job which has just set its key hands on a text nobody has.
Handing == {"save", "clear", "media", "configs", "add"}

Delivered(j) == \E d \in deliveries : InSeq(j, d.texts)

UsedSeen ==
  \A j \in Jobs :
    /\ InSeq(j, buffer) \/ Delivered(j) => key[j] \in seen
    /\ \A r \in Jobs : pc[r] \in Handing /\ InSeq(j, Texts(r)) => key[j] \in seen

LoadsUnused == \A r \in Jobs : pc[r] = "load" => ~InSeq(r, buffer) /\ ~Delivered(r)

BufferUndelivered == \A j \in Jobs : InSeq(j, buffer) => ~Delivered(j)

\* What a job hands on nobody has delivered, but the job itself once it has come to
\* its loop; by then the buffer is cleared.
HandsUndelivered ==
  \A r, j \in Jobs : pc[r] \in Handing /\ InSeq(j, Texts(r)) =>
    /\ \A d \in deliveries : InSeq(j, d.texts) => pc[r] = "add" /\ d.job = r
    /\ pc[r] \in {"media", "configs", "add"} => buffer = <<>>

DeliveredByOne ==
  \A d, e \in deliveries : \A j \in Jobs :
    InSeq(j, d.texts) /\ InSeq(j, e.texts) => d.job = e.job

TextsUnique ==
  "overlap" \notin blame =>
    UsedSeen /\ LoadsUnused /\ BufferUndelivered /\ HandsUndelivered /\ DeliveredByOne

LEMMA InSeqFacts ==
  /\ \A j : ~InSeq(j, <<>>)
  /\ \A s \in Seq(Jobs) : \A j, k \in Jobs : InSeq(j, Append(s, k)) <=> InSeq(j, s) \/ j = k
<1>1. \A j : ~InSeq(j, <<>>)
  BY DEF InSeq
<1>2. ASSUME NEW s \in Seq(Jobs), NEW j \in Jobs, NEW k \in Jobs
      PROVE  InSeq(j, Append(s, k)) <=> InSeq(j, s) \/ j = k
  <2>1. /\ Len(Append(s, k)) = Len(s) + 1 /\ Len(s) \in Nat /\ Append(s, k)[Len(s) + 1] = k
        /\ \A i \in 1..Len(s) : Append(s, k)[i] = s[i]
    OBVIOUS
  <2> QED
    BY <2>1 DEF InSeq
<1> QED
  BY <1>1, <1>2

\* Of a text job, the texts it read and its own; of a media job none.
LEMMA TextsFacts ==
  ASSUME TypeOK, NEW r \in Jobs, NEW j \in Jobs
  PROVE  InSeq(j, Texts(r)) <=> kind[r] # "media" /\ (InSeq(j, loaded[r]) \/ j = r)
  BY InSeqFacts DEF Texts, TypeOK

\* A step that changes neither keys nor deliveries nor the buffer but for emptying
\* it, and takes no job to a state in which something is asked of it.
LEMMA QuietTexts ==
  ASSUME IInv, TextsUnique, UNCHANGED <<seen, deliveries>>, buffer' \in {buffer, <<>>},
         blame' \in {blame, blame \union {"media"}, blame \union {"overlap"}},
         \A i \in Jobs :
           \/ pc'[i] = pc[i] /\ loaded'[i] = loaded[i]
           \/ pc'[i] \notin Handing \union {"load"}
  PROVE  TextsUnique'
<1> SUFFICES ASSUME "overlap" \notin blame'
             PROVE  (UsedSeen /\ LoadsUnused /\ BufferUndelivered /\ HandsUndelivered
                      /\ DeliveredByOne)'
  BY DEF TextsUnique
<1>1. UsedSeen /\ LoadsUnused /\ BufferUndelivered /\ HandsUndelivered /\ DeliveredByOne
  BY DEF TextsUnique
<1>2. \A j \in Jobs : InSeq(j, buffer') => InSeq(j, buffer)
  BY InSeqFacts
<1>3. \A j \in Jobs : Delivered(j)' <=> Delivered(j)
  BY DEF Delivered
<1>4. \A r \in Jobs : pc'[r] \in Handing \union {"load"} => pc[r] = pc'[r] /\ Texts(r)' = Texts(r)
  BY DEF Texts
<1>5. UsedSeen'
  BY <1>1, <1>2, <1>3, <1>4 DEF UsedSeen
<1>6. LoadsUnused' /\ BufferUndelivered'
  BY <1>1, <1>2, <1>3, <1>4 DEF LoadsUnused, BufferUndelivered
<1>7. HandsUndelivered'
  BY <1>1, <1>4 DEF HandsUndelivered
<1>8. DeliveredByOne'
  BY <1>1 DEF DeliveredByOne
<1> QED
  BY <1>5, <1>6, <1>7, <1>8

\* With no overlap, the others are not in the stages while a job is.
LEMMA OthersIdle ==
  ASSUME IInv, Deduplicated, "overlap" \notin blame, NEW j \in Jobs, pc[j] \in Active,
         NEW i \in Jobs \ {j}
  PROVE  pc[i] \notin Active
  BY DEF Deduplicated, OneRuns, Running

\* The only job in the stages moves on: what has to hold of it, and of the buffer
\* and the deliveries, which it alone changes.
LEMMA OneMoves ==
  ASSUME IInv, Deduplicated, "overlap" \notin blame, NEW j \in Jobs, pc[j] \in Active,
         \A i \in Jobs \ {j} : pc'[i] = pc[i],
         UsedSeen',
         BufferUndelivered', DeliveredByOne',
         pc'[j] = "load" => ~InSeq(j, buffer') /\ ~Delivered(j)',
         pc'[j] \in Handing =>
           \A i \in Jobs : InSeq(i, Texts(j)') =>
             /\ \A d \in deliveries' : InSeq(i, d.texts) => pc'[j] = "add" /\ d.job = j
             /\ pc'[j] \in {"media", "configs", "add"} => buffer' = <<>>
  PROVE  TextsUnique'
<1>1. \A r \in Jobs : pc'[r] \in Active => r = j
  BY OthersIdle
<1>2. LoadsUnused'
  BY <1>1 DEF LoadsUnused, Active
<1>3. HandsUndelivered'
  BY <1>1 DEF HandsUndelivered, Active, Handing
<1> QED
  BY <1>2, <1>3 DEF TextsUnique

\* The key is set: as it was not, nobody has the job's own text.
LEMMA SetTexts ==
  ASSUME IInv, Deduplicated, TextsUnique, NEW j \in Jobs, dedupSet(j)
  PROVE  TextsUnique'
<1> SUFFICES ASSUME "overlap" \notin blame PROVE TextsUnique'
  BY DEF TextsUnique, dedupSet
<1>1. UsedSeen /\ LoadsUnused /\ BufferUndelivered /\ HandsUndelivered /\ DeliveredByOne
  BY DEF TextsUnique
<1>2. /\ pc[j] = "dedupSet" /\ pc' = [pc EXCEPT ![j] = "load"]
      /\ seen' = seen \union {key[j]}
      /\ UNCHANGED <<loaded, buffer, deliveries>>
  BY DEF dedupSet, Goto
<1>3. pc'[j] = "load" /\ \A i \in Jobs \ {j} : pc'[i] = pc[i]
  BY <1>2 DEF IInv, TypeOK
<1>4. key[j] \notin seen
  BY <1>2 DEF Deduplicated, KeyFresh
<1>5. \A i \in Jobs : Delivered(i)' <=> Delivered(i)
  BY <1>2 DEF Delivered
<1>6. ~InSeq(j, buffer) /\ ~Delivered(j)
  BY <1>1, <1>4 DEF UsedSeen
<1>7. \A r \in Jobs : Texts(r)' = Texts(r)
  BY <1>2 DEF Texts
<1>8. UsedSeen'
  BY <1>1, <1>2, <1>3, <1>5, <1>7 DEF UsedSeen, Handing
<1>9. BufferUndelivered' /\ DeliveredByOne'
  BY <1>1, <1>2, <1>5 DEF BufferUndelivered, DeliveredByOne
<1> QED
  BY <1>2, <1>3, <1>5, <1>6, <1>8, <1>9, OneMoves DEF Active, Handing

\* The texts read are in the buffer, hence undelivered; so is the job's own.
LEMMA LoadTexts ==
  ASSUME IInv, Deduplicated, TextsUnique, NEW j \in Jobs, loadBuffer(j)
  PROVE  TextsUnique'
<1> SUFFICES ASSUME "overlap" \notin blame PROVE TextsUnique'
  BY DEF TextsUnique, loadBuffer
<1>1. UsedSeen /\ LoadsUnused /\ BufferUndelivered /\ HandsUndelivered /\ DeliveredByOne
  BY DEF TextsUnique
<1>2. PICK next \in {"media", "clear", "save"} :
        /\ pc[j] = "load" /\ pc' = [pc EXCEPT ![j] = next]
        /\ next = "media" => kind[j] = "media"
        /\ loaded' = [loaded EXCEPT ![j] = buffer]
        /\ UNCHANGED <<seen, buffer, deliveries>>
  BY DEF loadBuffer, Goto
<1>3. /\ pc'[j] = next /\ \A i \in Jobs \ {j} : pc'[i] = pc[i]
      /\ loaded'[j] = buffer /\ \A i \in Jobs \ {j} : loaded'[i] = loaded[i]
  BY <1>2 DEF IInv, TypeOK
<1>4. \A i \in Jobs : Delivered(i)' <=> Delivered(i)
  BY <1>2 DEF Delivered
<1>5. \A i \in Jobs : InSeq(i, Texts(j)') =>
        kind[j] # "media" /\ (InSeq(i, buffer) \/ i = j)
  BY <1>3, InSeqFacts DEF IInv, TypeOK, Texts
<1>6. \A r \in Jobs \ {j} : Texts(r)' = Texts(r)
  BY <1>3 DEF Texts
<1>7. key[j] \in seen /\ ~InSeq(j, buffer) /\ ~Delivered(j)
  BY <1>1, <1>2 DEF LoadsUnused, Deduplicated, OwnDeliveries, Past
<1>8. UsedSeen'
  BY <1>1, <1>2, <1>3, <1>4, <1>5, <1>6, <1>7 DEF UsedSeen
<1>9. BufferUndelivered' /\ DeliveredByOne'
  BY <1>1, <1>2, <1>4 DEF BufferUndelivered, DeliveredByOne
<1>10. \A i \in Jobs : InSeq(i, Texts(j)') => ~Delivered(i) /\ next # "media"
  BY <1>1, <1>2, <1>5, <1>7 DEF BufferUndelivered
<1> QED
  BY <1>2, <1>3, <1>8, <1>9, <1>10, OneMoves DEF Active, Handing, Delivered

\* What is stored is what the job hands on.
LEMMA SaveTexts ==
  ASSUME IInv, Deduplicated, TextsUnique, NEW j \in Jobs, saveBuffer(j)
  PROVE  TextsUnique'
<1> SUFFICES ASSUME "overlap" \notin blame PROVE TextsUnique'
  BY DEF TextsUnique, saveBuffer
<1>1. UsedSeen /\ LoadsUnused /\ BufferUndelivered /\ HandsUndelivered /\ DeliveredByOne
  BY DEF TextsUnique
<1>2. /\ pc[j] = "save" /\ pc' = [pc EXCEPT ![j] = "buffered"]
      /\ loaded' = [loaded EXCEPT ![j] = <<>>]
      /\ buffer' = Texts(j)
      /\ UNCHANGED <<seen, deliveries>>
  BY DEF saveBuffer, Leave, Goto
<1>3. /\ pc'[j] = "buffered" /\ \A i \in Jobs \ {j} : pc'[i] = pc[i] /\ loaded'[i] = loaded[i]
  BY <1>2 DEF IInv, TypeOK
<1>4. \A i \in Jobs : Delivered(i)' <=> Delivered(i)
  BY <1>2 DEF Delivered
<1>5. \A r \in Jobs \ {j} : Texts(r)' = Texts(r)
  BY <1>3 DEF Texts
<1>6. UsedSeen'
  BY <1>1, <1>2, <1>3, <1>4, <1>5 DEF UsedSeen, Handing
<1>7. \A i \in Jobs : InSeq(i, buffer') => ~Delivered(i)
  BY <1>1, <1>2 DEF HandsUndelivered, Handing, Delivered
<1>8. BufferUndelivered' /\ DeliveredByOne'
  BY <1>1, <1>2, <1>4, <1>7 DEF BufferUndelivered, DeliveredByOne
<1> QED
  BY <1>2, <1>3, <1>6, <1>8, OneMoves DEF Active, Handing

\* The job goes on, or comes to its loop, with the texts it hands on and the
\* buffer cleared.
LEMMA CarryTexts ==
  ASSUME IInv, Deduplicated, TextsUnique, NEW j \in Jobs, "overlap" \notin blame,
         pc[j] \in {"clear", "media", "configs"}, pc'[j] \in {"media", "configs", "add"},
         \A i \in Jobs \ {j} : pc'[i] = pc[i],
         buffer' = <<>> \/ (pc[j] # "clear" /\ buffer' = buffer),
         UNCHANGED <<loaded, seen, deliveries>>
  PROVE  TextsUnique'
<1>1. UsedSeen /\ LoadsUnused /\ BufferUndelivered /\ HandsUndelivered /\ DeliveredByOne
  BY DEF TextsUnique
<1>2. \A i \in Jobs : Delivered(i)' <=> Delivered(i)
  BY DEF Delivered
<1>3. \A r \in Jobs : Texts(r)' = Texts(r)
  BY DEF Texts
<1>4. \A i \in Jobs : InSeq(i, buffer') => InSeq(i, buffer)
  BY InSeqFacts
<1>5. UsedSeen'
  BY <1>1, <1>2, <1>3, <1>4 DEF UsedSeen, Handing
<1>6. BufferUndelivered' /\ DeliveredByOne'
  BY <1>1, <1>2, <1>4 DEF BufferUndelivered, DeliveredByOne
<1>7. \A i \in Jobs : InSeq(i, Texts(j)) =>
        /\ \A d \in deliveries : ~InSeq(i, d.texts)
        /\ pc[j] # "clear" => buffer = <<>>
  BY <1>1 DEF HandsUndelivered, Handing
<1> QED
  BY <1>3, <1>5, <1>6, <1>7, OneMoves DEF Active, Handing

\* A delivery is added: its texts were undelivered, or the job's own earlier turns.
LEMMA AddTexts ==
  ASSUME IInv, Deduplicated, TextsUnique, NEW j \in Jobs, enqueueDelivery(j)
  PROVE  TextsUnique'
<1> SUFFICES ASSUME "overlap" \notin blame PROVE TextsUnique'
  BY DEF TextsUnique, enqueueDelivery
<1> DEFINE n == enqueued[j] + 1
           new == [job |-> j, copy |-> Copies(j, n), webhook |-> n, texts |-> Texts(j)]
<1>1. UsedSeen /\ LoadsUnused /\ BufferUndelivered /\ HandsUndelivered /\ DeliveredByOne
  BY DEF TextsUnique
<1>2. /\ pc[j] = "add"
      /\ deliveries' = deliveries \union {new}
      /\ UNCHANGED <<seen, buffer>>
  BY DEF enqueueDelivery
<1>3. new.job = j /\ new.texts = Texts(j)
  OBVIOUS
<1> HIDE DEF new
<1>4. \/ pc' = pc /\ loaded' = loaded
      \/ pc' = [pc EXCEPT ![j] = "forwarded"] /\ loaded' = [loaded EXCEPT ![j] = <<>>]
  BY DEF enqueueDelivery, Leave, Goto
<1>5. /\ \A i \in Jobs \ {j} : pc'[i] = pc[i] /\ loaded'[i] = loaded[i]
      /\ pc'[j] = "forwarded" \/ (pc'[j] = "add" /\ loaded'[j] = loaded[j])
  <2>1. CASE pc' = pc /\ loaded' = loaded
    BY <1>2, <2>1
  <2>2. CASE pc' = [pc EXCEPT ![j] = "forwarded"] /\ loaded' = [loaded EXCEPT ![j] = <<>>]
    BY <2>2 DEF IInv, TypeOK
  <2> QED
    BY <1>4, <2>1, <2>2
<1>6. \A r \in Jobs : pc'[r] \in Handing => pc[r] = pc'[r] /\ Texts(r)' = Texts(r)
  <2>1. ASSUME NEW r \in Jobs, pc'[r] \in Handing
        PROVE  pc[r] = pc'[r] /\ loaded'[r] = loaded[r]
    BY <1>2, <1>5, <2>1 DEF Handing
  <2> QED
    BY <2>1 DEF Texts
<1>7. \A i \in Jobs : Delivered(i)' <=> Delivered(i) \/ InSeq(i, Texts(j))
  BY <1>2, <1>3 DEF Delivered
<1>8. \A i \in Jobs : InSeq(i, Texts(j)) =>
        /\ buffer = <<>> /\ key[i] \in seen
        /\ \A d \in deliveries : InSeq(i, d.texts) => d.job = j
  BY <1>1, <1>2 DEF HandsUndelivered, UsedSeen, Handing
<1>9. UsedSeen'
  BY <1>1, <1>2, <1>6, <1>7, <1>8 DEF UsedSeen
<1>10. BufferUndelivered'
  BY <1>1, <1>2, <1>7, <1>8, InSeqFacts DEF BufferUndelivered
<1>11. DeliveredByOne'
  BY <1>1, <1>2, <1>3, <1>8 DEF DeliveredByOne
<1>12. \A i \in Jobs : InSeq(i, Texts(j)) =>
         \A d \in deliveries' : InSeq(i, d.texts) => d.job = j
  BY <1>2, <1>3, <1>8
<1> QED
  BY <1>2, <1>5, <1>6, <1>8, <1>9, <1>10, <1>11, <1>12, OneMoves DEF Active, Handing

LEMMA StepTextsUnique == IInv /\ Deduplicated /\ TextsUnique /\ [Next]_vars => TextsUnique'
<1> SUFFICES ASSUME IInv, Deduplicated, TextsUnique, [Next]_vars PROVE TextsUnique'
  OBVIOUS
<1>1. ASSUME NEW j \in Jobs, handleMessagesUpsert(j) \/ dedupGet(j) PROVE TextsUnique'
  BY <1>1, QuietTexts DEF handleMessagesUpsert, dedupGet, Goto, Handing, IInv, TypeOK
<1>2. ASSUME NEW j \in Jobs, processJob(j) PROVE TextsUnique'
  BY <1>2, QuietTexts DEF processJob, Note, Goto, Handing, IInv, TypeOK
<1>3. ASSUME NEW j \in Jobs, clearBuffer(j) PROVE TextsUnique'
  <2>1. CASE "overlap" \in blame
    BY <1>3, <2>1 DEF clearBuffer, Note, TextsUnique
  <2>2. CASE "overlap" \notin blame
    <3>1. /\ pc[j] \in {"clear", "media", "configs"}
          /\ buffer' = <<>> \/ (pc[j] # "clear" /\ buffer' = buffer)
          /\ UNCHANGED <<loaded, seen, deliveries>>
      BY <1>3 DEF clearBuffer
    <3>2. pc'[j] \in {"media", "configs", "add"} /\ \A i \in Jobs \ {j} : pc'[i] = pc[i]
      BY <1>3 DEF clearBuffer, Goto, IInv, TypeOK
    <3> QED
      BY <2>2, <3>1, <3>2, CarryTexts
  <2> QED
    BY <2>1, <2>2
<1>4. ASSUME NEW j \in Jobs, processMedia(j) PROVE TextsUnique'
  <2>1. CASE "overlap" \in blame
    BY <1>4, <2>1 DEF processMedia, TextsUnique
  <2>2. CASE "overlap" \notin blame
    BY <1>4, <2>2, CarryTexts DEF processMedia, Goto, IInv, TypeOK
  <2> QED
    BY <2>1, <2>2
<1>5. ASSUME NEW j \in Jobs, loadWebhookConfigs(j) PROVE TextsUnique'
  <2>1. CASE "overlap" \in blame
    BY <1>5, <2>1 DEF loadWebhookConfigs, TextsUnique
  <2>2. CASE "overlap" \notin blame /\ Goto(j, "add") /\ UNCHANGED <<loaded, enqueued, faults>>
    BY <1>5, <2>2, CarryTexts DEF loadWebhookConfigs, Goto, IInv, TypeOK
  <2>3. CASE Leave(j, "forwarded")
    BY <1>5, <2>3, QuietTexts DEF loadWebhookConfigs, Leave, Goto, Handing, IInv, TypeOK
  <2> QED
    BY <1>5, <2>1, <2>2, <2>3 DEF loadWebhookConfigs
<1>6. ASSUME NEW j \in Jobs, stageFails(j) PROVE TextsUnique'
  BY <1>6, QuietTexts DEF stageFails, retried, Leave, Goto, Handing, IInv, TypeOK
<1>7. ASSUME crash PROVE TextsUnique'
  <2>1. \A i \in Jobs : (pc'[i] = pc[i] /\ pc[i] \notin Active) \/ pc'[i] \in {"failed", "waiting"}
    BY <1>7 DEF crash, Running
  <2> QED
    BY <1>7, <2>1, QuietTexts DEF crash, Handing, Active
<1>8. ASSUME bufferExpires PROVE TextsUnique'
  BY <1>8, QuietTexts DEF bufferExpires
<1>9. CASE UNCHANGED vars
  BY <1>9, QuietTexts DEF vars
<1> QED
  BY <1>1, <1>2, <1>3, <1>4, <1>5, <1>6, <1>7, <1>8, <1>9, SetTexts, LoadTexts, SaveTexts, AddTexts
     DEF Next, Stage

\* Until two jobs overlap, a buffered text reaches a webhook in the flush of one
\* message only, for every number of jobs, failures and crashes.
THEOREM TextForwardedOnce == Spec => []TextIsForwardedOnce
<1>1. Init => TextsUnique
  BY InSeqFacts DEF Init, TextsUnique, UsedSeen, LoadsUnused, BufferUndelivered,
     HandsUndelivered, DeliveredByOne, Delivered, Handing
<1>2. IInv /\ Deduplicated /\ TextsUnique /\ [Next]_vars => TextsUnique'
  BY StepTextsUnique
<1>3. TextsUnique => TextIsForwardedOnce
  BY DEF TextsUnique, DeliveredByOne, TextIsForwardedOnce
<1> QED
  BY <1>1, <1>2, <1>3, SpecIInv, SpecDeduplicated, PTL DEF Spec
-----------------------------------------------------------------------------

\* Until jobs overlap, something fails or a media message clears the texts: a job
\* about to store or to clear the buffer has read what is still in it, and only a
\* text is stored.
Unspoilt == faults = 0 /\ blame = {}

HoldsBuffer ==
  \A r \in Jobs :
    /\ pc[r] \in {"save", "clear"} => loaded[r] = buffer
    /\ pc[r] = "save" => kind[r] # "media"

KeepIInv == Unspoilt => HoldsBuffer /\ \A j \in Accepted : Kept(j)

\* A step of one job, the only one in the stages: the texts kept before are kept
\* after it, and so is the job's own if it is accepted.
LEMMA KeepStep ==
  ASSUME IInv, Deduplicated, KeepIInv, Unspoilt, NEW j \in Jobs, pc[j] \in Active,
         \A i \in Jobs \ {j} : pc'[i] = pc[i],
         \A i \in Jobs \ {j} : Kept(i) => Kept(i)',
         j \in Accepted' => Kept(j)',
         pc'[j] \in {"save", "clear"} => loaded'[j] = buffer',
         pc'[j] = "save" => kind[j] # "media"
  PROVE  KeepIInv'
<1>1. \A i \in Jobs \ {j} : pc'[i] \notin Active
  BY OthersIdle DEF Unspoilt
<1>2. HoldsBuffer'
  BY <1>1 DEF HoldsBuffer, Active
<1>3. \A i \in Accepted' \ {j} : i \in Accepted /\ i \in Jobs
  BY DEF Accepted
<1>4. \A i \in Accepted' : Kept(i)'
  BY <1>3 DEF KeepIInv
<1> QED
  BY <1>2, <1>4 DEF KeepIInv

\* A step of the job j outside of buffer and deliveries: at most j becomes a
\* carrier, and as such it keeps its own text.
LEMMA KeepQuiet ==
  ASSUME TypeOK', NEW j \in Jobs, KeepIInv, UNCHANGED <<buffer, deliveries, faults>>,
         blame' = {} => blame = {},
         \A i \in Jobs \ {j} : pc'[i] = pc[i] /\ loaded'[i] = loaded[i],
         j \notin Carriers,
         pc'[j] \notin {"buffered", "forwarded", "save", "clear"}
  PROVE  KeepIInv'
<1> SUFFICES ASSUME Unspoilt' PROVE HoldsBuffer' /\ \A i \in Accepted' : Kept(i)'
  BY DEF KeepIInv
<1>1. Unspoilt /\ HoldsBuffer /\ \A i \in Accepted : Kept(i)
  BY DEF KeepIInv, Unspoilt
<1>2. HoldsBuffer'
  BY <1>1 DEF HoldsBuffer
<1>3. \A c \in Carriers : c \in Carriers' /\ Texts(c)' = Texts(c)
  BY DEF Carriers, Texts
<1>4. \A i \in Jobs : Kept(i) => Kept(i)'
  BY <1>3 DEF Kept
<1>5. ASSUME NEW i \in Accepted' PROVE Kept(i)'
  <2>1. CASE i = j
    <3>1. i \in Carriers' /\ kind[i] # "media"
      BY <1>5, <2>1 DEF Accepted, Carriers
    <3>2. InSeq(i, Texts(i)')
      BY <2>1, <3>1, InSeqFacts DEF Texts, TypeOK
    <3> QED
      BY <3>1, <3>2 DEF Kept
  <2>2. CASE i # j
    BY <1>1, <1>4, <1>5, <2>2 DEF Accepted
  <2> QED
    BY <2>1, <2>2
<1> QED
  BY <1>2, <1>5

\* The job reads the buffer: it has read what is in it.
LEMMA KeepLoad ==
  ASSUME IInv, Deduplicated, KeepIInv, NEW j \in Jobs, loadBuffer(j)
  PROVE  KeepIInv'
<1> SUFFICES ASSUME Unspoilt PROVE KeepIInv'
  BY DEF KeepIInv, Unspoilt, loadBuffer
<1>1. PICK next \in {"media", "clear", "save"} :
        /\ pc[j] = "load" /\ pc' = [pc EXCEPT ![j] = next]
        /\ next = "save" => kind[j] # "media"
        /\ loaded' = [loaded EXCEPT ![j] = buffer]
        /\ UNCHANGED <<buffer, deliveries>>
  BY DEF loadBuffer, Goto
<1>2. /\ pc'[j] = next /\ \A i \in Jobs \ {j} : pc'[i] = pc[i]
      /\ loaded'[j] = buffer /\ \A i \in Jobs \ {j} : loaded'[i] = loaded[i]
  BY <1>1 DEF IInv, TypeOK
<1>3. \A c \in Carriers : c \in Carriers' /\ Texts(c)' = Texts(c)
  BY <1>1, <1>2 DEF Carriers, Texts
<1>4. \A i \in Jobs : Kept(i) => Kept(i)'
  BY <1>1, <1>3 DEF Kept
<1>5. j \in Accepted' => Kept(j)'
  <2> SUFFICES ASSUME j \in Accepted' PROVE Kept(j)'
    OBVIOUS
  <2>1. j \in Carriers' /\ kind[j] # "media"
    BY <1>2 DEF Accepted, Carriers
  <2>2. InSeq(j, Texts(j)')
    BY <1>2, <2>1, InSeqFacts DEF Texts, IInv, TypeOK
  <2> QED
    BY <2>1, <2>2 DEF Kept
<1> QED
  BY <1>1, <1>2, <1>4, <1>5, KeepStep DEF Active

\* What was in the buffer is stored again, with the job's own text behind it.
LEMMA KeepSave ==
  ASSUME IInv, Deduplicated, KeepIInv, NEW j \in Jobs, saveBuffer(j)
  PROVE  KeepIInv'
<1> SUFFICES ASSUME Unspoilt PROVE KeepIInv'
  BY DEF KeepIInv, Unspoilt, saveBuffer
<1>1. /\ pc[j] = "save" /\ pc' = [pc EXCEPT ![j] = "buffered"]
      /\ loaded' = [loaded EXCEPT ![j] = <<>>]
      /\ buffer' = Texts(j)
      /\ UNCHANGED deliveries
  BY DEF saveBuffer, Leave, Goto
<1>2. pc'[j] = "buffered" /\ \A i \in Jobs \ {j} : pc'[i] = pc[i] /\ loaded'[i] = loaded[i]
  BY <1>1 DEF IInv, TypeOK
<1>3. loaded[j] = buffer /\ kind[j] # "media"
  BY <1>1 DEF KeepIInv, HoldsBuffer
<1>4. \A i \in Jobs : InSeq(i, buffer') <=> InSeq(i, buffer) \/ i = j
  BY <1>1, <1>3, TextsFacts DEF IInv
<1>5. \A c \in Carriers : c \in Carriers' /\ Texts(c)' = Texts(c)
  BY <1>1, <1>2 DEF Carriers, Texts
<1>6. \A i \in Jobs : Kept(i) => Kept(i)'
  BY <1>1, <1>4, <1>5 DEF Kept
<1>7. Kept(j)'
  BY <1>4 DEF Kept
<1> QED
  BY <1>1, <1>2, <1>6, <1>7, KeepStep DEF Active

\* What was in the buffer goes on with the job.
LEMMA KeepClear ==
  ASSUME IInv, Deduplicated, KeepIInv, NEW j \in Jobs, clearBuffer(j)
  PROVE  KeepIInv'
<1> SUFFICES ASSUME Unspoilt' PROVE KeepIInv'
  BY DEF KeepIInv
<1>1. Unspoilt /\ kind[j] # "media"
  BY DEF Unspoilt, clearBuffer, Note
<1>2. /\ pc[j] = "clear" /\ pc' = [pc EXCEPT ![j] = "configs"]
      /\ UNCHANGED <<loaded, deliveries>>
  BY <1>1 DEF clearBuffer, Goto
<1>3. pc'[j] = "configs" /\ \A i \in Jobs \ {j} : pc'[i] = pc[i]
  BY <1>2 DEF IInv, TypeOK
<1>4. loaded[j] = buffer
  BY <1>1, <1>2 DEF KeepIInv, HoldsBuffer
<1>5. \A i \in Jobs : InSeq(i, buffer) \/ i = j => InSeq(i, Texts(j)')
  BY <1>1, <1>2, <1>4, TextsFacts DEF Texts, IInv
<1>6. \A c \in Carriers : c \in Carriers' /\ Texts(c)' = Texts(c)
  BY <1>2, <1>3 DEF Carriers, Texts
<1>7. j \in Carriers'
  BY <1>3 DEF Carriers
<1>8. \A i \in Jobs : Kept(i) => Kept(i)'
  BY <1>2, <1>5, <1>6, <1>7 DEF Kept
<1>9. Kept(j)'
  BY <1>5, <1>7 DEF Kept
<1> QED
  BY <1>1, <1>2, <1>3, <1>8, <1>9, KeepStep DEF Active

\* The webhooks are known: the job carries its texts to the loop.
LEMMA KeepConfigs ==
  ASSUME IInv, Deduplicated, KeepIInv, NEW j \in Jobs, loadWebhookConfigs(j)
  PROVE  KeepIInv'
<1> SUFFICES ASSUME Unspoilt' PROVE KeepIInv'
  BY DEF KeepIInv
<1>1. /\ faults \in Nat /\ faults' = 0
      /\ UNCHANGED <<buffer, deliveries, blame>>
  BY LimitsAssumption DEF Unspoilt, IInv, TypeOK, loadWebhookConfigs
<1>2. ~Fault
  BY <1>1 DEF Fault
<1>3. /\ pc[j] = "configs" /\ pc' = [pc EXCEPT ![j] = "add"]
      /\ UNCHANGED <<loaded, faults>>
  BY <1>2 DEF loadWebhookConfigs, Goto
<1>4. Unspoilt
  BY <1>1, <1>3 DEF Unspoilt
<1>5. pc'[j] = "add" /\ \A i \in Jobs \ {j} : pc'[i] = pc[i]
  BY <1>3 DEF IInv, TypeOK
<1>6. \A c \in Carriers : c \in Carriers' /\ Texts(c)' = Texts(c)
  BY <1>3, <1>5 DEF Carriers, Texts
<1>7. \A i \in Jobs : Kept(i) => Kept(i)'
  BY <1>1, <1>6 DEF Kept
<1>8. j \in Accepted' => j \in Accepted
  BY <1>3 DEF Accepted
<1> QED
  BY <1>3, <1>4, <1>5, <1>7, <1>8, KeepStep DEF Active, KeepIInv

\* The texts are in a delivery before the job lets go of them.
LEMMA KeepAdd ==
  ASSUME IInv, Deduplicated, KeepIInv, NEW j \in Jobs, enqueueDelivery(j)
  PROVE  KeepIInv'
<1> SUFFICES ASSUME Unspoilt PROVE KeepIInv'
  BY DEF KeepIInv, Unspoilt, enqueueDelivery
<1> DEFINE n == enqueued[j] + 1
           new == [job |-> j, copy |-> Copies(j, n), webhook |-> n, texts |-> Texts(j)]
<1>1. /\ pc[j] = "add"
      /\ deliveries' = deliveries \union {new}
      /\ UNCHANGED buffer
  BY DEF enqueueDelivery
<1>2. new.texts = Texts(j)
  OBVIOUS
<1> HIDE DEF new
<1>3. \/ pc' = pc /\ loaded' = loaded
      \/ pc' = [pc EXCEPT ![j] = "forwarded"] /\ loaded' = [loaded EXCEPT ![j] = <<>>]
  BY DEF enqueueDelivery, Leave, Goto
<1>4. /\ \A i \in Jobs \ {j} : pc'[i] = pc[i] /\ loaded'[i] = loaded[i]
      /\ pc'[j] \in {"add", "forwarded"}
  <2>1. CASE pc' = pc /\ loaded' = loaded
    BY <1>1, <2>1
  <2>2. CASE pc' = [pc EXCEPT ![j] = "forwarded"] /\ loaded' = [loaded EXCEPT ![j] = <<>>]
    BY <2>2 DEF IInv, TypeOK
  <2> QED
    BY <1>3, <2>1, <2>2
<1>5. \A c \in Carriers \ {j} : c \in Carriers' /\ Texts(c)' = Texts(c)
  BY <1>4 DEF Carriers, Texts
<1>6. \A i \in Jobs : InSeq(i, Texts(j)) => Kept(i)'
  BY <1>1, <1>2 DEF Kept
<1>7. \A i \in Jobs : Kept(i) => Kept(i)'
  BY <1>1, <1>5, <1>6 DEF Kept
<1>8. j \in Accepted' => j \in Accepted
  BY <1>1 DEF Accepted
<1> QED
  BY <1>1, <1>4, <1>7, <1>8, KeepStep DEF Active, KeepIInv

LEMMA StepKeep == IInv /\ Deduplicated /\ KeepIInv /\ [Next]_vars => KeepIInv'
<1> SUFFICES ASSUME IInv, Deduplicated, KeepIInv, [Next]_vars PROVE KeepIInv'
  OBVIOUS
<1>1. TypeOK'
  BY StepTypeOK
<1>2. ASSUME NEW j \in Jobs,
             handleMessagesUpsert(j) \/ dedupGet(j) \/ dedupSet(j) \/ processMedia(j)
      PROVE  KeepIInv'
  BY <1>1, <1>2, KeepQuiet
     DEF handleMessagesUpsert, dedupGet, dedupSet, processMedia, Goto, Carriers, IInv, TypeOK
<1>3. ASSUME NEW j \in Jobs, processJob(j) PROVE KeepIInv'
  BY <1>1, <1>3, KeepQuiet DEF processJob, Note, Goto, Carriers, IInv, TypeOK
<1>4. ASSUME NEW j \in Jobs, stageFails(j) PROVE KeepIInv'
  BY <1>4, LimitsAssumption
     DEF stageFails, Fault, KeepIInv, Unspoilt, IInv, TypeOK
<1>5. ASSUME crash \/ bufferExpires PROVE KeepIInv'
  BY <1>5, LimitsAssumption
     DEF crash, bufferExpires, Fault, KeepIInv, Unspoilt, IInv, TypeOK
<1>6. CASE UNCHANGED vars
  <2>1. /\ Accepted' = Accepted /\ Carriers' = Carriers
        /\ \A c \in Jobs : Texts(c)' = Texts(c)
    BY <1>6 DEF vars, Accepted, Carriers, Texts
  <2>2. \A i \in Jobs : Kept(i) => Kept(i)'
    BY <1>6, <2>1 DEF vars, Kept, Carriers
  <2> QED
    BY <1>6, <2>1, <2>2 DEF vars, KeepIInv, Unspoilt, HoldsBuffer, Accepted
<1> QED
  BY <1>2, <1>3, <1>4, <1>5, <1>6, KeepLoad, KeepSave, KeepClear, KeepConfigs, KeepAdd
     DEF Next, Stage

\* Until jobs overlap, an operation fails, the buffer's record expires or a media
\* message clears it, no accepted text is lost between the stages.
THEOREM TextsAreKept == Spec => []TextIsKept
<1>1. Init => KeepIInv
  BY DEF Init, KeepIInv, HoldsBuffer, Accepted
<1>2. IInv /\ Deduplicated /\ KeepIInv /\ [Next]_vars => KeepIInv'
  BY StepKeep
<1>3. KeepIInv => TextIsKept
  BY DEF KeepIInv, Unspoilt, TextIsKept
<1> QED
  BY <1>1, <1>2, <1>3, SpecIInv, SpecDeduplicated, PTL DEF Spec
=============================================================================
