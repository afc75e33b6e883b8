-------------------------- MODULE InboundPipeline --------------------------
(***************************************************************************)
(* The worker's inbound path: a message Baileys notifies becomes a job of  *)
(* the inbound-messages queue (baileys-connection.service.ts), the         *)
(* MessageProcessorWorker runs up to Concurrency jobs at once through the  *)
(* stages of MessagePipelineService, and the forward stage enqueues one    *)
(* delivery per webhook.  The stages share two Redis records, the dedup    *)
(* keys and the text buffer of a chat; a step of a job ends at each await  *)
(* of Redis, the database or object storage, so jobs interleave there.     *)
(*                                                                         *)
(* One chat of one instance: two chats share no record.  A buffered text   *)
(* is the job it came with.  Enrichment and presence swallow their errors  *)
(* and change no state modelled here: a job passes through them.  An await *)
(* that rejects has not had its effect.                                    *)
(***************************************************************************)
EXTENDS Integers, Sequences, FiniteSets

CONSTANTS
  Jobs,          \* inbound-messages jobs
  key,           \* the WhatsApp message id of a job: [Jobs -> ids]
  kind,          \* [Jobs -> Kinds]
  NumWebhooks,   \* enabled webhook_configs rows of the instance
  Concurrency,   \* INBOUND_CONCURRENCY
  MaxAttempts,   \* attempts: 3 of the inbound job
  MaxBuffered,   \* MAX_BUFFERED_MESSAGES
  MaxFaults      \* model bound on what goes wrong: failed operations, crashes, expiries

Kinds == {"text", "media"}   \* media: anything but a text

ASSUME JobsAssumption ==
  IsFiniteSet(Jobs) /\ kind \in [Jobs -> Kinds] /\ DOMAIN key = Jobs
ASSUME LimitsAssumption ==
  /\ NumWebhooks \in Nat \ {0} /\ Concurrency \in Nat \ {0}
  /\ MaxAttempts \in Nat \ {0} /\ MaxBuffered \in Nat \ {0} /\ MaxFaults \in Nat

VARIABLES
  pc,          \* per job, the operation it is about to do, or how it ended
  failures,    \* per job, attempts that failed (BullMQ's attemptsMade)
  stalled,     \* jobs a crash has interrupted before
  loaded,      \* per job, the buffer its buffer stage read
  enqueued,    \* per job, deliveries enqueued in this attempt's forward loop
  seen,        \* Redis: dedup keys
  buffer,      \* Redis: the chat's buffered texts
  deliveries,  \* jobs of the webhook-delivery queue
  faults,      \* how many things have gone wrong so far
  blame        \* history: jobs have overlapped, a media message has cleared texts

vars == <<pc, failures, stalled, loaded, enqueued, seen, buffer, deliveries, faults, blame>>

Active  == {"dedupGet", "dedupSet", "load", "save", "clear", "media", "configs", "add"}
Settled == {"dropped", "buffered", "forwarded", "failed"}
Blames  == {"overlap", "media"}

Texts(j)   == IF kind[j] = "media" THEN <<>> ELSE Append(loaded[j], j)
Delivery   == [job : Jobs, copy : Nat, webhook : 1..NumWebhooks, texts : Seq(Jobs)]
\* Each delivery has an id of its own: copy tells those of a job to a webhook apart.
Copies(j, n) == Cardinality({d \in deliveries : d.job = j /\ d.webhook = n})
Running    == {j \in Jobs : pc[j] \in Active}

Goto(j, next) == pc' = [pc EXCEPT ![j] = next]
Fault         == faults < MaxFaults /\ faults' = faults + 1
Note(things)  == blame' = blame \union things

\* The stages are left, and with them what the job held in memory.
Leave(j, outcome) ==
  /\ Goto(j, outcome)
  /\ loaded' = [loaded EXCEPT ![j] = <<>>]
  /\ enqueued' = [enqueued EXCEPT ![j] = 0]

-----------------------------------------------------------------------------

Init ==
  /\ pc = [j \in Jobs |-> "absent"]
  /\ failures = [j \in Jobs |-> 0]
  /\ loaded = [j \in Jobs |-> <<>>]
  /\ stalled = {}
  /\ enqueued = [j \in Jobs |-> 0]
  /\ seen = {} /\ buffer = <<>> /\ deliveries = {} /\ faults = 0 /\ blame = {}

\* The socket notifies a message; the job is added to the queue.
handleMessagesUpsert(j) ==
  /\ pc[j] = "absent"
  /\ Goto(j, "waiting")
  /\ UNCHANGED <<failures, stalled, loaded, enqueued, seen, buffer, deliveries, faults, blame>>

\* Mutant: a run that fails never gives its slot back.
processJob_LeaksSlots(j) ==
  /\ pc[j] = "waiting"
  /\ Cardinality(Running) + faults < Concurrency
  /\ Goto(j, "dedupGet")
  /\ Note(IF Running # {} THEN {"overlap"} ELSE {})
  /\ UNCHANGED <<failures, stalled, loaded, enqueued, seen, buffer, deliveries, faults>>

\* A free slot of the worker takes the job, for the first time or again.
processJob(j) ==
  /\ pc[j] = "waiting"
  /\ Cardinality(Running) < Concurrency
  /\ Goto(j, "dedupGet")
  /\ Note(IF Running # {} THEN {"overlap"} ELSE {})
  /\ UNCHANGED <<failures, stalled, loaded, enqueued, seen, buffer, deliveries, faults>>

dedupGet(j) ==
  /\ pc[j] = "dedupGet"
  /\ Goto(j, IF key[j] \in seen THEN "dropped" ELSE "dedupSet")
  /\ UNCHANGED <<failures, stalled, loaded, enqueued, seen, buffer, deliveries, faults, blame>>

\* Mutant: the key is only set by jobs whose message is a text.
dedupSet_TextOnly(j) ==
  /\ pc[j] = "dedupSet"
  /\ seen' = IF kind[j] = "media" THEN seen ELSE seen \union {key[j]}
  /\ Goto(j, "load")
  /\ UNCHANGED <<failures, stalled, loaded, enqueued, buffer, deliveries, faults, blame>>

\* Mutant: the key is only set by jobs whose message is not a text.
dedupSet_MediaOnly(j) ==
  /\ pc[j] = "dedupSet"
  /\ seen' = IF kind[j] = "media" THEN seen \union {key[j]} ELSE seen
  /\ Goto(j, "load")
  /\ UNCHANGED <<failures, stalled, loaded, enqueued, buffer, deliveries, faults, blame>>

\* Classification, which follows, reads nothing outside the job.
dedupSet(j) ==
  /\ pc[j] = "dedupSet"
  /\ seen' = seen \union {key[j]}
  /\ Goto(j, "load")
  /\ UNCHANGED <<failures, stalled, loaded, enqueued, buffer, deliveries, faults, blame>>

\* Mutant: the limit is compared with the texts buffered before this one.
shouldFlushBuffer_OffByOne(texts, final, elapsed) ==
  \/ Len(texts) > MaxBuffered
  \/ final
  \/ Len(texts) > 1 /\ elapsed

\* final: the text ends in . ! or ?; elapsed: FLUSH_TIMEOUT_MS have gone by since the text before.
shouldFlushBuffer(texts, final, elapsed) ==
  \/ Len(texts) >= MaxBuffered
  \/ final
  \/ Len(texts) > 1 /\ elapsed

\* Mutant: a text that is flushed forgets the texts read.
loadBuffer_Forgets(j) == \E final, elapsed \in BOOLEAN :
  LET flush == shouldFlushBuffer(Append(buffer, j), final, elapsed) IN
  /\ pc[j] = "load"
  /\ loaded' = [loaded EXCEPT ![j] = IF flush THEN <<>> ELSE buffer]
  /\ Goto(j, IF kind[j] = "media"
             THEN IF buffer = <<>> THEN "media" ELSE "clear"
             ELSE IF flush THEN "clear" ELSE "save")
  /\ UNCHANGED <<failures, stalled, enqueued, seen, buffer, deliveries, faults, blame>>

\* loadBuffer, and what the stage decides on it.
loadBuffer(j) == \E final, elapsed \in BOOLEAN :
  /\ pc[j] = "load"
  /\ loaded' = [loaded EXCEPT ![j] = buffer]
  /\ Goto(j, IF kind[j] = "media"
             THEN IF buffer = <<>> THEN "media" ELSE "clear"
             ELSE IF shouldFlushBuffer(Append(buffer, j), final, elapsed) THEN "clear" ELSE "save")
  /\ UNCHANGED <<failures, stalled, enqueued, seen, buffer, deliveries, faults, blame>>

\* The text is stored behind those read, and the pipeline halts.
saveBuffer(j) ==
  /\ pc[j] = "save"
  /\ buffer' = Texts(j)
  /\ Leave(j, "buffered")
  /\ UNCHANGED <<failures, stalled, seen, deliveries, faults, blame>>

\* A text goes on with the texts read; a media message drops them.
clearBuffer(j) ==
  /\ pc[j] = "clear"
  /\ buffer' = <<>>
  /\ Goto(j, IF kind[j] = "media" THEN "media" ELSE "configs")
  /\ Note(IF kind[j] = "media" THEN {"media"} ELSE {})
  /\ UNCHANGED <<failures, stalled, loaded, enqueued, seen, deliveries, faults>>

\* Download (whose errors are swallowed), upload, transcription.
processMedia(j) ==
  /\ pc[j] = "media"
  /\ Goto(j, "configs")
  /\ UNCHANGED <<failures, stalled, loaded, enqueued, seen, buffer, deliveries, faults, blame>>

\* A failed query reads as no webhook at all, and the job completes.
loadWebhookConfigs(j) ==
  /\ pc[j] = "configs"
  /\ \/ Goto(j, "add") /\ UNCHANGED <<loaded, enqueued, faults>>
     \/ Leave(j, "forwarded") /\ Fault
  /\ UNCHANGED <<failures, stalled, seen, buffer, deliveries, blame>>

\* Mutant: the loop runs one turn too many.
enqueueDelivery_OnePast(j) ==
  LET n == enqueued[j] + 1 IN
  /\ pc[j] = "add"
  /\ deliveries' = deliveries \union
       {[job |-> j, copy |-> Copies(j, n), webhook |-> n, texts |-> Texts(j)]}
  /\ IF n <= NumWebhooks
       THEN enqueued' = [enqueued EXCEPT ![j] = n] /\ UNCHANGED <<pc, loaded>>
       ELSE Leave(j, "forwarded")
  /\ UNCHANGED <<failures, stalled, seen, buffer, faults, blame>>

\* One turn of the forward loop.
enqueueDelivery(j) ==
  LET n == enqueued[j] + 1 IN
  /\ pc[j] = "add"
  /\ deliveries' = deliveries \union
       {[job |-> j, copy |-> Copies(j, n), webhook |-> n, texts |-> Texts(j)]}
  /\ IF n < NumWebhooks
       THEN enqueued' = [enqueued EXCEPT ![j] = n] /\ UNCHANGED <<pc, loaded>>
       ELSE Leave(j, "forwarded")
  /\ UNCHANGED <<failures, stalled, seen, buffer, faults, blame>>

\* Where BullMQ puts a job whose processor threw.
retried(j) == IF failures[j] + 1 < MaxAttempts THEN "waiting" ELSE "failed"

\* The awaited operation rejects; process() rethrows.  Only the media stage's
\* upload, the deliveries' add and Redis can: the other stages catch.
stageFails(j) ==
  /\ pc[j] \in Active \ {"configs"}
  /\ Fault
  /\ Leave(j, retried(j))
  /\ failures' = [failures EXCEPT ![j] = @ + 1]
  /\ UNCHANGED <<stalled, seen, buffer, deliveries, blame>>

\* The worker process dies; BullMQ finds its jobs stalled and queues them again,
\* or fails them the second time (maxStalledCount is 1).
crash ==
  /\ Fault
  /\ Running # {}
  /\ pc' = [j \in Jobs |-> IF j \notin Running THEN pc[j]
                           ELSE IF j \in stalled THEN "failed" ELSE "waiting"]
  /\ stalled' = stalled \union Running
  /\ loaded' = [j \in Jobs |-> <<>>]
  /\ enqueued' = [j \in Jobs |-> 0]
  /\ UNCHANGED <<failures, seen, buffer, deliveries, blame>>

\* BUFFER_TTL_SECONDS pass without a save.
bufferExpires ==
  /\ buffer # <<>>
  /\ buffer' = <<>>
  /\ Fault
  /\ UNCHANGED <<pc, failures, stalled, loaded, enqueued, seen, deliveries, blame>>

Stage(j) ==
  \/ dedupGet(j) \/ dedupSet(j)
  \/ loadBuffer(j) \/ saveBuffer(j) \/ clearBuffer(j)
  \/ processMedia(j)
  \/ loadWebhookConfigs(j) \/ enqueueDelivery(j)

Next ==
  \/ \E j \in Jobs :
       handleMessagesUpsert(j) \/ processJob(j) \/ Stage(j) \/ stageFails(j)
  \/ crash
  \/ bufferExpires

Spec == Init /\ [][Next]_vars

\* BullMQ hands a waiting job to a free slot, and an await ends one way or the other.
Fairness == \A j \in Jobs : WF_vars(processJob(j)) /\ WF_vars(Stage(j) \/ stageFails(j))

FairSpec == Spec /\ Fairness
-----------------------------------------------------------------------------

TypeOK ==
  /\ pc \in [Jobs -> Active \union Settled \union {"absent", "waiting"}]
  /\ failures \in [Jobs -> 0..MaxAttempts]
  /\ stalled \subseteq Jobs
  /\ loaded \in [Jobs -> Seq(Jobs)]
  /\ enqueued \in [Jobs -> 0..NumWebhooks - 1]
  /\ seen \subseteq {key[j] : j \in Jobs}
  /\ buffer \in Seq(Jobs)
  /\ deliveries \subseteq Delivery
  /\ faults \in 0..MaxFaults
  /\ blame \subseteq Blames

\* A stored buffer is always short of the limit: however loads and saves of
\* concurrent jobs interleave, the text that reaches the limit is flushed by the
\* job that adds it (buffer.stage.ts:61 and :97).
BufferBelowLimit == Len(buffer) < MaxBuffered

\* Until two jobs overlap, retries, crashes and messages Baileys notifies twice
\* never give a webhook the same message a second time: the dedup key is set
\* before anything is enqueued and no attempt gets past it again.
SameMessage(d, e) == key[d.job] = key[e.job] /\ d.webhook = e.webhook

AtMostOncePerWebhook ==
  "overlap" \notin blame => \A d, e \in deliveries : SameMessage(d, e) => d = e

Accepted == {j \in Jobs : kind[j] # "media" /\
                          pc[j] \in {"buffered", "clear", "configs", "add", "forwarded"}}
Carriers == {j \in Jobs : pc[j] \in {"clear", "configs", "add"}}
InSeq(j, s) == \E i \in 1..Len(s) : s[i] = j

\* The text is buffered, carried by a running job, or in a delivery.
Kept(j) ==
  \/ InSeq(j, buffer)
  \/ \E c \in Carriers : InSeq(j, Texts(c))
  \/ \E d \in deliveries : InSeq(j, d.texts)

\* Until jobs overlap, an operation fails, the buffer's record expires or a media
\* message arrives, no accepted text is lost between the stages.
TextIsKept == faults = 0 /\ blame = {} => \A j \in Accepted : Kept(j)

\* Until jobs overlap, a text reaches a webhook in the flush of one message only,
\* whatever fails or crashes between the reading of the buffer and its clearing.
TextIsForwardedOnce ==
  "overlap" \notin blame =>
    \A d, e \in deliveries : \A j \in Jobs :
      d.webhook = e.webhook /\ InSeq(j, d.texts) /\ InSeq(j, e.texts) => d.job = e.job

\* The queue drains: every job queued is settled in the end, completed or out of
\* attempts, and neither retries nor stalls keep it going or take its slot.
JobsSettle == <>[](\A j \in Jobs : pc[j] \in Settled \union {"absent"})

\* "Descarta duplicatas silenciosamente" (PRD_v1.1.md, stage 1): what is dropped
\* is a duplicate, a message another job was queued for.
OnlyDuplicatesAreDropped ==
  \A j \in Jobs : pc[j] = "dropped" =>
    \E i \in Jobs \ {j} : key[i] = key[j] /\ pc[i] # "absent"
=============================================================================
