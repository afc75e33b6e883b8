-------------------------- MODULE ProviderMessages --------------------------
(***************************************************************************)
(* Messages sent through WhatsApp Cloud (messages.service.ts and           *)
(* provider-dispatcher.service.ts) and what Meta's webhook does to them    *)
(* and to inbound ones (meta-webhook.service.ts), for one instance with    *)
(* one credential.  Sends and webhook requests run at once in the API and  *)
(* meet only in the database.                                              *)
(***************************************************************************)
EXTENDS Integers, Sequences, FiniteSets

CONSTANTS
  Outbound,    \* ids of messages clients ask to send
  Inbound,     \* ids Meta gives to messages from contacts
  Handlers,    \* webhook requests served at once
  Kinds,       \* statuses Meta reports
  MaxAttempts, \* attempts of the HTTP client at a request
  MaxBatch,    \* bound: messages and statuses of a webhook request
  None,        \* no mapping
  MaxMishaps   \* bound: awaits that reject, crashes, timeouts, revocations

\* Each attempt that reaches Meta makes a message of its own, with its own id.
Copies == Outbound \X (1..MaxAttempts)
ExternalIds == Copies \union Inbound
Internal == Outbound \union Inbound

ASSUME KindsAssumption == Kinds \subseteq {"SENT", "DELIVERED", "READ", "FAILED"}
ASSUME IdsAssumption ==
  /\ Outbound \intersect Inbound = {}
  /\ None \notin Internal /\ Copies \intersect Internal = {}
ASSUME BoundsAssumption ==
  MaxAttempts \in Nat \ {0} /\ MaxBatch \in Nat /\ MaxMishaps \in Nat

VARIABLES
  rows,        \* status of the message rows, "none" for no row
  mapping,     \* the external_message_mappings: internal id or None
  sends,       \* the send() of each outbound message
  accepted,    \* copies Meta has accepted
  raised,      \* what Meta has had to tell
  pending,     \* the part of it Meta is not served with nor has an answer for
  handlers,    \* the webhook requests being served
  published,   \* events dispatched to the tenant's webhooks
  active,      \* the credential is ACTIVE
  mishaps      \* so far

vars == <<rows, mapping, sends, accepted, raised, pending, handlers, published,
          active, mishaps>>

\* A notice is an inbound message or a status report of a copy.
Notices == (Inbound \X {"RECEIVED"}) \union (Copies \X Kinds)
IsMessage(n) == n[1] \in Inbound

Statuses == {"none", "PENDING", "PROCESSING", "SENT", "DELIVERED", "READ", "FAILED"}

\* What a send() awaits, or how it ended: it answers "sent" or "failed", throws, or
\* is lost with its process.
SendAwaits == {"resolving", "creating", "checking", "marking", "preparing",
               "posting", "accepted", "refused"}
SendEnds == {"sent", "failed", "threw", "lost"}
Sends == [at : SendAwaits \union SendEnds \union {"idle"},
          attempt : 0..MaxAttempts]

\* target is the message id a status is applied to.
HandlerAwaits == {"owner", "item", "map", "update", "publish"}
HandlerStates ==
  [at : HandlerAwaits \union {"idle", "answering"}, batch : Seq(Notices),
   todo : Seq(Notices), target : Internal \union ExternalIds \union {None}]

Idle == [at |-> "idle", batch |-> <<>>, todo |-> <<>>, target |-> None]

\* A webhook request lists its messages before its statuses.
Batches == {b \in UNION {[1..k -> Notices] : k \in 1..MaxBatch} :
              \A i, j \in DOMAIN b : i < j =>
                b[i] # b[j] /\ (IsMessage(b[j]) => IsMessage(b[i]))}

NoticesOf(b) == {b[i] : i \in DOMAIN b}

Init ==
  /\ rows = [x \in Internal |-> "none"]
  /\ mapping = [x \in ExternalIds |-> None]
  /\ sends = [m \in Outbound |-> [at |-> "idle", attempt |-> 0]]
  /\ accepted = {} /\ raised = {} /\ pending = {} /\ published = {}
  /\ handlers = [h \in Handlers |-> Idle]
  /\ active = TRUE
  /\ mishaps = 0

-----------------------------------------------------------------------------
(* send() *)

SendGoes(m, from, to) ==
  /\ sends[m].at = from
  /\ sends' = [sends EXCEPT ![m].at = to]

SendLeaves == UNCHANGED <<accepted, raised, pending, handlers, published, active, mishaps>>

send(m) ==
  /\ SendGoes(m, "idle", "resolving")
  /\ UNCHANGED <<rows, mapping>> /\ SendLeaves

resolveProvider(m) ==
  /\ SendGoes(m, "resolving", IF active THEN "creating" ELSE "threw")
  /\ UNCHANGED <<rows, mapping>> /\ SendLeaves

createMessage(m) ==
  /\ SendGoes(m, "creating", "checking")
  /\ rows' = [rows EXCEPT ![m] = "PENDING"]
  /\ UNCHANGED mapping /\ SendLeaves

\* dispatch() reads the credential again.
resolveCredential(m) ==
  /\ SendGoes(m, "checking", IF active THEN "marking" ELSE "threw")
  /\ UNCHANGED <<rows, mapping>> /\ SendLeaves

markProcessing(m) ==
  /\ SendGoes(m, "marking", "preparing")
  /\ rows' = [rows EXCEPT ![m] = "PROCESSING"]
  /\ UNCHANGED mapping /\ SendLeaves

\* And so does the provider, outside its try.
resolveMetaWhatsApp(m) ==
  /\ sends[m].at = "preparing"
  /\ sends' = [sends EXCEPT ![m] =
       IF active THEN [at |-> "posting", attempt |-> 1] ELSE [@ EXCEPT !.at = "threw"]]
  /\ UNCHANGED <<rows, mapping>> /\ SendLeaves

\* Mutant: <= for <.
attemptFails_OffByOne(m) ==
  /\ sends[m].at = "posting"
  /\ \/ sends' = [sends EXCEPT ![m].at = "refused"]
     \/ /\ sends[m].attempt <= MaxAttempts
        /\ sends' = [sends EXCEPT ![m].attempt = @ + 1]
  /\ UNCHANGED <<rows, mapping>> /\ SendLeaves

Copy(m) == <<m, sends[m].attempt>>

\* Mutant: no timeout, so only an answer can end an attempt.
attemptFails_NoTimeout(m) ==
  /\ sends[m].at = "posting" /\ Copy(m) \in accepted
  /\ \/ sends' = [sends EXCEPT ![m].at = "refused"]
     \/ /\ sends[m].attempt < MaxAttempts
        /\ sends' = [sends EXCEPT ![m].attempt = @ + 1]
  /\ UNCHANGED <<rows, mapping>> /\ SendLeaves

\* An attempt times out, or is answered with an error: the HTTP client tries again,
\* or the provider makes it a failure.
attemptFails(m) ==
  /\ sends[m].at = "posting"
  /\ \/ sends' = [sends EXCEPT ![m].at = "refused"]
     \/ /\ sends[m].attempt < MaxAttempts
        /\ sends' = [sends EXCEPT ![m].attempt = @ + 1]
  /\ UNCHANGED <<rows, mapping>> /\ SendLeaves

attemptAnswered(m) ==
  /\ Copy(m) \in accepted
  /\ SendGoes(m, "posting", "accepted")
  /\ UNCHANGED <<rows, mapping>> /\ SendLeaves

SetSent(m) ==
  /\ rows' = [rows EXCEPT ![m] = "SENT"]
  /\ mapping' = [mapping EXCEPT ![Copy(m)] = m]

\* Mutant: two writes for the transaction, of which the first may be the only one.
persistSuccess_NoTransaction(m) ==
  /\ SendGoes(m, "accepted", "sent")
  /\ mapping' = [mapping EXCEPT ![Copy(m)] = m]
  /\ rows' \in {rows, [rows EXCEPT ![m] = "SENT"]}
  /\ SendLeaves

\* One transaction.
persistSuccess(m) ==
  /\ SendGoes(m, "accepted", "sent")
  /\ SetSent(m)
  /\ SendLeaves

\* Mutant: the outcome is persisted for failures that a retry cannot help only.
persistFailure_NotRetryable(m) ==
  /\ SendGoes(m, "refused", "failed")
  /\ rows' \in {rows, [rows EXCEPT ![m] = "FAILED"]}
  /\ UNCHANGED mapping /\ SendLeaves

persistFailure(m) ==
  /\ SendGoes(m, "refused", "failed")
  /\ rows' = [rows EXCEPT ![m] = "FAILED"]
  /\ UNCHANGED mapping /\ SendLeaves

-----------------------------------------------------------------------------
(* Meta *)

MetaLeaves == UNCHANGED <<rows, mapping, sends, published, active, mishaps>>

\* A request takes effect when Meta gets it, which may be after its timeout.
accept(c) ==
  /\ c[2] \in 1..sends[c[1]].attempt
  /\ c \notin accepted
  /\ accepted' = accepted \union {c}
  /\ UNCHANGED <<raised, pending, handlers>> /\ MetaLeaves

raise(n) ==
  /\ n \notin raised
  /\ ~IsMessage(n) => n[1] \in accepted
  /\ raised' = raised \union {n}
  /\ pending' = pending \union {n}
  /\ UNCHANGED <<accepted, handlers>> /\ MetaLeaves

\* A webhook request, with whatever Meta still has to tell, in any order.
receive(h, b) ==
  /\ handlers[h].at = "idle"
  /\ NoticesOf(b) \subseteq pending
  /\ handlers' = [handlers EXCEPT ![h] =
       [at |-> "owner", batch |-> b, todo |-> b, target |-> None]]
  /\ pending' = pending \ NoticesOf(b)
  /\ UNCHANGED <<accepted, raised>> /\ MetaLeaves

-----------------------------------------------------------------------------
(* The webhook requests *)

HandlerLeaves == UNCHANGED <<sends, accepted, raised, active, mishaps>>

Item(h) == Head(handlers[h].todo)
Ended(h) == [handlers EXCEPT ![h].at = "answering", ![h].todo = <<>>, ![h].target = None]
Advanced(h) ==
  IF Len(handlers[h].todo) = 1 THEN Ended(h)
  ELSE [handlers EXCEPT ![h].at = "item", ![h].todo = Tail(@), ![h].target = None]

\* findByExternalPhoneId: without an active credential the request is only logged.
findOwner(h) ==
  /\ handlers[h].at = "owner"
  /\ handlers' = IF active THEN [handlers EXCEPT ![h].at = "item"] ELSE Ended(h)
  /\ UNCHANGED <<rows, mapping, pending, published>> /\ HandlerLeaves

\* persistInbound, message.upsert: leaves a row alone that a redelivery finds.
upsertMessage(h) ==
  /\ handlers[h].at = "item" /\ IsMessage(Item(h))
  /\ rows' = [rows EXCEPT ![Item(h)[1]] = IF @ = "none" THEN "DELIVERED" ELSE @]
  /\ handlers' = [handlers EXCEPT ![h].at = "map", ![h].target = Item(h)[1]]
  /\ UNCHANGED <<mapping, pending, published>> /\ HandlerLeaves

upsertMapping(h) ==
  /\ handlers[h].at = "map"
  /\ mapping' = [mapping EXCEPT ![Item(h)[1]] = handlers[h].target]
  /\ handlers' = [handlers EXCEPT ![h].at = "publish"]
  /\ UNCHANGED <<rows, pending, published>> /\ HandlerLeaves

\* Mutant: the row is looked for by the provider's id.
findMapping_ByProviderId(h) ==
  /\ handlers[h].at = "item" /\ ~IsMessage(Item(h))
  /\ handlers' = [handlers EXCEPT ![h].at = "update", ![h].target = Item(h)[1]]
  /\ UNCHANGED <<rows, mapping, pending, published>> /\ HandlerLeaves

\* applyStatusUpdate: mapping?.internalMessageId ?? status.providerMessageId
findMapping(h) ==
  LET c == Item(h)[1] IN
  /\ handlers[h].at = "item" /\ ~IsMessage(Item(h))
  /\ handlers' = [handlers EXCEPT ![h].at = "update",
                    ![h].target = IF mapping[c] = None THEN c ELSE mapping[c]]
  /\ UNCHANGED <<rows, mapping, pending, published>> /\ HandlerLeaves

HasRow(x) == x \in Internal /\ rows[x] # "none"

SetStatus(h) == rows' = [rows EXCEPT ![handlers[h].target] = Item(h)[2]]

\* Mutant: no return when the row is not there.
updateStatus_NoReturn(h) ==
  /\ handlers[h].at = "update"
  /\ \/ HasRow(handlers[h].target) /\ SetStatus(h)
     \/ ~HasRow(handlers[h].target) /\ UNCHANGED rows
  /\ handlers' = [handlers EXCEPT ![h].at = "publish"]
  /\ UNCHANGED <<mapping, pending, published>> /\ HandlerLeaves

\* message.update; a row that is not there ends the item.
updateStatus(h) ==
  /\ handlers[h].at = "update"
  /\ \/ /\ HasRow(handlers[h].target) /\ SetStatus(h)
        /\ handlers' = [handlers EXCEPT ![h].at = "publish"]
     \/ /\ ~HasRow(handlers[h].target) /\ UNCHANGED rows
        /\ handlers' = Advanced(h)
  /\ UNCHANGED <<mapping, pending, published>> /\ HandlerLeaves

\* dispatchEvent.  (The price a status carries and the media of a message are
\* recorded on the way, in tables that nothing here reads.)
publish(h) ==
  /\ handlers[h].at = "publish"
  /\ published' = published \union {<<handlers[h].target, Item(h)[2]>>}
  /\ handlers' = Advanced(h)
  /\ UNCHANGED <<rows, mapping, pending>> /\ HandlerLeaves

\* The raw event is logged, unless an item has failed, and Meta has its 200.
answer(h) ==
  /\ handlers[h].at = "answering"
  /\ handlers' = [handlers EXCEPT ![h] = Idle]
  /\ UNCHANGED <<rows, mapping, pending, published>> /\ HandlerLeaves

-----------------------------------------------------------------------------
(* Mishaps *)

Mishap == mishaps < MaxMishaps /\ mishaps' = mishaps + 1

\* An await of send() rejects, having had its effect or not.  Only the errors of
\* markProcessing and persistFailure are swallowed.
sendRejects(m) ==
  LET at == sends[m].at IN
  /\ Mishap
  /\ at \in SendAwaits \ {"posting"}
  /\ sends' = [sends EXCEPT ![m].at =
       CASE at = "marking" -> "preparing" [] at = "refused" -> "failed" [] OTHER -> "threw"]
  /\ \/ UNCHANGED <<rows, mapping>>
     \/ at = "creating" /\ rows' = [rows EXCEPT ![m] = "PENDING"] /\ UNCHANGED mapping
     \/ at = "accepted" /\ SetSent(m)
  /\ UNCHANGED <<accepted, raised, pending, handlers, published, active>>

\* One of a webhook request rejects.  A status goes without its event, and perhaps
\* without its update; anything else costs the rest of the batch, and receive()
\* answers 200 all the same.
handlerRejects(h) ==
  /\ Mishap
  /\ handlers[h].at \in HandlerAwaits
  /\ \/ /\ handlers[h].at = "update" /\ handlers' = Advanced(h)
        /\ UNCHANGED rows \/ (HasRow(handlers[h].target) /\ SetStatus(h))
     \/ /\ handlers[h].at # "update" /\ handlers' = Ended(h)
        /\ UNCHANGED rows
  /\ UNCHANGED <<mapping, sends, accepted, raised, pending, published, active>>

\* Meta gives up waiting and will deliver again, while the request goes on.
deliveryTimesOut(h) ==
  /\ Mishap
  /\ handlers[h].at # "idle"
  /\ pending' = pending \union NoticesOf(handlers[h].batch)
  /\ UNCHANGED <<rows, mapping, sends, accepted, raised, handlers, published, active>>

crash ==
  /\ Mishap
  /\ sends' = [m \in Outbound |->
       IF sends[m].at \in SendAwaits THEN [sends[m] EXCEPT !.at = "lost"] ELSE sends[m]]
  /\ pending' = pending \union UNION {NoticesOf(handlers[h].batch) : h \in Handlers}
  /\ handlers' = [h \in Handlers |-> Idle]
  /\ UNCHANGED <<rows, mapping, accepted, raised, published, active>>

\* The credential is revoked or deleted.
revoke ==
  /\ Mishap
  /\ active /\ active' = FALSE
  /\ UNCHANGED <<rows, mapping, sends, accepted, raised, pending, handlers, published>>

-----------------------------------------------------------------------------

Sending(m) ==
  \/ resolveProvider(m) \/ createMessage(m) \/ resolveCredential(m)
  \/ markProcessing(m) \/ resolveMetaWhatsApp(m)
  \/ attemptFails(m) \/ attemptAnswered(m) \/ persistSuccess(m) \/ persistFailure(m)

Delivering == \E h \in Handlers, b \in Batches : receive(h, b)

Handling(h) ==
  \/ findOwner(h) \/ upsertMessage(h) \/ upsertMapping(h)
  \/ findMapping(h) \/ updateStatus(h) \/ publish(h) \/ answer(h)

Failing ==
  \/ \E m \in Outbound : sendRejects(m)
  \/ \E h \in Handlers : handlerRejects(h) \/ deliveryTimesOut(h)
  \/ crash \/ revoke

Next ==
  \/ \E m \in Outbound : send(m) \/ Sending(m)
  \/ \E c \in Copies : accept(c)
  \/ \E n \in Notices : raise(n)
  \/ Delivering
  \/ \E h \in Handlers : Handling(h)
  \/ Failing

Spec == Init /\ [][Next]_vars

\* Awaits are answered, and Meta delivers what it has to tell.
Fairness ==
  /\ \A m \in Outbound : WF_vars(Sending(m))
  /\ \A h \in Handlers : WF_vars(Handling(h))
  /\ WF_vars(Delivering)

FairSpec == Spec /\ Fairness

-----------------------------------------------------------------------------

TypeOK ==
  /\ rows \in [Internal -> Statuses]
  /\ mapping \in [ExternalIds -> Internal \union {None}]
  /\ sends \in [Outbound -> Sends]
  /\ accepted \subseteq Copies
  /\ raised \subseteq Notices /\ pending \subseteq raised
  /\ handlers \in [Handlers -> HandlerStates]
  /\ published \subseteq ((Internal \union ExternalIds) \X (Kinds \union {"RECEIVED"}))
  /\ active \in BOOLEAN
  /\ mishaps \in 0..MaxMishaps

TakenMessages == {m \in Outbound : \E c \in accepted : c[1] = m}
Tracked == {m \in Outbound : \E c \in Copies : mapping[c] = m}
ReportsOf(m) == {n[2] : n \in {r \in raised : r[1] \in Copies /\ r[1][1] = m}}

Lifecycle == INSTANCE MessageLifecycle WITH
  Messages <- Outbound,
  status <- [m \in Outbound |-> rows[m]],
  taken <- TakenMessages,
  tracked <- Tracked,
  reported <- [m \in Outbound |-> ReportsOf(m)]

\* The code keeps what MessageLifecycle promises of a status, although rows,
\* mappings and reports are written by requests that know nothing of each other.
KeepsLifecycle == Lifecycle!Spec

\* What a client is told agrees with what the API will say later: "sent" comes with
\* a mapping of the very copy Meta accepted, so its reports find the message, and a
\* message "failed" is FAILED for good unless its update was lost.
AnswersAgree ==
  \A m \in Outbound :
    /\ sends[m].at = "sent" => Copy(m) \in accepted /\ mapping[Copy(m)] = m
    /\ sends[m].at = "failed" /\ mishaps = 0 => rows[m] = "FAILED"

\* Tenants hear of messages under ids the API knows, and only what Meta has told of
\* them: never a provider's id, and no status of another message.
EventsAreBacked ==
  \A e \in published :
    /\ HasRow(e[1])
    /\ \/ <<e[1], e[2]>> \in raised /\ mapping[e[1]] = e[1]
       \/ \E n \in raised : n[1] \in Copies /\ mapping[n[1]] = e[1] /\ n[2] = e[2]

\* Without mishaps no message stays PENDING or PROCESSING.
SendsSettle ==
  \A m \in Outbound :
    rows[m] \in {"PENDING", "PROCESSING"} ~>
      (rows[m] \notin {"PENDING", "PROCESSING"} \/ mishaps > 0)

\* A report raised once its copy has its mapping reaches the tenant, in whatever
\* order and batch it comes.
LateReportsArePublished ==
  \A n \in Copies \X Kinds :
    [](mapping[n[1]] # None /\ n \notin raised =>
         [](n \in raised =>
              <>(<<n[1][1], n[2]>> \in published \/ mishaps > 0)))
=============================================================================
