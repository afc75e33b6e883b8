----------------------- MODULE ProviderMessagesProofs -----------------------
(***************************************************************************)
(* What holds of messages and their reports for any messages, requests and *)
(* mishaps, and that ProviderMessages implements MessageLifecycle.         *)
(***************************************************************************)
EXTENDS ProviderMessages, SequenceTheorems, TLAPS

-----------------------------------------------------------------------------
(* Types of the parts.                                                     *)

LEMMA NoticeParts ==
  ASSUME NEW n \in Notices
  PROVE  /\ n = <<n[1], n[2]>>
         /\ \/ IsMessage(n) /\ n[1] \in Inbound /\ n[2] = "RECEIVED"
            \/ ~IsMessage(n) /\ n[1] \in Copies /\ n[2] \in Kinds
BY IdsAssumption DEF Notices, IsMessage, Internal

LEMMA IdleTyped == Idle \in HandlerStates
BY DEF Idle, HandlerStates

\* What a webhook request works on.
LEMMA ItemTyped ==
  ASSUME TypeOK, NEW h \in Handlers, handlers[h].todo # <<>>
  PROVE  Item(h) \in Notices
<1>1. handlers[h].todo \in Seq(Notices)
  BY DEF TypeOK, HandlerStates
<1>2. \A s \in Seq(Notices) : s # <<>> => Head(s) \in Notices
  OBVIOUS
<1> QED  BY <1>1, <1>2 DEF Item

LEMMA HandlerSteps ==
  ASSUME TypeOK, NEW h \in Handlers
  PROVE  /\ \A a \in HandlerAwaits \union {"idle", "answering"} :
              [handlers EXCEPT ![h].at = a] \in [Handlers -> HandlerStates]
         /\ \A a \in HandlerAwaits \union {"idle", "answering"},
               t \in Internal \union ExternalIds \union {None} :
              [handlers EXCEPT ![h].at = a, ![h].target = t] \in [Handlers -> HandlerStates]
         /\ Ended(h) \in [Handlers -> HandlerStates]
         /\ handlers[h].todo # <<>> => Advanced(h) \in [Handlers -> HandlerStates]
<1>1. handlers[h] \in HandlerStates
  BY DEF TypeOK
<1>2. <<>> \in Seq(Notices)
  OBVIOUS
<1>3. handlers[h].todo # <<>> => Tail(handlers[h].todo) \in Seq(Notices)
  BY <1>1 DEF HandlerStates
<1>4. Ended(h) \in [Handlers -> HandlerStates]
  <2>1. [handlers[h] EXCEPT !.at = "answering", !.todo = <<>>, !.target = None] \in HandlerStates
    BY <1>1, <1>2 DEF HandlerStates, HandlerAwaits
  <2> QED  BY <2>1 DEF TypeOK, Ended
<1>5. handlers[h].todo # <<>> => Advanced(h) \in [Handlers -> HandlerStates]
  <2>1. handlers[h].todo # <<>> =>
          [handlers[h] EXCEPT !.at = "item", !.todo = Tail(@), !.target = None] \in HandlerStates
    BY <1>1, <1>3 DEF HandlerStates, HandlerAwaits
  <2> QED  BY <2>1, <1>4 DEF TypeOK, Advanced
<1>6. ASSUME NEW a \in HandlerAwaits \union {"idle", "answering"}
      PROVE  [handlers EXCEPT ![h].at = a] \in [Handlers -> HandlerStates]
  <2>1. [handlers[h] EXCEPT !.at = a] \in HandlerStates
    BY <1>1 DEF HandlerStates
  <2> QED  BY <2>1 DEF TypeOK
<1>7. ASSUME NEW a \in HandlerAwaits \union {"idle", "answering"},
             NEW t \in Internal \union ExternalIds \union {None}
      PROVE  [handlers EXCEPT ![h].at = a, ![h].target = t] \in [Handlers -> HandlerStates]
  <2>1. [handlers[h] EXCEPT !.at = a, !.target = t] \in HandlerStates
    BY <1>1 DEF HandlerStates
  <2> QED  BY <2>1 DEF TypeOK
<1> QED  BY <1>4, <1>5, <1>6, <1>7

LEMMA InitTyped == Init => TypeOK
<1> SUFFICES ASSUME Init PROVE TypeOK  OBVIOUS
<1>1. rows \in [Internal -> Statuses] /\ mapping \in [ExternalIds -> Internal \union {None}]
  BY DEF Init, Statuses
<1>2. sends \in [Outbound -> Sends]
  BY BoundsAssumption DEF Init, Sends
<1>3. handlers \in [Handlers -> HandlerStates]
  BY IdleTyped DEF Init
<1> QED  BY <1>1, <1>2, <1>3, BoundsAssumption DEF Init, TypeOK

-----------------------------------------------------------------------------
(* The invariant.                                                          *)

Unsettled == {"PENDING", "PROCESSING"}
Untracked(m) == \A k \in 1..MaxAttempts : mapping[<<m, k>>] = None

\* The row of a message while its send() is under way, and that its copies have no
\* mapping before it is SENT.
SendSound(m) ==
  LET at == sends[m].at IN
  /\ at \in {"idle", "resolving", "creating"} => rows[m] = "none"
  /\ at \in {"checking", "marking"} => rows[m] = "PENDING"
  /\ at \in {"preparing", "posting", "accepted", "refused"} => rows[m] \in Unsettled
  /\ at \in SendAwaits \union {"idle", "failed"} => Untracked(m)
  /\ sends[m].attempt # 0 => rows[m] # "none"
  /\ at \in {"posting", "accepted", "refused"} => sends[m].attempt # 0
  /\ at = "accepted" => Copy(m) \in accepted

\* A mapping is of an inbound message to itself, or of a copy Meta accepted to the
\* message it is a copy of; Meta reports on copies it accepted.
ExternalsSound ==
  /\ \A i \in Inbound : mapping[i] \in {None, i}
  /\ \A i \in Inbound : mapping[i] = i => rows[i] # "none"
  /\ \A c \in Copies :
       mapping[c] # None => mapping[c] = c[1] /\ c \in accepted /\ rows[c[1]] # "none"
  /\ \A c \in accepted : sends[c[1]].attempt # 0
  /\ \A n \in raised : ~IsMessage(n) => n[1] \in accepted

\* What a webhook request holds of the item n it is at, with target x.
ItemSound(at, x, n) ==
  /\ at = "map" => IsMessage(n) /\ x = n[1] /\ rows[x] # "none"
  /\ at = "update" => ~IsMessage(n) /\ (x = n[1] \/ (x # None /\ mapping[n[1]] = x))
  /\ at = "publish" => x # None /\ mapping[n[1]] = x

HandlerSound(h) ==
  /\ NoticesOf(handlers[h].batch) \subseteq raised
  /\ NoticesOf(handlers[h].todo) \subseteq raised
  /\ handlers[h].at \in HandlerAwaits =>
       handlers[h].todo # <<>> /\ ItemSound(handlers[h].at, handlers[h].target, Item(h))

MessagesInv ==
  /\ TypeOK
  /\ \A m \in Outbound : SendSound(m)
  /\ ExternalsSound
  /\ \A h \in Handlers : HandlerSound(h)
  /\ AnswersAgree
  /\ EventsAreBacked

-----------------------------------------------------------------------------
(* Types are kept.                                                         *)

LEMMA SendTyped ==
  ASSUME TypeOK, NEW m \in Outbound, send(m) \/ Sending(m)
  PROVE  TypeOK'
<1>1. sends[m] \in Sends
  BY DEF TypeOK
<1>2. ASSUME NEW from, NEW to \in SendAwaits \union SendEnds \union {"idle"}, SendGoes(m, from, to)
      PROVE  sends' \in [Outbound -> Sends]
  <2>1. [sends[m] EXCEPT !.at = to] \in Sends
    BY <1>1 DEF Sends
  <2> QED  BY <2>1, <1>2 DEF SendGoes, TypeOK
<1>3. ASSUME NEW s \in Statuses PROVE [rows EXCEPT ![m] = s] \in [Internal -> Statuses]
  BY DEF TypeOK, Internal
<1>4. CASE send(m)
  BY <1>2, <1>4 DEF send, SendLeaves, TypeOK, SendAwaits
<1>5. CASE resolveProvider(m)
  BY <1>2, <1>5 DEF resolveProvider, SendLeaves, TypeOK, SendAwaits, SendEnds
<1>6. CASE createMessage(m)
  BY <1>2, <1>3, <1>6 DEF createMessage, SendLeaves, TypeOK, SendAwaits, Statuses
<1>7. CASE resolveCredential(m)
  BY <1>2, <1>7 DEF resolveCredential, SendLeaves, TypeOK, SendAwaits, SendEnds
<1>8. CASE markProcessing(m)
  BY <1>2, <1>3, <1>8 DEF markProcessing, SendLeaves, TypeOK, SendAwaits, Statuses
<1>9. CASE resolveMetaWhatsApp(m)
  <2>1. [at |-> "posting", attempt |-> 1] \in Sends /\ [sends[m] EXCEPT !.at = "threw"] \in Sends
    BY <1>1, BoundsAssumption DEF Sends, SendAwaits, SendEnds
  <2> QED  BY <2>1, <1>9 DEF resolveMetaWhatsApp, SendLeaves, TypeOK
<1>10. CASE attemptFails(m)
  <2>1. [sends[m] EXCEPT !.at = "refused"] \in Sends
    BY <1>1 DEF Sends, SendAwaits
  <2>2. sends[m].attempt < MaxAttempts => [sends[m] EXCEPT !.attempt = @ + 1] \in Sends
    BY <1>1, BoundsAssumption DEF Sends
  <2> QED  BY <2>1, <2>2, <1>10 DEF attemptFails, SendLeaves, TypeOK
<1>11. CASE attemptAnswered(m)
  BY <1>2, <1>11 DEF attemptAnswered, SendLeaves, TypeOK, SendAwaits
<1>12. CASE persistSuccess(m)
  <2>1. mapping' \in [ExternalIds -> Internal \union {None}]
    BY <1>12 DEF persistSuccess, SetSent, TypeOK, Internal
  <2> QED  BY <2>1, <1>2, <1>3, <1>12 DEF persistSuccess, SetSent, SendLeaves, TypeOK, SendEnds, Statuses
<1>13. CASE persistFailure(m)
  BY <1>2, <1>3, <1>13 DEF persistFailure, SendLeaves, TypeOK, SendEnds, Statuses
<1> QED  BY <1>4, <1>5, <1>6, <1>7, <1>8, <1>9, <1>10, <1>11, <1>12, <1>13 DEF Sending

LEMMA MetaTyped ==
  /\ \A c \in Copies : TypeOK /\ accept(c) => TypeOK'
  /\ \A n \in Notices : TypeOK /\ raise(n) => TypeOK'
  /\ TypeOK /\ Delivering => TypeOK'
<1>1. ASSUME TypeOK, NEW c \in Copies, accept(c) PROVE TypeOK'
  BY <1>1 DEF accept, MetaLeaves, TypeOK
<1>2. ASSUME TypeOK, NEW n \in Notices, raise(n) PROVE TypeOK'
  BY <1>2 DEF raise, MetaLeaves, TypeOK
<1>3. ASSUME TypeOK, NEW h \in Handlers, NEW b \in Batches, receive(h, b) PROVE TypeOK'
  <2>1. \A k \in 1..MaxBatch : [1..k -> Notices] \subseteq Seq(Notices)
    BY BoundsAssumption
  <2>2. b \in Seq(Notices)
    BY <2>1 DEF Batches
  <2>3. [at |-> "owner", batch |-> b, todo |-> b, target |-> None] \in HandlerStates
    BY <2>2 DEF HandlerStates, HandlerAwaits
  <2> QED  BY <2>3, <1>3 DEF receive, MetaLeaves, TypeOK
<1> QED  BY <1>1, <1>2, <1>3 DEF Delivering

LEMMA HandlingTyped ==
  ASSUME TypeOK, NEW h \in Handlers, HandlerSound(h), Handling(h)
  PROVE  TypeOK'
<1>1. handlers[h].target \in Internal \union ExternalIds \union {None}
  BY DEF TypeOK, HandlerStates
<1>2. handlers[h].at \in HandlerAwaits => Item(h) \in Notices
  BY ItemTyped DEF HandlerSound
<1>3. CASE findOwner(h)
  BY <1>3, HandlerSteps DEF findOwner, HandlerLeaves, TypeOK, HandlerAwaits
<1>4. CASE upsertMessage(h)
  <2>1. Item(h)[1] \in Inbound
    BY <1>2, <1>4, NoticeParts DEF upsertMessage, HandlerAwaits
  <2>2. rows' \in [Internal -> Statuses]
    BY <2>1, <1>4 DEF upsertMessage, TypeOK, Internal, Statuses
  <2> QED  BY <2>1, <2>2, <1>4, HandlerSteps
           DEF upsertMessage, HandlerLeaves, TypeOK, HandlerAwaits, Internal
<1>5. CASE upsertMapping(h)
  <2>1. /\ handlers' = [handlers EXCEPT ![h].at = "publish"]
        /\ handlers' \in [Handlers -> HandlerStates]
    BY <1>5, HandlerSteps DEF upsertMapping, HandlerAwaits
  <2>2. handlers[h].target \in Internal
    BY <1>2, <1>5, NoticeParts DEF upsertMapping, HandlerAwaits, HandlerSound, ItemSound, Internal
  <2> QED  BY <2>1, <2>2, <1>5 DEF upsertMapping, HandlerLeaves, TypeOK
<1>6. CASE findMapping(h)
  <2>1. Item(h)[1] \in Copies
    BY <1>2, <1>6, NoticeParts DEF findMapping, HandlerAwaits
  <2>2. (IF mapping[Item(h)[1]] = None THEN Item(h)[1] ELSE mapping[Item(h)[1]])
          \in Internal \union ExternalIds
    BY <2>1 DEF TypeOK, ExternalIds
  <2> QED  BY <2>2, <1>6, HandlerSteps DEF findMapping, HandlerLeaves, TypeOK, HandlerAwaits
<1>7. CASE updateStatus(h)
  <2>1. Item(h) \in Notices /\ ~IsMessage(Item(h))
    BY <1>2, <1>7 DEF updateStatus, HandlerAwaits, HandlerSound, ItemSound
  <2>2. Item(h)[2] \in Kinds
    BY <2>1, NoticeParts
  <2>3. Item(h)[2] \in Statuses
    BY <2>2, KindsAssumption DEF Statuses
  <2>4. handlers' \in [Handlers -> HandlerStates]
    <3>1. handlers[h].todo # <<>>
      BY <1>7 DEF updateStatus, HandlerAwaits, HandlerSound
    <3>2. CASE handlers' = Advanced(h)
      BY <3>1, <3>2, HandlerSteps
    <3>3. CASE handlers' = [handlers EXCEPT ![h].at = "publish"]
      BY <3>3, HandlerSteps DEF HandlerAwaits
    <3> QED  BY <1>7, <3>2, <3>3 DEF updateStatus
  <2>5. rows' \in [Internal -> Statuses]
    <3>1. rows' = rows \/ SetStatus(h)
      BY <1>7 DEF updateStatus
    <3> QED  BY <2>3, <3>1 DEF SetStatus, TypeOK
  <2> QED  BY <2>4, <2>5, <1>7 DEF updateStatus, HandlerLeaves, TypeOK
<1>8. CASE publish(h)
  <2>1. Item(h)[2] \in Kinds \union {"RECEIVED"}
    BY <1>2, <1>8, NoticeParts DEF publish, HandlerAwaits
  <2>2. handlers[h].target \in Internal \union ExternalIds /\ handlers[h].todo # <<>>
    BY <1>1, <1>8 DEF publish, HandlerAwaits, HandlerSound, ItemSound
  <2>3. handlers' \in [Handlers -> HandlerStates]
    BY <2>2, <1>8, HandlerSteps DEF publish
  <2> QED  BY <2>1, <2>2, <2>3, <1>8 DEF publish, HandlerLeaves, TypeOK
<1>9. CASE answer(h)
  BY <1>9, IdleTyped DEF answer, HandlerLeaves, TypeOK
<1> QED  BY <1>3, <1>4, <1>5, <1>6, <1>7, <1>8, <1>9 DEF Handling

LEMMA FailingTyped ==
  ASSUME TypeOK, \A h \in Handlers : HandlerSound(h), Failing
  PROVE  TypeOK'
<1>1. Mishap => mishaps' \in 0..MaxMishaps
  BY BoundsAssumption DEF Mishap, TypeOK
<1>2. ASSUME NEW m \in Outbound, sendRejects(m) PROVE TypeOK'
  <2>1. sends[m] \in Sends
    BY DEF TypeOK
  <2>2. \A a \in SendAwaits \union SendEnds \union {"idle"} : [sends[m] EXCEPT !.at = a] \in Sends
    BY <2>1 DEF Sends
  <2>3. sends' \in [Outbound -> Sends]
    BY <2>2, <1>2 DEF sendRejects, TypeOK, SendAwaits, SendEnds
  <2>4. /\ [rows EXCEPT ![m] = "PENDING"] \in [Internal -> Statuses]
        /\ [rows EXCEPT ![m] = "SENT"] \in [Internal -> Statuses]
        /\ [mapping EXCEPT ![Copy(m)] = m] \in [ExternalIds -> Internal \union {None}]
    BY DEF TypeOK, Internal, Statuses
  <2> QED  BY <2>3, <2>4, <1>1, <1>2 DEF sendRejects, SetSent, TypeOK
<1>3. ASSUME NEW h \in Handlers, handlerRejects(h) PROVE TypeOK'
  <2>1. CASE UNCHANGED rows
    BY <1>1, <1>3, <2>1, HandlerSteps DEF handlerRejects, TypeOK, HandlerSound
  <2>2. CASE handlers[h].at = "update" /\ SetStatus(h) /\ handlers' = Advanced(h)
    <3>1. Item(h) \in Notices /\ ~IsMessage(Item(h)) /\ handlers[h].todo # <<>>
      BY <2>2, ItemTyped DEF HandlerSound, ItemSound, HandlerAwaits
    <3>2. Item(h)[2] \in Statuses
      BY <3>1, NoticeParts, KindsAssumption DEF Statuses
    <3>3. rows' \in [Internal -> Statuses] /\ handlers' \in [Handlers -> HandlerStates]
      BY <2>2, <3>1, <3>2, HandlerSteps DEF SetStatus, TypeOK
    <3> QED  BY <1>1, <1>3, <3>3 DEF handlerRejects, TypeOK
  <2> QED  BY <1>3, <2>1, <2>2 DEF handlerRejects
<1>4. ASSUME NEW h \in Handlers, deliveryTimesOut(h) PROVE TypeOK'
  BY <1>1, <1>4 DEF deliveryTimesOut, TypeOK, HandlerSound
<1>5. CASE crash
  <2>1. sends' \in [Outbound -> Sends]
    <3>1. \A m \in Outbound : sends[m] \in Sends
      BY DEF TypeOK
    <3>2. \A m \in Outbound : [sends[m] EXCEPT !.at = "lost"] \in Sends
      BY <3>1 DEF Sends, SendEnds
    <3> QED  BY <3>1, <3>2, <1>5 DEF crash
  <2> QED  BY <2>1, <1>1, <1>5, IdleTyped DEF crash, TypeOK, HandlerSound
<1>6. CASE revoke
  BY <1>1, <1>6 DEF revoke, TypeOK
<1> QED  BY <1>2, <1>3, <1>4, <1>5, <1>6 DEF Failing

-----------------------------------------------------------------------------
(* What a step leaves alone stays sound.                                   *)

\* Notices, copies and mappings are never lost, nor rows.
Kept ==
  /\ raised \subseteq raised' /\ accepted \subseteq accepted'
  /\ \A x \in ExternalIds : mapping[x] # None => mapping'[x] = mapping[x]
  /\ \A x \in Internal : rows[x] # "none" => rows'[x] # "none"

\* A message no step is about.
Untouched(m) ==
  /\ sends'[m] = sends[m] /\ rows'[m] = rows[m]
  /\ \A k \in 1..MaxAttempts : mapping'[<<m, k>>] = mapping[<<m, k>>]
  /\ accepted \subseteq accepted'

LEMMA SendKept ==
  ASSUME TypeOK, NEW m \in Outbound, SendSound(m), Untouched(m)
  PROVE  SendSound(m)'
<1>1. Untracked(m) => Untracked(m)'
  BY DEF Untouched, Untracked
<1>2. Copy(m)' = Copy(m)
  BY DEF Untouched, Copy
<1> QED  BY <1>1, <1>2 DEF Untouched, SendSound

AnswerAgrees(m) ==
  /\ sends[m].at = "sent" => Copy(m) \in accepted /\ mapping[Copy(m)] = m
  /\ sends[m].at = "failed" /\ mishaps = 0 => rows[m] = "FAILED"

LEMMA AnswerKept ==
  ASSUME TypeOK, NEW m \in Outbound, AnswerAgrees(m), Untouched(m),
         mishaps' = mishaps \/ mishaps' # 0, sends[m].attempt \in 0..MaxAttempts,
         SendSound(m), sends[m].at = "sent" => sends[m].attempt # 0
  PROVE  AnswerAgrees(m)'
<1>1. Copy(m)' = Copy(m)
  BY DEF Untouched, Copy
<1>2. sends[m].at = "sent" => mapping'[Copy(m)] = mapping[Copy(m)]
  BY BoundsAssumption DEF Untouched, Copy
<1> QED  BY <1>1, <1>2 DEF Untouched, AnswerAgrees

LEMMA ItemKept ==
  ASSUME TypeOK, Kept, NEW at, NEW x, NEW n \in Notices, ItemSound(at, x, n)
  PROVE  ItemSound(at, x, n)'
<1>1. n[1] \in ExternalIds /\ (IsMessage(n) => n[1] \in Internal)
  BY NoticeParts DEF ExternalIds, Internal
<1> QED  BY <1>1 DEF ItemSound, Kept, IsMessage

LEMMA HandlerKept ==
  ASSUME TypeOK, NEW h \in Handlers, HandlerSound(h), Kept, handlers'[h] = handlers[h]
  PROVE  HandlerSound(h)'
<1>1. handlers[h].at \in HandlerAwaits =>
        ItemSound(handlers[h].at, handlers[h].target, Item(h))'
  <2> SUFFICES ASSUME handlers[h].at \in HandlerAwaits
               PROVE  ItemSound(handlers[h].at, handlers[h].target, Item(h))'
    OBVIOUS
  <2>1. Item(h) \in Notices /\ ItemSound(handlers[h].at, handlers[h].target, Item(h))
    BY ItemTyped DEF HandlerSound
  <2>2. PICK n, at, x : n = Item(h) /\ n \in Notices /\ at = handlers[h].at /\ x = handlers[h].target
    BY <2>1
  <2>3. ItemSound(at, x, n)'
    BY <2>1, <2>2, ItemKept
  <2>4. Item(h)' = n
    BY <2>2 DEF Item
  <2> QED  BY <2>2, <2>3, <2>4 DEF ItemSound, IsMessage
<1>2. NoticesOf(handlers[h].batch)' \subseteq raised' /\ NoticesOf(handlers[h].todo)' \subseteq raised'
  BY DEF NoticesOf, HandlerSound, Kept
<1> QED  BY <1>1, <1>2 DEF HandlerSound

Backed(e) ==
  /\ HasRow(e[1])
  /\ \/ <<e[1], e[2]>> \in raised /\ mapping[e[1]] = e[1]
     \/ \E n \in raised : n[1] \in Copies /\ mapping[n[1]] = e[1] /\ n[2] = e[2]

LEMMA BackedKept ==
  ASSUME TypeOK, Kept, NEW e, Backed(e)
  PROVE  Backed(e)'
<1>1. HasRow(e[1])'
  BY DEF Backed, HasRow, Kept
<1>2. e[1] \in Internal /\ e[1] # None
  BY IdsAssumption DEF Backed, HasRow
<1>3. ASSUME <<e[1], e[2]>> \in raised, mapping[e[1]] = e[1] PROVE Backed(e)'
  <2>1. <<e[1], e[2]>> \in Notices
    BY <1>3 DEF TypeOK
  <2>2. e[1] \in ExternalIds
    BY <2>1, NoticeParts DEF ExternalIds
  <2> QED  BY <2>2, <1>1, <1>2, <1>3 DEF Backed, Kept
<1>4. ASSUME NEW n \in raised, n[1] \in Copies, mapping[n[1]] = e[1], n[2] = e[2]
      PROVE  Backed(e)'
  <2>1. mapping'[n[1]] = e[1] /\ n \in raised'
    BY <1>2, <1>4 DEF Kept, ExternalIds
  <2> QED  BY <2>1, <1>1, <1>4 DEF Backed
<1> QED  BY <1>3, <1>4 DEF Backed

LEMMA EventsKept == TypeOK /\ EventsAreBacked /\ Kept /\ published' = published => EventsAreBacked'
<1>1. EventsAreBacked <=> \A e \in published : Backed(e)
  BY DEF EventsAreBacked, Backed
<1>2. EventsAreBacked' <=> \A e \in published' : Backed(e)'
  BY DEF EventsAreBacked, Backed
<1> QED  BY <1>1, <1>2, BackedKept

\* A step keeps what holds of all that it does not touch.
LEMMA OthersKept ==
  ASSUME MessagesInv, Kept
  PROVE  /\ \A m \in Outbound :
              Untouched(m) /\ (mishaps' = mishaps \/ mishaps' # 0) =>
                SendSound(m)' /\ AnswerAgrees(m)'
         /\ \A h \in Handlers : handlers'[h] = handlers[h] => HandlerSound(h)'
         /\ published' = published => EventsAreBacked'
<1>1. ASSUME NEW m \in Outbound, Untouched(m), mishaps' = mishaps \/ mishaps' # 0
      PROVE  SendSound(m)' /\ AnswerAgrees(m)'
  <2>1. SendSound(m) /\ AnswerAgrees(m)
    BY DEF MessagesInv, AnswersAgree, AnswerAgrees
  <2>2. sends[m].attempt \in 0..MaxAttempts
    BY DEF MessagesInv, TypeOK, Sends
  <2>3. sends[m].at = "sent" => sends[m].attempt # 0
    <3>1. sends[m].at = "sent" => Copy(m) \in Copies
      BY <2>1 DEF AnswerAgrees, MessagesInv, TypeOK
    <3> QED  BY <3>1, BoundsAssumption DEF Copy, Copies
  <2> QED  BY <1>1, <2>1, <2>2, <2>3, SendKept, AnswerKept DEF MessagesInv
<1>2. ASSUME NEW h \in Handlers, handlers'[h] = handlers[h] PROVE HandlerSound(h)'
  BY <1>2, HandlerKept DEF MessagesInv
<1>3. published' = published => EventsAreBacked'
  BY EventsKept DEF MessagesInv
<1> QED  BY <1>1, <1>2, <1>3

\* The invariant is its parts.
LEMMA Parts ==
  ASSUME TypeOK', ExternalsSound', EventsAreBacked',
         \A m \in Outbound : SendSound(m)' /\ AnswerAgrees(m)',
         \A h \in Handlers : HandlerSound(h)'
  PROVE  MessagesInv'
BY DEF MessagesInv, AnswersAgree, AnswerAgrees

-----------------------------------------------------------------------------
(* The steps of a send().                                                  *)

\* Copies of a message are not those of another, and no inbound ids.
LEMMA CopyParts ==
  /\ \A m \in Outbound, k \in 1..MaxAttempts : <<m, k>> \in Copies /\ <<m, k>> \in ExternalIds
  /\ \A c \in Copies : c[1] \in Outbound /\ c[2] \in 1..MaxAttempts /\ c = <<c[1], c[2]>>
  /\ \A c \in Copies : c \notin Internal
  /\ \A m \in Outbound : m \notin Inbound /\ m \in Internal /\ m # None
  /\ \A i \in Inbound : i \in ExternalIds /\ i \in Internal /\ i # None /\ i \notin Copies
BY IdsAssumption DEF Copies, ExternalIds, Internal

\* What a send() may do to its message's row and mapping, its step aside.
SendEffect(m) ==
  /\ \A n \in Outbound \ {m} : sends'[n] = sends[n]
  /\ \A x \in Internal : x # m => rows'[x] = rows[x]
  /\ rows[m] # "none" => rows'[m] # "none"
  /\ sends[m].attempt # 0 => sends'[m].attempt # 0
  /\ \/ mapping' = mapping
     \/ mapping' = [mapping EXCEPT ![Copy(m)] = m] /\ Untracked(m) /\ Copy(m) \in accepted
          /\ rows'[m] # "none"
  /\ UNCHANGED <<accepted, raised, handlers, published>>

LEMMA SendEffectKeeps ==
  ASSUME MessagesInv, NEW m \in Outbound, SendEffect(m), TypeOK',
         mishaps' = mishaps \/ mishaps' # 0,
         SendSound(m)', AnswerAgrees(m)'
  PROVE  MessagesInv'
<1>1. mapping' # mapping => sends[m].attempt \in 1..MaxAttempts
  BY CopyParts DEF SendEffect, Copy, MessagesInv, TypeOK
<1>2. Kept
  <2>1. \A x \in ExternalIds : mapping[x] # None => mapping'[x] = mapping[x]
    BY <1>1 DEF SendEffect, MessagesInv, TypeOK, Copy, Untracked
  <2> QED  BY <2>1 DEF SendEffect, Kept
<1>3. ASSUME NEW n \in Outbound, n # m PROVE Untouched(n)
  <2>1. \A k \in 1..MaxAttempts : mapping'[<<n, k>>] = mapping[<<n, k>>]
    BY <1>3, <1>1, CopyParts DEF SendEffect, Copy, MessagesInv, TypeOK
  <2> QED  BY <2>1, <1>3, CopyParts DEF SendEffect, Untouched
<1>4. ExternalsSound'
  <2>1. \A i \in Inbound : mapping'[i] = mapping[i] /\ rows'[i] = rows[i]
    BY <1>1, CopyParts DEF SendEffect, Copy, MessagesInv, TypeOK
  <2>2. ASSUME NEW c \in Copies, mapping'[c] # None
        PROVE  mapping'[c] = c[1] /\ c \in accepted /\ rows'[c[1]] # "none"
    <3>1. CASE mapping[c] # None
      BY <3>1, <1>2, CopyParts DEF Kept, MessagesInv, ExternalsSound
    <3>2. CASE mapping[c] = None
      BY <3>2, <2>2, <1>1, CopyParts DEF SendEffect, Copy, MessagesInv, TypeOK
    <3> QED  BY <3>1, <3>2
  <2>3. \A c \in accepted : sends'[c[1]].attempt # 0
    BY CopyParts DEF SendEffect, MessagesInv, ExternalsSound, TypeOK
  <2> QED  BY <2>1, <2>2, <2>3 DEF MessagesInv, ExternalsSound, SendEffect, IsMessage
<1> QED  BY <1>2, <1>3, <1>4, OthersKept, Parts DEF SendEffect

\* The copies of m after a step that maps none of them.
LEMMA UnmappedStays ==
  ASSUME NEW m, mapping' = mapping
  PROVE  Untracked(m)' <=> Untracked(m)
BY DEF Untracked

LEMMA SendingKeeps ==
  ASSUME MessagesInv, NEW m \in Outbound, send(m) \/ Sending(m)
  PROVE  MessagesInv'
<1>1. TypeOK'
  BY SendTyped DEF MessagesInv
<1>2. SendSound(m) /\ AnswerAgrees(m) /\ sends[m] \in Sends /\ DOMAIN sends = Outbound
  BY DEF MessagesInv, AnswersAgree, AnswerAgrees, TypeOK
<1>3. rows \in [Internal -> Statuses] /\ m \in Internal
  BY CopyParts DEF MessagesInv, TypeOK
<1>4. UNCHANGED <<accepted, raised, handlers, published, mishaps>>
  BY DEF send, Sending, resolveProvider, createMessage, resolveCredential, markProcessing,
         resolveMetaWhatsApp, attemptFails, attemptAnswered, persistSuccess,
         persistFailure, SendLeaves
<1> USE DEF SendAwaits
<1>5. ASSUME mapping' = mapping, rows' = rows,
             \A n \in Outbound \ {m} : sends'[n] = sends[n],
             sends[m].attempt # 0 => sends'[m].attempt # 0
      PROVE  SendEffect(m)
  BY <1>4, <1>5 DEF SendEffect
<1>6. ASSUME mapping' = mapping, NEW s \in Statuses \ {"none"}, rows' = [rows EXCEPT ![m] = s],
             \A n \in Outbound \ {m} : sends'[n] = sends[n],
             sends'[m].attempt = sends[m].attempt
      PROVE  SendEffect(m)
  BY <1>3, <1>4, <1>6 DEF SendEffect
<1>7. CASE send(m)
  <2>1. SendSound(m)' /\ AnswerAgrees(m)'
    BY <1>2, <1>4, <1>7, UnmappedStays DEF send, SendGoes, SendSound, AnswerAgrees, Sends
  <2> QED  BY <1>1, <1>2, <1>4, <1>5, <1>7, <2>1, SendEffectKeeps DEF send, SendGoes, Sends
<1>8. CASE resolveProvider(m)
  <2>1. SendSound(m)' /\ AnswerAgrees(m)'
    BY <1>2, <1>4, <1>8, UnmappedStays DEF resolveProvider, SendGoes, SendSound, AnswerAgrees, Sends
  <2> QED  BY <1>1, <1>2, <1>4, <1>5, <1>8, <2>1, SendEffectKeeps DEF resolveProvider, SendGoes, Sends
<1>9. CASE createMessage(m)
  <2>1. SendSound(m)' /\ AnswerAgrees(m)'
    BY <1>2, <1>3, <1>4, <1>9, UnmappedStays
       DEF createMessage, SendGoes, SendSound, AnswerAgrees, Sends
  <2> QED  BY <1>1, <1>2, <1>4, <1>6, <1>9, <2>1, SendEffectKeeps
           DEF createMessage, SendGoes, Sends, Statuses
<1>10. CASE resolveCredential(m)
  <2>1. SendSound(m)' /\ AnswerAgrees(m)'
    BY <1>2, <1>4, <1>10, UnmappedStays DEF resolveCredential, SendGoes, SendSound, AnswerAgrees, Sends
  <2> QED  BY <1>1, <1>2, <1>4, <1>5, <1>10, <2>1, SendEffectKeeps
           DEF resolveCredential, SendGoes, Sends
<1>11. CASE markProcessing(m)
  <2>1. SendSound(m)' /\ AnswerAgrees(m)'
    BY <1>2, <1>3, <1>4, <1>11, UnmappedStays
       DEF markProcessing, SendGoes, SendSound, AnswerAgrees, Sends, Unsettled
  <2> QED  BY <1>1, <1>2, <1>4, <1>6, <1>11, <2>1, SendEffectKeeps
           DEF markProcessing, SendGoes, Sends, Statuses
<1>12. CASE resolveMetaWhatsApp(m)
  <2>1. SendSound(m)' /\ AnswerAgrees(m)'
    BY <1>2, <1>4, <1>12, UnmappedStays
       DEF resolveMetaWhatsApp, SendSound, AnswerAgrees, Sends, Unsettled
  <2> QED  BY <1>1, <1>2, <1>4, <1>5, <1>12, <2>1, SendEffectKeeps DEF resolveMetaWhatsApp, Sends
<1>13. CASE attemptFails(m)
  <2>1. SendSound(m)' /\ AnswerAgrees(m)'
    BY <1>2, <1>4, <1>13, UnmappedStays, BoundsAssumption
       DEF attemptFails, SendSound, AnswerAgrees, Sends, Unsettled
  <2> QED  BY <1>1, <1>2, <1>4, <1>5, <1>13, <2>1, SendEffectKeeps, BoundsAssumption
           DEF attemptFails, Sends
<1>14. CASE attemptAnswered(m)
  <2>1. SendSound(m)' /\ AnswerAgrees(m)'
    BY <1>2, <1>4, <1>14, UnmappedStays
       DEF attemptAnswered, SendGoes, SendSound, AnswerAgrees, Sends, Unsettled, Copy
  <2> QED  BY <1>1, <1>2, <1>4, <1>5, <1>14, <2>1, SendEffectKeeps DEF attemptAnswered, SendGoes, Sends
<1>15. CASE persistSuccess(m)
  <2>1. sends' = [sends EXCEPT ![m].at = "sent"] /\ sends[m].at = "accepted"
    BY <1>15 DEF persistSuccess, SendGoes
  <2>2. Copy(m) \in Copies /\ Copy(m) \in accepted /\ Copy(m)' = Copy(m)
    BY <1>2, <2>1 DEF SendSound, Copy, Sends, MessagesInv, TypeOK
  <2>3. mapping' = [mapping EXCEPT ![Copy(m)] = m] /\ mapping'[Copy(m)] = m
    BY <1>15, <2>2 DEF persistSuccess, SetSent, MessagesInv, TypeOK, ExternalIds
  <2>4. rows' = [rows EXCEPT ![m] = "SENT"]
    BY <1>15 DEF persistSuccess, SetSent
  <2>5. SendSound(m)' /\ AnswerAgrees(m)'
    BY <1>2, <1>3, <1>4, <2>1, <2>2, <2>3, <2>4 DEF SendSound, AnswerAgrees, Sends
  <2>6. SendEffect(m)
    BY <1>2, <1>3, <1>4, <2>1, <2>2, <2>3, <2>4 DEF SendEffect, SendSound, Sends
  <2> QED  BY <1>1, <1>4, <2>5, <2>6, SendEffectKeeps
<1>16. CASE persistFailure(m)
  <2>1. SendSound(m)' /\ AnswerAgrees(m)'
    BY <1>2, <1>3, <1>4, <1>16, UnmappedStays
       DEF persistFailure, SendGoes, SendSound, AnswerAgrees, Sends
  <2> QED  BY <1>1, <1>2, <1>4, <1>6, <1>16, <2>1, SendEffectKeeps
           DEF persistFailure, SendGoes, Sends, Statuses
<1> QED  BY <1>7, <1>8, <1>9, <1>10, <1>11, <1>12, <1>13, <1>14, <1>15, <1>16 DEF Sending

-----------------------------------------------------------------------------
(* Meta's steps.                                                           *)

LEMMA AcceptKeeps ==
  ASSUME MessagesInv, NEW c \in Copies, accept(c)
  PROVE  MessagesInv'
<1>1. TypeOK'
  BY MetaTyped DEF MessagesInv
<1>2. UNCHANGED <<rows, mapping, sends, published, mishaps, raised, handlers>> /\ accepted \subseteq accepted'
  BY DEF accept, MetaLeaves
<1>3. Kept /\ \A m \in Outbound : Untouched(m)
  BY <1>2 DEF Kept, Untouched
<1>4. sends[c[1]].attempt # 0
  BY CopyParts DEF accept, MessagesInv, TypeOK, Sends
<1>5. ExternalsSound'
  BY <1>2, <1>4 DEF accept, MessagesInv, ExternalsSound, IsMessage
<1> QED  BY <1>1, <1>2, <1>3, <1>5, OthersKept, Parts

LEMMA RaiseKeeps ==
  ASSUME MessagesInv, NEW n \in Notices, raise(n)
  PROVE  MessagesInv'
<1>1. TypeOK'
  BY MetaTyped DEF MessagesInv
<1>2. UNCHANGED <<rows, mapping, sends, published, mishaps, accepted, handlers>> /\ raised \subseteq raised'
  BY DEF raise, MetaLeaves
<1>3. Kept /\ \A m \in Outbound : Untouched(m)
  BY <1>2 DEF Kept, Untouched
<1>4. ExternalsSound'
  BY <1>2 DEF raise, MessagesInv, ExternalsSound, IsMessage
<1> QED  BY <1>1, <1>2, <1>3, <1>4, OthersKept, Parts

LEMMA DeliveringKeeps ==
  ASSUME MessagesInv, Delivering
  PROVE  MessagesInv'
<1>1. TypeOK'
  BY MetaTyped DEF MessagesInv
<1>2. PICK h \in Handlers, b \in Batches : receive(h, b)
  BY DEF Delivering
<1>3. UNCHANGED <<rows, mapping, sends, published, mishaps, accepted, raised>>
  BY <1>2 DEF receive, MetaLeaves
<1>4. Kept /\ \A m \in Outbound : Untouched(m)
  BY <1>3 DEF Kept, Untouched
<1>5. ExternalsSound'
  BY <1>3 DEF MessagesInv, ExternalsSound, IsMessage
<1>6. handlers' = [handlers EXCEPT ![h] =
        [at |-> "owner", batch |-> b, todo |-> b, target |-> None]]
  BY <1>2 DEF receive
<1>7. HandlerSound(h)'
  <2>1. NoticesOf(b) \subseteq raised
    BY <1>2 DEF receive, MessagesInv, TypeOK
  <2>2. b # <<>>
    <3>1. PICK k \in 1..MaxBatch : b \in [1..k -> Notices]
      BY DEF Batches
    <3>2. 1 \in DOMAIN b
      BY <3>1, BoundsAssumption
    <3> QED  BY <3>2
  <2>3. handlers'[h] = [at |-> "owner", batch |-> b, todo |-> b, target |-> None]
    BY <1>6 DEF MessagesInv, TypeOK
  <2> QED  BY <1>3, <2>1, <2>2, <2>3 DEF HandlerSound, NoticesOf, ItemSound
<1>8. \A g \in Handlers : g # h => handlers'[g] = handlers[g]
  BY <1>6 DEF MessagesInv, TypeOK
<1> QED  BY <1>1, <1>3, <1>4, <1>5, <1>7, <1>8, OthersKept, Parts

-----------------------------------------------------------------------------
(* The steps of a webhook request.                                         *)

LEMMA TailParts ==
  ASSUME NEW S, NEW s \in Seq(S), s # <<>>, Len(s) # 1
  PROVE  /\ Tail(s) # <<>>
         /\ \A i \in DOMAIN Tail(s) : \E j \in DOMAIN s : Tail(s)[i] = s[j]
<1>1. Len(s) \in Nat /\ Len(s) # 0 /\ Tail(s) \in Seq(S)
  BY EmptySeq
<1>2. Len(Tail(s)) = Len(s) - 1 /\ DOMAIN s = 1..Len(s) /\ DOMAIN Tail(s) = 1..Len(Tail(s))
  BY <1>1
<1>3. \A i \in 1..(Len(s) - 1) : Tail(s)[i] = s[i + 1]
  BY <1>1
<1>4. Tail(s) # <<>>
  <2>1. Len(Tail(s)) # 0
    BY <1>1, <1>2
  <2>2. Len(<<>>) = 0
    BY EmptySeq
  <2> QED  BY <2>1, <2>2, Zenon
<1>5. \A i \in DOMAIN Tail(s) : i + 1 \in DOMAIN s /\ Tail(s)[i] = s[i + 1]
  BY <1>1, <1>2, <1>3
<1> QED  BY <1>4, <1>5

LEMMA AdvancedSound ==
  ASSUME MessagesInv, NEW h \in Handlers, handlers[h].at \in HandlerAwaits, Kept,
         handlers' = Advanced(h) \/ handlers' = Ended(h)
  PROVE  HandlerSound(h)' /\ \A g \in Handlers \ {h} : handlers'[g] = handlers[g]
<1>1. handlers[h] \in HandlerStates /\ HandlerSound(h) /\ handlers[h].todo # <<>>
  BY DEF MessagesInv, TypeOK, HandlerSound
<1>2. CASE handlers' = Ended(h)
  <2>1. handlers'[h].at = "answering" /\ handlers'[h].todo = <<>>
          /\ handlers'[h].batch = handlers[h].batch
    BY <1>1, <1>2 DEF Ended, MessagesInv, TypeOK, HandlerStates
  <2> QED  BY <1>1, <1>2, <2>1
           DEF HandlerSound, NoticesOf, HandlerAwaits, Kept, Ended, MessagesInv, TypeOK
<1>3. CASE handlers' # Ended(h)
  <2> DEFINE s == handlers[h].todo
  <2>1. /\ handlers'[h].at = "item" /\ handlers'[h].todo = Tail(s)
        /\ handlers'[h].batch = handlers[h].batch /\ Len(s) # 1
        /\ \A g \in Handlers \ {h} : handlers'[g] = handlers[g]
    BY <1>1, <1>3 DEF Advanced, MessagesInv, TypeOK, HandlerStates
  <2>2. s \in Seq(Notices) /\ s # <<>>
    BY <1>1 DEF HandlerStates
  <2>3. Tail(s) # <<>> /\ NoticesOf(Tail(s)) \subseteq NoticesOf(s)
    BY <2>1, <2>2, TailParts DEF NoticesOf
  <2>4. NoticesOf(handlers[h].batch)' \subseteq raised' /\ NoticesOf(handlers[h].todo)' \subseteq raised'
    BY <1>1, <2>1, <2>3 DEF HandlerSound, Kept, NoticesOf
  <2>5. ItemSound(handlers[h].at, handlers[h].target, Item(h))'
    BY <2>1 DEF ItemSound
  <2>6. handlers'[h].todo # <<>>
    BY <2>1, <2>3
  <2> QED  BY <2>1, <2>4, <2>5, <2>6 DEF HandlerSound
<1> QED  BY <1>2, <1>3

\* ItemSound after the step, of the item as it is before.
ItemSoundNext(at, x, n) ==
  /\ at = "map" => IsMessage(n) /\ x = n[1] /\ rows'[x] # "none"
  /\ at = "update" => ~IsMessage(n) /\ (x = n[1] \/ (x # None /\ mapping'[n[1]] = x))
  /\ at = "publish" => x # None /\ mapping'[n[1]] = x

\* The request goes on with its item.
GoesOn(h, a, x) == handlers' = [handlers EXCEPT ![h].at = a, ![h].target = x]

\* What a request that only moves on holds of the item it stays at.
LEMMA SameItemSound ==
  ASSUME MessagesInv, NEW h \in Handlers, NEW a \in HandlerAwaits, NEW x,
         handlers[h].at \in HandlerAwaits, Kept,
         GoesOn(h, a, x),
         ItemSoundNext(a, x, Item(h))
  PROVE  HandlerSound(h)' /\ \A g \in Handlers \ {h} : handlers'[g] = handlers[g]
<1>1. handlers[h] \in HandlerStates /\ HandlerSound(h) /\ handlers[h].todo # <<>>
  BY DEF MessagesInv, TypeOK, HandlerSound
<1> USE DEF GoesOn
<1>2. /\ handlers'[h].at = a /\ handlers'[h].target = x
      /\ handlers'[h].todo = handlers[h].todo /\ handlers'[h].batch = handlers[h].batch
  BY <1>1 DEF MessagesInv, TypeOK, HandlerStates
<1>3. NoticesOf(handlers[h].batch)' \subseteq raised' /\ NoticesOf(handlers[h].todo)' \subseteq raised'
  BY <1>1, <1>2 DEF HandlerSound, Kept, NoticesOf
<1>4. Item(h)' = Item(h)
  BY <1>2 DEF Item
<1>5. ItemSound(handlers[h].at, handlers[h].target, Item(h))'
  BY <1>2, <1>4 DEF ItemSound, ItemSoundNext, IsMessage
<1> QED  BY <1>1, <1>2, <1>3, <1>5 DEF HandlerSound, MessagesInv, TypeOK

\* The item a request is at, and what ItemSound says of it.
LEMMA ItemFacts ==
  ASSUME MessagesInv, NEW h \in Handlers, handlers[h].at \in HandlerAwaits
  PROVE  /\ Item(h) \in Notices /\ Item(h) \in raised
         /\ ItemSound(handlers[h].at, handlers[h].target, Item(h))
         /\ handlers[h].todo # <<>>
<1>1. HandlerSound(h) /\ TypeOK
  BY DEF MessagesInv
<1>2. handlers[h].todo # <<>> /\ ItemSound(handlers[h].at, handlers[h].target, Item(h))
  BY <1>1 DEF HandlerSound
<1>3. Item(h) \in Notices
  BY <1>1, <1>2, ItemTyped
<1>4. Item(h) \in NoticesOf(handlers[h].todo)
  <2>1. handlers[h].todo \in Seq(Notices)
    BY <1>1 DEF TypeOK, HandlerStates
  <2>2. 1 \in DOMAIN handlers[h].todo /\ Head(handlers[h].todo) = handlers[h].todo[1]
    BY <2>1, <1>2, EmptySeq
  <2> QED  BY <2>2 DEF Item, NoticesOf
<1> QED  BY <1>1, <1>2, <1>3, <1>4 DEF HandlerSound

\* The row a report is applied to is that of the message it is about.
LEMMA ReportsOwnMessage ==
  ASSUME MessagesInv, NEW h \in Handlers, handlers[h].at = "update", HasRow(handlers[h].target)
  PROVE  LET x == handlers[h].target
             n == Item(h)
         IN  /\ n[1] \in Copies /\ n[2] \in Kinds /\ x = n[1][1] /\ x \in Outbound
             /\ mapping[n[1]] = x /\ x # None
<1> DEFINE x == handlers[h].target
           n == Item(h)
<1>1. n \in Notices /\ ~IsMessage(n) /\ (x = n[1] \/ (x # None /\ mapping[n[1]] = x))
  BY ItemFacts DEF HandlerAwaits, ItemSound
<1>2. n[1] \in Copies /\ n[2] \in Kinds
  BY <1>1, NoticeParts
<1>3. x \in Internal
  BY DEF HasRow
<1>4. x # None /\ mapping[n[1]] = x
  BY <1>1, <1>2, <1>3, CopyParts
<1>5. x = n[1][1]
  BY <1>2, <1>4 DEF MessagesInv, ExternalsSound
<1> QED  BY <1>2, <1>4, <1>5, CopyParts

\* Applying a report disturbs nothing.
LEMMA SetStatusSound ==
  ASSUME MessagesInv, NEW h \in Handlers, handlers[h].at = "update", HasRow(handlers[h].target),
         SetStatus(h), UNCHANGED <<mapping, sends, accepted, raised>>,
         mishaps' = mishaps \/ mishaps' # 0
  PROVE  Kept /\ ExternalsSound' /\ \A m \in Outbound : SendSound(m)' /\ AnswerAgrees(m)'
<1>1. PICK x, c, k : /\ x = handlers[h].target /\ c \in Copies /\ k \in Kinds
                     /\ Item(h)[1] = c /\ Item(h)[2] = k
                     /\ x = c[1] /\ x \in Outbound /\ mapping[c] = x /\ x # None
  BY ReportsOwnMessage
<1>2. k \in Statuses /\ k # "none"
  BY <1>1, KindsAssumption DEF Statuses
<1>3. rows'[x] = k /\ \A y \in Internal : y # x => rows'[y] = rows[y]
  BY <1>1, CopyParts DEF SetStatus, MessagesInv, TypeOK
<1>4. Kept /\ ExternalsSound'
  BY <1>1, <1>2, <1>3, CopyParts DEF Kept, MessagesInv, ExternalsSound, IsMessage
<1>5. \A m \in Outbound : m # x => Untouched(m)
  BY <1>3, CopyParts DEF Untouched
<1>6. SendSound(x)' /\ AnswerAgrees(x)'
  <2>1. ~Untracked(x)
    BY <1>1, CopyParts DEF Untracked
  <2>2. sends[x].at \notin SendAwaits \union {"idle", "failed"} /\ SendSound(x)
    BY <1>1, <2>1 DEF MessagesInv, SendSound
  <2>3. SendSound(x)'
    BY <1>2, <1>3, <2>2 DEF SendSound, SendAwaits
  <2>4. AnswerAgrees(x)'
    BY <1>1, <2>2 DEF AnswerAgrees, MessagesInv, AnswersAgree, Copy
  <2> QED  BY <2>3, <2>4
<1> QED  BY <1>4, <1>5, <1>6, OthersKept

LEMMA HandlingKeeps ==
  ASSUME MessagesInv, NEW h \in Handlers, Handling(h)
  PROVE  MessagesInv'
<1>1. TypeOK'
  BY HandlingTyped DEF MessagesInv
<1>2. UNCHANGED <<sends, accepted, raised, mishaps>>
  BY DEF Handling, findOwner, upsertMessage, upsertMapping, findMapping, updateStatus,
         publish, answer, HandlerLeaves
<1>3. handlers[h] \in HandlerStates
  BY DEF MessagesInv, TypeOK
<1>4. ASSUME UNCHANGED <<rows, mapping>>
      PROVE  Kept /\ ExternalsSound' /\ \A m \in Outbound : Untouched(m)
  BY <1>2, <1>4 DEF Kept, Untouched, MessagesInv, ExternalsSound, IsMessage
<1>5. ASSUME Kept, ExternalsSound', \A m \in Outbound : Untouched(m), published' = published,
             HandlerSound(h)', \A g \in Handlers \ {h} : handlers'[g] = handlers[g]
      PROVE  MessagesInv'
  BY <1>1, <1>2, <1>5, OthersKept, Parts
<1>6. CASE findOwner(h)
  <2>1. UNCHANGED <<rows, mapping, published>> /\ handlers[h].at = "owner"
    BY <1>6 DEF findOwner
  <2>2. CASE handlers' = [handlers EXCEPT ![h].at = "item"]
    <3>1. PICK x : x = handlers[h].target
      OBVIOUS
    <3>2. GoesOn(h, "item", x)
      BY <1>3, <2>2, <3>1 DEF GoesOn, HandlerStates, MessagesInv, TypeOK
    <3>3. ItemSoundNext("item", x, Item(h))
      BY DEF ItemSoundNext
    <3> QED  BY <1>4, <1>5, <2>1, <3>2, <3>3, SameItemSound DEF HandlerAwaits
  <2>3. CASE handlers' = Ended(h)
    BY <1>4, <1>5, <2>1, <2>3, AdvancedSound DEF HandlerAwaits
  <2> QED  BY <1>6, <2>2, <2>3 DEF findOwner
<1>7. CASE upsertMessage(h)
  <2> DEFINE i == Item(h)[1]
  <2>1. i \in Inbound /\ IsMessage(Item(h)) /\ handlers[h].at = "item"
    BY <1>7, ItemFacts, NoticeParts DEF upsertMessage, HandlerAwaits
  <2>2. /\ rows' = [rows EXCEPT ![i] = IF @ = "none" THEN "DELIVERED" ELSE @]
        /\ UNCHANGED <<mapping, published>>
    BY <1>7 DEF upsertMessage
  <2>3. rows'[i] # "none" /\ \A y \in Internal : y # i => rows'[y] = rows[y]
    BY <2>1, <2>2, CopyParts DEF MessagesInv, TypeOK
  <2>4. Kept /\ ExternalsSound' /\ \A m \in Outbound : Untouched(m)
    BY <1>2, <2>1, <2>2, <2>3, CopyParts
       DEF Kept, Untouched, MessagesInv, ExternalsSound, IsMessage
  <2>5. PICK x : x = i
    OBVIOUS
  <2>6. GoesOn(h, "map", x)
    BY <1>7, <2>5 DEF GoesOn, upsertMessage
  <2>7. ItemSoundNext("map", x, Item(h))
    BY <2>1, <2>3, <2>5 DEF ItemSoundNext
  <2> QED  BY <1>5, <2>1, <2>2, <2>4, <2>6, <2>7, SameItemSound DEF HandlerAwaits
<1>8. CASE upsertMapping(h)
  <2>1. PICK x : x = handlers[h].target
    OBVIOUS
  <2>2. x \in Inbound /\ x = Item(h)[1] /\ rows[x] # "none" /\ handlers[h].at = "map"
    BY <1>8, <2>1, ItemFacts, NoticeParts DEF upsertMapping, HandlerAwaits, ItemSound
  <2>3. mapping' = [mapping EXCEPT ![x] = x] /\ UNCHANGED <<rows, published>>
    BY <1>8, <2>1, <2>2 DEF upsertMapping
  <2>4. mapping'[x] = x /\ \A y \in ExternalIds : y # x => mapping'[y] = mapping[y]
    BY <2>2, <2>3, CopyParts DEF MessagesInv, TypeOK
  <2>5. mapping[x] \in {None, x}
    BY <2>2 DEF MessagesInv, ExternalsSound
  <2>6. Kept
    BY <1>2, <2>3, <2>4, <2>5 DEF Kept
  <2>7. \A c \in Copies : mapping'[c] = mapping[c]
    BY <2>2, <2>4, CopyParts DEF ExternalIds
  <2>8. ExternalsSound'
    BY <1>2, <2>2, <2>3, <2>4, <2>7, CopyParts DEF MessagesInv, ExternalsSound, IsMessage
  <2>9. \A m \in Outbound : Untouched(m)
    BY <1>2, <2>3, <2>7, CopyParts DEF Untouched
  <2>10. GoesOn(h, "publish", x)
    BY <1>3, <1>8, <2>1 DEF GoesOn, upsertMapping, HandlerStates, MessagesInv, TypeOK
  <2>11. ItemSoundNext("publish", x, Item(h))
    BY <2>2, <2>4, CopyParts DEF ItemSoundNext
  <2> QED  BY <1>5, <2>2, <2>3, <2>6, <2>8, <2>9, <2>10, <2>11, SameItemSound DEF HandlerAwaits
<1>9. CASE findMapping(h)
  <2>1. UNCHANGED <<rows, mapping, published>> /\ handlers[h].at = "item" /\ ~IsMessage(Item(h))
    BY <1>9 DEF findMapping
  <2>2. PICK x : x = IF mapping[Item(h)[1]] = None THEN Item(h)[1] ELSE mapping[Item(h)[1]]
    OBVIOUS
  <2>3. GoesOn(h, "update", x)
    BY <1>9, <2>2 DEF GoesOn, findMapping
  <2>4. ItemSoundNext("update", x, Item(h))
    BY <2>1, <2>2 DEF ItemSoundNext
  <2> QED  BY <1>4, <1>5, <2>1, <2>3, <2>4, SameItemSound DEF HandlerAwaits
<1>10. CASE publish(h)
  <2>1. UNCHANGED <<rows, mapping>> /\ handlers[h].at = "publish" /\ handlers' = Advanced(h)
        /\ published' = published \union {<<handlers[h].target, Item(h)[2]>>}
    BY <1>10 DEF publish
  <2>2. PICK n, x : n = Item(h) /\ x = handlers[h].target /\ n \in Notices /\ n \in raised
                      /\ x # None /\ mapping[n[1]] = x
    BY <2>1, ItemFacts DEF HandlerAwaits, ItemSound
  <2>3. Backed(<<x, n[2]>>)
    <3>1. CASE IsMessage(n)
      <4>1. n[1] = x /\ n = <<x, n[2]>> /\ x \in Inbound
        BY <2>2, <3>1, NoticeParts DEF MessagesInv, ExternalsSound, IsMessage
      <4> QED  BY <2>2, <4>1, CopyParts DEF Backed, HasRow, MessagesInv, ExternalsSound
    <3>2. CASE ~IsMessage(n)
      <4>1. n[1] \in Copies /\ x = n[1][1] /\ rows[x] # "none" /\ x \in Internal
        BY <2>2, <3>2, NoticeParts, CopyParts DEF MessagesInv, ExternalsSound
      <4> QED  BY <2>2, <4>1 DEF Backed, HasRow
    <3> QED  BY <3>1, <3>2
  <2>4. EventsAreBacked'
    <3>1. Kept
      BY <1>4, <2>1
    <3>2. \A e \in published : Backed(e)
      BY DEF MessagesInv, EventsAreBacked, Backed
    <3>3. \A e \in published' : Backed(e)
      BY <2>1, <2>2, <2>3, <3>2
    <3>4. \A e \in published' : Backed(e)'
      BY <3>1, <3>3, BackedKept DEF MessagesInv
    <3> QED  BY <3>4 DEF EventsAreBacked, Backed
  <2> QED  BY <1>1, <1>2, <1>4, <2>1, <2>4, AdvancedSound, OthersKept, Parts DEF HandlerAwaits
<1>11. CASE answer(h)
  <2>1. UNCHANGED <<rows, mapping, published>> /\ handlers' = [handlers EXCEPT ![h] = Idle]
    BY <1>11 DEF answer
  <2>2. HandlerSound(h)' /\ \A g \in Handlers \ {h} : handlers'[g] = handlers[g]
    <3>1. handlers'[h] = Idle /\ \A g \in Handlers \ {h} : handlers'[g] = handlers[g]
      BY <2>1 DEF MessagesInv, TypeOK
    <3> QED  BY <3>1 DEF HandlerSound, Idle, NoticesOf, HandlerAwaits
  <2> QED  BY <1>4, <1>5, <2>1, <2>2
<1>12. CASE updateStatus(h)
  <2>1. PICK x : x = handlers[h].target
    OBVIOUS
  <2>2. UNCHANGED <<mapping, published>> /\ handlers[h].at = "update"
    BY <1>12 DEF updateStatus
  <2>3. CASE ~HasRow(x)
    BY <1>4, <1>5, <1>12, <2>1, <2>2, <2>3, AdvancedSound DEF updateStatus, HandlerAwaits
  <2>4. CASE HasRow(x)
    <3>1. /\ Kept /\ ExternalsSound'
          /\ \A m \in Outbound : SendSound(m)' /\ AnswerAgrees(m)'
      BY <1>2, <1>12, <2>1, <2>2, <2>4, SetStatusSound DEF updateStatus
    <3>2. GoesOn(h, "publish", x)
      BY <1>3, <1>12, <2>1, <2>4 DEF GoesOn, updateStatus, HandlerStates, MessagesInv, TypeOK
    <3>3. ItemSoundNext("publish", x, Item(h))
      BY <2>1, <2>2, <2>4, ReportsOwnMessage DEF ItemSoundNext
    <3> QED  BY <1>1, <2>2, <3>1, <3>2, <3>3, SameItemSound, OthersKept, Parts DEF HandlerAwaits
  <2> QED  BY <2>3, <2>4
<1> QED  BY <1>6, <1>7, <1>8, <1>9, <1>10, <1>11, <1>12 DEF Handling
-----------------------------------------------------------------------------
(* Mishaps.                                                                *)

LEMMA SendRejectsKeeps ==
  ASSUME MessagesInv, NEW m \in Outbound, sendRejects(m), TypeOK'
  PROVE  MessagesInv'
<1>1. SendSound(m) /\ AnswerAgrees(m) /\ sends[m] \in Sends /\ DOMAIN sends = Outbound
  BY DEF MessagesInv, AnswersAgree, AnswerAgrees, TypeOK
<1>2. rows \in [Internal -> Statuses] /\ m \in Internal
  BY CopyParts DEF MessagesInv, TypeOK
<1>3. UNCHANGED <<accepted, raised, handlers, published>> /\ mishaps' # 0
  BY DEF sendRejects, Mishap, MessagesInv, TypeOK
<1>4. PICK a : a = sends'[m].at
  OBVIOUS
<1>5. /\ sends'[m].attempt = sends[m].attempt
      /\ \A n \in Outbound \ {m} : sends'[n] = sends[n]
      /\ a = (CASE sends[m].at = "marking" -> "preparing"
                [] sends[m].at = "refused" -> "failed" [] OTHER -> "threw")
      /\ sends[m].at \in SendAwaits \ {"posting"}
  BY <1>1, <1>4 DEF sendRejects, Sends
<1>6. Copy(m)' = Copy(m)
  BY <1>5 DEF Copy
<1>7. CASE UNCHANGED <<rows, mapping>>
  <2>1. SendSound(m)' /\ AnswerAgrees(m)'
    BY <1>1, <1>3, <1>4, <1>5, <1>7, UnmappedStays
       DEF SendSound, AnswerAgrees, SendAwaits, Unsettled
  <2>2. SendEffect(m)
    BY <1>3, <1>5, <1>7 DEF SendEffect
  <2> QED  BY <1>3, <2>1, <2>2, SendEffectKeeps
<1>8. CASE sends[m].at = "creating" /\ rows' = [rows EXCEPT ![m] = "PENDING"] /\ mapping' = mapping
  <2>1. SendSound(m)' /\ AnswerAgrees(m)'
    BY <1>1, <1>2, <1>3, <1>4, <1>5, <1>8, UnmappedStays DEF SendSound, AnswerAgrees, SendAwaits
  <2>2. SendEffect(m)
    BY <1>2, <1>3, <1>5, <1>8 DEF SendEffect
  <2> QED  BY <1>3, <2>1, <2>2, SendEffectKeeps
<1>9. CASE sends[m].at = "accepted" /\ SetSent(m)
  <2>1. Copy(m) \in accepted /\ Untracked(m) /\ a = "threw"
    BY <1>1, <1>5, <1>9 DEF SendSound, SendAwaits
  <2>2. rows' = [rows EXCEPT ![m] = "SENT"] /\ mapping' = [mapping EXCEPT ![Copy(m)] = m]
    BY <1>9 DEF SetSent
  <2>3. SendSound(m)' /\ AnswerAgrees(m)'
    BY <1>1, <1>2, <1>4, <1>5, <2>1, <2>2 DEF SendSound, AnswerAgrees, SendAwaits
  <2>4. SendEffect(m)
    BY <1>2, <1>3, <1>5, <2>1, <2>2 DEF SendEffect
  <2> QED  BY <1>3, <2>3, <2>4, SendEffectKeeps
<1> QED  BY <1>7, <1>8, <1>9 DEF sendRejects

LEMMA CrashKeeps ==
  ASSUME MessagesInv, crash, TypeOK'
  PROVE  MessagesInv'
<1>1. UNCHANGED <<rows, mapping, accepted, raised, published>> /\ mishaps' # 0
  BY DEF crash, Mishap, MessagesInv, TypeOK
<1>2. Kept
  BY <1>1 DEF Kept
<1>3. ASSUME NEW m \in Outbound
      PROVE  /\ sends'[m].attempt = sends[m].attempt
             /\ sends'[m].at = IF sends[m].at \in SendAwaits THEN "lost" ELSE sends[m].at
  BY DEF crash, MessagesInv, TypeOK, Sends
<1>4. ASSUME NEW m \in Outbound PROVE SendSound(m)' /\ AnswerAgrees(m)'
  <2>1. SendSound(m) /\ AnswerAgrees(m)
    BY DEF MessagesInv, AnswersAgree, AnswerAgrees
  <2>2. CASE sends[m].at \in SendAwaits
    BY <1>1, <1>3, <2>1, <2>2, UnmappedStays DEF SendSound, AnswerAgrees, SendAwaits
  <2>3. CASE sends[m].at \notin SendAwaits
    <3>1. sends'[m] = sends[m]
      BY <2>3 DEF crash
    <3>2. Untouched(m)
      BY <1>1, <3>1 DEF Untouched
    <3> QED  BY <1>1, <1>2, <3>2, OthersKept
  <2> QED  BY <2>2, <2>3
<1>5. ExternalsSound'
  BY <1>1, <1>3, CopyParts DEF MessagesInv, ExternalsSound, IsMessage, TypeOK
<1>6. ASSUME NEW h \in Handlers PROVE HandlerSound(h)'
  <2>1. handlers'[h] = Idle
    BY DEF crash
  <2> QED  BY <2>1 DEF HandlerSound, Idle, NoticesOf, HandlerAwaits
<1> QED  BY <1>1, <1>2, <1>4, <1>5, <1>6, OthersKept, Parts

LEMMA FailingKeeps ==
  ASSUME MessagesInv, Failing
  PROVE  MessagesInv'
<1>1. TypeOK'
  BY FailingTyped DEF MessagesInv
<1>2. ASSUME UNCHANGED <<rows, mapping, sends, accepted, raised>>, Mishap
      PROVE  /\ Kept /\ ExternalsSound'
             /\ \A m \in Outbound : Untouched(m)
             /\ mishaps' # 0
  BY <1>2 DEF Kept, Untouched, Mishap, MessagesInv, TypeOK, ExternalsSound, IsMessage
<1>3. ASSUME NEW m \in Outbound, sendRejects(m) PROVE MessagesInv'
  BY <1>1, <1>3, SendRejectsKeeps
<1>4. ASSUME NEW h \in Handlers, handlerRejects(h) PROVE MessagesInv'
  <2>1. /\ UNCHANGED <<mapping, sends, accepted, raised, published>> /\ Mishap
        /\ handlers[h].at \in HandlerAwaits
        /\ (handlers' = Advanced(h) \/ handlers' = Ended(h))
    BY <1>4 DEF handlerRejects
  <2>2. mishaps' # 0
    BY <2>1 DEF Mishap, MessagesInv, TypeOK
  <2>3. Kept /\ ExternalsSound' /\ \A m \in Outbound : SendSound(m)' /\ AnswerAgrees(m)'
    <3>1. CASE UNCHANGED rows
      BY <1>2, <2>1, <2>2, <3>1, OthersKept
    <3>2. CASE ~UNCHANGED rows
      BY <1>4, <2>1, <2>2, <3>2, SetStatusSound DEF handlerRejects
    <3> QED  BY <3>1, <3>2
  <2>4. HandlerSound(h)' /\ \A g \in Handlers \ {h} : handlers'[g] = handlers[g]
    BY <2>1, <2>3, AdvancedSound
  <2> QED  BY <1>1, <2>1, <2>3, <2>4, OthersKept, Parts
<1>5. ASSUME NEW h \in Handlers, deliveryTimesOut(h) PROVE MessagesInv'
  <2>1. UNCHANGED <<rows, mapping, sends, accepted, raised, handlers, published>> /\ Mishap
    BY <1>5 DEF deliveryTimesOut
  <2> QED  BY <1>1, <1>2, <2>1, OthersKept, Parts
<1>6. CASE crash
  BY <1>1, <1>6, CrashKeeps
<1>7. CASE revoke
  <2>1. UNCHANGED <<rows, mapping, sends, accepted, raised, handlers, published>> /\ Mishap
    BY <1>7 DEF revoke
  <2> QED  BY <1>1, <1>2, <2>1, OthersKept, Parts
<1> QED  BY <1>3, <1>4, <1>5, <1>6, <1>7 DEF Failing

-----------------------------------------------------------------------------
(* The theorems.                                                           *)

LEMMA InitInv == Init => MessagesInv
<1> SUFFICES ASSUME Init PROVE MessagesInv  OBVIOUS
<1>1. \A m \in Outbound : SendSound(m)
  BY CopyParts DEF Init, SendSound, Untracked, SendAwaits
<1>2. ExternalsSound
  BY CopyParts DEF Init, ExternalsSound, ExternalIds
<1>3. \A h \in Handlers : HandlerSound(h)
  BY DEF Init, HandlerSound, Idle, NoticesOf, HandlerAwaits
<1>4. AnswersAgree /\ EventsAreBacked
  BY DEF Init, AnswersAgree, EventsAreBacked
<1> QED  BY <1>1, <1>2, <1>3, <1>4, InitTyped DEF MessagesInv

LEMMA StutterKeeps == MessagesInv /\ UNCHANGED vars => MessagesInv'
<1> SUFFICES ASSUME MessagesInv, UNCHANGED vars PROVE MessagesInv'
  OBVIOUS
<1>1. Kept /\ \A m \in Outbound : Untouched(m)
  BY DEF vars, Kept, Untouched
<1>2. TypeOK' /\ ExternalsSound'
  BY DEF vars, MessagesInv, TypeOK, ExternalsSound, IsMessage
<1> QED  BY <1>1, <1>2, OthersKept, Parts DEF vars

LEMMA NextKeeps == MessagesInv /\ [Next]_vars => MessagesInv'
BY SendingKeeps, AcceptKeeps, RaiseKeeps, DeliveringKeeps, HandlingKeeps, FailingKeeps,
   StutterKeeps DEF Next

\* Rows, mappings and what sends and webhook requests hold of them agree.
THEOREM MessagesInvariant == Spec => []MessagesInv
<1>1. Init => MessagesInv
  BY InitInv
<1>2. MessagesInv /\ [Next]_vars => MessagesInv'
  BY NextKeeps
<1> QED  BY <1>1, <1>2, PTL DEF Spec

\* The variables have their types.
THEOREM TypeCorrect == Spec => []TypeOK
<1>1. MessagesInv => TypeOK
  BY DEF MessagesInv
<1> QED  BY <1>1, MessagesInvariant, PTL

\* A client told "sent" has a mapping for the copy Meta accepted, and one told
\* "failed" a message that stays FAILED, with however many sends and requests.
THEOREM AnswersTrue == Spec => []AnswersAgree
<1>1. MessagesInv => AnswersAgree
  BY DEF MessagesInv
<1> QED  BY <1>1, MessagesInvariant, PTL

\* Every event tenants get is of a message the API knows and of what Meta told of it.
THEOREM EventsBacked == Spec => []EventsAreBacked
<1>1. MessagesInv => EventsAreBacked
  BY DEF MessagesInv
<1> QED  BY <1>1, MessagesInvariant, PTL
-----------------------------------------------------------------------------
(* ProviderMessages implements MessageLifecycle.                           *)

\* What the refinement mapping reads.
LEMMA MappingReads ==
  /\ UNCHANGED accepted => TakenMessages' = TakenMessages
  /\ (\A c \in Copies : mapping'[c] = mapping[c]) => Tracked' = Tracked
  /\ UNCHANGED raised => \A m \in Outbound : ReportsOf(m)' = ReportsOf(m)
BY DEF TakenMessages, Tracked, ReportsOf

SameStatuses == \A m \in Outbound : rows'[m] = rows[m]
SameReports == \A m \in Outbound : ReportsOf(m)' = ReportsOf(m)

LEMMA Stutters ==
  ASSUME SameStatuses, TakenMessages' = TakenMessages, Tracked' = Tracked, SameReports
  PROVE  UNCHANGED Lifecycle!vars
BY DEF SameStatuses, SameReports, Lifecycle!vars

\* A step that writes the row of one message, and none of what Meta has done.
RowSet(m, s) == rows' = [rows EXCEPT ![m] = s]

LEMMA RowSets ==
  ASSUME TypeOK, NEW m \in Outbound, NEW s, RowSet(m, s), UNCHANGED <<accepted, raised>>
  PROVE  /\ Lifecycle!SetStatus(m, s)
         /\ [n \in Outbound |-> rows[n]][m] = rows[m]
         /\ TakenMessages' = TakenMessages
         /\ [n \in Outbound |-> ReportsOf(n)]' = [n \in Outbound |-> ReportsOf(n)]
         /\ mapping' = mapping => Tracked' = Tracked
<1>1. \A n \in Outbound : rows'[n] = IF n = m THEN s ELSE rows[n]
  BY CopyParts DEF RowSet, TypeOK
<1>2. Lifecycle!SetStatus(m, s)
  BY <1>1 DEF Lifecycle!SetStatus
<1> QED  BY <1>2, MappingReads

\* The transaction of persistSuccess.
LEMMA SetSentMaps ==
  ASSUME MessagesInv, NEW m \in Outbound, sends[m].at = "accepted", SetSent(m),
         UNCHANGED <<accepted, raised>>
  PROVE  Lifecycle!Next
<1>1. Copy(m) \in accepted /\ Copy(m) \in Copies /\ Copy(m)[1] = m /\ rows[m] \in Unsettled
  BY DEF MessagesInv, SendSound, TypeOK, Copy
<1>2. m \in TakenMessages
  BY <1>1 DEF TakenMessages
<1>3. \A c \in Copies : mapping'[c] = IF c = Copy(m) THEN m ELSE mapping[c]
  BY <1>1 DEF SetSent, MessagesInv, TypeOK, ExternalIds
<1>4. Tracked' = Tracked \union {m}
  <2>1. \A n \in Outbound \ {m} : n \in Tracked' <=> n \in Tracked
    <3>1. ASSUME NEW n \in Outbound \ {m}, NEW c \in Copies PROVE mapping'[c] = n <=> mapping[c] = n
      <4>1. mapping[Copy(m)] \in {None, m}
        BY <1>1 DEF MessagesInv, ExternalsSound
      <4> QED  BY <1>3, <4>1, CopyParts
    <3> QED  BY <3>1 DEF Tracked
  <2>2. m \in Tracked'
    BY <1>1, <1>3 DEF Tracked
  <2>3. Tracked \subseteq Outbound /\ Tracked' \subseteq Outbound
    BY DEF Tracked
  <2> QED  BY <2>1, <2>2, <2>3
<1>5. RowSet(m, "SENT")
  BY DEF SetSent, RowSet
<1>6. Lifecycle!SettleSent(m)
  BY <1>1, <1>2, <1>4, <1>5, RowSets
     DEF Lifecycle!SettleSent, Lifecycle!Unsettled, Unsettled, MessagesInv
<1> QED  BY <1>6 DEF Lifecycle!Next

LEMMA SendingMaps ==
  ASSUME MessagesInv, NEW m \in Outbound, send(m) \/ Sending(m)
  PROVE  Lifecycle!Next \/ UNCHANGED Lifecycle!vars
<1>1. SendSound(m) /\ TypeOK
  BY DEF MessagesInv
<1>2. UNCHANGED <<accepted, raised>>
  BY DEF send, Sending, resolveProvider, createMessage, resolveCredential, markProcessing,
         resolveMetaWhatsApp, attemptFails, attemptAnswered, persistSuccess,
         persistFailure, SendLeaves
<1>3. CASE createMessage(m)
  <2>1. rows[m] = "none" /\ RowSet(m, "PENDING") /\ mapping' = mapping
    BY <1>1, <1>3 DEF createMessage, SendGoes, SendSound, RowSet
  <2>2. Lifecycle!Create(m)
    BY <1>1, <1>2, <2>1, RowSets DEF Lifecycle!Create
  <2> QED  BY <2>2 DEF Lifecycle!Next
<1>4. CASE markProcessing(m)
  <2>1. rows[m] = "PENDING" /\ RowSet(m, "PROCESSING") /\ mapping' = mapping
    BY <1>1, <1>4 DEF markProcessing, SendGoes, SendSound, RowSet
  <2>2. Lifecycle!Process(m)
    BY <1>1, <1>2, <2>1, RowSets DEF Lifecycle!Process
  <2> QED  BY <2>2 DEF Lifecycle!Next
<1>5. CASE persistSuccess(m)
  BY <1>2, <1>5, SetSentMaps DEF persistSuccess, SendGoes
<1>6. CASE persistFailure(m)
  <2>1. rows[m] \in Unsettled /\ RowSet(m, "FAILED") /\ mapping' = mapping
    BY <1>1, <1>6 DEF persistFailure, SendGoes, SendSound, RowSet
  <2>2. Lifecycle!SettleFailed(m)
    BY <1>1, <1>2, <2>1, RowSets DEF Lifecycle!SettleFailed, Lifecycle!Unsettled, Unsettled
  <2> QED  BY <2>2 DEF Lifecycle!Next
<1>7. CASE UNCHANGED <<rows, mapping>>
  <2>1. SameStatuses /\ SameReports /\ TakenMessages' = TakenMessages /\ Tracked' = Tracked
    BY <1>2, <1>7, MappingReads DEF SameStatuses, SameReports
  <2> QED  BY <2>1, Stutters
<1> QED  BY <1>3, <1>4, <1>5, <1>6, <1>7
         DEF send, Sending, resolveProvider, resolveCredential, resolveMetaWhatsApp,
             attemptFails, attemptAnswered

LEMMA AcceptMaps ==
  ASSUME MessagesInv, NEW c \in Copies, accept(c)
  PROVE  Lifecycle!Next
<1>1. /\ UNCHANGED <<rows, mapping, raised>> /\ accepted' = accepted \union {c}
  BY DEF accept, MetaLeaves
<1>2. PICK m \in Outbound : m = c[1]
  BY CopyParts
<1>3. rows[m] # "none"
  <2>1. sends[m].attempt # 0
    BY <1>2 DEF accept, MessagesInv, TypeOK, Sends
  <2> QED  BY <2>1 DEF MessagesInv, SendSound
<1>4. TakenMessages' = TakenMessages \union {m}
  BY <1>1, <1>2 DEF TakenMessages
<1>5. Lifecycle!Take(m)
  BY <1>1, <1>3, <1>4, MappingReads DEF Lifecycle!Take
<1> QED  BY <1>5 DEF Lifecycle!Next

LEMMA RaiseMaps ==
  ASSUME MessagesInv, NEW n \in Notices, raise(n)
  PROVE  Lifecycle!Next \/ UNCHANGED Lifecycle!vars
<1>1. UNCHANGED <<rows, mapping, accepted>> /\ raised' = raised \union {n}
  BY DEF raise, MetaLeaves
<1>2. SameStatuses /\ TakenMessages' = TakenMessages /\ Tracked' = Tracked
  BY <1>1, MappingReads DEF SameStatuses
<1>3. CASE IsMessage(n)
  <2>1. n[1] \notin Copies
    BY <1>3, CopyParts DEF IsMessage
  <2>2. SameReports
    BY <1>1, <2>1 DEF SameReports, ReportsOf
  <2> QED  BY <1>2, <2>2, Stutters
<1>4. CASE ~IsMessage(n)
  <2>1. PICK m \in Outbound, k \in Kinds : n[1] \in Copies /\ n[1][1] = m /\ n[2] = k
    BY <1>4, NoticeParts, CopyParts
  <2>2. m \in TakenMessages
    BY <1>4, <2>1 DEF raise, TakenMessages
  <2>3. \A x \in Outbound : ReportsOf(x)' = IF x = m THEN ReportsOf(x) \union {k} ELSE ReportsOf(x)
    BY <1>1, <2>1 DEF ReportsOf
  <2>4. Lifecycle!Report(m, k)
    BY <1>1, <1>2, <2>2, <2>3 DEF Lifecycle!Report
  <2> QED  BY <2>1, <2>4 DEF Lifecycle!Next
<1> QED  BY <1>3, <1>4

\* A report applied.
LEMMA SetStatusMaps ==
  ASSUME MessagesInv, NEW h \in Handlers, handlers[h].at = "update", HasRow(handlers[h].target),
         SetStatus(h), UNCHANGED <<mapping, accepted, raised>>
  PROVE  Lifecycle!Next
<1>1. PICK x, c, k : /\ x = handlers[h].target /\ Item(h)[1] = c /\ Item(h)[2] = k
                     /\ c \in Copies /\ k \in Kinds /\ x = c[1] /\ x \in Outbound
                     /\ mapping[c] = x
  BY ReportsOwnMessage
<1>2. RowSet(x, k)
  BY <1>1 DEF SetStatus, RowSet
<1>3. x \in Tracked
  BY <1>1 DEF Tracked
<1>4. k \in ReportsOf(x)
  BY <1>1, ItemFacts DEF HandlerAwaits, ReportsOf
<1>5. Lifecycle!Reconcile(x, k)
  BY <1>1, <1>2, <1>3, <1>4, RowSets DEF Lifecycle!Reconcile, MessagesInv
<1> QED  BY <1>1, <1>5 DEF Lifecycle!Next

LEMMA HandlingMaps ==
  ASSUME MessagesInv, NEW h \in Handlers, Handling(h)
  PROVE  Lifecycle!Next \/ UNCHANGED Lifecycle!vars
<1>1. UNCHANGED <<accepted, raised>>
  BY DEF Handling, findOwner, upsertMessage, upsertMapping, findMapping, updateStatus,
         publish, answer, HandlerLeaves
<1>2. ASSUME SameStatuses, \A c \in Copies : mapping'[c] = mapping[c]
      PROVE  UNCHANGED Lifecycle!vars
  BY <1>1, <1>2, MappingReads, Stutters DEF SameReports
<1>3. CASE UNCHANGED <<rows, mapping>>
  BY <1>2, <1>3 DEF SameStatuses
<1>4. CASE upsertMessage(h)
  <2>1. Item(h)[1] \in Inbound
    BY <1>4, ItemFacts, NoticeParts DEF upsertMessage, HandlerAwaits
  <2>2. SameStatuses /\ mapping' = mapping
    BY <1>4, <2>1, CopyParts DEF upsertMessage, SameStatuses, MessagesInv, TypeOK
  <2> QED  BY <1>2, <2>2
<1>5. CASE upsertMapping(h)
  <2>1. Item(h)[1] \in Inbound
    BY <1>5, ItemFacts, NoticeParts DEF upsertMapping, HandlerAwaits, ItemSound
  <2>2. SameStatuses /\ \A c \in Copies : mapping'[c] = mapping[c]
    BY <1>5, <2>1, CopyParts DEF upsertMapping, SameStatuses, MessagesInv, TypeOK, ExternalIds
  <2> QED  BY <1>2, <2>2
<1>6. CASE updateStatus(h) /\ HasRow(handlers[h].target)
  BY <1>1, <1>6, SetStatusMaps DEF updateStatus
<1> QED  BY <1>3, <1>4, <1>5, <1>6
         DEF Handling, findOwner, findMapping, updateStatus, publish, answer

LEMMA FailingMaps ==
  ASSUME MessagesInv, Failing
  PROVE  Lifecycle!Next \/ UNCHANGED Lifecycle!vars
<1>1. UNCHANGED <<accepted, raised>>
  BY DEF Failing, sendRejects, handlerRejects, deliveryTimesOut, crash, revoke
<1>2. CASE UNCHANGED <<rows, mapping>>
  BY <1>1, <1>2, MappingReads, Stutters DEF SameStatuses, SameReports
<1>3. ASSUME NEW m \in Outbound, sendRejects(m), ~UNCHANGED <<rows, mapping>>
      PROVE  Lifecycle!Next
  <2>1. CASE sends[m].at = "creating" /\ RowSet(m, "PENDING") /\ mapping' = mapping
    <3>1. rows[m] = "none"
      BY <2>1 DEF MessagesInv, SendSound
    <3>2. Lifecycle!Create(m)
      BY <1>1, <2>1, <3>1, RowSets DEF Lifecycle!Create, MessagesInv
    <3> QED  BY <3>2 DEF Lifecycle!Next
  <2>2. CASE sends[m].at = "accepted" /\ SetSent(m)
    BY <1>1, <2>2, SetSentMaps
  <2> QED  BY <1>3, <2>1, <2>2 DEF sendRejects, RowSet
<1>4. ASSUME NEW h \in Handlers, handlerRejects(h), ~UNCHANGED rows
      PROVE  Lifecycle!Next
  BY <1>1, <1>4, SetStatusMaps DEF handlerRejects
<1> QED  BY <1>2, <1>3, <1>4 DEF Failing, handlerRejects, deliveryTimesOut, crash, revoke

\* Sends, reports and mishaps in any number and order change the status of a message
\* only as MessageLifecycle allows.
THEOREM ImplementsLifecycle == Spec => KeepsLifecycle
<1>1. Init => Lifecycle!Init
  <2> SUFFICES ASSUME Init PROVE Lifecycle!Init  OBVIOUS
  <2>1. \A m \in Outbound : rows[m] = "none" /\ ReportsOf(m) = {}
    BY DEF Init, Internal, ReportsOf
  <2>2. TakenMessages = {} /\ Tracked = {}
    BY CopyParts DEF Init, TakenMessages, Tracked
  <2> QED  BY <2>1, <2>2 DEF Lifecycle!Init
<1>2. MessagesInv /\ [Next]_vars => [Lifecycle!Next]_(Lifecycle!vars)
  <2> SUFFICES ASSUME MessagesInv, [Next]_vars
               PROVE  Lifecycle!Next \/ UNCHANGED Lifecycle!vars
    BY DEF Lifecycle!vars
  <2>1. CASE Delivering \/ UNCHANGED vars
    <3>1. UNCHANGED <<rows, mapping, accepted, raised>>
      BY <2>1 DEF Delivering, receive, MetaLeaves, vars
    <3> QED  BY <3>1, MappingReads, Stutters DEF SameStatuses, SameReports
  <2> QED  BY <2>1, SendingMaps, AcceptMaps, RaiseMaps, HandlingMaps, FailingMaps DEF Next
<1> QED  BY <1>1, <1>2, MessagesInvariant, PTL DEF Spec, KeepsLifecycle, Lifecycle!Spec
=============================================================================
