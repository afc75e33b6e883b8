--------------------------- MODULE ChannelMessages --------------------------
(***************************************************************************)
(* One instance on one of the channels: what it sends through the          *)
(* provider, what the platform reports of the chats, and the ids by which  *)
(* rows, mappings and messages are told from one another.  Each provider   *)
(* has ids of its own kind, and each webhook service makes of them the     *)
(* keys of the same two tables (messages and external_message_mappings).   *)
(*                                                                         *)
(* The awaits between the row of a message and its request, and Meta's     *)
(* batches, are in ProviderMessages.                                       *)
(***************************************************************************)
EXTENDS ChannelMappers

CONSTANTS
  Channels,    \* providers the instance may be on
  Chats,
  Outbound,    \* ids of the messages clients ask to send
  SentForms,   \* forms they have
  Handlers,    \* webhook requests served at once
  None,
  MaxPosts,    \* bound: messages in the chats
  MaxNotices,  \* bound: what the platform reports
  MaxReplays,  \* bound: calls of POST /v1/webhooks/replay
  MaxMishaps   \* bound: awaits that reject, requests the platform refuses or repeats

ASSUME ChannelsAssumption == Channels \subseteq Providers
ASSUME FormsAssumption == SentForms \subseteq Forms
ASSUME BoundsAssumption == {MaxPosts, MaxNotices, MaxReplays, MaxMishaps} \subseteq Nat

VARIABLES
  provider,    \* the channel
  posts,       \* the messages in the chats
  told,        \* what the platform has reported, its answers to sends aside
  pending,     \* the part of it the platform has no 200 for and has not given up
  answered,    \* the part of it that was handled to its end
  outRows,     \* rows of outbound messages
  inRows,      \* rows of inbound ones, by their external id
  mapping,     \* the external_message_mappings: external id to row
  sends,       \* the send() of each outbound message
  handlers,    \* the webhook requests being served
  published,   \* events dispatched
  log,         \* inbound_webhook_events
  hits,        \* messages the platform acted on, each with the one that was meant
  replays,     \* replays that have ended, with what became of them
  mishaps      \* so far

channelVars ==
  <<provider, posts, told, pending, answered, outRows, inRows, mapping, sends,
    handlers, published, log, hits, replays, mishaps>>

-----------------------------------------------------------------------------
(* Ids *)

PostIds == [chat : Chats, n : 1..MaxPosts]
PostOf(q) == [chat |-> q.chat, n |-> q.n]

\* Telegram numbers the messages of each chat; the others' ids are unique.
NextPost(c) ==
  [chat |-> c, n |-> 1 + Cardinality({q \in posts : provider = "TELEGRAM" => q.chat = c})]

\* An external id: that of a message alone, with its chat in front, one of the report's
\* own, or that of a user's vote in a poll.
Ids == [kind : {"bare", "full", "own", "vote"}, chat : Chats \union {None},
        n : 0..(MaxPosts + MaxNotices)]
Bare(q) == [kind |-> "bare", chat |-> None, n |-> q.n]
Full(q) == [kind |-> "full", chat |-> q.chat, n |-> q.n]
Own(k) == [kind |-> "own", chat |-> None, n |-> k]
Vote(q) == [kind |-> "vote", chat |-> None, n |-> q.n]

\* The externalMessageId of a message a provider has sent.
externalMessageId(q) == IF provider \in {"DISCORD", "SLACK"} THEN Full(q) ELSE Bare(q)

\* Twilio's and Meta's ids are the keys of the rows as they are; the others get a
\* prefix, so that inbound and outbound rows never share one.
SharesKey == provider \in Twilio \union Pages \union {"META_WHATSAPP_CLOUD"}

MessageStatuses == {"SENT", "DELIVERED", "READ", "FAILED"}

\* A report of the platform.
Notices == [what : {"message", "edit", "press", "vote", "reaction", "command", "status",
                    "call"},
            post : PostIds \union {None}, status : MessageStatuses \union {None}, n : 1..MaxNotices]

\* The rows of messages sent have the names of those; the others have their ids.
ASSUME IdsAssumption == Outbound \intersect Ids = {}
ASSUME NoneAssumption ==
  /\ None \notin Chats /\ None \notin Outbound
  /\ None \notin PostIds /\ None \notin Ids /\ None \notin Notices

Notice(what, q, s) ==
  [what |-> what, post |-> q, status |-> s, n |-> Cardinality(told) + 1]

\* Mutant: the id of the chat's message for the press of a button.
telegramId_PressOfMessage(x) ==
  CASE x.what = "vote" -> Vote(x.post) [] OTHER -> Bare(x.post)

\* A callback query has its own id, a vote that of the poll and the user.
telegramId(x) ==
  CASE x.what = "press" -> Own(x.n)
    [] x.what = "vote" -> Vote(x.post)
    [] OTHER -> Bare(x.post)

\* A press and a reaction go by the message they are on.
slackId(x) == IF x.what = "command" THEN Own(x.n) ELSE Bare(x.post)

discordId(x) == Own(x.n)

providerMessageId(x) ==
  CASE provider = "TELEGRAM" -> telegramId(x)
    [] provider = "SLACK" -> slackId(x)
    [] provider = "DISCORD" -> discordId(x)
    [] OTHER -> Bare(x.post)

\* What each platform reports of a message of the contact's, or of ours.  (Discord's
\* interactions endpoint is not told of messages.)
Reports(mine) ==
  CASE provider = "TELEGRAM" -> IF mine THEN {"press", "vote"} ELSE {"edit"}
    [] provider = "SLACK" -> IF mine THEN {"press", "reaction"} ELSE {"reaction"}
    [] provider = "DISCORD" -> IF mine THEN {"press"} ELSE {}
    [] provider \in Twilio \union Pages -> IF mine THEN {"status"} ELSE {}
    [] OTHER -> {}

\* The statuses each inbound mapper makes of them: an Instagram echo is SENT.
StatusKinds ==
  CASE provider \in Twilio -> MessageStatuses
    [] provider = "META_INSTAGRAM" -> {"SENT", "READ"}
    [] OTHER -> {"READ"}

\* Platforms that send a report again until it is answered with 200.  Meta's
\* controller answers 200 whatever happens.
Redelivers == provider \in {"TELEGRAM", "SLACK"}

-----------------------------------------------------------------------------

Idle == [at |-> "idle", notice |-> None, replay |-> FALSE, row |-> None]
\* Tables keyed by external ids.
Empty == [id \in {} |-> None]
Put(table, id, r) ==
  [i \in DOMAIN table \union {id} |-> IF i = id THEN r ELSE table[i]]

NoCall == [request |-> FALSE, refers |-> FALSE, retryable |-> FALSE]

ChannelInit ==
  /\ provider \in Channels
  /\ posts = {} /\ told = {} /\ pending = {} /\ answered = {}
  /\ outRows = [m \in Outbound |-> [status |-> "none", ext |-> None]]
  /\ inRows = Empty /\ mapping = Empty
  /\ sends = [m \in Outbound |-> [at |-> "idle", chat |-> None, ref |-> None,
                                  named |-> None, call |-> NoCall, post |-> None]]
  /\ handlers = [h \in Handlers |-> Idle]
  /\ published = {} /\ log = {} /\ hits = {} /\ replays = {}
  /\ mishaps = 0

PlatformLeaves == UNCHANGED <<provider, answered, outRows, inRows, mapping, sends,
                              handlers, published, log, hits, replays, mishaps>>
SendLeaves == UNCHANGED <<provider, told, pending, answered, inRows, handlers,
                          published, log, replays>>
HandlerLeaves == UNCHANGED <<provider, posts, told, sends, hits>>

Mishap == mishaps < MaxMishaps /\ mishaps' = mishaps + 1

Tell(x) == told' = told \union {x} /\ pending' = pending \union {x}

-----------------------------------------------------------------------------
(* The contact *)

contactPosts(c) ==
  /\ Cardinality(posts) < MaxPosts /\ Cardinality(told) < MaxNotices
  /\ LET q == NextPost(c) IN
       /\ posts' = posts \union {[chat |-> c, n |-> q.n, ours |-> FALSE]}
       /\ IF provider = "DISCORD" THEN UNCHANGED <<told, pending>>
          ELSE Tell(Notice("message", q, None))
  /\ PlatformLeaves

\* The contact edits, presses, votes or reacts, or the platform reports a status.
contactActs(q, what) ==
  /\ Cardinality(told) < MaxNotices
  /\ what \in Reports(q.ours)
  /\ \E s \in IF what = "status" THEN StatusKinds ELSE {None} :
       Tell(Notice(what, PostOf(q), s))
  /\ UNCHANGED posts /\ PlatformLeaves

\* A slash command (Slack, Discord) or a call's status (Twilio).
commands ==
  /\ Cardinality(told) < MaxNotices
  /\ \/ provider \in {"SLACK", "DISCORD"} /\ Tell(Notice("command", None, None))
     \/ provider = "TWILIO_SMS" /\ Tell(Notice("call", None, None))
  /\ UNCHANGED posts /\ PlatformLeaves

-----------------------------------------------------------------------------
(* Rows, as a client sees them: a message that was sent or received, with  *)
(* the id GET /messages shows.                                             *)

Sent == {m \in Outbound : outRows[m].ext # None}
Rows == Sent \union DOMAIN inRows
ExternalId(r) == IF r \in Outbound THEN outRows[r].ext ELSE r

\* The message a row stands for, and the chat it was in.
PostOfRow(r) == IF r \in Outbound THEN sends[r].post ELSE inRows[r].content.post
ChatOfRow(r) == IF r \in Outbound THEN sends[r].chat ELSE inRows[r].chat

-----------------------------------------------------------------------------
(* send() *)

SendGoes(m, from, to) ==
  sends[m].at = from /\ sends' = [sends EXCEPT ![m].at = to]

\* The row is made, the message is mapped (the mapper is a function of it), and its
\* client waits.  A message with a quotedId goes to the chat of the one it names.
send(m, f) ==
  /\ sends[m].at = "idle"
  /\ \/ \E c \in Chats :
          sends' = [sends EXCEPT ![m] = [@ EXCEPT !.at = "preparing", !.chat = c,
                                                  !.call = Mapped(provider, f)]]
     \/ \E r \in Rows :
          /\ ChatOfRow(r) # None
          /\ sends' = [sends EXCEPT ![m] =
               [at |-> "preparing", chat |-> ChatOfRow(r), ref |-> ExternalId(r),
                named |-> PostOfRow(r), call |-> Mapped(provider, f), post |-> None]]
  /\ outRows' = [outRows EXCEPT ![m].status = "PROCESSING"]
  /\ UNCHANGED <<posts, mapping, hits, mishaps>> /\ SendLeaves

\* The provider resolves its credential and, for dm: and user: recipients, the chat,
\* outside its try.
prepareThrows(m) ==
  /\ SendGoes(m, "preparing", "threw") /\ Mishap
  /\ UNCHANGED <<posts, outRows, mapping, hits>> /\ SendLeaves

\* What the mapper refuses is not sent.
prepare(m) ==
  /\ SendGoes(m, "preparing", IF sends[m].call.request THEN "posting" ELSE "refused")
  /\ UNCHANGED <<posts, outRows, mapping, hits, mishaps>> /\ SendLeaves

InChat(c, n) == {PostOf(q) : q \in {r \in posts : r.chat = c /\ r.n = n}}

\* What the platform does with a reference: the set of messages it finds, "refused"
\* for one it does not take.  Telegram's is Number(messageId) in the chat; a Slack
\* thread_ts and WhatsApp's context are the id as it is; Discord's does not fail on a
\* message that is not there, but on what is no id.
Referred(m) ==
  LET c == sends[m].chat
      id == sends[m].ref
      found == IF id.kind = "bare" THEN InChat(c, id.n) ELSE {} IN
  IF id = None \/ ~sends[m].call.refers THEN {None}
  ELSE IF found # {} THEN found
  ELSE IF provider = "DISCORD" /\ id.kind # "full" THEN {None}
  ELSE {}

\* The platform takes the request.
accept(m) ==
  /\ Cardinality(posts) < MaxPosts
  /\ sends[m].at = "posting"
  /\ \E q \in Referred(m) : LET p == NextPost(sends[m].chat) IN
       /\ posts' = posts \union {[chat |-> p.chat, n |-> p.n, ours |-> TRUE]}
       /\ sends' = [sends EXCEPT ![m].at = "accepted", ![m].post = p]
       /\ hits' = IF q = None THEN hits
                  ELSE hits \union {[meant |-> sends[m].named, hit |-> q]}
  /\ UNCHANGED <<outRows, mapping, mishaps>> /\ SendLeaves

\* Status and code of an answer that is no acceptance; no answer is 0.
Refusals == {<<429, "rate_limited">>, <<400, "bad_request">>, <<503, "unavailable">>,
             <<0, "none">>}

\* It does not: the reference is bad, or for a reason of its own.
refuse(m) ==
  /\ sends[m].at = "posting"
  /\ \/ /\ Referred(m) = {} /\ UNCHANGED mishaps
        /\ sends' = [sends EXCEPT ![m].at = "refused",
             ![m].call.retryable = Retryable(provider, 400, "bad_request")]
     \/ /\ Mishap
        /\ \E a \in Refusals :
             sends' = [sends EXCEPT ![m].at = "refused",
               ![m].call.retryable = Retryable(provider, a[1], a[2])]
  /\ UNCHANGED <<posts, outRows, mapping, hits>> /\ SendLeaves

\* The row fails; the client gets a 400, or a result that says it failed.
persistFailure(m) ==
  /\ SendGoes(m, "refused", IF sends[m].call.retryable THEN "failed" ELSE "rejected")
  /\ outRows' = [outRows EXCEPT ![m].status = "FAILED"]
  /\ UNCHANGED <<posts, mapping, hits, mishaps>> /\ SendLeaves

\* waMessageId is unique: another row may have the id.
Taken(m, id) ==
  \/ \E o \in Outbound \ {m} : outRows[o].ext = id
  \/ SharesKey /\ id \in DOMAIN inRows

\* One transaction: the row gets the id and the mapping the row, or neither.
persistSuccess(m) ==
  LET id == externalMessageId(sends[m].post) IN
  /\ SendGoes(m, "accepted", IF Taken(m, id) THEN "threw" ELSE "sent")
  /\ IF Taken(m, id) THEN UNCHANGED <<outRows, mapping>>
     ELSE /\ outRows' = [outRows EXCEPT ![m] = [status |-> "SENT", ext |-> id]]
          /\ mapping' = Put(mapping, id, m)
  /\ UNCHANGED <<posts, hits, mishaps>> /\ SendLeaves

\* Mutant: the row is updated before the mapping, whose upsert rejects.
persistThrows_AfterRow(m) ==
  /\ SendGoes(m, "accepted", "threw") /\ Mishap
  /\ outRows' = [outRows EXCEPT ![m] =
       [status |-> "SENT", ext |-> externalMessageId(sends[m].post)]]
  /\ UNCHANGED <<posts, mapping, hits>> /\ SendLeaves

persistThrows(m) ==
  /\ SendGoes(m, "accepted", "threw") /\ Mishap
  /\ UNCHANGED <<posts, outRows, mapping, hits>> /\ SendLeaves

Sending(m) ==
  \/ prepare(m) \/ prepareThrows(m) \/ accept(m) \/ refuse(m)
  \/ persistFailure(m) \/ persistSuccess(m) \/ persistThrows(m)

-----------------------------------------------------------------------------
(* addReaction() and markAsRead() of a row *)

ActLeaves == UNCHANGED <<provider, posts, told, pending, answered, outRows, inRows,
                         mapping, sends, handlers, published, log, replays, mishaps>>

\* Mutant: an id without a chat is looked up in the chat of the credential's last send.
splitId_AnyChat(id) ==
  IF id.kind = "full" THEN InChat(id.chat, id.n)
  ELSE UNION {InChat(c, id.n) : c \in Chats}

\* "chat:message", or AMBIGUOUS_MESSAGE_ID.
splitId(id) == IF id.kind = "full" THEN InChat(id.chat, id.n) ELSE {}

\* Only these three have an addReaction; the others are answered with 422.
addReaction(r) ==
  /\ provider \in {"TELEGRAM", "DISCORD", "SLACK"}
  /\ \E q \in splitId(ExternalId(r)) :
       hits' = hits \union {[meant |-> PostOfRow(r), hit |-> q]}
  /\ ActLeaves

\* WhatsApp Cloud reads a message by its id.  (Instagram and Messenger are handed it
\* as the id of a sender, and there is none with that id.)
markAsRead(r) ==
  /\ provider = "META_WHATSAPP_CLOUD"
  /\ \E q \in UNION {InChat(c, ExternalId(r).n) : c \in Chats} :
       hits' = hits \union {[meant |-> PostOfRow(r), hit |-> q]}
  /\ ActLeaves

-----------------------------------------------------------------------------
(* The webhook services: handleUpdate (Telegram), handleEvent,             *)
(* handleInteractivity and handleSlashCommand (Slack), handleInteraction   *)
(* (Discord), handleInboundMessage, handleMessageStatus and                *)
(* handleVoiceStatus (Twilio), handleInstagram and handleMessenger (Meta). *)

Item(h) == handlers[h].notice
IsServed(x) == \E h \in Handlers : handlers[h].notice = x

\* A replayed status is handled as a message: that is all the replay of a Twilio
\* report knows.
IsStatus(h) ==
  Item(h).what = "status" /\ ~(handlers[h].replay /\ provider \in Twilio)

\* A platform that waits too long for its 200 may repeat the request meanwhile.
deliver(h, x) ==
  /\ handlers[h].at = "idle" /\ x \in pending
  /\ IF IsServed(x) THEN Redelivers /\ Mishap ELSE UNCHANGED mishaps
  /\ handlers' = [handlers EXCEPT ![h] = [Idle EXCEPT !.at = "owner", !.notice = x]]
  /\ UNCHANGED <<pending, answered, outRows, inRows, mapping, published, log, replays>>
  /\ HandlerLeaves

HandlerGoes(h, from, to) ==
  handlers[h].at = from /\ handlers' = [handlers EXCEPT ![h].at = to]

\* The credential is found and the mapper's result looked at, the handler's next step
\* chosen.
Finds(h, next) ==
  /\ handlers' = [handlers EXCEPT ![h].at = next]
  /\ UNCHANGED <<pending, answered, outRows, inRows, mapping, published, log, replays, mishaps>>
  /\ HandlerLeaves

handleUpdate(h) == provider = "TELEGRAM" /\ Finds(h, "upsert")

handleInteraction(h) == provider = "DISCORD" /\ Finds(h, "upsert")

\* handleEvent, handleInteractivity and handleSlashCommand do the same.
handleEvent(h) == provider = "SLACK" /\ Finds(h, "upsert")

\* A replayed call has no MessageSid to be stored under.
handleInboundMessage(h) ==
  /\ provider \in Twilio /\ ~IsStatus(h) /\ Item(h).what # "call"
  /\ Finds(h, "upsert")

handleMessageStatus(h) ==
  /\ provider \in Twilio /\ IsStatus(h)
  /\ Finds(h, "mapping")

handleVoiceStatus(h) ==
  /\ provider \in Twilio /\ Item(h).what = "call" /\ ~handlers[h].replay
  /\ Finds(h, "publish")

\* handleInstagram, handleMessenger, and handleWhatsApp for one item.
handleMeta(h) ==
  /\ provider \notin Twilio \union {"TELEGRAM", "DISCORD", "SLACK"}
  /\ Finds(h, IF IsStatus(h) THEN "mapping" ELSE "upsert")

findOwner(h) ==
  /\ handlers[h].at = "owner"
  /\ \/ handleUpdate(h) \/ handleInteraction(h) \/ handleEvent(h)
     \/ handleInboundMessage(h) \/ handleMessageStatus(h) \/ handleVoiceStatus(h)
     \/ handleMeta(h)

\* The row an inbound message is stored in: the one with its waMessageId.
RowFor(id) ==
  IF SharesKey /\ \E m \in Outbound : outRows[m].ext = id
  THEN CHOOSE m \in Outbound : outRows[m].ext = id
  ELSE id

\* message.upsert, with update: {}: what is there already is kept.
upsertMessage(h) ==
  LET id == providerMessageId(Item(h)) IN
  /\ handlers[h].at = "upsert"
  /\ handlers' = [handlers EXCEPT ![h].at = "map", ![h].row = RowFor(id)]
  /\ inRows' = IF RowFor(id) \in Outbound \union DOMAIN inRows THEN inRows
               ELSE Put(inRows, id,
                       [chat |-> IF Item(h).post = None THEN None ELSE Item(h).post.chat,
                        content |-> Item(h)])
  /\ UNCHANGED <<pending, answered, outRows, mapping, published, log, replays, mishaps>>
  /\ HandlerLeaves

\* externalMessageMapping.upsert: the mapping is given to this row.
upsertMapping(h) ==
  /\ HandlerGoes(h, "map", "publish")
  /\ mapping' = Put(mapping, providerMessageId(Item(h)), handlers[h].row)
  /\ UNCHANGED <<pending, answered, outRows, inRows, published, log, replays, mishaps>>
  /\ HandlerLeaves

\* Of a status, the row it is for: the mapping's, or the id itself.  inferProvider()
\* takes an RCS message for an SMS, which has no such mapping.
findMapping(h) ==
  LET id == providerMessageId(Item(h)) IN
  /\ handlers[h].at = "mapping"
  /\ handlers' = [handlers EXCEPT ![h].at = "update", ![h].row =
       IF id \in DOMAIN mapping /\ provider # "TWILIO_RCS" THEN mapping[id] ELSE id]
  /\ UNCHANGED <<pending, answered, outRows, inRows, mapping, published, log, replays, mishaps>>
  /\ HandlerLeaves

\* A status whose row is not there ends there on Meta's channels; Twilio's is told
\* to the tenant nevertheless.  Neither tells a FAILED.
applyStatus(h) ==
  LET r == handlers[h].row
      there == r \in Outbound \union DOMAIN inRows IN
  /\ HandlerGoes(h, "update",
       IF Item(h).status = "FAILED" \/ (provider \in Pages /\ ~there) THEN "log" ELSE "publish")
  /\ outRows' = IF r \in Outbound THEN [outRows EXCEPT ![r].status = Item(h).status] ELSE outRows
  /\ UNCHANGED <<pending, answered, inRows, mapping, published, log, replays, mishaps>>
  /\ HandlerLeaves

\* dispatchEvent: MESSAGE_RECEIVED carries the content of the row.
dispatchEvent(h) ==
  LET r == handlers[h].row IN
  /\ HandlerGoes(h, "publish", "log")
  /\ published' = published \union
       {[notice |-> Item(h), replay |-> handlers[h].replay, row |-> r,
         content |-> IF IsStatus(h) \/ Item(h).what = "call" THEN Item(h)
                     ELSE IF r \in Outbound THEN None ELSE inRows[r].content]}
  /\ UNCHANGED <<pending, answered, outRows, inRows, mapping, log, replays, mishaps>>
  /\ HandlerLeaves

\* The awaits of persistInbound, the same in every service.
persistInbound(h) == upsertMessage(h) \/ upsertMapping(h) \/ dispatchEvent(h)

\* What becomes of a replay: it reached the tenant as what it was, or as a message.
Outcome(h) == IF Item(h).what = "status" /\ provider \in Twilio THEN "mistaken" ELSE "delivered"

\* Mutant: 200 before the report is handled.
finish_Early(h) ==
  /\ handlers[h].at \in {"upsert", "mapping", "log"} /\ ~handlers[h].replay
  /\ handlers' = [handlers EXCEPT ![h] = Idle]
  /\ log' = log \union {Item(h)} /\ UNCHANGED mishaps
  /\ pending' = pending \ {Item(h)} /\ answered' = answered \union {Item(h)}
  /\ UNCHANGED <<outRows, inRows, mapping, published, replays>> /\ HandlerLeaves

\* The raw report is logged, an error of that swallowed, and the platform has its 200
\* or the admin the result.
finish(h) ==
  /\ handlers[h].at = "log"
  /\ handlers' = [handlers EXCEPT ![h] = Idle]
  /\ \/ log' = log \union {Item(h)} /\ UNCHANGED mishaps
     \/ log' = log /\ Mishap
  /\ IF handlers[h].replay
     THEN /\ replays' = replays \union {[notice |-> Item(h), outcome |-> Outcome(h)]}
          /\ UNCHANGED <<pending, answered>>
     ELSE /\ pending' = pending \ {Item(h)} /\ answered' = answered \union {Item(h)}
          /\ UNCHANGED replays
  /\ UNCHANGED <<outRows, inRows, mapping, published>> /\ HandlerLeaves

\* An await rejects.  The platforms that do not repeat a report have lost it.
handlerRejects(h) ==
  /\ handlers[h].at \notin {"idle", "log"}
  /\ IF handlers[h].replay /\ handlers[h].at = "owner" /\ Item(h).what = "call"
     THEN UNCHANGED mishaps ELSE Mishap
  /\ handlers' = [handlers EXCEPT ![h] = Idle]
  /\ replays' = IF handlers[h].replay
                THEN replays \union {[notice |-> Item(h), outcome |-> "failed"]} ELSE replays
  /\ pending' = IF Redelivers \/ handlers[h].replay THEN pending ELSE pending \ {Item(h)}
  /\ UNCHANGED <<answered, outRows, inRows, mapping, published, log>> /\ HandlerLeaves

Handling(h) ==
  \/ findOwner(h) \/ persistInbound(h) \/ findMapping(h)
  \/ applyStatus(h) \/ finish(h) \/ handlerRejects(h)

-----------------------------------------------------------------------------
(* POST /v1/webhooks/replay *)

BeingReplayed == Cardinality({h \in Handlers : handlers[h].replay})

\* Meta's and Twilio's services look for the owner again.
replay(h, x) ==
  /\ Cardinality(replays) + BeingReplayed < MaxReplays
  /\ provider \in Twilio \union Pages \union {"META_WHATSAPP_CLOUD"}
  /\ handlers[h].at = "idle" /\ x \in log
  /\ handlers' = [handlers EXCEPT ![h] =
       [at |-> "owner", notice |-> x, replay |-> TRUE, row |-> None]]
  /\ UNCHANGED <<pending, answered, outRows, inRows, mapping, published, log, replays, mishaps>>
  /\ HandlerLeaves

\* The others are handed the event's externalId for the credential's: it is the id
\* of the update, the event or the interaction, and no credential has it.
requireCredentialId(x) ==
  /\ Cardinality(replays) + BeingReplayed < MaxReplays
  /\ provider \in {"TELEGRAM", "DISCORD", "SLACK"}
  /\ x \in log
  /\ replays' = replays \union {[notice |-> x, outcome |-> "failed"]}
  /\ UNCHANGED <<pending, answered, outRows, inRows, mapping, handlers, published, log, mishaps>>
  /\ HandlerLeaves

-----------------------------------------------------------------------------

ChannelNext ==
  \/ \E c \in Chats : contactPosts(c)
  \/ \E q \in posts, what \in {"edit", "press", "vote", "reaction", "status"} : contactActs(q, what)
  \/ commands
  \/ \E m \in Outbound, f \in SentForms : send(m, f)
  \/ \E m \in Outbound : Sending(m)
  \/ \E r \in Rows : addReaction(r) \/ markAsRead(r)
  \/ \E h \in Handlers, x \in pending : deliver(h, x)
  \/ \E h \in Handlers : Handling(h)
  \/ \E h \in Handlers, x \in log : replay(h, x)
  \/ \E x \in log : requireCredentialId(x)

ChannelSpec == ChannelInit /\ [][ChannelNext]_channelVars

-----------------------------------------------------------------------------
(* Properties *)

\* The types of the variables.  (inRows and mapping are partial functions of ids.)
ChannelTypeOK ==
  /\ provider \in Channels
  /\ posts \subseteq [chat : Chats, n : 1..MaxPosts, ours : BOOLEAN]
  /\ told \subseteq Notices /\ pending \subseteq told /\ answered \subseteq told \ pending
  /\ \A m \in Outbound :
       /\ outRows[m].status \in MessageStatuses \union {"none", "PROCESSING"}
       /\ outRows[m].ext \in Ids \union {None}
       /\ sends[m].at \in {"idle", "preparing", "posting", "accepted", "refused", "sent",
                           "failed", "rejected", "threw"}
       /\ sends[m].at \in {"accepted", "sent"} => sends[m].post \in PostIds
       /\ outRows[m].ext # None => sends[m].at = "sent"
  /\ DOMAIN inRows \subseteq Ids /\ DOMAIN mapping \subseteq Ids
  /\ \A i \in DOMAIN mapping : mapping[i] \in Outbound \union DOMAIN inRows
  /\ \A h \in Handlers :
       /\ handlers[h].at \in {"idle", "owner", "upsert", "map", "mapping", "update",
                              "publish", "log"}
       /\ handlers[h].notice \in told \union {None}
  /\ mishaps \in 0..MaxMishaps

\* Whatever a client does with a message it has seen a row of (answer it, react to
\* it, mark it read), what the platform acts on is the message the row stands for,
\* and no other: not the one with its number in another chat (resolveExistingMessage,
\* the providers' splitId, the mappers' message references).
ActionsHitTheNamed == \A a \in hits : a.hit = a.meant

\* A report the platform has its 200 for, where it would have sent it again, was
\* handled to its end: the row and the mapping of its id are there and the tenant
\* was told; and so for what is handled on the other channels.  (A FAILED status is
\* told to nobody, nor is one that comes before the row where Meta's mapper drops it.)
AcceptedIsTold ==
  \A x \in answered \union (IF Redelivers THEN told \ pending ELSE {}) :
    /\ \/ \E e \in published : e.notice = x
       \/ x.status = "FAILED"
       \/ x.what = "status" /\ provider \in Pages
    /\ x.what \notin {"status", "call"} =>
         LET id == providerMessageId(x) IN
         id \in DOMAIN mapping /\ RowFor(id) \in Outbound \union DOMAIN inRows

\* An event carries the content of the report it is raised for, save where the
\* webhook service gives two reports one external id, whose row the upsert then finds:
\* on Slack what happens to one message (it is posted, pressed, reacted to), on
\* Telegram an edit, a changed vote and the message with its number in another chat.
EventsCarryTheirReport ==
  \A e \in published :
    \/ e.content = e.notice \/ e.replay
    \/ \E x \in told \ {e.notice} :
         \/ provider = "SLACK" /\ x.post = e.notice.post
         \/ /\ provider = "TELEGRAM" /\ e.notice.what \in {"message", "edit", "vote"}
            /\ x.what \in {"message", "edit", "vote"} /\ x.post.n = e.notice.post.n

\* ADR-011: the replay of a stored event routes it to the right service, which
\* delivers it again.
ReplayIsDelivered == \A r \in replays : r.outcome = "delivered"

=============================================================================
