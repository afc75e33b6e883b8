--------------------------- MODULE ChannelMappers ---------------------------
(***************************************************************************)
(* What the providers make of a message before anything is sent: the       *)
(* outbound mappers, each a function of the message's form that is refused *)
(* with an error or becomes a request, what they do with the message it    *)
(* answers, how each provider's errors are told apart, and what ids the    *)
(* inbound mappers give to what the platforms report.                      *)
(***************************************************************************)
EXTENDS Naturals, FiniteSets

Twilio == {"TWILIO_SMS", "TWILIO_WHATSAPP", "TWILIO_RCS"}
Pages == {"META_INSTAGRAM", "META_MESSENGER"}
Providers == {"META_WHATSAPP_CLOUD", "TELEGRAM", "DISCORD", "SLACK"} \union Twilio \union Pages

Media == {"IMAGE", "VIDEO", "AUDIO", "DOCUMENT", "STICKER"}
Types == Media \union {"TEXT", "LOCATION", "VCARD", "REACTION", "BUTTON_REPLY",
                       "LIST_REPLY", "CARD", "TEMPLATE", "FLOW", "POLL", "DICE"}

\* The form of a message: whether content has the object its type calls for (the DTO
\* only asks for some object), where its media is, how many buttons, rows, options
\* or contacts it has, in how many sections, its header's media, whether its
\* contact has a phone and its currency parses.
Forms == [type : Types, content : BOOLEAN, media : SUBSET {"url", "id"}, count : Nat,
          sections : Nat, header : {"none", "media", "sourceless"}, phone : BOOLEAN,
          currency : BOOLEAN]

\* The mapper's answer. An error is refused with its retryable flag; a request says
\* whether it refers to the message that was quoted.
Refused(retryable) == [request |-> FALSE, refers |-> FALSE, retryable |-> retryable]
Request(refers) == [request |-> TRUE, refers |-> refers, retryable |-> FALSE]

ProviderValidationError == Refused(FALSE)
ProviderUnsupportedOperationError == Refused(FALSE)

\* toFailure() takes any other error, as the TypeError of a missing object, for one
\* worth a retry.
UNEXPECTED_ERROR == Refused(TRUE)

WithContent(f, r) == IF f.content THEN r ELSE UNEXPECTED_ERROR
Within(n, low, high, r) == IF n \in low..high THEN r ELSE ProviderValidationError

-----------------------------------------------------------------------------
(* WhatsApp Cloud *)

mediaPayload(f, r) ==
  WithContent(f, IF f.media = {} THEN ProviderValidationError ELSE r)

\* mapImage, mapVideo, mapAudio, mapDocument, mapSticker
mapMedia(f) == mediaPayload(f, Request(TRUE))

mapLocation(f) == WithContent(f, Request(TRUE))
mapContacts(f) == Request(TRUE)
mapFlow(f) == WithContent(f, Request(TRUE))

buildInteractiveHeader(f, r) ==
  IF f.header = "sourceless" THEN ProviderValidationError ELSE r

mapInteractiveButtons(f) ==
  WithContent(f, Within(f.count, 1, 3, buildInteractiveHeader(f, Request(TRUE))))

\* count is the rows of all sections.
mapInteractiveList(f) ==
  WithContent(f, Within(f.sections, 1, 10, Within(f.count, 0, 10, Request(TRUE))))

mapTemplateParameter(f) == IF f.currency THEN Request(TRUE) ELSE ProviderValidationError

mapTemplate(f) == WithContent(f, mapTemplateParameter(f))

\* A reaction is sent without the context.
mapReaction(f) == WithContent(f, Request(FALSE))

toGraphPayload(f) ==
  CASE f.type = "TEMPLATE" -> mapTemplate(f)
    [] f.type = "TEXT" -> Request(TRUE)
    [] f.type \in Media -> mapMedia(f)
    [] f.type = "LOCATION" -> mapLocation(f)
    [] f.type = "VCARD" -> mapContacts(f)
    [] f.type = "FLOW" -> mapFlow(f)
    [] f.type = "REACTION" -> mapReaction(f)
    [] f.type = "BUTTON_REPLY" -> mapInteractiveButtons(f)
    [] f.type = "LIST_REPLY" -> mapInteractiveList(f)
    [] OTHER -> ProviderValidationError

-----------------------------------------------------------------------------
(* Telegram *)

requireMediaSource(f) ==
  WithContent(f, IF f.media = {} THEN ProviderValidationError ELSE Request(TRUE))

\* mapPhoto, mapVideo, mapAudio, mapDocument, mapSticker
sendMedia(f) == requireMediaSource(f)

\* The first contact only.
mapContact(f) ==
  IF f.content /\ f.count > 0 /\ f.phone THEN Request(FALSE) ELSE ProviderValidationError

mapPoll(f) == WithContent(f, Within(f.count, 2, 12, Request(FALSE)))

\* The keyboard is built first, whatever its size.
buildReplyMarkup(f) == WithContent(f, Request(TRUE))
mapInteractiveAsText(f) == buildReplyMarkup(f)

toSendCall(f) ==
  CASE f.type = "TEXT" -> Request(TRUE)
    [] f.type \in Media -> sendMedia(f)
    [] f.type = "LOCATION" -> WithContent(f, Request(TRUE))
    [] f.type = "VCARD" -> mapContact(f)
    [] f.type = "POLL" -> mapPoll(f)
    [] f.type = "DICE" -> WithContent(f, Request(FALSE))
    [] f.type \in {"BUTTON_REPLY", "LIST_REPLY", "CARD"} -> mapInteractiveAsText(f)
    [] OTHER -> ProviderUnsupportedOperationError

-----------------------------------------------------------------------------
(* Discord and Slack *)

\* Their media is a link.
requireUrl(f) ==
  WithContent(f, IF "url" \in f.media THEN Request(TRUE) ELSE ProviderValidationError)

discordButtons(f) == WithContent(f, Within(f.count, 1, 5, Request(TRUE)))
discordList(f) == WithContent(f, Within(f.count, 1, 25, Request(TRUE)))
discordCards(f) == WithContent(f, Request(TRUE))

toCreateMessagePayload(f) ==
  CASE f.type = "TEXT" -> Request(TRUE)
    [] f.type \in Media -> requireUrl(f)
    [] f.type = "LOCATION" -> WithContent(f, Request(TRUE))
    [] f.type = "BUTTON_REPLY" -> discordButtons(f)
    [] f.type = "LIST_REPLY" -> discordList(f)
    [] f.type = "CARD" -> discordCards(f)
    [] OTHER -> ProviderUnsupportedOperationError

\* Buttons past the fifth are cut off.
buildButtons(f) ==
  WithContent(f, IF f.count = 0 THEN ProviderValidationError ELSE Request(TRUE))
buildList(f) == WithContent(f, Within(f.count, 1, 100, Request(TRUE)))
buildCards(f) == WithContent(f, Request(TRUE))

formatMediaLink(f) ==
  WithContent(f, IF "url" \in f.media THEN Request(TRUE) ELSE ProviderValidationError)

toPostMessageParams(f) ==
  CASE f.type = "TEXT" -> Request(TRUE)
    [] f.type \in Media -> formatMediaLink(f)
    [] f.type = "LOCATION" -> WithContent(f, Request(TRUE))
    [] f.type = "BUTTON_REPLY" -> buildButtons(f)
    [] f.type = "LIST_REPLY" -> buildList(f)
    [] f.type = "CARD" -> buildCards(f)
    [] OTHER -> ProviderUnsupportedOperationError

-----------------------------------------------------------------------------
(* Twilio, Instagram and Messenger: none of them refers to the quoted one. *)

\* What is not a ProviderError has no status, and the error mapper makes it final.
toCreateMessageOptions(f) ==
  CASE f.type = "TEXT" -> Request(FALSE)
    [] f.type \in Media ->
         IF f.content /\ "url" \in f.media THEN Request(FALSE) ELSE ProviderValidationError
    [] f.type = "LOCATION" -> IF f.content THEN Request(FALSE) ELSE Refused(FALSE)
    [] OTHER -> ProviderUnsupportedOperationError

mapAttachment(f) ==
  IF f.content /\ "url" \in f.media THEN Request(FALSE) ELSE ProviderValidationError

mapQuickReplies(f) == WithContent(f, Request(FALSE))

toClientInput(f) ==
  CASE f.type = "TEXT" -> Request(FALSE)
    [] f.type \in Media \ {"STICKER"} -> mapAttachment(f)
    [] f.type = "BUTTON_REPLY" -> mapQuickReplies(f)
    [] OTHER -> ProviderUnsupportedOperationError

\* Messenger's own is the same.
messengerInput(f) == toClientInput(f)

Mapped(p, f) ==
  CASE p = "META_WHATSAPP_CLOUD" -> toGraphPayload(f)
    [] p = "TELEGRAM" -> toSendCall(f)
    [] p = "DISCORD" -> toCreateMessagePayload(f)
    [] p = "SLACK" -> toPostMessageParams(f)
    [] p \in Twilio -> toCreateMessageOptions(f)
    [] p = "META_INSTAGRAM" -> toClientInput(f)
    [] p = "META_MESSENGER" -> messengerInput(f)

-----------------------------------------------------------------------------
(* Errors of the platforms, by the HTTP status and the code in the body:   *)
(* whether a failure is worth a retry.  The status 0 is no answer: the     *)
(* HTTP client's own error, which is not a ProviderError.                  *)

RateLimited == {"rate_limited"}
IsServerError(status) == status \in 500..599

slackRetryable(status, code) ==
  IF status = 200 THEN code \in RateLimited ELSE status = 429 \/ status >= 500

discordRetryable(status) == status = 429 \/ IsServerError(status)

telegramRetryable(status, code) ==
  \/ status = 429 \/ code = "rate_limited"
  \/ IsServerError(status) /\ code \notin {"invalid_auth", "bad_request"}

metaRetryable(status, code) ==
  \/ status = 429 \/ code = "rate_limited"
  \/ IsServerError(status) /\ code \notin {"invalid_auth", "bad_request"}

twilioRetryable(status, code) ==
  \/ status = 429 \/ code = "rate_limited"
  \/ IsServerError(status) /\ code \notin {"invalid_auth", "bad_request"}

\* The error of no answer goes to toFailure(), but Twilio's goes to its mapper.
Retryable(p, status, code) ==
  CASE status = 0 -> p \notin Twilio
    [] status # 0 /\ p = "SLACK" -> slackRetryable(status, code)
    [] status # 0 /\ p = "DISCORD" -> discordRetryable(status)
    [] status # 0 /\ p = "TELEGRAM" -> telegramRetryable(status, code)
    [] status # 0 /\ p \in Twilio -> twilioRetryable(status, code)
    [] OTHER -> metaRetryable(status, code)

=============================================================================
