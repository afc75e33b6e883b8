---------------------------- MODULE Credentials ----------------------------
(* The providers' credentials: what the operator stores, rotates, switches off and   *)
(* deletes through providers.controller.ts (provider-credential.service.ts), the     *)
(* lifecycle hooks that follow without being awaited                                 *)
(* (provider-lifecycle.orchestrator.ts), and who relies on what is stored: the       *)
(* guards of the webhook endpoints.                                                  *)
(* "slack" stands for Slack and Discord, whose guards differ in the signature alone; *)
(* "twilio" for Twilio's SMS, WhatsApp, Voice and Verify, "rcs" for its RCS; "meta"  *)
(* for Meta's three.  A provider's dashboard is the operator's: it holds what he     *)
(* stores, when he stores it.  Telegram's webhook is set by the hook alone.  Twilio  *)
(* has no lifecycle hook; the model's calls nothing that anything here depends on.   *)
EXTENDS Naturals

CONSTANTS
  Ids,         \* the ids of the rows
  Accounts,    \* bots, Slack apps, Meta and Twilio accounts
  Secrets,     \* webhook secret tokens, signing secrets, auth tokens
  MaxCalls,    \* bound: requests of the operator
  MaxMishaps   \* bound: provider calls that fail, and crashes

ASSUME NamesAssumption == "none" \notin Accounts
ASSUME BoundsAssumption == MaxCalls \in Nat /\ MaxMishaps \in Nat

VARIABLES
  rows,        \* the table of credentials
  hooks,       \* lifecycle hooks that have not ended
  webhook,     \* per account, where its events go and what signs them
  publicUrl,   \* whether the API's process was started with a URL of its own
  calls,       \* requests so far
  mishaps,
  disturbed,   \* history: rows whose last hook failed, gave up, had no URL to register
               \* or met another one
  claims       \* history: which row ever stored which account

vars == <<rows, hooks, webhook, publicUrl, calls, mishaps, disturbed, claims>>

Providers == {"telegram", "slack", "twilio", "rcs", "meta"}
TwilioTypes == {"twilio", "rcs"}
Payloads == [account : Accounts, secret : Secrets]
None == [account |-> "none", secret |-> "none"]
NoRow == [provider |-> "none", status |-> "none", type |-> "none", data |-> None,
          external |-> "none"]
Unset == [cred |-> "none", secret |-> "none"]

Init ==
  /\ rows = [c \in Ids |-> NoRow]
  /\ hooks = {}
  /\ webhook = [a \in Accounts |-> Unset]
  /\ publicUrl \in BOOLEAN
  /\ calls = 0 /\ mishaps = 0
  /\ disturbed = {} /\ claims = {}

Exists(c) == rows[c].status \in {"ACTIVE", "REVOKED"}
Active(c) == rows[c].status = "ACTIVE"

\* An active row whose payload is of its provider's type: a complete credential.
Resolves(c) == Active(c) /\ rows[c].type = rows[c].provider

-----------------------------------------------------------------------------
(* The operator's requests. *)

\* The column that findBy... look up, by the payload's own type.  Other types have none,
\* and a column that gets no new value keeps the one it has.
extractPublicIdentifiers(row, type, o) ==
  IF type \in TwilioTypes \union {"meta"} THEN o.account ELSE row.external

Stored(row, type, o) ==
  [row EXCEPT !.type = type, !.data = o,
              !.external = extractPublicIdentifiers(row, type, o)]

\* The hook of a row begins; alone, it undoes what went wrong before.
Fire(c) ==
  /\ hooks' = hooks \union {[n |-> calls, cred |-> c, at |-> "resolve", data |-> None]}
  /\ disturbed' = IF \E h \in hooks : h.cred = c THEN disturbed \union {c}
                  ELSE disturbed \ {c}

\* What the operator enters at the dashboard of the payload's provider.  Telegram has none.
Configured(type, c, o) ==
  /\ webhook' = IF type = "telegram" THEN webhook
                ELSE [webhook EXCEPT ![o.account] = [cred |-> c, secret |-> o.secret]]
  /\ claims' = claims \union {<<c, o.account>>}

Request == calls < MaxCalls /\ calls' = calls + 1

\* The controller sets the type of a new payload.
create(c) ==
  /\ Request /\ rows[c].status = "none"
  /\ \E p \in Providers, o \in Payloads :
       /\ rows' = [rows EXCEPT ![c] =
                     Stored([NoRow EXCEPT !.provider = p, !.status = "ACTIVE"], p, o)]
       /\ Configured(p, c, o)
  /\ Fire(c)
  /\ UNCHANGED <<publicUrl, mishaps>>

\* It does not set that of a rotated one: the payload has the type its sender gave it,
\* or none.  Meta's rows take their own alone, and Twilio's types are for their rows
\* alone; a Telegram row takes a Slack payload.
assertCredentialMatchesProvider(p, type) ==
  /\ p = "meta" => type = "meta"
  /\ type \in TwilioTypes => type = p

\* Mutant: the hook is of a new row alone.
update_NoHook(c) ==
  /\ Request /\ Exists(c)
  /\ \E o \in Payloads, type \in Providers \union {"none"}, s \in {"ACTIVE", "REVOKED"} :
       /\ assertCredentialMatchesProvider(rows[c].provider, type)
       /\ rows' = [rows EXCEPT ![c] = [Stored(rows[c], type, o) EXCEPT !.status = s]]
       /\ Configured(IF type = "none" THEN rows[c].provider ELSE type, c, o)
  /\ UNCHANGED <<hooks, publicUrl, mishaps, disturbed>>

\* PATCH with a payload, and maybe a status.
update(c) ==
  /\ Request /\ Exists(c)
  /\ \E o \in Payloads, type \in Providers \union {"none"}, s \in {"ACTIVE", "REVOKED"} :
       /\ assertCredentialMatchesProvider(rows[c].provider, type)
       /\ rows' = [rows EXCEPT ![c] = [Stored(rows[c], type, o) EXCEPT !.status = s]]
       /\ Configured(IF type = "none" THEN rows[c].provider ELSE type, c, o)
  /\ Fire(c)
  /\ UNCHANGED <<publicUrl, mishaps>>

\* PATCH with a status alone fires nothing.
updateStatus(c) ==
  /\ Request /\ Exists(c)
  /\ \E s \in {"ACTIVE", "REVOKED"} \ {rows[c].status} :
       rows' = [rows EXCEPT ![c].status = s]
  /\ UNCHANGED <<hooks, webhook, publicUrl, mishaps, disturbed, claims>>

delete(c) ==
  /\ Request /\ Exists(c)
  /\ rows' = [rows EXCEPT ![c] = [NoRow EXCEPT !.status = "deleted", !.provider = rows[c].provider]]
  /\ Fire(c)
  /\ UNCHANGED <<webhook, publicUrl, mishaps, claims>>

-----------------------------------------------------------------------------
(* The hooks.  An error is logged and ends the hook; nothing tries it again. *)

End(h) == hooks' = hooks \ {h}
HookLeaves == UNCHANGED <<rows, publicUrl, calls, claims>>

\* Mutant: a payload that has lost its type goes out as well.
resolve_AnyType(h) ==
  /\ h.at = "resolve" /\ Active(h.cred)
  /\ hooks' = (hooks \ {h}) \union {[h EXCEPT !.at = "call", !.data =
                 IF Resolves(h.cred) THEN rows[h.cred].data ELSE None]}
  /\ HookLeaves /\ UNCHANGED <<webhook, mishaps, disturbed>>

\* The row as it is now, not as it was when the hook began.
resolve(h) ==
  /\ h.at = "resolve" /\ Resolves(h.cred)
  /\ hooks' = (hooks \ {h}) \union {[h EXCEPT !.at = "call", !.data = rows[h.cred].data]}
  /\ HookLeaves /\ UNCHANGED <<webhook, mishaps, disturbed>>

\* resolve() throws for a row that is not active, or is deleted, as it always is when
\* the hook is onCredentialRevoked: deleteWebhook is never called.
resolveThrows(h) ==
  /\ h.at = "resolve" /\ ~Active(h.cred)
  /\ End(h) /\ disturbed' = disturbed \union {h.cred}
  /\ HookLeaves /\ UNCHANGED <<webhook, mishaps>>

\* A payload of another type, or of none, is not the hook's: it returns.
notOfItsType(h) ==
  /\ h.at = "resolve" /\ Active(h.cred) /\ ~Resolves(h.cred)
  /\ End(h)
  /\ HookLeaves /\ UNCHANGED <<webhook, mishaps, disturbed>>

\* setWebhook takes effect.
Registers(h) ==
  /\ rows[h.cred].provider = "telegram" /\ publicUrl
  /\ webhook' = [webhook EXCEPT ![h.data.account] =
                   [cred |-> h.cred, secret |-> h.data.secret]]

registerWebhook(h) ==
  /\ h.at = "call" /\ Registers(h)
  /\ End(h)
  /\ HookLeaves /\ UNCHANGED <<mishaps, disturbed>>

\* Without TELEGRAM_PUBLIC_URL and APP_PUBLIC_URL it warns and returns.
noPublicUrl(h) ==
  /\ h.at = "call" /\ rows[h.cred].provider = "telegram" /\ ~publicUrl
  /\ End(h) /\ disturbed' = disturbed \union {h.cred}
  /\ HookLeaves /\ UNCHANGED <<webhook, mishaps>>

\* Slack's auth.test, Discord's command and Meta's subscription change nothing here.
otherCall(h) ==
  /\ h.at = "call" /\ rows[h.cred].provider # "telegram"
  /\ End(h)
  /\ HookLeaves /\ UNCHANGED <<webhook, mishaps, disturbed>>

Mishap == mishaps < MaxMishaps /\ mishaps' = mishaps + 1

\* The client gives up on a call that may have reached the provider.
callFails(h) ==
  /\ h.at = "call" /\ Mishap
  /\ rows[h.cred].provider = "telegram" => publicUrl
  /\ Registers(h) \/ UNCHANGED webhook
  /\ End(h) /\ disturbed' = disturbed \union {h.cred}
  /\ HookLeaves

\* The process dies, and starts again with the environment it is given.
crash ==
  /\ hooks # {} /\ Mishap
  /\ hooks' = {} /\ publicUrl' \in BOOLEAN
  /\ disturbed' = disturbed \union {h.cred : h \in hooks}
  /\ UNCHANGED <<rows, webhook, calls, claims>>

-----------------------------------------------------------------------------
(* The guards: whether an event of the account is let through, for which row. *)

\* The URL names the row; its payload's type is what the guard asks for.
Named(a, c, type) == Active(c) /\ rows[c].type = type /\ c = webhook[a].cred

\* TelegramSecretTokenGuard
HasSecretToken(a, c) == Named(a, c, "telegram") /\ webhook[a].secret = rows[c].data.secret

\* SlackSignatureGuard, and DiscordEd25519Guard with a public key
IsSigned(a, c) == Named(a, c, "slack") /\ webhook[a].secret = rows[c].data.secret

\* findByAccountSid, which leaves out TWILIO_RCS, findByExternalPhoneId and findByPageId:
\* findFirst may return any.
Owners(a, p) == {c \in Ids : Active(c) /\ rows[c].provider = p /\ rows[c].external = a}

\* TwilioSignatureGuard: by the token of the row found.
ByAccountSid(a, c) ==
  /\ c \in Owners(a, "twilio") /\ rows[c].type \in TwilioTypes
  /\ webhook[a].secret = rows[c].data.secret

\* MetaSignatureGuard asks for the app's secret, the service for an owner.
ByExternalId(a, c) == c \in Owners(a, "meta")

Accepts(a, c) ==
  HasSecretToken(a, c) \/ IsSigned(a, c) \/ ByAccountSid(a, c) \/ ByExternalId(a, c)

-----------------------------------------------------------------------------
Hook(h) ==
  \/ resolve(h) \/ resolveThrows(h) \/ notOfItsType(h)
  \/ registerWebhook(h) \/ noPublicUrl(h) \/ otherCall(h)

Next ==
  \/ \E c \in Ids : create(c) \/ update(c) \/ updateStatus(c) \/ delete(c)
  \/ \E h \in hooks : Hook(h) \/ callFails(h)
  \/ crash

Spec == Init /\ [][Next]_vars

-----------------------------------------------------------------------------
Rows == [provider : Providers \union {"none"}, type : Providers \union {"none"},
         status : {"none", "ACTIVE", "REVOKED", "deleted"},
         data : Payloads \union {None}, external : Accounts \union {"none"}]
Hooks == [n : 0 .. MaxCalls, cred : Ids, at : {"resolve", "call"}, data : Payloads \union {None}]

\* The variables have their types: above all, no hook calls a provider with a payload that
\* is not of the provider's type (the lifecycle services' early returns).
TypeOK ==
  /\ rows \in [Ids -> Rows]
  /\ hooks \subseteq Hooks /\ \A h \in hooks : h.at = "call" => h.data \in Payloads
  /\ webhook \in [Accounts -> [cred : Ids, secret : Secrets] \union {Unset}]
  /\ publicUrl \in BOOLEAN
  /\ calls \in 0 .. MaxCalls /\ mishaps \in 0 .. MaxMishaps
  /\ disturbed \subseteq Ids /\ claims \subseteq Ids \X Accounts

\* No other row ever had the account: it has one webhook, of the row that set it last.
SoleClaim(c) ==
  \A claim \in claims : claim[2] = rows[c].data.account => claim[1] = c

\* The row's own last hook was alone and came to its end.
Undisturbed(c) == c \notin disturbed /\ \A h \in hooks : h.cred # c

\* The events of an account whose credential is active and complete get through the guard,
\* and are that credential's, whatever rotations, switches of accounts and failures came
\* before: the row has the secret the provider signs with.  Excepted are a Telegram
\* credential whose last hook met another one, failed, or had no public URL to register,
\* and TWILIO_RCS, whose rows findByAccountSid does not look for (registerWebhook, the
\* guards' canActivate).
EventsGetThrough ==
  \A c \in Ids :
    /\ Resolves(c) /\ SoleClaim(c)
    /\ rows[c].provider # "rcs"
    /\ rows[c].provider = "telegram" => Undisturbed(c)
    => {d \in Ids : Accepts(rows[c].data.account, d)} = {c}
=============================================================================
