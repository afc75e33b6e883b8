----------------------------- MODULE HttpClient -----------------------------
(***************************************************************************)
(* libs/shared/src/http/http-client.ts: request() repeats an attempt until *)
(* it is answered, refused for good, or the attempts are used up; every    *)
(* attempt goes through the client's CircuitBreaker.  The clients of       *)
(* Telegram, Slack and Discord keep one HttpClient for a bot token, whose  *)
(* breaker their requests share (Callers).  Those of Meta make one for     *)
(* each call, downloads and interaction replies do too, and the SDK's has  *)
(* no breaker (Private).                                                   *)
(*                                                                         *)
(* No code under src/ passes a signal or a retry policy of its own.        *)
(***************************************************************************)
EXTENDS CircuitBreaker

CONSTANTS
  Bot,         \* whose client the Callers share: "telegram", "slack" or "discord"
  Private,     \* requests that share no breaker
  MaxAttempts  \* policy.maxAttempts

ASSUME BotAssumption == Bot \in {"telegram", "slack", "discord"}
ASSUME PrivateAssumption == Private \intersect Callers = {}
ASSUME MaxAttemptsAssumption == MaxAttempts \in Nat \ {0}

VARIABLE request  \* what each requester's request() is doing, and how it went

httpVars == <<breaker, sinceFailure, calls, streak, request>>

Requesters == Callers \union Private

\* outcome: of the request, or while its body is being read what it says.
\* done: how often the service has carried the request out, but for the times its answer
\* has not come back.
Nothing ==
  [client |-> "none", phase |-> "settled", attempt |-> 0, outcome |-> "none", done |-> 0]

HttpInit == Init /\ request = [r \in Requesters |-> Nothing]

-----------------------------------------------------------------------------

\* Carried out; a 200 that says ok: false; a status that is not retried; 429; one that is
\* retried by every client (500, 502, 503 or 504).
Statuses == {"ok", "no", "refused", "tooMany", "busy"}

\* Telegram and Slack alone answer a request they have not carried out with 200.
Answers(client) == IF client \in {"telegram", "slack"} THEN Statuses ELSE Statuses \ {"no"}

\* policy.retryOnStatuses and RETRYABLE_STATUS_CODES
retryOnStatuses(client) == IF client = "sdk" THEN {"busy"} ELSE {"tooMany", "busy"}

\* Those that keep one client for a bot, and those that do not.
clientOf(r) == IF r \in Callers THEN {Bot} ELSE {"whatsapp", "sdk"}

\* What the methods of each client take for success.  Telegram's answers say so
\* themselves, and so do Slack's, whose status is 200 whatever they say.
telegramInvoke == {"ok"}
slackInvoke == Statuses \ {"no", "refused", "tooMany", "busy"}
discordMethods == Statuses \ {"refused", "tooMany", "busy"}
whatsappMethods == Statuses \ {"refused", "tooMany", "busy"}
sdkMethods == Statuses \ {"refused", "tooMany", "busy"}

Success(client) ==
  [telegram |-> telegramInvoke, slack |-> slackInvoke, discord |-> discordMethods,
   whatsapp |-> whatsappMethods, sdk |-> sdkMethods][client]

\* They return the answer, or throw what the error mapper makes of it.
invoke(client, status) == IF status \in Success(client) THEN "result" ELSE "ProviderError"

Settle(w, outcome) == [Nothing EXCEPT !.outcome = outcome, !.done = w.done]
Sleep(w) == [w EXCEPT !.phase = "sleep", !.outcome = "none"]

\* The catch of the loop: a rejected attempt is followed by another, or the last.
tryAgain(w) ==
  IF w.attempt < MaxAttempts THEN Sleep(w) ELSE Settle(w, "HttpClientError")

-----------------------------------------------------------------------------

\* A request begins with its first attempt, and another follows each back-off.
Attempt(r, client) ==
  LET w == request[r] IN
  IF w.phase = "sleep" THEN [w EXCEPT !.phase = "fetch", !.attempt = @ + 1]
  ELSE [Nothing EXCEPT !.client = client, !.phase = "fetch", !.attempt = 1]

Begins(r, client) ==
  /\ client \in clientOf(r)
  /\ request[r].phase = "settled" \/ (request[r].phase = "sleep" /\ request[r].client = client)

\* execute() of the shared breaker: it starts the fetch, or its CircuitBreakerOpenError
\* ends the request whatever attempts are left.
attempt(c) == \E client \in clientOf(c) :
  /\ Begins(c, client)
  /\ \/ /\ Admit(c)
        /\ request' = [request EXCEPT ![c] = Attempt(c, client)]
     \/ /\ Reject(c) \/ RejectAndReopen(c)
        /\ request' = [request EXCEPT ![c] = Settle(Attempt(c, client), "HttpClientError")]

attemptAlone(r) == \E client \in clientOf(r) :
  /\ Begins(r, client)
  /\ request' = [request EXCEPT ![r] = Attempt(r, client)]
  /\ UNCHANGED vars

\* fetch() resolves with the headers, which is success to the breaker whatever the
\* status; with one to retry, and attempts left, the body is not read.
executeSingleRequest(r) == \E status \in Answers(request[r].client) :
  LET w == [request[r] EXCEPT !.done = IF status = "ok" THEN @ + 1 ELSE @] IN
  /\ request[r].phase = "fetch"
  /\ IF r \in Callers THEN Succeed(r) ELSE UNCHANGED vars
  /\ request' = [request EXCEPT ![r] =
       IF status \in retryOnStatuses(w.client) /\ w.attempt < MaxAttempts
       THEN Sleep(w)
       ELSE [w EXCEPT !.phase = "body", !.outcome = invoke(w.client, status)]]

\* fetch() rejects: no connection, or no answer within timeoutMs, although the service
\* may have carried the request out.
fetchRejects(r) ==
  /\ request[r].phase = "fetch"
  /\ IF r \in Callers THEN Fail(r) ELSE UNCHANGED vars
  /\ request' = [request EXCEPT ![r] = tryAgain(@)]

\* Mutant: the parsed answer is not returned, and the loop goes on.
parseResponse_GoesOn(r) ==
  /\ request[r].phase = "body"
  /\ request' = [request EXCEPT ![r] =
       IF @.outcome = "result" /\ @.attempt < MaxAttempts THEN Sleep(@)
       ELSE Settle(@, @.outcome)]
  /\ UNCHANGED vars

parseResponse(r) ==
  /\ request[r].phase = "body"
  /\ request' = [request EXCEPT ![r] = Settle(@, @.outcome)]
  /\ UNCHANGED vars

\* The body is no JSON, or does not arrive: the timer of the attempt is cleared, and it
\* is undici's own timeout that ends the wait.  The attempt is rejected like one without
\* an answer, past the breaker.
parseRejects(r) ==
  LET unread == IF request[r].outcome = "result" THEN 1 ELSE 0
      w == [request[r] EXCEPT !.done = @ - unread] IN
  /\ request[r].phase = "body"
  /\ request' = [request EXCEPT ![r] = tryAgain(w)]
  /\ UNCHANGED vars

TickAll == Tick /\ UNCHANGED request

HttpNext ==
  \/ \E c \in Callers : attempt(c)
  \/ \E r \in Private : attemptAlone(r)
  \/ \E r \in Requesters :
       executeSingleRequest(r) \/ fetchRejects(r) \/ parseResponse(r) \/ parseRejects(r)
  \/ TickAll

HttpSpec == HttpInit /\ [][HttpNext]_httpVars

\* An attempt has its timeout and a body undici's, sleep() ends, the clock advances, and
\* callers keep calling.
HttpFairness ==
  /\ \A r \in Requesters :
       /\ WF_httpVars(executeSingleRequest(r) \/ fetchRejects(r))
       /\ WF_httpVars(parseResponse(r) \/ parseRejects(r))
  /\ \A c \in Callers : WF_httpVars(request[c].phase = "sleep" /\ attempt(c))
  /\ \A r \in Private : WF_httpVars(request[r].phase = "sleep" /\ attemptAlone(r))
  /\ WF_httpVars(\E c \in Callers : attempt(c))
  /\ WF_httpVars(TickAll)

HttpFairSpec == HttpSpec /\ HttpFairness

-----------------------------------------------------------------------------
(* Properties *)

\* A request is carried out once, and once more for each answer that did not come back
\* or could not be read: a refused, rate-limited or failed attempt is repeated, one that
\* was answered never.  Then what the caller is given tells whether it was
\* (http-client.ts:59-85, sdk/src/http-client.ts:104-150).
CarriedOutOncePerLoss == \A r \in Requesters :
  /\ request[r].done <= 1
  /\ request[r].phase = "settled" => (request[r].done = 1 <=> request[r].outcome = "result")
=============================================================================
