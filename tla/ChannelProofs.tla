--------------------------- MODULE ChannelProofs ---------------------------
(***************************************************************************)
(* Theorems of a channel: of the circuit breaker and the HTTP client above *)
(* it, by which the providers call their platforms, and of the messages    *)
(* they send, the reports they are told and the ids that tell them apart.  *)
(*                                                                         *)
(* The breaker is safe for any number of callers and any option values.    *)
(* Its three invariants are inductive together: ProbesAccounted bounds the *)
(* halfOpenAttempts that TypeOK ranges over, and the steps that leave      *)
(* HALF_OPEN need to know that no probe is pending outside it.             *)
(*                                                                         *)
(* A step of HttpNext is a step of the breaker, or leaves it alone, so     *)
(* that what is proved of the breaker holds beneath the client; and a      *)
(* request is carried out once for any number of requests, attempts and    *)
(* bots.                                                                   *)
(*                                                                         *)
(* The invariants of ChannelMessages hold for any chats, messages,         *)
(* webhook requests and bounds.  ChannelIInv adds to them how the platform *)
(* numbers messages and reports, what each platform reports, that the id   *)
(* in a row leads to the message the row stands for, and what a webhook    *)
(* request has done of its report by each of its steps.  Most of it        *)
(* survives a step because of Grows: messages, reports, rows, mappings and *)
(* events are only ever added.                                             *)
(***************************************************************************)
EXTENDS HttpClient, ChannelMessages, FiniteSetTheorems, TLAPS

-----------------------------------------------------------------------------
(* The circuit breaker. *)

IInv == TypeOK /\ ProbesAccounted /\ CountsConsecutiveFailures

\* A saturating counter stays within its limit and never falls.
LEMMA BumpRange ==
  ASSUME NEW limit \in Nat, NEW n \in 0..limit
  PROVE  /\ Bump(n, limit) \in 0..limit
         /\ Bump(n, limit) >= n
         /\ n < limit => Bump(n, limit) = n + 1
         /\ n = limit => Bump(n, limit) = limit
  BY DEF Bump

\* Changing state keeps the breaker's fields in range.
LEMMA TransitionType ==
  ASSUME NEW b \in Breakers, NEW s \in CircuitState
  PROVE  /\ transitionTo(b, s) \in Breakers
         /\ transitionTo(b, s).state = s
         /\ transitionTo(b, s).failureCount \in {0, b.failureCount}
         /\ s = "CLOSED" => transitionTo(b, s).failureCount = 0
         /\ s # "CLOSED" => transitionTo(b, s).failureCount = b.failureCount
         /\ s = "HALF_OPEN" => transitionTo(b, s).halfOpenAttempts = 0
  BY OptionsAssumption DEF transitionTo, Breakers

\* A failed completion bumps the count, ends a HALF_OPEN period, and opens a
\* circuit exactly when the count reaches the threshold.
LEMMA OnFailureResult ==
  ASSUME NEW b \in Breakers
  PROVE  /\ onFailure(b) \in Breakers
         /\ onFailure(b).failureCount = Bump(b.failureCount, FailureThreshold)
         /\ onFailure(b).state # "HALF_OPEN"
         /\ onFailure(b).state = "CLOSED" =>
              /\ b.state = "CLOSED"
              /\ onFailure(b).failureCount < FailureThreshold
         /\ b.state = "CLOSED" /\ onFailure(b).state # "CLOSED" =>
              /\ onFailure(b).state = "OPEN"
              /\ onFailure(b).failureCount = FailureThreshold
<1> DEFINE counted == [b EXCEPT !.failureCount = Bump(@, FailureThreshold)]
<1>1. /\ counted \in Breakers
      /\ counted.failureCount = Bump(b.failureCount, FailureThreshold)
      /\ counted.state = b.state
  BY BumpRange, OptionsAssumption DEF Breakers
<1>2. /\ transitionTo(counted, "OPEN") \in Breakers
      /\ transitionTo(counted, "OPEN").state = "OPEN"
      /\ transitionTo(counted, "OPEN").failureCount = counted.failureCount
  BY <1>1, TransitionType DEF CircuitState
<1>3. onFailure(b) = IF b.state = "HALF_OPEN" \/ counted.failureCount >= FailureThreshold
                     THEN transitionTo(counted, "OPEN") ELSE counted
  BY DEF onFailure
<1> HIDE DEF counted
<1>4. counted.failureCount \in 0..FailureThreshold /\ counted.state \in CircuitState
  BY <1>1 DEF Breakers
<1> QED
  BY <1>1, <1>2, <1>3, <1>4, OptionsAssumption DEF CircuitState

\* A successful completion clears the count and ends a HALF_OPEN period in CLOSED.
LEMMA OnSuccessResult ==
  ASSUME NEW b \in Breakers
  PROVE  /\ onSuccess(b) \in Breakers
         /\ onSuccess(b).failureCount = 0
         /\ onSuccess(b).state = IF b.state = "HALF_OPEN" THEN "CLOSED" ELSE b.state
  BY OptionsAssumption DEF onSuccess, transitionTo, Breakers, CircuitState

\* What execute() works on after its first test.
LEMMA EnteredResult ==
  ASSUME breaker \in Breakers
  PROVE  /\ Entered \in Breakers
         /\ Entered.failureCount = breaker.failureCount
         /\ breaker.state # "OPEN" => Entered = breaker
         /\ breaker.state = "OPEN" /\ Entered.state # "OPEN" =>
              Entered.state = "HALF_OPEN" /\ Entered.halfOpenAttempts = 0
  BY TransitionType DEF Entered, CircuitState

\* Relabelling keeps every call in CallStates and, when the period is over,
\* leaves no probe.
LEMMA RelabelledResult ==
  ASSUME NEW cs \in [Callers -> CallStates], NEW s \in CircuitState
  PROVE  /\ Relabelled(cs, s) \in [Callers -> CallStates]
         /\ s # "HALF_OPEN" => \A c \in Callers : Relabelled(cs, s)[c] # "probe"
         /\ s = "HALF_OPEN" => Relabelled(cs, s) = cs
  BY DEF Relabelled, CallStates, Pending

LEMMA InitIInv == Init => IInv
<1> SUFFICES ASSUME Init PROVE IInv
  OBVIOUS
<1>1. TypeOK
  BY OptionsAssumption DEF Init, TypeOK, Breakers, CircuitState, CallStates
<1>2. ProbesAccounted
  BY DEF Init, ProbesAccounted, Probes
<1>3. CountsConsecutiveFailures
  BY OptionsAssumption DEF Init, CountsConsecutiveFailures
<1> QED BY <1>1, <1>2, <1>3 DEF IInv

\* Admitting a probe adds one to the pending probes and to halfOpenAttempts.
LEMMA AdmitIInv ==
  ASSUME IInv, NEW c \in Callers, Admit(c)
  PROVE  IInv'
<1> USE DEF IInv
<1>1. /\ Entered \in Breakers
      /\ Entered.failureCount = breaker.failureCount
      /\ breaker.state # "OPEN" => Entered = breaker
      /\ breaker.state = "OPEN" => Entered.state = "HALF_OPEN" /\ Entered.halfOpenAttempts = 0
  BY EnteredResult DEF TypeOK, Admit
<1>2. c \notin Probes /\ IsFiniteSet(Probes) /\ Cardinality(Probes) \in Nat
  BY CallersAssumption, FS_Subset, FS_CardinalityType DEF Admit, Probes, Pending
<1>3. CASE Entered.state = "HALF_OPEN"
  <2>1. /\ breaker' = [Entered EXCEPT !.halfOpenAttempts = @ + 1]
        /\ calls' = [calls EXCEPT ![c] = "probe"]
        /\ UNCHANGED <<sinceFailure, streak>>
        /\ Entered.halfOpenAttempts < HalfOpenMax
    BY <1>1, <1>3, OptionsAssumption DEF Admit, HalfOpenExhausted, Breakers
  <2>2. Entered.halfOpenAttempts \in 0..HalfOpenMax /\ Entered.failureCount \in 0..FailureThreshold
    BY <1>1 DEF Breakers
  <2>3. /\ breaker' \in Breakers
        /\ breaker'.state = "HALF_OPEN"
        /\ breaker'.halfOpenAttempts = Entered.halfOpenAttempts + 1
        /\ breaker'.failureCount = breaker.failureCount
    BY <1>1, <1>3, <2>1, <2>2, OptionsAssumption DEF Breakers
  <2>4. TypeOK'
    BY <2>1, <2>3 DEF TypeOK, CallStates, Pending
  <2>5. Probes' = Probes \union {c}
    BY <2>1 DEF Probes, TypeOK
  <2>6. Cardinality(Probes') = Cardinality(Probes) + 1
    BY <1>2, <2>5, FS_AddElement
  <2>7. Cardinality(Probes) = Entered.halfOpenAttempts
    <3>1. CASE breaker.state = "HALF_OPEN"
      BY <3>1, <1>1 DEF ProbesAccounted
    <3>2. CASE breaker.state = "OPEN"
      BY <3>2, <1>1, FS_EmptySet DEF ProbesAccounted
    <3> QED BY <3>1, <3>2, <1>1, <1>3 DEF TypeOK, Breakers, CircuitState
  <2>8. ProbesAccounted'
    BY <2>1, <2>2, <2>3, <2>6, <2>7, OptionsAssumption DEF ProbesAccounted
  <2>9. CountsConsecutiveFailures'
    BY <2>1, <2>3 DEF CountsConsecutiveFailures
  <2> QED BY <2>4, <2>8, <2>9
<1>4. CASE Entered.state # "HALF_OPEN"
  <2>1. /\ breaker' = breaker /\ breaker.state = "CLOSED"
        /\ calls' = [calls EXCEPT ![c] = "ordinary"]
        /\ UNCHANGED <<sinceFailure, streak>>
    BY <1>1, <1>4 DEF Admit, TypeOK, Breakers, CircuitState
  <2>2. TypeOK'
    BY <2>1 DEF TypeOK, CallStates, Pending
  <2>3. ProbesAccounted'
    BY <2>1 DEF ProbesAccounted, Probes, TypeOK
  <2>4. CountsConsecutiveFailures'
    BY <2>1 DEF CountsConsecutiveFailures
  <2> QED BY <2>2, <2>3, <2>4
<1> QED BY <1>3, <1>4

\* A step that ends in a state other than HALF_OPEN and relabels the calls
\* accordingly leaves no probe pending.
LEMMA PeriodOver ==
  ASSUME NEW cs \in [Callers -> CallStates], NEW s \in CircuitState,
         s # "HALF_OPEN", breaker'.state = s, calls' = Relabelled(cs, s)
  PROVE  ProbesAccounted' /\ calls' \in [Callers -> CallStates]
  BY RelabelledResult DEF ProbesAccounted, Probes

LEMMA StepIInv == IInv /\ [Next]_vars => IInv'
<1> SUFFICES ASSUME IInv, [Next]_vars PROVE IInv'
  OBVIOUS
<1>0. breaker \in Breakers /\ breaker.state \in CircuitState
  BY DEF IInv, TypeOK, Breakers
<1>1. ASSUME NEW c \in Callers, Reject(c) PROVE IInv'
  <2>1. /\ UNCHANGED <<breaker, sinceFailure, streak>>
        /\ calls' = [calls EXCEPT ![c] = "rejected"]
        /\ calls[c] # "probe"
    BY <1>1 DEF Reject, Pending
  <2>2. Probes' = Probes
    BY <2>1 DEF Probes, IInv, TypeOK
  <2> QED
    BY <2>1, <2>2 DEF IInv, TypeOK, CallStates, ProbesAccounted, CountsConsecutiveFailures
<1>2. ASSUME NEW c \in Callers, RejectAndReopen(c) PROVE IInv'
  <2>1. /\ breaker' \in Breakers /\ breaker'.state = "OPEN"
        /\ breaker'.failureCount = breaker.failureCount
    BY <1>0, <1>2, EnteredResult, TransitionType DEF RejectAndReopen, CircuitState
  <2>2. [calls EXCEPT ![c] = "rejected"] \in [Callers -> CallStates]
    BY DEF IInv, TypeOK, CallStates
  <2>3. ProbesAccounted' /\ calls' \in [Callers -> CallStates]
    BY <1>2, <2>1, <2>2, PeriodOver DEF RejectAndReopen, CircuitState
  <2> QED
    BY <1>2, <2>1, <2>3 DEF RejectAndReopen, IInv, TypeOK, CountsConsecutiveFailures
<1>3. ASSUME NEW c \in Callers, Admit(c) PROVE IInv'
  BY <1>3, AdmitIInv
<1>4. ASSUME NEW c \in Callers, Succeed(c) PROVE IInv'
  <2>1. /\ breaker' \in Breakers /\ breaker'.failureCount = 0
        /\ breaker'.state = IF breaker.state = "HALF_OPEN" THEN "CLOSED" ELSE breaker.state
    BY <1>0, <1>4, OnSuccessResult DEF Succeed
  <2>2. [calls EXCEPT ![c] = "idle"] \in [Callers -> CallStates]
    BY DEF IInv, TypeOK, CallStates
  <2>3. breaker'.state \in CircuitState /\ breaker'.state # "HALF_OPEN"
    BY <1>0, <2>1 DEF CircuitState
  <2>4. ProbesAccounted' /\ calls' \in [Callers -> CallStates]
    BY <1>4, <2>2, <2>3, PeriodOver DEF Succeed
  <2>5. streak' = 0 /\ sinceFailure' = sinceFailure /\ sinceFailure \in 0..ResetTimeout
    BY <1>4 DEF Succeed, IInv, TypeOK
  <2>6. TypeOK'
    BY <2>1, <2>4, <2>5, OptionsAssumption DEF TypeOK
  <2>7. CountsConsecutiveFailures'
    BY <2>1, <2>5, OptionsAssumption DEF CountsConsecutiveFailures
  <2> QED
    BY <2>4, <2>6, <2>7 DEF IInv
<1>5. ASSUME NEW c \in Callers, Fail(c) PROVE IInv'
  <2>1. /\ breaker' \in Breakers
        /\ breaker'.failureCount = Bump(breaker.failureCount, FailureThreshold)
        /\ breaker'.state # "HALF_OPEN"
        /\ breaker'.state = "CLOSED" => breaker'.failureCount < FailureThreshold
    BY <1>0, <1>5, OnFailureResult DEF Fail
  <2>2. [calls EXCEPT ![c] = "idle"] \in [Callers -> CallStates]
    BY DEF IInv, TypeOK, CallStates
  <2>3. breaker'.state \in CircuitState
    BY <2>1 DEF Breakers
  <2>4. ProbesAccounted' /\ calls' \in [Callers -> CallStates]
    BY <1>5, <2>1, <2>2, <2>3, PeriodOver DEF Fail
  <2>5. /\ streak' = Bump(streak, FailureThreshold) /\ sinceFailure' = 0
        /\ streak \in 0..FailureThreshold
        /\ breaker.failureCount \in 0..FailureThreshold
        /\ breaker.failureCount <= streak
    BY <1>5, <1>0 DEF Fail, IInv, TypeOK, CountsConsecutiveFailures, Breakers
  <2>6. breaker'.failureCount <= streak' /\ streak' \in 0..FailureThreshold
    BY <2>1, <2>5, OptionsAssumption DEF Bump
  <2> QED
    BY <2>1, <2>4, <2>5, <2>6, OptionsAssumption DEF IInv, TypeOK, CountsConsecutiveFailures
<1>6. CASE Reset
  <2>1. /\ breaker' \in Breakers /\ breaker'.state = "CLOSED" /\ breaker'.failureCount = 0
    BY <1>0, <1>6, TransitionType DEF Reset, CircuitState
  <2>2. ProbesAccounted' /\ calls' \in [Callers -> CallStates]
    BY <1>6, <2>1, PeriodOver DEF Reset, CircuitState, IInv, TypeOK
  <2> QED
    BY <1>6, <2>1, <2>2, OptionsAssumption
    DEF Reset, IInv, TypeOK, CountsConsecutiveFailures
<1>7. CASE Tick
  BY <1>7, OptionsAssumption
  DEF Tick, IInv, TypeOK, ProbesAccounted, Probes, CountsConsecutiveFailures
<1>8. CASE UNCHANGED vars
  BY <1>8 DEF vars, IInv, TypeOK, ProbesAccounted, Probes, CountsConsecutiveFailures
<1> QED
  BY <1>1, <1>2, <1>3, <1>4, <1>5, <1>6, <1>7, <1>8 DEF Next, execute, Complete

\* The inductive invariant holds throughout.
LEMMA SpecIInv == Spec => []IInv
<1> QED BY InitIInv, StepIInv, PTL DEF Spec

\* The fields of the breaker and the phases of its calls keep their ranges: in
\* particular halfOpenAttempts never passes halfOpenMaxAttempts.
THEOREM TypeCorrect == Spec => []TypeOK
<1>1. IInv => TypeOK
  BY DEF IInv
<1> QED BY SpecIInv, <1>1, PTL

\* In HALF_OPEN, halfOpenAttempts is the number of trial calls still pending, at
\* least one and at most halfOpenMaxAttempts; elsewhere no trial call is current
\* (execute, onSuccess, onFailure).
THEOREM ProbesAreAccounted == Spec => []ProbesAccounted
<1>1. IInv => ProbesAccounted
  BY DEF IInv
<1> QED BY SpecIInv, <1>1, PTL

\* The failures counted are consecutive, and a CLOSED circuit is below the
\* threshold.
THEOREM FailuresAreConsecutive == Spec => []CountsConsecutiveFailures
<1>1. IInv => CountsConsecutiveFailures
  BY DEF IInv
<1> QED BY SpecIInv, <1>1, PTL

\* A circuit leaves CLOSED only for OPEN and only after FailureThreshold
\* completions in a row failed.
THEOREM OpensOnlyWhenFailing == Spec => OpensOnlyAfterFailures
<1>1. ASSUME IInv, IInv', [Next]_vars, breaker.state = "CLOSED", breaker'.state # "CLOSED"
      PROVE  breaker'.state = "OPEN" /\ streak' = FailureThreshold
  <2>0. breaker \in Breakers
    BY <1>1 DEF IInv, TypeOK
  <2>1. ASSUME NEW c \in Callers, execute(c) PROVE FALSE
    <3>1. Entered = breaker
      BY <1>1, <2>0, EnteredResult
    <3> QED
      BY <1>1, <2>1, <3>1
      DEF execute, Reject, RejectAndReopen, Admit, HalfOpenExhausted
  <2>2. ASSUME NEW c \in Callers, Succeed(c) PROVE FALSE
    BY <1>1, <2>0, <2>2, OnSuccessResult DEF Succeed
  <2>3. ASSUME NEW c \in Callers, Fail(c)
        PROVE  breaker'.state = "OPEN" /\ streak' = FailureThreshold
    <3>1. breaker'.state = "OPEN" /\ breaker'.failureCount = FailureThreshold
      BY <1>1, <2>0, <2>3, OnFailureResult DEF Fail
    <3>2. breaker'.failureCount <= streak' /\ streak' \in 0..FailureThreshold
      BY <1>1 DEF IInv, TypeOK, CountsConsecutiveFailures
    <3> QED BY <3>1, <3>2, OptionsAssumption
  <2>4. ~Reset
    BY <1>1, <2>0, TransitionType DEF Reset, CircuitState
  <2>5. ~Tick /\ ~UNCHANGED vars
    BY <1>1 DEF Tick, vars
  <2> QED
    BY <1>1, <2>1, <2>2, <2>3, <2>4, <2>5 DEF Next, Complete
<1>2. IInv /\ IInv' /\ [Next]_vars
      => [breaker.state = "CLOSED" /\ breaker'.state # "CLOSED"
            => breaker'.state = "OPEN" /\ streak' = FailureThreshold]_vars
  BY <1>1
<1> QED
  BY SpecIInv, <1>2, PTL DEF Spec, OpensOnlyAfterFailures

-----------------------------------------------------------------------------
(* The HTTP client. *)

\* What is known of a request between its steps: of an attempt under way nothing has
\* been carried out that was answered, and a body says what was done.
Clients == {"telegram", "slack", "discord", "whatsapp", "sdk"}
Known == [client : Clients \union {"none"}, phase : {"settled", "fetch", "sleep", "body"},
          attempt : Nat, done : {0, 1},
          outcome : {"none", "result", "ProviderError", "HttpClientError"}]

Consistent(w) ==
  /\ w.phase # "settled" => w.client \in Clients
  /\ w.phase \in {"fetch", "sleep"} => w.done = 0
  /\ w.phase \in {"body", "settled"} => (w.done = 1 <=> w.outcome = "result")

RequestInv ==
  /\ request \in [Requesters -> Known]
  /\ \A r \in Requesters : Consistent(request[r])

\* A step changes one request, which stays known and consistent.
LEMMA OneRequest ==
  ASSUME RequestInv, NEW r \in Requesters, NEW w \in Known, Consistent(w),
         request' = [request EXCEPT ![r] = w]
  PROVE  RequestInv'
  BY DEF RequestInv

LEMMA NothingKnown == Nothing \in Known /\ Consistent(Nothing)
  BY DEF Nothing, Known, Consistent

LEMMA ClientNames ==
  ASSUME NEW r \in Requesters, NEW client \in clientOf(r)
  PROVE  client \in Clients
  BY BotAssumption DEF clientOf, Clients, Requesters

\* The forms of a request under way.
LEMMA FetchKnown ==
  ASSUME NEW w \in Known, w.client \in Clients, w.done = 0, NEW n \in Nat
  PROVE  /\ [w EXCEPT !.phase = "fetch", !.attempt = n] \in Known
         /\ Consistent([w EXCEPT !.phase = "fetch", !.attempt = n])
  BY DEF Known, Consistent

LEMMA SleepKnown ==
  ASSUME NEW w \in Known, w.client \in Clients, w.done = 0
  PROVE  Sleep(w) \in Known /\ Consistent(Sleep(w))
  BY DEF Sleep, Known, Consistent

LEMMA BodyKnown ==
  ASSUME NEW w \in Known, w.client \in Clients, NEW outcome \in {"result", "ProviderError"},
         w.done = 1 <=> outcome = "result"
  PROVE  /\ [w EXCEPT !.phase = "body", !.outcome = outcome] \in Known
         /\ Consistent([w EXCEPT !.phase = "body", !.outcome = outcome])
  BY DEF Known, Consistent

\* An attempt begins with nothing done.
LEMMA AttemptKnown ==
  ASSUME RequestInv, NEW r \in Requesters, NEW client \in clientOf(r), Begins(r, client)
  PROVE  Attempt(r, client) \in Known /\ Consistent(Attempt(r, client))
         /\ Attempt(r, client).done = 0
<1>1. client \in Clients
  BY ClientNames
<1>2. request[r] \in Known /\ Consistent(request[r])
  BY DEF RequestInv
<1>3. CASE request[r].phase = "sleep"
  <2> DEFINE w == request[r]
  <2>1. w \in Known /\ w.client \in Clients /\ w.done = 0 /\ w.attempt + 1 \in Nat
    BY <1>2, <1>3 DEF Known, Consistent
  <2>2. Attempt(r, client) = [w EXCEPT !.phase = "fetch", !.attempt = w.attempt + 1]
    BY <1>3 DEF Attempt
  <2>3. Attempt(r, client).done = w.done
    BY <2>1, <2>2 DEF Known
  <2> HIDE DEF w
  <2>4. /\ [w EXCEPT !.phase = "fetch", !.attempt = w.attempt + 1] \in Known
        /\ Consistent([w EXCEPT !.phase = "fetch", !.attempt = w.attempt + 1])
    BY <2>1, FetchKnown
  <2>5. Attempt(r, client).done = 0
    BY <2>1, <2>3
  <2>6. Attempt(r, client) \in Known /\ Consistent(Attempt(r, client))
    BY <2>2, <2>4
  <2> QED
    BY <2>5, <2>6
<1>4. CASE request[r].phase # "sleep"
  BY <1>1, <1>4 DEF Attempt, Known, Consistent, Nothing
<1> QED
  BY <1>3, <1>4

LEMMA SettleKnown ==
  ASSUME NEW w \in Known, NEW outcome \in {"result", "ProviderError", "HttpClientError"},
         w.done = 1 <=> outcome = "result"
  PROVE  Settle(w, outcome) \in Known /\ Consistent(Settle(w, outcome))
  BY DEF Settle, Nothing, Known, Consistent

LEMMA TryAgainKnown ==
  ASSUME NEW w \in Known, w.client \in Clients, w.done = 0
  PROVE  tryAgain(w) \in Known /\ Consistent(tryAgain(w))
<1>1. Sleep(w) \in Known /\ Consistent(Sleep(w))
  BY SleepKnown
<1>2. Settle(w, "HttpClientError") \in Known /\ Consistent(Settle(w, "HttpClientError"))
  BY SettleKnown
<1> QED
  BY <1>1, <1>2 DEF tryAgain

\* What a method makes of an answer says whether the request was carried out.
LEMMA InvokeTrue ==
  ASSUME NEW client \in Clients, NEW status \in Answers(client)
  PROVE  /\ invoke(client, status) \in {"result", "ProviderError"}
         /\ invoke(client, status) = "result" <=> status = "ok"
  BY DEF invoke, Success, Answers, Statuses, Clients, telegramInvoke, slackInvoke,
         discordMethods, whatsappMethods, sdkMethods

-----------------------------------------------------------------------------
(* The steps *)

LEMMA AttemptInv ==
  ASSUME RequestInv, NEW c \in Callers, attempt(c) PROVE RequestInv'
<1>1. PICK client \in clientOf(c) :
        /\ Begins(c, client)
        /\ \/ request' = [request EXCEPT ![c] = Attempt(c, client)]
           \/ request' = [request EXCEPT ![c] = Settle(Attempt(c, client), "HttpClientError")]
  BY DEF attempt
<1>2. c \in Requesters
  BY DEF Requesters
<1>3. Attempt(c, client) \in Known /\ Consistent(Attempt(c, client)) /\ Attempt(c, client).done = 0
  BY <1>1, <1>2, AttemptKnown
<1>4. /\ Settle(Attempt(c, client), "HttpClientError") \in Known
      /\ Consistent(Settle(Attempt(c, client), "HttpClientError"))
  BY <1>3, SettleKnown
<1> QED
  BY <1>1, <1>2, <1>3, <1>4, OneRequest

LEMMA AttemptAloneInv ==
  ASSUME RequestInv, NEW r \in Private, attemptAlone(r) PROVE RequestInv'
<1>1. PICK client \in clientOf(r) :
        /\ Begins(r, client)
        /\ request' = [request EXCEPT ![r] = Attempt(r, client)]
  BY DEF attemptAlone
<1>2. r \in Requesters
  BY DEF Requesters
<1>3. Attempt(r, client) \in Known /\ Consistent(Attempt(r, client))
  BY <1>1, <1>2, AttemptKnown
<1> QED
  BY <1>1, <1>2, <1>3, OneRequest

LEMMA AnswerInv ==
  ASSUME RequestInv, NEW r \in Requesters, executeSingleRequest(r) PROVE RequestInv'
<1> DEFINE W(status) == [request[r] EXCEPT !.done = IF status = "ok" THEN @ + 1 ELSE @]
           Body(status) ==
             [W(status) EXCEPT !.phase = "body", !.outcome = invoke(W(status).client, status)]
<1>1. PICK status \in Answers(request[r].client) :
        /\ request[r].phase = "fetch"
        /\ request' = [request EXCEPT ![r] =
             IF status \in retryOnStatuses(W(status).client) /\ W(status).attempt < MaxAttempts
             THEN Sleep(W(status)) ELSE Body(status)]
  BY DEF executeSingleRequest
<1>2. /\ request[r] \in Known /\ request[r].client \in Clients /\ request[r].done = 0
  BY <1>1 DEF RequestInv, Consistent
<1>3. /\ invoke(request[r].client, status) \in {"result", "ProviderError"}
      /\ invoke(request[r].client, status) = "result" <=> status = "ok"
  BY <1>2, InvokeTrue
<1>4. /\ W(status) \in Known /\ W(status).client = request[r].client
      /\ W(status).done = 1 <=> status = "ok"
  BY <1>2 DEF Known
<1>5. Body(status) \in Known /\ Consistent(Body(status))
  <2> HIDE DEF W
  <2>1. invoke(W(status).client, status) = invoke(request[r].client, status)
    BY <1>4
  <2> QED
    BY <1>2, <1>3, <1>4, <2>1, BodyKnown
<1>6. CASE status \in retryOnStatuses(W(status).client)
  <2>1. status # "ok"
    BY <1>6 DEF retryOnStatuses
  <2>2. Sleep(W(status)) \in Known /\ Consistent(Sleep(W(status)))
    <3>1. W(status).done = 0
      BY <1>2, <1>4, <2>1 DEF Known
    <3> HIDE DEF W
    <3> QED
      BY <1>2, <1>4, <3>1, SleepKnown
  <2> HIDE DEF W, Body
  <2> QED
    BY <1>1, <1>5, <2>2, OneRequest
<1>7. CASE status \notin retryOnStatuses(W(status).client)
  <2>1. request' = [request EXCEPT ![r] = Body(status)]
    BY <1>1, <1>7
  <2> HIDE DEF W, Body
  <2> QED
    BY <1>5, <2>1, OneRequest
<1> QED
  BY <1>6, <1>7

LEMMA RejectsInv ==
  ASSUME RequestInv, NEW r \in Requesters, fetchRejects(r) PROVE RequestInv'
<1>1. /\ request[r].phase = "fetch"
      /\ request' = [request EXCEPT ![r] = tryAgain(request[r])]
  BY DEF fetchRejects
<1>2. request[r] \in Known /\ request[r].client \in Clients /\ request[r].done = 0
  BY <1>1 DEF RequestInv, Consistent
<1>3. tryAgain(request[r]) \in Known /\ Consistent(tryAgain(request[r]))
  BY <1>2, TryAgainKnown
<1> QED
  BY <1>1, <1>3, OneRequest

LEMMA ParseInv ==
  ASSUME RequestInv, NEW r \in Requesters, parseResponse(r) PROVE RequestInv'
<1> DEFINE w == Settle(request[r], request[r].outcome)
<1>1. /\ request[r].phase = "body"
      /\ request' = [request EXCEPT ![r] = w]
  BY DEF parseResponse
<1>2. request[r] \in Known /\ Consistent(request[r])
  BY DEF RequestInv
<1>3. w \in Known /\ Consistent(w)
  BY <1>1, <1>2 DEF Settle, Nothing, Known, Consistent
<1> HIDE DEF w
<1> QED
  BY <1>1, <1>3, OneRequest

LEMMA UnreadInv ==
  ASSUME RequestInv, NEW r \in Requesters, parseRejects(r) PROVE RequestInv'
<1> DEFINE unread == IF request[r].outcome = "result" THEN 1 ELSE 0
           w == [request[r] EXCEPT !.done = @ - unread]
<1>1. /\ request[r].phase = "body"
      /\ request' = [request EXCEPT ![r] = tryAgain(w)]
  BY DEF parseRejects
<1>2. request[r] \in Known /\ Consistent(request[r])
  BY DEF RequestInv
<1>3. w \in Known /\ w.client \in Clients /\ w.done = 0
  BY <1>1, <1>2 DEF Known, Consistent
<1> HIDE DEF w
<1>4. tryAgain(w) \in Known /\ Consistent(tryAgain(w))
  BY <1>3, TryAgainKnown
<1> QED
  BY <1>1, <1>4, OneRequest

LEMMA NextInv ==
  ASSUME RequestInv, [HttpNext]_httpVars PROVE RequestInv'
<1>1. ASSUME NEW c \in Callers, attempt(c) PROVE RequestInv'
  BY <1>1, AttemptInv
<1>2. ASSUME NEW r \in Private, attemptAlone(r) PROVE RequestInv'
  BY <1>2, AttemptAloneInv
<1>3. ASSUME NEW r \in Requesters,
             executeSingleRequest(r) \/ fetchRejects(r) \/ parseResponse(r) \/ parseRejects(r)
      PROVE  RequestInv'
  BY <1>3, AnswerInv, RejectsInv, ParseInv, UnreadInv
<1>4. CASE UNCHANGED request
  BY <1>4 DEF RequestInv
<1> QED
  BY <1>1, <1>2, <1>3, <1>4 DEF HttpNext, TickAll, httpVars

\* For any number of requests, with or without a breaker of their own, and any number of
\* attempts: what a request returns says whether the service carried it out, and it did
\* so once but for the answers that were lost (http-client.ts request()).
THEOREM CarriedOutOnce == HttpSpec => []CarriedOutOncePerLoss
<1>1. HttpInit => RequestInv
  BY NothingKnown DEF HttpInit, RequestInv
<1>2. RequestInv /\ [HttpNext]_httpVars => RequestInv'
  BY NextInv
<1>3. RequestInv => CarriedOutOncePerLoss
  BY DEF RequestInv, Known, Consistent, CarriedOutOncePerLoss
<1> QED
  BY <1>1, <1>2, <1>3, PTL DEF HttpSpec

-----------------------------------------------------------------------------
(* The breaker beneath *)

LEMMA StepOfBreaker == [HttpNext]_httpVars => [Next]_vars
<1> SUFFICES ASSUME HttpNext \/ UNCHANGED httpVars PROVE Next \/ UNCHANGED vars
  OBVIOUS
<1>1. ASSUME NEW c \in Callers, attempt(c) PROVE Next
  BY <1>1 DEF attempt, Next, execute
<1>2. ASSUME NEW r \in Private, attemptAlone(r) PROVE UNCHANGED vars
  BY <1>2 DEF attemptAlone
<1>3. ASSUME NEW r \in Requesters, executeSingleRequest(r) PROVE Next \/ UNCHANGED vars
  BY <1>3 DEF executeSingleRequest, Next, Complete
<1>4. ASSUME NEW r \in Requesters, fetchRejects(r) PROVE Next \/ UNCHANGED vars
  BY <1>4 DEF fetchRejects, Next, Complete
<1>5. ASSUME NEW r \in Requesters, parseResponse(r) \/ parseRejects(r) PROVE UNCHANGED vars
  BY <1>5 DEF parseResponse, parseRejects
<1>6. CASE TickAll
  BY <1>6 DEF TickAll, Next
<1>7. CASE UNCHANGED httpVars
  BY <1>7 DEF httpVars, vars
<1> QED
  BY <1>1, <1>2, <1>3, <1>4, <1>5, <1>6, <1>7 DEF HttpNext

\* Whatever attempts, back-offs and unreadable answers its requests go through, HttpClient
\* uses its breaker as CircuitBreaker's specification says.
THEOREM UsesTheBreaker == HttpSpec => Spec
<1>1. HttpInit => Init
  BY DEF HttpInit
<1> QED
  BY <1>1, StepOfBreaker, PTL DEF HttpSpec, Spec

\* So the trial calls of a half-open circuit are counted right beneath any requests.
THEOREM ProbesAccountedBeneath == HttpSpec => []ProbesAccounted
  BY UsesTheBreaker, ProbesAreAccounted, PTL

-----------------------------------------------------------------------------
(* The messages of a channel: the invariant *)

\* Messages are numbered in the order they come, but on Telegram.
PostsInv ==
  /\ IsFiniteSet(posts) /\ posts \subseteq [chat : Chats, n : 1..MaxPosts, ours : BOOLEAN]
  /\ provider # "TELEGRAM" =>
       /\ \A q \in posts : q.n <= Cardinality(posts)
       /\ \A p, q \in posts : p.n = q.n => p = q

\* What each platform reports, and of which messages.
Reportable(x) ==
  /\ x.post = None <=> x.what \in {"command", "call"}
  /\ x.what = "command" => provider \in {"SLACK", "DISCORD"}
  /\ x.what = "call" => provider = "TWILIO_SMS"
  /\ x.what = "status" => provider \in Twilio \union Pages /\ x.status \in MessageStatuses
  /\ x.what = "reaction" => provider = "SLACK"
  /\ SharesKey => x.what \in {"message", "status", "call"}
  /\ x.post # None => \E q \in posts :
       /\ PostOf(q) = x.post
       /\ x.what = "message" => ~q.ours
       /\ x.what = "status" => q.ours

\* Reports are numbered too, and there is one of a message the contact posts.
NoticesInv ==
  /\ IsFiniteSet(told) /\ told \subseteq Notices
  /\ pending \subseteq told /\ answered \subseteq told \ pending /\ log \subseteq told
  /\ \A x \in told : x.n <= Cardinality(told) /\ Reportable(x)
  /\ \A x, y \in told : x.n = y.n => x = y
  /\ provider # "TELEGRAM" =>
       \A x, y \in told : x.what = "message" /\ y.what = "message" /\ x.post = y.post => x = y

\* An id that has a message's number has that of q, and its chat if it has a chat.
Leads(id, q) ==
  id.kind \in {"bare", "full"} =>
    q \in PostIds /\ id.n = q.n /\ (id.kind = "full" => id.chat = q.chat)

Calls == [request : BOOLEAN, refers : BOOLEAN, retryable : BOOLEAN]
Sends == [at : {"idle", "preparing", "posting", "accepted", "refused", "sent", "failed",
                "rejected", "threw"},
          chat : Chats \union {None}, ref : Ids \union {None}, named : PostIds \union {None},
          call : Calls, post : PostIds \union {None}]
OutRows == [status : MessageStatuses \union {"none", "PROCESSING"}, ext : Ids \union {None}]

\* A reference is the id of the message it names; a message that was accepted is in its
\* chat; and its row has its id.
Sound(w) ==
  /\ IF w.at = "idle" THEN w.ref = None ELSE w.chat \in Chats
  /\ w.ref # None =>
       /\ Leads(w.ref, w.named)
       /\ w.ref.kind = "bare" => w.named.chat = w.chat
  /\ w.at \in {"accepted", "sent"} =>
       /\ w.post \in PostIds /\ w.post.chat = w.chat
       /\ [chat |-> w.chat, n |-> w.post.n, ours |-> TRUE] \in posts
SendsInv ==
  /\ sends \in [Outbound -> Sends] /\ outRows \in [Outbound -> OutRows]
  /\ \A m \in Outbound :
       /\ Sound(sends[m])
       /\ outRows[m].ext # None =>
            sends[m].at = "sent" /\ outRows[m].ext = externalMessageId(sends[m].post)

\* A row of the contact's holds a report with its id.
RowsInv ==
  /\ DOMAIN inRows \subseteq Ids
  /\ \A i \in DOMAIN inRows : LET y == inRows[i].content IN
       /\ y \in told /\ y.what # "call" /\ providerMessageId(y) = i
       /\ inRows[i].chat = IF y.post = None THEN None ELSE y.post.chat

Stored(x) == RowFor(providerMessageId(x)) \in Outbound \union DOMAIN inRows
Linked(x) == providerMessageId(x) \in DOMAIN mapping
MappingInv ==
  /\ DOMAIN mapping \subseteq Ids
  /\ \A i \in DOMAIN mapping : mapping[i] \in Outbound \union DOMAIN inRows

Heard(x) ==
  \/ \E e \in published : e.notice = x
  \/ x.status = "FAILED"
  \/ x.what = "status" /\ provider \in Pages

Service == [at : {"idle", "owner", "upsert", "map", "mapping", "update", "publish", "log"},
            notice : Notices \union {None}, replay : BOOLEAN,
            row : Ids \union Outbound \union {None}]
AsStatus(w) == w.notice.what = "status" /\ ~(w.replay /\ provider \in Twilio)

\* What a webhook request has done of its report by each of its steps.
Served(w) == LET x == w.notice IN
  /\ w.at = "idle" => x = None
  /\ w.at # "idle" =>
       /\ x \in told
       /\ w.at \in {"upsert", "map"} => x.what # "call" /\ ~AsStatus(w)
       /\ w.at \in {"mapping", "update"} => AsStatus(w)
       /\ w.at = "map" \/ (w.at = "publish" /\ x.what # "call" /\ ~AsStatus(w)) =>
            /\ w.row \in Outbound \union DOMAIN inRows
            /\ ~w.replay => w.row = providerMessageId(x)
       /\ x.what \notin {"status", "call"} =>
            /\ w.at \in {"map", "publish", "log"} => Stored(x)
            /\ w.at \in {"publish", "log"} => Linked(x)
       /\ w.at = "log" => Heard(x)
HandlersInv ==
  /\ handlers \in [Handlers -> Service]
  /\ \A h \in Handlers : Served(handlers[h])

ChannelIInv ==
  /\ provider \in Channels /\ mishaps \in 0..MaxMishaps
  /\ PostsInv /\ NoticesInv /\ SendsInv /\ RowsInv /\ MappingInv /\ HandlersInv
  /\ ActionsHitTheNamed /\ AcceptedIsTold /\ EventsCarryTheirReport

-----------------------------------------------------------------------------
(* Ids, and the rows with them *)

\* The report of a message, or of what was done with one, has an id; if it is the
\* number of a message then of that one.
LEMMA ReportId ==
  ASSUME NEW x \in Notices, Reportable(x), x.what # "call"
  PROVE  /\ providerMessageId(x) \in Ids
         /\ providerMessageId(x).kind # "full"
         /\ Leads(providerMessageId(x), x.post)
<1> USE BoundsAssumption, NoneAssumption
<1>1. /\ x.post # None => x.post \in PostIds /\ x.post.n \in 1..MaxPosts
      /\ x.n \in 1..MaxNotices
      /\ x.post = None => provider \in {"SLACK", "DISCORD"} /\ x.what = "command"
  BY DEF Notices, PostIds, Reportable
<1>2. x.post # None => /\ Bare(x.post) \in Ids /\ Vote(x.post) \in Ids
                       /\ Bare(x.post).kind = "bare" /\ Vote(x.post).kind = "vote"
                       /\ Bare(x.post).n = x.post.n
  BY <1>1 DEF Bare, Vote, Ids
<1>3. Own(x.n) \in Ids /\ Own(x.n).kind = "own"
  BY <1>1 DEF Own, Ids
<1>4. \/ providerMessageId(x) = Own(x.n)
      \/ x.post # None /\ providerMessageId(x) \in {Bare(x.post), Vote(x.post)}
  BY <1>1 DEF providerMessageId, telegramId, slackId, discordId
<1> QED
  BY <1>1, <1>2, <1>3, <1>4 DEF Leads

\* The id of a message that was sent has its number, and its chat if it has a chat.
LEMMA SentId ==
  ASSUME NEW q \in PostIds
  PROVE  /\ externalMessageId(q) \in Ids /\ externalMessageId(q).kind \in {"bare", "full"}
         /\ Leads(externalMessageId(q), q)
         /\ provider \notin {"DISCORD", "SLACK"} => externalMessageId(q) = Bare(q)
  BY BoundsAssumption DEF externalMessageId, Bare, Full, Ids, PostIds, Leads

\* The row with an id: that of a message sent, where the contact's share its key, or the
\* id's own.
Holder(id) == SharesKey /\ \E m \in Outbound : outRows[m].ext = id

LEMMA RowForId ==
  ASSUME NEW id \in Ids
  PROVE  /\ Holder(id) => RowFor(id) \in Outbound
         /\ ~Holder(id) => RowFor(id) = id /\ RowFor(id) \notin Outbound
  BY IdsAssumption DEF RowFor, Holder

-----------------------------------------------------------------------------
(* What a step leaves alone, and what only grows. *)

ContactStep ==
  \/ \E c \in Chats : contactPosts(c)
  \/ \E q \in posts, what \in {"edit", "press", "vote", "reaction", "status"} :
       contactActs(q, what)
  \/ commands
SendStep(m) == (\E f \in SentForms : send(m, f)) \/ Sending(m)
ActStep(r) == addReaction(r) \/ markAsRead(r)
HandlerStep ==
  \/ \E h \in Handlers, x \in pending : deliver(h, x)
  \/ \E h \in Handlers : Handling(h)
  \/ \E h \in Handlers, x \in log : replay(h, x)
  \/ \E x \in log : requireCredentialId(x)

LEMMA NextByActor ==
  ChannelNext <=> \/ ContactStep
                  \/ \E m \in Outbound : SendStep(m)
                  \/ \E r \in Rows : ActStep(r)
                  \/ HandlerStep
  BY DEF ChannelNext, ContactStep, SendStep, ActStep, HandlerStep

LEMMA ContactFrame ==
  ASSUME ContactStep
  PROVE  PlatformLeaves
  BY DEF ContactStep, contactPosts, contactActs, commands

LEMMA SendFrame ==
  ASSUME NEW m \in Outbound, SendStep(m)
  PROVE  SendLeaves
  BY DEF SendStep, send, Sending, prepare, prepareThrows, accept, refuse, persistFailure,
         persistSuccess, persistThrows

LEMMA ActFrame ==
  ASSUME NEW r, ActStep(r)
  PROVE  ActLeaves
  BY DEF ActStep, addReaction, markAsRead

LEMMA HandlingFrame ==
  ASSUME NEW h, Handling(h)
  PROVE  HandlerLeaves
<1>1. ASSUME findOwner(h) PROVE HandlerLeaves
  BY <1>1 DEF findOwner, handleUpdate, handleInteraction, handleEvent, handleInboundMessage,
              handleMessageStatus, handleVoiceStatus, handleMeta, Finds
<1> QED
  BY <1>1 DEF Handling, persistInbound, upsertMessage, upsertMapping, dispatchEvent,
              findMapping, applyStatus, finish, handlerRejects

LEMMA HandlerFrame ==
  ASSUME HandlerStep
  PROVE  HandlerLeaves
  BY HandlingFrame DEF HandlerStep, deliver, replay, requireCredentialId

\* The provider stays; messages, reports, events, rows and their ids are there for good.
Grows ==
  /\ provider' = provider
  /\ posts \subseteq posts' /\ told \subseteq told' /\ published \subseteq published'
  /\ DOMAIN inRows \subseteq DOMAIN inRows' /\ DOMAIN mapping \subseteq DOMAIN mapping'
  /\ \A i \in DOMAIN inRows : inRows'[i] = inRows[i]
  /\ \A m \in Outbound : outRows[m].ext # None => outRows'[m].ext = outRows[m].ext

\* What a webhook request in its course serves has been told, and has an id unless it is
\* a call's status.
LEMMA ServedId ==
  ASSUME NoticesInv, HandlersInv, NEW h \in Handlers, handlers[h].at # "idle"
  PROVE  /\ Item(h) \in told /\ Item(h) \in Notices /\ Reportable(Item(h))
         /\ Item(h).what # "call" => providerMessageId(Item(h)) \in Ids
<1>1. Item(h) \in told /\ Item(h) \in Notices /\ Reportable(Item(h))
  BY DEF HandlersInv, Served, Item, NoticesInv
<1> QED
  BY <1>1, ReportId

LEMMA SendGrows ==
  ASSUME SendsInv, NEW m \in Outbound, SendStep(m), posts \subseteq posts'
  PROVE  Grows
<1>1. UNCHANGED <<provider, told, inRows, published>>
  BY SendFrame DEF SendLeaves
<1>2. DOMAIN mapping \subseteq DOMAIN mapping'
  <2>1. CASE persistSuccess(m)
    <3>1. mapping' = mapping \/ mapping' = Put(mapping, externalMessageId(sends[m].post), m)
      BY <2>1 DEF persistSuccess
    <3> QED
      BY <3>1 DEF Put
  <2>2. CASE ~persistSuccess(m)
    BY <2>2 DEF SendStep, send, Sending, prepare, prepareThrows, accept, refuse,
                persistFailure, persistThrows
  <2> QED
    BY <2>1, <2>2
<1>3. ASSUME NEW o \in Outbound, outRows[o].ext # None
      PROVE  outRows'[o].ext = outRows[o].ext
  <2>1. outRows \in [Outbound -> OutRows] /\ sends[o].at = "sent"
    BY <1>3 DEF SendsInv
  <2>2. CASE persistSuccess(m)
    BY <2>1, <2>2 DEF persistSuccess, SendGoes, OutRows
  <2>3. CASE persistFailure(m)
    BY <2>1, <2>3 DEF persistFailure, SendGoes, OutRows
  <2>4. CASE \E f \in SentForms : send(m, f)
    BY <2>1, <2>4 DEF send, OutRows
  <2>5. CASE \/ prepare(m) \/ prepareThrows(m) \/ accept(m) \/ refuse(m) \/ persistThrows(m)
    BY <2>5 DEF prepare, prepareThrows, accept, refuse, persistThrows
  <2> QED
    BY <2>2, <2>3, <2>4, <2>5 DEF SendStep, Sending
<1> QED
  BY <1>1, <1>2, <1>3 DEF Grows

\* The upsert of a message leaves the rows there are.
LEMMA UpsertAdds ==
  ASSUME NoticesInv, HandlersInv, NEW h \in Handlers, upsertMessage(h)
  PROVE  LET id == providerMessageId(Item(h)) IN
         /\ id \in Ids
         /\ RowFor(id) \in Outbound \union DOMAIN inRows'
         /\ \A i \in DOMAIN inRows : i \in DOMAIN inRows' /\ inRows'[i] = inRows[i]
         /\ \A i \in DOMAIN inRows' \ DOMAIN inRows :
              /\ i = id /\ ~Holder(id)
              /\ inRows'[i] =
                   [chat |-> IF Item(h).post = None THEN None ELSE Item(h).post.chat,
                    content |-> Item(h)]
<1> DEFINE id == providerMessageId(Item(h))
           row == [chat |-> IF Item(h).post = None THEN None ELSE Item(h).post.chat,
                   content |-> Item(h)]
<1>1. handlers[h].at = "upsert" /\ Item(h).what # "call"
  BY DEF upsertMessage, HandlersInv, Served, Item
<1>2. id \in Ids
  BY <1>1, ServedId
<1> HIDE DEF id, row
<1>3. inRows' = IF RowFor(id) \in Outbound \union DOMAIN inRows THEN inRows
                ELSE Put(inRows, id, row)
  BY DEF upsertMessage, id, row
<1> SUFFICES /\ RowFor(id) \in Outbound \union DOMAIN inRows'
             /\ \A i \in DOMAIN inRows : i \in DOMAIN inRows' /\ inRows'[i] = inRows[i]
             /\ \A i \in DOMAIN inRows' \ DOMAIN inRows :
                  i = id /\ ~Holder(id) /\ inRows'[i] = row
  BY <1>2 DEF id, row
<1>4. CASE RowFor(id) \in Outbound \union DOMAIN inRows
  BY <1>2, <1>3, <1>4
<1>5. CASE RowFor(id) \notin Outbound \union DOMAIN inRows
  <2>1. ~Holder(id) /\ RowFor(id) = id /\ id \notin DOMAIN inRows
    BY <1>2, <1>5, RowForId
  <2>2. inRows' = Put(inRows, id, row)
    BY <1>3, <1>5
  <2>3. /\ DOMAIN inRows' = DOMAIN inRows \union {id} /\ inRows'[id] = row
        /\ \A i \in DOMAIN inRows \ {id} : inRows'[i] = inRows[i]
    BY <2>2 DEF Put
  <2> QED
    BY <1>2, <2>1, <2>3
<1> QED
  BY <1>4, <1>5

LEMMA HandlingGrows ==
  ASSUME NoticesInv, SendsInv, HandlersInv, NEW h \in Handlers, Handling(h)
  PROVE  Grows
<1>1. UNCHANGED <<provider, posts, told, sends>>
  BY HandlingFrame DEF HandlerLeaves
<1>2. CASE upsertMessage(h)
  BY <1>1, <1>2, UpsertAdds DEF Grows, upsertMessage
<1>3. CASE upsertMapping(h)
  <2>1. /\ UNCHANGED <<inRows, outRows, published>>
        /\ mapping' = Put(mapping, providerMessageId(Item(h)), handlers[h].row)
    BY <1>3 DEF upsertMapping
  <2>2. DOMAIN mapping \subseteq DOMAIN mapping'
    BY <2>1 DEF Put
  <2> QED
    BY <1>1, <2>1, <2>2 DEF Grows
<1>4. CASE applyStatus(h)
  <2>1. \A o \in Outbound : outRows'[o].ext = outRows[o].ext
    BY <1>4 DEF applyStatus, SendsInv, OutRows
  <2> QED
    BY <1>1, <1>4, <2>1 DEF Grows, applyStatus
<1>5. CASE findOwner(h)
  BY <1>1, <1>5 DEF Grows, findOwner, handleUpdate, handleInteraction, handleEvent,
              handleInboundMessage, handleMessageStatus, handleVoiceStatus, handleMeta, Finds
<1>6. CASE dispatchEvent(h) \/ findMapping(h) \/ finish(h) \/ handlerRejects(h)
  BY <1>1, <1>6 DEF Grows, dispatchEvent, findMapping, finish, handlerRejects
<1> QED
  BY <1>2, <1>3, <1>4, <1>5, <1>6 DEF Handling, persistInbound

LEMMA StepGrows ==
  ASSUME NoticesInv, SendsInv, HandlersInv, [ChannelNext]_channelVars
  PROVE  Grows
<1>1. CASE ContactStep
  BY <1>1, ContactFrame DEF Grows, PlatformLeaves, ContactStep, contactPosts, contactActs,
                            commands, Tell
<1>2. ASSUME NEW m \in Outbound, SendStep(m) PROVE Grows
  <2>1. posts \subseteq posts'
    BY <1>2 DEF SendStep, send, Sending, prepare, prepareThrows, accept, refuse,
                persistFailure, persistSuccess, persistThrows
  <2> QED
    BY <1>2, <2>1, SendGrows
<1>3. ASSUME NEW r \in Rows, ActStep(r) PROVE Grows
  BY <1>3, ActFrame DEF Grows, ActLeaves
<1>4. CASE HandlerStep
  <2>1. ASSUME NEW h \in Handlers, Handling(h) PROVE Grows
    BY <2>1, HandlingGrows
  <2> QED
    BY <1>4, <2>1 DEF HandlerStep, Grows, deliver, replay, requireCredentialId, HandlerLeaves
<1>5. CASE UNCHANGED channelVars
  BY <1>5 DEF Grows, channelVars
<1> QED
  BY <1>1, <1>2, <1>3, <1>4, <1>5, NextByActor

-----------------------------------------------------------------------------
(* Messages and reports *)

LEMMA NextNumber ==
  ASSUME PostsInv, Cardinality(posts) < MaxPosts, NEW c \in Chats
  PROVE  /\ NextPost(c) \in PostIds /\ NextPost(c).chat = c
         /\ provider # "TELEGRAM" => NextPost(c).n = Cardinality(posts) + 1
<1> DEFINE earlier == {q \in posts : provider = "TELEGRAM" => q.chat = c}
<1>1. IsFiniteSet(posts) /\ earlier \subseteq posts
  BY DEF PostsInv
<1>2. /\ Cardinality(posts) \in Nat /\ Cardinality(earlier) \in Nat
      /\ Cardinality(earlier) <= Cardinality(posts)
  BY <1>1, FS_CardinalityType, FS_Subset
<1>3. provider # "TELEGRAM" => earlier = posts
  OBVIOUS
<1>4. NextPost(c) = [chat |-> c, n |-> 1 + Cardinality(earlier)]
  BY DEF NextPost
<1> HIDE DEF earlier
<1> QED
  BY <1>2, <1>3, <1>4, BoundsAssumption DEF PostIds

\* A message more, of the contact's or ours.
LEMMA PostsAdded ==
  ASSUME PostsInv, Cardinality(posts) < MaxPosts, provider' = provider,
         NEW c \in Chats, NEW mine \in BOOLEAN,
         posts' = posts \union {[chat |-> c, n |-> NextPost(c).n, ours |-> mine]}
  PROVE  PostsInv'
<1> DEFINE new == [chat |-> c, n |-> NextPost(c).n, ours |-> mine]
<1>1. new \in [chat : Chats, n : 1..MaxPosts, ours : BOOLEAN] /\ new.n = NextPost(c).n
  BY NextNumber DEF PostIds
<1>2. /\ IsFiniteSet(posts') /\ Cardinality(posts) \in Nat /\ Cardinality(posts') \in Nat
      /\ Cardinality(posts') = IF new \in posts THEN Cardinality(posts)
                               ELSE Cardinality(posts) + 1
  BY FS_AddElement, FS_CardinalityType DEF PostsInv
<1>3. ASSUME provider # "TELEGRAM"
      PROVE  /\ \A q \in posts : q.n \in Nat /\ q.n <= Cardinality(posts)
             /\ \A p, q \in posts : p.n = q.n => p = q
             /\ new.n = Cardinality(posts) + 1
  BY <1>1, <1>3, NextNumber DEF PostsInv
<1>4. posts' = posts \union {new}
  OBVIOUS
<1> HIDE DEF new
<1>5. ASSUME provider # "TELEGRAM"
      PROVE  /\ \A q \in posts' : q.n <= Cardinality(posts')
             /\ \A p, q \in posts' : p.n = q.n => p = q
  <2>1. new \notin posts
    BY <1>2, <1>3, <1>5
  <2>2. Cardinality(posts') = Cardinality(posts) + 1
    BY <1>2, <2>1
  <2> QED
    BY <1>2, <1>3, <1>4, <1>5, <2>2
<1> QED
  BY <1>1, <1>2, <1>4, <1>5 DEF PostsInv

LEMMA PostsNext ==
  ASSUME PostsInv, SendsInv, Grows, [ChannelNext]_channelVars
  PROVE  PostsInv'
<1>1. CASE UNCHANGED posts
  BY <1>1 DEF PostsInv, Grows
<1>2. ASSUME NEW c \in Chats, contactPosts(c) PROVE PostsInv'
  BY <1>2, PostsAdded DEF contactPosts, Grows
<1>3. ASSUME NEW m \in Outbound, accept(m) PROVE PostsInv'
  <2>1. sends[m].chat \in Chats
    BY <1>3 DEF accept, SendsInv, Sound
  <2>2. /\ Cardinality(posts) < MaxPosts /\ NextPost(sends[m].chat).chat = sends[m].chat
        /\ posts' = posts \union
             {[chat |-> NextPost(sends[m].chat).chat, n |-> NextPost(sends[m].chat).n,
               ours |-> TRUE]}
    BY <1>3 DEF accept, NextPost
  <2> QED
    BY <2>1, <2>2, PostsAdded DEF Grows
<1>4. ASSUME NEW m \in Outbound, SendStep(m), ~accept(m) PROVE UNCHANGED posts
  BY <1>4 DEF SendStep, Sending, send, prepare, prepareThrows, refuse, persistFailure,
              persistSuccess, persistThrows
<1>5. CASE ContactStep
  BY <1>1, <1>2, <1>5 DEF ContactStep, contactActs, commands
<1>6. ASSUME NEW r \in Rows, ActStep(r) PROVE UNCHANGED posts
  BY <1>6, ActFrame DEF ActLeaves
<1>7. CASE HandlerStep
  BY <1>1, <1>7, HandlerFrame DEF HandlerLeaves
<1> QED
  BY <1>1, <1>3, <1>4, <1>5, <1>6, <1>7, NextByActor DEF channelVars

LEMMA ReportableStays ==
  ASSUME Grows, NEW x, Reportable(x)
  PROVE  Reportable(x)'
  BY DEF Grows, Reportable, SharesKey

\* A report more, which is the first of its message if it is that of one posted.
LEMMA ToldMore ==
  ASSUME NoticesInv, Grows, NEW x \in Notices, Tell(x), UNCHANGED <<answered, log>>,
         x.n = Cardinality(told) + 1, Reportable(x)',
         x.what = "message" => \/ provider = "TELEGRAM"
                               \/ \A y \in told : y.what = "message" => y.post # x.post
  PROVE  NoticesInv'
<1>1. told' = told \union {x} /\ pending' = pending \union {x}
  BY DEF Tell
<1>2. \A y \in told : y.n \in Nat /\ y.n <= Cardinality(told)
  BY DEF NoticesInv, Notices
<1>3. /\ IsFiniteSet(told') /\ Cardinality(told) \in Nat
      /\ x \notin told /\ Cardinality(told') = Cardinality(told) + 1
  BY <1>1, <1>2, FS_AddElement, FS_CardinalityType DEF NoticesInv
<1>4. /\ told' \subseteq Notices /\ pending' \subseteq told' /\ log' \subseteq told'
      /\ answered' \subseteq told' \ pending'
  BY <1>1, <1>3 DEF NoticesInv
<1>5. ASSUME NEW y \in told' PROVE y.n <= Cardinality(told') /\ Reportable(y)'
  <2>1. CASE y \in told
    BY <1>2, <1>3, <2>1, ReportableStays DEF NoticesInv
  <2>2. CASE y = x
    BY <1>3, <2>2
  <2> QED
    BY <1>1, <2>1, <2>2
<1>6. \A y, z \in told' : y.n = z.n => y = z
  BY <1>1, <1>2, <1>3 DEF NoticesInv
<1>7. provider # "TELEGRAM" =>
        \A y, z \in told' : y.what = "message" /\ z.what = "message" /\ y.post = z.post => y = z
  BY <1>1 DEF NoticesInv
<1>8. provider' = provider
  BY DEF Grows
<1> QED
  BY <1>3, <1>4, <1>5, <1>6, <1>7, <1>8 DEF NoticesInv

\* Reports are answered, given up or logged, and no more.
LEMMA ToldSame ==
  ASSUME NoticesInv, Grows, UNCHANGED told, log' \subseteq told,
         pending' \subseteq pending, answered' \subseteq told \ pending'
  PROVE  NoticesInv'
<1>1. \A x \in told : Reportable(x)'
  BY ReportableStays DEF NoticesInv
<1> QED
  BY <1>1 DEF NoticesInv, Grows

LEMMA NoticeType ==
  ASSUME NoticesInv, Cardinality(told) < MaxNotices,
         NEW what \in {"message", "edit", "press", "vote", "reaction", "command", "status",
                       "call"},
         NEW q \in PostIds \union {None}, NEW s \in MessageStatuses \union {None}
  PROVE  /\ Notice(what, q, s) \in Notices /\ Notice(what, q, s).n = Cardinality(told) + 1
         /\ Notice(what, q, s).what = what /\ Notice(what, q, s).post = q
         /\ Notice(what, q, s).status = s
<1>1. Cardinality(told) \in Nat
  BY FS_CardinalityType DEF NoticesInv
<1> QED
  BY <1>1, BoundsAssumption DEF Notice, Notices

LEMMA PostTold ==
  ASSUME PostsInv, NoticesInv, Grows, NEW c \in Chats, contactPosts(c)
  PROVE  NoticesInv'
<1> DEFINE new == [chat |-> c, n |-> NextPost(c).n, ours |-> FALSE]
<1>1. /\ Cardinality(told) < MaxNotices /\ new \in posts' /\ UNCHANGED <<answered, log>>
      /\ \/ provider = "DISCORD" /\ UNCHANGED <<told, pending>>
         \/ provider # "DISCORD" /\ Tell(Notice("message", NextPost(c), None))
  BY DEF contactPosts, PlatformLeaves
<1>2. NextPost(c) \in PostIds /\ NextPost(c).chat = c /\ provider' = provider
  BY NextNumber DEF contactPosts, Grows
<1>3. PICK x \in Notices :
        /\ x = Notice("message", NextPost(c), None) /\ x.n = Cardinality(told) + 1
        /\ x.what = "message" /\ x.post = NextPost(c)
  BY <1>1, <1>2, NoticeType
<1>4. PostOf(new) = NextPost(c) /\ ~new.ours
  BY <1>2 DEF PostOf, PostIds
<1> HIDE DEF new
<1>5. CASE provider = "DISCORD"
  BY <1>1, <1>5, ToldSame DEF NoticesInv
<1>6. CASE provider # "DISCORD"
  <2>1. Reportable(x)'
    BY <1>1, <1>2, <1>3, <1>4, NoneAssumption DEF Reportable
  <2>2. ASSUME provider # "TELEGRAM", NEW y \in told, y.what = "message"
        PROVE  y.post # x.post
    <3>1. y.post # None /\ Reportable(y)
      BY <2>2 DEF NoticesInv, Reportable
    <3>2. PICK q \in posts : PostOf(q) = y.post
      BY <3>1 DEF Reportable
    <3>3. q.n <= Cardinality(posts) /\ q.n \in Nat /\ y.post.n = q.n
      BY <2>2, <3>2 DEF PostsInv, PostOf
    <3>4. x.post.n = Cardinality(posts) + 1 /\ Cardinality(posts) \in Nat
      BY <1>3, <2>2, NextNumber, FS_CardinalityType DEF contactPosts, PostsInv
    <3> QED
      BY <3>3, <3>4
  <2> QED
    BY <1>1, <1>3, <1>6, <2>1, <2>2, ToldMore
<1> QED
  BY <1>5, <1>6

LEMMA ActTold ==
  ASSUME PostsInv, NoticesInv, Grows, NEW q \in posts,
         NEW what \in {"edit", "press", "vote", "reaction", "status"}, contactActs(q, what)
  PROVE  NoticesInv'
<1>1. /\ Cardinality(told) < MaxNotices /\ what \in Reports(q.ours)
      /\ UNCHANGED <<posts, answered, log>>
  BY DEF contactActs, PlatformLeaves
<1>2. PICK s \in IF what = "status" THEN StatusKinds ELSE {None} :
           Tell(Notice(what, PostOf(q), s))
  BY DEF contactActs
<1>3. PostOf(q) \in PostIds /\ q.ours \in BOOLEAN
  BY DEF PostsInv, PostOf, PostIds
<1>4. s \in MessageStatuses \union {None} /\ (what = "status" => s \in MessageStatuses)
  BY <1>2 DEF StatusKinds, MessageStatuses
<1>5. PICK x \in Notices :
        /\ x = Notice(what, PostOf(q), s) /\ x.n = Cardinality(told) + 1
        /\ x.what = what /\ x.post = PostOf(q) /\ x.status = s
  BY <1>1, <1>3, <1>4, NoticeType
<1>6. Tell(x)
  BY <1>2, <1>5
<1>7. /\ what = "status" => q.ours /\ provider \in Twilio \union Pages
      /\ SharesKey => what = "status"
      /\ what = "reaction" => provider = "SLACK"
  BY <1>1 DEF Reports, SharesKey, Twilio, Pages
<1>8. Reportable(x)'
  <2>1. Reportable(x)
    BY <1>3, <1>4, <1>5, <1>7, NoneAssumption DEF Reportable
  <2> QED
    BY <2>1, ReportableStays
<1> QED
  BY <1>1, <1>5, <1>6, <1>8, ToldMore

LEMMA CommandTold ==
  ASSUME PostsInv, NoticesInv, Grows, commands
  PROVE  NoticesInv'
<1>1. Cardinality(told) < MaxNotices /\ UNCHANGED <<answered, log>>
  BY DEF commands, PlatformLeaves
<1>2. PICK what \in {"command", "call"} :
        /\ Tell(Notice(what, None, None))
        /\ what = "command" => provider \in {"SLACK", "DISCORD"}
        /\ what = "call" => provider = "TWILIO_SMS"
  BY DEF commands
<1>3. PICK x \in Notices :
        /\ x = Notice(what, None, None) /\ x.n = Cardinality(told) + 1
        /\ x.what = what /\ x.post = None
  BY <1>1, NoticeType
<1>4. Tell(x)
  BY <1>2, <1>3
<1>5. Reportable(x)'
  <2>1. SharesKey => what = "call"
    BY <1>2 DEF SharesKey, Twilio, Pages
  <2>2. Reportable(x)
    BY <1>2, <1>3, <2>1 DEF Reportable
  <2> QED
    BY <2>2, ReportableStays
<1> QED
  BY <1>1, <1>3, <1>4, <1>5, ToldMore

LEMMA HandlingTold ==
  ASSUME NoticesInv, HandlersInv, Grows, NEW h \in Handlers, Handling(h)
  PROVE  NoticesInv'
<1>1. UNCHANGED told
  BY HandlingFrame DEF HandlerLeaves
<1>2. CASE finish(h)
  <2>1. Item(h) \in told
    BY <1>2, ServedId DEF finish
  <2>2. /\ log' \subseteq log \union {Item(h)} /\ pending' \subseteq pending
        /\ answered' \subseteq answered \union {Item(h)}
        /\ Item(h) \in answered' => Item(h) \in answered \/ Item(h) \notin pending'
    BY <1>2 DEF finish
  <2> QED
    BY <1>1, <2>1, <2>2, ToldSame DEF NoticesInv
<1>3. CASE handlerRejects(h)
  BY <1>1, <1>3, ToldSame DEF handlerRejects, NoticesInv
<1>4. CASE ~finish(h) /\ ~handlerRejects(h)
  <2>1. ASSUME findOwner(h) PROVE UNCHANGED <<pending, answered, log>>
    BY <2>1 DEF findOwner, handleUpdate, handleInteraction, handleEvent, handleMeta,
                handleInboundMessage, handleMessageStatus, handleVoiceStatus, Finds
  <2>2. UNCHANGED <<pending, answered, log>>
    BY <1>4, <2>1 DEF Handling, persistInbound, upsertMessage, upsertMapping, dispatchEvent,
                      findMapping, applyStatus
  <2> QED
    BY <1>1, <2>2, ToldSame DEF NoticesInv
<1> QED
  BY <1>2, <1>3, <1>4

LEMMA NoticesNext ==
  ASSUME PostsInv, NoticesInv, HandlersInv, Grows, [ChannelNext]_channelVars
  PROVE  NoticesInv'
<1>1. CASE UNCHANGED <<told, pending, answered, log>>
  BY <1>1, ToldSame DEF NoticesInv
<1>2. CASE ContactStep
  BY <1>2, PostTold, ActTold, CommandTold DEF ContactStep
<1>3. ASSUME NEW m \in Outbound, SendStep(m) PROVE NoticesInv'
  BY <1>1, <1>3, SendFrame DEF SendLeaves
<1>4. ASSUME NEW r \in Rows, ActStep(r) PROVE NoticesInv'
  BY <1>1, <1>4, ActFrame DEF ActLeaves
<1>5. CASE HandlerStep
  BY <1>1, <1>5, HandlingTold DEF HandlerStep, deliver, replay, requireCredentialId,
                                  HandlerLeaves
<1> QED
  BY <1>1, <1>2, <1>3, <1>4, <1>5, NextByActor DEF channelVars

-----------------------------------------------------------------------------
(* What the mappers answer *)

LEMMA AnswersAreCalls ==
  /\ \A b \in BOOLEAN : Refused(b) \in Calls /\ Request(b) \in Calls
  /\ UNEXPECTED_ERROR \in Calls /\ ProviderValidationError \in Calls
  /\ ProviderUnsupportedOperationError \in Calls
  /\ \A f, r : r \in Calls => WithContent(f, r) \in Calls
  /\ \A n, low, high, r : r \in Calls => Within(n, low, high, r) \in Calls
  BY DEF Calls, Refused, Request, UNEXPECTED_ERROR, ProviderValidationError,
         ProviderUnsupportedOperationError, WithContent, Within

\* Every mapper makes a request of any form, or an error.
LEMMA MapperAnswers ==
  ASSUME NEW p \in Providers, NEW f
  PROVE  Mapped(p, f) \in Calls
<1>1. toGraphPayload(f) \in Calls
  <2>1. /\ mapMedia(f) \in Calls /\ mapLocation(f) \in Calls /\ mapContacts(f) \in Calls
        /\ mapFlow(f) \in Calls /\ mapReaction(f) \in Calls /\ mapTemplate(f) \in Calls
    BY AnswersAreCalls DEF mapMedia, mediaPayload, mapLocation, mapContacts, mapFlow, mapReaction,
                   mapTemplate, mapTemplateParameter
  <2>2. mapInteractiveButtons(f) \in Calls /\ mapInteractiveList(f) \in Calls
    BY AnswersAreCalls DEF mapInteractiveButtons, mapInteractiveList, buildInteractiveHeader
  <2> QED
    BY <2>1, <2>2, AnswersAreCalls DEF toGraphPayload
<1>2. toSendCall(f) \in Calls
  <2>1. /\ sendMedia(f) \in Calls /\ mapContact(f) \in Calls /\ mapPoll(f) \in Calls
        /\ mapInteractiveAsText(f) \in Calls
    BY AnswersAreCalls DEF sendMedia, requireMediaSource, mapContact, mapPoll, mapInteractiveAsText,
                   buildReplyMarkup
  <2> QED
    BY <2>1, AnswersAreCalls DEF toSendCall
<1>3. toCreateMessagePayload(f) \in Calls
  <2>1. /\ requireUrl(f) \in Calls /\ discordButtons(f) \in Calls /\ discordList(f) \in Calls
        /\ discordCards(f) \in Calls
    BY AnswersAreCalls DEF requireUrl, discordButtons, discordList, discordCards
  <2> QED
    BY <2>1, AnswersAreCalls DEF toCreateMessagePayload
<1>4. toPostMessageParams(f) \in Calls
  <2>1. /\ formatMediaLink(f) \in Calls /\ buildButtons(f) \in Calls /\ buildList(f) \in Calls
        /\ buildCards(f) \in Calls
    BY AnswersAreCalls DEF formatMediaLink, buildButtons, buildList, buildCards
  <2> QED
    BY <2>1, AnswersAreCalls DEF toPostMessageParams
<1>5. toCreateMessageOptions(f) \in Calls
  BY AnswersAreCalls DEF toCreateMessageOptions
<1>6. toClientInput(f) \in Calls /\ messengerInput(f) \in Calls
  <2>1. mapAttachment(f) \in Calls /\ mapQuickReplies(f) \in Calls
    BY AnswersAreCalls DEF mapAttachment, mapQuickReplies
  <2> QED
    BY <2>1, AnswersAreCalls DEF toClientInput, messengerInput
<1> QED
  BY <1>1, <1>2, <1>3, <1>4, <1>5, <1>6 DEF Mapped, Providers, Pages

LEMMA RetryableType ==
  ASSUME NEW p, NEW status, NEW code
  PROVE  Retryable(p, status, code) \in BOOLEAN
<1>1. slackRetryable(status, code) \in BOOLEAN
  <2>1. /\ (code \in RateLimited) \in BOOLEAN
        /\ (status = 429 \/ status >= 500) \in BOOLEAN
    OBVIOUS
  <2> QED
    BY <2>1, Zenon DEF slackRetryable
<1>2. discordRetryable(status) \in BOOLEAN /\ telegramRetryable(status, code) \in BOOLEAN
  BY DEF discordRetryable, telegramRetryable
<1>3. twilioRetryable(status, code) \in BOOLEAN /\ metaRetryable(status, code) \in BOOLEAN
  BY DEF twilioRetryable, metaRetryable
<1>4. (p \notin Twilio) \in BOOLEAN
  OBVIOUS
<1> QED
  BY <1>1, <1>2, <1>3, <1>4, Zenon DEF Retryable

-----------------------------------------------------------------------------
(* Rows as a client sees them *)

\* A row's id is that of the message it stands for, which is in the row's chat, if it is
\* the id of a message.
LEMMA RowLeads ==
  ASSUME NoticesInv, SendsInv, RowsInv, NEW r \in Rows
  PROVE  /\ ExternalId(r) \in Ids /\ Leads(ExternalId(r), PostOfRow(r))
         /\ PostOfRow(r) \in PostIds \union {None} /\ ChatOfRow(r) \in Chats \union {None}
         /\ ExternalId(r).kind = "bare" => PostOfRow(r).chat = ChatOfRow(r)
         /\ ExternalId(r).kind \in {"bare", "full"} =>
              \E q \in posts : PostOf(q) = PostOfRow(r)
<1>1. CASE r \in Outbound
  <2>1. r \in Sent
    BY <1>1, IdsAssumption DEF Rows, RowsInv
  <2>2. /\ sends[r].at = "sent" /\ outRows[r].ext = externalMessageId(sends[r].post)
        /\ sends[r].post \in PostIds /\ sends[r].post.chat = sends[r].chat
        /\ sends[r].chat \in Chats
        /\ [chat |-> sends[r].chat, n |-> sends[r].post.n, ours |-> TRUE] \in posts
    BY <1>1, <2>1 DEF Sent, SendsInv, Sound
  <2>3. /\ ExternalId(r) = externalMessageId(sends[r].post) /\ PostOfRow(r) = sends[r].post
        /\ ChatOfRow(r) = sends[r].chat
    BY <1>1, <2>2 DEF ExternalId, PostOfRow, ChatOfRow
  <2>4. PostOf([chat |-> sends[r].chat, n |-> sends[r].post.n, ours |-> TRUE]) = sends[r].post
    BY <2>2 DEF PostOf, PostIds
  <2> QED
    BY <2>2, <2>3, <2>4, SentId
<1>2. CASE r \notin Outbound
  <2> DEFINE y == inRows[r].content
  <2>1. /\ r \in DOMAIN inRows /\ r \in Ids /\ y \in told /\ y.what # "call"
        /\ providerMessageId(y) = r
        /\ inRows[r].chat = IF y.post = None THEN None ELSE y.post.chat
    BY <1>2 DEF Rows, Sent, RowsInv
  <2>2. ExternalId(r) = r /\ PostOfRow(r) = y.post /\ ChatOfRow(r) = inRows[r].chat
    BY <1>2 DEF ExternalId, PostOfRow, ChatOfRow
  <2>3. y \in Notices /\ Reportable(y)
    BY <2>1 DEF NoticesInv
  <2> HIDE DEF y
  <2>4. Leads(r, y.post) /\ y.post \in PostIds \union {None}
    BY <2>1, <2>3, ReportId DEF Notices
  <2>5. y.post \in PostIds => y.post.chat \in Chats /\ y.post # None
    BY NoneAssumption DEF PostIds
  <2> QED
    BY <2>1, <2>2, <2>3, <2>4, <2>5 DEF Leads, Reportable
<1> QED
  BY <1>1, <1>2

-----------------------------------------------------------------------------
(* send() *)

LEMMA SoundStays ==
  ASSUME Grows, NEW w, Sound(w)
  PROVE  Sound(w)'
  BY DEF Grows, Sound, Leads

\* A send() moves, and the other rows are left.
LEMMA SendMoves ==
  ASSUME SendsInv, Grows, NEW m \in Outbound, NEW w \in Sends, Sound(w)',
         sends' = [sends EXCEPT ![m] = w], outRows' \in [Outbound -> OutRows],
         \A o \in Outbound \ {m} : outRows'[o] = outRows[o],
         outRows'[m].ext # None => w.at = "sent" /\ outRows'[m].ext = externalMessageId(w.post)
  PROVE  SendsInv'
<1>1. sends' \in [Outbound -> Sends] /\ sends'[m] = w
  BY DEF SendsInv
<1>2. \A o \in Outbound \ {m} : sends'[o] = sends[o]
  BY DEF SendsInv
<1>3. \A q : externalMessageId(q)' = externalMessageId(q)
  BY DEF externalMessageId, Grows
<1>4. ASSUME NEW o \in Outbound
      PROVE  /\ Sound(sends[o])'
             /\ outRows'[o].ext # None =>
                  sends'[o].at = "sent" /\ outRows'[o].ext = externalMessageId(sends[o].post)'
  <2>1. PICK v \in Sends : v = sends'[o]
    BY <1>1
  <2>2. Sound(v)'
    <3>1. CASE o = m
      BY <1>1, <2>1, <3>1
    <3>2. CASE o # m
      BY <1>2, <2>1, <3>2, SoundStays DEF SendsInv
    <3> QED
      BY <3>1, <3>2
  <2>3. outRows'[o].ext # None => v.at = "sent" /\ outRows'[o].ext = externalMessageId(v.post)
    BY <1>1, <1>2, <2>1 DEF SendsInv
  <2> QED
    BY <1>3, <2>1, <2>2, <2>3
<1> QED
  BY <1>1, <1>4 DEF SendsInv

LEMMA SendBegins ==
  ASSUME provider \in Channels, NoticesInv, SendsInv, RowsInv, Grows,
         NEW m \in Outbound, NEW f \in SentForms, send(m, f)
  PROVE  SendsInv'
<1>1. PICK call \in Calls : call = Mapped(provider, f)
  BY MapperAnswers, ChannelsAssumption
<1>2. /\ outRows' = [outRows EXCEPT ![m].status = "PROCESSING"]
      /\ outRows' \in [Outbound -> OutRows] /\ outRows'[m].ext = None
      /\ \A o \in Outbound \ {m} : outRows'[o] = outRows[o]
  BY DEF send, SendsInv, OutRows
<1>3. sends[m] \in Sends /\ sends[m].at = "idle" /\ Sound(sends[m])
  BY DEF send, SendsInv
<1>4. ASSUME NEW c \in Chats,
             sends' = [sends EXCEPT ![m] = [@ EXCEPT !.at = "preparing", !.chat = c,
                                                     !.call = Mapped(provider, f)]]
      PROVE  SendsInv'
  <2>1. PICK w \in Sends :
          w = [sends[m] EXCEPT !.at = "preparing", !.chat = c, !.call = call]
    BY <1>1, <1>3 DEF Sends
  <2>2. Sound(w)'
    <3>1. w.at = "preparing" /\ w.chat = c /\ w.ref = None
      BY <1>3, <2>1 DEF Sends, Sound
    <3> QED
      BY <3>1 DEF Sound
  <2>3. sends' = [sends EXCEPT ![m] = w]
    BY <1>1, <1>4, <2>1
  <2> QED
    BY <1>2, <2>2, <2>3, SendMoves
<1>5. ASSUME NEW r \in Rows, ChatOfRow(r) # None,
             sends' = [sends EXCEPT ![m] =
               [at |-> "preparing", chat |-> ChatOfRow(r), ref |-> ExternalId(r),
                named |-> PostOfRow(r), call |-> Mapped(provider, f), post |-> None]]
      PROVE  SendsInv'
  <2>1. PICK w \in Sends :
          w = [at |-> "preparing", chat |-> ChatOfRow(r), ref |-> ExternalId(r),
               named |-> PostOfRow(r), call |-> call, post |-> None]
    BY <1>1, RowLeads DEF Sends
  <2>2. /\ w.at = "preparing" /\ w.chat \in Chats /\ Leads(w.ref, w.named)
        /\ w.ref.kind = "bare" => w.named.chat = w.chat
    BY <1>5, <2>1, RowLeads
  <2>3. Sound(w)
    BY <2>2 DEF Sound
  <2>4. sends' = [sends EXCEPT ![m] = w]
    BY <1>1, <1>5, <2>1
  <2> QED
    BY <1>2, <2>1, <2>2, <2>3, <2>4, SoundStays, SendMoves
<1> QED
  BY <1>4, <1>5 DEF send

\* A step of a send() to another place, which is not one where a message is accepted.
LEMMA SendGoesOn ==
  ASSUME SendsInv, Grows, NEW m \in Outbound, NEW call \in Calls,
         NEW to \in {"threw", "refused", "posting", "failed", "rejected"},
         sends[m].at \notin {"idle", "sent"}, outRows' \in [Outbound -> OutRows],
         sends' = [sends EXCEPT ![m] = [@ EXCEPT !.at = to, !.call = call]],
         \A o \in Outbound \ {m} : outRows'[o] = outRows[o], outRows'[m].ext = outRows[m].ext
  PROVE  SendsInv'
<1>1. sends[m] \in Sends /\ Sound(sends[m]) /\ outRows[m].ext = None
  BY DEF SendsInv
<1>2. PICK w \in Sends : w = [sends[m] EXCEPT !.at = to, !.call = call]
  BY <1>1 DEF Sends
<1>3. /\ w.at = to /\ w.chat = sends[m].chat /\ w.ref = sends[m].ref
      /\ w.named = sends[m].named
  BY <1>1, <1>2 DEF Sends
<1>4. Sound(w)
  BY <1>1, <1>3 DEF Sound
<1>5. sends' = [sends EXCEPT ![m] = w]
  BY <1>2
<1> QED
  BY <1>1, <1>4, <1>5, SoundStays, SendMoves

LEMMA SendEnds ==
  ASSUME SendsInv, Grows, NEW m \in Outbound,
         prepare(m) \/ prepareThrows(m) \/ refuse(m) \/ persistFailure(m) \/ persistThrows(m)
  PROVE  SendsInv'
<1>1. sends[m] \in Sends /\ sends[m].call \in Calls /\ outRows \in [Outbound -> OutRows]
  BY DEF SendsInv, Sends
<1>2. \A to, call : call = sends[m].call =>
        [sends EXCEPT ![m].at = to] = [sends EXCEPT ![m] = [@ EXCEPT !.at = to, !.call = call]]
  BY <1>1 DEF SendsInv, Sends
<1>3. CASE prepare(m) \/ prepareThrows(m) \/ persistThrows(m)
  <2>1. PICK to \in {"posting", "refused", "threw"} :
          sends' = [sends EXCEPT ![m].at = to] /\ UNCHANGED outRows
    BY <1>3 DEF prepare, prepareThrows, persistThrows, SendGoes
  <2>2. sends[m].at \notin {"idle", "sent"}
    BY <1>3 DEF prepare, prepareThrows, persistThrows, SendGoes
  <2>3. sends' = [sends EXCEPT ![m] = [@ EXCEPT !.at = to, !.call = sends[m].call]]
    BY <1>2, <2>1
  <2> QED
    BY <1>1, <2>1, <2>2, <2>3, SendGoesOn
<1>4. CASE persistFailure(m)
  <2>1. PICK to \in {"failed", "rejected"} : sends' = [sends EXCEPT ![m].at = to]
    BY <1>4 DEF persistFailure, SendGoes
  <2>2. /\ sends[m].at \notin {"idle", "sent"} /\ outRows' \in [Outbound -> OutRows]
        /\ \A o \in Outbound \ {m} : outRows'[o] = outRows[o]
        /\ outRows'[m].ext = outRows[m].ext
    BY <1>1, <1>4 DEF persistFailure, SendGoes, OutRows, MessageStatuses
  <2>3. sends' = [sends EXCEPT ![m] = [@ EXCEPT !.at = to, !.call = sends[m].call]]
    BY <1>2, <2>1
  <2> QED
    BY <1>1, <2>1, <2>2, <2>3, SendGoesOn
<1>5. CASE refuse(m)
  <2>1. /\ sends[m].at = "posting" /\ UNCHANGED outRows
        /\ \E b \in BOOLEAN : sends' =
             [sends EXCEPT ![m].at = "refused", ![m].call.retryable = b]
    BY <1>5, RetryableType DEF refuse
  <2>2. PICK b \in BOOLEAN : sends' =
          [sends EXCEPT ![m].at = "refused", ![m].call.retryable = b]
    BY <2>1
  <2>3. PICK call \in Calls : call = [sends[m].call EXCEPT !.retryable = b]
    BY <1>1 DEF Calls
  <2>4. sends' = [sends EXCEPT ![m] = [@ EXCEPT !.at = "refused", !.call = call]]
    BY <1>1, <2>2, <2>3 DEF SendsInv, Sends
  <2> QED
    BY <1>1, <2>1, <2>4, SendGoesOn
<1> QED
  BY <1>3, <1>4, <1>5

LEMMA SendAccepted ==
  ASSUME PostsInv, SendsInv, Grows, NEW m \in Outbound, accept(m)
  PROVE  SendsInv'
<1>1. /\ sends[m] \in Sends /\ Sound(sends[m]) /\ sends[m].at = "posting"
      /\ outRows[m].ext = None /\ sends[m].chat \in Chats
  BY DEF accept, SendsInv, Sound
<1>2. PICK p \in PostIds : p = NextPost(sends[m].chat) /\ p.chat = sends[m].chat
  BY <1>1, NextNumber DEF accept
<1>3. /\ posts' = posts \union {[chat |-> p.chat, n |-> p.n, ours |-> TRUE]}
      /\ sends' = [sends EXCEPT ![m].at = "accepted", ![m].post = p]
      /\ UNCHANGED outRows
  BY <1>2 DEF accept
<1>4. PICK w \in Sends : w = [sends[m] EXCEPT !.at = "accepted", !.post = p]
  BY <1>1 DEF Sends
<1>5. /\ w.at = "accepted" /\ w.chat = sends[m].chat /\ w.ref = sends[m].ref
      /\ w.named = sends[m].named /\ w.post = p
  BY <1>1, <1>4 DEF Sends
<1>6. Sound(w)'
  BY <1>1, <1>2, <1>3, <1>5 DEF Sound, Leads
<1>7. sends' = [sends EXCEPT ![m] = w]
  BY <1>3, <1>4 DEF SendsInv, Sends
<1> QED
  BY <1>1, <1>3, <1>6, <1>7, SendMoves DEF SendsInv

LEMMA SendSettles ==
  ASSUME SendsInv, Grows, NEW m \in Outbound, persistSuccess(m)
  PROVE  SendsInv'
<1> DEFINE id == externalMessageId(sends[m].post)
<1>1. /\ sends[m] \in Sends /\ Sound(sends[m]) /\ sends[m].at = "accepted"
      /\ outRows[m].ext = None /\ outRows \in [Outbound -> OutRows]
      /\ sends[m].post \in PostIds
  BY DEF persistSuccess, SendGoes, SendsInv, Sound
<1>2. CASE Taken(m, id)
  <2>1. sends' = [sends EXCEPT ![m].at = "threw"] /\ UNCHANGED outRows
    BY <1>2 DEF persistSuccess, SendGoes
  <2>2. sends' = [sends EXCEPT ![m] = [@ EXCEPT !.at = "threw", !.call = sends[m].call]]
    BY <1>1, <2>1 DEF SendsInv, Sends
  <2> QED
    BY <1>1, <2>1, <2>2, SendGoesOn DEF Sends
<1>3. CASE ~Taken(m, id)
  <2>1. /\ sends' = [sends EXCEPT ![m].at = "sent"]
        /\ outRows' = [outRows EXCEPT ![m] = [status |-> "SENT", ext |-> id]]
    BY <1>3 DEF persistSuccess, SendGoes
  <2>2. PICK w \in Sends : w = [sends[m] EXCEPT !.at = "sent"]
    BY <1>1 DEF Sends
  <2>3. /\ w.at = "sent" /\ w.chat = sends[m].chat /\ w.ref = sends[m].ref
        /\ w.named = sends[m].named /\ w.post = sends[m].post
    BY <1>1, <2>2 DEF Sends
  <2>4. Sound(w)
    BY <1>1, <2>3 DEF Sound
  <2>5. sends' = [sends EXCEPT ![m] = w]
    BY <2>1, <2>2
  <2>6. id \in Ids
    BY <1>1, SentId
  <2>7. /\ outRows' \in [Outbound -> OutRows] /\ outRows'[m].ext = id
        /\ \A o \in Outbound \ {m} : outRows'[o] = outRows[o]
    BY <1>1, <2>1, <2>6 DEF OutRows, MessageStatuses
  <2> QED
    BY <2>3, <2>4, <2>5, <2>7, SoundStays, SendMoves
<1> QED
  BY <1>2, <1>3

LEMMA SendsKept ==
  ASSUME SendsInv, Grows, UNCHANGED sends, outRows' \in [Outbound -> OutRows],
         \A o \in Outbound : outRows'[o].ext = outRows[o].ext
  PROVE  SendsInv'
<1>1. \A q : externalMessageId(q)' = externalMessageId(q)
  BY DEF externalMessageId, Grows
<1>2. ASSUME NEW o \in Outbound
      PROVE  /\ Sound(sends[o])'
             /\ outRows'[o].ext # None =>
                  sends'[o].at = "sent" /\ outRows'[o].ext = externalMessageId(sends[o].post)'
  <2>1. PICK v \in Sends : v = sends[o]
    BY DEF SendsInv
  <2>2. Sound(v)'
    BY <2>1, SoundStays DEF SendsInv
  <2> QED
    BY <1>1, <2>1, <2>2 DEF SendsInv
<1> QED
  BY <1>2 DEF SendsInv

LEMMA SendsNext ==
  ASSUME provider \in Channels, PostsInv, NoticesInv, SendsInv, RowsInv, HandlersInv, Grows,
         [ChannelNext]_channelVars
  PROVE  SendsInv'
<1>1. CASE UNCHANGED <<sends, outRows>>
  BY <1>1, SendsKept DEF SendsInv
<1>2. ASSUME NEW m \in Outbound, SendStep(m) PROVE SendsInv'
  BY <1>2, SendBegins, SendEnds, SendAccepted, SendSettles DEF SendStep, Sending
<1>3. ASSUME NEW h \in Handlers, applyStatus(h) PROVE SendsInv'
  <2>1. Item(h).status \in MessageStatuses
    <3>1. Item(h).what = "status"
      BY <1>3 DEF applyStatus, HandlerGoes, HandlersInv, Served, AsStatus, Item
    <3> QED
      BY <1>3, <3>1, ServedId DEF applyStatus, HandlerGoes, Reportable
  <2>2. /\ UNCHANGED sends /\ outRows' \in [Outbound -> OutRows]
        /\ \A o \in Outbound : outRows'[o].ext = outRows[o].ext
    BY <1>3, <2>1 DEF applyStatus, HandlerLeaves, SendsInv, OutRows
  <2> QED
    BY <2>2, SendsKept
<1>4. ASSUME NEW h \in Handlers, Handling(h), ~applyStatus(h)
      PROVE  UNCHANGED <<sends, outRows>>
  <2>1. ASSUME findOwner(h) PROVE UNCHANGED <<sends, outRows>>
    BY <2>1 DEF findOwner, handleUpdate, handleInteraction, handleEvent, handleMeta, Finds,
                handleInboundMessage, handleMessageStatus, handleVoiceStatus, HandlerLeaves
  <2> QED
    BY <1>4, <2>1 DEF Handling, persistInbound, upsertMessage, upsertMapping, dispatchEvent,
                      findMapping, finish, handlerRejects, HandlerLeaves
<1>5. CASE HandlerStep
  BY <1>1, <1>3, <1>4, <1>5 DEF HandlerStep, deliver, replay, requireCredentialId,
                                HandlerLeaves
<1>6. CASE ContactStep
  BY <1>1, <1>6, ContactFrame DEF PlatformLeaves
<1>7. ASSUME NEW r \in Rows, ActStep(r) PROVE UNCHANGED <<sends, outRows>>
  BY <1>7, ActFrame DEF ActLeaves
<1> QED
  BY <1>1, <1>2, <1>5, <1>6, <1>7, NextByActor DEF channelVars

-----------------------------------------------------------------------------
(* Rows of the contact's, and mappings *)

LEMMA IdsStay ==
  ASSUME Grows, NEW x
  PROVE  providerMessageId(x)' = providerMessageId(x)
  BY DEF Grows, providerMessageId, telegramId, slackId, discordId

LEMMA RowsKept ==
  ASSUME RowsInv, Grows, UNCHANGED inRows
  PROVE  RowsInv'
<1> DEFINE Row(i) == LET y == inRows[i].content IN
             /\ y \in told /\ y.what # "call" /\ providerMessageId(y) = i
             /\ inRows[i].chat = IF y.post = None THEN None ELSE y.post.chat
<1>1. ASSUME NEW i \in DOMAIN inRows'
      PROVE  Row(i)'
  <2>1. Row(i)
    BY <1>1 DEF RowsInv
  <2>2. PICK y \in told : y = inRows[i].content
    BY <2>1
  <2> QED
    BY <2>1, <2>2, IdsStay DEF Grows
<1> QED
  BY <1>1 DEF RowsInv

LEMMA RowsNext ==
  ASSUME NoticesInv, RowsInv, HandlersInv, Grows, [ChannelNext]_channelVars
  PROVE  RowsInv'
<1>1. ASSUME NEW h \in Handlers, upsertMessage(h) PROVE RowsInv'
  <2>1. /\ Item(h) \in told /\ Item(h).what # "call"
    <3>1. handlers[h].at = "upsert"
      BY <1>1 DEF upsertMessage
    <3> QED
      BY <3>1 DEF HandlersInv, Served, Item
  <2>2. PICK x \in told : x = Item(h)
    BY <2>1
  <2> DEFINE Row(i) == LET y == inRows[i].content IN
               /\ y \in told /\ y.what # "call" /\ providerMessageId(y) = i
               /\ inRows[i].chat = IF y.post = None THEN None ELSE y.post.chat
  <2>3. ASSUME NEW i \in DOMAIN inRows'
        PROVE  i \in Ids /\ Row(i)'
    <3>1. CASE i \in DOMAIN inRows
      <4>1. Row(i) /\ i \in Ids /\ inRows'[i] = inRows[i]
        BY <1>1, <3>1, UpsertAdds DEF RowsInv
      <4>2. PICK y \in told : y = inRows[i].content
        BY <4>1
      <4> QED
        BY <4>1, <4>2, IdsStay DEF Grows
    <3>2. CASE i \notin DOMAIN inRows
      <4>1. /\ i = providerMessageId(x) /\ i \in Ids
            /\ inRows'[i] = [chat |-> IF x.post = None THEN None ELSE x.post.chat,
                             content |-> x]
        BY <1>1, <2>2, <2>3, <3>2, UpsertAdds
      <4> QED
        BY <2>1, <2>2, <4>1, IdsStay DEF Grows
    <3> QED
      BY <3>1, <3>2
  <2> QED
    BY <2>3 DEF RowsInv
<1>2. ASSUME NEW h \in Handlers, Handling(h), ~upsertMessage(h)
      PROVE  UNCHANGED inRows
  <2>1. ASSUME findOwner(h) PROVE UNCHANGED inRows
    BY <2>1 DEF findOwner, handleUpdate, handleInteraction, handleEvent, handleMeta, Finds,
                handleInboundMessage, handleMessageStatus, handleVoiceStatus
  <2> QED
    BY <1>2, <2>1 DEF Handling, persistInbound, upsertMapping, dispatchEvent, findMapping,
                      applyStatus, finish, handlerRejects
<1>3. CASE HandlerStep
  BY <1>1, <1>2, <1>3, RowsKept DEF HandlerStep, deliver, replay, requireCredentialId
<1>4. CASE ContactStep \/ (\E m \in Outbound : SendStep(m)) \/ (\E r \in Rows : ActStep(r))
  BY <1>4, ContactFrame, SendFrame, ActFrame, RowsKept
  DEF PlatformLeaves, SendLeaves, ActLeaves
<1> QED
  BY <1>3, <1>4, NextByActor, RowsKept DEF channelVars

LEMMA MappingKept ==
  ASSUME MappingInv, Grows, UNCHANGED mapping
  PROVE  MappingInv'
  BY DEF MappingInv, Grows

LEMMA MappingPut ==
  ASSUME MappingInv, Grows, NEW id \in Ids, NEW r \in Outbound \union DOMAIN inRows,
         mapping' = Put(mapping, id, r)
  PROVE  MappingInv'
  BY DEF MappingInv, Grows, Put

LEMMA MappingNext ==
  ASSUME NoticesInv, SendsInv, MappingInv, HandlersInv, Grows, [ChannelNext]_channelVars
  PROVE  MappingInv'
<1>1. ASSUME NEW m \in Outbound, persistSuccess(m) PROVE MappingInv'
  <2>1. sends[m].post \in PostIds
    BY <1>1 DEF persistSuccess, SendGoes, SendsInv, Sound
  <2>2. externalMessageId(sends[m].post) \in Ids
    BY <2>1, SentId
  <2>3. mapping' = mapping \/ mapping' = Put(mapping, externalMessageId(sends[m].post), m)
    BY <1>1 DEF persistSuccess
  <2> QED
    BY <2>2, <2>3, MappingKept, MappingPut
<1>2. ASSUME NEW h \in Handlers, upsertMapping(h) PROVE MappingInv'
  <2>1. handlers[h].at = "map" /\ handlers[h].row \in Outbound \union DOMAIN inRows
    BY <1>2 DEF upsertMapping, HandlerGoes, HandlersInv, Served
  <2>2. Item(h).what # "call"
    BY <2>1 DEF HandlersInv, Served, Item
  <2>3. providerMessageId(Item(h)) \in Ids
    BY <2>1, <2>2, ServedId
  <2>4. mapping' = Put(mapping, providerMessageId(Item(h)), handlers[h].row)
    BY <1>2 DEF upsertMapping
  <2> QED
    BY <2>1, <2>3, <2>4, MappingPut
<1>3. ASSUME NEW m \in Outbound, SendStep(m), ~persistSuccess(m) PROVE UNCHANGED mapping
  BY <1>3 DEF SendStep, Sending, send, prepare, prepareThrows, accept, refuse,
              persistFailure, persistThrows
<1>4. ASSUME NEW h \in Handlers, Handling(h), ~upsertMapping(h)
      PROVE  UNCHANGED mapping
  <2>1. ASSUME findOwner(h) PROVE UNCHANGED mapping
    BY <2>1 DEF findOwner, handleUpdate, handleInteraction, handleEvent, handleMeta, Finds,
                handleInboundMessage, handleMessageStatus, handleVoiceStatus
  <2> QED
    BY <1>4, <2>1 DEF Handling, persistInbound, upsertMessage, dispatchEvent, findMapping,
                      applyStatus, finish, handlerRejects
<1>5. CASE HandlerStep
  BY <1>2, <1>4, <1>5, MappingKept DEF HandlerStep, deliver, replay, requireCredentialId
<1>6. CASE ContactStep \/ (\E r \in Rows : ActStep(r))
  BY <1>6, ContactFrame, ActFrame, MappingKept DEF PlatformLeaves, ActLeaves
<1> QED
  BY <1>1, <1>3, <1>5, <1>6, NextByActor, MappingKept DEF channelVars

-----------------------------------------------------------------------------
(* What the platform acts on *)

\* Among the messages of a chat only one has a number; elsewhere than on Telegram among
\* all of them.
LEMMA InChatIs ==
  ASSUME PostsInv, NEW c, NEW q \in PostIds, NEW p \in InChat(c, q.n),
         \/ c = q.chat
         \/ /\ provider # "TELEGRAM"
            /\ \E r \in posts : PostOf(r) = q
  PROVE  p = q
<1>1. PICK r \in posts : r.chat = c /\ r.n = q.n /\ p = [chat |-> c, n |-> q.n]
  BY DEF InChat, PostOf
<1>2. CASE c = q.chat
  BY <1>1, <1>2 DEF PostIds
<1>3. CASE provider # "TELEGRAM" /\ \E s \in posts : PostOf(s) = q
  <2>1. PICK s \in posts : PostOf(s) = q
    BY <1>3
  <2>2. s.n = r.n /\ s.chat = q.chat
    BY <1>1, <2>1 DEF PostOf
  <2>3. s = r
    BY <1>3, <2>2 DEF PostsInv
  <2> QED
    BY <1>1, <2>1, <2>2, <2>3 DEF PostIds
<1> QED
  BY <1>2, <1>3

LEMMA HitsNext ==
  ASSUME PostsInv, NoticesInv, SendsInv, RowsInv, ActionsHitTheNamed, [ChannelNext]_channelVars
  PROVE  ActionsHitTheNamed'
<1>1. CASE UNCHANGED hits
  BY <1>1 DEF ActionsHitTheNamed
<1>2. ASSUME NEW m \in Outbound, accept(m) PROVE ActionsHitTheNamed'
  <2>1. PICK q \in Referred(m) :
          hits' = IF q = None THEN hits ELSE hits \union {[meant |-> sends[m].named, hit |-> q]}
    BY <1>2 DEF accept
  <2>2. ASSUME q # None PROVE q = sends[m].named
    <3>1. /\ sends[m].ref # None /\ sends[m].ref.kind = "bare"
          /\ q \in InChat(sends[m].chat, sends[m].ref.n)
      BY <2>1, <2>2 DEF Referred
    <3>2. /\ sends[m].named \in PostIds /\ sends[m].named.n = sends[m].ref.n
          /\ sends[m].named.chat = sends[m].chat
      BY <3>1 DEF SendsInv, Sound, Leads
    <3> QED
      BY <3>1, <3>2, InChatIs
  <2> QED
    BY <2>1, <2>2 DEF ActionsHitTheNamed
<1>3. ASSUME NEW r \in Rows, addReaction(r) PROVE ActionsHitTheNamed'
  <2>1. PICK q \in splitId(ExternalId(r)) :
          hits' = hits \union {[meant |-> PostOfRow(r), hit |-> q]}
    BY <1>3 DEF addReaction
  <2>2. ExternalId(r).kind = "full" /\ q \in InChat(ExternalId(r).chat, ExternalId(r).n)
    BY <2>1 DEF splitId
  <2>3. /\ PostOfRow(r) \in PostIds /\ ExternalId(r).n = PostOfRow(r).n
        /\ ExternalId(r).chat = PostOfRow(r).chat
    BY <2>2, RowLeads DEF Leads
  <2>4. q = PostOfRow(r)
    BY <2>2, <2>3, InChatIs
  <2> QED
    BY <2>1, <2>4 DEF ActionsHitTheNamed
<1>4. ASSUME NEW r \in Rows, markAsRead(r) PROVE ActionsHitTheNamed'
  <2>1. PICK q \in UNION {InChat(c, ExternalId(r).n) : c \in Chats} :
          hits' = hits \union {[meant |-> PostOfRow(r), hit |-> q]}
    BY <1>4 DEF markAsRead
  <2>2. PICK c \in Chats : q \in InChat(c, ExternalId(r).n)
    BY <2>1
  <2>3. provider = "META_WHATSAPP_CLOUD"
    BY <1>4 DEF markAsRead
  <2>4. ExternalId(r).kind = "bare"
    <3>1. CASE r \in Outbound
      <4>1. sends[r].post \in PostIds /\ ExternalId(r) = externalMessageId(sends[r].post)
        BY <3>1, IdsAssumption DEF Rows, Sent, RowsInv, SendsInv, Sound, ExternalId
      <4> QED
        BY <2>3, <4>1, SentId DEF Bare
    <3>2. CASE r \notin Outbound
      <4>1. ExternalId(r) = providerMessageId(inRows[r].content)
        BY <3>2 DEF Rows, Sent, RowsInv, ExternalId
      <4> QED
        BY <2>3, <4>1 DEF providerMessageId, Bare
    <3> QED
      BY <3>1, <3>2
  <2>5. /\ PostOfRow(r) \in PostIds /\ ExternalId(r).n = PostOfRow(r).n
        /\ \E p \in posts : PostOf(p) = PostOfRow(r)
    BY <2>4, RowLeads DEF Leads
  <2>6. q = PostOfRow(r)
    BY <2>2, <2>3, <2>5, InChatIs
  <2> QED
    BY <2>1, <2>6 DEF ActionsHitTheNamed
<1>5. ASSUME NEW m \in Outbound, SendStep(m), ~accept(m) PROVE UNCHANGED hits
  BY <1>5 DEF SendStep, Sending, send, prepare, prepareThrows, refuse, persistFailure,
              persistSuccess, persistThrows
<1>6. CASE ContactStep \/ HandlerStep
  BY <1>1, <1>6, ContactFrame, HandlerFrame DEF PlatformLeaves, HandlerLeaves
<1> QED
  BY <1>1, <1>2, <1>3, <1>4, <1>5, <1>6, NextByActor DEF ActStep, channelVars

-----------------------------------------------------------------------------
(* Webhook requests *)

\* What has become of a report stays so.
LEMMA StoredStays ==
  ASSUME Grows, NEW x, providerMessageId(x) \in Ids, Stored(x)
  PROVE  Stored(x)'
<1>1. PICK id \in Ids : id = providerMessageId(x) /\ id = providerMessageId(x)'
  BY IdsStay
<1>2. SharesKey' = SharesKey
  BY DEF SharesKey, Grows
<1>3. CASE Holder(id)
  <2>1. \E m \in Outbound : outRows'[m].ext = id
    BY <1>3, NoneAssumption DEF Holder, Grows
  <2>2. RowFor(id)' \in Outbound
    BY <1>2, <1>3, <2>1 DEF Holder, RowFor
  <2> QED
    BY <1>1, <2>2 DEF Stored
<1>4. CASE ~Holder(id)
  <2>1. id \in DOMAIN inRows
    BY <1>1, <1>4, RowForId, IdsAssumption DEF Stored
  <2>2. RowFor(id)' \in Outbound \union {id}
    BY DEF RowFor
  <2> QED
    BY <1>1, <2>1, <2>2 DEF Stored, Grows
<1> QED
  BY <1>3, <1>4

LEMMA LinkedStays ==
  ASSUME Grows, NEW x, Linked(x)
  PROVE  Linked(x)'
  BY IdsStay DEF Linked, Grows

LEMMA HeardStays ==
  ASSUME Grows, NEW x, Heard(x)
  PROVE  Heard(x)'
  BY DEF Heard, Grows

LEMMA ServedStays ==
  ASSUME NoticesInv, Grows, NEW w, Served(w)
  PROVE  Served(w)'
<1> DEFINE x == w.notice
<1>1. CASE w.at = "idle"
  BY <1>1 DEF Served
<1>2. CASE w.at # "idle"
  <2>1. /\ x \in told /\ x \in Notices /\ Reportable(x)
        /\ x.what # "call" => providerMessageId(x) \in Ids
    BY <1>2, ReportId DEF Served, NoticesInv
  <2>2. AsStatus(w)' = AsStatus(w)
    BY DEF AsStatus, Grows
  <2>3. providerMessageId(x)' = providerMessageId(x)
    BY IdsStay
  <2>4. /\ x.what \notin {"call"} /\ Stored(x) => Stored(x)'
        /\ Linked(x) => Linked(x)'
        /\ Heard(x) => Heard(x)'
    BY <2>1, StoredStays, LinkedStays, HeardStays
  <2> HIDE DEF x
  <2>5. x = w.notice
    BY DEF x
  <2> QED
    BY <1>2, <2>1, <2>2, <2>3, <2>4, <2>5 DEF Served, Grows
<1> QED
  BY <1>1, <1>2

LEMMA HandlersKept ==
  ASSUME NoticesInv, HandlersInv, Grows, UNCHANGED handlers
  PROVE  HandlersInv'
<1>1. ASSUME NEW h \in Handlers PROVE Served(handlers[h])'
  <2>1. PICK w \in Service : w = handlers[h] /\ Served(w)
    BY DEF HandlersInv
  <2> QED
    BY <2>1, ServedStays
<1> QED
  BY <1>1 DEF HandlersInv

LEMMA HandlerMoves ==
  ASSUME NoticesInv, HandlersInv, Grows, NEW h \in Handlers, NEW w \in Service,
         handlers' = [handlers EXCEPT ![h] = w], Served(w)'
  PROVE  HandlersInv'
<1>1. ASSUME NEW g \in Handlers PROVE Served(handlers[g])'
  <2>1. CASE g = h
    BY <2>1 DEF HandlersInv
  <2>2. CASE g # h
    <3>1. PICK v \in Service : v = handlers[g] /\ v = handlers'[g] /\ Served(v)
      BY <2>2 DEF HandlersInv
    <3> QED
      BY <3>1, ServedStays
  <2> QED
    BY <2>1, <2>2
<1>2. handlers' \in [Handlers -> Service]
  BY DEF HandlersInv
<1> QED
  BY <1>1, <1>2 DEF HandlersInv

LEMMA RequestBegins ==
  ASSUME NoticesInv, HandlersInv, Grows, NEW h \in Handlers, NEW w \in Service,
         w.at = "owner", w.notice \in told, handlers' = [handlers EXCEPT ![h] = w]
  PROVE  HandlersInv'
<1>1. w.notice \in told'
  BY DEF Grows
<1>2. Served(w)'
  BY <1>1 DEF Served
<1> QED
  BY <1>2, HandlerMoves

LEMMA RequestEnds ==
  ASSUME NoticesInv, HandlersInv, Grows, NEW h \in Handlers,
         handlers' = [handlers EXCEPT ![h] = Idle]
  PROVE  HandlersInv'
<1>1. PICK w \in Service : w = Idle
  BY DEF Service, Idle
<1>2. w.at = "idle" /\ w.notice = None
  BY <1>1 DEF Idle
<1>3. Served(w)'
  BY <1>2 DEF Served
<1> QED
  BY <1>1, <1>3, HandlerMoves

\* A message sent never has the id of one the contact posted.
LEMMA OwnRow ==
  ASSUME PostsInv, NoticesInv, SendsInv, NEW x \in told, x.what \notin {"status", "call"}
  PROVE  ~Holder(providerMessageId(x))
<1> SUFFICES ASSUME SharesKey, NEW m \in Outbound, outRows[m].ext = providerMessageId(x)
             PROVE  FALSE
  BY DEF Holder
<1>1. /\ x \in Notices /\ Reportable(x) /\ x.what = "message" /\ x.post # None
      /\ providerMessageId(x) \in Ids
  BY ReportId DEF NoticesInv, Reportable
<1>2. provider \notin {"TELEGRAM", "SLACK", "DISCORD"}
  BY DEF SharesKey, Twilio, Pages
<1>3. providerMessageId(x) = Bare(x.post)
  BY <1>2 DEF providerMessageId
<1>4. PICK q \in posts : PostOf(q) = x.post /\ ~q.ours
  BY <1>1 DEF Reportable
<1>5. /\ outRows[m].ext = externalMessageId(sends[m].post) /\ sends[m].post \in PostIds
      /\ [chat |-> sends[m].chat, n |-> sends[m].post.n, ours |-> TRUE] \in posts
  BY <1>1, NoneAssumption DEF SendsInv, Sound
<1>6. externalMessageId(sends[m].post) = Bare(sends[m].post)
  BY <1>2, <1>5, SentId
<1>7. sends[m].post.n = q.n
  BY <1>3, <1>4, <1>5, <1>6 DEF Bare, PostOf
<1>8. q = [chat |-> sends[m].chat, n |-> sends[m].post.n, ours |-> TRUE]
  BY <1>2, <1>5, <1>7 DEF PostsInv
<1> QED
  BY <1>4, <1>8

LEMMA OwnerFound ==
  ASSUME NoticesInv, HandlersInv, Grows, NEW h \in Handlers, findOwner(h)
  PROVE  HandlersInv'
<1>1. /\ handlers[h] \in Service /\ handlers[h].at = "owner"
      /\ Item(h) \in told /\ Reportable(Item(h)) /\ Item(h) = handlers[h].notice
  BY ServedId DEF findOwner, HandlersInv, Item
<1>2. IsStatus(h) <=> AsStatus(handlers[h])
  BY DEF IsStatus, AsStatus, Item
<1>3. AsStatus(handlers[h]) => provider \in Twilio \union Pages
  BY <1>1 DEF AsStatus, Reportable
<1>4. Item(h).what = "call" => provider \in Twilio
  BY <1>1 DEF Reportable, Twilio
<1>5. PICK next \in {"upsert", "mapping", "publish"} :
        /\ handlers' = [handlers EXCEPT ![h].at = next]
        /\ next = "upsert" => ~AsStatus(handlers[h]) /\ Item(h).what # "call"
        /\ next = "mapping" => AsStatus(handlers[h])
        /\ next = "publish" => Item(h).what = "call"
  <2>1. CASE handleUpdate(h) \/ handleInteraction(h) \/ handleEvent(h)
    BY <1>3, <1>4, <2>1 DEF handleUpdate, handleInteraction, handleEvent, Finds, Twilio, Pages
  <2>2. CASE handleInboundMessage(h) \/ handleMessageStatus(h) \/ handleVoiceStatus(h)
    BY <1>2, <2>2 DEF handleInboundMessage, handleMessageStatus, handleVoiceStatus, Finds
  <2>3. CASE handleMeta(h)
    BY <1>2, <1>4, <2>3 DEF handleMeta, Finds
  <2> QED
    BY <2>1, <2>2, <2>3 DEF findOwner
<1>6. PICK w \in Service : w = [handlers[h] EXCEPT !.at = next]
  BY <1>1 DEF Service
<1>7. /\ w.at = next /\ w.notice = Item(h) /\ w.replay = handlers[h].replay
      /\ w.row = handlers[h].row
  BY <1>1, <1>6 DEF Service
<1>8. AsStatus(w) = AsStatus(handlers[h])
  BY <1>1, <1>7 DEF AsStatus
<1>9. Served(w)
  BY <1>1, <1>5, <1>7, <1>8 DEF Served
<1>10. handlers' = [handlers EXCEPT ![h] = w]
  BY <1>5, <1>6
<1> QED
  BY <1>9, <1>10, ServedStays, HandlerMoves

\* A step of a request to another place, with a row.
LEMMA RequestGoesOn ==
  ASSUME NoticesInv, HandlersInv, Grows, NEW h \in Handlers, NEW x \in told,
         x = handlers[h].notice,
         NEW to \in {"map", "update", "publish", "log"},
         NEW r \in Ids \union Outbound \union {None},
         handlers' = [handlers EXCEPT ![h] = [@ EXCEPT !.at = to, !.row = r]],
         to = "map" => x.what # "call" /\ ~AsStatus(handlers[h]),
         to = "update" => AsStatus(handlers[h]),
         \/ to \in {"update", "log"}
         \/ to = "publish" /\ (x.what = "call" \/ AsStatus(handlers[h]))
         \/ /\ r \in Outbound \union DOMAIN inRows'
            /\ ~handlers[h].replay => r = providerMessageId(x),
         x.what \notin {"status", "call"} =>
           /\ to \in {"map", "publish", "log"} => Stored(x)'
           /\ to \in {"publish", "log"} => Linked(x)',
         to = "log" => Heard(x)'
  PROVE  HandlersInv'
<1>1. handlers[h] \in Service
  BY DEF HandlersInv
<1>2. PICK w \in Service : w = [handlers[h] EXCEPT !.at = to, !.row = r]
  BY <1>1 DEF Service
<1>3. w.at = to /\ w.notice = x /\ w.replay = handlers[h].replay /\ w.row = r
  BY <1>1, <1>2 DEF Service
<1>4. AsStatus(w)' = AsStatus(handlers[h])
  BY <1>3 DEF AsStatus, Grows
<1>5. x \in told' /\ providerMessageId(x)' = providerMessageId(x)
  BY IdsStay DEF Grows
<1>6. Served(w)'
  BY <1>3, <1>4, <1>5 DEF Served
<1>7. handlers' = [handlers EXCEPT ![h] = w]
  BY <1>2
<1> QED
  BY <1>6, <1>7, HandlerMoves

LEMMA MessageUpserted ==
  ASSUME PostsInv, NoticesInv, SendsInv, HandlersInv, Grows, NEW h \in Handlers,
         upsertMessage(h)
  PROVE  HandlersInv'
<1>1. /\ handlers[h] \in Service /\ handlers[h].at = "upsert"
      /\ Item(h).what # "call" /\ ~AsStatus(handlers[h])
  BY DEF upsertMessage, HandlersInv, Served, Item
<1>2. PICK x \in told : x = Item(h) /\ x = handlers[h].notice
  BY <1>1, ServedId DEF Item
<1>3. PICK id \in Ids : id = providerMessageId(x)
  BY <1>1, <1>2, ServedId
<1>4. RowFor(id) \in Outbound \union DOMAIN inRows' /\ UNCHANGED <<provider, outRows>>
  BY <1>2, <1>3, UpsertAdds DEF upsertMessage, HandlerLeaves
<1>5. RowFor(id)' = RowFor(id)
  BY <1>4 DEF RowFor, SharesKey
<1>6. Stored(x)'
  BY <1>3, <1>4, <1>5, IdsStay DEF Stored
<1>7. ~handlers[h].replay => RowFor(id) = id
  <2>1. ~handlers[h].replay => x.what # "status"
    BY <1>1, <1>2 DEF AsStatus
  <2> QED
    BY <1>1, <1>2, <1>3, <2>1, OwnRow, RowForId
<1>8. RowFor(id) \in Ids \union Outbound
  BY <1>3, RowForId
<1>9. handlers' = [handlers EXCEPT ![h] = [@ EXCEPT !.at = "map", !.row = RowFor(id)]]
  BY <1>1, <1>2, <1>3 DEF upsertMessage, HandlersInv, Service
<1> QED
  BY <1>1, <1>2, <1>3, <1>4, <1>6, <1>7, <1>8, <1>9, RequestGoesOn

\* Of steps that write at alone.
LEMMA SameRow ==
  ASSUME HandlersInv, NEW h \in Handlers, NEW to, handlers' = [handlers EXCEPT ![h].at = to]
  PROVE  handlers' = [handlers EXCEPT ![h] = [@ EXCEPT !.at = to, !.row = handlers[h].row]]
  BY DEF HandlersInv, Service

LEMMA MappingUpserted ==
  ASSUME NoticesInv, HandlersInv, Grows, NEW h \in Handlers, upsertMapping(h)
  PROVE  HandlersInv'
<1>1. /\ handlers[h] \in Service /\ handlers[h].at = "map" /\ Served(handlers[h])
      /\ handlers' = [handlers EXCEPT ![h].at = "publish"]
  BY DEF upsertMapping, HandlerGoes, HandlersInv
<1>2. PICK x \in told : x = Item(h) /\ x = handlers[h].notice
  BY <1>1, ServedId DEF Item
<1>3. /\ handlers[h].row \in Outbound \union DOMAIN inRows
      /\ ~handlers[h].replay => handlers[h].row = providerMessageId(x)
      /\ x.what # "call"
      /\ x.what \notin {"status", "call"} => Stored(x)
  BY <1>1, <1>2 DEF Served
<1>4. Linked(x)'
  <2>1. mapping' = Put(mapping, providerMessageId(x), handlers[h].row)
    BY <1>2 DEF upsertMapping
  <2> QED
    BY <2>1, IdsStay DEF Linked, Put
<1>5. x.what \notin {"status", "call"} => Stored(x)'
  BY <1>1, <1>2, <1>3, ServedId, StoredStays
<1>6. handlers[h].row \in Ids \union Outbound \union {None}
  BY <1>1 DEF Service
<1> QED
  BY <1>1, <1>2, <1>3, <1>4, <1>5, <1>6, SameRow, RequestGoesOn DEF Grows

LEMMA StatusServed ==
  ASSUME NoticesInv, MappingInv, RowsInv, HandlersInv, Grows, NEW h \in Handlers,
         findMapping(h) \/ applyStatus(h)
  PROVE  HandlersInv'
<1>1. /\ handlers[h] \in Service /\ handlers[h].at \in {"mapping", "update"}
      /\ AsStatus(handlers[h])
  BY DEF findMapping, applyStatus, HandlerGoes, HandlersInv, Served
<1>2. PICK x \in told : x = Item(h) /\ x = handlers[h].notice /\ x.what = "status"
  BY <1>1, ServedId DEF Item, AsStatus
<1>3. CASE findMapping(h)
  <2>1. PICK id \in Ids : id = providerMessageId(x)
    BY <1>1, <1>2, ServedId
  <2>2. PICK r \in Ids \union Outbound :
          r = IF id \in DOMAIN mapping /\ provider # "TWILIO_RCS" THEN mapping[id] ELSE id
    BY <2>1 DEF MappingInv, RowsInv
  <2>3. handlers' = [handlers EXCEPT ![h] = [@ EXCEPT !.at = "update", !.row = r]]
    BY <1>1, <1>2, <1>3, <2>1, <2>2 DEF findMapping, HandlersInv, Service
  <2> QED
    BY <1>1, <1>2, <2>3, RequestGoesOn
<1>4. CASE applyStatus(h)
  <2>1. PICK to \in {"log", "publish"} :
          /\ handlers' = [handlers EXCEPT ![h].at = to]
          /\ to = "log" => x.status = "FAILED" \/ provider \in Pages
    BY <1>2, <1>4 DEF applyStatus, HandlerGoes
  <2>2. to = "log" => Heard(x)'
    BY <1>2, <2>1 DEF Heard, Grows
  <2>3. handlers[h].row \in Ids \union Outbound \union {None}
    BY <1>1 DEF Service
  <2> QED
    BY <1>1, <1>2, <2>1, <2>2, <2>3, SameRow, RequestGoesOn
<1> QED
  BY <1>3, <1>4

LEMMA EventDispatched ==
  ASSUME NoticesInv, HandlersInv, Grows, NEW h \in Handlers, dispatchEvent(h)
  PROVE  HandlersInv'
<1>1. /\ handlers[h] \in Service /\ handlers[h].at = "publish" /\ Served(handlers[h])
      /\ handlers' = [handlers EXCEPT ![h].at = "log"]
  BY DEF dispatchEvent, HandlerGoes, HandlersInv
<1>2. PICK x \in told : x = Item(h) /\ x = handlers[h].notice
  BY <1>1, ServedId DEF Item
<1>3. x.what \notin {"status", "call"} => Stored(x)' /\ Linked(x)'
  BY <1>1, <1>2, ServedId, StoredStays, LinkedStays DEF Served
<1>4. Heard(x)'
  <2> DEFINE content == IF IsStatus(h) \/ Item(h).what = "call" THEN Item(h)
                        ELSE IF handlers[h].row \in Outbound THEN None
                        ELSE inRows[handlers[h].row].content
             e == [notice |-> Item(h), replay |-> handlers[h].replay, row |-> handlers[h].row,
                   content |-> content]
  <2>1. e \in published'
    BY DEF dispatchEvent
  <2>2. e.notice = x
    BY <1>2
  <2> HIDE DEF e
  <2> QED
    BY <2>1, <2>2 DEF Heard
<1>5. handlers[h].row \in Ids \union Outbound \union {None}
  BY <1>1 DEF Service
<1> QED
  BY <1>1, <1>2, <1>3, <1>4, <1>5, SameRow, RequestGoesOn

LEMMA HandlersNext ==
  ASSUME PostsInv, NoticesInv, SendsInv, RowsInv, MappingInv, HandlersInv, Grows,
         [ChannelNext]_channelVars
  PROVE  HandlersInv'
<1>1. ASSUME NEW h \in Handlers, NEW x \in pending, deliver(h, x) PROVE HandlersInv'
  <2>1. x \in told /\ x \in Notices
    BY DEF NoticesInv
  <2>2. PICK w \in Service : w = [Idle EXCEPT !.at = "owner", !.notice = x]
    BY <2>1 DEF Idle, Service
  <2>3. w.at = "owner" /\ w.notice = x
    BY <2>2 DEF Idle
  <2>4. handlers' = [handlers EXCEPT ![h] = w]
    BY <1>1, <2>2 DEF deliver
  <2> QED
    BY <2>1, <2>3, <2>4, RequestBegins
<1>2. ASSUME NEW h \in Handlers, NEW x \in log, replay(h, x) PROVE HandlersInv'
  <2>1. x \in told /\ x \in Notices
    BY DEF NoticesInv
  <2>2. PICK w \in Service : w = [at |-> "owner", notice |-> x, replay |-> TRUE, row |-> None]
    BY <2>1 DEF Service
  <2>3. w.at = "owner" /\ w.notice = x
    BY <2>2
  <2>4. handlers' = [handlers EXCEPT ![h] = w]
    BY <1>2, <2>2 DEF replay
  <2> QED
    BY <2>1, <2>3, <2>4, RequestBegins
<1>3. ASSUME NEW h \in Handlers, Handling(h) PROVE HandlersInv'
  <2>1. CASE finish(h) \/ handlerRejects(h)
    BY <2>1, RequestEnds DEF finish, handlerRejects
  <2> QED
    BY <1>3, <2>1, OwnerFound, MessageUpserted, MappingUpserted, StatusServed, EventDispatched
    DEF Handling, persistInbound
<1>4. CASE HandlerStep
  BY <1>1, <1>2, <1>3, <1>4, HandlersKept DEF HandlerStep, requireCredentialId
<1>5. CASE ContactStep \/ (\E m \in Outbound : SendStep(m)) \/ (\E r \in Rows : ActStep(r))
  BY <1>5, ContactFrame, SendFrame, ActFrame, HandlersKept
  DEF PlatformLeaves, SendLeaves, ActLeaves
<1> QED
  BY <1>4, <1>5, NextByActor, HandlersKept DEF channelVars

-----------------------------------------------------------------------------
(* Events *)

LEMMA IdKinds ==
  /\ \A k : Own(k).kind = "own" /\ Own(k).n = k
  /\ \A q : Bare(q).kind = "bare" /\ Bare(q).n = q.n
  /\ \A q : Vote(q).kind = "vote" /\ Vote(q).n = q.n
  BY DEF Own, Bare, Vote

\* Two reports of one id are of one message, and only Slack and Telegram have them.
LEMMA SameId ==
  ASSUME provider \in Channels, PostsInv, NoticesInv, NEW x \in told, NEW y \in told, x # y,
         x.what \notin {"status", "call"}, y.what # "call",
         providerMessageId(x) = providerMessageId(y)
  PROVE  \/ provider = "SLACK" /\ y.post = x.post
         \/ /\ provider = "TELEGRAM" /\ x.what \in {"message", "edit", "vote"}
            /\ y.what \in {"message", "edit", "vote"} /\ y.post.n = x.post.n
<1>1. x \in Notices /\ y \in Notices /\ Reportable(x) /\ Reportable(y) /\ x.n # y.n
  BY DEF NoticesInv
<1>2. ASSUME provider # "TELEGRAM", x.post # None, y.post # None, x.post.n = y.post.n
      PROVE  /\ x.post = y.post
             /\ ~(x.what = "message" /\ y.what = "status")
  <2>1. PICK p \in posts :
          PostOf(p) = x.post /\ (x.what = "message" => ~p.ours)
    BY <1>1, <1>2 DEF Reportable
  <2>2. PICK q \in posts :
          PostOf(q) = y.post /\ (y.what = "status" => q.ours)
    BY <1>1, <1>2 DEF Reportable
  <2>3. p = q
    BY <1>2, <2>1, <2>2 DEF PostsInv, PostOf
  <2> QED
    BY <2>1, <2>2, <2>3
<1>3. CASE provider = "SLACK"
  <2>1. slackId(x) = slackId(y)
    BY <1>3 DEF providerMessageId
  <2>2. x.what # "command" /\ y.what # "command" /\ Bare(x.post) = Bare(y.post)
    BY <1>1, <2>1, IdKinds DEF slackId
  <2>3. x.post.n = y.post.n
    BY <2>2, IdKinds
  <2> QED
    BY <1>1, <1>2, <1>3, <2>2, <2>3 DEF Reportable
<1>4. CASE provider = "TELEGRAM"
  <2>1. telegramId(x) = telegramId(y)
    BY <1>4 DEF providerMessageId
  <2>2. /\ x.what \in {"message", "edit", "vote", "press"}
        /\ y.what \in {"message", "edit", "vote", "press"}
    BY <1>1, <1>4 DEF Reportable, Notices, Twilio, Pages
  <2>3. x.what # "press" /\ y.what # "press"
    BY <1>1, <2>1, <2>2, IdKinds DEF telegramId
  <2>4. x.post.n = y.post.n
    BY <2>1, <2>2, <2>3, IdKinds DEF telegramId
  <2> QED
    BY <1>4, <2>2, <2>3, <2>4
<1>5. CASE provider = "DISCORD"
  <2>1. Own(x.n) = Own(y.n)
    BY <1>5 DEF providerMessageId, discordId
  <2> QED
    BY <1>1, <2>1, IdKinds
<1>6. CASE provider \notin {"SLACK", "TELEGRAM", "DISCORD"}
  <2>1. Bare(x.post) = Bare(y.post)
    BY <1>6 DEF providerMessageId
  <2>2. x.post # None /\ y.post # None /\ x.post.n = y.post.n
    BY <1>1, <1>6, <2>1, IdKinds DEF Reportable
  <2>3. provider \in Channels => SharesKey
    BY <1>6, ChannelsAssumption DEF Providers, SharesKey
  <2> QED
    BY <1>1, <1>2, <1>6, <2>2, <2>3 DEF NoticesInv, Reportable
<1> QED
  BY <1>3, <1>4, <1>5, <1>6

\* An event says what its report says, but where two reports have one id.
Carries(e) ==
  \/ e.content = e.notice \/ e.replay
  \/ \E x \in told \ {e.notice} :
       \/ provider = "SLACK" /\ x.post = e.notice.post
       \/ /\ provider = "TELEGRAM" /\ e.notice.what \in {"message", "edit", "vote"}
          /\ x.what \in {"message", "edit", "vote"} /\ x.post.n = e.notice.post.n

LEMMA EventRaised ==
  ASSUME provider \in Channels, PostsInv, NoticesInv, RowsInv, HandlersInv,
         NEW h \in Handlers, dispatchEvent(h)
  PROVE  \E e : published' = published \union {e} /\ Carries(e)
<1> DEFINE r == handlers[h].row
           content == IF IsStatus(h) \/ Item(h).what = "call" THEN Item(h)
                      ELSE IF r \in Outbound THEN None ELSE inRows[r].content
           event == [notice |-> Item(h), replay |-> handlers[h].replay, row |-> r,
                     content |-> content]
<1>1. PICK e : e = event
  OBVIOUS
<1>2. published' = published \union {e}
  BY <1>1 DEF dispatchEvent
<1>3. /\ e.notice = Item(h) /\ e.replay = handlers[h].replay /\ e.content = content
  BY <1>1
<1> HIDE DEF event
<1>4. /\ handlers[h].at = "publish" /\ handlers[h] \in Service /\ Served(handlers[h])
  BY DEF dispatchEvent, HandlerGoes, HandlersInv
<1>5. PICK x \in told : x = Item(h) /\ x = handlers[h].notice
  BY <1>4, ServedId DEF Item
<1>6. CASE handlers[h].replay \/ IsStatus(h) \/ Item(h).what = "call"
  BY <1>2, <1>3, <1>6 DEF Carries
<1>7. CASE ~handlers[h].replay /\ ~IsStatus(h) /\ Item(h).what # "call"
  <2>1. x.what \notin {"status", "call"} /\ ~AsStatus(handlers[h])
    BY <1>5, <1>7 DEF IsStatus, AsStatus
  <2>2. r \in Outbound \union DOMAIN inRows /\ r = providerMessageId(x)
    BY <1>4, <1>5, <1>7, <2>1 DEF Served
  <2>3. r \in Ids /\ r \notin Outbound
    BY <1>4, <1>5, <2>1, <2>2, ServedId, IdsAssumption
  <2>4. PICK y \in told : y = inRows[r].content /\ y.what # "call" /\ providerMessageId(y) = r
    BY <2>2, <2>3 DEF RowsInv
  <2>5. e.content = y
    BY <1>3, <1>7, <2>3, <2>4
  <2>6. CASE y = x
    BY <1>2, <1>3, <1>5, <2>5, <2>6 DEF Carries
  <2>7. CASE y # x
    <3>1. \/ provider = "SLACK" /\ y.post = x.post
          \/ /\ provider = "TELEGRAM" /\ x.what \in {"message", "edit", "vote"}
             /\ y.what \in {"message", "edit", "vote"} /\ y.post.n = x.post.n
      BY <2>1, <2>2, <2>4, <2>7, SameId
    <3>2. e.notice = x
      BY <1>3, <1>5
    <3>3. Carries(e)
      BY <2>7, <3>1, <3>2 DEF Carries
    <3> QED
      BY <1>2, <3>3
  <2> QED
    BY <2>6, <2>7
<1> QED
  BY <1>6, <1>7

LEMMA EventsNext ==
  ASSUME provider \in Channels, PostsInv, NoticesInv, RowsInv, HandlersInv, Grows,
         EventsCarryTheirReport, [ChannelNext]_channelVars
  PROVE  EventsCarryTheirReport'
<1>1. EventsCarryTheirReport <=> \A e \in published : Carries(e)
  BY DEF EventsCarryTheirReport, Carries
<1>2. EventsCarryTheirReport' <=> \A e \in published' : Carries(e)'
  BY DEF EventsCarryTheirReport, Carries
<1>3. ASSUME NEW e, Carries(e) PROVE Carries(e)'
  BY <1>3 DEF Carries, Grows
<1>4. CASE UNCHANGED published
  BY <1>1, <1>2, <1>3, <1>4
<1>5. ASSUME NEW h \in Handlers, Handling(h) PROVE EventsCarryTheirReport'
  <2>1. CASE dispatchEvent(h)
    <3>1. PICK e : published' = published \union {e} /\ Carries(e)
      BY <2>1, EventRaised
    <3> QED
      BY <1>1, <1>2, <1>3, <3>1
  <2>2. CASE ~dispatchEvent(h)
    <3>1. ASSUME findOwner(h) PROVE UNCHANGED published
      BY <3>1 DEF findOwner, handleUpdate, handleInteraction, handleEvent, handleMeta, Finds,
                  handleInboundMessage, handleMessageStatus, handleVoiceStatus
    <3>2. UNCHANGED published
      BY <1>5, <2>2, <3>1 DEF Handling, persistInbound, upsertMessage, upsertMapping,
                              findMapping, applyStatus, finish, handlerRejects
    <3> QED
      BY <1>4, <3>2
  <2> QED
    BY <2>1, <2>2
<1>6. CASE HandlerStep
  BY <1>4, <1>5, <1>6 DEF HandlerStep, deliver, replay, requireCredentialId
<1>7. CASE ContactStep \/ (\E m \in Outbound : SendStep(m)) \/ (\E r \in Rows : ActStep(r))
  BY <1>4, <1>7, ContactFrame, SendFrame, ActFrame DEF PlatformLeaves, SendLeaves, ActLeaves
<1> QED
  BY <1>4, <1>6, <1>7, NextByActor DEF channelVars

-----------------------------------------------------------------------------
(* Reports that were accepted *)

\* A report was handled to its end.
Done(x) == Heard(x) /\ (x.what \notin {"status", "call"} => Linked(x) /\ Stored(x))
Accepted == answered \union (IF Redelivers THEN told \ pending ELSE {})

LEMMA AcceptedAreDone ==
  AcceptedIsTold <=> \A x \in Accepted : Done(x)
  BY DEF AcceptedIsTold, Accepted, Done, Heard, Linked, Stored

LEMMA AcceptedAreDoneNext ==
  AcceptedIsTold' <=> \A x \in Accepted' : Done(x)'
  BY DEF AcceptedIsTold, Accepted, Done, Heard, Linked, Stored

LEMMA DoneStays ==
  ASSUME NoticesInv, Grows, NEW x \in told, Done(x)
  PROVE  Done(x)'
<1>1. x.what # "call" => providerMessageId(x) \in Ids
  BY ReportId DEF NoticesInv
<1> QED
  BY <1>1, StoredStays, LinkedStays, HeardStays DEF Done

\* Only at the end of a request is a report accepted.
LEMMA AcceptedAtTheEnd ==
  ASSUME NoticesInv, HandlersInv, Grows, NEW h \in Handlers, Handling(h),
         NEW x \in Accepted', x \notin Accepted
  PROVE  finish(h) /\ x = Item(h)
<1>1. UNCHANGED told /\ Redelivers' = Redelivers
  BY HandlingFrame DEF HandlerLeaves, Grows, Redelivers
<1>2. CASE finish(h)
  BY <1>1, <1>2 DEF finish, Accepted
<1>3. CASE handlerRejects(h)
  BY <1>1, <1>3 DEF handlerRejects, Accepted
<1>4. CASE ~finish(h) /\ ~handlerRejects(h)
  <2>1. ASSUME findOwner(h) PROVE UNCHANGED <<pending, answered>>
    BY <2>1 DEF findOwner, handleUpdate, handleInteraction, handleEvent, handleMeta, Finds,
                handleInboundMessage, handleMessageStatus, handleVoiceStatus
  <2>2. UNCHANGED <<pending, answered>>
    BY <1>4, <2>1 DEF Handling, persistInbound, upsertMessage, upsertMapping, dispatchEvent,
                      findMapping, applyStatus
  <2> QED
    BY <1>1, <2>2 DEF Accepted
<1> QED
  BY <1>2, <1>3, <1>4

LEMMA AcceptedNext ==
  ASSUME NoticesInv, HandlersInv, Grows, AcceptedIsTold, [ChannelNext]_channelVars
  PROVE  AcceptedIsTold'
<1>1. \A x \in Accepted : x \in told /\ Done(x)
  BY AcceptedAreDone DEF Accepted, NoticesInv
<1>2. Redelivers' = Redelivers
  BY DEF Grows, Redelivers
<1>3. ASSUME Accepted' \subseteq Accepted PROVE AcceptedIsTold'
  BY <1>1, <1>3, DoneStays, AcceptedAreDoneNext
<1>4. ASSUME NEW h \in Handlers, Handling(h) PROVE AcceptedIsTold'
  <2>1. ASSUME NEW x \in Accepted' PROVE x \in told /\ Done(x)
    <3>1. CASE x \in Accepted
      BY <1>1, <3>1
    <3>2. CASE x \notin Accepted
      <4>1. handlers[h].at = "log" /\ x = Item(h)
        BY <1>4, <2>1, <3>2, AcceptedAtTheEnd DEF finish
      <4> QED
        BY <4>1 DEF HandlersInv, Served, Item, Done
    <3> QED
      BY <3>1, <3>2
  <2> QED
    BY <2>1, DoneStays, AcceptedAreDoneNext
<1>5. CASE HandlerStep
  <2>1. UNCHANGED <<told, pending, answered>> => Accepted' = Accepted
    BY <1>2 DEF Accepted
  <2> QED
    BY <1>3, <1>4, <1>5, <2>1, HandlerFrame
    DEF HandlerStep, HandlerLeaves, deliver, replay, requireCredentialId
<1>6. CASE ContactStep
  <2>1. UNCHANGED answered /\ told' \ pending' \subseteq told \ pending
    BY <1>6, ContactFrame DEF PlatformLeaves, ContactStep, contactPosts, contactActs, commands,
                              Tell
  <2> QED
    BY <1>2, <1>3, <2>1 DEF Accepted
<1>7. CASE (\E m \in Outbound : SendStep(m)) \/ (\E r \in Rows : ActStep(r))
  <2>1. UNCHANGED <<told, pending, answered>>
    BY <1>7, SendFrame, ActFrame DEF SendLeaves, ActLeaves
  <2> QED
    BY <1>2, <1>3, <2>1 DEF Accepted
<1>8. CASE UNCHANGED channelVars
  BY <1>2, <1>3, <1>8 DEF Accepted, channelVars
<1> QED
  BY <1>5, <1>6, <1>7, <1>8, NextByActor

-----------------------------------------------------------------------------
(* The theorems of the messages *)

LEMMA MishapsNext ==
  ASSUME mishaps \in 0..MaxMishaps, [ChannelNext]_channelVars
  PROVE  mishaps' \in 0..MaxMishaps
<1>1. Mishap \/ UNCHANGED mishaps => mishaps' \in 0..MaxMishaps
  BY BoundsAssumption DEF Mishap
<1>2. ASSUME NEW m \in Outbound, SendStep(m) PROVE Mishap \/ UNCHANGED mishaps
  BY <1>2 DEF SendStep, Sending, send, prepare, prepareThrows, accept, refuse, persistFailure,
              persistSuccess, persistThrows
<1>3. ASSUME NEW h \in Handlers, Handling(h) PROVE Mishap \/ UNCHANGED mishaps
  <2>1. ASSUME findOwner(h) PROVE UNCHANGED mishaps
    BY <2>1 DEF findOwner, handleUpdate, handleInteraction, handleEvent, handleMeta, Finds,
                handleInboundMessage, handleMessageStatus, handleVoiceStatus
  <2> QED
    BY <1>3, <2>1 DEF Handling, persistInbound, upsertMessage, upsertMapping, dispatchEvent,
                      findMapping, applyStatus, finish, handlerRejects
<1>4. HandlerStep => Mishap \/ UNCHANGED mishaps
  BY <1>3 DEF HandlerStep, deliver, replay, requireCredentialId
<1>5. ContactStep \/ (\E r \in Rows : ActStep(r)) => UNCHANGED mishaps
  BY ContactFrame, ActFrame DEF PlatformLeaves, ActLeaves
<1> QED
  BY <1>1, <1>2, <1>4, <1>5, NextByActor DEF channelVars

LEMMA InitChannelIInv ==
  ASSUME ChannelInit
  PROVE  ChannelIInv
<1> USE DEF ChannelInit
<1>1. provider \in Channels /\ mishaps \in 0..MaxMishaps
  BY BoundsAssumption
<1>2. PostsInv /\ NoticesInv
  BY FS_EmptySet DEF PostsInv, NoticesInv
<1>3. SendsInv
  <2>1. PICK w \in Sends : w = [at |-> "idle", chat |-> None, ref |-> None,
                                named |-> None, call |-> NoCall, post |-> None]
    BY DEF Sends, Calls, NoCall
  <2>2. w.at = "idle" /\ w.ref = None
    BY <2>1
  <2>3. Sound(w)
    BY <2>2 DEF Sound
  <2>4. \A m \in Outbound : sends[m] = w /\ outRows[m].ext = None
    BY <2>1
  <2>5. sends \in [Outbound -> Sends] /\ outRows \in [Outbound -> OutRows]
    BY <2>1 DEF OutRows
  <2> QED
    BY <2>3, <2>4, <2>5 DEF SendsInv
<1>4. RowsInv /\ MappingInv
  BY DEF RowsInv, MappingInv, Empty
<1>5. HandlersInv
  BY DEF HandlersInv, Served, Service, Idle
<1>6. ActionsHitTheNamed /\ EventsCarryTheirReport /\ AcceptedIsTold
  BY DEF ActionsHitTheNamed, EventsCarryTheirReport, AcceptedIsTold
<1> QED
  BY <1>1, <1>2, <1>3, <1>4, <1>5, <1>6 DEF ChannelIInv

LEMMA NextChannelIInv ==
  ASSUME ChannelIInv, [ChannelNext]_channelVars
  PROVE  ChannelIInv'
<1> USE DEF ChannelIInv
<1>1. Grows
  BY StepGrows
<1>2. provider' \in Channels /\ mishaps' \in 0..MaxMishaps
  BY <1>1, MishapsNext DEF Grows
<1>3. PostsInv' /\ NoticesInv'
  BY <1>1, PostsNext, NoticesNext
<1>4. SendsInv' /\ RowsInv' /\ MappingInv'
  BY <1>1, SendsNext, RowsNext, MappingNext
<1>5. HandlersInv'
  BY <1>1, HandlersNext
<1>6. ActionsHitTheNamed' /\ AcceptedIsTold' /\ EventsCarryTheirReport'
  BY <1>1, HitsNext, AcceptedNext, EventsNext
<1> QED
  BY <1>2, <1>3, <1>4, <1>5, <1>6

\* The invariant holds of every state of an instance on any of the channels.
THEOREM ChannelInvariant == ChannelSpec => []ChannelIInv
<1>1. ChannelInit => ChannelIInv
  BY InitChannelIInv
<1>2. ChannelIInv /\ [ChannelNext]_channelVars => ChannelIInv'
  BY NextChannelIInv
<1> QED
  BY <1>1, <1>2, PTL DEF ChannelSpec

\* No step of a webhook service, of send() or of a replay takes anything back: a row of
\* the contact's keeps its first content (update: {}), a message sent its external id, and
\* an id that has a mapping has one for good.
THEOREM NothingIsTakenBack == ChannelSpec => [][Grows]_channelVars
<1>1. ChannelIInv /\ [ChannelNext]_channelVars => Grows
  BY StepGrows DEF ChannelIInv
<1> QED
  BY <1>1, ChannelInvariant, PTL DEF ChannelSpec

\* The types of an instance's messages, reports, rows, mappings and requests, whatever
\* the channel and however the webhook services and send() interleave.
THEOREM ChannelTypeCorrect == ChannelSpec => []ChannelTypeOK
<1>1. ChannelIInv => ChannelTypeOK
  <2> SUFFICES ASSUME ChannelIInv PROVE ChannelTypeOK
    OBVIOUS
  <2>1. /\ provider \in Channels /\ mishaps \in 0..MaxMishaps
        /\ posts \subseteq [chat : Chats, n : 1..MaxPosts, ours : BOOLEAN]
        /\ told \subseteq Notices /\ pending \subseteq told /\ answered \subseteq told \ pending
    BY DEF ChannelIInv, PostsInv, NoticesInv
  <2>2. ASSUME NEW m \in Outbound
        PROVE  /\ outRows[m] \in OutRows /\ sends[m] \in Sends
               /\ sends[m].at \in {"accepted", "sent"} => sends[m].post \in PostIds
               /\ outRows[m].ext # None => sends[m].at = "sent"
    BY DEF ChannelIInv, SendsInv, Sound
  <2>3. /\ DOMAIN inRows \subseteq Ids /\ DOMAIN mapping \subseteq Ids
        /\ \A i \in DOMAIN mapping : mapping[i] \in Outbound \union DOMAIN inRows
    BY DEF ChannelIInv, RowsInv, MappingInv
  <2>4. ASSUME NEW h \in Handlers
        PROVE  /\ handlers[h] \in Service
               /\ handlers[h].notice \in told \union {None}
    BY DEF ChannelIInv, HandlersInv, Served
  <2> QED
    BY <2>1, <2>2, <2>3, <2>4 DEF ChannelTypeOK, OutRows, Sends, Service
<1> QED
  BY <1>1, ChannelInvariant, PTL

\* What a client answers, reacts to or marks as read is what it has seen a row of: by the
\* ids resolveExistingMessage takes from the rows, and what the providers' splitId and the
\* mappers' references make of them, the platform finds that message and no other.
THEOREM NamedAreHit == ChannelSpec => []ActionsHitTheNamed
<1>1. ChannelIInv => ActionsHitTheNamed
  BY DEF ChannelIInv
<1> QED
  BY <1>1, ChannelInvariant, PTL

\* A report a webhook service has answered with 200, and one that Telegram or Slack will
\* not repeat, has its row and its mapping, and the tenant was told.
THEOREM AcceptedAreTold == ChannelSpec => []AcceptedIsTold
<1>1. ChannelIInv => AcceptedIsTold
  BY DEF ChannelIInv
<1> QED
  BY <1>1, ChannelInvariant, PTL

\* MESSAGE_RECEIVED carries the report it is raised for, but on Slack and Telegram where
\* the services give reports of one message (or number) one id, and so one row.
THEOREM EventsCarryReports == ChannelSpec => []EventsCarryTheirReport
<1>1. ChannelIInv => EventsCarryTheirReport
  BY DEF ChannelIInv
<1> QED
  BY <1>1, ChannelInvariant, PTL

=============================================================================
