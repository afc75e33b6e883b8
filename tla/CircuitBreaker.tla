--------------------------- MODULE CircuitBreaker ---------------------------
(***************************************************************************)
(* libs/shared/src/resilience/circuit-breaker.ts: the breaker every        *)
(* HttpClient wraps its requests in.  A call admitted by execute() awaits  *)
(* fn(), so any number of calls overlap: the breaker is opened, half-      *)
(* opened and closed by completions that arrive in any order, some of them *)
(* of calls admitted under an earlier state.                               *)
(*                                                                         *)
(* Time is the elapsed time since lastFailureTime, which is all that       *)
(* execute() reads of the clock, saturated at the reset timeout.           *)
(***************************************************************************)
EXTENDS Integers, FiniteSets

CONSTANTS
  Callers,           \* concurrent users of the one breaker
  FailureThreshold,  \* options.failureThreshold
  HalfOpenMax,       \* options.halfOpenMaxAttempts
  ResetTimeout       \* options.resetTimeoutMs, in clock ticks

ASSUME CallersAssumption == IsFiniteSet(Callers)
ASSUME OptionsAssumption ==
  /\ FailureThreshold \in Nat \ {0}
  /\ HalfOpenMax \in Nat \ {0}
  /\ ResetTimeout \in Nat \ {0}

VARIABLES
  breaker,       \* the fields state, failureCount and halfOpenAttempts
  sinceFailure,  \* Date.now() - lastFailureTime, saturated at ResetTimeout
  calls,         \* what each caller's execute() is doing, see CallStates
  streak         \* history: failed completions since the last success, saturated

vars == <<breaker, sinceFailure, calls, streak>>

CircuitState == {"CLOSED", "OPEN", "HALF_OPEN"}

\* A call is idle, was rejected with CircuitBreakerOpenError, or awaits fn():
\* as "ordinary" when admitted in CLOSED, as "probe" when admitted in the
\* HALF_OPEN period still running, as "stale" when that period is over.
Pending    == {"ordinary", "probe", "stale"}
CallStates == Pending \union {"idle", "rejected"}

Breakers == [state : CircuitState,
             failureCount : 0..FailureThreshold,
             halfOpenAttempts : 0..HalfOpenMax]

\* An unbounded counter read only through n >= limit.
Bump(n, limit) == IF n < limit THEN n + 1 ELSE limit

-----------------------------------------------------------------------------

Init ==
  /\ breaker = [state |-> "CLOSED", failureCount |-> 0, halfOpenAttempts |-> 0]
  /\ sinceFailure = ResetTimeout          \* lastFailureTime = 0: long ago
  /\ calls = [c \in Callers |-> "idle"]
  /\ streak = 0

shouldTransitionToHalfOpen == sinceFailure >= ResetTimeout

transitionTo(b, newState) ==
  [state            |-> newState,
   failureCount     |-> IF newState = "CLOSED" THEN 0 ELSE b.failureCount,
   halfOpenAttempts |-> IF newState = "OPEN" THEN b.halfOpenAttempts ELSE 0]

\* Mutant: a success in CLOSED leaves the earlier failures counted.
onSuccess_KeepsCount(b) ==
  IF b.state = "HALF_OPEN" THEN transitionTo(b, "CLOSED") ELSE b

onSuccess(b) ==
  [(IF b.state = "HALF_OPEN" THEN transitionTo(b, "CLOSED") ELSE b)
     EXCEPT !.failureCount = 0]

onFailure(b) ==
  LET counted == [b EXCEPT !.failureCount = Bump(@, FailureThreshold)]
  IN  IF b.state = "HALF_OPEN" \/ counted.failureCount >= FailureThreshold
      THEN transitionTo(counted, "OPEN")
      ELSE counted

\* The breaker as execute() sees it after its first test: an OPEN circuit whose
\* reset timeout has elapsed is HALF_OPEN from here on.
Entered ==
  IF breaker.state = "OPEN" /\ shouldTransitionToHalfOpen
  THEN transitionTo(breaker, "HALF_OPEN")
  ELSE breaker

\* Mutant: one trial call too many.
HalfOpenExhausted_OffByOne ==
  Entered.state = "HALF_OPEN" /\ Entered.halfOpenAttempts > HalfOpenMax

HalfOpenExhausted ==
  Entered.state = "HALF_OPEN" /\ Entered.halfOpenAttempts >= HalfOpenMax

\* History: a HALF_OPEN period that ends leaves its pending probes behind.
Relabelled(cs, newState) ==
  [c \in Callers |->
     IF cs[c] = "probe" /\ newState # "HALF_OPEN" THEN "stale" ELSE cs[c]]

-----------------------------------------------------------------------------

\* Mutant: a rejection goes through onFailure and restarts the wait.
Reject_CountsAsFailure(c) ==
  /\ calls[c] \notin Pending
  /\ Entered.state = "OPEN"
  /\ calls' = [calls EXCEPT ![c] = "rejected"]
  /\ sinceFailure' = 0
  /\ UNCHANGED <<breaker, streak>>

\* execute() throws CircuitBreakerOpenError at once: the circuit is OPEN.
Reject(c) ==
  /\ calls[c] \notin Pending
  /\ Entered.state = "OPEN"
  /\ calls' = [calls EXCEPT ![c] = "rejected"]
  /\ UNCHANGED <<breaker, sinceFailure, streak>>

\* execute() finds every half-open attempt taken: it opens the circuit again
\* and throws.  lastFailureTime is left as it was.
RejectAndReopen(c) ==
  /\ calls[c] \notin Pending
  /\ HalfOpenExhausted
  /\ breaker' = transitionTo(Entered, "OPEN")
  /\ calls' = Relabelled([calls EXCEPT ![c] = "rejected"], "OPEN")
  /\ UNCHANGED <<sinceFailure, streak>>

\* Mutant: a trial call is not counted.
Admit_Uncounted(c) ==
  /\ calls[c] \notin Pending
  /\ Entered.state # "OPEN"
  /\ ~HalfOpenExhausted
  /\ breaker' = Entered
  /\ calls' = [calls EXCEPT ![c] = IF Entered.state = "HALF_OPEN" THEN "probe" ELSE "ordinary"]
  /\ UNCHANGED <<sinceFailure, streak>>

\* execute() starts fn() and awaits it.
Admit(c) ==
  /\ calls[c] \notin Pending
  /\ Entered.state # "OPEN"
  /\ ~HalfOpenExhausted
  /\ IF Entered.state = "HALF_OPEN"
     THEN /\ breaker' = [Entered EXCEPT !.halfOpenAttempts = @ + 1]
          /\ calls' = [calls EXCEPT ![c] = "probe"]
     ELSE /\ breaker' = Entered
          /\ calls' = [calls EXCEPT ![c] = "ordinary"]
  /\ UNCHANGED <<sinceFailure, streak>>

\* fn() resolves.
Succeed(c) ==
  /\ calls[c] \in Pending
  /\ breaker' = onSuccess(breaker)
  /\ calls' = Relabelled([calls EXCEPT ![c] = "idle"], onSuccess(breaker).state)
  /\ streak' = 0
  /\ UNCHANGED sinceFailure

\* fn() rejects.
Fail(c) ==
  /\ calls[c] \in Pending
  /\ breaker' = onFailure(breaker)
  /\ sinceFailure' = 0
  /\ calls' = Relabelled([calls EXCEPT ![c] = "idle"], onFailure(breaker).state)
  /\ streak' = Bump(streak, FailureThreshold)

\* The public reset().
Reset ==
  /\ breaker' = transitionTo(breaker, "CLOSED")
  /\ calls' = Relabelled(calls, "CLOSED")
  /\ UNCHANGED <<sinceFailure, streak>>

Tick ==
  /\ sinceFailure < ResetTimeout
  /\ sinceFailure' = sinceFailure + 1
  /\ UNCHANGED <<breaker, calls, streak>>

execute(c)  == Reject(c) \/ RejectAndReopen(c) \/ Admit(c)
Complete(c) == Succeed(c) \/ Fail(c)

Next ==
  \/ \E c \in Callers : execute(c) \/ Complete(c)
  \/ Reset
  \/ Tick

Spec == Init /\ [][Next]_vars

\* Every request has a timeout (http-client.ts:44), so a pending call ends; the
\* clock advances; callers keep calling.
Fairness ==
  /\ \A c \in Callers : WF_vars(Complete(c))
  /\ WF_vars(Tick)
  /\ WF_vars(\E c \in Callers : execute(c))

FairSpec == Spec /\ Fairness
-----------------------------------------------------------------------------

TypeOK ==
  /\ breaker \in Breakers
  /\ sinceFailure \in 0..ResetTimeout
  /\ calls \in [Callers -> CallStates]
  /\ streak \in 0..FailureThreshold

Probes == {c \in Callers : calls[c] = "probe"}

\* While the circuit is HALF_OPEN, halfOpenAttempts is exactly the number of
\* trial calls of this period still pending, at least one and at most the
\* configured maximum; in the other states none is.  A HALF_OPEN circuit with
\* no pending trial call would reject for ever; one with more would overload
\* the service it protects (execute, lines 47-63, against onSuccess/onFailure).
ProbesAccounted ==
  IF breaker.state = "HALF_OPEN"
  THEN /\ Cardinality(Probes) = breaker.halfOpenAttempts
       /\ breaker.halfOpenAttempts \in 1..HalfOpenMax
  ELSE Probes = {}

\* The failures counted against the threshold really are consecutive: never
\* more of them than completions that failed in a row, whatever the states the
\* calls were admitted and completed in.  A CLOSED circuit is below the
\* threshold (onSuccess, onFailure and transitionTo reset or bump the count).
CountsConsecutiveFailures ==
  /\ breaker.failureCount <= streak
  /\ breaker.state = "CLOSED" => breaker.failureCount < FailureThreshold

\* A circuit leaves CLOSED only for OPEN, and only when the last
\* FailureThreshold completions all failed.
OpensOnlyAfterFailures ==
  [][breaker.state = "CLOSED" /\ breaker'.state # "CLOSED"
       => breaker'.state = "OPEN" /\ streak' = FailureThreshold]_vars

\* A circuit does not stay OPEN for ever under callers that keep calling.
OpenIsProbed == breaker.state = "OPEN" ~> breaker.state # "OPEN"
=============================================================================
