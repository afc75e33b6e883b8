------------------------ MODULE WebhookDispatchProofs ------------------------
(***************************************************************************)
(* What holds of webhook dispatch for any webhooks, calls and failures:    *)
(* no job without its event row, no resolved call without its job, and a   *)
(* replay's jobs in the order of its rows.                                 *)
(***************************************************************************)
EXTENDS WebhookDispatch, TLAPS

\* w's dispatch() is the one that inserted p's event row and still answers for
\* its job.
Owns(p, w) == calls[p].step[w] \in {"enqueue", "done"}

OwnersHaveRows == \A p \in DOMAIN calls : \A w \in Webhooks : Owns(p, w) => p \in Persisted
OneOwner ==
  \A p \in DOMAIN calls : \A v, w \in Webhooks : Owns(p, v) /\ Owns(p, w) => v = w
JobIsOwners ==
  \A p \in DOMAIN calls : \A v, w \in Webhooks : HasJob(p, v) /\ Owns(p, w) => v = w
DoneHasJob ==
  \A p \in DOMAIN calls : \A w \in Webhooks : calls[p].step[w] = "done" => HasJob(p, w)

DispatchInv ==
  PersistedBeforeQueued /\ OwnersHaveRows /\ OneOwner /\ JobIsOwners /\ DoneHasJob

-----------------------------------------------------------------------------
(* Types.                                                                  *)

\* A call keeps its type when the step of one of its webhooks changes.
LEMMA StepTyped ==
  ASSUME calls \in Seq(Calls), NEW p \in DOMAIN calls, NEW w \in Webhooks, NEW s \in Steps
  PROVE  [calls EXCEPT ![p].step[w] = s] \in Seq(Calls)
<1>1. calls[p] \in Calls  OBVIOUS
<1>2. [calls[p] EXCEPT !.step[w] = s] \in Calls  BY <1>1 DEF Calls
<1> QED  BY <1>2

\* The rows and jobs that appear are of calls there are.
LEMMA AppendTyped ==
  ASSUME TypeOK, NEW p \in DOMAIN calls, NEW w \in Webhooks
  PROVE  /\ Append(events, p) \in Seq(DOMAIN calls)
         /\ Added(p, w) \in Seq(Jobs)
<1>1. \A S, s, e : s \in Seq(S) /\ e \in S => Append(s, e) \in Seq(S)
  OBVIOUS
<1>2. [event |-> p, webhook |-> w] \in Jobs
  BY DEF TypeOK, Jobs
<1> QED  BY <1>1, <1>2 DEF TypeOK, Added

LEMMA InitTyped == Init => TypeOK
<1> SUFFICES ASSUME Init PROVE TypeOK  OBVIOUS
<1>1. hooks \in [Webhooks -> Rows \union {NoRow}]
  BY RowsAssumption DEF Init, Rows
<1>2. \A i \in DOMAIN Past : Past[i] \in Webhooks
  BY PastAssumption
<1>3. DOMAIN Past = 1..Len(Past) /\ Len(Past) \in Nat
  BY PastAssumption
<1>4. calls \in Seq(Calls)
  <2>1. \A i \in DOMAIN Past : [NoSteps EXCEPT ![Past[i]] = "done"] \in [Webhooks -> Steps]
    BY <1>2 DEF NoSteps, Steps
  <2>2. calls = [i \in 1..Len(Past) |-> calls[i]] /\ \A i \in 1..Len(Past) : calls[i] \in Calls
    BY <2>1, <1>3, TypesAssumption DEF Init, Calls
  <2> QED  BY <2>2, <1>3
<1>5. events \in Seq(DOMAIN calls)
  BY <1>3 DEF Init
<1>6. queue \in Seq(Jobs)
  BY <1>2, <1>3 DEF Init, Jobs
<1>7. replay \in Replays /\ (replay.state = "idle" => replay.current = 0)
  BY DEF Init, Replays
<1>8. budget \in [faults : 0..MaxMishaps, changes : 0..MaxMishaps]
  BY LimitsAssumption DEF Init
<1> QED  BY <1>1, <1>4, <1>5, <1>6, <1>7, <1>8 DEF TypeOK

\* A call that is made has a type, and may be one more.
LEMMA NewCallTyped ==
  ASSUME TypeOK, NEW c \in Calls, calls' = Append(calls, c)
  PROVE  calls' \in Seq(Calls) /\ events \in Seq(DOMAIN calls')
<1>1. calls' \in Seq(Calls)
  BY DEF TypeOK
<1>2. DOMAIN calls \subseteq DOMAIN calls'
  BY DEF TypeOK
<1>3. \A S, T, s : S \subseteq T /\ s \in Seq(S) => s \in Seq(T)
  OBVIOUS
<1> QED  BY <1>1, <1>2, <1>3 DEF TypeOK

LEMMA RequestTyped == TypeOK /\ Request => TypeOK'
<1> SUFFICES ASSUME TypeOK, Request PROVE TypeOK'  OBVIOUS
<1>1. NoSteps \in [Webhooks -> Steps]
  BY DEF NoSteps, Steps
<1>2. ASSUME NEW t \in Types \ {TestType}, dispatchEvent(t) PROVE TypeOK'
  <2>1. [state |-> "finding", type |-> t, run |-> 0, step |-> NoSteps] \in Calls
    BY <1>1 DEF Calls
  <2> QED  BY <2>1, <1>2, NewCallTyped DEF dispatchEvent, TypeOK
<1>3. ASSUME NEW w \in Webhooks, testDispatch(w) PROVE TypeOK'
  <2>1. [NoSteps EXCEPT ![w] = "find"] \in [Webhooks -> Steps]
    BY <1>1 DEF Steps, Awaiting
  <2>2. [state |-> "started", type |-> TestType, run |-> 0,
         step |-> [NoSteps EXCEPT ![w] = "find"]] \in Calls
    BY <2>1, TypesAssumption DEF Calls
  <2> QED  BY <2>2, <1>3, NewCallTyped DEF testDispatch, TypeOK
<1>4. ASSUME NEW rows \in SUBSET (DOMAIN events) \ {{}}, NEW target \in BOOLEAN,
             replayEvents(rows, target)
      PROVE  TypeOK'
  <2>1. rows \subseteq Nat
    BY DEF TypeOK
  <2> QED  BY <2>1, <1>4 DEF replayEvents, TypeOK, Replays
<1>5. ASSUME Changes PROVE budget' \in [faults : 0..MaxMishaps, changes : 0..MaxMishaps]
  BY <1>5, LimitsAssumption DEF Changes, TypeOK
<1>6. ASSUME NEW w \in Webhooks, remove(w) PROVE TypeOK'
  BY <1>5, <1>6 DEF remove, Changes, TypeOK
<1>7. ASSUME NEW w \in Webhooks, NEW row \in Edits, update(w, row) PROVE TypeOK'
  BY <1>5, <1>7, RowsAssumption DEF update, Changes, TypeOK, Rows
<1> QED  BY <1>2, <1>3, <1>4, <1>6, <1>7 DEF Request

LEMMA ProgressTyped == TypeOK /\ Progress => TypeOK'
<1> SUFFICES ASSUME TypeOK, Progress PROVE TypeOK'  OBVIOUS
<1>1. ASSUME NEW p \in DOMAIN calls, dispatchToInstance(p) PROVE TypeOK'
  <2>1. [calls[p] EXCEPT !.state = "started",
          !.step = [w \in Webhooks |->
             IF hooks[w] # NoRow /\ hooks[w].enabled THEN "find" ELSE "none"]] \in Calls
    <3>1. calls[p] \in Calls
      BY DEF TypeOK
    <3> QED  BY <3>1 DEF Calls, Steps, Awaiting
  <2>2. calls' = [calls EXCEPT ![p] = [calls[p] EXCEPT !.state = "started",
          !.step = [w \in Webhooks |->
             IF hooks[w] # NoRow /\ hooks[w].enabled THEN "find" ELSE "none"]]]
    BY <1>1 DEF dispatchToInstance
  <2>3. calls' \in Seq(Calls) /\ DOMAIN calls' = DOMAIN calls
    BY <2>1, <2>2 DEF TypeOK
  <2> QED  BY <2>3, <1>1 DEF dispatchToInstance, TypeOK
<1>2. ASSUME NEW p \in DOMAIN calls, NEW w \in Webhooks, DispatchStep(p, w) PROVE TypeOK'
  <2>1. ASSUME NEW s \in Steps, calls' = [calls EXCEPT ![p].step[w] = s]
        PROVE  calls' \in Seq(Calls) /\ DOMAIN calls' = DOMAIN calls
    BY <2>1, StepTyped DEF TypeOK
  <2>2. CASE findWebhook(p, w)
    BY <2>1, <2>2 DEF findWebhook, TypeOK, Steps, Awaiting
  <2>3. CASE createEvent(p, w)
    BY <2>1, <2>3, AppendTyped DEF createEvent, TypeOK, Steps, Awaiting
  <2>4. CASE createEventClashes(p, w)
    BY <2>1, <2>4 DEF createEventClashes, TypeOK, Steps
  <2>5. CASE enqueue(p, w)
    BY <2>1, <2>5, AppendTyped DEF enqueue, TypeOK, Steps
  <2> QED  BY <1>2, <2>2, <2>3, <2>4, <2>5 DEF DispatchStep
<1>3. ASSUME NEW i \in DOMAIN events, replayToInstance(i) PROVE TypeOK'
  <2>1. events[i] \in DOMAIN calls
    BY DEF TypeOK
  <2>2. calls[events[i]] \in Calls
    BY <2>1 DEF TypeOK
  <2>3. [state |-> "finding", type |-> calls[events[i]].type,
         run |-> replay.run, step |-> NoSteps] \in Calls
    BY <2>2 DEF TypeOK, Calls, Replays, NoSteps, Steps
  <2>4. replay' \in Replays /\ replay'.state = "running"
    <3>1. replay.state = "running" /\ Len(calls) + 1 \in Nat /\ replay \in Replays
      BY <1>3 DEF replayToInstance, IsNext, TypeOK
    <3> QED  BY <3>1, <1>3 DEF replayToInstance, Taken, Replays
  <2> QED  BY <2>3, <2>4, <1>3, NewCallTyped DEF replayToInstance, TypeOK
<1>4. ASSUME NEW i \in DOMAIN events, replayToTarget(i) PROVE TypeOK'
  <2>1. events[i] \in Nat
    BY DEF TypeOK
  <2>2. [event |-> events[i], webhook |-> Target] \in Jobs
    BY <2>1 DEF Jobs
  <2>3. queue' \in Seq(Jobs)
    BY <2>2, <1>4 DEF replayToTarget, TypeOK
  <2> QED  BY <2>3, <1>4 DEF replayToTarget, Taken, IsNext, TypeOK, Replays
<1>5. CASE replayGoesOn
  BY <1>5 DEF replayGoesOn, TypeOK, Replays
<1>6. CASE replayRejects
  BY <1>6 DEF replayRejects, Idle, TypeOK, Replays
<1>7. CASE replayEnds
  BY <1>7 DEF replayEnds, Idle, TypeOK, Replays
<1> QED  BY <1>1, <1>2, <1>3, <1>4, <1>5, <1>6, <1>7 DEF Progress, ReplayStep

LEMMA FailureTyped == TypeOK /\ Failure => TypeOK'
<1> SUFFICES ASSUME TypeOK, Failure PROVE TypeOK'  OBVIOUS
<1>1. ASSUME Fault PROVE budget' \in [faults : 0..MaxMishaps, changes : 0..MaxMishaps]
  <2>1. /\ budget.faults \in Nat /\ budget.changes \in 0..MaxMishaps
        /\ budget.faults + budget.changes < MaxMishaps /\ MaxMishaps \in Nat
    BY <1>1, LimitsAssumption DEF Fault, TypeOK
  <2>2. budget.faults + 1 \in 0..MaxMishaps
    BY <2>1
  <2> QED  BY <2>2, <1>1 DEF Fault, TypeOK
<1>2. ASSUME NEW p \in DOMAIN calls, findManyRejects(p) PROVE TypeOK'
  <2>1. [calls[p] EXCEPT !.state = "failed"] \in Calls
    <3>1. calls[p] \in Calls
      BY DEF TypeOK
    <3> QED  BY <3>1 DEF Calls
  <2>2. calls' \in Seq(Calls) /\ DOMAIN calls' = DOMAIN calls
    BY <2>1, <1>2 DEF findManyRejects, TypeOK
  <2> QED  BY <2>2, <1>1, <1>2 DEF findManyRejects, TypeOK
<1>3. ASSUME NEW p \in DOMAIN calls, NEW w \in Webhooks, awaitRejects(p, w) PROVE TypeOK'
  <2>1. "failed" \in Steps
    BY DEF Steps
  <2>2. calls' \in Seq(Calls) /\ DOMAIN calls' = DOMAIN calls
    BY <2>1, <1>3, StepTyped DEF awaitRejects, TypeOK
  <2>3. events' \in Seq(DOMAIN calls) /\ queue' \in Seq(Jobs)
    BY <1>3, AppendTyped DEF awaitRejects, TypeOK
  <2> QED  BY <2>2, <2>3, <1>1, <1>3 DEF awaitRejects, TypeOK
<1>4. CASE crash
  <2> DEFINE Dead(p) ==
       [calls[p] EXCEPT !.state = IF @ = "finding" THEN "lost" ELSE @,
          !.step = [w \in Webhooks |->
             IF calls[p].step[w] \in Awaiting THEN "lost" ELSE calls[p].step[w]]]
  <2>1. ASSUME NEW p \in DOMAIN calls PROVE Dead(p) \in Calls
    <3>1. calls[p] \in Calls
      BY DEF TypeOK
    <3> QED  BY <3>1 DEF Calls, Steps, Awaiting
  <2>2. calls' = [p \in DOMAIN calls |-> Dead(p)]
    BY <1>4 DEF crash
  <2>3. DOMAIN calls = 1..Len(calls) /\ Len(calls) \in Nat
    BY DEF TypeOK
  <2> HIDE DEF Dead
  <2>4. calls' \in Seq(Calls) /\ DOMAIN calls' = DOMAIN calls
    BY <2>1, <2>2, <2>3
  <2> QED  BY <2>4, <1>1, <1>4 DEF crash, Idle, TypeOK, Replays
<1> QED  BY <1>2, <1>3, <1>4 DEF Failure

\* Every variable keeps its type.
THEOREM TypeCorrect == Spec => []TypeOK
<1>1. TypeOK /\ UNCHANGED vars => TypeOK'
  BY DEF TypeOK, vars
<1>2. TypeOK /\ [Next]_vars => TypeOK'
  BY <1>1, RequestTyped, ProgressTyped, FailureTyped DEF Next
<1> QED  BY <1>2, InitTyped, PTL DEF Spec

-----------------------------------------------------------------------------
(* Rows and jobs.                                                          *)

\* Setting one step of one call changes no other.
LEMMA StepSet ==
  ASSUME calls \in Seq(Calls), NEW p \in DOMAIN calls, NEW w \in Webhooks, NEW s,
         calls' = [calls EXCEPT ![p].step[w] = s]
  PROVE  /\ DOMAIN calls' = DOMAIN calls
         /\ \A q \in DOMAIN calls : \A v \in Webhooks :
              calls'[q].step[v] = IF q = p /\ v = w THEN s ELSE calls[q].step[v]
<1>1. \A q \in DOMAIN calls : calls[q] \in Calls
  OBVIOUS
<1> QED  BY <1>1 DEF Calls

\* A step that writes no row and no job, and brings no dispatch() further than its
\* insert, disturbs nothing.
LEMMA NothingWritten ==
  ASSUME DispatchInv, events' = events, queue' = queue,
         \A p \in DOMAIN calls' : \A w \in Webhooks :
           calls'[p].step[w] \in {"enqueue", "done"} =>
             p \in DOMAIN calls /\ calls'[p].step[w] = calls[p].step[w]
  PROVE  DispatchInv'
<1>1. Persisted' = Persisted
  BY DEF Persisted
<1>2. \A p, w : HasJob(p, w)' <=> HasJob(p, w)
  BY DEF HasJob
<1>3. PersistedBeforeQueued'
  BY <1>1 DEF DispatchInv, PersistedBeforeQueued
<1>4. OwnersHaveRows'
  BY <1>1 DEF DispatchInv, OwnersHaveRows, Owns
<1>5. OneOwner'
  BY DEF DispatchInv, OneOwner, Owns
<1>6. JobIsOwners'
  BY <1>2 DEF DispatchInv, JobIsOwners, Owns
<1>7. DoneHasJob'
  BY <1>2 DEF DispatchInv, DoneHasJob
<1> QED  BY <1>3, <1>4, <1>5, <1>6, <1>7 DEF DispatchInv

\* A dispatch() stopped or skipped gives up what it owned.
LEMMA StepGivenUp ==
  ASSUME TypeOK, DispatchInv, events' = events, queue' = queue,
         NEW p \in DOMAIN calls, NEW w \in Webhooks, NEW s \in Steps \ {"enqueue", "done"},
         calls' = [calls EXCEPT ![p].step[w] = s]
  PROVE  DispatchInv'
BY StepSet, NothingWritten DEF TypeOK

\* A call that is made owns nothing yet.
LEMMA CallMade ==
  ASSUME TypeOK, DispatchInv, events' = events, queue' = queue, NEW c \in Calls,
         \A w \in Webhooks : c.step[w] \notin {"enqueue", "done"},
         calls' = Append(calls, c)
  PROVE  DispatchInv'
<1>1. \A q \in DOMAIN calls' : (q \in DOMAIN calls /\ calls'[q] = calls[q]) \/ calls'[q] = c
  BY DEF TypeOK
<1> QED  BY <1>1, NothingWritten

\* The dispatch() that inserts the row is the only owner, as no call without a row
\* has one; if the insert is answered by a rejection there is none.
LEMMA RowInserted ==
  ASSUME TypeOK, DispatchInv, NEW p \in DOMAIN calls, NEW w \in Webhooks,
         p \notin Persisted, events' = Append(events, p), queue' = queue,
         NEW s \in {"enqueue", "failed"}, calls' = [calls EXCEPT ![p].step[w] = s]
  PROVE  DispatchInv'
<1>1. /\ DOMAIN calls' = DOMAIN calls
      /\ \A q \in DOMAIN calls : \A v \in Webhooks :
           calls'[q].step[v] = IF q = p /\ v = w THEN s ELSE calls[q].step[v]
  <2>1. calls \in Seq(Calls) /\ \A q \in DOMAIN calls : calls[q] \in Calls
    BY DEF TypeOK
  <2> QED  BY <2>1 DEF Calls
<1>2. \A q, v : HasJob(q, v)' <=> HasJob(q, v)
  BY DEF HasJob
<1>3. /\ DOMAIN events = 1..Len(events) /\ Len(events) \in Nat
      /\ DOMAIN events' = 1..(Len(events) + 1)
      /\ \A i \in DOMAIN events : events'[i] = events[i]
      /\ events'[Len(events) + 1] = p
  BY DEF TypeOK
<1>4. Persisted' = Persisted \union {p}
  <2>1. Persisted' \subseteq Persisted \union {p}
    BY <1>3 DEF Persisted
  <2>2. Persisted \union {p} \subseteq Persisted'
    BY <1>3 DEF Persisted
  <2> QED  BY <2>1, <2>2
<1>5. PersistedBeforeQueued'
  <2>1. ASSUME NEW i \in DOMAIN events', NEW j \in DOMAIN events', events'[i] = events'[j]
        PROVE  i = j
    <3>1. \A k \in DOMAIN events : events[k] # p
      BY DEF Persisted
    <3> QED  BY <3>1, <1>3, <2>1 DEF DispatchInv, PersistedBeforeQueued
  <2>2. \A i \in DOMAIN queue' : queue'[i].event \in Persisted'
    BY <1>4 DEF DispatchInv, PersistedBeforeQueued
  <2> QED  BY <2>1, <2>2 DEF PersistedBeforeQueued
<1>6. OwnersHaveRows'
  BY <1>1, <1>4 DEF DispatchInv, OwnersHaveRows, Owns
<1>7. \A v \in Webhooks : ~Owns(p, v) /\ ~HasJob(p, v)
  BY DEF DispatchInv, OwnersHaveRows, PersistedBeforeQueued, HasJob
<1>8. OneOwner'
  BY <1>1, <1>7 DEF DispatchInv, OneOwner, Owns
<1>9. JobIsOwners'
  BY <1>1, <1>2, <1>7 DEF DispatchInv, JobIsOwners, Owns
<1>10. DoneHasJob'
  BY <1>1, <1>2 DEF DispatchInv, DoneHasJob
<1> QED  BY <1>5, <1>6, <1>8, <1>9, <1>10 DEF DispatchInv

\* An owner's job is the only one its call has, so the queue has it once it was
\* asked for, whether BullMQ added it now or knew its id.
LEMMA JobAdded ==
  ASSUME TypeOK, DispatchInv, NEW p \in DOMAIN calls, NEW w \in Webhooks,
         calls[p].step[w] = "enqueue", events' = events, queue' = Added(p, w),
         NEW s \in {"done", "failed"}, calls' = [calls EXCEPT ![p].step[w] = s]
  PROVE  DispatchInv'
<1>1. /\ DOMAIN calls' = DOMAIN calls
      /\ \A q \in DOMAIN calls : \A v \in Webhooks :
           calls'[q].step[v] = IF q = p /\ v = w THEN s ELSE calls[q].step[v]
  <2>1. calls \in Seq(Calls) /\ \A q \in DOMAIN calls : calls[q] \in Calls
    BY DEF TypeOK
  <2> QED  BY <2>1 DEF Calls
<1>2. Persisted' = Persisted /\ p \in Persisted /\ Owns(p, w)
  BY DEF Persisted, DispatchInv, OwnersHaveRows, Owns
<1>3. \A q, v : HasJob(q, v)' <=> HasJob(q, v) \/ (q = p /\ v = w)
  <2>1. CASE p \in JobIds
    <3>1. PICK v \in Webhooks : HasJob(p, v)
      BY <2>1 DEF JobIds
    <3>2. v = w
      BY <3>1, <1>2 DEF DispatchInv, JobIsOwners
    <3> QED  BY <2>1, <3>1, <3>2 DEF Added, HasJob
  <2>2. CASE p \notin JobIds
    <3>1. queue' = Append(queue, [event |-> p, webhook |-> w])
      BY <2>2 DEF Added
    <3>2. /\ DOMAIN queue = 1..Len(queue) /\ Len(queue) \in Nat
          /\ DOMAIN queue' = 1..(Len(queue) + 1)
          /\ \A i \in DOMAIN queue : queue'[i] = queue[i]
          /\ queue'[Len(queue) + 1] = [event |-> p, webhook |-> w]
      BY <3>1 DEF TypeOK
    <3> QED  BY <3>2 DEF HasJob
  <2> QED  BY <2>1, <2>2
<1>4. PersistedBeforeQueued'
  <2>1. \A q, v : HasJob(q, v)' => q \in Persisted
    BY <1>2, <1>3 DEF HasJob, DispatchInv, PersistedBeforeQueued
  <2>2. ASSUME NEW i \in DOMAIN queue' PROVE queue'[i].event \in Persisted
    BY <2>1 DEF HasJob
  <2> QED  BY <2>2, <1>2 DEF DispatchInv, PersistedBeforeQueued
<1>5. OwnersHaveRows'
  BY <1>1, <1>2 DEF DispatchInv, OwnersHaveRows, Owns
<1>6. OneOwner'
  BY <1>1, <1>2 DEF DispatchInv, OneOwner, Owns
<1>7. JobIsOwners'
  BY <1>1, <1>2, <1>3 DEF DispatchInv, JobIsOwners, OneOwner, Owns
<1>8. DoneHasJob'
  BY <1>1, <1>3 DEF DispatchInv, DoneHasJob
<1> QED  BY <1>4, <1>5, <1>6, <1>7, <1>8 DEF DispatchInv

LEMMA InitDispatch == Init => DispatchInv
<1> SUFFICES ASSUME Init PROVE DispatchInv  OBVIOUS
<1>1. /\ DOMAIN calls = DOMAIN Past /\ DOMAIN events = DOMAIN Past
      /\ DOMAIN queue = DOMAIN Past
      /\ \A i \in DOMAIN Past :
           events[i] = i /\ queue[i] = [event |-> i, webhook |-> Past[i]]
  BY DEF Init
<1>2. \A i \in DOMAIN Past : \A w \in Webhooks :
        calls[i].step[w] = IF w = Past[i] THEN "done" ELSE "none"
  BY PastAssumption DEF Init, NoSteps
<1>3. PersistedBeforeQueued
  BY <1>1 DEF PersistedBeforeQueued, Persisted
<1>4. OwnersHaveRows
  BY <1>1 DEF OwnersHaveRows, Persisted
<1>5. OneOwner
  BY <1>1, <1>2 DEF OneOwner, Owns
<1>6. JobIsOwners
  BY <1>1, <1>2 DEF JobIsOwners, Owns, HasJob
<1>7. DoneHasJob
  BY <1>1, <1>2 DEF DoneHasJob, HasJob
<1> QED  BY <1>3, <1>4, <1>5, <1>6, <1>7 DEF DispatchInv

\* The calls stay as they are, and so do rows and jobs.
LEMMA CallsUntouched ==
  ASSUME DispatchInv, calls' = calls, events' = events, queue' = queue
  PROVE  DispatchInv'
BY NothingWritten

LEMMA RequestDispatch == TypeOK /\ DispatchInv /\ Request => DispatchInv'
<1> SUFFICES ASSUME TypeOK, DispatchInv, Request PROVE DispatchInv'  OBVIOUS
<1>1. ASSUME NEW t \in Types \ {TestType}, dispatchEvent(t) PROVE DispatchInv'
  <2> DEFINE c == [state |-> "finding", type |-> t, run |-> 0, step |-> NoSteps]
  <2>1. c \in Calls /\ \A w \in Webhooks : c.step[w] \notin {"enqueue", "done"}
    BY DEF Calls, NoSteps, Steps
  <2>2. calls' = Append(calls, c) /\ events' = events /\ queue' = queue
    BY <1>1 DEF dispatchEvent
  <2> HIDE DEF c
  <2> QED  BY <2>1, <2>2, CallMade
<1>2. ASSUME NEW w \in Webhooks, testDispatch(w) PROVE DispatchInv'
  <2> DEFINE c == [state |-> "started", type |-> TestType, run |-> 0,
                   step |-> [NoSteps EXCEPT ![w] = "find"]]
  <2>1. c \in Calls /\ \A v \in Webhooks : c.step[v] \notin {"enqueue", "done"}
    BY TypesAssumption DEF Calls, NoSteps, Steps, Awaiting
  <2>2. calls' = Append(calls, c) /\ events' = events /\ queue' = queue
    BY <1>2 DEF testDispatch
  <2> HIDE DEF c
  <2> QED  BY <2>1, <2>2, CallMade
<1>3. ASSUME NEW rows \in SUBSET (DOMAIN events) \ {{}}, NEW target \in BOOLEAN,
             replayEvents(rows, target)
      PROVE  DispatchInv'
  BY <1>3, CallsUntouched DEF replayEvents
<1>4. ASSUME NEW w \in Webhooks, remove(w) PROVE DispatchInv'
  BY <1>4, CallsUntouched DEF remove, Changes
<1>5. ASSUME NEW w \in Webhooks, NEW row \in Edits, update(w, row) PROVE DispatchInv'
  BY <1>5, CallsUntouched DEF update, Changes
<1> QED  BY <1>1, <1>2, <1>3, <1>4, <1>5 DEF Request

LEMMA ProgressDispatch == TypeOK /\ DispatchInv /\ Progress => DispatchInv'
<1> SUFFICES ASSUME TypeOK, DispatchInv, Progress PROVE DispatchInv'  OBVIOUS
<1>1. ASSUME NEW p \in DOMAIN calls, dispatchToInstance(p) PROVE DispatchInv'
  <2>1. \A q \in DOMAIN calls : calls[q] \in Calls
    BY DEF TypeOK
  <2>2. /\ DOMAIN calls' = DOMAIN calls
        /\ \A w \in Webhooks : calls'[p].step[w] \in {"find", "none"}
        /\ \A q \in DOMAIN calls \ {p} : calls'[q] = calls[q]
    BY <2>1, <1>1 DEF dispatchToInstance, Calls
  <2> QED  BY <2>2, <1>1, NothingWritten DEF dispatchToInstance
<1>2. ASSUME NEW p \in DOMAIN calls, NEW w \in Webhooks, DispatchStep(p, w) PROVE DispatchInv'
  <2>1. CASE findWebhook(p, w)
    <3>1. PICK s \in {"create", "skipped"} : calls' = [calls EXCEPT ![p].step[w] = s]
      BY <2>1 DEF findWebhook
    <3>2. s \in Steps \ {"enqueue", "done"}
      BY DEF Steps, Awaiting
    <3> QED  BY <2>1, <3>1, <3>2, StepGivenUp DEF findWebhook
  <2>2. CASE createEvent(p, w)
    BY <2>2, RowInserted DEF createEvent
  <2>3. CASE createEventClashes(p, w)
    BY <2>3, StepGivenUp DEF createEventClashes, Steps
  <2>4. CASE enqueue(p, w)
    BY <2>4, JobAdded DEF enqueue
  <2> QED  BY <1>2, <2>1, <2>2, <2>3, <2>4 DEF DispatchStep
<1>3. ASSUME NEW i \in DOMAIN events, replayToInstance(i) PROVE DispatchInv'
  <2> DEFINE c == [state |-> "finding", type |-> calls[events[i]].type,
                   run |-> replay.run, step |-> NoSteps]
  <2>1. calls[events[i]] \in Calls
    BY DEF TypeOK
  <2>2. c \in Calls /\ \A w \in Webhooks : c.step[w] \notin {"enqueue", "done"}
    BY <2>1 DEF TypeOK, Calls, Replays, NoSteps, Steps
  <2>3. calls' = Append(calls, c) /\ events' = events /\ queue' = queue
    BY <1>3 DEF replayToInstance
  <2> HIDE DEF c
  <2> QED  BY <2>2, <2>3, CallMade
<1>4. ASSUME NEW i \in DOMAIN events, replayToTarget(i) PROVE DispatchInv'
  <2>1. queue' = Append(queue, [event |-> events[i], webhook |-> Target])
        /\ events' = events /\ calls' = calls
    BY <1>4 DEF replayToTarget
  <2>2. /\ DOMAIN queue = 1..Len(queue) /\ Len(queue) \in Nat
        /\ DOMAIN queue' = 1..(Len(queue) + 1)
        /\ \A j \in DOMAIN queue : queue'[j] = queue[j]
        /\ queue'[Len(queue) + 1] = [event |-> events[i], webhook |-> Target]
    BY <2>1 DEF TypeOK
  <2>3. \A q : \A w \in Webhooks : HasJob(q, w)' <=> HasJob(q, w)
    BY <2>2, TargetAssumption DEF HasJob
  <2>4. Persisted' = Persisted /\ events[i] \in Persisted
    BY <2>1 DEF Persisted
  <2>5. PersistedBeforeQueued'
    BY <2>1, <2>2, <2>4 DEF DispatchInv, PersistedBeforeQueued
  <2>6. OwnersHaveRows' /\ OneOwner' /\ JobIsOwners' /\ DoneHasJob'
    BY <2>1, <2>3, <2>4 DEF DispatchInv, OwnersHaveRows, OneOwner, JobIsOwners, DoneHasJob, Owns
  <2> QED  BY <2>5, <2>6 DEF DispatchInv
<1>5. CASE replayGoesOn \/ replayRejects \/ replayEnds
  BY <1>5, CallsUntouched DEF replayGoesOn, replayRejects, replayEnds
<1> QED  BY <1>1, <1>2, <1>3, <1>4, <1>5 DEF Progress, ReplayStep

LEMMA FailureDispatch == TypeOK /\ DispatchInv /\ Failure => DispatchInv'
<1> SUFFICES ASSUME TypeOK, DispatchInv, Failure PROVE DispatchInv'  OBVIOUS
<1>1. \A q \in DOMAIN calls : calls[q] \in Calls
  BY DEF TypeOK
<1>2. ASSUME NEW p \in DOMAIN calls, findManyRejects(p) PROVE DispatchInv'
  <2>1. /\ DOMAIN calls' = DOMAIN calls
        /\ \A q \in DOMAIN calls : calls'[q].step = calls[q].step
    BY <1>1, <1>2 DEF findManyRejects, Calls
  <2> QED  BY <2>1, <1>2, NothingWritten DEF findManyRejects
<1>3. ASSUME NEW p \in DOMAIN calls, NEW w \in Webhooks, awaitRejects(p, w) PROVE DispatchInv'
  <2>1. calls' = [calls EXCEPT ![p].step[w] = "failed"]
    BY <1>3 DEF awaitRejects
  <2>2. CASE events' = events /\ queue' = queue
    <3>1. "failed" \in Steps \ {"enqueue", "done"}
      BY DEF Steps
    <3> QED  BY <3>1, <2>1, <2>2, StepGivenUp
  <2>3. CASE events' = Append(events, p) /\ p \notin Persisted /\ queue' = queue
    BY <2>1, <2>3, RowInserted
  <2>4. CASE calls[p].step[w] = "enqueue" /\ queue' = Added(p, w) /\ events' = events
    BY <2>1, <2>4, JobAdded
  <2> QED  BY <1>3, <2>2, <2>3, <2>4 DEF awaitRejects
<1>4. CASE crash
  <2>1. /\ DOMAIN calls' = DOMAIN calls
        /\ \A q \in DOMAIN calls : \A w \in Webhooks :
             calls'[q].step[w] = IF calls[q].step[w] \in Awaiting THEN "lost" ELSE calls[q].step[w]
    BY <1>1, <1>4 DEF crash, Calls
  <2>2. events' = events /\ queue' = queue
    BY <1>4 DEF crash
  <2>3. \A q \in DOMAIN calls' : \A w \in Webhooks :
          calls'[q].step[w] \in {"enqueue", "done"} =>
            q \in DOMAIN calls /\ calls'[q].step[w] = calls[q].step[w]
    BY <2>1
  <2> QED  BY <2>2, <2>3, NothingWritten
<1> QED  BY <1>2, <1>3, <1>4 DEF Failure

\* The rows, the jobs and the dispatches under way agree.
THEOREM DispatchInvariant == Spec => []DispatchInv
<1>1. TypeOK /\ DispatchInv /\ [Next]_vars => DispatchInv'
  <2> SUFFICES ASSUME TypeOK, DispatchInv, [Next]_vars PROVE DispatchInv'  OBVIOUS
  <2>1. CASE UNCHANGED vars
    BY <2>1, CallsUntouched DEF vars
  <2> QED  BY <2>1, RequestDispatch, ProgressDispatch, FailureDispatch DEF Next
<1> QED  BY <1>1, InitDispatch, TypeCorrect, PTL DEF Spec

\* However calls overlap, fail half-way or die, every job's event has its row, once.
THEOREM JobsHaveRows == Spec => []PersistedBeforeQueued
<1>1. DispatchInv => PersistedBeforeQueued
  BY DEF DispatchInv
<1> QED  BY <1>1, DispatchInvariant, PTL

\* A call of dispatchEvent that resolves has put a job on the queue for every
\* webhook that wanted the event.
THEOREM ResolvedIsQueued == Spec => []ResolvedMeansQueued
<1>1. DispatchInv => ResolvedMeansQueued
  BY DEF DispatchInv, DoneHasJob, ResolvedMeansQueued, Resolved
<1> QED  BY <1>1, DispatchInvariant, PTL

-----------------------------------------------------------------------------
(* The order of a replay.                                                  *)

\* Nothing of the call is under way, and so it adds no job any more.
Over(p) == calls[p].state # "finding" /\ \A w \in Webhooks : calls[p].step[w] \notin Awaiting

\* Of the calls a replay makes all but the one it awaits are over, and once it has
\* ended all but the last one.
RunsKnown == \A p \in DOMAIN calls : calls[p].run <= replay.run
EarlierOver ==
  \A p, q \in DOMAIN calls : calls[p].run = calls[q].run /\ calls[p].run # 0 /\ p < q => Over(p)
AwaitedOnly ==
  replay.state = "running" =>
    \A p \in DOMAIN calls :
      calls[p].run = replay.run /\ calls[p].run # 0 /\ p # replay.current => Over(p)

ReplayInv == RunsKnown /\ EarlierOver /\ AwaitedOnly /\ ReplayKeepsOrder

\* A job's event is one of the calls there are.
LEMMA JobsAreCalls ==
  ASSUME TypeOK, DispatchInv, NEW i \in DOMAIN queue
  PROVE  queue[i].event \in DOMAIN calls
BY DEF TypeOK, DispatchInv, PersistedBeforeQueued, Persisted

\* The calls and the queue stay as they are or move on without a new call or job:
\* a call that is over stays over, and a replay gives up awaiting only such a call.
LEMMA RunsGoOn ==
  ASSUME ReplayInv, DOMAIN calls' = DOMAIN calls, replay'.run = replay.run,
         \A p \in DOMAIN calls : calls'[p].run = calls[p].run /\ (Over(p) => Over(p)'),
         replay'.state = "running" =>
           /\ replay.state = "running"
           /\ \/ replay'.current = replay.current
              \/ \A p \in DOMAIN calls : p = replay.current => Over(p)
  PROVE  RunsKnown' /\ EarlierOver' /\ AwaitedOnly'
<1>1. RunsKnown'
  BY DEF ReplayInv, RunsKnown
<1>2. EarlierOver'
  BY DEF ReplayInv, EarlierOver
<1>3. AwaitedOnly'
  BY DEF ReplayInv, AwaitedOnly
<1> QED  BY <1>1, <1>2, <1>3

LEMMA QueueStays ==
  ASSUME TypeOK, DispatchInv, ReplayInv, queue' = queue,
         \A p \in DOMAIN calls : p \in DOMAIN calls' /\ calls'[p].run = calls[p].run
  PROVE  ReplayKeepsOrder'
BY JobsAreCalls DEF ReplayInv, ReplayKeepsOrder

\* A call that is not over is the last of its run, so its job may come last.
LEMMA QueueGrows ==
  ASSUME TypeOK, DispatchInv, ReplayInv, NEW x \in Jobs, queue' = Append(queue, x),
         \A p \in DOMAIN calls : p \in DOMAIN calls' /\ calls'[p].run = calls[p].run,
         x.webhook = Target \/ (x.event \in DOMAIN calls /\ ~Over(x.event))
  PROVE  ReplayKeepsOrder'
<1>1. /\ DOMAIN queue = 1..Len(queue) /\ Len(queue) \in Nat
      /\ DOMAIN queue' = 1..(Len(queue) + 1)
      /\ \A i \in DOMAIN queue : queue'[i] = queue[i]
      /\ queue'[Len(queue) + 1] = x
  BY DEF TypeOK
<1>2. DOMAIN calls \subseteq Nat
  BY DEF TypeOK
<1> SUFFICES ASSUME NEW i \in DOMAIN queue', NEW j \in DOMAIN queue', i < j,
                    calls'[queue'[i].event].run = calls'[queue'[j].event].run,
                    calls'[queue'[i].event].run # 0,
                    queue'[i].webhook # Target, queue'[j].webhook # Target
             PROVE  queue'[i].event <= queue'[j].event
  BY DEF ReplayKeepsOrder
<1>3. i \in DOMAIN queue /\ queue'[i] = queue[i] /\ queue[i].event \in DOMAIN calls
  BY <1>1, JobsAreCalls
<1>4. CASE j \in DOMAIN queue
  BY <1>1, <1>3, <1>4, JobsAreCalls DEF ReplayInv, ReplayKeepsOrder
<1>5. CASE j = Len(queue) + 1
  <2>1. queue'[j] = x /\ x.event \in DOMAIN calls /\ ~Over(x.event)
    BY <1>1, <1>5
  <2>2. ~(x.event < queue[i].event)
    BY <1>3, <2>1 DEF ReplayInv, EarlierOver
  <2> QED  BY <1>2, <1>3, <2>1, <2>2
<1> QED  BY <1>1, <1>4, <1>5

\* A call of a request belongs to no run.
LEMMA RequestCall ==
  ASSUME TypeOK, DispatchInv, ReplayInv, NEW c \in Calls, c.run = 0,
         calls' = Append(calls, c), queue' = queue, replay' = replay
  PROVE  ReplayInv'
<1>1. /\ \A p \in DOMAIN calls : p \in DOMAIN calls' /\ calls'[p] = calls[p]
      /\ \A p \in DOMAIN calls' \ DOMAIN calls : calls'[p].run = 0
  BY DEF TypeOK
<1>2. \A p \in DOMAIN calls : Over(p) => Over(p)'
  BY <1>1 DEF Over
<1>3. RunsKnown'
  BY <1>1 DEF ReplayInv, RunsKnown, TypeOK, Replays
<1>4. EarlierOver' /\ AwaitedOnly'
  BY <1>1, <1>2 DEF ReplayInv, EarlierOver, AwaitedOnly
<1>5. ReplayKeepsOrder'
  BY <1>1, QueueStays
<1> QED  BY <1>3, <1>4, <1>5 DEF ReplayInv

\* A replay makes its next call when it awaits none: those it made are over.
LEMMA ReplayCall ==
  ASSUME TypeOK, DispatchInv, ReplayInv, NEW i \in DOMAIN events, replayToInstance(i)
  PROVE  ReplayInv'
<1> DEFINE q == Len(calls) + 1
           c == [state |-> "finding", type |-> calls[events[i]].type,
                 run |-> replay.run, step |-> NoSteps]
<1>1. /\ replay.state = "running" /\ replay.current = 0
      /\ calls' = Append(calls, c) /\ queue' = queue
      /\ replay' = [Taken(i) EXCEPT !.current = q]
  BY DEF replayToInstance, IsNext
<1>2. c.run = replay.run
  OBVIOUS
<1> HIDE DEF c
<1>3. /\ DOMAIN calls = 1..Len(calls) /\ Len(calls) \in Nat /\ DOMAIN calls' = 1..q
      /\ \A p \in DOMAIN calls : calls'[p] = calls[p]
      /\ calls'[q] = c
  BY <1>1 DEF TypeOK
<1>4. replay'.run = replay.run /\ replay'.current = q /\ replay.run \in Nat
  BY <1>1 DEF Taken, TypeOK, Replays
<1>5. \A p \in DOMAIN calls :
        /\ Over(p) => Over(p)'
        /\ calls[p].run = replay.run /\ calls[p].run # 0 => Over(p)'
  BY <1>1, <1>3 DEF ReplayInv, AwaitedOnly, Over
<1>6. RunsKnown'
  BY <1>2, <1>3, <1>4 DEF ReplayInv, RunsKnown
<1>7. EarlierOver'
  BY <1>2, <1>3, <1>5 DEF ReplayInv, EarlierOver
<1>8. AwaitedOnly'
  BY <1>3, <1>4, <1>5 DEF AwaitedOnly
<1>9. ReplayKeepsOrder'
  BY <1>1, <1>3, QueueStays
<1> QED  BY <1>6, <1>7, <1>8, <1>9 DEF ReplayInv

\* One dispatch() moves on: it was under way, so its call is not over.
LEMMA StepReplay ==
  ASSUME TypeOK, DispatchInv, ReplayInv, NEW p \in DOMAIN calls, NEW w \in Webhooks,
         calls[p].step[w] \in Awaiting, NEW s, calls' = [calls EXCEPT ![p].step[w] = s],
         replay' = replay, queue' \in {queue, Added(p, w)}
  PROVE  ReplayInv'
<1>1. \A q \in DOMAIN calls : calls[q] \in Calls
  BY DEF TypeOK
<1>2. /\ DOMAIN calls' = DOMAIN calls
      /\ \A q \in DOMAIN calls : calls'[q].run = calls[q].run
      /\ \A q \in DOMAIN calls \ {p} : calls'[q] = calls[q]
  BY <1>1 DEF Calls
<1>3. ~Over(p)
  BY DEF Over
<1>4. \A q \in DOMAIN calls : Over(q) => Over(q)'
  BY <1>2, <1>3 DEF Over
<1>5. RunsKnown' /\ EarlierOver' /\ AwaitedOnly'
  BY <1>2, <1>4, RunsGoOn
<1>6. ReplayKeepsOrder'
  <2>1. CASE queue' = queue
    BY <1>2, <2>1, QueueStays
  <2>2. CASE queue' = Append(queue, [event |-> p, webhook |-> w])
    <3>1. [event |-> p, webhook |-> w] \in Jobs
      BY DEF TypeOK, Jobs
    <3> QED  BY <1>2, <1>3, <2>2, <3>1, QueueGrows
  <2> QED  BY <2>1, <2>2 DEF Added
<1> QED  BY <1>5, <1>6 DEF ReplayInv

LEMMA RequestReplay == TypeOK /\ DispatchInv /\ ReplayInv /\ Request => ReplayInv'
<1> SUFFICES ASSUME TypeOK, DispatchInv, ReplayInv, Request PROVE ReplayInv'  OBVIOUS
<1>1. ASSUME NEW t \in Types \ {TestType}, dispatchEvent(t) PROVE ReplayInv'
  <2> DEFINE c == [state |-> "finding", type |-> t, run |-> 0, step |-> NoSteps]
  <2>1. c \in Calls /\ c.run = 0
    BY DEF Calls, NoSteps, Steps
  <2>2. calls' = Append(calls, c) /\ queue' = queue /\ replay' = replay
    BY <1>1 DEF dispatchEvent
  <2> HIDE DEF c
  <2> QED  BY <2>1, <2>2, RequestCall
<1>2. ASSUME NEW w \in Webhooks, testDispatch(w) PROVE ReplayInv'
  <2> DEFINE c == [state |-> "started", type |-> TestType, run |-> 0,
                   step |-> [NoSteps EXCEPT ![w] = "find"]]
  <2>1. c \in Calls /\ c.run = 0
    BY TypesAssumption DEF Calls, NoSteps, Steps, Awaiting
  <2>2. calls' = Append(calls, c) /\ queue' = queue /\ replay' = replay
    BY <1>2 DEF testDispatch
  <2> HIDE DEF c
  <2> QED  BY <2>1, <2>2, RequestCall
<1>3. ASSUME NEW rows \in SUBSET (DOMAIN events) \ {{}}, NEW target \in BOOLEAN,
             replayEvents(rows, target)
      PROVE  ReplayInv'
  <2>1. calls' = calls /\ queue' = queue /\ replay'.run = replay.run + 1
    BY <1>3 DEF replayEvents
  <2>2. \A p \in DOMAIN calls : calls[p].run \in Nat /\ calls[p].run <= replay.run
    <3>1. \A p \in DOMAIN calls : calls[p] \in Calls
      BY DEF TypeOK
    <3> QED  BY <3>1 DEF ReplayInv, RunsKnown, Calls
  <2>3. replay.run \in Nat
    BY DEF TypeOK, Replays
  <2>4. RunsKnown' /\ AwaitedOnly'
    BY <2>1, <2>2, <2>3 DEF RunsKnown, AwaitedOnly
  <2>5. EarlierOver'
    BY <2>1 DEF ReplayInv, EarlierOver, Over
  <2>6. ReplayKeepsOrder'
    BY <2>1, QueueStays
  <2> QED  BY <2>4, <2>5, <2>6 DEF ReplayInv
<1>4. ASSUME UNCHANGED <<calls, queue, replay>> PROVE ReplayInv'
  BY <1>4, QueueStays, RunsGoOn DEF ReplayInv, Over
<1>5. ASSUME NEW w \in Webhooks, remove(w) PROVE ReplayInv'
  BY <1>4, <1>5 DEF remove, Changes
<1>6. ASSUME NEW w \in Webhooks, NEW row \in Edits, update(w, row) PROVE ReplayInv'
  BY <1>4, <1>6 DEF update, Changes
<1> QED  BY <1>1, <1>2, <1>3, <1>5, <1>6 DEF Request

LEMMA ProgressReplay == TypeOK /\ DispatchInv /\ ReplayInv /\ Progress => ReplayInv'
<1> SUFFICES ASSUME TypeOK, DispatchInv, ReplayInv, Progress PROVE ReplayInv'  OBVIOUS
<1>1. ASSUME NEW p \in DOMAIN calls, dispatchToInstance(p) PROVE ReplayInv'
  <2>1. \A q \in DOMAIN calls : calls[q] \in Calls
    BY DEF TypeOK
  <2>2. /\ DOMAIN calls' = DOMAIN calls
        /\ \A q \in DOMAIN calls : calls'[q].run = calls[q].run
        /\ \A q \in DOMAIN calls \ {p} : calls'[q] = calls[q]
        /\ ~Over(p) /\ queue' = queue /\ replay' = replay
    BY <2>1, <1>1 DEF dispatchToInstance, Calls, Over
  <2>3. \A q \in DOMAIN calls : Over(q) => Over(q)'
    BY <2>2 DEF Over
  <2> QED  BY <2>2, <2>3, RunsGoOn, QueueStays DEF ReplayInv
<1>2. ASSUME NEW p \in DOMAIN calls, NEW w \in Webhooks, DispatchStep(p, w) PROVE ReplayInv'
  <2>1. CASE findWebhook(p, w)
    BY <2>1, StepReplay DEF findWebhook, Awaiting
  <2>2. CASE createEvent(p, w)
    BY <2>2, StepReplay DEF createEvent, Awaiting
  <2>3. CASE createEventClashes(p, w)
    BY <2>3, StepReplay DEF createEventClashes, Awaiting
  <2>4. CASE enqueue(p, w)
    BY <2>4, StepReplay DEF enqueue, Awaiting
  <2> QED  BY <1>2, <2>1, <2>2, <2>3, <2>4 DEF DispatchStep
<1>3. ASSUME NEW i \in DOMAIN events, replayToTarget(i) PROVE ReplayInv'
  <2>1. /\ replay'.run = replay.run /\ replay'.current = replay.current
        /\ replay.state = "running" /\ calls' = calls
        /\ queue' = Append(queue, [event |-> events[i], webhook |-> Target])
    BY <1>3 DEF replayToTarget, IsNext, Taken, TypeOK, Replays
  <2>2. [event |-> events[i], webhook |-> Target] \in Jobs
    BY DEF TypeOK, Jobs
  <2>3. ReplayKeepsOrder'
    BY <2>1, <2>2, QueueGrows
  <2> QED  BY <2>1, <2>3, RunsGoOn DEF ReplayInv, Over
<1>4. CASE replayGoesOn
  <2>1. /\ replay'.run = replay.run /\ replay'.state = replay.state
        /\ calls' = calls /\ queue' = queue
    BY <1>4 DEF replayGoesOn, TypeOK, Replays
  <2>2. Over(replay.current)
    BY <1>4 DEF replayGoesOn, Resolved, Over, Awaiting
  <2> QED  BY <2>1, <2>2, RunsGoOn, QueueStays DEF ReplayInv, Over
<1>5. CASE replayRejects \/ replayEnds
  <2>1. /\ replay'.run = replay.run /\ replay'.state = "idle"
        /\ calls' = calls /\ queue' = queue
    BY <1>5 DEF replayRejects, replayEnds, Idle, TypeOK, Replays
  <2> QED  BY <2>1, RunsGoOn, QueueStays DEF ReplayInv, Over
<1> QED  BY <1>1, <1>2, <1>3, <1>4, <1>5, ReplayCall DEF Progress, ReplayStep

LEMMA FailureReplay == TypeOK /\ DispatchInv /\ ReplayInv /\ Failure => ReplayInv'
<1> SUFFICES ASSUME TypeOK, DispatchInv, ReplayInv, Failure PROVE ReplayInv'  OBVIOUS
<1>1. \A q \in DOMAIN calls : calls[q] \in Calls
  BY DEF TypeOK
<1>2. ASSUME NEW p \in DOMAIN calls, findManyRejects(p) PROVE ReplayInv'
  <2>1. /\ DOMAIN calls' = DOMAIN calls
        /\ \A q \in DOMAIN calls : calls'[q].run = calls[q].run
        /\ \A q \in DOMAIN calls \ {p} : calls'[q] = calls[q]
        /\ ~Over(p) /\ queue' = queue /\ replay' = replay
    BY <1>1, <1>2 DEF findManyRejects, Calls, Over
  <2>2. \A q \in DOMAIN calls : Over(q) => Over(q)'
    BY <2>1 DEF Over
  <2> QED  BY <2>1, <2>2, RunsGoOn, QueueStays DEF ReplayInv
<1>3. ASSUME NEW p \in DOMAIN calls, NEW w \in Webhooks, awaitRejects(p, w) PROVE ReplayInv'
  <2>1. queue' \in {queue, Added(p, w)}
    BY <1>3 DEF awaitRejects
  <2> QED  BY <1>3, <2>1, StepReplay DEF awaitRejects
<1>4. CASE crash
  <2>1. /\ DOMAIN calls' = DOMAIN calls /\ queue' = queue
        /\ \A q \in DOMAIN calls : calls'[q].run = calls[q].run /\ Over(q)'
    BY <1>1, <1>4 DEF crash, Calls, Over, Awaiting
  <2>2. replay'.run = replay.run /\ replay'.state = "idle"
    BY <1>4 DEF crash, Idle, TypeOK, Replays
  <2> QED  BY <2>1, <2>2, RunsGoOn, QueueStays DEF ReplayInv
<1> QED  BY <1>2, <1>3, <1>4 DEF Failure

\* One replay puts its rows on the queue in the order they were persisted: however
\* long its dispatches take beside those of other calls, whatever fails, and however
\* many replays follow one another.
THEOREM ReplayInOrder == Spec => []ReplayKeepsOrder
<1>1. Init => ReplayInv
  BY DEF Init, ReplayInv, RunsKnown, EarlierOver, AwaitedOnly, ReplayKeepsOrder
<1>2. TypeOK /\ DispatchInv /\ ReplayInv /\ [Next]_vars => ReplayInv'
  <2> SUFFICES ASSUME TypeOK, DispatchInv, ReplayInv, [Next]_vars PROVE ReplayInv'  OBVIOUS
  <2>1. CASE UNCHANGED vars
    BY <2>1, RunsGoOn, QueueStays DEF vars, ReplayInv, Over
  <2> QED  BY <2>1, RequestReplay, ProgressReplay, FailureReplay DEF Next
<1>3. ReplayInv => ReplayKeepsOrder
  BY DEF ReplayInv
<1> QED  BY <1>1, <1>2, <1>3, TypeCorrect, DispatchInvariant, PTL DEF Spec
=============================================================================
