--------------------------- MODULE WebhookDispatch ---------------------------
(***************************************************************************)
(* api/modules/webhooks: webhook-dispatch.service.ts and webhooks.service  *)
(* .ts, for one tenant with one instance.  Every event the API raises is a *)
(* call of dispatchEvent, testDispatch or replayEvents, and calls overlap. *)
(* A call runs one dispatch() per webhook, all of them at once, and each   *)
(* reads the webhook, inserts the event row and adds the job.              *)
(*                                                                         *)
(* The id buildPayload draws for a call is the call's number, as ULIDs     *)
(* are unique and ascend.  It is the primary key of the event row and the  *)
(* id of the job, for all of the call's webhooks.                          *)
(***************************************************************************)
EXTENDS Integers, Sequences, FiniteSets

CONSTANTS
  Webhooks,    \* the instance's webhooks
  Types,       \* event types
  TestType,    \* INSTANCE_CONNECTED, which testDispatch alone sends
  Subscribed,  \* the events field of each webhook at first, {} for all types
  Edits,       \* rows an update of a webhook may leave
  Past,        \* webhooks test dispatches have gone to already, oldest first
  ReplayTake,  \* the most events a replay reads
  NoRow,       \* no webhook has this row: findUnique found nothing
  Target,      \* stands for the webhook of a job replayed to a targetUrl
  MaxCalls,    \* bound: calls of dispatchEvent, testDispatch and replays' calls
  MaxOverlap,  \* bound: calls under way when one is made, a replay's aside
  MaxReplays,  \* bound: replays
  MaxMishaps   \* bound: awaits that reject, crashes, and changes of webhooks

ASSUME TypesAssumption == TestType \in Types
ASSUME TargetAssumption == Target \notin Webhooks
ASSUME RowsAssumption ==
  /\ Subscribed \in [Webhooks -> SUBSET Types]
  /\ Edits \subseteq [enabled : BOOLEAN, events : SUBSET Types]
ASSUME PastAssumption ==
  Past \in Seq({w \in Webhooks : Subscribed[w] = {} \/ TestType \in Subscribed[w]})
ASSUME NoRowAssumption == NoRow \notin [enabled : BOOLEAN, events : SUBSET Types]
ASSUME LimitsAssumption ==
  {ReplayTake, MaxCalls, MaxOverlap, MaxReplays, MaxMishaps} \subseteq Nat

VARIABLES
  hooks,    \* the webhook rows
  calls,    \* calls[p] is the call whose payload has id p
  events,   \* ids of the event rows, in the order of createdAt
  queue,    \* the jobs added to webhook-dispatch
  replay,   \* the replayEvents request being served
  budget    \* faults and changes of webhooks so far

vars == <<hooks, calls, events, queue, replay, budget>>

Rows == [enabled : BOOLEAN, events : SUBSET Types]

\* What dispatch() awaits for a webhook, or how it ended: "lost" when the process
\* died in it.  "enqueue" is the counting of the delivery as well, which decides no
\* more than the delay of the job.
Awaiting == {"find", "create", "enqueue"}
Steps    == Awaiting \union {"none", "skipped", "done", "failed", "lost"}

\* run is the replay a call belongs to, or 0.
Calls == [state : {"finding", "started", "failed", "lost"}, type : Types,
          run : Nat, step : [Webhooks -> Steps]]

Jobs == [event : Nat, webhook : Webhooks \union {Target}]

\* A replay holds the positions in events of the rows it has yet to go through, and
\* the call it awaits (0: none).
Replays == [state : {"idle", "running"}, run : Nat, rows : SUBSET Nat,
            target : BOOLEAN, current : Nat]

Persisted == {events[i] : i \in DOMAIN events}
HasJob(p, w) == \E i \in DOMAIN queue : queue[i].event = p /\ queue[i].webhook = w
JobIds == {p \in DOMAIN calls : \E w \in Webhooks : HasJob(p, w)}

\* Promise.all has rejected once one dispatch has, whatever the others do, and
\* has resolved when all of them have.
Rejected(p) ==
  calls[p].state = "failed" \/ \E w \in Webhooks : calls[p].step[w] = "failed"

\* Mutant: Promise.allSettled.
Resolved_AllSettled(p) ==
  /\ calls[p].state = "started"
  /\ \A w \in Webhooks : calls[p].step[w] \in {"none", "skipped", "done", "failed"}

Resolved(p) ==
  /\ calls[p].state = "started"
  /\ \A w \in Webhooks : calls[p].step[w] \in {"none", "skipped", "done"}

-----------------------------------------------------------------------------

NoSteps == [w \in Webhooks |-> "none"]

Init ==
  /\ hooks = [w \in Webhooks |-> [enabled |-> TRUE, events |-> Subscribed[w]]]
  /\ calls = [i \in DOMAIN Past |-> [state |-> "started", type |-> TestType, run |-> 0,
                                    step |-> [NoSteps EXCEPT ![Past[i]] = "done"]]]
  /\ events = [i \in DOMAIN Past |-> i]
  /\ queue = [i \in DOMAIN Past |-> [event |-> i, webhook |-> Past[i]]]
  /\ replay = [state |-> "idle", run |-> 0, rows |-> {}, target |-> FALSE, current |-> 0]
  /\ budget = [faults |-> 0, changes |-> 0]

\* Calls a running replay has yet to make are kept free for it.
Reserved == IF replay.target THEN 0 ELSE Cardinality(replay.rows)
UnderWay == {p \in DOMAIN calls : calls[p].state = "finding"
                                   \/ \E w \in Webhooks : calls[p].step[w] \in Awaiting}
RoomForCall == Len(calls) + Reserved < MaxCalls /\ Cardinality(UnderWay) < MaxOverlap

\* dispatchEvent: draws the payload and awaits the instance's enabled webhooks.
dispatchEvent(t) ==
  /\ RoomForCall
  /\ calls' = Append(calls, [state |-> "finding", type |-> t, run |-> 0, step |-> NoSteps])
  /\ UNCHANGED <<hooks, events, queue, replay, budget>>

\* testDispatch found the webhook: dispatch() for it alone.
testDispatch(w) ==
  /\ RoomForCall
  /\ hooks[w] # NoRow
  /\ calls' = Append(calls, [state |-> "started", type |-> TestType, run |-> 0,
                             step |-> [NoSteps EXCEPT ![w] = "find"]])
  /\ UNCHANGED <<hooks, events, queue, replay, budget>>

\* dispatchToInstance: findMany answers, and every dispatch() starts.
dispatchToInstance(p) ==
  /\ calls[p].state = "finding"
  /\ calls' = [calls EXCEPT ![p].state = "started",
                 ![p].step = [w \in Webhooks |->
                    IF hooks[w] # NoRow /\ hooks[w].enabled THEN "find" ELSE "none"]]
  /\ UNCHANGED <<hooks, events, queue, replay, budget>>

Wants(w, t) ==
  /\ hooks[w] # NoRow /\ hooks[w].enabled
  /\ hooks[w].events = {} \/ t \in hooks[w].events

\* dispatch: findUnique answers; a webhook switched off, gone or not subscribed
\* is left out.
findWebhook(p, w) ==
  /\ calls[p].step[w] = "find"
  /\ calls' = [calls EXCEPT ![p].step[w] =
                 IF Wants(w, calls[p].type) THEN "create" ELSE "skipped"]
  /\ UNCHANGED <<hooks, events, queue, replay, budget>>

\* Mutant: the insert is not awaited, and may be lost.
createEvent_NotAwaited(p, w) ==
  /\ calls[p].step[w] = "create"
  /\ p \notin Persisted
  /\ events' \in {events, Append(events, p)}
  /\ calls' = [calls EXCEPT ![p].step[w] = "enqueue"]
  /\ UNCHANGED <<hooks, queue, replay, budget>>

\* event.create inserts the row.
createEvent(p, w) ==
  /\ calls[p].step[w] = "create"
  /\ p \notin Persisted
  /\ events' = Append(events, p)
  /\ calls' = [calls EXCEPT ![p].step[w] = "enqueue"]
  /\ UNCHANGED <<hooks, queue, replay, budget>>

\* Mutant: the first rejection abandons the other dispatches of the call.
createEventClashes_Cancels(p, w) ==
  /\ calls[p].step[w] = "create"
  /\ p \in Persisted
  /\ calls' = [calls EXCEPT ![p].step = [v \in Webhooks |->
                 IF v = w \/ @[v] \in Awaiting THEN "failed" ELSE @[v]]]
  /\ UNCHANGED <<hooks, events, queue, replay, budget>>

\* event.create rejects: another webhook's dispatch() of this call has inserted
\* the row with this primary key.
createEventClashes(p, w) ==
  /\ calls[p].step[w] = "create"
  /\ p \in Persisted
  /\ calls' = [calls EXCEPT ![p].step[w] = "failed"]
  /\ UNCHANGED <<hooks, events, queue, replay, budget>>

\* BullMQ ignores a job whose id it has.
Added(p, w) == IF p \in JobIds THEN queue ELSE Append(queue, [event |-> p, webhook |-> w])

\* The delivery is counted and the job added.
enqueue(p, w) ==
  /\ calls[p].step[w] = "enqueue"
  /\ queue' = Added(p, w)
  /\ calls' = [calls EXCEPT ![p].step[w] = "done"]
  /\ UNCHANGED <<hooks, events, replay, budget>>

-----------------------------------------------------------------------------

\* replayEvents reads the event rows that match the request, oldest first, and goes
\* through them one at a time.
replayEvents(rows, target) ==
  /\ replay.state = "idle" /\ replay.run < MaxReplays
  /\ target \/ Len(calls) + Cardinality(rows) <= MaxCalls
  /\ Cardinality(rows) <= ReplayTake
  /\ replay' = [state |-> "running", run |-> replay.run + 1, rows |-> rows,
                target |-> target, current |-> 0]
  /\ UNCHANGED <<hooks, calls, events, queue, budget>>

\* The row at position i is the next one of the loop.
IsNext(i) ==
  /\ replay.state = "running" /\ replay.current = 0
  /\ i \in replay.rows /\ \A j \in replay.rows : i <= j

Taken(i) == [replay EXCEPT !.rows = @ \ {i}]

\* Mutant: the call a replay awaited is not forgotten.
Idle_KeepsCurrent == [replay EXCEPT !.state = "idle", !.rows = {}, !.target = FALSE]

Idle == [replay EXCEPT !.state = "idle", !.rows = {}, !.target = FALSE, !.current = 0]

\* Mutant: the loop does not await dispatchToInstance.
replayToInstance_NoAwait(i) ==
  /\ IsNext(i) /\ ~replay.target
  /\ calls' = Append(calls, [state |-> "finding", type |-> calls[events[i]].type,
                             run |-> replay.run, step |-> NoSteps])
  /\ replay' = Taken(i)
  /\ UNCHANGED <<hooks, events, queue, budget>>

\* Without a targetUrl the row is an event again, with a new id.
replayToInstance(i) ==
  /\ IsNext(i) /\ ~replay.target
  /\ calls' = Append(calls, [state |-> "finding", type |-> calls[events[i]].type,
                             run |-> replay.run, step |-> NoSteps])
  /\ replay' = [Taken(i) EXCEPT !.current = Len(calls) + 1]
  /\ UNCHANGED <<hooks, events, queue, budget>>

\* With one its job goes to the queue, without a job id.
replayToTarget(i) ==
  /\ IsNext(i) /\ replay.target
  /\ queue' = Append(queue, [event |-> events[i], webhook |-> Target])
  /\ replay' = Taken(i)
  /\ UNCHANGED <<hooks, calls, events, budget>>

replayGoesOn ==
  /\ replay.current # 0 /\ Resolved(replay.current)
  /\ replay' = [replay EXCEPT !.current = 0]
  /\ UNCHANGED <<hooks, calls, events, queue, budget>>

\* The rest of the rows are not replayed once one of them has failed.
replayRejects ==
  /\ replay.current # 0 /\ Rejected(replay.current)
  /\ replay' = Idle
  /\ UNCHANGED <<hooks, calls, events, queue, budget>>

replayEnds ==
  /\ replay.state = "running" /\ replay.current = 0 /\ replay.rows = {}
  /\ replay' = Idle
  /\ UNCHANGED <<hooks, calls, events, queue, budget>>

-----------------------------------------------------------------------------

\* webhooks.service update and remove.  (create stores nothing: it passes a ULID
\* for the uuid column.)
Changes == /\ budget.faults + budget.changes < MaxMishaps
           /\ budget' = [budget EXCEPT !.changes = @ + 1]
           /\ UNCHANGED <<calls, events, queue, replay>>

update(w, row) ==
  /\ hooks[w] # NoRow
  /\ hooks' = [hooks EXCEPT ![w] = row]
  /\ Changes

remove(w) ==
  /\ hooks[w] # NoRow
  /\ hooks' = [hooks EXCEPT ![w] = NoRow]
  /\ Changes

Fault == /\ budget.faults + budget.changes < MaxMishaps
         /\ budget' = [budget EXCEPT !.faults = @ + 1]

\* An await of dispatch() rejects; the database or Redis may have done what was
\* asked all the same.
awaitRejects(p, w) ==
  LET at == calls[p].step[w] IN
  /\ Fault
  /\ at \in Awaiting
  /\ calls' = [calls EXCEPT ![p].step[w] = "failed"]
  /\ events' \in {events} \union
       (IF at = "create" /\ p \notin Persisted THEN {Append(events, p)} ELSE {})
  /\ queue' \in {queue} \union (IF at = "enqueue" THEN {Added(p, w)} ELSE {})
  /\ UNCHANGED <<hooks, replay>>

findManyRejects(p) ==
  /\ Fault
  /\ calls[p].state = "finding"
  /\ calls' = [calls EXCEPT ![p].state = "failed"]
  /\ UNCHANGED <<hooks, events, queue, replay>>

\* The API process dies, and with it every call that is not over.
crash ==
  /\ Fault
  /\ calls' = [p \in DOMAIN calls |->
       [calls[p] EXCEPT !.state = IF @ = "finding" THEN "lost" ELSE @,
          !.step = [w \in Webhooks |->
             IF calls[p].step[w] \in Awaiting THEN "lost" ELSE calls[p].step[w]]]]
  /\ replay' = Idle
  /\ UNCHANGED <<hooks, events, queue>>

-----------------------------------------------------------------------------

DispatchStep(p, w) ==
  \/ findWebhook(p, w) \/ createEvent(p, w) \/ createEventClashes(p, w)
  \/ enqueue(p, w)

ReplayStep ==
  \/ \E i \in DOMAIN events : replayToInstance(i) \/ replayToTarget(i)
  \/ replayGoesOn \/ replayRejects \/ replayEnds

Request ==
  \/ \E t \in Types \ {TestType} : dispatchEvent(t)
  \/ \E w \in Webhooks : testDispatch(w)
  \/ \E rows \in SUBSET (DOMAIN events) \ {{}}, target \in BOOLEAN : replayEvents(rows, target)
  \/ \E w \in Webhooks : remove(w) \/ \E row \in Edits : update(w, row)

Failure ==
  \/ \E p \in DOMAIN calls : findManyRejects(p) \/ \E w \in Webhooks : awaitRejects(p, w)
  \/ crash

\* What the process does by itself, once requests have come.
Progress ==
  \/ \E p \in DOMAIN calls :
       dispatchToInstance(p) \/ \E w \in Webhooks : DispatchStep(p, w)
  \/ ReplayStep

Next == Request \/ Progress \/ Failure

Spec == Init /\ [][Next]_vars

\* Awaits are answered, one way or the other, as long as any is under way.  That is
\* enough, as every call and every replay is over after a few of them.
Fairness == WF_vars(Progress)

FairSpec == Spec /\ Fairness

-----------------------------------------------------------------------------

TypeOK ==
  /\ hooks \in [Webhooks -> Rows \union {NoRow}]
  /\ calls \in Seq(Calls)
  /\ events \in Seq(DOMAIN calls)
  /\ queue \in Seq(Jobs)
  /\ replay \in Replays /\ (replay.state = "idle" => replay.current = 0)
  /\ budget \in [faults : 0..MaxMishaps, changes : 0..MaxMishaps]

\* "Persist event BEFORE enqueuing" (webhook-dispatch.service.ts:98): whatever
\* calls overlap, fail half-way or die, a job's event has its row, once, so a
\* replay can find it.
PersistedBeforeQueued ==
  /\ \A i \in DOMAIN queue : queue[i].event \in Persisted
  /\ \A i, j \in DOMAIN events : events[i] = events[j] => i = j

\* A caller told that its event was dispatched is told the truth: Promise.all has
\* resolved only if every webhook that wanted the event has its job.
ResolvedMeansQueued ==
  \A p \in DOMAIN calls :
    Resolved(p) =>
      \A w \in Webhooks : calls[p].step[w] \in {"none", "skipped"} \/ HasJob(p, w)

\* One replay puts the rows on the queue in the order they were persisted, though
\* its dispatches run side by side with those of other calls.
ReplayKeepsOrder ==
  \A i, j \in DOMAIN queue :
    LET e == queue[i].event
        f == queue[j].event
    IN  i < j /\ calls[e].run = calls[f].run /\ calls[e].run # 0
          /\ queue[i].webhook # Target /\ queue[j].webhook # Target => e <= f

\* While nothing fails an event that has its row gets its job: the dispatch that
\* inserted it goes on although the call it belongs to may have been rejected.
PersistedIsQueued ==
  []<>(\A p \in Persisted : p \in JobIds \/ budget.faults > 0)

\* "should dispatch to all enabled webhooks for instance"
\* (webhook-dispatch.service.spec.ts:321): unless something fails, a call that is
\* over has a job for every webhook that wanted its event.
DispatchedToAll ==
  \A p \in DOMAIN calls :
    budget.faults = 0 /\ (\A w \in Webhooks : calls[p].step[w] \notin Awaiting) =>
      \A w \in Webhooks : calls[p].step[w] \in {"none", "skipped"} \/ HasJob(p, w)
=============================================================================
