---------------------------- MODULE OutboundJobs ----------------------------
(***************************************************************************)
(* What the API leaves for the worker to send: scheduled messages, cron    *)
(* jobs, broadcasts, messages and reactions of Baileys instances, channel  *)
(* posts and what is asked of an instance.  Each operation is a series of  *)
(* awaits, writes of rows (PostgreSQL) and of jobs (BullMQ), that those of *)
(* other operations come between.  Two of the queues have a worker: that   *)
(* of scheduled messages, which looks for rows of its own, and that of     *)
(* outbound messages.  Several processes run these workers.                *)
(***************************************************************************)
EXTENDS Integers, FiniteSets, Sequences

CONSTANTS
  Schedules, Crons, Messages, Broadcasts,  \* ids of the rows operations make
  StoredIds,   \* those of them the database takes: schema.prisma makes the ids of
               \* schedules and crons uuids, the services give them ULIDs
  Pending,     \* rows of scheduled_messages with the status 'pending'
  Unreadable,  \* those of them whose content is no JSON
  QueryAnswers, \* what the worker's SQL may do: answer (TRUE) or reject.  With the
               \* columns of schema.prisma, which are not those it names, it rejects
  Clients,     \* operations that may run at once
  Pods,        \* processes of the worker
  Recipients,  \* of a broadcast
  Now,         \* the hour it is
  Times,       \* hours for which messages are scheduled
  Windows,     \* send windows: [startHour, endHour, zone], zone in hours east of UTC
  Attempts,    \* of a 'send-message' job
  MaxCalls,    \* bound: operations
  MaxTicks,    \* bound: times a cron job fires
  MaxMishaps   \* bound: awaits that reject, crashes, offline sockets

ASSUME QueryAssumption == QueryAnswers \subseteq BOOLEAN
ASSUME CountsAssumption ==
  {Recipients, MaxCalls, MaxTicks, MaxMishaps} \subseteq Nat /\ Attempts \in Nat \ {0}
ASSUME PodsAssumption == IsFiniteSet(Pods) /\ Unreadable \subseteq Pending
ASSUME TimesAssumption == Now \in Nat /\ Times \subseteq Nat
\* The hours are of a day; a window from 22 to 6 is over midnight.
ASSUME WindowsAssumption ==
  \A w \in Windows : w.startHour \in 0..23 /\ w.endHour \in 0..24 /\ w.zone \in -12..14

VARIABLES
  rows,       \* status of each row, "none" before it is made
  sendAt,     \* of a smart schedule: when it is asked for, its window, when it is due
  jobs,       \* the jobs in Redis, by queue and id
  calls,      \* the operations in progress, each with the awaits it has left
  found,      \* jobs of a broadcast that one which pauses it has still to remove
  instance,   \* status of the instance's row
  events,     \* MESSAGE_REACTION events
  scheduler,  \* the worker of scheduled messages of each process
  sent,       \* how often the sockets have sent a pending row's message
  called,     \* operations so far
  ticks,      \* times a cron job has fired
  mishaps,    \* so far
  overlapped  \* rows of which two operations ran at once

vars == <<rows, sendAt, jobs, calls, found, instance, events, scheduler, sent, called, ticks,
          mishaps, overlapped>>

Ids == Schedules \union Crons \union Messages \union Broadcasts \union Pending

\* The ids are of one table each.
ASSUME IdsAssumption ==
  /\ "none" \notin Ids
  /\ Schedules \intersect (Crons \union Messages \union Broadcasts \union Pending) = {}
  /\ Crons \intersect (Messages \union Broadcasts \union Pending) = {}
  /\ Messages \intersect (Broadcasts \union Pending) = {}
  /\ Broadcasts \intersect Pending = {}

NoWindow == [startHour |-> 0, endHour |-> 24, zone |-> 0]
Unscheduled == [asked |-> 0, window |-> NoWindow, at |-> 0]

\* A job's key: its queue, the row it is for, and a number.
Key(q, id, n) == [queue |-> q, id |-> id, n |-> n]
Queues == {"scheduled-messages", "outbound-messages", "broadcast-messages", "channels",
           "instance-lifecycle", "group-operations", "verification"}

\* Jobs the queue would still give a worker ("stalled" is a job that waits again after
\* the process that had it died), and those a Queue.remove() removes.
Waits(k) == k \in DOMAIN jobs /\ jobs[k].state \in {"delayed", "waiting", "stalled"}
Removable(k) == k \in DOMAIN jobs /\ jobs[k].state # "active"
Without(keys) == [k \in DOMAIN jobs \ keys |-> jobs[k]]

\* add() of a job whose id is there already does nothing.
Added(k, state, jid) ==
  IF k \in DOMAIN jobs THEN jobs
  ELSE [j \in DOMAIN jobs \union {k} |->
          IF j = k THEN [state |-> state, jid |-> jid, attempt |-> 1] ELSE jobs[j]]

NoCall == [op |-> "none", id |-> "none", todo |-> <<>>]
NoTick == [at |-> "idle", job |-> Key("none", "none", 0), batch |-> {}, row |-> "none"]

Init ==
  /\ rows = [id \in Ids |-> IF id \in Pending THEN "pending" ELSE "none"]
  /\ sendAt = [id \in Schedules |-> Unscheduled]
  /\ jobs = <<>>
  /\ calls = [c \in Clients |-> NoCall]
  /\ found = [c \in Clients |-> {}]
  /\ instance = "DISCONNECTED"
  /\ events = {}
  /\ scheduler = [p \in Pods |-> NoTick]
  /\ sent = [id \in Pending |-> 0]
  /\ called = 0 /\ ticks = 0 /\ mishaps = 0
  /\ overlapped = {}

-----------------------------------------------------------------------------
(* adjustToSendWindow, in hours.  The server's own zone is UTC. *)

LocalHour(t, zone) == (t + zone) % 24

\* Intl.DateTimeFormat with hour12: false calls midnight 24.
formatted(t, zone) == IF LocalHour(t, zone) = 0 THEN 24 ELSE LocalHour(t, zone)

\* new Date() reads a wall clock of 24:00:00 as midnight of the day after.
Read(wall) == IF wall % 24 = 0 THEN wall + 24 ELSE wall

\* The opening of the window on a day: the hour on the server's clock, corrected by what
\* the zone's clock then shows.
opening(day, w) ==
  LET localDate == day * 24 + w.startHour
      offset == localDate - Read(localDate + w.zone) IN
  localDate + offset

\* Mutant: past the end of the window, the start of the same day.
adjustToSendWindow_SameDay(t, w) ==
  IF formatted(t, w.zone) \in w.startHour .. (w.endHour - 1) THEN t
  ELSE opening((t + w.zone) \div 24, w)

\* Outside the window, the next time it opens: the day after once it has closed.
adjustToSendWindow(t, w) ==
  LET hour == formatted(t, w.zone)
      adjusted == IF hour >= w.endHour THEN t + 24 ELSE t IN
  IF hour \in w.startHour .. (w.endHour - 1) THEN t
  ELSE opening((adjusted + w.zone) \div 24, w)

-----------------------------------------------------------------------------
(* The operations: what each checks, and the awaits that follow. *)

Busy(id) == \E c \in Clients : calls[c].id = id

\* The operation begins; a row that has another one is noted.
Begin(c, op, id, todo) ==
  /\ calls[c].op = "none" /\ called < MaxCalls
  /\ called' = called + 1
  /\ calls' = [calls EXCEPT ![c] = [op |-> op, id |-> id, todo |-> todo]]
  /\ overlapped' = IF Busy(id) THEN overlapped \union {id} ELSE overlapped
  /\ UNCHANGED <<rows, jobs, found, instance, events, scheduler, sent, ticks, mishaps>>

IsNew(id) == rows[id] = "none" /\ ~Busy(id) /\ instance # "deleted"
Exists(id) == rows[id] \notin {"none", "deleted"}

createScheduledMessage(c, id) ==
  /\ IsNew(id) /\ Begin(c, "schedule", id, <<"insert", "add">>) /\ UNCHANGED sendAt

\* Refused unless the adjusted time is still to come.
createSmartSchedule(c, id) ==
  /\ IsNew(id)
  /\ \E t \in Times, w \in Windows :
       /\ adjustToSendWindow(t, w) > Now
       /\ sendAt' = [sendAt EXCEPT ![id] =
                       [asked |-> t, window |-> w, at |-> adjustToSendWindow(t, w)]]
  /\ Begin(c, "schedule", id, <<"insert", "add">>)

\* The job is replaced when the time is new, removed when the message is not active
\* any more, and the row written last.  (sendAt is that of the creation.)
updateScheduledMessage(c, id) ==
  /\ rows[id] = "SCHEDULED"
  /\ \E reschedule, cancel \in BOOLEAN :
       Begin(c, IF cancel THEN "cancel" ELSE "update", id,
             (IF reschedule THEN <<"remove", "add">> ELSE <<>>)
             \o (IF cancel THEN <<"remove">> ELSE <<>>)
             \o <<"update">>)
  /\ UNCHANGED sendAt

\* Whatever the row's status is.
deleteScheduledMessage(c, id) ==
  /\ Exists(id)
  /\ Begin(c, "cancel", id, <<"remove", "update">>)
  /\ UNCHANGED sendAt

createCronJob(c, id) ==
  /\ IsNew(id) /\ Begin(c, "cron", id, <<"insert", "add">>) /\ UNCHANGED sendAt

deleteCronJob(c, id) ==
  /\ Exists(id) /\ Begin(c, "deactivate", id, <<"removeByKey", "update">>) /\ UNCHANGED sendAt

\* send() of a Baileys instance's message, or a publication on a channel.
send(c, id) ==
  /\ IsNew(id)
  /\ \E op \in {"send", "publish"} : Begin(c, op, id, <<"insert", "add">>)
  /\ UNCHANGED sendAt

\* Of a message that is there.  Only the addition is told to the tenant.
addReaction(c, id) ==
  /\ IsNew(id) /\ \E target \in Messages : Exists(target)
  /\ Begin(c, "react", id, <<"insert", "add", "event">>) /\ UNCHANGED sendAt

removeReaction(c, id) ==
  /\ IsNew(id) /\ \E target \in Messages : Exists(target)
  /\ Begin(c, "react", id, <<"insert", "add">>) /\ UNCHANGED sendAt

\* One job for each recipient, one after the other.
createBroadcast(c, id) ==
  /\ IsNew(id)
  /\ Begin(c, "broadcast", id, <<"insert">> \o [i \in 1..Recipients |-> "add"])
  /\ UNCHANGED sendAt

\* Pausing reads what waits in the queue and removes it; resuming adds nothing.
updateStatus(c, id) ==
  /\ Exists(id)
  /\ \/ Begin(c, "pause", id, <<"getJobs", "update">>)
     \/ Begin(c, "resume", id, <<"update">>)
  /\ UNCHANGED sendAt

\* A job for the instance's worker, then the row.
lifecycle(c, op) ==
  /\ instance # "deleted" /\ Begin(c, op, "none", <<"add", "update">>) /\ UNCHANGED sendAt

powerOn(c) == lifecycle(c, "powerOn")   \* and restart()
powerOff(c) == lifecycle(c, "powerOff")
removeInstance(c) == lifecycle(c, "delete")

\* A job alone.
ask(c, op) ==
  /\ instance # "deleted" /\ Begin(c, op, "none", <<"add">>) /\ UNCHANGED sendAt

updateProfile(c) == ask(c, "ask")       \* and getPairingCode()
storyOperation(c) == ask(c, "ask")
updatePresence(c) == ask(c, "ask")
groupOperation(c) == ask(c, "group")

\* Two requests for one number share a job, which nothing ever finishes.
verifySingle(c) ==
  /\ instance # "deleted"
  /\ Begin(c, "verify", "none", <<"add", "waitUntilFinished">>)
  /\ UNCHANGED sendAt

Operations(c) ==
  \/ \E id \in Schedules : \/ createScheduledMessage(c, id) \/ createSmartSchedule(c, id)
                           \/ updateScheduledMessage(c, id) \/ deleteScheduledMessage(c, id)
  \/ \E id \in Crons : createCronJob(c, id) \/ deleteCronJob(c, id)
  \/ \E id \in Messages : send(c, id) \/ addReaction(c, id) \/ removeReaction(c, id)
  \/ \E id \in Broadcasts : createBroadcast(c, id) \/ updateStatus(c, id)
  \/ powerOn(c) \/ powerOff(c) \/ removeInstance(c)
  \/ updateProfile(c) \/ storyOperation(c) \/ updatePresence(c) \/ groupOperation(c)
  \/ verifySingle(c)

-----------------------------------------------------------------------------
(* Their awaits *)

Op(c) == calls[c].op
Id(c) == calls[c].id

\* The next await is this one; after the last the client has its answer.
Awaits(c, what) == calls[c].todo # <<>> /\ Head(calls[c].todo) = what
Rest(c) == IF Len(calls[c].todo) = 1 THEN NoCall ELSE [calls[c] EXCEPT !.todo = Tail(calls[c].todo)]
Goes(c, what) == Awaits(c, what) /\ calls' = [calls EXCEPT ![c] = Rest(c)]
StepLeaves == UNCHANGED <<sendAt, scheduler, sent, called, ticks, overlapped>>

Made == [schedule |-> "SCHEDULED", cron |-> "active", send |-> "PENDING",
         publish |-> "PENDING", react |-> "PENDING", broadcast |-> "queued"]

insertRow(c) ==
  /\ Id(c) \in StoredIds /\ instance # "deleted"
  /\ Goes(c, "insert")
  /\ rows' = [rows EXCEPT ![Id(c)] = Made[Op(c)]]
  /\ UNCHANGED <<jobs, found, instance, events, mishaps>> /\ StepLeaves

\* The database does not take the id, or the instance has gone.
insertFails(c) ==
  /\ Awaits(c, "insert") /\ (Id(c) \notin StoredIds \/ instance = "deleted")
  /\ calls' = [calls EXCEPT ![c] = NoCall]
  /\ UNCHANGED <<rows, jobs, found, instance, events, mishaps>> /\ StepLeaves

QueueOf(op) ==
  CASE op \in {"schedule", "cron", "update", "cancel"} -> "scheduled-messages"
    [] op \in {"send", "react"} -> "outbound-messages"
    [] op \in {"broadcast", "pause"} -> "broadcast-messages"
    [] op = "publish" -> "channels"
    [] op \in {"powerOn", "powerOff", "delete", "ask"} -> "instance-lifecycle"
    [] op = "group" -> "group-operations"
    [] op = "verify" -> "verification"

\* Rows' jobs have the row's id, a broadcast's the recipient's index, and those of an
\* instance a new one.
KeyOf(c) ==
  LET n == CASE Op(c) = "broadcast" -> Len(calls[c].todo)
             [] Id(c) = "none" /\ Op(c) # "verify" ->
                  Cardinality({k \in DOMAIN jobs : k.queue = QueueOf(Op(c))})
             [] OTHER -> 0 IN
  Key(QueueOf(Op(c)), Id(c), n)

\* Scheduled messages wait for their time, and so do a broadcast's but the first; the
\* others are ready at once.  No job of the API has a jid.
addJob(c) ==
  LET k == KeyOf(c)
      delayed == \/ Op(c) \in {"schedule", "cron", "update", "cancel"}
                 \/ Op(c) = "broadcast" /\ k.n < Recipients IN
  /\ Goes(c, "add")
  /\ jobs' = Added(k, IF delayed THEN "delayed" ELSE "waiting", FALSE)
  /\ UNCHANGED <<rows, found, instance, events, mishaps>> /\ StepLeaves

JobsOf(c) == {k \in DOMAIN jobs : k.queue = QueueOf(Op(c)) /\ k.id = Id(c)}

\* A scheduled message's one job, unless a worker has it.
removeJob(c) ==
  /\ Goes(c, "remove")
  /\ jobs' = Without({k \in JobsOf(c) : Removable(k)})
  /\ UNCHANGED <<rows, found, instance, events, mishaps>> /\ StepLeaves

\* The key is of a form BullMQ does not store the job under, so nothing is removed.
removeRepeatableByKey(c) ==
  /\ Goes(c, "removeByKey")
  /\ UNCHANGED <<rows, jobs, found, instance, events, mishaps>> /\ StepLeaves

\* Mutant: only the jobs that wait for their time are read.
getJobs_Delayed(c) ==
  /\ Goes(c, "getJobs")
  /\ found' = [found EXCEPT ![c] = {k \in JobsOf(c) : jobs[k].state = "delayed"}]
  /\ UNCHANGED <<rows, jobs, instance, events, mishaps>> /\ StepLeaves

\* The broadcast's jobs that wait are read,
getJobs(c) ==
  /\ Goes(c, "getJobs")
  /\ found' = [found EXCEPT ![c] = {k \in JobsOf(c) : jobs[k].state \in {"delayed", "waiting"}}]
  /\ UNCHANGED <<rows, jobs, instance, events, mishaps>> /\ StepLeaves

\* and removed one after the other.
removeFound(c) ==
  /\ \E k \in found[c] :
       /\ found' = [found EXCEPT ![c] = @ \ {k}]
       /\ jobs' = Without({k})
  /\ UNCHANGED <<rows, calls, instance, events, mishaps>> /\ StepLeaves

Becomes == [cancel |-> "CANCELED", deactivate |-> "inactive", pause |-> "paused",
            resume |-> "active"]

\* The row's last write: of an instance's, which takes those of its own with it.
updateRow(c) ==
  /\ found[c] = {} /\ Goes(c, "update")
  /\ IF Id(c) = "none"
     THEN /\ instance # "deleted"
          /\ instance' = CASE Op(c) = "powerOn" -> "CONNECTING"
                           [] Op(c) = "powerOff" -> "DISCONNECTED"
                           [] Op(c) = "delete" -> "deleted"
          /\ rows' = IF Op(c) # "delete" THEN rows
                     ELSE [id \in Ids |-> IF id \notin Broadcasts /\ Exists(id) THEN "deleted"
                                          ELSE rows[id]]
     ELSE /\ rows[Id(c)] # "deleted"
          /\ rows' = IF Op(c) = "update" THEN rows
                     ELSE [rows EXCEPT ![Id(c)] = Becomes[Op(c)]]
          /\ UNCHANGED instance
  /\ UNCHANGED <<jobs, found, events, mishaps>> /\ StepLeaves

dispatchEvent(c) ==
  /\ Goes(c, "event")
  /\ events' = events \union {Id(c)}
  /\ UNCHANGED <<rows, jobs, found, instance, mishaps>> /\ StepLeaves

\* waitUntilFinished gives up after 30 s, or an update finds its row gone.
gaveUp(c) ==
  /\ \/ Awaits(c, "waitUntilFinished")
     \/ Awaits(c, "update") /\ Id(c) = "none" /\ instance = "deleted"
     \/ Awaits(c, "update") /\ Id(c) # "none" /\ rows[Id(c)] = "deleted"
  /\ calls' = [calls EXCEPT ![c] = NoCall]
  /\ UNCHANGED <<rows, jobs, found, instance, events, mishaps>> /\ StepLeaves

Mishap == mishaps < MaxMishaps /\ mishaps' = mishaps + 1

\* An await rejects, or the API process dies: what was done stays done.
callFails(c) ==
  /\ calls[c].op # "none" /\ Mishap
  /\ calls' = [calls EXCEPT ![c] = NoCall]
  /\ found' = [found EXCEPT ![c] = {}]
  /\ UNCHANGED <<rows, jobs, instance, events>> /\ StepLeaves

Steps(c) ==
  \/ insertRow(c) \/ insertFails(c) \/ addJob(c) \/ removeJob(c) \/ removeRepeatableByKey(c)
  \/ getJobs(c) \/ removeFound(c) \/ updateRow(c) \/ dispatchEvent(c) \/ gaveUp(c) \/ callFails(c)

-----------------------------------------------------------------------------
(* ScheduledMessageWorker: in each process one job at a time, whatever the job is *)

WorkerLeaves == UNCHANGED <<sendAt, calls, found, instance, events, called, overlapped>>

IsCron(k) == k.id \in Crons
SetState(k, s) == [jobs EXCEPT ![k].state = s]

\* A delayed job is due and a worker takes it.  A cron job's is put back for the next
\* time.
takeScheduled(p, k) ==
  /\ k \in DOMAIN jobs /\ k.queue = "scheduled-messages" /\ Waits(k)
  /\ scheduler[p].at = "idle"
  /\ scheduler' = [scheduler EXCEPT ![p] = [NoTick EXCEPT !.at = "query", !.job = k]]
  /\ IF IsCron(k) THEN ticks < MaxTicks /\ ticks' = ticks + 1 /\ UNCHANGED jobs
     ELSE jobs' = SetState(k, "active") /\ UNCHANGED ticks
  /\ UNCHANGED <<rows, sent, mishaps>> /\ WorkerLeaves

\* The tick is over, its job completed or failed.
Over(p, s) ==
  LET k == scheduler[p].job IN
  /\ scheduler' = [scheduler EXCEPT ![p] = NoTick]
  /\ jobs' = IF IsCron(k) \/ k \notin DOMAIN jobs THEN jobs ELSE SetState(k, s)

\* Mutant: the rejection is swallowed before the job is settled.
queryRejects_Unsettled(p) ==
  /\ scheduler[p].at = "query" /\ FALSE \in QueryAnswers
  /\ scheduler' = [scheduler EXCEPT ![p] = NoTick]
  /\ UNCHANGED <<rows, jobs, sent, ticks, mishaps>> /\ WorkerLeaves

queryRejects(p) ==
  /\ scheduler[p].at = "query" /\ FALSE \in QueryAnswers
  /\ Over(p, "failed")
  /\ UNCHANGED <<rows, sent, ticks, mishaps>> /\ WorkerLeaves

\* On with the rows of the batch, if there are more.
Continue(p, batch) ==
  IF batch = {} THEN Over(p, "completed")
  ELSE /\ scheduler' = [scheduler EXCEPT ![p].at = "enqueue", ![p].batch = batch]
       /\ UNCHANGED jobs

\* The rows that are due, of those that are pending: a SELECT that locks none of them.
\* The loop passes over a row whose content cannot be parsed, with no await and nothing
\* written: it is in no batch and stays pending.
queryRows(p) ==
  /\ scheduler[p].at = "query" /\ TRUE \in QueryAnswers
  /\ Continue(p, {id \in Pending \ Unreadable : rows[id] = "pending"})
  /\ UNCHANGED <<rows, sent, ticks, mishaps>> /\ WorkerLeaves

\* A row gets a 'send-message' job, with a jid and an id of its own.
enqueueRow(p, id) ==
  LET n == Cardinality({k \in DOMAIN jobs : k.id = id}) IN
  /\ scheduler[p].at = "enqueue" /\ id \in scheduler[p].batch
  /\ scheduler' = [scheduler EXCEPT ![p].at = "mark", ![p].batch = @ \ {id}, ![p].row = id]
  /\ jobs' = Added(Key("outbound-messages", id, n), "waiting", TRUE)
  /\ UNCHANGED <<rows, sent, ticks, mishaps>> /\ WorkerLeaves

\* The row is 'enqueued', and the loop goes on.
markRow(p) ==
  LET id == scheduler[p].row IN
  /\ scheduler[p].at = "mark"
  /\ rows' = IF rows[id] = "deleted" THEN rows ELSE [rows EXCEPT ![id] = "enqueued"]
  /\ Continue(p, scheduler[p].batch)
  /\ UNCHANGED <<sent, ticks, mishaps>> /\ WorkerLeaves

\* An await rejects and the job fails; or the process dies and the job is taken up
\* again as a stalled one.
tickFails(p) ==
  /\ scheduler[p].at # "idle" /\ Mishap
  /\ \/ Over(p, "failed") \/ Over(p, "stalled")
  /\ UNCHANGED <<rows, sent, ticks>> /\ WorkerLeaves

-----------------------------------------------------------------------------
(* OutboundMessageWorker *)

IsOutbound(k) == k \in DOMAIN jobs /\ k.queue = "outbound-messages"

\* The attempt has failed: the job waits for the next, if it has one left.
Retried(k) ==
  LET job == jobs[k] IN
  [jobs EXCEPT ![k] = IF job.attempt < Attempts
                      THEN [job EXCEPT !.state = "waiting", !.attempt = job.attempt + 1]
                      ELSE [job EXCEPT !.state = "failed"]]

takeOutbound(k) ==
  /\ IsOutbound(k) /\ Waits(k)
  /\ jobs' = SetState(k, "active")
  /\ UNCHANGED <<rows, scheduler, sent, ticks, mishaps>> /\ WorkerLeaves

\* Without a jid the job is no good, and it has one attempt.
validateJob(k) ==
  /\ IsOutbound(k) /\ jobs[k].state = "active" /\ ~jobs[k].jid
  /\ jobs' = SetState(k, "failed")
  /\ UNCHANGED <<rows, scheduler, sent, ticks, mishaps>> /\ WorkerLeaves

\* InstanceOfflineException
offline(k) ==
  /\ IsOutbound(k) /\ jobs[k].state = "active" /\ jobs[k].jid /\ Mishap
  /\ jobs' = Retried(k)
  /\ UNCHANGED <<rows, scheduler, sent, ticks>> /\ WorkerLeaves

\* Mutant: the log line reads the id of a result that may be undefined, and throws.
sendMessage_NoResult(k) ==
  /\ IsOutbound(k) /\ jobs[k].state = "active" /\ jobs[k].jid
  /\ sent' = [sent EXCEPT ![k.id] = @ + 1]
  /\ jobs' = Retried(k) /\ UNCHANGED mishaps
  /\ UNCHANGED <<rows, scheduler, ticks>> /\ WorkerLeaves

\* The socket sends, and the job is completed; or it rejects, or the process dies,
\* after it has sent.
sendMessage(k) ==
  /\ IsOutbound(k) /\ jobs[k].state = "active" /\ jobs[k].jid
  /\ sent' = [sent EXCEPT ![k.id] = @ + 1]
  /\ \/ jobs' = SetState(k, "completed") /\ UNCHANGED mishaps
     \/ jobs' = Retried(k) /\ Mishap
     \/ jobs' = SetState(k, "stalled") /\ Mishap
  /\ UNCHANGED <<rows, scheduler, ticks>> /\ WorkerLeaves

Workers ==
  \/ \E p \in Pods :
       \/ queryRejects(p) \/ queryRows(p) \/ markRow(p) \/ tickFails(p)
       \/ \E id \in Pending : enqueueRow(p, id)
       \/ \E k \in DOMAIN jobs : takeScheduled(p, k)
  \/ \E k \in DOMAIN jobs :
       takeOutbound(k) \/ validateJob(k) \/ offline(k) \/ sendMessage(k)

Next == Workers \/ \E c \in Clients : Operations(c) \/ Steps(c)

Spec == Init /\ [][Next]_vars

-----------------------------------------------------------------------------
(* Properties *)

\* The types of the variables; and a job of the scheduled messages that is active is one
\* that the worker of some process has.
TypeOK ==
  /\ rows \in [Ids -> {"none", "pending", "enqueued", "SCHEDULED", "CANCELED", "active",
                       "inactive", "PENDING", "queued", "paused", "deleted"}]
  /\ \A k \in DOMAIN jobs :
       /\ k \in [queue : Queues, id : Ids \union {"none"}, n : Nat]
       /\ jobs[k] \in [state : {"delayed", "waiting", "stalled", "active", "failed", "completed"},
                       jid : BOOLEAN, attempt : 1..Attempts]
       /\ k.queue = "scheduled-messages" /\ jobs[k].state = "active" =>
            \E p \in Pods : scheduler[p].job = k
  /\ \A c \in Clients : /\ calls[c].id \in Ids \union {"none"}
                        /\ found[c] \subseteq [queue : Queues, id : Broadcasts, n : Nat]
  /\ instance \in {"DISCONNECTED", "CONNECTING", "deleted"}
  /\ events \subseteq Messages
  /\ \A p \in Pods : /\ scheduler[p].at \in {"idle", "query", "enqueue", "mark"}
                     /\ scheduler[p].batch \subseteq Pending
  /\ sent \in [Pending -> Nat]
  /\ called \in 0..MaxCalls /\ ticks \in 0..MaxTicks /\ mishaps \in 0..MaxMishaps
  /\ overlapped \subseteq Ids \union {"none"}

\* What was cancelled or paused, by an operation no other one of the row ran beside,
\* leaves no job behind that waits for a worker or for its time: whatever operations came
\* before, wherever they failed, and however long the removals take.  (A job a worker had
\* begun before may still come back as a stalled one; and a cron job that was deactivated
\* has its job for ever.)
RetiredHasNoJobs ==
  \A id \in Ids \ overlapped :
    rows[id] \in {"CANCELED", "paused"} /\ ~Busy(id) =>
      \A k \in DOMAIN jobs : k.id = id => jobs[k].state \notin {"delayed", "waiting"}

\* A message is sent once by each worker process at the most, which may all have read the
\* row before the first of them marks it, and once more for each thing that goes wrong: a
\* crash between the enqueueing of its job and the marking of its row, a send that has
\* gone out and rejects, a process that dies.
SentOncePerProcess == \A id \in Pending : sent[id] <= Cardinality(Pods) + mishaps

\* When the server's clock shows the window's first hour, the zone's shows 24:00:00.
OpensAt24(w) == (w.startHour + w.zone) % 24 = 0

\* createSmartSchedule: the message goes out in its send window, also one over midnight,
\* not before the time that was asked for and at most two days after; but a day early,
\* which may be before that time, if the code corrects it by a clock that shows 24:00.
SmartScheduleFitsWindow ==
  \A id \in Schedules :
    LET s == sendAt[id]
        h == LocalHour(s.at, s.window.zone)
        early == IF OpensAt24(s.window) THEN 24 ELSE 0 IN
    /\ IF s.window.startHour < s.window.endHour
       THEN h \in s.window.startHour .. (s.window.endHour - 1)
       ELSE h >= s.window.startHour \/ h < s.window.endHour
    /\ s.at \in (s.asked - early) .. (s.asked + 47)

=============================================================================
