-------------------------- MODULE OutboundJobsProofs --------------------------
(***************************************************************************)
(* What holds of what the API leaves for the worker to send, for any rows, *)
(* operations, worker processes, windows and mishaps: a pending row is     *)
(* sent once per process and fault, a row that was retired alone has no    *)
(* job left that waits, and a smart schedule fits its window.              *)
(***************************************************************************)
EXTENDS OutboundJobs, FiniteSetTheorems, TLAPS

-----------------------------------------------------------------------------
(* What operations have left to do. *)

\* What an operation may have left to do.
Making == {<<"insert", "add">>, <<"add">>}
Removing == {<<"remove", "update">>, <<"update">>}
Updating == {<<"remove", "add", "update">>, <<"add", "update">>, <<"update">>}
Cancelling ==
  Removing \union {<<"remove", "add", "remove", "update">>, <<"add", "remove", "update">>}
Reacting ==
  Making \union {<<"insert", "add", "event">>, <<"add", "event">>, <<"event">>}
Broadcasting == Seq({"insert", "add"})
Deactivating == {<<"removeByKey", "update">>, <<"update">>}
Pausing == {<<"getJobs", "update">>, <<"update">>}
Switching == {<<"add", "update">>, <<"update">>}
Verifying == {<<"add", "waitUntilFinished">>, <<"waitUntilFinished">>}

\* The operations in progress: each is of the rows of one table, or of none.
Tasks ==
  UNION {[op : {"schedule"}, id : Schedules, todo : Making],
         [op : {"update"}, id : Schedules, todo : Updating],
         [op : {"cancel"}, id : Schedules, todo : Cancelling],
         [op : {"cron"}, id : Crons, todo : Making],
         [op : {"deactivate"}, id : Crons, todo : Deactivating],
         [op : {"send", "publish"}, id : Messages, todo : Making],
         [op : {"react"}, id : Messages, todo : Reacting],
         [op : {"broadcast"}, id : Broadcasts, todo : Broadcasting],
         [op : {"pause"}, id : Broadcasts, todo : Pausing],
         [op : {"resume"}, id : Broadcasts, todo : {<<"update">>}],
         [op : {"powerOn", "powerOff", "delete"}, id : {"none"}, todo : Switching],
         [op : {"ask", "group"}, id : {"none"}, todo : {<<"add">>}],
         [op : {"verify"}, id : {"none"}, todo : Verifying]}

\* What is left of the plans that are longer than an await.
LEMMA Tails ==
  /\ Tail(<<"insert", "add">>) = <<"add">>
  /\ Tail(<<"remove", "update">>) = <<"update">>
  /\ Tail(<<"add", "update">>) = <<"update">>
  /\ Tail(<<"add", "event">>) = <<"event">>
  /\ Tail(<<"add", "waitUntilFinished">>) = <<"waitUntilFinished">>
  /\ Tail(<<"remove", "add", "update">>) = <<"add", "update">>
  /\ Tail(<<"insert", "add", "event">>) = <<"add", "event">>
  /\ Tail(<<"removeByKey", "update">>) = <<"update">>
  /\ Tail(<<"getJobs", "update">>) = <<"update">>
  /\ Tail(<<"add", "remove", "update">>) = <<"remove", "update">>
  /\ Tail(<<"remove", "add", "remove", "update">>) = <<"add", "remove", "update">>
<1>1. \A u, v : Tail(<<u, v>>) = <<v>>  OBVIOUS
<1>2. \A u, v, w : Tail(<<u, v, w>>) = <<v, w>>  OBVIOUS
<1>3. \A u, v, w, x : Tail(<<u, v, w, x>>) = <<v, w, x>>  OBVIOUS
<1> QED  BY <1>1, <1>2, <1>3

\* And of those of one.
LEMMA Lasts ==
  /\ Len(<<"insert">>) = 1 /\ Len(<<"add">>) = 1 /\ Len(<<"update">>) = 1
  /\ Len(<<"event">>) = 1 /\ Len(<<"waitUntilFinished">>) = 1
OBVIOUS

\* The sets of plans are closed under taking a step.
LEMMA PlansGoOn ==
  \A P \in {Making, Removing, Updating, Cancelling, Reacting, Broadcasting, Deactivating, Pausing,
            {<<"update">>}, Switching, {<<"add">>}, Verifying} :
    \A t \in P : t # <<>> /\ Len(t) # 1 => Tail(t) \in P
<1> DEFINE Good(P) == \A t \in P : t # <<>> /\ Len(t) # 1 => Tail(t) \in P
<1>1. Good(Broadcasting)
  BY DEF Broadcasting
<1>2. Good(Making)
  BY Tails, Lasts, Zenon DEF Making
<1>3. Good(Removing)
  BY Tails, Lasts, Zenon DEF Removing
<1>4. Good(Updating)
  BY Tails, Lasts, Zenon DEF Updating
<1>5. Good(Cancelling)
  BY Tails, Lasts, Zenon DEF Cancelling, Removing
<1>6. Good(Reacting)
  BY Tails, Lasts, Zenon DEF Reacting, Making
<1>7. Good(Pausing)
  BY Tails, Lasts, Zenon DEF Pausing
<1>8. Good(Deactivating)
  BY Tails, Lasts, Zenon DEF Deactivating
<1>9. Good(Switching)
  BY Tails, Lasts, Zenon DEF Switching
<1>10. Good(Verifying)
  BY Tails, Lasts, Zenon DEF Verifying
<1>11. Good({<<"update">>}) /\ Good({<<"add">>})
  BY Lasts, Zenon
<1> HIDE DEF Good
<1>12. \A P \in {Making, Removing, Updating, Cancelling, Reacting, Broadcasting,
                 Deactivating, Pausing, {<<"update">>}, Switching, {<<"add">>},
                 Verifying} : Good(P)
  BY <1>1, <1>2, <1>3, <1>4, <1>5, <1>6, <1>7, <1>8, <1>9, <1>10, <1>11
<1> QED  BY <1>12, Zenon DEF Good

\* After an await, what is left is of the same operation.
LEMMA RestTyped ==
  ASSUME calls \in [Clients -> Tasks \union {NoCall}], NEW c \in Clients,
         calls[c].todo # <<>>
  PROVE  /\ Rest(c) \in Tasks \union {NoCall}
         /\ \/ Rest(c) = NoCall
            \/ /\ Rest(c) \in Tasks /\ Rest(c).todo = Tail(calls[c].todo)
               /\ Rest(c).op = calls[c].op /\ Rest(c).id = calls[c].id
<1> DEFINE x == calls[c]
           y == [x EXCEPT !.todo = Tail(x.todo)]
<1>1. x \in Tasks  BY DEF NoCall
<1>2. CASE Len(x.todo) = 1  BY <1>2 DEF Rest
<1>3. CASE Len(x.todo) # 1
  <2>1. Rest(c) = y  BY <1>3 DEF Rest
  <2>2. ASSUME NEW O, NEW I,
               NEW P \in {Making, Removing, Updating, Cancelling, Reacting, Broadcasting,
                          Deactivating, Pausing, {<<"update">>}, Switching, {<<"add">>}, Verifying},
               x \in [op : O, id : I, todo : P]
        PROVE  y \in [op : O, id : I, todo : P]
    <3>1. Tail(x.todo) \in P  BY <1>3, <2>2, PlansGoOn
    <3> QED  BY <2>2, <3>1
  <2>3. PICK T \in {[op : {"schedule"}, id : Schedules, todo : Making],
                 [op : {"update"}, id : Schedules, todo : Updating],
                 [op : {"cancel"}, id : Schedules, todo : Cancelling],
                 [op : {"cron"}, id : Crons, todo : Making],
                 [op : {"deactivate"}, id : Crons, todo : Deactivating],
                 [op : {"send", "publish"}, id : Messages, todo : Making],
                 [op : {"react"}, id : Messages, todo : Reacting],
                 [op : {"broadcast"}, id : Broadcasts, todo : Broadcasting],
                 [op : {"pause"}, id : Broadcasts, todo : Pausing],
                 [op : {"resume"}, id : Broadcasts, todo : {<<"update">>}],
                 [op : {"powerOn", "powerOff", "delete"}, id : {"none"}, todo : Switching],
                 [op : {"ask", "group"}, id : {"none"}, todo : {<<"add">>}],
                 [op : {"verify"}, id : {"none"}, todo : Verifying]} : x \in T
    BY <1>1 DEF Tasks
  <2>4. y \in T
    BY <2>2, <2>3
  <2>5. y \in Tasks
    BY <2>3, <2>4, Zenon DEF Tasks
  <2>6. y.todo = Tail(x.todo) /\ y.op = x.op /\ y.id = x.id
    BY <1>1 DEF Tasks
  <2> QED  BY <2>1, <2>5, <2>6
<1> QED  BY <1>2, <1>3

\* What comes first in the plans.
LEMMA Heads ==
  /\ \A t \in Making : Head(t) \in {"insert", "add"}
  /\ \A t \in Removing : Head(t) \in {"remove", "update"}
  /\ \A t \in Updating : Head(t) \in {"remove", "add", "update"}
  /\ \A t \in Cancelling : Head(t) \in {"remove", "add", "update"}
  /\ \A t \in Reacting : Head(t) \in {"insert", "add", "event"}
  /\ \A t \in Broadcasting : t # <<>> => Head(t) \in {"insert", "add"}
  /\ \A t \in Deactivating : Head(t) \in {"removeByKey", "update"}
  /\ \A t \in Pausing : Head(t) \in {"getJobs", "update"}
  /\ \A t \in Switching : Head(t) \in {"add", "update"}
  /\ \A t \in Verifying : Head(t) \in {"add", "waitUntilFinished"}
  /\ Head(<<"update">>) = "update" /\ Head(<<"add">>) = "add"
<1>1. /\ Head(<<"insert", "add">>) = "insert"
      /\ Head(<<"add">>) = "add"
      /\ Head(<<"remove", "update">>) = "remove"
      /\ Head(<<"update">>) = "update"
      /\ Head(<<"remove", "add", "update">>) = "remove"
      /\ Head(<<"add", "update">>) = "add"
      /\ Head(<<"remove", "add", "remove", "update">>) = "remove"
      /\ Head(<<"add", "remove", "update">>) = "add"
      /\ Head(<<"insert", "add", "event">>) = "insert"
      /\ Head(<<"add", "event">>) = "add"
      /\ Head(<<"event">>) = "event"
      /\ Head(<<"removeByKey", "update">>) = "removeByKey"
      /\ Head(<<"getJobs", "update">>) = "getJobs"
      /\ Head(<<"add", "waitUntilFinished">>) = "add"
      /\ Head(<<"waitUntilFinished">>) = "waitUntilFinished"
  OBVIOUS
<1>2. \A t \in Broadcasting : t # <<>> => Head(t) \in {"insert", "add"}
  BY DEF Broadcasting
<1>3. \A t \in Making : Head(t) \in {"insert", "add"}
  BY <1>1, Zenon DEF Making
<1>4. \A t \in Removing : Head(t) \in {"remove", "update"}
  BY <1>1, Zenon DEF Removing
<1>5. \A t \in Updating : Head(t) \in {"remove", "add", "update"}
  BY <1>1, Zenon DEF Updating
<1>6. \A t \in Cancelling : Head(t) \in {"remove", "add", "update"}
  BY <1>1, Zenon DEF Cancelling, Removing
<1>7. \A t \in Reacting : Head(t) \in {"insert", "add", "event"}
  BY <1>1, Zenon DEF Reacting, Making
<1>8. \A t \in Deactivating : Head(t) \in {"removeByKey", "update"}
  BY <1>1, Zenon DEF Deactivating
<1>9. \A t \in Pausing : Head(t) \in {"getJobs", "update"}
  BY <1>1, Zenon DEF Pausing
<1>10. \A t \in Switching : Head(t) \in {"add", "update"}
  BY <1>1, Zenon DEF Switching
<1>11. \A t \in Verifying : Head(t) \in {"add", "waitUntilFinished"}
  BY <1>1, Zenon DEF Verifying
<1> QED  BY <1>1, <1>2, <1>3, <1>4, <1>5, <1>6, <1>7, <1>8, <1>9, <1>10, <1>11

Retirers == {"cancel", "pause"}

\* Which operations, of which rows, have which awaits.
LEMMA AwaitedBy ==
  ASSUME calls \in [Clients -> Tasks \union {NoCall}], NEW c \in Clients, NEW what,
         Awaits(c, what)
  PROVE  /\ calls[c] \in Tasks /\ calls[c].todo # <<>>
         /\ what = "insert" =>
              /\ Op(c) \in {"schedule", "cron", "send", "publish", "react", "broadcast"}
              /\ Id(c) \in Schedules \union Crons \union Messages \union Broadcasts
         /\ what = "add" => Op(c) \notin {"deactivate", "pause", "resume"}
         /\ what = "remove" => Op(c) \in {"update", "cancel"} /\ Id(c) \in Schedules
         /\ what = "getJobs" => Op(c) = "pause" /\ Id(c) \in Broadcasts
         /\ what = "update" =>
              \/ /\ Op(c) \in {"update", "cancel", "deactivate", "pause", "resume"}
                 /\ Id(c) \in Schedules \union Crons \union Broadcasts
              \/ Op(c) \in {"powerOn", "powerOff", "delete"} /\ Id(c) = "none"
         /\ what = "event" => Op(c) = "react" /\ Id(c) \in Messages
<1> DEFINE x == calls[c]
<1>1. x \in Tasks /\ x.todo # <<>> /\ Head(x.todo) = what
  BY DEF Awaits, NoCall
<1>2. /\ what = "insert" =>
              /\ x.op \in {"schedule", "cron", "send", "publish", "react", "broadcast"}
              /\ x.id \in Schedules \union Crons \union Messages \union Broadcasts
      /\ what = "add" => x.op \notin {"deactivate", "pause", "resume"}
      /\ what = "remove" => x.op \in {"update", "cancel"} /\ x.id \in Schedules
      /\ what = "getJobs" => x.op = "pause" /\ x.id \in Broadcasts
      /\ what = "update" =>
           \/ /\ x.op \in {"update", "cancel", "deactivate", "pause", "resume"}
              /\ x.id \in Schedules \union Crons \union Broadcasts
           \/ x.op \in {"powerOn", "powerOff", "delete"} /\ x.id = "none"
      /\ what = "event" => x.op = "react" /\ x.id \in Messages
  <2> HIDE DEF x
  <2> QED  BY <1>1, Heads DEF Tasks
<1> QED  BY <1>1, <1>2 DEF Op, Id

\* A retirer comes to its last write after it has removed, or read, its row's jobs.
LEMMA RetirersRemove ==
  ASSUME calls \in [Clients -> Tasks \union {NoCall}], NEW c \in Clients, NEW what,
         Awaits(c, what), Op(c) \in Retirers, what \notin {"remove", "getJobs"}
  PROVE  Rest(c).todo # <<"update">>
<1> DEFINE x == calls[c]
<1>1. x \in Tasks /\ x.todo # <<>> /\ Head(x.todo) = what /\ x.op \in Retirers
  BY DEF Awaits, NoCall, Op
<1>2. x.todo \in Cancelling \union Pausing
  <2> HIDE DEF x
  <2> QED  BY <1>1 DEF Tasks, Retirers
<1>3. Rest(c) = NoCall \/ Rest(c).todo = Tail(x.todo)
  BY <1>1, RestTyped
<1>4. CASE Rest(c) = NoCall
  BY <1>4 DEF NoCall
<1>5. CASE Rest(c).todo = Tail(x.todo)
  <2>1. Len(<<"remove", "update">>) = 2 /\ Len(<<"update">>) = 1 /\ Tail(<<"update">>) = <<>>
        /\ Len(<<"add", "update">>) = 2 /\ Len(<<"add", "remove", "update">>) = 3 /\ Len(<<>>) = 0
    OBVIOUS
  <2>2. /\ Head(<<"remove", "update">>) = "remove"
        /\ Head(<<"getJobs", "update">>) = "getJobs"
        /\ Head(<<"remove", "add", "remove", "update">>) = "remove"
    OBVIOUS
  <2>3. Tail(x.todo) # <<"update">>
    <3> DEFINE t == x.todo
    <3>1. t \in Cancelling \union Pausing /\ Head(t) \notin {"remove", "getJobs"}
      BY <1>1, <1>2
    <3> HIDE DEF t
    <3>2. t \in {<<"update">>, <<"add", "remove", "update">>}
      BY <3>1, <2>2, Zenon DEF Cancelling, Removing, Pausing
    <3>3. Tail(t) \in {<<>>, <<"remove", "update">>}
      BY <3>2, <2>1, Tails, Zenon
    <3>4. Tail(t) # <<"update">>
      BY <3>3, <2>1
    <3> QED  BY <3>4 DEF t
  <2> QED  BY <1>5, <2>3
<1> QED  BY <1>3, <1>4, <1>5

-----------------------------------------------------------------------------
(* What an operation begins with. *)

\* The concatenations of updateScheduledMessage.
LEMMA SameElements ==
  ASSUME NEW S, NEW s \in Seq(S), NEW t \in Seq(S), Len(s) = Len(t),
         \A i \in 1..Len(s) : s[i] = t[i]
  PROVE  s = t
OBVIOUS

LEMMA UpdatePlans ==
  /\ <<>> \o <<>> \o <<"update">> = <<"update">>
  /\ <<>> \o <<"remove">> \o <<"update">> = <<"remove", "update">>
  /\ <<"remove", "add">> \o <<>> \o <<"update">> = <<"remove", "add", "update">>
  /\ <<"remove", "add">> \o <<"remove">> \o <<"update">>
       = <<"remove", "add", "remove", "update">>
<1> DEFINE S == {"remove", "add", "update"}
<1>1. \A u, v \in S : <<u>> \o <<v>> = <<u, v>>
  <2> TAKE u, v \in S
  <2> DEFINE s == <<u>> \o <<v>>
             t == <<u, v>>
  <2>1. s \in Seq(S) /\ t \in Seq(S) /\ Len(s) = 2 /\ Len(t) = 2 /\ s[1] = t[1] /\ s[2] = t[2]
    OBVIOUS
  <2> HIDE DEF s, t, S
  <2>2. s = t
    BY <2>1, SameElements
  <2> QED  BY <2>2 DEF s, t
<1>2. \A u, v, w \in S : <<u, v>> \o <<w>> = <<u, v, w>>
  <2> TAKE u, v, w \in S
  <2> DEFINE s == <<u, v>> \o <<w>>
             t == <<u, v, w>>
  <2>1. s \in Seq(S) /\ t \in Seq(S) /\ Len(s) = 3 /\ Len(t) = 3
        /\ s[1] = t[1] /\ s[2] = t[2] /\ s[3] = t[3]
    OBVIOUS
  <2> HIDE DEF s, t, S
  <2>2. s = t
    BY <2>1, SameElements
  <2> QED  BY <2>2 DEF s, t
<1>3. \A u, v, w, x \in S : <<u, v, w>> \o <<x>> = <<u, v, w, x>>
  <2> TAKE u, v, w, x \in S
  <2> DEFINE s == <<u, v, w>> \o <<x>>
             t == <<u, v, w, x>>
  <2>1. s \in Seq(S) /\ t \in Seq(S) /\ Len(s) = 4 /\ Len(t) = 4
        /\ s[1] = t[1] /\ s[2] = t[2] /\ s[3] = t[3] /\ s[4] = t[4]
    OBVIOUS
  <2> HIDE DEF s, t, S
  <2>2. s = t
    BY <2>1, SameElements
  <2> QED  BY <2>2 DEF s, t
<1>4. <<>> \o <<>> = <<>> /\ <<>> \o <<"update">> = <<"update">>
      /\ <<>> \o <<"remove">> = <<"remove">>
      /\ <<"remove", "add">> \o <<>> = <<"remove", "add">>
  OBVIOUS
<1>5. /\ <<"remove">> \o <<"update">> = <<"remove", "update">>
      /\ <<"remove", "add">> \o <<"update">> = <<"remove", "add", "update">>
      /\ <<"remove", "add">> \o <<"remove">> = <<"remove", "add", "remove">>
      /\ <<"remove", "add", "remove">> \o <<"update">>
           = <<"remove", "add", "remove", "update">>
  BY <1>1, <1>2, <1>3
<1> QED  BY <1>4, <1>5, Zenon

Makers == {"schedule", "cron", "send", "publish", "react", "broadcast"}

\* The row allows what begins: only what is new is made, only what is SCHEDULED gets
\* another job, and who retires a row removes its jobs first.
Fits(x) ==
  /\ x.op \in Retirers => x.todo # <<"update">>
  /\ x.op \in Makers => rows[x.id] = "none"
  /\ x.op = "update" \/ (x.op = "cancel" /\ x.todo \notin Removing) => rows[x.id] = "SCHEDULED"

\* So every operation begins with one of its plans.
LEMMA OperationsBegin ==
  ASSUME NEW c \in Clients, Operations(c)
  PROVE  \E x \in Tasks : Begin(c, x.op, x.id, x.todo) /\ Fits(x)
<1> DEFINE Task(op, id, todo) == [op |-> op, id |-> id, todo |-> todo]
           Good == \E x \in Tasks : Begin(c, x.op, x.id, x.todo) /\ Fits(x)
<1>1. ASSUME NEW op, NEW id, NEW todo, Task(op, id, todo) \in Tasks,
             Begin(c, op, id, todo), Fits(Task(op, id, todo))
      PROVE  Good
  <2>1. PICK x \in Tasks : x = Task(op, id, todo)  BY <1>1
  <2>2. x.op = op /\ x.id = id /\ x.todo = todo  BY <2>1
  <2>3. Begin(c, x.op, x.id, x.todo)  BY <1>1, <2>2
  <2> QED  BY <1>1, <2>1, <2>3
<1>2. <<"update">> # <<"remove", "update">> /\ <<"update">> # <<"getJobs", "update">>
      /\ <<"update">> # <<"remove", "add", "remove", "update">>
  <2>1. Len(<<"update">>) = 1 /\ Len(<<"remove", "update">>) = 2
        /\ Len(<<"getJobs", "update">>) = 2
        /\ Len(<<"remove", "add", "remove", "update">>) = 4
    OBVIOUS
  <2> QED  BY <2>1
<1> SUFFICES Good
  OBVIOUS
<1> HIDE DEF Good
<1>3. ASSUME NEW id \in Schedules, createScheduledMessage(c, id) \/ createSmartSchedule(c, id)
      PROVE  Good
  <2>1. Begin(c, "schedule", id, <<"insert", "add">>) /\ rows[id] = "none"
    BY <1>3 DEF createScheduledMessage, createSmartSchedule, IsNew
  <2>2. Task("schedule", id, <<"insert", "add">>) \in Tasks
    BY DEF Tasks, Making
  <2>3. Fits(Task("schedule", id, <<"insert", "add">>))
    BY <2>1 DEF Fits, Retirers
  <2> QED  BY <2>1, <2>2, <2>3, <1>1
<1>4. ASSUME NEW id \in Schedules, updateScheduledMessage(c, id) PROVE Good
  <2>1. PICK op, todo : /\ Begin(c, op, id, todo)
                        /\ \/ op = "update" /\ todo \in {<<"update">>,
                                             <<"remove", "add", "update">>}
                           \/ op = "cancel" /\ todo \in {<<"remove", "update">>,
                                             <<"remove", "add", "remove", "update">>}
    BY <1>4, UpdatePlans DEF updateScheduledMessage
  <2>2. rows[id] = "SCHEDULED"
    BY <1>4 DEF updateScheduledMessage
  <2>3. CASE op = "update"
    <3>1. todo \in Updating
      BY <2>1, <2>3 DEF Updating
    <3>2. Task(op, id, todo) \in Tasks
      BY <2>3, <3>1 DEF Tasks
    <3>3. Fits(Task(op, id, todo))
      BY <2>2, <2>3 DEF Fits, Retirers, Makers
    <3> QED  BY <2>1, <3>2, <3>3, <1>1
  <2>4. CASE op = "cancel"
    <3>1. todo \in {<<"remove", "update">>, <<"remove", "add", "remove", "update">>}
      BY <2>1, <2>4
    <3>2. todo \in Cancelling
      BY <3>1, Zenon DEF Cancelling, Removing
    <3>3. Task(op, id, todo) \in Tasks
      BY <2>4, <3>2 DEF Tasks
    <3>4. Fits(Task(op, id, todo))
      BY <2>2, <2>4, <3>1, <1>2 DEF Fits, Makers
    <3> QED  BY <2>1, <3>3, <3>4, <1>1
  <2> QED  BY <2>1, <2>3, <2>4
<1>5. ASSUME NEW id \in Schedules, deleteScheduledMessage(c, id) PROVE Good
  <2>1. Begin(c, "cancel", id, <<"remove", "update">>)
    BY <1>5 DEF deleteScheduledMessage
  <2>2. <<"remove", "update">> \in Cancelling /\ <<"remove", "update">> \in Removing
    BY Zenon DEF Cancelling, Removing
  <2>3. Task("cancel", id, <<"remove", "update">>) \in Tasks
    BY <2>2 DEF Tasks
  <2>4. Fits(Task("cancel", id, <<"remove", "update">>))
    BY <2>2, <1>2 DEF Fits, Makers
  <2> QED  BY <2>1, <2>3, <2>4, <1>1
<1>6. ASSUME NEW id \in Crons, createCronJob(c, id) PROVE Good
  <2>1. Begin(c, "cron", id, <<"insert", "add">>) /\ rows[id] = "none"
    BY <1>6 DEF createCronJob, IsNew
  <2>2. Task("cron", id, <<"insert", "add">>) \in Tasks
    BY DEF Tasks, Making
  <2>3. Fits(Task("cron", id, <<"insert", "add">>))
    BY <2>1 DEF Fits, Retirers
  <2> QED  BY <2>1, <2>2, <2>3, <1>1
<1>7. ASSUME NEW id \in Crons, deleteCronJob(c, id) PROVE Good
  <2>1. Begin(c, "deactivate", id, <<"removeByKey", "update">>)
    BY <1>7 DEF deleteCronJob
  <2>2. Task("deactivate", id, <<"removeByKey", "update">>) \in Tasks
    BY DEF Tasks, Deactivating
  <2>3. Fits(Task("deactivate", id, <<"removeByKey", "update">>))
    BY DEF Fits, Makers, Retirers
  <2> QED  BY <2>1, <2>2, <2>3, <1>1
<1>8. ASSUME NEW id \in Messages, send(c, id) PROVE Good
  <2>1. PICK op \in {"send", "publish"} :
          Begin(c, op, id, <<"insert", "add">>) /\ rows[id] = "none"
    BY <1>8 DEF send, IsNew
  <2>2. Task(op, id, <<"insert", "add">>) \in Tasks
    BY DEF Tasks, Making
  <2>3. Fits(Task(op, id, <<"insert", "add">>))
    BY <2>1 DEF Fits, Makers, Retirers
  <2> QED  BY <2>1, <2>2, <2>3, <1>1
<1>9. ASSUME NEW id \in Messages, addReaction(c, id) \/ removeReaction(c, id) PROVE Good
  <2>1. PICK todo \in {<<"insert", "add", "event">>, <<"insert", "add">>} :
          Begin(c, "react", id, todo) /\ rows[id] = "none"
    BY <1>9 DEF addReaction, removeReaction, IsNew
  <2>2. todo \in Reacting
    BY Zenon DEF Reacting, Making
  <2>3. Task("react", id, todo) \in Tasks
    BY <2>2 DEF Tasks
  <2>4. Fits(Task("react", id, todo))
    BY <2>1 DEF Fits, Makers, Retirers
  <2> QED  BY <2>1, <2>3, <2>4, <1>1
<1>10. ASSUME NEW id \in Broadcasts, createBroadcast(c, id) PROVE Good
  <2> DEFINE todo == <<"insert">> \o [i \in 1..Recipients |-> "add"]
  <2>1. Begin(c, "broadcast", id, todo) /\ rows[id] = "none"
    BY <1>10 DEF createBroadcast, IsNew
  <2>2. todo \in Broadcasting
    BY CountsAssumption DEF Broadcasting
  <2> HIDE DEF todo
  <2>3. Task("broadcast", id, todo) \in Tasks
    BY <2>2 DEF Tasks
  <2>4. Fits(Task("broadcast", id, todo))
    BY <2>1 DEF Fits, Retirers
  <2> QED  BY <2>1, <2>3, <2>4, <1>1
<1>11. ASSUME NEW id \in Broadcasts, updateStatus(c, id) PROVE Good
  <2>1. CASE Begin(c, "pause", id, <<"getJobs", "update">>)
    <3>1. Task("pause", id, <<"getJobs", "update">>) \in Tasks
      BY DEF Tasks, Pausing
    <3>2. Fits(Task("pause", id, <<"getJobs", "update">>))
      BY <1>2 DEF Fits, Makers
    <3> QED  BY <2>1, <3>1, <3>2, <1>1
  <2>2. CASE Begin(c, "resume", id, <<"update">>)
    <3>1. Task("resume", id, <<"update">>) \in Tasks
      BY DEF Tasks
    <3>2. Fits(Task("resume", id, <<"update">>))
      BY DEF Fits, Makers, Retirers
    <3> QED  BY <2>2, <3>1, <3>2, <1>1
  <2> QED  BY <1>11, <2>1, <2>2 DEF updateStatus
<1>12. CASE powerOn(c) \/ powerOff(c) \/ removeInstance(c)
  <2>1. PICK op \in {"powerOn", "powerOff", "delete"} : Begin(c, op, "none", <<"add", "update">>)
    BY <1>12 DEF powerOn, powerOff, removeInstance, lifecycle
  <2>2. Task(op, "none", <<"add", "update">>) \in Tasks
    BY DEF Tasks, Switching
  <2>3. Fits(Task(op, "none", <<"add", "update">>))
    BY DEF Fits, Makers, Retirers
  <2> QED  BY <2>1, <2>2, <2>3, <1>1
<1>13. CASE updateProfile(c) \/ storyOperation(c) \/ updatePresence(c) \/ groupOperation(c)
  <2>1. PICK op \in {"ask", "group"} : Begin(c, op, "none", <<"add">>)
    BY <1>13 DEF updateProfile, storyOperation, updatePresence, groupOperation, ask
  <2>2. Task(op, "none", <<"add">>) \in Tasks
    BY DEF Tasks
  <2>3. Fits(Task(op, "none", <<"add">>))
    BY DEF Fits, Makers, Retirers
  <2> QED  BY <2>1, <2>2, <2>3, <1>1
<1>14. CASE verifySingle(c)
  <2>1. Begin(c, "verify", "none", <<"add", "waitUntilFinished">>)
    BY <1>14 DEF verifySingle
  <2>2. Task("verify", "none", <<"add", "waitUntilFinished">>) \in Tasks
    BY DEF Tasks, Verifying
  <2>3. Fits(Task("verify", "none", <<"add", "waitUntilFinished">>))
    BY DEF Fits, Makers, Retirers
  <2> QED  BY <2>1, <2>2, <2>3, <1>1
<1>15. CASE \E id \in Schedules : \/ createScheduledMessage(c, id) \/ createSmartSchedule(c, id)
                                 \/ updateScheduledMessage(c, id) \/ deleteScheduledMessage(c, id)
  BY <1>3, <1>4, <1>5, <1>15
<1>16. CASE \E id \in Crons : createCronJob(c, id) \/ deleteCronJob(c, id)
  BY <1>6, <1>7, <1>16
<1>17. CASE \E id \in Messages : send(c, id) \/ addReaction(c, id) \/ removeReaction(c, id)
  BY <1>8, <1>9, <1>17
<1>18. CASE \E id \in Broadcasts : createBroadcast(c, id) \/ updateStatus(c, id)
  BY <1>10, <1>11, <1>18
<1> QED
  BY <1>12, <1>13, <1>14, <1>15, <1>16, <1>17, <1>18 DEF Operations

-----------------------------------------------------------------------------
(* Types. *)

JobKeys == [queue : Queues, id : Ids \union {"none"}, n : Nat]
JobRecords ==
  [state : {"delayed", "waiting", "stalled", "active", "failed", "completed"},
   jid : BOOLEAN, attempt : 1..Attempts]

\* Only the jobs of pending rows have a jid, and they do not wait for their time.  The
\* jobs of schedules and broadcasts are in their queues.
JobFits(k, job) ==
  /\ k \in JobKeys /\ job \in JobRecords
  /\ job.jid => k.queue = "outbound-messages" /\ k.id \in Pending /\ job.state # "delayed"
  /\ k.id \in Schedules => k.queue = "scheduled-messages"
  /\ k.id \in Broadcasts => k.queue = "broadcast-messages"

JobsTyped(f) ==
  /\ f = [k \in DOMAIN f |-> f[k]]
  /\ IsFiniteSet(DOMAIN f)
  /\ \A k \in DOMAIN f : JobFits(k, f[k])

CallsTyped == calls \in [Clients -> Tasks \union {NoCall}]

FoundTyped == found \in [Clients -> SUBSET [queue : Queues, id : Broadcasts, n : Nat]]

\* What the worker of scheduled messages of a process may be at.
Ticks ==
  {t \in [at : {"idle", "query", "enqueue", "mark"}, job : JobKeys \union {NoTick.job},
          batch : SUBSET Pending, row : Pending \union {"none"}] :
     /\ t.at = "idle" => t = NoTick
     /\ t.at = "query" => t.batch = {}
     /\ t.at = "mark" => t.row \in Pending \ t.batch
     /\ t.job.queue \in {"scheduled-messages", "none"}}

TickTyped == scheduler \in [Pods -> Ticks]

\* A job of the schedulers' queue that is active is one some of them has, and no cron job's.
ActiveIsTicking ==
  \A k \in DOMAIN jobs :
    k.queue = "scheduled-messages" /\ jobs[k].state = "active" =>
      k.id \notin Crons /\ \E p \in Pods : scheduler[p].job = k

RowsTyped ==
  /\ rows \in [Ids -> {"none", "pending", "enqueued", "SCHEDULED", "CANCELED", "active",
                       "inactive", "PENDING", "queued", "paused", "deleted"}]
  /\ \A id \in Pending : rows[id] \in {"pending", "enqueued", "deleted"}
  /\ instance \in {"DISCONNECTED", "CONNECTING", "deleted"}

CountsTyped ==
  /\ events \subseteq Messages
  /\ sent \in [Pending -> Nat]
  /\ called \in 0..MaxCalls /\ ticks \in 0..MaxTicks /\ mishaps \in 0..MaxMishaps
  /\ overlapped \subseteq Ids \union {"none"}

Types ==
  /\ CallsTyped /\ FoundTyped /\ JobsTyped(jobs) /\ TickTyped /\ ActiveIsTicking
  /\ RowsTyped /\ CountsTyped

LEMMA TypesSuffice == Types => TypeOK
<1> SUFFICES ASSUME Types PROVE TypeOK  OBVIOUS
<1>1. \A c \in Clients : calls[c].id \in Ids \union {"none"}
  BY DEF Types, CallsTyped, Tasks, NoCall, Ids
<1>2. \A k \in DOMAIN jobs : /\ k \in [queue : Queues, id : Ids \union {"none"}, n : Nat]
                             /\ jobs[k] \in JobRecords
  BY DEF Types, JobsTyped, JobFits, JobKeys
<1>3. \A c \in Clients : found[c] \subseteq [queue : Queues, id : Broadcasts, n : Nat]
  BY DEF Types, FoundTyped
<1>4. \A p \in Pods : /\ scheduler[p].at \in {"idle", "query", "enqueue", "mark"}
                      /\ scheduler[p].batch \subseteq Pending
  BY DEF Types, TickTyped, Ticks
<1> QED
  BY <1>1, <1>2, <1>3, <1>4 DEF Types, TypeOK, ActiveIsTicking, RowsTyped, CountsTyped, JobRecords

LEMMA NoTickTyped == NoTick \in Ticks
BY DEF Ticks, NoTick, Key

LEMMA InitTyped == Init => Types
<1> SUFFICES ASSUME Init PROVE Types  OBVIOUS
<1>1. JobsTyped(jobs)
  BY FS_EmptySet DEF Init, JobsTyped
<1>2. CallsTyped /\ FoundTyped /\ RowsTyped /\ ActiveIsTicking
  BY DEF Init, CallsTyped, FoundTyped, RowsTyped, ActiveIsTicking, Ids
<1>3. TickTyped
  BY NoTickTyped DEF Init, TickTyped
<1>4. CountsTyped
  BY CountsAssumption DEF Init, CountsTyped
<1> QED  BY <1>1, <1>2, <1>3, <1>4 DEF Types

-----------------------------------------------------------------------------
(* What the writes of jobs do. *)

\* g has the jobs of f, or fewer, and none that waits anew or, with a jid, is open anew:
\* only those of pending rows are put back to wait.
OpenStates == {"waiting", "stalled", "active"}
Quiet(f, g) ==
  /\ DOMAIN g \subseteq DOMAIN f
  /\ \A k \in DOMAIN g :
       /\ g[k].jid = f[k].jid
       /\ k.id \notin Pending /\ g[k].state \in {"delayed", "waiting"} =>
            f[k].state \in {"delayed", "waiting"}
       /\ f[k].jid /\ g[k].state \in OpenStates => f[k].state \in OpenStates

LEMMA NothingWritten == JobsTyped(jobs) => Quiet(jobs, jobs)
  BY DEF Quiet

\* A job of jid is written only when it is open.
LEMMA StateWritten ==
  ASSUME JobsTyped(jobs), NEW k \in DOMAIN jobs,
         NEW s \in {"stalled", "active", "failed", "completed"},
         jobs[k].jid /\ s \in OpenStates => jobs[k].state \in OpenStates
  PROVE  /\ JobsTyped(SetState(k, s)) /\ Quiet(jobs, SetState(k, s))
         /\ DOMAIN SetState(k, s) = DOMAIN jobs
         /\ \A j \in DOMAIN jobs : j # k => SetState(k, s)[j] = jobs[j]
         /\ SetState(k, s)[k].state = s
<1> DEFINE g == SetState(k, s)
<1>1. jobs[k] \in JobRecords /\ JobFits(k, jobs[k])
  BY DEF JobsTyped, JobFits
<1>2. PICK job \in JobRecords : job = [jobs[k] EXCEPT !.state = s]
  BY <1>1 DEF JobRecords
<1>3. job.state = s /\ job.jid = jobs[k].jid
  BY <1>1, <1>2 DEF JobRecords
<1>4. g = [jobs EXCEPT ![k] = job]
  BY <1>2 DEF SetState
<1>5. DOMAIN g = DOMAIN jobs /\ g[k] = job /\ \A j \in DOMAIN jobs : j # k => g[j] = jobs[j]
  BY <1>4
<1>6. g = [j \in DOMAIN g |-> g[j]]
  BY <1>4
<1>7. JobFits(k, job)
  BY <1>1, <1>3 DEF JobFits
<1> HIDE DEF g
<1>8. JobsTyped(g)
  BY <1>5, <1>6, <1>7 DEF JobsTyped
<1>9. Quiet(jobs, g)
  BY <1>3, <1>5 DEF Quiet
<1> QED  BY <1>3, <1>5, <1>8, <1>9 DEF g

LEMMA RetriedWritten ==
  ASSUME JobsTyped(jobs), NEW k \in DOMAIN jobs, jobs[k].state = "active", jobs[k].jid
  PROVE  /\ JobsTyped(Retried(k)) /\ Quiet(jobs, Retried(k))
         /\ DOMAIN Retried(k) = DOMAIN jobs
         /\ \A j \in DOMAIN jobs : j # k => Retried(k)[j] = jobs[j]
         /\ Retried(k)[k].state \in {"waiting", "failed"}
<1> DEFINE g == Retried(k)
<1>1. jobs[k] \in JobRecords /\ JobFits(k, jobs[k])
  BY DEF JobsTyped, JobFits
<1>2. PICK job \in JobRecords : /\ g = [jobs EXCEPT ![k] = job]
                                /\ job.state \in {"waiting", "failed"} /\ job.jid = jobs[k].jid
  <2>1. CASE jobs[k].attempt < Attempts
    <3> DEFINE job == [jobs[k] EXCEPT !.state = "waiting", !.attempt = jobs[k].attempt + 1]
    <3>1. jobs[k].attempt + 1 \in 1..Attempts
      BY <1>1, <2>1, CountsAssumption DEF JobRecords
    <3>2. job \in JobRecords /\ job.state = "waiting" /\ job.jid = jobs[k].jid
      BY <1>1, <3>1 DEF JobRecords
    <3>3. g = [jobs EXCEPT ![k] = job]
      BY <2>1 DEF Retried
    <3> HIDE DEF job, g
    <3> QED  BY <3>2, <3>3
  <2>2. CASE ~(jobs[k].attempt < Attempts)
    <3> DEFINE job == [jobs[k] EXCEPT !.state = "failed"]
    <3>1. job \in JobRecords /\ job.state = "failed" /\ job.jid = jobs[k].jid
      BY <1>1 DEF JobRecords
    <3>2. g = [jobs EXCEPT ![k] = job]
      BY <2>2 DEF Retried
    <3> HIDE DEF job, g
    <3> QED  BY <3>1, <3>2
  <2> QED  BY <2>1, <2>2
<1>3. DOMAIN g = DOMAIN jobs /\ g[k] = job /\ \A j \in DOMAIN jobs : j # k => g[j] = jobs[j]
  BY <1>2
<1>4. g = [j \in DOMAIN g |-> g[j]]
  BY <1>2
<1>5. JobFits(k, job)
  BY <1>1, <1>2 DEF JobFits
<1> HIDE DEF g
<1>6. JobsTyped(g)
  BY <1>3, <1>4, <1>5 DEF JobsTyped
<1>7. Quiet(jobs, g)
  BY <1>1, <1>2, <1>3 DEF Quiet, JobFits, OpenStates
<1> QED  BY <1>2, <1>3, <1>6, <1>7 DEF g

\* A job is added, unless its key is taken.
LEMMA JobAdded ==
  ASSUME JobsTyped(jobs), NEW k \in JobKeys, NEW s \in {"delayed", "waiting"}, NEW jid \in BOOLEAN,
         JobFits(k, [state |-> s, jid |-> jid, attempt |-> 1])
  PROVE  /\ JobsTyped(Added(k, s, jid))
         /\ DOMAIN Added(k, s, jid) = DOMAIN jobs \union {k}
         /\ \A j \in DOMAIN jobs : Added(k, s, jid)[j] = jobs[j]
         /\ k \notin DOMAIN jobs => /\ Added(k, s, jid)[k].state = s
                                    /\ Added(k, s, jid)[k].jid = jid
<1> DEFINE g == Added(k, s, jid)
<1>1. CASE k \in DOMAIN jobs
  BY <1>1 DEF Added
<1>2. CASE k \notin DOMAIN jobs
  <2> DEFINE job == [state |-> s, jid |-> jid, attempt |-> 1]
  <2>1. g = [j \in DOMAIN jobs \union {k} |-> IF j = k THEN job ELSE jobs[j]]
    BY <1>2 DEF Added
  <2>2. /\ DOMAIN g = DOMAIN jobs \union {k}
        /\ \A j \in DOMAIN jobs : g[j] = jobs[j]
        /\ g[k] = job
        /\ g = [j \in DOMAIN g |-> g[j]]
    BY <2>1, <1>2
  <2>3. IsFiniteSet(DOMAIN g)
    BY <2>2, FS_AddElement DEF JobsTyped
  <2>4. job.state = s /\ job.jid = jid
    OBVIOUS
  <2> HIDE DEF g
  <2>5. \A j \in DOMAIN g : JobFits(j, g[j])
    BY <2>2 DEF JobsTyped
  <2>6. JobsTyped(g)
    BY <2>2, <2>3, <2>5 DEF JobsTyped
  <2> HIDE DEF job
  <2> QED  BY <2>2, <2>4, <2>6, <1>2 DEF g
<1> QED  BY <1>1, <1>2

LEMMA JobsRemoved ==
  ASSUME JobsTyped(jobs), NEW K
  PROVE  /\ JobsTyped(Without(K)) /\ Quiet(jobs, Without(K))
         /\ DOMAIN Without(K) = DOMAIN jobs \ K
         /\ \A j \in DOMAIN Without(K) : Without(K)[j] = jobs[j]
<1> DEFINE g == Without(K)
<1>1. /\ DOMAIN g = DOMAIN jobs \ K
      /\ \A j \in DOMAIN g : g[j] = jobs[j]
      /\ g = [j \in DOMAIN g |-> g[j]]
  BY DEF Without
<1>2. IsFiniteSet(DOMAIN g)
  BY <1>1, FS_Subset DEF JobsTyped
<1> HIDE DEF g
<1>3. JobsTyped(g) /\ Quiet(jobs, g)
  BY <1>1, <1>2 DEF JobsTyped, Quiet
<1> QED  BY <1>1, <1>3 DEF g

-----------------------------------------------------------------------------
(* The steps of the workers keep the types. *)

LEMMA TickWritten ==
  ASSUME TickTyped, NEW p \in Pods, NEW t \in Ticks, scheduler' = [scheduler EXCEPT ![p] = t]
  PROVE  TickTyped' /\ \A q \in Pods : scheduler'[q] = IF q = p THEN t ELSE scheduler[q]
BY DEF TickTyped

LEMMA OverTyped ==
  ASSUME Types, NEW p \in Pods, NEW s \in {"stalled", "failed", "completed"}, Over(p, s)
  PROVE  /\ JobsTyped(jobs') /\ Quiet(jobs, jobs') /\ TickTyped' /\ ActiveIsTicking'
         /\ \A q \in Pods : scheduler'[q] = IF q = p THEN NoTick ELSE scheduler[q]
<1>1. /\ TickTyped'
      /\ \A q \in Pods : scheduler'[q] = IF q = p THEN NoTick ELSE scheduler[q]
  BY NoTickTyped, TickWritten DEF Over, Types
<1>2. PICK k : k = scheduler[p].job
  OBVIOUS
<1>3. CASE IsCron(k) \/ k \notin DOMAIN jobs
  <2>1. jobs' = jobs
    BY <1>2, <1>3 DEF Over
  <2>2. ActiveIsTicking'
    BY <1>1, <1>2, <1>3, <2>1 DEF Types, ActiveIsTicking, IsCron
  <2> QED  BY <1>1, <2>1, <2>2, NothingWritten DEF Types
<1>4. CASE ~IsCron(k) /\ k \in DOMAIN jobs
  <2>1. jobs' = SetState(k, s)
    BY <1>2, <1>4 DEF Over
  <2>2. JobFits(k, jobs[k]) /\ k.queue \in {"scheduled-messages", "none"}
    BY <1>2, <1>4 DEF Types, JobsTyped, TickTyped, Ticks
  <2>3. ~jobs[k].jid
    BY <2>2 DEF JobFits
  <2>4. /\ JobsTyped(jobs') /\ Quiet(jobs, jobs') /\ DOMAIN jobs' = DOMAIN jobs
        /\ \A j \in DOMAIN jobs : j # k => jobs'[j] = jobs[j]
        /\ jobs'[k].state = s
    BY <1>4, <2>1, <2>3, StateWritten DEF Types
  <2>5. ActiveIsTicking'
    BY <1>1, <1>2, <2>4 DEF Types, ActiveIsTicking
  <2> QED  BY <1>1, <2>4, <2>5
<1> QED  BY <1>3, <1>4

LEMMA ContinueTyped ==
  ASSUME Types, NEW p \in Pods, NEW batch \in SUBSET Pending, Continue(p, batch)
  PROVE  /\ JobsTyped(jobs') /\ Quiet(jobs, jobs') /\ TickTyped' /\ ActiveIsTicking'
         /\ scheduler'[p].at \in {"idle", "enqueue"} /\ scheduler'[p].batch = batch
         /\ \A q \in Pods : q # p => scheduler'[q] = scheduler[q]
<1>1. CASE batch = {}
  BY <1>1, OverTyped DEF Continue, NoTick
<1>2. CASE batch # {}
  <2>1. PICK t : t = [scheduler[p] EXCEPT !.at = "enqueue", !.batch = batch]
    OBVIOUS
  <2>2. t \in Ticks /\ t.at = "enqueue" /\ t.batch = batch /\ t.job = scheduler[p].job
    BY <2>1 DEF Types, TickTyped, Ticks
  <2>3. scheduler' = [scheduler EXCEPT ![p] = t] /\ jobs' = jobs
    BY <1>2, <2>1 DEF Continue, Types, TickTyped
  <2>4. /\ TickTyped'
        /\ \A q \in Pods : scheduler'[q] = IF q = p THEN t ELSE scheduler[q]
    BY <2>2, <2>3, TickWritten DEF Types
  <2>5. \A q \in Pods : scheduler'[q].job = scheduler[q].job
    BY <2>2, <2>4
  <2>6. ActiveIsTicking'
    BY <2>3, <2>5 DEF Types, ActiveIsTicking
  <2> QED  BY <2>2, <2>3, <2>4, <2>6, NothingWritten DEF Types
<1> QED  BY <1>1, <1>2

\* A job of another queue that is written does not concern the schedulers.
LEMMA OthersWritten ==
  ASSUME Types, NEW k \in DOMAIN jobs, k.queue # "scheduled-messages",
         DOMAIN jobs' = DOMAIN jobs, \A j \in DOMAIN jobs : j # k => jobs'[j] = jobs[j],
         scheduler' = scheduler
  PROVE  ActiveIsTicking' /\ TickTyped'
BY DEF Types, ActiveIsTicking, TickTyped

LEMMA TakeScheduledTyped ==
  ASSUME Types, NEW p \in Pods, NEW k \in DOMAIN jobs, takeScheduled(p, k)
  PROVE  /\ Types' /\ Quiet(jobs, jobs') /\ scheduler'[p].batch = {} /\ scheduler'[p].at = "query"
         /\ \A q \in Pods : q # p => scheduler'[q] = scheduler[q]
<1>1. k.queue = "scheduled-messages" /\ k \in JobKeys /\ ~jobs[k].jid
  BY DEF Types, takeScheduled, JobsTyped, JobFits
<1>2. PICK t : t = [NoTick EXCEPT !.at = "query", !.job = k]
  OBVIOUS
<1>3. scheduler' = [scheduler EXCEPT ![p] = t]
  BY <1>2 DEF takeScheduled
<1>4. t \in Ticks /\ t.at = "query" /\ t.job = k /\ t.batch = {}
  <2>1. NoTick \in Ticks /\ NoTick.batch = {} /\ NoTick.row = "none"
    BY NoTickTyped DEF NoTick
  <2> HIDE DEF NoTick
  <2>2. t.at = "query" /\ t.job = k /\ t.batch = {}
    BY <1>2, <2>1 DEF Ticks
  <2> QED  BY <1>1, <1>2, <2>1, <2>2 DEF Ticks
<1>5. TickTyped' /\ \A q \in Pods : scheduler'[q] = IF q = p THEN t ELSE scheduler[q]
  BY <1>3, <1>4, TickWritten DEF Types
<1>6. scheduler[p] = NoTick /\ NoTick.job.queue = "none"
  BY DEF takeScheduled, Types, TickTyped, Ticks, NoTick, Key
<1>7. \A j \in DOMAIN jobs : j.queue = "scheduled-messages" /\ jobs[j].state = "active" =>
        j.id \notin Crons /\ \E q \in Pods : scheduler'[q].job = j
  BY <1>5, <1>6 DEF Types, ActiveIsTicking
<1>8. JobsTyped(jobs') /\ Quiet(jobs, jobs') /\ ActiveIsTicking' /\ ticks' \in 0..MaxTicks
  <2>1. CASE IsCron(k)
    BY <2>1, <1>7, NothingWritten, CountsAssumption
       DEF takeScheduled, Types, CountsTyped, ActiveIsTicking
  <2>2. CASE ~IsCron(k)
    <3>1. jobs' = SetState(k, "active") /\ ticks' = ticks
      BY <2>2 DEF takeScheduled
    <3>2. /\ JobsTyped(jobs') /\ Quiet(jobs, jobs') /\ DOMAIN jobs' = DOMAIN jobs
          /\ \A j \in DOMAIN jobs : j # k => jobs'[j] = jobs[j]
      BY <1>1, <3>1, StateWritten DEF Types
    <3>3. scheduler'[p].job = k
      BY <1>4, <1>5
    <3>4. ActiveIsTicking'
      BY <1>7, <2>2, <3>2, <3>3 DEF ActiveIsTicking, IsCron
    <3> QED  BY <3>1, <3>2, <3>4 DEF Types, CountsTyped
  <2> QED  BY <2>1, <2>2
<1>9. Types'
  BY <1>5, <1>8
     DEF takeScheduled, WorkerLeaves, Types, CallsTyped, FoundTyped, RowsTyped, CountsTyped
<1> QED
  BY <1>4, <1>5, <1>8, <1>9

LEMMA QueryTyped ==
  ASSUME Types, NEW p \in Pods, queryRejects(p) \/ queryRows(p)
  PROVE  Types' /\ Quiet(jobs, jobs')
<1>1. JobsTyped(jobs') /\ Quiet(jobs, jobs') /\ TickTyped' /\ ActiveIsTicking'
  BY OverTyped, ContinueTyped DEF queryRejects, queryRows
<1> QED
  BY <1>1 DEF queryRejects, queryRows, WorkerLeaves, Types, CallsTyped, FoundTyped, RowsTyped,
              CountsTyped

LEMMA MarkTyped ==
  ASSUME Types, NEW p \in Pods, markRow(p)
  PROVE  Types' /\ Quiet(jobs, jobs')
<1>1. scheduler[p].batch \in SUBSET Pending
  BY DEF Types, TickTyped, Ticks
<1>2. JobsTyped(jobs') /\ Quiet(jobs, jobs') /\ TickTyped' /\ ActiveIsTicking'
  BY <1>1, ContinueTyped DEF markRow
<1>3. RowsTyped'
  <2>1. scheduler[p].row \in Pending
    BY DEF markRow, Types, TickTyped, Ticks
  <2> QED  BY <2>1 DEF markRow, WorkerLeaves, Types, RowsTyped, Ids
<1> QED
  BY <1>2, <1>3 DEF markRow, WorkerLeaves, Types, CallsTyped, FoundTyped, CountsTyped

LEMMA MishapTyped == Types /\ Mishap => mishaps' \in 0..MaxMishaps /\ mishaps' = mishaps + 1
  BY CountsAssumption DEF Types, CountsTyped, Mishap

LEMMA TickFailsTyped ==
  ASSUME Types, NEW p \in Pods, tickFails(p)
  PROVE  /\ Types' /\ Quiet(jobs, jobs')
         /\ \A q \in Pods : q # p => scheduler'[q] = scheduler[q]
<1>1. /\ JobsTyped(jobs') /\ Quiet(jobs, jobs') /\ TickTyped' /\ ActiveIsTicking'
      /\ \A q \in Pods : q # p => scheduler'[q] = scheduler[q]
  BY OverTyped DEF tickFails
<1> QED
  BY <1>1, MishapTyped
     DEF tickFails, WorkerLeaves, Types, CallsTyped, FoundTyped, RowsTyped, CountsTyped

\* The key of a row's 'send-message' job.
NewKey(id) ==
  Key("outbound-messages", id, Cardinality({k \in DOMAIN jobs : k.id = id}))

LEMMA EnqueueTyped ==
  ASSUME Types, NEW p \in Pods, NEW id \in Pending, enqueueRow(p, id)
  PROVE  /\ Types'
         /\ scheduler[p].at = "enqueue" /\ id \in scheduler[p].batch
         /\ scheduler'[p].at = "mark" /\ scheduler'[p].batch = scheduler[p].batch \ {id}
         /\ scheduler'[p].row = id
         /\ \A q \in Pods : q # p => scheduler'[q] = scheduler[q]
         /\ DOMAIN jobs' = DOMAIN jobs \union {NewKey(id)}
         /\ \A j \in DOMAIN jobs : jobs'[j] = jobs[j]
         /\ NewKey(id) \notin DOMAIN jobs =>
              jobs'[NewKey(id)].state = "waiting" /\ jobs'[NewKey(id)].jid
<1> DEFINE k == NewKey(id)
<1>1. Cardinality({j \in DOMAIN jobs : j.id = id}) \in Nat
  <2>1. IsFiniteSet({j \in DOMAIN jobs : j.id = id})
    BY FS_Subset DEF Types, JobsTyped
  <2> QED  BY <2>1, FS_CardinalityType
<1>2. k \in JobKeys /\ k.queue = "outbound-messages" /\ k.id = id
  BY <1>1 DEF JobKeys, Key, Queues, Ids, NewKey
<1>3. jobs' = Added(k, "waiting", TRUE)
  BY DEF enqueueRow, NewKey
<1> HIDE DEF k
<1>4. [state |-> "waiting", jid |-> TRUE, attempt |-> 1] \in JobRecords
  BY CountsAssumption DEF JobRecords
<1>5. JobFits(k, [state |-> "waiting", jid |-> TRUE, attempt |-> 1])
  BY <1>2, <1>4, IdsAssumption DEF JobFits
<1>6. /\ JobsTyped(jobs')
      /\ DOMAIN jobs' = DOMAIN jobs \union {k}
      /\ \A j \in DOMAIN jobs : jobs'[j] = jobs[j]
      /\ k \notin DOMAIN jobs => jobs'[k].state = "waiting" /\ jobs'[k].jid
  BY <1>2, <1>3, <1>5, JobAdded DEF Types
<1>7. PICK t : t = [scheduler[p] EXCEPT !.at = "mark", !.batch = @ \ {id}, !.row = id]
  OBVIOUS
<1>8. /\ t \in Ticks /\ t.at = "mark" /\ t.batch = scheduler[p].batch \ {id} /\ t.row = id
      /\ t.job = scheduler[p].job
  BY <1>7 DEF Types, TickTyped, Ticks
<1>9. scheduler' = [scheduler EXCEPT ![p] = t]
  BY <1>7 DEF enqueueRow, Types, TickTyped
<1>10. TickTyped' /\ \A q \in Pods : scheduler'[q] = IF q = p THEN t ELSE scheduler[q]
  BY <1>8, <1>9, TickWritten DEF Types
<1>11. ActiveIsTicking'
  <2>1. \A q \in Pods : scheduler'[q].job = scheduler[q].job
    BY <1>8, <1>10
  <2> QED  BY <1>2, <1>6, <2>1 DEF Types, ActiveIsTicking
<1>12. Types'
  BY <1>6, <1>10, <1>11
     DEF enqueueRow, WorkerLeaves, Types, CallsTyped, FoundTyped, RowsTyped, CountsTyped
<1>13. scheduler[p].at = "enqueue" /\ id \in scheduler[p].batch
  BY DEF enqueueRow
<1> QED  BY <1>6, <1>8, <1>10, <1>12, <1>13 DEF k

LEMMA OutboundTyped ==
  ASSUME Types, NEW k \in DOMAIN jobs,
         takeOutbound(k) \/ validateJob(k) \/ offline(k) \/ sendMessage(k)
  PROVE  Types' /\ Quiet(jobs, jobs')
<1>1. k.queue = "outbound-messages"
  BY DEF takeOutbound, validateJob, offline, sendMessage, IsOutbound
<1>2. /\ JobsTyped(jobs') /\ Quiet(jobs, jobs') /\ DOMAIN jobs' = DOMAIN jobs
      /\ \A j \in DOMAIN jobs : j # k => jobs'[j] = jobs[j]
  <2>1. CASE takeOutbound(k)
    <3>1. JobFits(k, jobs[k])
      BY DEF Types, JobsTyped
    <3>2. (jobs[k].jid => jobs[k].state \in OpenStates) /\ jobs' = SetState(k, "active")
      BY <2>1, <3>1 DEF takeOutbound, Waits, JobFits, OpenStates
    <3> QED  BY <3>2, StateWritten DEF Types
  <2>2. CASE validateJob(k)
    BY <2>2, StateWritten DEF Types, validateJob, OpenStates
  <2>3. CASE offline(k)
    BY <2>3, RetriedWritten DEF Types, offline
  <2>4. CASE sendMessage(k)
    BY <2>4, StateWritten, RetriedWritten DEF Types, sendMessage, OpenStates
  <2> QED  BY <2>1, <2>2, <2>3, <2>4
<1>3. TickTyped' /\ ActiveIsTicking'
  BY <1>1, <1>2, OthersWritten
     DEF takeOutbound, validateJob, offline, sendMessage
<1>4. mishaps' \in 0..MaxMishaps
  BY MishapTyped DEF takeOutbound, validateJob, offline, sendMessage, Types, CountsTyped
<1>5. sent' \in [Pending -> Nat]
  BY DEF takeOutbound, validateJob, offline, sendMessage, Types, CountsTyped
<1>6. /\ UNCHANGED <<calls, found, rows, instance, events, called, overlapped>>
      /\ UNCHANGED ticks
  BY DEF takeOutbound, validateJob, offline, sendMessage, WorkerLeaves
<1> QED
  BY <1>2, <1>3, <1>4, <1>5, <1>6 DEF Types, CallsTyped, FoundTyped, RowsTyped, CountsTyped

-----------------------------------------------------------------------------
(* The steps of the operations keep the types. *)

LEMMA BeginTyped ==
  ASSUME Types, NEW c \in Clients, NEW x \in Tasks, Begin(c, x.op, x.id, x.todo)
  PROVE  /\ Types' /\ jobs' = jobs /\ rows' = rows /\ sent' = sent
         /\ mishaps' = mishaps /\ scheduler' = scheduler /\ found' = found
         /\ calls' = [calls EXCEPT ![c] = x]
         /\ x.id \in Ids \union {"none"}
<1>1. x = [op |-> x.op, id |-> x.id, todo |-> x.todo] /\ x.id \in Ids \union {"none"}
  BY DEF Tasks, Ids
<1>2. calls' = [calls EXCEPT ![c] = x]
  BY <1>1 DEF Begin
<1>3. CallsTyped'
  BY <1>2 DEF Types, CallsTyped
<1>4. CountsTyped'
  BY <1>1, CountsAssumption DEF Begin, Types, CountsTyped
<1> QED
  BY <1>1, <1>2, <1>3, <1>4
     DEF Begin, Types, FoundTyped, RowsTyped, TickTyped, ActiveIsTicking

\* An await more of an operation, or its end.
LEMMA CallsGoOn ==
  ASSUME CallsTyped, NEW c \in Clients, NEW what, Goes(c, what)
  PROVE  /\ CallsTyped'
         /\ calls' = [calls EXCEPT ![c] = Rest(c)]
         /\ Awaits(c, what)
<1>1. Awaits(c, what) /\ calls' = [calls EXCEPT ![c] = Rest(c)]
  BY DEF Goes
<1>2. Rest(c) \in Tasks \union {NoCall}
  BY <1>1, RestTyped DEF CallsTyped, Awaits
<1> HIDE DEF Rest
<1> QED  BY <1>1, <1>2 DEF CallsTyped

LEMMA CallsEnd ==
  ASSUME CallsTyped, NEW c \in Clients, calls' = [calls EXCEPT ![c] = NoCall]
  PROVE  CallsTyped'
BY DEF CallsTyped

\* A step that writes no job.
LEMMA NoJobWritten ==
  ASSUME Types, jobs' = jobs, StepLeaves
  PROVE  JobsTyped(jobs') /\ Quiet(jobs, jobs') /\ TickTyped' /\ ActiveIsTicking'
BY NothingWritten DEF Types, StepLeaves, TickTyped, ActiveIsTicking

LEMMA InsertTyped ==
  ASSUME Types, NEW c \in Clients, insertRow(c) \/ insertFails(c)
  PROVE  Types' /\ Quiet(jobs, jobs')
<1>1. JobsTyped(jobs') /\ Quiet(jobs, jobs') /\ TickTyped' /\ ActiveIsTicking'
  BY NoJobWritten DEF insertRow, insertFails
<1>2. CASE insertRow(c)
  <2>1. CallsTyped' /\ Awaits(c, "insert")
    BY <1>2, CallsGoOn DEF insertRow, Types
  <2>2. /\ Op(c) \in {"schedule", "cron", "send", "publish", "react", "broadcast"}
        /\ Id(c) \notin Pending
    BY <2>1, AwaitedBy, IdsAssumption DEF Types, CallsTyped
  <2>3. Made[Op(c)] \in {"SCHEDULED", "active", "PENDING", "queued"}
    BY <2>2 DEF Made
  <2>4. RowsTyped'
    <3>1. rows' = [rows EXCEPT ![Id(c)] = Made[Op(c)]] /\ instance' = instance
      BY <1>2 DEF insertRow
    <3> QED  BY <2>2, <2>3, <3>1 DEF Types, RowsTyped, Ids
  <2> QED
    BY <1>1, <1>2, <2>1, <2>4 DEF insertRow, StepLeaves, Types, FoundTyped, CountsTyped
<1>3. CASE insertFails(c)
  BY <1>1, <1>3, CallsEnd DEF insertFails, StepLeaves, Types, FoundTyped, CountsTyped, RowsTyped
<1> QED  BY <1>2, <1>3

LEMMA QueueOfs ==
  /\ \A op \in {"schedule", "cron", "update", "cancel"} : QueueOf(op) = "scheduled-messages"
  /\ \A op \in {"send", "react"} : QueueOf(op) = "outbound-messages"
  /\ \A op \in {"broadcast", "pause"} : QueueOf(op) = "broadcast-messages"
  /\ QueueOf("publish") = "channels"
  /\ \A op \in {"powerOn", "powerOff", "delete", "ask"} : QueueOf(op) = "instance-lifecycle"
  /\ QueueOf("group") = "group-operations"
  /\ QueueOf("verify") = "verification"
BY DEF QueueOf

LEMMA AddTyped ==
  ASSUME Types, NEW c \in Clients, addJob(c)
  PROVE  /\ Types'
         /\ KeyOf(c).id = Id(c)
         /\ DOMAIN jobs' = DOMAIN jobs \union {KeyOf(c)}
         /\ \A j \in DOMAIN jobs : jobs'[j] = jobs[j]
         /\ KeyOf(c) \notin DOMAIN jobs =>
              ~jobs'[KeyOf(c)].jid /\ jobs'[KeyOf(c)].state # "active"
<1>1. CallsTyped' /\ Awaits(c, "add") /\ calls[c] \in Tasks /\ calls[c].todo # <<>>
  BY CallsGoOn, AwaitedBy DEF addJob, Types, CallsTyped
<1>2. Op(c) \notin {"deactivate", "pause", "resume"}
  BY <1>1, AwaitedBy DEF Types, CallsTyped
<1>3. /\ Op(c) \in {"schedule", "cron", "update", "cancel", "send", "react", "broadcast",
                    "publish", "powerOn", "powerOff", "delete", "ask", "group", "verify"}
      /\ Id(c) \in Ids \union {"none"}
      /\ Op(c) \in {"schedule", "update", "cancel"} <=> Id(c) \in Schedules
      /\ Op(c) = "broadcast" <=> Id(c) \in Broadcasts
      /\ Op(c) = "broadcast" => calls[c].todo \in Broadcasting
  BY <1>1, <1>2, IdsAssumption DEF Op, Id, Tasks, Ids
<1> DEFINE q == QueueOf(Op(c))
           n == KeyOf(c).n
<1>4. /\ q \in Queues
      /\ Op(c) \in {"schedule", "cron", "update", "cancel"} => q = "scheduled-messages"
      /\ Op(c) = "broadcast" => q = "broadcast-messages"
  BY <1>3, QueueOfs DEF Queues
<1>5. n \in Nat
  <2>1. Cardinality({k \in DOMAIN jobs : k.queue = q}) \in Nat
    BY FS_Subset, FS_CardinalityType DEF Types, JobsTyped
  <2>2. Op(c) = "broadcast" => Len(calls[c].todo) \in Nat
    BY <1>3 DEF Broadcasting
  <2> QED  BY <2>1, <2>2 DEF KeyOf, Key
<1>6. KeyOf(c) = [queue |-> q, id |-> Id(c), n |-> n]
  BY DEF KeyOf, Key
<1>7. PICK s \in {"delayed", "waiting"} : jobs' = Added(KeyOf(c), s, FALSE)
  BY DEF addJob
<1> HIDE DEF q, n
<1>8. KeyOf(c) \in JobKeys /\ KeyOf(c).id = Id(c) /\ KeyOf(c).queue = q
  BY <1>3, <1>4, <1>5, <1>6 DEF JobKeys
<1>9. [state |-> s, jid |-> FALSE, attempt |-> 1] \in JobRecords
  BY CountsAssumption DEF JobRecords
<1>10. JobFits(KeyOf(c), [state |-> s, jid |-> FALSE, attempt |-> 1])
  BY <1>3, <1>4, <1>8, <1>9 DEF JobFits
<1>11. s \in {"delayed", "waiting"}
  OBVIOUS
<1>12. /\ JobsTyped(jobs')
       /\ DOMAIN jobs' = DOMAIN jobs \union {KeyOf(c)}
       /\ \A j \in DOMAIN jobs : jobs'[j] = jobs[j]
       /\ KeyOf(c) \notin DOMAIN jobs =>
            jobs'[KeyOf(c)].state = s /\ jobs'[KeyOf(c)].jid = FALSE
  <2> HIDE DEF KeyOf
  <2> QED  BY <1>7, <1>8, <1>10, <1>11, JobAdded DEF Types
<1>13. TickTyped' /\ ActiveIsTicking'
  <2>1. scheduler' = scheduler
    BY DEF addJob, StepLeaves
  <2> HIDE DEF KeyOf
  <2>2. \A j \in DOMAIN jobs' : jobs'[j].state = "active" => j \in DOMAIN jobs
    BY <1>11, <1>12
  <2> QED  BY <1>12, <2>1, <2>2 DEF Types, TickTyped, ActiveIsTicking
<1>14. RowsTyped' /\ CountsTyped'
  BY DEF addJob, StepLeaves, Types, RowsTyped, CountsTyped
<1>15. FoundTyped' /\ Types'
  BY <1>1, <1>12, <1>13, <1>14 DEF addJob, FoundTyped, Types
<1> HIDE DEF KeyOf
<1> QED  BY <1>8, <1>11, <1>12, <1>15

LEMMA RemoveTyped ==
  ASSUME Types, NEW c \in Clients, removeJob(c)
  PROVE  /\ Types' /\ Quiet(jobs, jobs')
         /\ DOMAIN jobs' = DOMAIN jobs \ {k \in JobsOf(c) : Removable(k)}
<1>1. CallsTyped'
  BY CallsGoOn DEF removeJob, Types
<1>2. jobs' = Without({k \in JobsOf(c) : Removable(k)})
  BY DEF removeJob
<1>3. /\ JobsTyped(jobs') /\ Quiet(jobs, jobs')
      /\ DOMAIN jobs' = DOMAIN jobs \ {k \in JobsOf(c) : Removable(k)}
      /\ \A j \in DOMAIN jobs' : jobs'[j] = jobs[j]
  BY <1>2, JobsRemoved DEF Types
<1>4. TickTyped' /\ ActiveIsTicking'
  BY <1>3 DEF removeJob, StepLeaves, Types, TickTyped, ActiveIsTicking
<1> QED
  BY <1>1, <1>3, <1>4 DEF removeJob, StepLeaves, Types, FoundTyped, RowsTyped, CountsTyped

\* The jobs that are read, and one of them removed.
LEMMA GetJobsTyped ==
  ASSUME Types, NEW c \in Clients, getJobs(c)
  PROVE  /\ Types' /\ Quiet(jobs, jobs')
         /\ found'[c] = {k \in JobsOf(c) : jobs[k].state \in {"delayed", "waiting"}}
         /\ \A d \in Clients : d # c => found'[d] = found[d]
<1> DEFINE K == {k \in JobsOf(c) : jobs[k].state \in {"delayed", "waiting"}}
<1>1. CallsTyped' /\ Awaits(c, "getJobs")
  BY CallsGoOn DEF getJobs, Types
<1>2. Id(c) \in Broadcasts
  BY <1>1, AwaitedBy DEF Types, CallsTyped
<1>3. K \subseteq [queue : Queues, id : Broadcasts, n : Nat]
  BY <1>2 DEF JobsOf, Types, JobsTyped, JobFits, JobKeys
<1>4. found' = [found EXCEPT ![c] = K]
  BY DEF getJobs
<1> HIDE DEF K
<1>5. FoundTyped' /\ found'[c] = K /\ \A d \in Clients : d # c => found'[d] = found[d]
  BY <1>3, <1>4 DEF Types, FoundTyped
<1>6. JobsTyped(jobs') /\ Quiet(jobs, jobs') /\ TickTyped' /\ ActiveIsTicking'
  BY NoJobWritten DEF getJobs
<1>7. Types'
  BY <1>1, <1>5, <1>6 DEF getJobs, StepLeaves, Types, RowsTyped, CountsTyped
<1> QED
  BY <1>5, <1>6, <1>7 DEF K

LEMMA RemoveFoundTyped ==
  ASSUME Types, NEW c \in Clients, removeFound(c)
  PROVE  /\ Types' /\ Quiet(jobs, jobs')
         /\ \E k \in found[c] : /\ found'[c] = found[c] \ {k}
                               /\ DOMAIN jobs' = DOMAIN jobs \ {k}
         /\ \A d \in Clients : d # c => found'[d] = found[d]
<1>1. PICK k \in found[c] : found' = [found EXCEPT ![c] = @ \ {k}] /\ jobs' = Without({k})
  BY DEF removeFound
<1>2. /\ JobsTyped(jobs') /\ Quiet(jobs, jobs') /\ DOMAIN jobs' = DOMAIN jobs \ {k}
      /\ \A j \in DOMAIN jobs' : jobs'[j] = jobs[j]
  BY <1>1, JobsRemoved DEF Types
<1>3. /\ FoundTyped' /\ found'[c] = found[c] \ {k}
      /\ \A d \in Clients : d # c => found'[d] = found[d]
  BY <1>1 DEF Types, FoundTyped
<1>4. TickTyped' /\ ActiveIsTicking'
  BY <1>2 DEF removeFound, StepLeaves, Types, TickTyped, ActiveIsTicking
<1>5. Types'
  BY <1>2, <1>3, <1>4
     DEF removeFound, StepLeaves, Types, CallsTyped, RowsTyped, CountsTyped
<1> QED  BY <1>2, <1>3, <1>5

LEMMA UpdateTyped ==
  ASSUME Types, NEW c \in Clients, updateRow(c)
  PROVE  Types' /\ Quiet(jobs, jobs')
<1>1. JobsTyped(jobs') /\ Quiet(jobs, jobs') /\ TickTyped' /\ ActiveIsTicking'
  BY NoJobWritten DEF updateRow
<1>2. CallsTyped' /\ Awaits(c, "update")
  BY CallsGoOn DEF updateRow, Types
<1>3. \/ /\ Op(c) \in {"update", "cancel", "deactivate", "pause", "resume"}
         /\ Id(c) \notin Pending \union {"none"}
      \/ Op(c) \in {"powerOn", "powerOff", "delete"} /\ Id(c) = "none"
  BY <1>2, AwaitedBy, IdsAssumption DEF Types, CallsTyped, Ids
<1>4. RowsTyped'
  <2>1. CASE Id(c) = "none"
    <3>1. instance' \in {"DISCONNECTED", "CONNECTING", "deleted"}
      BY <1>3, <2>1 DEF updateRow
    <3>2. CASE Op(c) # "delete"
      BY <2>1, <3>1, <3>2 DEF updateRow, Types, RowsTyped
    <3>3. CASE Op(c) = "delete"
      BY <2>1, <3>1, <3>3 DEF updateRow, Types, RowsTyped, Exists, Ids
    <3> QED  BY <3>2, <3>3
  <2>2. CASE Id(c) # "none"
    <3>1. Op(c) # "update" => Becomes[Op(c)] \in {"CANCELED", "inactive", "paused", "active"}
      BY <1>3, <2>2 DEF Becomes
    <3>2. /\ rows' = rows \/ rows' = [rows EXCEPT ![Id(c)] = Becomes[Op(c)]]
          /\ Op(c) = "update" => rows' = rows
          /\ instance' = instance
      BY <2>2 DEF updateRow
    <3> QED  BY <1>3, <2>2, <3>1, <3>2 DEF Types, RowsTyped, Ids
  <2> QED  BY <2>1, <2>2
<1> QED
  BY <1>1, <1>2, <1>4 DEF updateRow, StepLeaves, Types, FoundTyped, CountsTyped

LEMMA OtherAwaitsTyped ==
  ASSUME Types, NEW c \in Clients,
         removeRepeatableByKey(c) \/ dispatchEvent(c) \/ gaveUp(c) \/ callFails(c)
  PROVE  /\ Types' /\ Quiet(jobs, jobs')
         /\ \A d \in Clients : d # c => found'[d] = found[d]
<1>1. JobsTyped(jobs') /\ Quiet(jobs, jobs') /\ TickTyped' /\ ActiveIsTicking'
  BY NoJobWritten DEF removeRepeatableByKey, dispatchEvent, gaveUp, callFails
<1>2. CallsTyped'
  BY CallsGoOn, CallsEnd DEF removeRepeatableByKey, dispatchEvent, gaveUp, callFails, Types
<1>3. events' \subseteq Messages
  <2>1. CASE dispatchEvent(c)
    <3>1. Awaits(c, "event")
      BY <2>1 DEF dispatchEvent, Goes
    <3>2. Id(c) \in Messages
      BY <3>1, AwaitedBy DEF Types, CallsTyped
    <3> QED  BY <2>1, <3>2 DEF dispatchEvent, Types, CountsTyped
  <2>2. CASE ~dispatchEvent(c)
    BY <2>2 DEF removeRepeatableByKey, gaveUp, callFails, Types, CountsTyped
  <2> QED  BY <2>1, <2>2
<1>4. mishaps' \in 0..MaxMishaps
  BY MishapTyped DEF removeRepeatableByKey, dispatchEvent, gaveUp, callFails, Types, CountsTyped
<1>5. UNCHANGED <<rows, instance, sent, called, ticks, overlapped>>
  BY DEF removeRepeatableByKey, dispatchEvent, gaveUp, callFails, StepLeaves
<1>6. FoundTyped' /\ \A d \in Clients : d # c => found'[d] = found[d]
  BY DEF removeRepeatableByKey, dispatchEvent, gaveUp, callFails, Types, FoundTyped
<1> QED  BY <1>1, <1>2, <1>3, <1>4, <1>5, <1>6 DEF Types, RowsTyped, CountsTyped

-----------------------------------------------------------------------------
(* SentOncePerProcess: every send that may still come has been counted. *)

\* The jobs that may yet send id's message.
Open(f, id) == {k \in DOMAIN f : f[k].jid /\ k.id = id /\ f[k].state \in OpenStates}

\* The process may yet add a job for id.
Due(p, id) ==
  \/ id \in scheduler[p].batch
  \/ rows[id] = "pending" /\ ~(scheduler[p].at = "mark" /\ scheduler[p].row = id)
DueAt(id) == {p \in Pods : Due(p, id)}

\* What was sent, what may be, and what may be added are one for each process, but for
\* mishaps.
Sendings(id) == sent[id] + Cardinality(Open(jobs, id)) + Cardinality(DueAt(id))
SentInv == \A id \in Pending : Sendings(id) <= Cardinality(Pods) + mishaps

LEMMA PodsCounted ==
  /\ Cardinality(Pods) \in Nat
  /\ \A P \in SUBSET Pods :
       IsFiniteSet(P) /\ Cardinality(P) \in Nat /\ Cardinality(P) <= Cardinality(Pods)
BY PodsAssumption, FS_Subset, FS_CardinalityType

LEMMA OpenFinite ==
  ASSUME NEW f, JobsTyped(f), NEW id
  PROVE  IsFiniteSet(Open(f, id)) /\ Cardinality(Open(f, id)) \in Nat
BY FS_Subset, FS_CardinalityType DEF JobsTyped, Open

LEMMA QuietOpens ==
  ASSUME NEW f, NEW g, JobsTyped(f), Quiet(f, g), NEW id
  PROVE  /\ Open(g, id) \subseteq Open(f, id)
         /\ IsFiniteSet(Open(g, id)) /\ Cardinality(Open(g, id)) \in Nat
         /\ Cardinality(Open(g, id)) <= Cardinality(Open(f, id))
<1>1. Open(g, id) \subseteq Open(f, id)
  BY DEF Quiet, Open
<1> QED  BY <1>1, OpenFinite, FS_Subset, FS_CardinalityType

LEMMA SentInit == Init => SentInv
<1> SUFFICES ASSUME Init, NEW id \in Pending
             PROVE  Sendings(id) <= Cardinality(Pods) + mishaps
  BY DEF SentInv
<1>1. Open(jobs, id) = {}
  BY DEF Init, Open
<1>2. Cardinality(Open(jobs, id)) = 0
  BY <1>1, FS_EmptySet
<1>3. sent[id] = 0 /\ mishaps = 0
  BY DEF Init
<1>4. DueAt(id) \in SUBSET Pods
  BY DEF DueAt
<1> QED  BY <1>2, <1>3, <1>4, PodsCounted DEF Sendings

LEMMA SentSuffices == Types /\ SentInv => SentOncePerProcess
<1> SUFFICES ASSUME Types, SentInv, NEW id \in Pending
             PROVE  sent[id] <= Cardinality(Pods) + mishaps
  BY DEF SentOncePerProcess
<1> DEFINE n == Cardinality(Open(jobs, id))
           d == Cardinality(DueAt(id))
           N == Cardinality(Pods)
<1>1. n \in Nat /\ sent[id] \in Nat /\ mishaps \in Nat
  BY OpenFinite, CountsAssumption DEF Types, CountsTyped
<1>2. d \in Nat /\ N \in Nat
  BY PodsCounted DEF DueAt
<1>3. sent[id] + n + d <= N + mishaps
  BY DEF SentInv, Sendings
<1> HIDE DEF n, d, N
<1>4. sent[id] <= N + mishaps
  BY <1>1, <1>2, <1>3
<1> QED  BY <1>4 DEF N

\* A step that sends nothing and opens nothing keeps the count, if no process may add
\* anew, or one with a mishap.
LEMMA QuietSends ==
  ASSUME Types, SentInv, Quiet(jobs, jobs'), sent' = sent, NEW P,
         \/ mishaps' = mishaps /\ P = {}
         \/ mishaps' = mishaps + 1 /\ \E p : P = {p},
         \A id \in Pending : \A p \in Pods : Due(p, id)' => Due(p, id) \/ p \in P
  PROVE  SentInv'
<1> SUFFICES ASSUME NEW id \in Pending PROVE Sendings(id)' <= Cardinality(Pods) + mishaps'
  BY DEF SentInv
<1> DEFINE m == Cardinality(Open(jobs, id))
           n == Cardinality(Open(jobs', id))
           D == DueAt(id)
           E == DueAt(id)'
           N == Cardinality(Pods)
<1>1. m \in Nat /\ n \in Nat /\ n <= m /\ sent[id] \in Nat /\ mishaps \in Nat /\ N \in Nat
  BY OpenFinite, QuietOpens, PodsCounted, CountsAssumption DEF Types, CountsTyped
<1>2. sent[id] + m + Cardinality(D) <= N + mishaps
  BY DEF SentInv, Sendings
<1>3. Sendings(id)' = sent[id] + n + Cardinality(E)
  BY DEF Sendings
<1>4. D \in SUBSET Pods /\ E \in SUBSET Pods /\ E \subseteq D \union P
  BY DEF DueAt
<1> HIDE DEF m, n, D, E
<1>5. IsFiniteSet(D) /\ Cardinality(D) \in Nat /\ IsFiniteSet(E) /\ Cardinality(E) \in Nat
  BY <1>4, PodsCounted
<1>6. CASE mishaps' = mishaps /\ P = {}
  <2>1. Cardinality(E) <= Cardinality(D)
    BY <1>4, <1>5, <1>6, FS_Subset
  <2> HIDE DEF N
  <2>2. Sendings(id)' <= N + mishaps'
    BY <1>1, <1>2, <1>3, <1>5, <1>6, <2>1
  <2> QED  BY <2>2 DEF N
<1>7. CASE mishaps' = mishaps + 1 /\ \E p : P = {p}
  <2>1. PICK p : P = {p}
    BY <1>7
  <2>2. /\ IsFiniteSet(D \union {p})
        /\ Cardinality(D \union {p}) \in {Cardinality(D), Cardinality(D) + 1}
    BY <1>5, FS_AddElement
  <2>3. Cardinality(E) <= Cardinality(D \union {p})
    BY <1>4, <2>1, <2>2, FS_Subset
  <2> HIDE DEF N
  <2>4. Sendings(id)' <= N + mishaps'
    BY <1>1, <1>2, <1>3, <1>5, <1>7, <2>2, <2>3
  <2> QED  BY <2>4 DEF N
<1> QED  BY <1>6, <1>7

LEMMA EnqueueSends ==
  ASSUME Types, SentInv, NEW p \in Pods, NEW id \in Pending, enqueueRow(p, id)
  PROVE  SentInv'
<1>1. /\ DOMAIN jobs' = DOMAIN jobs \union {NewKey(id)}
      /\ \A j \in DOMAIN jobs : jobs'[j] = jobs[j]
      /\ NewKey(id).id = id
  BY EnqueueTyped DEF NewKey, Key
<1>2. PICK k : k = NewKey(id)  OBVIOUS
<1>3. UNCHANGED <<rows, sent, mishaps>>
  BY DEF enqueueRow
<1>4. /\ scheduler[p].at = "enqueue" /\ id \in scheduler[p].batch
      /\ scheduler'[p].at = "mark" /\ scheduler'[p].batch = scheduler[p].batch \ {id}
      /\ scheduler'[p].row = id
      /\ \A q \in Pods : q # p => scheduler'[q] = scheduler[q]
  BY EnqueueTyped
<1>5. /\ \A i \in Pending : \A q \in Pods : Due(q, i)' => Due(q, i)
      /\ ~Due(p, id)' /\ Due(p, id)
  BY <1>3, <1>4 DEF Due
<1> SUFFICES ASSUME NEW i \in Pending PROVE Sendings(i)' <= Cardinality(Pods) + mishaps'
  BY DEF SentInv
<1> DEFINE m == Cardinality(Open(jobs, i))
           n == Cardinality(Open(jobs', i))
           d == Cardinality(DueAt(i))
           e == Cardinality(DueAt(i)')
           N == Cardinality(Pods)
<1>6. /\ m \in Nat /\ d \in Nat /\ e \in Nat /\ N \in Nat /\ sent[i] \in Nat /\ mishaps \in Nat
      /\ IsFiniteSet(Open(jobs, i)) /\ IsFiniteSet(DueAt(i))
  BY OpenFinite, PodsCounted, CountsAssumption DEF Types, CountsTyped, DueAt
<1>7. sent[i] + m + d <= N + mishaps /\ Sendings(i)' = sent[i] + n + e
  BY <1>3 DEF SentInv, Sendings
<1>8. CASE i # id
  <2>1. Open(jobs', i) = Open(jobs, i)
    BY <1>1, <1>8 DEF Open
  <2>2. DueAt(i)' \subseteq DueAt(i)
    BY <1>5 DEF DueAt
  <2>3. n = m /\ e <= d
    BY <2>1, <2>2, <1>6, FS_Subset
  <2> HIDE DEF m, n, d, e, N
  <2>4. Sendings(i)' <= N + mishaps'
    BY <1>3, <1>6, <1>7, <2>3
  <2> QED  BY <2>4 DEF N
<1>9. CASE i = id
  <2>1. Open(jobs', i) \subseteq Open(jobs, i) \union {k}
    BY <1>1, <1>2 DEF Open
  <2>2. n \in Nat /\ n <= m + 1
    <3>1. /\ IsFiniteSet(Open(jobs, i) \union {k})
          /\ Cardinality(Open(jobs, i) \union {k}) \in {m, m + 1}
      BY <1>6, FS_AddElement
    <3>2. n \in Nat /\ n <= Cardinality(Open(jobs, i) \union {k})
      BY <2>1, <3>1, FS_Subset, FS_CardinalityType
    <3> HIDE DEF m, n
    <3> QED  BY <1>6, <3>1, <3>2
  <2>3. DueAt(i)' \subseteq DueAt(i) \ {p} /\ p \in DueAt(i)
    BY <1>5, <1>9 DEF DueAt
  <2>4. e + 1 <= d
    <3>1. IsFiniteSet(DueAt(i) \ {p}) /\ Cardinality(DueAt(i) \ {p}) = d - 1
      BY <1>6, <2>3, FS_RemoveElement
    <3>2. e <= Cardinality(DueAt(i) \ {p})
      BY <2>3, <3>1, FS_Subset
    <3> HIDE DEF d, e
    <3> QED  BY <1>6, <3>1, <3>2
  <2> HIDE DEF m, n, d, e, N
  <2>5. Sendings(i)' <= N + mishaps'
    BY <1>3, <1>6, <1>7, <2>2, <2>4
  <2> QED  BY <2>5 DEF N
<1> QED  BY <1>8, <1>9

LEMMA SendSends ==
  ASSUME Types, SentInv, NEW k \in DOMAIN jobs, sendMessage(k)
  PROVE  SentInv'
<1>1. Quiet(jobs, jobs') /\ UNCHANGED <<rows, scheduler>>
  BY OutboundTyped DEF sendMessage
<1>2. sent' = [sent EXCEPT ![k.id] = @ + 1] /\ jobs[k].state = "active" /\ jobs[k].jid
  BY DEF sendMessage
<1>3. k.id \in Pending
  BY <1>2 DEF Types, JobsTyped, JobFits
<1> SUFFICES ASSUME NEW i \in Pending PROVE Sendings(i)' <= Cardinality(Pods) + mishaps'
  BY DEF SentInv
<1> DEFINE m == Cardinality(Open(jobs, i))
           n == Cardinality(Open(jobs', i))
           d == Cardinality(DueAt(i))
           N == Cardinality(Pods)
<1>4. /\ m \in Nat /\ n \in Nat /\ n <= m /\ sent[i] \in Nat /\ mishaps \in Nat
      /\ d \in Nat /\ N \in Nat
  BY <1>1, OpenFinite, QuietOpens, PodsCounted, CountsAssumption DEF Types, CountsTyped, DueAt
<1>5. DueAt(i)' = DueAt(i)
  BY <1>1 DEF DueAt, Due
<1>6. sent[i] + m + d <= N + mishaps /\ Sendings(i)' = sent'[i] + n + d
  BY <1>5 DEF SentInv, Sendings
<1>7. sent'[i] = IF i = k.id THEN sent[i] + 1 ELSE sent[i]
  BY <1>2 DEF Types, CountsTyped
<1>8. mishaps' = mishaps \/ mishaps' = mishaps + 1
  BY DEF sendMessage, Mishap
<1>9. CASE mishaps' = mishaps + 1
  <2> HIDE DEF m, n, d, N
  <2>1. Sendings(i)' <= N + mishaps'
    BY <1>4, <1>6, <1>7, <1>9
  <2> QED  BY <2>1 DEF N
<1>10. CASE mishaps' = mishaps /\ i # k.id
  <2> HIDE DEF m, n, d, N
  <2>1. Sendings(i)' <= N + mishaps'
    BY <1>4, <1>6, <1>7, <1>10
  <2> QED  BY <2>1 DEF N
<1>11. CASE mishaps' = mishaps /\ i = k.id
  <2>1. jobs' = SetState(k, "completed")
    BY <1>4, <1>11 DEF sendMessage, Mishap
  <2>2. jobs'[k].state = "completed"
    BY <2>1, StateWritten DEF Types, OpenStates
  <2>3. Open(jobs', i) \subseteq Open(jobs, i) \ {k} /\ k \in Open(jobs, i)
    <3>1. Open(jobs', i) \subseteq Open(jobs, i)
      BY <1>1, QuietOpens DEF Types
    <3> QED  BY <1>2, <1>11, <2>2, <3>1 DEF Open, OpenStates
  <2>4. n + 1 <= m
    <3>1. IsFiniteSet(Open(jobs, i))
      BY OpenFinite DEF Types
    <3>2. IsFiniteSet(Open(jobs, i) \ {k}) /\ Cardinality(Open(jobs, i) \ {k}) = m - 1
      BY <2>3, <3>1, FS_RemoveElement
    <3>3. n <= Cardinality(Open(jobs, i) \ {k})
      BY <2>3, <3>2, FS_Subset
    <3> HIDE DEF m, n
    <3> QED  BY <1>4, <3>2, <3>3
  <2> HIDE DEF m, n, d, N
  <2>5. Sendings(i)' <= N + mishaps'
    BY <1>4, <1>6, <1>7, <1>11, <2>4
  <2> QED  BY <2>5 DEF N
<1> QED  BY <1>8, <1>9, <1>10, <1>11

\* The steps of a process's worker: a row it has enqueued is not due anew.
LEMMA TicksSend ==
  ASSUME Types, SentInv, NEW p \in Pods,
         \/ queryRejects(p) \/ queryRows(p) \/ markRow(p)
         \/ \E k \in DOMAIN jobs : takeScheduled(p, k)
  PROVE  SentInv'
<1> DEFINE Fewer == \A id \in Pending : \A q \in Pods : Due(q, id)' => Due(q, id)
<1>1. sent' = sent /\ mishaps' = mishaps
  BY DEF queryRejects, queryRows, markRow, takeScheduled
<1>2. Quiet(jobs, jobs')
  BY QueryTyped, MarkTyped, TakeScheduledTyped
<1>3. ASSUME queryRejects(p) PROVE Fewer
  <2>1. \A q \in Pods : scheduler'[q] = IF q = p THEN NoTick ELSE scheduler[q]
    BY <1>3, OverTyped DEF queryRejects
  <2>2. scheduler[p].at = "query" /\ rows' = rows
    BY <1>3 DEF queryRejects
  <2> QED  BY <2>1, <2>2 DEF Due, NoTick
<1>4. ASSUME queryRows(p) PROVE Fewer
  <2> DEFINE due == {id \in Pending \ Unreadable : rows[id] = "pending"}
  <2>1. scheduler[p].at = "query" /\ rows' = rows /\ Continue(p, due)
    BY <1>4 DEF queryRows
  <2>2. scheduler'[p].batch = due /\ \A q \in Pods : q # p => scheduler'[q] = scheduler[q]
    BY <2>1, ContinueTyped
  <2> QED  BY <2>1, <2>2 DEF Due
<1>5. ASSUME markRow(p) PROVE Fewer
  <2>1. /\ scheduler[p].at = "mark" /\ scheduler[p].row \in Pending
        /\ scheduler[p].batch \in SUBSET Pending
    BY <1>5 DEF markRow, Types, TickTyped, Ticks
  <2>2. /\ scheduler'[p].batch = scheduler[p].batch
        /\ \A q \in Pods : q # p => scheduler'[q] = scheduler[q]
    BY <1>5, <2>1, ContinueTyped DEF markRow
  <2>3. \A id \in Pending : rows'[id] = "pending" => rows[id] = "pending" /\ id # scheduler[p].row
    BY <1>5, <2>1 DEF markRow, Types, RowsTyped, Ids
  <2> QED  BY <2>1, <2>2, <2>3 DEF Due
<1>6. ASSUME \E k \in DOMAIN jobs : takeScheduled(p, k) PROVE Fewer
  <2>1. PICK k \in DOMAIN jobs : takeScheduled(p, k)
    BY <1>6
  <2>2. scheduler[p].at = "idle" /\ rows' = rows
    BY <2>1 DEF takeScheduled
  <2>3. scheduler'[p].batch = {} /\ \A q \in Pods : q # p => scheduler'[q] = scheduler[q]
    BY <2>1, TakeScheduledTyped
  <2> QED  BY <2>2, <2>3 DEF Due
<1>7. Fewer
  BY <1>3, <1>4, <1>5, <1>6
<1> QED  BY <1>1, <1>2, <1>7, QuietSends

LEMMA WorkersSend ==
  ASSUME Types, SentInv, Workers
  PROVE  SentInv'
<1>1. ASSUME NEW p \in Pods,
             \/ queryRejects(p) \/ queryRows(p) \/ markRow(p)
             \/ \E k \in DOMAIN jobs : takeScheduled(p, k)
      PROVE  SentInv'
  BY <1>1, TicksSend
<1>2. ASSUME NEW p \in Pods, tickFails(p) PROVE SentInv'
  <2>1. /\ Quiet(jobs, jobs') /\ UNCHANGED <<rows, sent>> /\ mishaps' = mishaps + 1
        /\ \A q \in Pods : q # p => scheduler'[q] = scheduler[q]
    BY <1>2, TickFailsTyped DEF tickFails, Mishap
  <2>2. \A id \in Pending : \A q \in Pods : Due(q, id)' => Due(q, id) \/ q \in {p}
    BY <2>1 DEF Due
  <2> QED  BY <2>1, <2>2, QuietSends
<1>3. ASSUME NEW p \in Pods, NEW id \in Pending, enqueueRow(p, id) PROVE SentInv'
  BY <1>3, EnqueueSends
<1>4. ASSUME NEW k \in DOMAIN jobs, takeOutbound(k) \/ validateJob(k) \/ offline(k)
      PROVE  SentInv'
  <2>1. /\ UNCHANGED <<rows, scheduler, sent>>
        /\ mishaps' = mishaps \/ mishaps' = mishaps + 1
    BY <1>4 DEF takeOutbound, validateJob, offline, Mishap
  <2>2. \A id \in Pending : \A q \in Pods : Due(q, id)' => Due(q, id)
    BY <2>1 DEF Due
  <2>3. Quiet(jobs, jobs')
    BY <1>4, OutboundTyped
  <2>4. CASE mishaps' = mishaps
    BY <2>1, <2>2, <2>3, <2>4, QuietSends
  <2>5. CASE mishaps' = mishaps + 1
    BY <2>1, <2>2, <2>3, <2>5, QuietSends
  <2> QED  BY <2>1, <2>4, <2>5
<1>5. ASSUME NEW k \in DOMAIN jobs, sendMessage(k) PROVE SentInv'
  BY <1>5, SendSends
<1> QED  BY <1>1, <1>2, <1>3, <1>4, <1>5 DEF Workers

\* The operations send nothing, and their jobs have no jid.
LEMMA CallsSend ==
  ASSUME Types, SentInv, NEW c \in Clients, Operations(c) \/ Steps(c)
  PROVE  SentInv'
<1>1. CASE Operations(c)
  <2>1. PICK x \in Tasks : Begin(c, x.op, x.id, x.todo)
    BY <1>1, OperationsBegin
  <2>2. jobs' = jobs /\ UNCHANGED <<rows, scheduler, sent, mishaps>>
    BY <2>1, BeginTyped
  <2>3. \A id \in Pending : \A p \in Pods : Due(p, id)' => Due(p, id)
    BY <2>2 DEF Due
  <2> QED  BY <2>2, <2>3, NothingWritten, QuietSends DEF Types
<1>2. CASE insertRow(c)
  <2>1. Awaits(c, "insert") /\ UNCHANGED <<scheduler, sent, mishaps>>
        /\ rows' = [rows EXCEPT ![Id(c)] = Made[Op(c)]]
    BY <1>2 DEF insertRow, Goes, StepLeaves
  <2>2. Id(c) \notin Pending
    BY <2>1, AwaitedBy, IdsAssumption DEF Types, CallsTyped
  <2>3. \A id \in Pending : rows'[id] = rows[id]
    BY <2>1, <2>2 DEF Types, RowsTyped, Ids
  <2>4. \A id \in Pending : \A p \in Pods : Due(p, id)' => Due(p, id)
    BY <2>1, <2>3 DEF Due
  <2> QED  BY <1>2, <2>1, <2>4, InsertTyped, QuietSends
<1>3. CASE \/ insertFails(c) \/ removeRepeatableByKey(c) \/ dispatchEvent(c) \/ gaveUp(c)
            \/ removeJob(c) \/ getJobs(c) \/ removeFound(c)
  <2>1. UNCHANGED <<rows, scheduler, sent, mishaps>>
    BY <1>3 DEF insertFails, removeRepeatableByKey, dispatchEvent, gaveUp, removeJob, getJobs,
                removeFound, StepLeaves
  <2>2. \A id \in Pending : \A p \in Pods : Due(p, id)' => Due(p, id)
    BY <2>1 DEF Due
  <2>3. Quiet(jobs, jobs')
    BY <1>3, InsertTyped, OtherAwaitsTyped, RemoveTyped, GetJobsTyped, RemoveFoundTyped
  <2> QED  BY <2>1, <2>2, <2>3, QuietSends
<1>4. CASE callFails(c)
  <2>1. UNCHANGED <<rows, scheduler, sent>> /\ mishaps' = mishaps + 1 /\ Quiet(jobs, jobs')
    BY <1>4, OtherAwaitsTyped DEF callFails, Mishap, StepLeaves
  <2>2. \A id \in Pending : \A p \in Pods : Due(p, id)' => Due(p, id)
    BY <2>1 DEF Due
  <2> QED  BY <2>1, <2>2, QuietSends
<1>5. CASE updateRow(c)
  <2>1. Awaits(c, "update") /\ UNCHANGED <<scheduler, sent, mishaps>>
    BY <1>5 DEF updateRow, Goes, StepLeaves
  <2>2. \/ Op(c) \in {"update", "cancel", "deactivate", "pause", "resume"}
        \/ Id(c) = "none"
    BY <2>1, AwaitedBy DEF Types, CallsTyped
  <2>3. \A id \in Pending : rows'[id] = "pending" => rows[id] = "pending"
    <3>1. CASE Id(c) = "none"
      BY <1>5, <3>1 DEF updateRow, Types, RowsTyped, Ids
    <3>2. CASE Id(c) # "none"
      <4>1. Op(c) # "update" => Becomes[Op(c)] # "pending"
        BY <2>2, <3>2 DEF Becomes
      <4> QED  BY <1>5, <3>2, <4>1 DEF updateRow, Types, RowsTyped, Ids
    <3> QED  BY <3>1, <3>2
  <2>4. \A id \in Pending : \A p \in Pods : Due(p, id)' => Due(p, id)
    BY <2>1, <2>3 DEF Due
  <2> QED  BY <1>5, <2>1, <2>4, UpdateTyped, QuietSends
<1>6. CASE addJob(c)
  <2>1. UNCHANGED <<rows, scheduler, sent, mishaps>>
    BY <1>6 DEF addJob, StepLeaves
  <2>2. PICK k : k = KeyOf(c)
    OBVIOUS
  <2>3. /\ DOMAIN jobs' = DOMAIN jobs \union {k}
        /\ \A j \in DOMAIN jobs : jobs'[j] = jobs[j]
        /\ k \notin DOMAIN jobs => ~jobs'[k].jid
    BY <1>6, <2>2, AddTyped
  <2> SUFFICES ASSUME NEW id \in Pending PROVE Sendings(id)' <= Cardinality(Pods) + mishaps'
    BY DEF SentInv
  <2>4. Open(jobs', id) = Open(jobs, id)
    BY <2>3 DEF Open
  <2>5. DueAt(id)' = DueAt(id)
    BY <2>1 DEF DueAt, Due
  <2>6. Sendings(id)' = Sendings(id)
    BY <2>1, <2>4, <2>5 DEF Sendings
  <2> QED  BY <2>1, <2>6 DEF SentInv
<1> QED  BY <1>1, <1>2, <1>3, <1>4, <1>5, <1>6 DEF Steps

-----------------------------------------------------------------------------
(* RetiredHasNoJobs: an operation that is alone with its row removes what it added. *)

Retired == {"CANCELED", "paused"}

\* The rows that operations make, and the jobs of one that wait.
Mades == Ids \ Pending
Left(id) == {k \in DOMAIN jobs : k.id = id /\ jobs[k].state \in {"delayed", "waiting"}}

\* The operation may yet add a job.
MayAdd(x) == x.op \in Makers \union {"update"} \/ (x.op = "cancel" /\ x.todo \notin Removing)

\* Without overlap a row has one operation at a time.
Alone ==
  \A id \in Ids \ overlapped : \A c, d \in Clients :
    calls[c].id = id /\ calls[d].id = id => c = d

\* At its last write a retirer has removed the jobs, or read those it has still to
\* remove; and who may yet add one finds the row in use.
Retires(x, K, id) ==
  /\ x.op \in Retirers /\ x.todo = <<"update">> => Left(id) \subseteq K
  /\ MayAdd(x) => rows[id] \notin Retired

\* A row is retired after its jobs were removed, and by who adds none.
RetiredInv ==
  /\ Alone
  /\ \A id \in Mades \ overlapped : rows[id] \in Retired => Left(id) = {}
  /\ \A c \in Clients : \A id \in Mades \ overlapped :
       calls[c].id = id => Retires(calls[c], found[c], id)

LEMMA RetiredInit == Init => RetiredInv
<1> SUFFICES ASSUME Init PROVE RetiredInv  OBVIOUS
<1>1. \A id \in Ids : rows[id] \notin Retired
  BY DEF Init, Retired
<1>2. \A c \in Clients : calls[c].id \notin Ids
  BY IdsAssumption DEF Init, NoCall
<1> QED  BY <1>1, <1>2 DEF RetiredInv, Alone, Mades

LEMMA RetiredSuffices == Types /\ RetiredInv => RetiredHasNoJobs
<1> SUFFICES ASSUME Types, RetiredInv, NEW id \in Ids \ overlapped, rows[id] \in Retired,
                    NEW k \in DOMAIN jobs, k.id = id,
                    jobs[k].state \in {"delayed", "waiting"}
             PROVE  FALSE
  BY DEF RetiredHasNoJobs, Retired
<1>1. id \in Mades
  BY DEF Types, RowsTyped, Retired, Mades
<1>2. Left(id) = {} /\ k \in Left(id)
  BY <1>1 DEF RetiredInv, Left
<1> QED  BY <1>2

LEMMA QuietLeaves ==
  ASSUME Quiet(jobs, jobs')
  PROVE  \A id \in Mades : Left(id)' \subseteq Left(id)
BY DEF Quiet, Left, Mades

LEMMA IdsOfCalls ==
  ASSUME Types, NEW c \in Clients
  PROVE  calls[c].id \in Ids \union {"none"} /\ (calls[c].op = "none" => calls[c] = NoCall)
BY DEF Types, CallsTyped, Tasks, NoCall, Ids

\* A plan that may add no more does not get to.
LEMMA AddersGoOn ==
  ASSUME Types, NEW c \in Clients, calls[c].todo # <<>>, MayAdd(Rest(c))
  PROVE  MayAdd(calls[c])
<1>1. Rest(c) # NoCall
  BY DEF MayAdd, NoCall, Makers
<1>2. Rest(c).todo = Tail(calls[c].todo) /\ Rest(c).op = calls[c].op
  BY <1>1, RestTyped DEF Types, CallsTyped
<1>3. calls[c].todo \in Removing => Len(calls[c].todo) # 1
  <2> SUFFICES ASSUME Len(calls[c].todo) = 1 PROVE FALSE
    OBVIOUS
  <2> QED  BY <1>1 DEF Rest
<1>4. calls[c].todo \in Removing => Rest(c).todo \in Removing
  BY <1>2, <1>3, PlansGoOn
<1> HIDE DEF Rest
<1> QED  BY <1>2, <1>4 DEF MayAdd

\* A retirer's last write comes last.
LEMMA RetirersEnd ==
  ASSUME Types, NEW c \in Clients, Awaits(c, "update"), Op(c) \in Retirers
  PROVE  calls[c].todo = <<"update">>
<1> DEFINE x == calls[c]
<1>1. x \in Tasks /\ Head(x.todo) = "update" /\ x.op \in Retirers
  BY AwaitedBy DEF Types, CallsTyped, Awaits, Op
<1>2. x.todo \in Cancelling \union Pausing
  <2> HIDE DEF x
  <2> QED  BY <1>1 DEF Tasks, Retirers
<1> DEFINE t == x.todo
<1>3. t \in Cancelling \union Pausing /\ Head(t) = "update"
  BY <1>1, <1>2
<1>4. /\ Head(<<"remove", "update">>) # "update"
      /\ Head(<<"remove", "add", "remove", "update">>) # "update"
      /\ Head(<<"add", "remove", "update">>) # "update"
      /\ Head(<<"getJobs", "update">>) # "update"
  OBVIOUS
<1> HIDE DEF t
<1>5. t = <<"update">>
  BY <1>3, <1>4, Zenon DEF Cancelling, Removing, Pausing
<1> QED  BY <1>5 DEF t

\* The workers' steps.
LEMMA WorkerRetires ==
  ASSUME RetiredInv, UNCHANGED <<calls, found, overlapped>>,
         \A id \in Mades : Left(id)' \subseteq Left(id),
         \A id \in Mades : rows'[id] \in Retired => rows[id] \in Retired
  PROVE  RetiredInv'
<1>1. Alone'
  BY DEF RetiredInv, Alone
<1>2. \A id \in Mades \ overlapped' : rows'[id] \in Retired => Left(id)' = {}
  BY DEF RetiredInv
<1>3. ASSUME NEW c \in Clients, NEW id \in Mades \ overlapped', calls'[c].id = id
      PROVE  Retires(calls[c], found[c], id)'
  BY <1>3 DEF RetiredInv, Retires, MayAdd
<1> QED  BY <1>1, <1>2, <1>3 DEF RetiredInv, Retires, MayAdd

\* An operation goes on: it removes nothing, and may add what it may add.
LEMMA GoingOnRetires ==
  ASSUME Types, RetiredInv, NEW c \in Clients, NEW what, Goes(c, what),
         what \notin {"remove", "getJobs"}, UNCHANGED <<found, overlapped>>,
         \A id \in Mades : Left(id)' \subseteq Left(id) \/ (id = Id(c) /\ MayAdd(calls[c])),
         \A id \in Mades : rows'[id] \in Retired => rows[id] \in Retired
  PROVE  RetiredInv'
<1> DEFINE y == Rest(c)
<1>1. calls' = [calls EXCEPT ![c] = y] /\ Awaits(c, what) /\ calls[c].todo # <<>>
  BY DEF Goes, Awaits
<1>2. y = NoCall \/ (y.id = calls[c].id /\ y.op = calls[c].op)
  BY <1>1, RestTyped DEF Types, CallsTyped
<1>3. MayAdd(y) => MayAdd(calls[c])
  BY <1>1, AddersGoOn
<1>4. y.op \in Retirers => y.todo # <<"update">>
  BY <1>1, <1>2, RetirersRemove DEF Types, CallsTyped, Op, NoCall, Retirers
<1> HIDE DEF y
<1>5. \A d \in Clients : calls'[d] = IF d = c THEN y ELSE calls[d]
  BY <1>1 DEF Types, CallsTyped
<1>6. \A d \in Clients : calls'[d].id \in Ids => calls'[d].id = calls[d].id
  BY <1>2, <1>5, IdsAssumption DEF NoCall
<1>7. Alone'
  BY <1>6 DEF RetiredInv, Alone
<1>8. ASSUME NEW id \in Mades \ overlapped, rows'[id] \in Retired PROVE Left(id)' = {}
  <2>1. rows[id] \in Retired /\ Left(id) = {}
    BY <1>8 DEF RetiredInv
  <2>2. ~(id = Id(c) /\ MayAdd(calls[c]))
    BY <2>1 DEF RetiredInv, Retires, Id
  <2> QED  BY <2>1, <2>2
<1>9. ASSUME NEW d \in Clients, NEW id \in Mades \ overlapped, calls'[d].id = id
      PROVE  Retires(calls[d], found[d], id)'
  <2>1. calls[d].id = id /\ id \in Ids
    BY <1>6, <1>9 DEF Mades
  <2>2. CASE d = c
    <3>1. MayAdd(y) => rows'[id] \notin Retired
      BY <1>3, <2>1, <2>2 DEF RetiredInv, Retires
    <3> QED  BY <1>4, <1>5, <2>2, <3>1 DEF Retires, MayAdd
  <2>3. CASE d # c
    <3>1. id # Id(c)
      BY <2>1, <2>3 DEF RetiredInv, Alone, Id
    <3>2. calls'[d] = calls[d]
      BY <1>5, <2>3
    <3> QED  BY <2>1, <3>1, <3>2 DEF RetiredInv, Retires, MayAdd
  <2> QED  BY <2>2, <2>3
<1>10. overlapped' = overlapped
  OBVIOUS
<1> QED  BY <1>7, <1>8, <1>9, <1>10 DEF RetiredInv

\* An operation has no job of its row left but those it has found.
LEMMA ClearingRetires ==
  ASSUME Types, RetiredInv, NEW c \in Clients, NEW what, Goes(c, what),
         UNCHANGED <<rows, overlapped>>, NEW i, i = Id(c),
         \A id \in Mades : Left(id)' \subseteq Left(id),
         Left(i)' \subseteq found'[c],
         \A d \in Clients : d # c => found'[d] = found[d]
  PROVE  RetiredInv'
<1>1. PICK y : y = Rest(c)
  OBVIOUS
<1>2. calls' = [calls EXCEPT ![c] = y] /\ calls[c].todo # <<>>
  BY <1>1 DEF Goes, Awaits
<1>3. y = NoCall \/ (y.id = calls[c].id /\ (MayAdd(y) => MayAdd(calls[c])))
  BY <1>1, <1>2, RestTyped, AddersGoOn DEF Types, CallsTyped
<1>4. \A d \in Clients : calls'[d] = IF d = c THEN y ELSE calls[d]
  BY <1>2 DEF Types, CallsTyped
<1>5. \A d \in Clients : calls'[d].id \in Ids => calls'[d].id = calls[d].id
  BY <1>3, <1>4, IdsAssumption DEF NoCall
<1>6. Alone'
  BY <1>5 DEF RetiredInv, Alone
<1>7. \A id \in Mades \ overlapped : rows'[id] \in Retired => Left(id)' = {}
  BY DEF RetiredInv
<1>8. ASSUME NEW d \in Clients, NEW id \in Mades \ overlapped, calls'[d].id = id
      PROVE  Retires(calls[d], found[d], id)'
  <2>1. id \in Ids /\ calls[d].id = id
    BY <1>5, <1>8 DEF Mades
  <2>2. CASE d = c
    <3>1. y # NoCall /\ id = i
      BY <1>4, <1>8, <2>1, <2>2, IdsAssumption DEF NoCall, Id
    <3>2. MayAdd(y) => rows'[id] \notin Retired
      BY <1>3, <2>1, <2>2, <3>1 DEF RetiredInv, Retires
    <3> QED  BY <1>4, <2>2, <3>1, <3>2 DEF Retires, MayAdd
  <2>3. CASE d # c
    <3>1. Left(id)' \subseteq Left(id) /\ rows' = rows /\ calls'[d] = calls[d]
          /\ found'[d] = found[d]
      BY <1>4, <2>3
    <3>2. Retires(calls[d], found[d], id)
      BY <2>1 DEF RetiredInv
    <3> QED  BY <3>1, <3>2 DEF Retires, MayAdd
  <2> QED  BY <2>2, <2>3
<1>9. overlapped' = overlapped
  OBVIOUS
<1> QED  BY <1>6, <1>7, <1>8, <1>9 DEF RetiredInv

\* A scheduled message's job that waits is the one that is removed.
LEMMA RemoveRetires ==
  ASSUME Types, RetiredInv, NEW c \in Clients, removeJob(c)
  PROVE  RetiredInv'
<1>1. /\ Quiet(jobs, jobs')
      /\ DOMAIN jobs' = DOMAIN jobs \ {k \in JobsOf(c) : Removable(k)}
  BY RemoveTyped
<1>2. Goes(c, "remove") /\ UNCHANGED <<rows, found, overlapped>>
  BY DEF removeJob, StepLeaves
<1>3. Op(c) \in {"update", "cancel"} /\ Id(c) \in Schedules
  BY <1>2, AwaitedBy DEF Goes, Types, CallsTyped
<1>4. Id(c) \in Mades
  BY <1>3, IdsAssumption DEF Mades, Ids
<1>5. PICK i : i = Id(c)
  OBVIOUS
<1>6. Left(i)' = {}
  <2> SUFFICES ASSUME NEW k \in DOMAIN jobs', k.id = i,
                      jobs'[k].state \in {"delayed", "waiting"}
               PROVE  FALSE
    BY DEF Left
  <2>1. /\ k \in DOMAIN jobs /\ jobs[k].state \in {"delayed", "waiting"}
        /\ ~(k \in JobsOf(c) /\ Removable(k))
    BY <1>1, <1>4, <1>5 DEF Quiet, Mades
  <2>2. k.queue = "scheduled-messages"
    BY <1>3, <1>5, <2>1 DEF Types, JobsTyped, JobFits
  <2>3. k.queue = QueueOf(Op(c))
    BY <1>3, <2>2, QueueOfs
  <2> QED  BY <1>5, <2>1, <2>3 DEF JobsOf, Removable
<1>7. \A id \in Mades : Left(id)' \subseteq Left(id)
  BY <1>1, QuietLeaves
<1>8. Left(i)' \subseteq found'[c] /\ \A d \in Clients : d # c => found'[d] = found[d]
  BY <1>2, <1>6
<1> QED  BY <1>2, <1>5, <1>7, <1>8, ClearingRetires

\* The jobs of a broadcast that wait are the ones that are read,
LEMMA GetJobsRetires ==
  ASSUME Types, RetiredInv, NEW c \in Clients, getJobs(c)
  PROVE  RetiredInv'
<1>1. /\ Quiet(jobs, jobs') /\ \A d \in Clients : d # c => found'[d] = found[d]
      /\ found'[c] = {k \in JobsOf(c) : jobs[k].state \in {"delayed", "waiting"}}
  BY GetJobsTyped
<1>2. Goes(c, "getJobs") /\ UNCHANGED <<rows, jobs, overlapped>>
  BY DEF getJobs, StepLeaves
<1>3. Op(c) = "pause" /\ Id(c) \in Broadcasts
  BY <1>2, AwaitedBy DEF Goes, Types, CallsTyped
<1>4. PICK i : i = Id(c)
  OBVIOUS
<1>5. \A k \in DOMAIN jobs : k.id = i => k \in JobsOf(c)
  BY <1>3, <1>4, QueueOfs DEF Types, JobsTyped, JobFits, JobsOf
<1>6. Left(i)' \subseteq found'[c]
  BY <1>1, <1>2, <1>5 DEF Left
<1>7. \A id \in Mades : Left(id)' \subseteq Left(id)
  BY <1>1, QuietLeaves
<1> QED  BY <1>1, <1>2, <1>4, <1>6, <1>7, ClearingRetires

\* and what has been removed is not left.
LEMMA RemoveFoundRetires ==
  ASSUME Types, RetiredInv, NEW c \in Clients, removeFound(c)
  PROVE  RetiredInv'
<1>1. PICK k \in found[c] : /\ found'[c] = found[c] \ {k}
                            /\ DOMAIN jobs' = DOMAIN jobs \ {k}
  BY RemoveFoundTyped
<1>2. Quiet(jobs, jobs') /\ \A d \in Clients : d # c => found'[d] = found[d]
  BY RemoveFoundTyped
<1>3. UNCHANGED <<rows, calls, overlapped>>
  BY DEF removeFound, StepLeaves
<1>4. \A id \in Mades : Left(id)' \subseteq Left(id) \ {k}
  BY <1>1, <1>2, QuietLeaves DEF Left
<1>5. Alone' /\ \A id \in Mades \ overlapped : rows'[id] \in Retired => Left(id)' = {}
  BY <1>3, <1>4 DEF RetiredInv, Alone
<1>6. ASSUME NEW d \in Clients, NEW id \in Mades \ overlapped, calls'[d].id = id
      PROVE  Retires(calls[d], found[d], id)'
  <2>1. Retires(calls[d], found[d], id) /\ calls'[d] = calls[d] /\ rows' = rows
    BY <1>3, <1>6 DEF RetiredInv
  <2>2. Left(id) \subseteq found[d] => Left(id)' \subseteq found'[d]
    BY <1>1, <1>2, <1>4
  <2> QED  BY <2>1, <2>2 DEF Retires, MayAdd
<1> QED  BY <1>3, <1>5, <1>6 DEF RetiredInv

\* An operation ends: what is retired now had no jobs left.
LEMMA EndRetires ==
  ASSUME Types, RetiredInv, NEW c \in Clients,
         calls' = [calls EXCEPT ![c] = NoCall], UNCHANGED <<jobs, overlapped>>,
         \A d \in Clients : d # c => found'[d] = found[d],
         \A id \in Mades \ overlapped :
           rows'[id] \in Retired => rows[id] \in Retired \/ (calls[c].id = id /\ Left(id) = {})
  PROVE  RetiredInv'
<1>1. \A d \in Clients : calls'[d] = IF d = c THEN NoCall ELSE calls[d]
  BY DEF Types, CallsTyped
<1>2. \A d \in Clients : calls'[d].id \in Ids => d # c /\ calls'[d] = calls[d]
  BY <1>1, IdsAssumption DEF NoCall
<1>3. Alone'
  BY <1>2 DEF RetiredInv, Alone
<1>4. \A id : Left(id)' = Left(id)
  BY DEF Left
<1>5. \A id \in Mades \ overlapped : rows'[id] \in Retired => Left(id)' = {}
  BY <1>4 DEF RetiredInv
<1>6. ASSUME NEW d \in Clients, NEW id \in Mades \ overlapped, calls'[d].id = id
      PROVE  Retires(calls[d], found[d], id)'
  <2>1. d # c /\ calls'[d] = calls[d] /\ found'[d] = found[d] /\ id \in Ids
    BY <1>2, <1>6 DEF Mades
  <2>2. Retires(calls[d], found[d], id)
    BY <1>6, <2>1 DEF RetiredInv
  <2>3. calls[c].id # id
    BY <1>6, <2>1 DEF RetiredInv, Alone
  <2>4. rows'[id] \in Retired => rows[id] \in Retired
    BY <2>3
  <2> QED  BY <1>4, <2>1, <2>2, <2>4 DEF Retires, MayAdd
<1>7. overlapped' = overlapped
  OBVIOUS
<1> QED  BY <1>3, <1>5, <1>6, <1>7 DEF RetiredInv

LEMMA BeginRetires ==
  ASSUME Types, RetiredInv, NEW c \in Clients, NEW x \in Tasks,
         Begin(c, x.op, x.id, x.todo), Fits(x)
  PROVE  RetiredInv'
<1>1. jobs' = jobs /\ rows' = rows /\ found' = found /\ calls' = [calls EXCEPT ![c] = x]
  BY BeginTyped
<1>2. \A d \in Clients : calls'[d] = IF d = c THEN x ELSE calls[d]
  BY <1>1 DEF Types, CallsTyped
<1>3. overlapped \subseteq overlapped' /\ (Busy(x.id) => x.id \in overlapped')
  BY DEF Begin
<1>4. \A d \in Clients : calls[d].id = x.id => x.id \in overlapped'
  BY <1>3 DEF Busy
<1>5. Alone'
  BY <1>2, <1>3, <1>4 DEF RetiredInv, Alone
<1>6. \A id : Left(id)' = Left(id)
  BY <1>1 DEF Left
<1>7. \A id \in Mades \ overlapped' : rows'[id] \in Retired => Left(id)' = {}
  BY <1>1, <1>3, <1>6 DEF RetiredInv
<1>8. x.op \in Retirers => x.todo # <<"update">>
  BY DEF Fits
<1>9. MayAdd(x) => rows[x.id] \notin Retired
  BY DEF Fits, MayAdd, Retired
<1>10. ASSUME NEW d \in Clients, NEW id \in Mades \ overlapped', calls'[d].id = id
       PROVE  Retires(calls[d], found[d], id)'
  <2>1. CASE d = c
    BY <1>1, <1>2, <1>8, <1>9, <1>10, <2>1 DEF Retires, MayAdd
  <2>2. CASE d # c
    <3>1. calls'[d] = calls[d] /\ Retires(calls[d], found[d], id)
      BY <1>2, <1>3, <1>10, <2>2 DEF RetiredInv
    <3> QED  BY <1>1, <1>6, <3>1 DEF Retires, MayAdd
  <2> QED  BY <2>1, <2>2
<1> QED  BY <1>5, <1>7, <1>10 DEF RetiredInv

\* What the workers write of jobs and rows adds and retires nothing of the operations'.
LEMMA WorkersRetire ==
  ASSUME Types, RetiredInv, Workers
  PROVE  RetiredInv'
<1>1. UNCHANGED <<calls, found, overlapped>>
  BY DEF Workers, queryRejects, queryRows, markRow, tickFails, enqueueRow,
         takeScheduled, takeOutbound, validateJob, offline, sendMessage, WorkerLeaves
<1>2. \A id \in Mades : rows'[id] \in Retired => rows[id] \in Retired
  <2>1. CASE \E p \in Pods : markRow(p)
    BY <2>1 DEF markRow, Types, RowsTyped, Retired, Mades
  <2>2. CASE ~\E p \in Pods : markRow(p)
    <3>1. rows' = rows
      BY <2>2 DEF Workers, queryRejects, queryRows, tickFails, enqueueRow,
                  takeScheduled, takeOutbound, validateJob, offline, sendMessage
    <3> QED  BY <3>1
  <2> QED  BY <2>1, <2>2
<1>3. \A id \in Mades : Left(id)' \subseteq Left(id)
  <2>1. CASE \E p \in Pods : \E i \in Pending : enqueueRow(p, i)
    <3>1. PICK p \in Pods, i \in Pending : enqueueRow(p, i)
      BY <2>1
    <3>2. PICK k : k = NewKey(i)
      OBVIOUS
    <3>3. /\ DOMAIN jobs' = DOMAIN jobs \union {k}
          /\ \A j \in DOMAIN jobs : jobs'[j] = jobs[j]
          /\ k.id = i
      BY <3>1, <3>2, EnqueueTyped DEF NewKey, Key
    <3> QED  BY <3>3 DEF Left, Mades
  <2>2. CASE ~\E p \in Pods : \E i \in Pending : enqueueRow(p, i)
    <3>1. Quiet(jobs, jobs')
      BY <2>2, QueryTyped, MarkTyped, TickFailsTyped, TakeScheduledTyped,
         OutboundTyped DEF Workers
    <3> QED  BY <3>1, QuietLeaves
  <2> QED  BY <2>1, <2>2
<1> QED  BY <1>1, <1>2, <1>3, WorkerRetires

\* A retirer writes its row when nothing of what it found is left to remove.
LEMMA UpdateRetires ==
  ASSUME Types, RetiredInv, NEW c \in Clients, updateRow(c)
  PROVE  RetiredInv'
<1>1. /\ Goes(c, "update") /\ Awaits(c, "update") /\ UNCHANGED <<jobs, found, overlapped>>
      /\ calls' = [calls EXCEPT ![c] = Rest(c)] /\ found[c] = {}
  BY DEF updateRow, Goes, StepLeaves
<1>2. \/ /\ Op(c) \in {"update", "cancel", "deactivate", "pause", "resume"}
         /\ Id(c) \in Ids
      \/ Op(c) \in {"powerOn", "powerOff", "delete"} /\ Id(c) = "none"
  BY <1>1, AwaitedBy DEF Types, CallsTyped, Ids
<1>3. CASE Op(c) \in Retirers
  <2>1. calls[c].todo = <<"update">> /\ Id(c) \in Ids
    BY <1>1, <1>2, <1>3, RetirersEnd DEF Retirers
  <2>2. Rest(c) = NoCall
    BY <2>1, Lasts DEF Rest
  <2>3. rows' = [rows EXCEPT ![Id(c)] = Becomes[Op(c)]]
    BY <1>3, <2>1, IdsAssumption DEF updateRow, Retirers
  <2>4. ASSUME NEW id \in Mades \ overlapped, calls[c].id = id PROVE Left(id) = {}
    BY <1>1, <1>3, <2>1, <2>4 DEF RetiredInv, Retires, Op
  <2>5. \A id \in Mades \ overlapped :
          rows'[id] \in Retired => rows[id] \in Retired \/ (calls[c].id = id /\ Left(id) = {})
    BY <2>3, <2>4 DEF Types, RowsTyped, Id, Mades
  <2> QED  BY <1>1, <2>2, <2>5, EndRetires
<1>4. CASE Op(c) \notin Retirers
  <2>1. \A id \in Mades : rows'[id] \in Retired => rows[id] \in Retired
    <3>1. CASE Id(c) = "none"
      BY <3>1 DEF updateRow, Types, RowsTyped, Retired, Mades
    <3>2. CASE Id(c) # "none"
      <4>1. Op(c) \in {"update", "deactivate", "resume"} /\ Id(c) \in Ids
        BY <1>2, <1>4, <3>2 DEF Retirers
      <4>2. Op(c) # "update" => Becomes[Op(c)] \notin Retired
        BY <4>1 DEF Becomes, Retired
      <4> QED  BY <3>2, <4>1, <4>2 DEF updateRow, Types, RowsTyped, Mades
    <3> QED  BY <3>1, <3>2
  <2>2. \A id \in Mades : Left(id)' \subseteq Left(id)
    BY <1>1 DEF Left
  <2> QED  BY <1>1, <2>1, <2>2, GoingOnRetires
<1> QED  BY <1>3, <1>4

LEMMA AddRetires ==
  ASSUME Types, RetiredInv, NEW c \in Clients, addJob(c)
  PROVE  RetiredInv'
<1>1. Goes(c, "add") /\ Awaits(c, "add") /\ UNCHANGED <<rows, found, overlapped>>
  BY DEF addJob, Goes, StepLeaves
<1>2. PICK k : k = KeyOf(c)
  OBVIOUS
<1>3. /\ k.id = Id(c)
      /\ DOMAIN jobs' = DOMAIN jobs \union {k}
      /\ \A j \in DOMAIN jobs : jobs'[j] = jobs[j]
  BY <1>2, AddTyped
<1>4. Id(c) \in Mades => MayAdd(calls[c])
  <2> SUFFICES ASSUME Id(c) \in Mades PROVE MayAdd(calls[c])
    OBVIOUS
  <2>1. Op(c) \in Makers \union {"update", "cancel"}
    <3>1. calls[c] \in Tasks /\ Op(c) \notin {"deactivate", "pause", "resume"} /\ Id(c) # "none"
      BY <1>1, AwaitedBy, IdsAssumption DEF Types, CallsTyped, Mades
    <3> QED  BY <3>1 DEF Tasks, Makers, Op, Id
  <2>2. Op(c) = "cancel" => calls[c].todo \notin Removing
    BY <1>1, Heads DEF Awaits
  <2> QED  BY <2>1, <2>2 DEF MayAdd, Op
<1>5. \A id \in Mades : Left(id)' \subseteq Left(id) \/ (id = Id(c) /\ MayAdd(calls[c]))
  BY <1>3, <1>4 DEF Left
<1>6. \A id \in Mades : rows'[id] \in Retired => rows[id] \in Retired
  BY <1>1
<1> QED  BY <1>1, <1>5, <1>6, GoingOnRetires

LEMMA InsertRetires ==
  ASSUME Types, RetiredInv, NEW c \in Clients, insertRow(c)
  PROVE  RetiredInv'
<1>1. Goes(c, "insert") /\ Awaits(c, "insert") /\ UNCHANGED <<jobs, found, overlapped>>
      /\ rows' = [rows EXCEPT ![Id(c)] = Made[Op(c)]]
  BY DEF insertRow, Goes, StepLeaves
<1>2. Op(c) \in {"schedule", "cron", "send", "publish", "react", "broadcast"}
  BY <1>1, AwaitedBy DEF Types, CallsTyped
<1>3. Made[Op(c)] \notin Retired
  BY <1>2 DEF Made, Retired
<1>4. \A id \in Mades : rows'[id] \in Retired => rows[id] \in Retired
  BY <1>1, <1>3 DEF Types, RowsTyped, Mades
<1>5. \A id \in Mades : Left(id)' \subseteq Left(id)
  BY <1>1 DEF Left
<1> QED  BY <1>1, <1>4, <1>5, GoingOnRetires

LEMMA CallsRetire ==
  ASSUME Types, RetiredInv, NEW c \in Clients, Operations(c) \/ Steps(c)
  PROVE  RetiredInv'
<1>1. CASE Operations(c)
  <2>1. PICK x \in Tasks : Begin(c, x.op, x.id, x.todo) /\ Fits(x)
    BY <1>1, OperationsBegin
  <2> QED  BY <2>1, BeginRetires
<1>2. CASE insertFails(c) \/ gaveUp(c) \/ callFails(c)
  <2>1. /\ calls' = [calls EXCEPT ![c] = NoCall] /\ UNCHANGED <<rows, jobs, overlapped>>
        /\ found' = found \/ found' = [found EXCEPT ![c] = {}]
    BY <1>2 DEF insertFails, gaveUp, callFails, StepLeaves
  <2>2. \A d \in Clients : d # c => found'[d] = found[d]
    BY <2>1 DEF Types, FoundTyped
  <2> QED  BY <2>1, <2>2, EndRetires
<1>3. ASSUME NEW what \in {"removeByKey", "event"}, Goes(c, what),
             UNCHANGED <<rows, jobs, found, overlapped>>
      PROVE  RetiredInv'
  <2>1. \A id \in Mades : Left(id)' \subseteq Left(id)
    BY <1>3 DEF Left
  <2> QED  BY <1>3, <2>1, GoingOnRetires
<1>4. CASE removeRepeatableByKey(c) \/ dispatchEvent(c)
  BY <1>3, <1>4 DEF removeRepeatableByKey, dispatchEvent, StepLeaves
<1> QED
  BY <1>1, <1>2, <1>4, InsertRetires, AddRetires, RemoveRetires, GetJobsRetires,
     RemoveFoundRetires, UpdateRetires DEF Steps

-----------------------------------------------------------------------------
(* SmartScheduleFitsWindow: the arithmetic of adjustToSendWindow. *)

Early(w) == IF OpensAt24(w) THEN 24 ELSE 0

FitsWindow(s) ==
  LET h == LocalHour(s.at, s.window.zone) IN
  /\ IF s.window.startHour < s.window.endHour
     THEN h \in s.window.startHour .. (s.window.endHour - 1)
     ELSE h >= s.window.startHour \/ h < s.window.endHour
  /\ s.at \in (s.asked - Early(s.window)) .. (s.asked + 47)

Scheduled(t, w) == [asked |-> t, window |-> w, at |-> adjustToSendWindow(t, w)]

SmartInv ==
  sendAt \in [Schedules ->
               {Unscheduled} \union {Scheduled(t, w) : t \in Times, w \in Windows}]

\* Hours of the day, and the hour at which a day's window opens.
LEMMA HourOfDay ==
  \A h \in Int : /\ h % 24 \in 0..23 /\ (h \div 24) * 24 + (h % 24) = h
                 /\ h \div 24 \in Int
OBVIOUS

LEMMA OpeningHour ==
  \A d \in Int : \A s \in 0..23 : (d * 24 + s) % 24 = s
OBVIOUS

\* A window opens at its hour on the zone's clock, a day early if that is read as 24:00.
LEMMA Opens ==
  ASSUME NEW d \in Int, NEW w \in Windows
  PROVE  opening(d, w) = d * 24 + w.startHour - w.zone - Early(w)
<1> DEFINE z == w.zone
           a == w.startHour
           wall == d * 24 + a + z
<1>1. z \in Int /\ a \in Int
  BY WindowsAssumption
<1>2. wall \in Int /\ wall % 24 = (a + z) % 24
  <2> HIDE DEF z, a
  <2>1. \A x \in Int : (d * 24 + x) % 24 = x % 24
    OBVIOUS
  <2>2. a + z \in Int /\ wall = d * 24 + (a + z)
    BY <1>1
  <2> QED  BY <2>1, <2>2
<1>3. Read(wall) = wall + Early(w)
  <2> HIDE DEF wall
  <2>1. OpensAt24(w) <=> wall % 24 = 0
    BY <1>2 DEF OpensAt24, a, z
  <2> QED  BY <1>2, <2>1 DEF Read, Early
<1>4. opening(d, w) = (d * 24 + a) + ((d * 24 + a) - Read(wall))
  BY DEF opening
<1>5. Early(w) \in {0, 24}
  BY DEF Early
<1>6. opening(d, w) = d * 24 + a - z - Early(w)
  <2> HIDE DEF z, a
  <2> QED  BY <1>1, <1>3, <1>4, <1>5
<1> QED  BY <1>6

LEMMA ScheduledFits ==
  ASSUME NEW t \in Times, NEW w \in Windows
  PROVE  FitsWindow(Scheduled(t, w))
<1> DEFINE z == w.zone
           a == w.startHour
           b == w.endHour
           e == Early(w)
           h == LocalHour(t, z)
           f == formatted(t, z)
           at == adjustToSendWindow(t, w)
<1>1. t \in Nat /\ z \in Int /\ a \in 0..23 /\ b \in 0..24 /\ e \in {0, 24}
  BY TimesAssumption, WindowsAssumption DEF Early
<1>2. h \in 0..23 /\ f = (IF h = 0 THEN 24 ELSE h)
  BY <1>1, HourOfDay DEF LocalHour, formatted
<1>3. CASE f \in a .. (b - 1)
  <2>1. at = t
    BY <1>3 DEF adjustToSendWindow
  <2> HIDE DEF z, a, b, e, h, f, at
  <2>2. h = f /\ a < b
    BY <1>1, <1>2, <1>3
  <2>3. h \in a .. (b - 1) /\ at \in (t - e) .. (t + 47)
    BY <1>1, <1>3, <2>1, <2>2
  <2> QED  BY <2>1, <2>2, <2>3 DEF FitsWindow, Scheduled, z, a, b, e, h, at
<1>4. CASE f \notin a .. (b - 1)
  <2> DEFINE u == IF f >= b THEN t + 24 ELSE t
             d == (u + z) \div 24
  <2>1. d \in Int /\ u \in Int
    BY <1>1, HourOfDay
  <2>2. at = opening(d, w)
    BY <1>4 DEF adjustToSendWindow
  <2>3. at = d * 24 + a - z - e
    BY <2>1, <2>2, Opens
  <2>4. (at + z) % 24 = a
    <3> HIDE DEF d, z, a, e, at
    <3>1. at + z = d * 24 + a \/ at + z = (d - 1) * 24 + a
      BY <1>1, <2>1, <2>3
    <3>2. d \in Int /\ d - 1 \in Int
      BY <2>1
    <3> QED  BY <1>1, <3>1, <3>2, OpeningHour
  <2>5. d * 24 = u + z - h
    <3>1. (u + z) % 24 = h
      BY <1>1 DEF LocalHour
    <3>2. u + z \in Int
      BY <1>1, <2>1
    <3>3. d * 24 + ((u + z) % 24) = u + z
      BY <3>2, HourOfDay
    <3> HIDE DEF d, z, u, h
    <3> QED  BY <1>1, <1>2, <2>1, <3>1, <3>3
  <2>6. at = u - h + a - e
    <3> HIDE DEF d, z, u, h, a, e, at
    <3> QED  BY <1>1, <1>2, <2>1, <2>3, <2>5
  <2>7. u = t + 24 \/ (u = t /\ h < a)
    <3>1. CASE f >= b
      BY <3>1
    <3>2. CASE ~(f >= b)
      <4>1. u = t
        BY <3>2
      <4> HIDE DEF z, a, b, h, f, at, u, d
      <4>2. f < a /\ h = f
        BY <1>1, <1>2, <1>4, <3>2
      <4> QED  BY <4>1, <4>2
    <3> QED  BY <3>1, <3>2
  <2>8. at \in (t - e) .. (t + 47)
    <3> HIDE DEF z, a, b, e, h, f, at, u, d
    <3> QED  BY <1>1, <1>2, <2>6, <2>7
  <2>9. /\ a < b => a \in a .. (b - 1)
        /\ a >= a
    <3> HIDE DEF a, b
    <3> QED  BY <1>1
  <2> QED  BY <2>4, <2>8, <2>9 DEF FitsWindow, Scheduled, LocalHour
<1> QED  BY <1>3, <1>4

LEMMA SmartInit == Init => SmartInv
BY DEF Init, SmartInv

\* Only createSmartSchedule writes sendAt, with what adjustToSendWindow answers.
LEMMA SmartStep ==
  ASSUME SmartInv, [Next]_vars
  PROVE  SmartInv'
<1>1. ASSUME NEW c \in Clients, NEW id \in Schedules, createSmartSchedule(c, id)
      PROVE  SmartInv'
  <2>1. PICK t \in Times, w \in Windows : sendAt' = [sendAt EXCEPT ![id] = Scheduled(t, w)]
    BY <1>1 DEF createSmartSchedule, Scheduled
  <2>2. Scheduled(t, w) \in {Scheduled(u, v) : u \in Times, v \in Windows}
    OBVIOUS
  <2> HIDE DEF Scheduled
  <2> QED  BY <2>1, <2>2 DEF SmartInv
<1>2. CASE UNCHANGED sendAt
  BY <1>2 DEF SmartInv
<1>3. ASSUME NEW c \in Clients, Steps(c) PROVE UNCHANGED sendAt
  BY <1>3 DEF Steps, insertRow, insertFails, addJob, removeJob, removeRepeatableByKey, getJobs,
              removeFound, updateRow, dispatchEvent, gaveUp, callFails, StepLeaves
<1>4. ASSUME Workers PROVE UNCHANGED sendAt
  BY <1>4 DEF Workers, queryRejects, queryRows, markRow, tickFails, enqueueRow,
              takeScheduled, takeOutbound, validateJob, offline, sendMessage, WorkerLeaves
<1>5. ASSUME NEW c \in Clients, Operations(c) PROVE SmartInv'
  <2>1. UNCHANGED sendAt \/ \E id \in Schedules : createSmartSchedule(c, id)
    BY <1>5 DEF Operations, createScheduledMessage, updateScheduledMessage,
                deleteScheduledMessage, createCronJob, deleteCronJob, send, addReaction,
                removeReaction, createBroadcast, updateStatus, powerOn, powerOff,
                removeInstance, lifecycle, updateProfile, storyOperation, updatePresence,
                groupOperation, ask, verifySingle
  <2> QED  BY <1>1, <1>2, <2>1
<1>6. CASE UNCHANGED vars
  BY <1>2, <1>6 DEF vars
<1> QED  BY <1>2, <1>3, <1>4, <1>5, <1>6 DEF Next

LEMMA SmartSuffices == SmartInv => SmartScheduleFitsWindow
<1> SUFFICES ASSUME SmartInv, NEW id \in Schedules PROVE FitsWindow(sendAt[id])
  BY DEF SmartScheduleFitsWindow, FitsWindow, Early
<1>1. sendAt[id] \in {Unscheduled} \union {Scheduled(t, w) : t \in Times, w \in Windows}
  BY DEF SmartInv
<1>2. FitsWindow(Unscheduled)
  BY DEF FitsWindow, Unscheduled, NoWindow, LocalHour, Early
<1> HIDE DEF FitsWindow, Scheduled
<1> QED  BY <1>1, <1>2, ScheduledFits

-----------------------------------------------------------------------------
(* The theorems. *)

LEMMA TypesStep ==
  ASSUME Types, [Next]_vars
  PROVE  Types'
<1>1. CASE Workers
  BY <1>1, TakeScheduledTyped, QueryTyped, MarkTyped, TickFailsTyped, EnqueueTyped,
     OutboundTyped DEF Workers
<1>2. ASSUME NEW c \in Clients, Operations(c) PROVE Types'
  <2>1. PICK x \in Tasks : Begin(c, x.op, x.id, x.todo)
    BY <1>2, OperationsBegin
  <2> QED  BY <2>1, BeginTyped
<1>3. ASSUME NEW c \in Clients, Steps(c) PROVE Types'
  BY <1>3, InsertTyped, AddTyped, RemoveTyped, GetJobsTyped, RemoveFoundTyped, UpdateTyped,
     OtherAwaitsTyped DEF Steps
<1>4. CASE UNCHANGED vars
  BY <1>4 DEF vars, Types, CallsTyped, FoundTyped, TickTyped, ActiveIsTicking, RowsTyped,
              CountsTyped
<1> QED  BY <1>1, <1>2, <1>3, <1>4 DEF Next

LEMMA TypesInvariant == Spec => []Types
BY InitTyped, TypesStep, PTL DEF Spec

\* The variables keep their types; and a job of the scheduled messages that is active is
\* one that the worker of some process has (scheduled-message.worker.ts).
THEOREM TypeCorrect == Spec => []TypeOK
BY TypesInvariant, TypesSuffice, PTL

\* A pending row's message is sent once by each worker process at the most, and once more
\* for each crash or rejection: for any number of processes, rows, attempts and operations
\* beside the workers' (scheduled-message.worker.ts, outbound-message.worker.ts).
THEOREM SentOnce == Spec => []SentOncePerProcess
<1>1. ASSUME Types, SentInv, [Next]_vars PROVE SentInv'
  <2>1. CASE UNCHANGED vars
    <3>1. \A id \in Pending : Sendings(id)' = Sendings(id)
      BY <2>1 DEF vars, Sendings, DueAt, Due
    <3> QED  BY <1>1, <2>1, <3>1 DEF vars, SentInv
  <2>2. CASE Workers
    BY <1>1, <2>2, WorkersSend
  <2>3. CASE \E c \in Clients : Operations(c) \/ Steps(c)
    BY <1>1, <2>3, CallsSend
  <2> QED  BY <1>1, <2>1, <2>2, <2>3 DEF Next
<1> QED  BY <1>1, SentInit, SentSuffices, TypesInvariant, PTL DEF Spec

\* A row cancelled or paused by an operation that was alone with it has no job left that
\* waits for its time or for a worker, however the removals are spread over steps of others
\* (scheduling.service.ts, broadcasts.service.ts).
THEOREM RetiredAreRid == Spec => []RetiredHasNoJobs
<1>1. ASSUME Types, RetiredInv, [Next]_vars PROVE RetiredInv'
  <2>1. CASE UNCHANGED vars
    BY <1>1, <2>1 DEF vars, RetiredInv, Retires, Alone, Left, MayAdd
  <2>2. CASE Workers
    BY <1>1, <2>2, WorkersRetire
  <2>3. CASE \E c \in Clients : Operations(c) \/ Steps(c)
    BY <1>1, <2>3, CallsRetire
  <2> QED  BY <1>1, <2>1, <2>2, <2>3 DEF Next
<1> QED  BY <1>1, RetiredInit, RetiredSuffices, TypesInvariant, PTL DEF Spec

\* A smart schedule goes out in its window and within two days, for any hours, windows and
\* zones, also windows over midnight; and not before the time that was asked for, except
\* that a window is taken to open a day early if its first hour on the server's clock is
\* midnight in the zone, which is read as 24:00 (adjustToSendWindow).
THEOREM SmartFitsAlways == Spec => []SmartScheduleFitsWindow
BY SmartInit, SmartStep, SmartSuffices, PTL DEF Spec
=============================================================================
