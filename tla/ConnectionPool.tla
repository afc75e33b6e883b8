--------------------------- MODULE ConnectionPool ---------------------------
(***************************************************************************)
(* apps/worker/src/connection: one worker pod's WhatsApp connections.      *)
(* ConnectionPoolService keeps the managed instances, BaileysConnection-   *)
(* Service one socket per instance, ReconnectionService the back-off and   *)
(* its timers, SessionPersistenceService loads the auth state.             *)
(*                                                                         *)
(* A step is the code run by one callback of the event loop: a call of the *)
(* pool, a timer, the answer of loadAuthState, an event of a socket.  The  *)
(* awaits of disconnect() wait for nothing outside the process and are no  *)
(* step boundary; the awaits of loadAuthState, a database read, are.       *)
(*                                                                         *)
(* What happens to one instance is a function of its record; an action     *)
(* applies the handler's function to it.                                   *)
(***************************************************************************)
EXTENDS Integers, FiniteSets

CONSTANTS
  Ids,           \* instances
  Paired,        \* those whose row holds an auth state: nothing in the worker
                 \* ever saves one (handleCredsUpdated only logs)
  Sockets,       \* Baileys sockets alive at once; a dead one is used again
  NoSocket,
  MaxInstances,  \* MAX_INSTANCES_PER_POD
  MaxAttempts,   \* ReconnectionService.MAX_ATTEMPTS
  EndModes,      \* what socket.end(undefined) does, see Ended
  MaxRuns        \* model bound on what one instance has going on, see Runs

ASSUME InstancesAssumption ==
  IsFiniteSet(Ids) /\ Paired \subseteq Ids /\ MaxInstances \in Nat
ASSUME AttemptsAssumption == MaxAttempts \in Nat \ {0} /\ MaxRuns \in Nat \ {0}
ASSUME SocketsAssumption ==
  IsFiniteSet(Sockets) /\ NoSocket \notin Sockets \union Ids /\ EndModes \subseteq {"quiet", "sync", "late"}

VARIABLES
  inst,  \* per instance, its part of the services' Maps and its pending callbacks
  sock   \* the sockets themselves

vars == <<inst, sock>>

Status == {"absent", "CONNECTING", "CONNECTED", "DISCONNECTED"}

Instance == [
  status       : Status,                           \* pool.instances, "absent" when not there
  socket       : Sockets \union {NoSocket},        \* baileys.sockets
  attempts     : 0..MaxAttempts,                   \* reconnection.states: a missing
  circuit      : {"closed", "open", "cooled"},     \* entry reads as 0, "closed" and
  timer        : BOOLEAN,                          \* FALSE; timer: state.timer is live
  strayTimers  : 0..MaxRuns,                    \* live timers nothing refers to
  adding       : 0..MaxRuns,                    \* addInstance awaiting loadAuthState
  reconnecting : 0..MaxRuns,                    \* reconnectFn awaiting loadAuthState
  lastClose    : {"none", "recoverable", "fatal"}] \* history

\* "ended": end() was called and the close update has yet to be delivered.
SocketState == [phase : {"free", "opening", "open", "ended"}, owner : Ids \union {NoSocket}]

Free == [phase |-> "free", owner |-> NoSocket]
Live(s) == sock[s].phase \in {"opening", "open"}
Owned(id) == {s \in Sockets : sock[s].owner = id}
Managed == {id \in Ids : inst[id].status # "absent"}

-----------------------------------------------------------------------------
\* ReconnectionService

\* isCircuitOpen closes a circuit whose cooldown has elapsed.
isCircuitOpen(w) ==
  IF w.circuit = "cooled" THEN [w EXCEPT !.circuit = "closed", !.attempts = 0] ELSE w

\* Mutant: the attempts are not limited.
scheduleReconnection_Unlimited(w0) ==
  LET w == isCircuitOpen(w0) IN
  IF w.circuit = "open" THEN w
  ELSE [w EXCEPT !.attempts = @ + 1,
                 !.strayTimers = IF w.timer THEN @ + 1 ELSE @,
                 !.timer = TRUE]

scheduleReconnection(w0) ==
  LET w == isCircuitOpen(w0) IN
  IF w.circuit = "open" THEN w
  ELSE IF w.attempts >= MaxAttempts THEN [w EXCEPT !.circuit = "open"]  \* openCircuit
  ELSE [w EXCEPT !.attempts = @ + 1,
                 !.strayTimers = IF w.timer THEN @ + 1 ELSE @,  \* overwritten, not cleared
                 !.timer = TRUE]

cancelReconnection(w) ==
  [w EXCEPT !.attempts = 0, !.circuit = "closed", !.timer = FALSE]

\* The timer, if any, is left running.
resetAttempts(w) == [w EXCEPT !.attempts = 0, !.circuit = "closed"]

-----------------------------------------------------------------------------
\* BaileysConnectionService and the pool's listeners, which run inside its emit()

updateInstanceStatus(w, status) ==
  IF w.status = "absent" THEN w ELSE [w EXCEPT !.status = status]

handleConnectionClosed(w, shouldReconnect) ==
  LET seen == [updateInstanceStatus(w, "DISCONNECTED")
                 EXCEPT !.lastClose = IF shouldReconnect THEN "recoverable" ELSE "fatal"]
  IN  IF shouldReconnect /\ w.status # "absent" THEN scheduleReconnection(seen) ELSE seen

handleConnectionOpen(w) == resetAttempts(updateInstanceStatus(w, "CONNECTED"))

\* Mutant: a close update leaves the Map alone.
closeUpdate_KeepsEntry(w, shouldReconnect) == handleConnectionClosed(w, shouldReconnect)

\* handleConnectionUpdate on 'close': whichever socket of the instance closed,
\* the Map's entry goes.
closeUpdate(w, shouldReconnect) ==
  handleConnectionClosed([w EXCEPT !.socket = NoSocket], shouldReconnect)

\* disconnect(): socket.end(undefined), then sockets.delete.  With "sync" the
\* socket emits its close update inside end(), with the default status code
\* connectionLost, which asks for a reconnection.
disconnect(w, mode) ==
  IF w.socket = NoSocket THEN w
  ELSE [(IF mode = "sync" THEN closeUpdate(w, TRUE) ELSE w) EXCEPT !.socket = NoSocket]

\* The sockets after disconnect() of that instance: "late" delivers the close
\* update in a step of its own, "quiet" never.
EndedAll(ended, mode) ==
  [s \in Sockets |->
     IF s \notin ended THEN sock[s]
     ELSE IF mode = "late" THEN [sock[s] EXCEPT !.phase = "ended"] ELSE Free]

Ended(w, mode) == EndedAll({w.socket}, mode)

\* connect(): an existing socket is disconnected first; s is the new one.
connect(w, s, mode) == [disconnect(w, mode) EXCEPT !.socket = s]

Connected(id, s, mode) ==
  [Ended(inst[id], mode) EXCEPT ![s] = [phase |-> "opening", owner |-> id]]

removed(w, mode) ==
  [disconnect(cancelReconnection(w), mode) EXCEPT !.status = "absent"]

-----------------------------------------------------------------------------
\* Actions

Unknown ==
  [status |-> "absent", socket |-> NoSocket, attempts |-> 0, circuit |-> "closed",
   timer |-> FALSE, strayTimers |-> 0, adding |-> 0, reconnecting |-> 0,
   lastClose |-> "none"]

Init ==
  /\ inst = [id \in Ids |-> Unknown]
  /\ sock = [s \in Sockets |-> Free]

Apply(id, w) == inst' = [inst EXCEPT ![id] = w]

\* Everything that can still call connect() for the instance, or be a socket of
\* it: a timer becomes a reconnectFn, that a socket, whose close a timer again.
\* Only addInstance starts a new run, so bounding it there bounds the model.
Runs(id) ==
  inst[id].adding + inst[id].reconnecting + inst[id].strayTimers
    + (IF inst[id].timer THEN 1 ELSE 0) + Cardinality(Owned(id))

\* Up to its first await: at capacity it throws, replacing or not.
addInstance(id) == \E mode \in EndModes :
  LET here == inst[id].status # "absent"
      w    == IF here THEN removed(inst[id], mode) ELSE inst[id]
  IN  /\ Cardinality(Managed) < MaxInstances
      /\ Runs(id) < MaxRuns
      /\ Apply(id, [w EXCEPT !.status = "CONNECTING", !.adding = @ + 1,
                             !.lastClose = "none"])
      /\ sock' = IF here THEN Ended(inst[id], mode) ELSE sock

\* loadAuthState answers addInstance.
addLoaded(id) == \E mode \in EndModes :
  LET w == [inst[id] EXCEPT !.adding = @ - 1] IN
  /\ inst[id].adding > 0
  /\ id \in Paired
  /\ \E s \in Sockets :
       /\ sock[s] = Free
       /\ Apply(id, connect(w, s, mode))
       /\ sock' = Connected(id, s, mode)

addLoadedNothing(id) ==
  /\ inst[id].adding > 0
  /\ id \notin Paired
  /\ Apply(id, updateInstanceStatus([inst[id] EXCEPT !.adding = @ - 1], "CONNECTING"))
  /\ UNCHANGED sock

\* The read or the decryption fails: addInstance rejects.
addLoadFails(id) ==
  /\ inst[id].adding > 0
  /\ Apply(id, [inst[id] EXCEPT !.adding = @ - 1])
  /\ UNCHANGED sock

removeInstance(id) == \E mode \in EndModes :
  /\ inst[id].status # "absent"
  /\ Apply(id, removed(inst[id], mode))
  /\ sock' = Ended(inst[id], mode)

\* A reconnection timer fires: the one state.timer refers to, or a stray one.
timerFires(id) ==
  /\ \/ /\ inst[id].timer
        /\ Apply(id, [inst[id] EXCEPT !.timer = FALSE, !.reconnecting = @ + 1])
     \/ /\ inst[id].strayTimers > 0
        /\ Apply(id, [inst[id] EXCEPT !.strayTimers = @ - 1, !.reconnecting = @ + 1])
  /\ UNCHANGED sock

\* Mutant: the status is left to the open event.
reconnectLoaded_KeepsStatus(id) == \E mode \in EndModes :
  LET w == [inst[id] EXCEPT !.reconnecting = @ - 1] IN
  /\ inst[id].reconnecting > 0
  /\ id \in Paired
  /\ \E s \in Sockets :
       /\ sock[s] = Free
       /\ Apply(id, connect(w, s, mode))
       /\ sock' = Connected(id, s, mode)

\* loadAuthState answers reconnectFn, which looks at the pool no more.
reconnectLoaded(id) == \E mode \in EndModes :
  LET w == updateInstanceStatus([inst[id] EXCEPT !.reconnecting = @ - 1], "CONNECTING") IN
  /\ inst[id].reconnecting > 0
  /\ id \in Paired
  /\ \E s \in Sockets :
       /\ sock[s] = Free
       /\ Apply(id, connect(w, s, mode))
       /\ sock' = Connected(id, s, mode)

\* Mutant: a failed attempt is not tried again.
reconnectLoadFails_GivesUp(id) ==
  /\ inst[id].reconnecting > 0
  /\ Apply(id, [inst[id] EXCEPT !.reconnecting = @ - 1])
  /\ UNCHANGED sock

\* reconnectFn rejects, and the timer's callback schedules the next attempt.
reconnectLoadFails(id) ==
  /\ inst[id].reconnecting > 0
  /\ Apply(id, scheduleReconnection([inst[id] EXCEPT !.reconnecting = @ - 1]))
  /\ UNCHANGED sock

cooldownElapses(id) ==
  /\ inst[id].circuit = "open"
  /\ Apply(id, [inst[id] EXCEPT !.circuit = "cooled"])
  /\ UNCHANGED sock

\* Updates of a live socket, whether or not the Map still holds it.
socketOpens(s) ==
  /\ sock[s].phase = "opening"
  /\ sock' = [sock EXCEPT ![s].phase = "open"]
  /\ Apply(sock[s].owner, handleConnectionOpen(inst[sock[s].owner]))

socketCloses(s) == \E shouldReconnect \in BOOLEAN :
  /\ Live(s)
  /\ sock' = [sock EXCEPT ![s] = Free]
  /\ Apply(sock[s].owner, closeUpdate(inst[sock[s].owner], shouldReconnect))

\* The close update of an ended socket arrives after all.
lateClose(s) ==
  /\ sock[s].phase = "ended"
  /\ sock' = [sock EXCEPT ![s] = Free]
  /\ Apply(sock[s].owner, closeUpdate(inst[sock[s].owner], TRUE))

\* Shutdown hook: every socket the Map holds is disconnected; timers live on.
onModuleDestroy == \E mode \in EndModes :
  /\ inst' = [id \in Ids |-> disconnect(inst[id], mode)]
  /\ sock' = EndedAll({inst[id].socket : id \in Ids}, mode)

\* The process exits or crashes and starts again: its Maps are empty.
Restart ==
  /\ inst' = [id \in Ids |-> Unknown]
  /\ sock' = [s \in Sockets |-> Free]

Next ==
  \/ \E id \in Ids :
       \/ addInstance(id) \/ addLoaded(id) \/ addLoadedNothing(id) \/ addLoadFails(id)
       \/ removeInstance(id)
       \/ timerFires(id) \/ reconnectLoaded(id) \/ reconnectLoadFails(id)
       \/ cooldownElapses(id)
  \/ \E s \in Sockets : socketOpens(s) \/ socketCloses(s) \/ lateClose(s)
  \/ onModuleDestroy
  \/ Restart

Spec == Init /\ [][Next]_vars

\* setTimeout fires, and the database answers.
Fairness == \A id \in Ids :
  /\ WF_vars(timerFires(id))
  /\ WF_vars(reconnectLoaded(id) \/ reconnectLoadFails(id))

FairSpec == Spec /\ Fairness
-----------------------------------------------------------------------------

TypeOK == inst \in [Ids -> Instance] /\ sock \in [Sockets -> SocketState]

\* The Map never holds a socket that was ended or has closed, nor another
\* instance's: what getSocket() returns can be written to, whatever order
\* connects, disconnects and stale close updates came in
\* (baileys-connection.service.ts:69, :84, :197).
MapHoldsLiveSockets ==
  \A id \in Ids : inst[id].socket # NoSocket =>
    Live(inst[id].socket) /\ sock[inst[id].socket].owner = id

\* A managed, paired instance that lost its connection for a reason worth a
\* reconnection is never forgotten: an attempt is under way or scheduled, or the
\* attempts are used up and the circuit is open.
Retrying(w) == w.timer \/ w.strayTimers > 0 \/ w.reconnecting > 0

Waiting(id) ==
  /\ id \in Paired
  /\ inst[id].status = "DISCONNECTED"
  /\ inst[id].lastClose = "recoverable"

DisconnectedIsRetried ==
  \A id \in Ids : Waiting(id) => Retrying(inst[id]) \/ inst[id].circuit # "closed"

\* Such an instance does get its next attempt, unless the circuit opens.
DisconnectedLeaves ==
  \A id \in Ids : Waiting(id) ~> (~Waiting(id) \/ inst[id].circuit # "closed")
=============================================================================
