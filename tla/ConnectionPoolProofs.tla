------------------------ MODULE ConnectionPoolProofs ------------------------
(***************************************************************************)
(* Safety of the connection pool for any instances, sockets, limits and    *)
(* ways a socket may end.  The handlers are functions of one instance's    *)
(* record, so each has a lemma of its own: what it does to the socket, to  *)
(* the number of runs, and that it forgets no instance that is to be       *)
(* retried.  The actions then only put the instance and its sockets        *)
(* together.                                                               *)
(***************************************************************************)
EXTENDS ConnectionPool, FiniteSetTheorems, TLAPS

\* The record's type without the bounds, which RunsBounded gives.
Record == [
  status : Status, socket : Sockets \union {NoSocket}, attempts : 0..MaxAttempts,
  circuit : {"closed", "open", "cooled"}, timer : BOOLEAN, strayTimers : Nat,
  adding : Nat, reconnecting : Nat, lastClose : {"none", "recoverable", "fatal"}]

\* What may still call connect() for the instance.
Pending(w) == w.adding + w.reconnecting + w.strayTimers + (IF w.timer THEN 1 ELSE 0)

\* The instance is not forgotten.
Remembered(w) ==
  w.status = "DISCONNECTED" /\ w.lastClose = "recoverable" =>
    Retrying(w) \/ w.circuit # "closed"

Types ==
  /\ inst \in [Ids -> Record]
  /\ sock \in [Sockets -> SocketState]
  /\ \A s \in Sockets : sock[s].phase # "free" => sock[s].owner \in Ids

RunsBounded == \A id \in Ids : Runs(id) <= MaxRuns

AllRemembered == \A id \in Ids : Remembered(inst[id])

IInv == Types /\ RunsBounded /\ MapHoldsLiveSockets /\ AllRemembered

-----------------------------------------------------------------------------
(* The handlers, as functions of the instance's record *)

\* A reconnection asked for is scheduled, or the circuit is open.
LEMMA ScheduleFacts ==
  ASSUME NEW w \in Record
  PROVE  LET v == scheduleReconnection(w) IN
         /\ v \in Record
         /\ v.socket = w.socket /\ v.status = w.status /\ v.lastClose = w.lastClose
         /\ v.adding = w.adding
         /\ Pending(v) <= Pending(w) + 1
         /\ Retrying(v) \/ v.circuit # "closed"
<1> DEFINE u == isCircuitOpen(w)
<1>1. /\ u \in Record
      /\ u.socket = w.socket /\ u.status = w.status /\ u.lastClose = w.lastClose
      /\ u.adding = w.adding /\ u.reconnecting = w.reconnecting
      /\ u.strayTimers = w.strayTimers /\ u.timer = w.timer
  <2>1. CASE w.circuit = "cooled"
    <3>1. u = [w EXCEPT !.circuit = "closed", !.attempts = 0]
      BY <2>1 DEF isCircuitOpen
    <3>2. 0 \in 0..MaxAttempts
      BY AttemptsAssumption
    <3> HIDE DEF u
    <3> QED
      BY <3>1, <3>2 DEF Record
  <2>2. CASE w.circuit # "cooled"
    BY <2>2 DEF isCircuitOpen
  <2> QED
    BY <2>1, <2>2
<1>2. scheduleReconnection(w) =
        IF u.circuit = "open" THEN u
        ELSE IF u.attempts >= MaxAttempts THEN [u EXCEPT !.circuit = "open"]
        ELSE [u EXCEPT !.attempts = @ + 1,
                       !.strayTimers = IF u.timer THEN @ + 1 ELSE @,
                       !.timer = TRUE]
  BY DEF scheduleReconnection
<1> HIDE DEF u
<1>3. CASE u.circuit = "open"
  BY <1>1, <1>2, <1>3 DEF Pending, Record
<1>4. CASE u.circuit # "open" /\ u.attempts >= MaxAttempts
  BY <1>1, <1>2, <1>4 DEF Pending, Record
<1>5. CASE u.circuit # "open" /\ ~(u.attempts >= MaxAttempts)
  <2> DEFINE v == scheduleReconnection(w)
  <2>1. v = [u EXCEPT !.attempts = @ + 1,
                      !.strayTimers = IF u.timer THEN @ + 1 ELSE @,
                      !.timer = TRUE]
    BY <1>2, <1>5
  <2> DEFINE stray == IF u.timer THEN u.strayTimers + 1 ELSE u.strayTimers
  <2>2. u.attempts + 1 \in 0..MaxAttempts /\ stray \in Nat
    BY <1>1, <1>5, AttemptsAssumption DEF Record
  <2>3. v = [u EXCEPT !.attempts = u.attempts + 1, !.strayTimers = stray, !.timer = TRUE]
    BY <2>1
  <2> HIDE DEF v, stray
  <2>4. v \in Record
    BY <1>1, <2>3, <2>2 DEF Record
  <2>5. /\ v.socket = u.socket /\ v.status = u.status /\ v.lastClose = u.lastClose
        /\ v.adding = u.adding /\ v.reconnecting = u.reconnecting
        /\ v.strayTimers = stray /\ v.timer
    BY <1>1, <2>3 DEF Record
  <2>6. Pending(v) <= Pending(w) + 1
    BY <1>1, <2>5 DEF Pending, Record, stray
  <2> QED
    BY <1>1, <2>4, <2>5, <2>6 DEF v, Retrying
<1> QED
  BY <1>3, <1>4, <1>5


\* A close update takes the socket out of the Map, and a recoverable one leaves
\* a managed instance retried.
LEMMA CloseFacts ==
  ASSUME NEW w \in Record, NEW shouldReconnect \in BOOLEAN
  PROVE  LET v == closeUpdate(w, shouldReconnect) IN
         /\ v \in Record /\ v.socket = NoSocket /\ v.adding = w.adding
         /\ v.status = "absent" <=> w.status = "absent"
         /\ Pending(v) <= Pending(w) + 1
         /\ Remembered(v)
<1> DEFINE u == [w EXCEPT !.socket = NoSocket]
           seen == [updateInstanceStatus(u, "DISCONNECTED")
                      EXCEPT !.lastClose = IF shouldReconnect THEN "recoverable" ELSE "fatal"]
           v == closeUpdate(w, shouldReconnect)
<1>1. v = IF shouldReconnect /\ w.status # "absent" THEN scheduleReconnection(seen) ELSE seen
  BY DEF closeUpdate, handleConnectionClosed, Record
<1>2. /\ u \in Record /\ u.socket = NoSocket /\ u.status = w.status /\ u.adding = w.adding
      /\ Pending(u) = Pending(w)
  BY DEF Record, Pending
<1>3. /\ seen \in Record /\ seen.socket = NoSocket /\ seen.adding = w.adding
      /\ seen.status = (IF w.status = "absent" THEN "absent" ELSE "DISCONNECTED")
      /\ seen.lastClose = (IF shouldReconnect THEN "recoverable" ELSE "fatal")
      /\ Pending(seen) = Pending(w)
  <2> HIDE DEF u
  <2>1. CASE w.status = "absent"
    BY <1>2, <2>1 DEF updateInstanceStatus, Record, Pending
  <2>2. CASE w.status # "absent"
    BY <1>2, <2>2 DEF updateInstanceStatus, Record, Pending, Status
  <2> QED
    BY <2>1, <2>2
<1> HIDE DEF u, seen, v
<1>4. Pending(w) \in Nat
  BY DEF Pending, Record
<1>5. CASE shouldReconnect /\ w.status # "absent"
  BY <1>1, <1>3, <1>4, <1>5, ScheduleFacts DEF v, Remembered
<1>6. CASE ~(shouldReconnect /\ w.status # "absent")
  BY <1>1, <1>3, <1>4, <1>6 DEF v, Remembered
<1> QED
  BY <1>5, <1>6

\* disconnect() takes the socket out of the Map; a socket that closes at once may
\* start one run, in place of its own.
LEMMA DisconnectFacts ==
  ASSUME NEW w \in Record, NEW mode \in EndModes
  PROVE  LET v == disconnect(w, mode) IN
         /\ v \in Record /\ v.socket = NoSocket /\ v.adding = w.adding
         /\ v.status = "absent" <=> w.status = "absent"
         /\ Pending(v) <= Pending(w) + (IF mode = "sync" /\ w.socket # NoSocket THEN 1 ELSE 0)
         /\ Remembered(w) => Remembered(v)
<1> DEFINE v == disconnect(w, mode)
<1>1. CASE w.socket = NoSocket
  BY <1>1 DEF disconnect, Pending, Record
<1>2. CASE w.socket # NoSocket /\ mode = "sync"
  <2> DEFINE u == closeUpdate(w, TRUE)
  <2>1. /\ u \in Record /\ u.socket = NoSocket /\ u.adding = w.adding
        /\ u.status = "absent" <=> w.status = "absent"
        /\ Pending(u) <= Pending(w) + 1
        /\ Remembered(u)
    BY CloseFacts
  <2>2. v = [u EXCEPT !.socket = NoSocket]
    BY <1>2 DEF disconnect
  <2> HIDE DEF u
  <2>3. v = u
    BY <2>1, <2>2 DEF Record
  <2> QED
    BY <1>2, <2>1, <2>3
<1>3. CASE w.socket # NoSocket /\ mode # "sync"
  <2>1. v = [w EXCEPT !.socket = NoSocket]
    BY <1>3 DEF disconnect
  <2> HIDE DEF v
  <2>2. /\ v \in Record /\ v.socket = NoSocket /\ v.adding = w.adding /\ v.status = w.status
        /\ v.lastClose = w.lastClose /\ v.timer = w.timer /\ v.strayTimers = w.strayTimers
        /\ v.reconnecting = w.reconnecting /\ v.circuit = w.circuit
    BY <2>1 DEF Record
  <2>3. Pending(v) = Pending(w) /\ Pending(w) \in Nat
    BY <2>2 DEF Pending, Record
  <2> QED
    BY <1>3, <2>2, <2>3 DEF v, Remembered, Retrying
<1> QED
  BY <1>1, <1>2, <1>3

\* The same of a removal, which leaves nothing to be remembered.
LEMMA RemovedFacts ==
  ASSUME NEW w \in Record, NEW mode \in EndModes
  PROVE  LET v == removed(w, mode) IN
         /\ v \in Record /\ v.socket = NoSocket /\ v.adding = w.adding
         /\ v.status = "absent"
         /\ Pending(v) <= Pending(w) + (IF mode = "sync" /\ w.socket # NoSocket THEN 1 ELSE 0)
         /\ Remembered(v)
<1> DEFINE u == cancelReconnection(w)
           d == disconnect(u, mode)
           v == removed(w, mode)
<1>1. u = [w EXCEPT !.attempts = 0, !.circuit = "closed", !.timer = FALSE]
  BY DEF cancelReconnection
<1>2. 0 \in 0..MaxAttempts
  BY AttemptsAssumption
<1> HIDE DEF u
<1>3. /\ u \in Record /\ u.socket = w.socket /\ u.adding = w.adding /\ u.status = w.status
      /\ u.lastClose = w.lastClose
  BY <1>1, <1>2 DEF Record
<1>4. Pending(u) <= Pending(w) /\ Pending(u) \in Nat /\ Pending(w) \in Nat
  BY <1>1 DEF Pending, Record
<1>5. /\ d \in Record /\ d.socket = NoSocket /\ d.adding = w.adding
      /\ Pending(d) <= Pending(u) + (IF mode = "sync" /\ w.socket # NoSocket THEN 1 ELSE 0)
  BY <1>3, DisconnectFacts
<1>6. v = [d EXCEPT !.status = "absent"]
  BY DEF removed, u
<1> HIDE DEF d, v
<1>7. /\ v \in Record /\ v.socket = NoSocket /\ v.adding = w.adding /\ v.status = "absent"
      /\ Pending(v) = Pending(d) /\ Pending(d) \in Nat
  BY <1>5, <1>6 DEF Record, Pending, Status
<1> QED
  BY <1>4, <1>5, <1>7 DEF v, Remembered

-----------------------------------------------------------------------------
(* The actions *)

\* Runs counts what is pending and the sockets; both are numbers.
LEMMA OwnedFacts ==
  ASSUME Types, NEW id \in Ids
  PROVE  /\ IsFiniteSet(Owned(id)) /\ Cardinality(Owned(id)) \in Nat
         /\ Runs(id) = Pending(inst[id]) + Cardinality(Owned(id))
         /\ Pending(inst[id]) \in Nat
<1>1. IsFiniteSet(Owned(id))
  BY SocketsAssumption, FS_Subset DEF Owned
<1>2. Cardinality(Owned(id)) \in Nat
  BY <1>1, FS_CardinalityType
<1>3. inst[id] \in Record
  BY DEF Types
<1> QED
  BY <1>1, <1>2, <1>3 DEF Runs, Pending, Record

\* An action that puts w for the instance's record and leaves the others' live
\* sockets alone keeps the invariant, if w and its sockets do.
LEMMA PutStep ==
  ASSUME IInv, NEW id \in Ids, NEW w \in Record, Remembered(w), Apply(id, w),
         sock' \in [Sockets -> SocketState],
         \A s \in Sockets : sock'[s].phase # "free" => sock'[s].owner \in Ids,
         \A s \in Sockets : sock'[s].owner \in {sock[s].owner, id, NoSocket},
         \A s \in Sockets : Live(s) /\ sock[s].owner # id => sock'[s] = sock[s],
         w.socket # NoSocket =>
           sock'[w.socket].phase \in {"opening", "open"} /\ sock'[w.socket].owner = id,
         Pending(w) + Cardinality(Owned(id)') <= MaxRuns
  PROVE  IInv'
<1>1. inst' = [inst EXCEPT ![id] = w] /\ inst \in [Ids -> Record]
  BY DEF Apply, IInv, Types
<1>2. inst'[id] = w /\ \A o \in Ids \ {id} : inst'[o] = inst[o]
  BY <1>1
<1>3. Types'
  BY <1>1 DEF Types
<1>4. AllRemembered'
  BY <1>2 DEF IInv, AllRemembered
<1>5. MapHoldsLiveSockets'
  <2>1. ASSUME NEW o \in Ids, inst'[o].socket # NoSocket
        PROVE  /\ sock'[inst'[o].socket].phase \in {"opening", "open"}
               /\ sock'[inst'[o].socket].owner = o
    <3>1. CASE o = id
      BY <1>2, <2>1, <3>1
    <3>2. CASE o # id
      <4>1. inst'[o] = inst[o] /\ inst[o].socket \in Sockets
        BY <1>1, <1>2, <2>1, <3>2 DEF Record
      <4>2. Live(inst[o].socket) /\ sock[inst[o].socket].owner = o
        BY <2>1, <4>1 DEF IInv, MapHoldsLiveSockets
      <4> QED
        BY <3>2, <4>1, <4>2 DEF Live
    <3> QED
      BY <3>1, <3>2
  <2> QED
    BY <2>1 DEF MapHoldsLiveSockets, Live
<1>6. RunsBounded'
  <2>1. ASSUME NEW o \in Ids PROVE Runs(o)' <= MaxRuns
    <3>1. Runs(o)' = Pending(inst'[o]) + Cardinality(Owned(o)')
      <4>1. IsFiniteSet(Owned(o)')
        BY SocketsAssumption, FS_Subset DEF Owned
      <4>2. Cardinality(Owned(o)') \in Nat /\ inst'[o] \in Record
        BY <1>3, <4>1, FS_CardinalityType DEF Types
      <4> QED
        BY <4>2 DEF Runs, Pending, Record
    <3>2. CASE o = id
      BY <1>2, <3>1, <3>2
    <3>3. CASE o # id
      <4>1. Owned(o)' \subseteq Owned(o)
        BY <3>3, SocketsAssumption DEF Owned
      <4>2. Cardinality(Owned(o)') <= Cardinality(Owned(o)) /\ Cardinality(Owned(o)') \in Nat
        BY <4>1, OwnedFacts, FS_Subset, FS_CardinalityType DEF IInv
      <4>3. Runs(o) <= MaxRuns
        BY DEF IInv, RunsBounded
      <4> QED
        BY <1>2, <3>1, <3>3, <4>2, <4>3, OwnedFacts, AttemptsAssumption DEF IInv
    <3> QED
      BY <3>2, <3>3
  <2> QED
    BY <2>1 DEF RunsBounded
<1> QED
  BY <1>3, <1>4, <1>5, <1>6 DEF IInv

\* What end() does to the socket the Map holds: no other one changes, and with
\* "sync" the instance has one socket less, if it had one in the Map.
LEMMA EndedFacts ==
  ASSUME IInv, NEW id \in Ids, NEW mode \in EndModes
  PROVE  LET e == Ended(inst[id], mode)
             left == {s \in Sockets : e[s].owner = id} IN
         /\ e \in [Sockets -> SocketState]
         /\ \A s \in Sockets : e[s].phase # "free" => e[s].owner \in Ids
         /\ \A s \in Sockets : e[s].owner \in {sock[s].owner, NoSocket}
         /\ \A s \in Sockets : sock[s].owner # id => e[s] = sock[s]
         /\ left \subseteq Owned(id) /\ IsFiniteSet(left) /\ Cardinality(left) \in Nat
         /\ Cardinality(left) + (IF mode = "sync" /\ inst[id].socket # NoSocket THEN 1 ELSE 0)
              <= Cardinality(Owned(id))
<1> DEFINE held == inst[id].socket
           e == Ended(inst[id], mode)
           left == {s \in Sockets : e[s].owner = id}
<1>1. /\ sock \in [Sockets -> SocketState]
      /\ held \in Sockets => sock[held].owner = id
      /\ held = NoSocket \/ held \in Sockets
      /\ \A s \in Sockets : sock[s].phase # "free" => sock[s].owner \in Ids
  BY SocketsAssumption DEF IInv, Types, Record, MapHoldsLiveSockets
<1>2. e = [s \in Sockets |->
             IF s # held THEN sock[s]
             ELSE IF mode = "late" THEN [sock[s] EXCEPT !.phase = "ended"] ELSE Free]
  BY DEF Ended, EndedAll
<1> HIDE DEF e, held
<1>3. ASSUME NEW s \in Sockets
      PROVE  /\ e[s] \in SocketState
             /\ e[s].phase # "free" => e[s].owner \in Ids
             /\ e[s].owner \in {sock[s].owner, NoSocket}
             /\ sock[s].owner # id => e[s] = sock[s]
             /\ s = held /\ mode # "late" => e[s].owner = NoSocket
  <2>1. CASE s # held
    BY <1>1, <1>2, <2>1
  <2>2. CASE s = held /\ mode = "late"
    <3>1. e[s] = [sock[s] EXCEPT !.phase = "ended"] /\ sock[s] \in SocketState
      BY <1>1, <1>2, <2>2
    <3>2. e[s] \in SocketState /\ e[s].owner = sock[s].owner
      BY <3>1 DEF SocketState
    <3> QED
      BY <1>1, <2>2, <3>2
  <2>3. CASE s = held /\ mode # "late"
    BY <1>1, <1>2, <2>3 DEF Free, SocketState
  <2> QED
    BY <2>1, <2>2, <2>3
<1>4. left \subseteq Owned(id) /\ id # NoSocket
  BY <1>3, SocketsAssumption DEF Owned
<1>5. IsFiniteSet(left) /\ Cardinality(left) \in Nat /\ Cardinality(left) <= Cardinality(Owned(id))
  BY <1>4, OwnedFacts, FS_Subset, FS_CardinalityType DEF IInv
<1>6. Cardinality(left) + (IF mode = "sync" /\ held # NoSocket THEN 1 ELSE 0)
        <= Cardinality(Owned(id))
  <2>1. CASE mode = "sync" /\ held # NoSocket
    <3>1. left \subseteq Owned(id) \ {held} /\ held \in Owned(id)
      BY <1>1, <1>3, <1>4, <2>1 DEF Owned
    <3>2. /\ Cardinality(Owned(id) \ {held}) = Cardinality(Owned(id)) - 1
          /\ IsFiniteSet(Owned(id) \ {held})
      BY <3>1, OwnedFacts, FS_RemoveElement DEF IInv
    <3>3. Cardinality(left) <= Cardinality(Owned(id) \ {held})
      BY <3>1, <3>2, FS_Subset
    <3> HIDE DEF left
    <3> QED
      BY <1>5, <2>1, <3>2, <3>3, OwnedFacts DEF IInv
  <2>2. CASE ~(mode = "sync" /\ held # NoSocket)
    <3> HIDE DEF left
    <3> QED
      BY <1>5, <2>2, OwnedFacts DEF IInv
  <2> QED
    BY <2>1, <2>2
<1>7. e \in [Sockets -> SocketState]
  BY <1>2, <1>3
<1> HIDE DEF left
<1> QED
  BY <1>3, <1>4, <1>5, <1>6, <1>7 DEF left, e, held

\* A step of one instance that leaves all sockets as they are.
LEMMA RecordStep ==
  ASSUME IInv, NEW id \in Ids, NEW w \in Record, Remembered(w), Apply(id, w), UNCHANGED sock,
         w.socket = inst[id].socket, Pending(w) <= Pending(inst[id])
  PROVE  IInv'
<1>1. Owned(id)' = Owned(id)
  BY DEF Owned
<1>2. Pending(w) + Cardinality(Owned(id)') <= MaxRuns
  <2>1. Runs(id) <= MaxRuns /\ Pending(w) \in Nat
    BY DEF IInv, RunsBounded, Pending, Record
  <2> QED
    BY <1>1, <2>1, OwnedFacts, AttemptsAssumption DEF IInv
<1>3. w.socket # NoSocket => Live(w.socket) /\ sock[w.socket].owner = id
  BY DEF IInv, MapHoldsLiveSockets
<1> QED
  BY <1>2, <1>3, PutStep DEF Live, IInv, Types

\* A step that ends the socket the Map holds, if any, and puts a record without one.
LEMMA EndStep ==
  ASSUME IInv, NEW id \in Ids, NEW mode \in EndModes, NEW w \in Record, Remembered(w),
         w.socket = NoSocket, Apply(id, w), sock' = Ended(inst[id], mode),
         Pending(w) + Cardinality(Owned(id))
           <= MaxRuns + (IF mode = "sync" /\ inst[id].socket # NoSocket THEN 1 ELSE 0)
  PROVE  IInv'
<1> DEFINE left == {s \in Sockets : Ended(inst[id], mode)[s].owner = id}
<1>1. Owned(id)' = left
  BY DEF Owned
<1> HIDE DEF left
<1>2. /\ Cardinality(left) \in Nat
      /\ Cardinality(left) + (IF mode = "sync" /\ inst[id].socket # NoSocket THEN 1 ELSE 0)
           <= Cardinality(Owned(id))
  BY EndedFacts DEF left
<1>3. Pending(w) + Cardinality(Owned(id)') <= MaxRuns
  BY <1>1, <1>2, OwnedFacts, AttemptsAssumption DEF IInv, Pending, Record
<1>4. /\ sock' \in [Sockets -> SocketState]
      /\ \A s \in Sockets : sock'[s].phase # "free" => sock'[s].owner \in Ids
      /\ \A s \in Sockets : sock'[s].owner \in {sock[s].owner, NoSocket}
      /\ \A s \in Sockets : sock[s].owner # id => sock'[s] = sock[s]
  BY EndedFacts
<1> QED
  BY <1>3, <1>4, PutStep

\* connect() in place of a run: the socket it makes stands for the answer.
LEMMA ConnectStep ==
  ASSUME IInv, NEW id \in Ids, NEW mode \in EndModes, NEW s \in Sockets, sock[s] = Free,
         NEW w \in Record, Remembered(w), w.socket = inst[id].socket,
         Pending(w) + 1 <= Pending(inst[id]),
         Apply(id, connect(w, s, mode)), sock' = Connected(id, s, mode)
  PROVE  IInv'
<1> DEFINE d == disconnect(w, mode)
           v == connect(w, s, mode)
           e == Ended(inst[id], mode)
           left == {t \in Sockets : e[t].owner = id}
           extra == IF mode = "sync" /\ inst[id].socket # NoSocket THEN 1 ELSE 0
<1>1. /\ d \in Record /\ Remembered(d) /\ Pending(d) <= Pending(w) + extra
  BY DisconnectFacts
<1>2. v = [d EXCEPT !.socket = s]
  BY DEF connect
<1>3. /\ e \in [Sockets -> SocketState]
      /\ \A t \in Sockets : e[t].phase # "free" => e[t].owner \in Ids
      /\ \A t \in Sockets : e[t].owner \in {sock[t].owner, NoSocket}
      /\ \A t \in Sockets : sock[t].owner # id => e[t] = sock[t]
      /\ left \subseteq Owned(id) /\ IsFiniteSet(left) /\ Cardinality(left) \in Nat
      /\ Cardinality(left) + extra <= Cardinality(Owned(id))
  BY EndedFacts
<1>4. sock' = [e EXCEPT ![s] = [phase |-> "opening", owner |-> id]]
  BY DEF Connected
<1> HIDE DEF d, v, e
<1>5. /\ v \in Record /\ v.socket = s /\ Pending(v) = Pending(d) /\ Remembered(v)
      /\ Pending(d) \in Nat
  BY <1>1, <1>2 DEF Record, Pending, Remembered, Retrying
<1>6. [phase |-> "opening", owner |-> id] \in SocketState
  BY DEF SocketState
<1>7. sock' \in [Sockets -> SocketState] /\ sock'[s] = [phase |-> "opening", owner |-> id]
  BY <1>3, <1>4, <1>6
<1>8. \A t \in Sockets \ {s} : sock'[t] = e[t]
  BY <1>3, <1>4
<1>9. sock[s].owner = NoSocket /\ sock[s].phase = "free" /\ id # NoSocket /\ s # NoSocket
  BY SocketsAssumption DEF Free
<1>10. /\ \A t \in Sockets : sock'[t].phase # "free" => sock'[t].owner \in Ids
       /\ \A t \in Sockets : sock'[t].owner \in {sock[t].owner, id, NoSocket}
       /\ \A t \in Sockets : Live(t) /\ sock[t].owner # id => sock'[t] = sock[t]
  BY <1>3, <1>7, <1>8, <1>9 DEF Live
<1>11. Cardinality(Owned(id)') <= Cardinality(left) + 1 /\ Cardinality(Owned(id)') \in Nat
  <2>1. Owned(id)' \subseteq left \union {s}
    BY <1>8 DEF Owned
  <2>2. IsFiniteSet(left \union {s}) /\ Cardinality(left \union {s}) <= Cardinality(left) + 1
    <3>1. IsFiniteSet(left) /\ Cardinality(left) \in Nat
      BY <1>3
    <3> HIDE DEF left
    <3>2. Cardinality(left \union {s}) \in {Cardinality(left), Cardinality(left) + 1}
      BY <3>1, FS_AddElement
    <3> QED
      BY <3>1, <3>2, FS_AddElement
  <2> HIDE DEF left
  <2> QED
    BY <1>3, <2>1, <2>2, FS_Subset, FS_CardinalityType
<1>12. Pending(v) + Cardinality(Owned(id)') <= MaxRuns
  <2>1. Runs(id) <= MaxRuns /\ Pending(w) \in Nat
    BY DEF IInv, RunsBounded, Pending, Record
  <2> HIDE DEF left
  <2> QED
    BY <1>1, <1>3, <1>5, <1>11, <2>1, OwnedFacts, AttemptsAssumption DEF IInv
<1>13. Apply(id, v)
  BY DEF v
<1> QED
  BY <1>5, <1>7, <1>9, <1>10, <1>12, <1>13, PutStep

LEMMA InitIInv == Init => IInv
<1> SUFFICES ASSUME Init PROVE IInv
  OBVIOUS
<1>1. Unknown \in Record /\ Unknown.socket = NoSocket /\ Pending(Unknown) = 0
  BY AttemptsAssumption DEF Unknown, Record, Status, Pending
<1>2. Types
  BY <1>1 DEF Init, Types, Free, SocketState
<1>3. \A id \in Ids : Owned(id) = {}
  BY SocketsAssumption DEF Init, Owned, Free
<1>4. \A id \in Ids : Runs(id) = 0
  BY <1>1, <1>2, <1>3, OwnedFacts, FS_EmptySet DEF Init
<1>5. RunsBounded /\ MapHoldsLiveSockets /\ AllRemembered
  BY <1>1, <1>4, AttemptsAssumption
     DEF Init, RunsBounded, MapHoldsLiveSockets, AllRemembered, Remembered, Unknown
<1> QED
  BY <1>2, <1>5 DEF IInv

\* addInstance: what it removes makes room for what it starts, if anything.
LEMMA AddStep == ASSUME IInv, NEW id \in Ids, addInstance(id) PROVE IInv'
<1>1. PICK mode \in EndModes :
        LET here == inst[id].status # "absent"
            w    == IF here THEN removed(inst[id], mode) ELSE inst[id]
        IN  /\ Runs(id) < MaxRuns
            /\ Apply(id, [w EXCEPT !.status = "CONNECTING", !.adding = @ + 1,
                                   !.lastClose = "none"])
            /\ sock' = IF here THEN Ended(inst[id], mode) ELSE sock
  BY DEF addInstance
<1> DEFINE here == inst[id].status # "absent"
           w == IF here THEN removed(inst[id], mode) ELSE inst[id]
           v == [w EXCEPT !.status = "CONNECTING", !.adding = @ + 1, !.lastClose = "none"]
           extra == IF mode = "sync" /\ inst[id].socket # NoSocket THEN 1 ELSE 0
<1>2. inst[id] \in Record /\ Pending(inst[id]) \in Nat
  BY OwnedFacts DEF IInv, Types
<1>3. w \in Record /\ Pending(w) <= Pending(inst[id]) + extra
  BY <1>2, RemovedFacts
<1>4. here => w.socket = NoSocket
  BY <1>2, RemovedFacts
<1>5. ~here => w = inst[id]
  OBVIOUS
<1>6. Apply(id, v) /\ Runs(id) < MaxRuns /\ sock' = IF here THEN Ended(inst[id], mode) ELSE sock
  BY <1>1
<1> HIDE DEF w
<1>7. w.adding + 1 \in Nat /\ v = [w EXCEPT !.status = "CONNECTING", !.adding = w.adding + 1,
                                           !.lastClose = "none"]
  BY <1>3 DEF Record
<1> HIDE DEF v
<1>8. /\ v \in Record /\ v.socket = w.socket /\ v.status = "CONNECTING"
       /\ v.adding = w.adding + 1 /\ v.reconnecting = w.reconnecting
       /\ v.strayTimers = w.strayTimers /\ v.timer = w.timer
  BY <1>3, <1>7 DEF Record, Status
<1>9. Pending(v) = Pending(w) + 1 /\ Pending(w) \in Nat
  BY <1>3, <1>8 DEF Record, Pending
<1>10. Remembered(v)
  BY <1>8 DEF Remembered
<1>11. CASE here
  <2>1. Pending(v) + Cardinality(Owned(id)) <= MaxRuns + extra
    BY <1>2, <1>3, <1>6, <1>9, <1>8, OwnedFacts, AttemptsAssumption DEF IInv
  <2> QED
    BY <1>4, <1>6, <1>9, <1>8, <1>10, <1>11, <2>1, EndStep
<1>12. CASE ~here
  <2>1. Owned(id)' = Owned(id)
    BY <1>6, <1>12 DEF Owned
  <2>2. Pending(v) + Cardinality(Owned(id)') <= MaxRuns
    BY <1>2, <1>5, <1>6, <1>9, <1>8, <1>12, <2>1, OwnedFacts, AttemptsAssumption DEF IInv
  <2>3. v.socket # NoSocket => Live(v.socket) /\ sock[v.socket].owner = id
    BY <1>5, <1>9, <1>8, <1>12 DEF IInv, MapHoldsLiveSockets
  <2> QED
    BY <1>6, <1>9, <1>8, <1>10, <1>12, <2>2, <2>3, PutStep DEF Live, IInv, Types
<1> QED
  BY <1>11, <1>12

\* The answers of loadAuthState.
LEMMA LoadStep ==
  ASSUME IInv, NEW id \in Ids,
         addLoaded(id) \/ addLoadedNothing(id) \/ addLoadFails(id)
           \/ reconnectLoaded(id) \/ reconnectLoadFails(id)
  PROVE  IInv'
<1> DEFINE w == inst[id]
<1>1. w \in Record /\ Remembered(w)
  BY DEF IInv, Types, AllRemembered
<1> DEFINE a == [w EXCEPT !.adding = @ - 1]
           r == [w EXCEPT !.reconnecting = @ - 1]
<1>2. ASSUME w.adding > 0
      PROVE  /\ a \in Record /\ a.socket = w.socket
             /\ Pending(a) + 1 = Pending(w) /\ Pending(a) \in Nat /\ Remembered(a)
  <2> HIDE DEF w
  <2>1. w.adding - 1 \in Nat
    BY <1>1, <1>2 DEF Record
  <2> QED
    BY <1>1, <1>2, <2>1 DEF Record, Pending, Remembered, Retrying
<1>3. ASSUME w.reconnecting > 0
      PROVE  /\ r \in Record /\ r.socket = w.socket
             /\ Pending(r) + 1 = Pending(w) /\ Pending(r) \in Nat
  <2> HIDE DEF w
  <2>1. w.reconnecting - 1 \in Nat
    BY <1>1, <1>3 DEF Record
  <2> QED
    BY <1>1, <1>3, <2>1 DEF Record, Pending
<1>4. ASSUME NEW v \in Record
      PROVE  LET u == updateInstanceStatus(v, "CONNECTING") IN
             /\ u \in Record /\ u.socket = v.socket /\ Pending(u) = Pending(v)
             /\ Remembered(u)
  <2>1. CASE v.status = "absent"
    BY <2>1 DEF updateInstanceStatus, Remembered
  <2>2. CASE v.status # "absent"
    BY <2>2 DEF updateInstanceStatus, Remembered, Record, Status, Pending
  <2> QED
    BY <2>1, <2>2
<1>5. CASE addLoaded(id)
  <2>1. w.adding > 0
    BY <1>5 DEF addLoaded
  <2>2. PICK mode \in EndModes, s \in Sockets :
          sock[s] = Free /\ Apply(id, connect(a, s, mode)) /\ sock' = Connected(id, s, mode)
    BY <1>5 DEF addLoaded
  <2>3. a \in Record /\ a.socket = inst[id].socket /\ Remembered(a)
        /\ Pending(a) + 1 <= Pending(inst[id])
    BY <1>2, <2>1
  <2> HIDE DEF a
  <2> QED
    BY <2>2, <2>3, ConnectStep
<1>6. CASE addLoadedNothing(id)
  <2> DEFINE u == updateInstanceStatus(a, "CONNECTING")
  <2>1. w.adding > 0 /\ Apply(id, u) /\ UNCHANGED sock
    BY <1>6 DEF addLoadedNothing
  <2>2. a \in Record /\ a.socket = inst[id].socket /\ Pending(a) <= Pending(inst[id])
    BY <1>2, <2>1
  <2> HIDE DEF a
  <2>3. u \in Record /\ u.socket = a.socket /\ Pending(u) = Pending(a) /\ Remembered(u)
    BY <1>4, <2>2
  <2> HIDE DEF u
  <2> QED
    BY <2>1, <2>2, <2>3, RecordStep
<1>7. CASE addLoadFails(id)
  <2>1. w.adding > 0 /\ Apply(id, a) /\ UNCHANGED sock
    BY <1>7 DEF addLoadFails
  <2>2. /\ a \in Record /\ a.socket = inst[id].socket /\ Remembered(a)
        /\ Pending(a) <= Pending(inst[id])
    BY <1>2, <2>1
  <2> HIDE DEF a
  <2> QED
    BY <2>1, <2>2, RecordStep
<1>8. CASE reconnectLoaded(id)
  <2> DEFINE u == updateInstanceStatus(r, "CONNECTING")
  <2>1. w.reconnecting > 0
    BY <1>8 DEF reconnectLoaded
  <2>2. PICK mode \in EndModes, s \in Sockets :
          sock[s] = Free /\ Apply(id, connect(u, s, mode)) /\ sock' = Connected(id, s, mode)
    BY <1>8 DEF reconnectLoaded
  <2>3. r \in Record /\ r.socket = inst[id].socket /\ Pending(r) + 1 <= Pending(inst[id])
    BY <1>3, <2>1
  <2> HIDE DEF r
  <2>4. u \in Record /\ u.socket = r.socket /\ Pending(u) = Pending(r) /\ Remembered(u)
    BY <1>4, <2>3
  <2> HIDE DEF u
  <2> QED
    BY <2>2, <2>3, <2>4, ConnectStep
<1>9. CASE reconnectLoadFails(id)
  <2> DEFINE u == scheduleReconnection(r)
  <2>1. w.reconnecting > 0 /\ Apply(id, u) /\ UNCHANGED sock
    BY <1>9 DEF reconnectLoadFails
  <2>2. /\ r \in Record /\ r.socket = inst[id].socket /\ Pending(r) + 1 <= Pending(inst[id])
    BY <1>3, <2>1
  <2> HIDE DEF r
  <2>3. /\ u \in Record /\ u.socket = r.socket /\ Pending(u) <= Pending(r) + 1
        /\ Retrying(u) \/ u.circuit # "closed"
    BY <2>2, ScheduleFacts
  <2>4. Pending(u) \in Int /\ Pending(r) \in Int /\ Pending(inst[id]) \in Int
    BY <1>1, <2>2, <2>3 DEF Pending, Record
  <2> HIDE DEF u
  <2>5. Remembered(u) /\ Pending(u) <= Pending(inst[id])
    BY <2>2, <2>3, <2>4 DEF Remembered
  <2> QED
    BY <2>1, <2>2, <2>3, <2>5, RecordStep
<1> QED
  BY <1>5, <1>6, <1>7, <1>8, <1>9

LEMMA RemoveStep == ASSUME IInv, NEW id \in Ids, removeInstance(id) PROVE IInv'
<1>1. PICK mode \in EndModes : Apply(id, removed(inst[id], mode)) /\ sock' = Ended(inst[id], mode)
  BY DEF removeInstance
<1> DEFINE v == removed(inst[id], mode)
<1>2. inst[id] \in Record /\ Runs(id) <= MaxRuns
  BY DEF IInv, Types, RunsBounded
<1>3. /\ v \in Record /\ v.socket = NoSocket /\ Remembered(v)
      /\ Pending(v) <= Pending(inst[id])
           + (IF mode = "sync" /\ inst[id].socket # NoSocket THEN 1 ELSE 0)
  BY <1>2, RemovedFacts
<1> HIDE DEF v
<1>4. Pending(v) + Cardinality(Owned(id))
        <= MaxRuns + (IF mode = "sync" /\ inst[id].socket # NoSocket THEN 1 ELSE 0)
  <2>1. Pending(v) \in Nat
    BY <1>3 DEF Pending, Record
  <2> QED
    BY <1>2, <1>3, <2>1, OwnedFacts, AttemptsAssumption DEF IInv
<1> QED
  BY <1>1, <1>3, <1>4, EndStep DEF v

\* A timer becomes a reconnectFn; a cooldown that ends leaves the circuit not closed.
LEMMA TimeStep ==
  ASSUME IInv, NEW id \in Ids, timerFires(id) \/ cooldownElapses(id)
  PROVE  IInv'
<1> DEFINE w == inst[id]
<1>1. w \in Record /\ Remembered(w)
  BY DEF IInv, Types, AllRemembered
<1>2. CASE w.timer /\ Apply(id, [w EXCEPT !.timer = FALSE, !.reconnecting = @ + 1])
           /\ UNCHANGED sock
  <2> DEFINE v == [w EXCEPT !.timer = FALSE, !.reconnecting = w.reconnecting + 1]
  <2>1. w.reconnecting + 1 \in Nat /\ w.reconnecting + 1 > 0 /\ Apply(id, v)
    BY <1>1, <1>2 DEF Record
  <2> HIDE DEF w
  <2>2. /\ v \in Record /\ v.socket = w.socket /\ v.reconnecting = w.reconnecting + 1
        /\ v.adding = w.adding /\ v.strayTimers = w.strayTimers /\ ~v.timer
    BY <1>1, <2>1 DEF Record
  <2>3. Pending(v) <= Pending(w)
    <3> HIDE DEF v
    <3> QED
      BY <1>1, <1>2, <2>2 DEF Record, Pending
  <2> HIDE DEF v
  <2> QED
    BY <1>2, <2>1, <2>2, <2>3, RecordStep DEF Remembered, Retrying, w
<1>3. CASE w.strayTimers > 0 /\ UNCHANGED sock
           /\ Apply(id, [w EXCEPT !.strayTimers = @ - 1, !.reconnecting = @ + 1])
  <2> DEFINE v == [w EXCEPT !.strayTimers = w.strayTimers - 1,
                            !.reconnecting = w.reconnecting + 1]
  <2>1. /\ w.reconnecting + 1 \in Nat /\ w.reconnecting + 1 > 0 /\ w.strayTimers - 1 \in Nat
        /\ Apply(id, v)
    BY <1>1, <1>3 DEF Record
  <2> HIDE DEF w
  <2>2. /\ v \in Record /\ v.socket = w.socket /\ v.reconnecting = w.reconnecting + 1
        /\ v.adding = w.adding /\ v.strayTimers = w.strayTimers - 1 /\ v.timer = w.timer
    BY <1>1, <2>1 DEF Record
  <2>3. Pending(v) <= Pending(w)
    <3> HIDE DEF v
    <3> QED
      BY <1>1, <1>3, <2>2 DEF Record, Pending
  <2> HIDE DEF v
  <2> QED
    BY <1>3, <2>1, <2>2, <2>3, RecordStep DEF Remembered, Retrying, w
<1>4. CASE cooldownElapses(id)
  <2> DEFINE v == [w EXCEPT !.circuit = "cooled"]
  <2>1. /\ v \in Record /\ v.socket = w.socket /\ v.circuit = "cooled"
        /\ Pending(v) <= Pending(w)
    <3> HIDE DEF w
    <3> QED
      BY <1>1 DEF Record, Pending
  <2> QED
    BY <1>4, <2>1, RecordStep DEF cooldownElapses, Remembered
<1> QED
  BY <1>2, <1>3, <1>4 DEF timerFires

\* A socket opens: only the record's status and attempts change.
LEMMA OpenStep == ASSUME IInv, NEW s \in Sockets, socketOpens(s) PROVE IInv'
<1>1. PICK id \in Ids : id = sock[s].owner
  BY DEF socketOpens, IInv, Types
<1> DEFINE w == inst[id]
           u == updateInstanceStatus(w, "CONNECTED")
           v == handleConnectionOpen(w)
<1>2. /\ Apply(id, v) /\ sock[s].phase = "opening"
      /\ sock' = [sock EXCEPT ![s].phase = "open"]
  BY <1>1 DEF socketOpens
<1>3. w \in Record /\ sock \in [Sockets -> SocketState]
  BY DEF IInv, Types
<1>4. v = [u EXCEPT !.attempts = 0, !.circuit = "closed"] /\ 0 \in 0..MaxAttempts
  BY AttemptsAssumption DEF handleConnectionOpen, resetAttempts
<1>5. sock'[s] \in SocketState /\ sock'[s].owner = id /\ sock'[s].phase = "open"
  BY <1>1, <1>2, <1>3 DEF SocketState
<1>6. sock' \in [Sockets -> SocketState] /\ \A t \in Sockets \ {s} : sock'[t] = sock[t]
  BY <1>2, <1>3, <1>5
<1>7. Owned(id)' = Owned(id)
  BY <1>1, <1>5, <1>6 DEF Owned
<1> HIDE DEF w
<1>8. /\ u \in Record /\ u.socket = w.socket /\ Pending(u) = Pending(w)
      /\ u.status \in {"absent", "CONNECTED"}
  <2>1. CASE w.status = "absent"
    BY <1>3, <2>1 DEF updateInstanceStatus
  <2>2. CASE w.status # "absent"
    BY <1>3, <2>2 DEF updateInstanceStatus, Record, Status, Pending
  <2> QED
    BY <2>1, <2>2
<1> HIDE DEF u, v
<1>9. v \in Record /\ v.socket = w.socket /\ Pending(v) = Pending(w) /\ Remembered(v)
  BY <1>4, <1>8 DEF Record, Pending, Remembered
<1>10. Pending(v) + Cardinality(Owned(id)') <= MaxRuns
  BY <1>1, <1>7, <1>9, OwnedFacts DEF IInv, RunsBounded, w
<1>11. v.socket # NoSocket => sock'[v.socket].phase \in {"opening", "open"}
                              /\ sock'[v.socket].owner = id
  <2>1. v.socket # NoSocket => v.socket \in Sockets /\ Live(v.socket) /\ sock[v.socket].owner = id
    BY <1>1, <1>9 DEF Record, IInv, MapHoldsLiveSockets, w
  <2> QED
    BY <1>5, <1>6, <2>1 DEF Live
<1>12. \A t \in Sockets : Live(t) /\ sock[t].owner # id => sock'[t] = sock[t]
  BY <1>1, <1>6
<1>13. \A t \in Sockets : sock'[t].owner = sock[t].owner
  BY <1>5, <1>6, <1>1
<1>14. \A t \in Sockets : sock'[t].phase # "free" => sock'[t].owner \in Ids
  BY <1>1, <1>5, <1>6 DEF IInv, Types
<1> QED
  BY <1>1, <1>2, <1>6, <1>9, <1>10, <1>11, <1>12, <1>13, <1>14, PutStep

\* A socket closes, sooner or later: it makes room for the timer it may start.
LEMMA CloseStep ==
  ASSUME IInv, NEW s \in Sockets, socketCloses(s) \/ lateClose(s)
  PROVE  IInv'
<1>1. PICK id \in Ids : id = sock[s].owner
  BY DEF socketCloses, lateClose, Live, IInv, Types
<1> DEFINE w == inst[id]
<1>2. PICK shouldReconnect \in BOOLEAN :
        /\ Apply(id, closeUpdate(w, shouldReconnect))
        /\ sock' = [sock EXCEPT ![s] = Free]
        /\ sock[s].phase # "free"
  BY <1>1 DEF socketCloses, lateClose, Live
<1> DEFINE v == closeUpdate(w, shouldReconnect)
<1>3. sock \in [Sockets -> SocketState] /\ w \in Record
  BY <1>2 DEF IInv, Types
<1>4. /\ v \in Record /\ v.socket = NoSocket /\ Pending(v) <= Pending(w) + 1
      /\ Remembered(v)
  BY <1>3, CloseFacts
<1> HIDE DEF v
<1>5. /\ sock' \in [Sockets -> SocketState] /\ sock'[s].owner = NoSocket
      /\ sock'[s].phase = "free" /\ \A t \in Sockets \ {s} : sock'[t] = sock[t]
  BY <1>2, <1>3 DEF Free, SocketState
<1>6. Owned(id)' = Owned(id) \ {s} /\ s \in Owned(id)
  BY <1>5, <1>1, SocketsAssumption DEF Owned
<1>7. Cardinality(Owned(id)') = Cardinality(Owned(id)) - 1
  BY <1>3, <1>6, OwnedFacts, FS_RemoveElement DEF IInv
<1>8. Pending(v) + Cardinality(Owned(id)') <= MaxRuns
  <2>1. Pending(v) \in Nat /\ Runs(id) <= MaxRuns
    BY <1>3, <1>4 DEF Pending, Record, IInv, RunsBounded
  <2> QED
    BY <1>3, <1>4, <1>7, <2>1, OwnedFacts, AttemptsAssumption DEF IInv
<1>9. /\ \A t \in Sockets : sock'[t].phase # "free" => sock'[t].owner \in Ids
      /\ \A t \in Sockets : sock'[t].owner \in {sock[t].owner, NoSocket}
      /\ \A t \in Sockets : Live(t) /\ sock[t].owner # id => sock'[t] = sock[t]
  BY <1>5, <1>1 DEF IInv, Types
<1>10. Apply(id, v)
  BY <1>2 DEF v
<1> QED
  BY <1>3, <1>4, <1>5, <1>8, <1>9, <1>10, PutStep

\* Shutdown: every instance gives up the socket it holds.
LEMMA DestroyStep == ASSUME IInv, onModuleDestroy PROVE IInv'
<1>1. PICK mode \in EndModes :
        /\ inst' = [id \in Ids |-> disconnect(inst[id], mode)]
        /\ sock' = EndedAll({inst[id].socket : id \in Ids}, mode)
  BY DEF onModuleDestroy
<1> DEFINE ended == {inst[id].socket : id \in Ids}
<1>2. inst \in [Ids -> Record] /\ sock \in [Sockets -> SocketState]
  BY DEF IInv, Types
<1>3. ASSUME NEW s \in Sockets
      PROVE  /\ sock'[s] \in SocketState
             /\ sock'[s].phase # "free" => sock'[s].owner \in Ids
             /\ sock'[s].owner \in {sock[s].owner, NoSocket}
             /\ s \in ended /\ mode # "late" => sock'[s].owner = NoSocket
  <2>1. sock'[s] = IF s \notin ended THEN sock[s]
                   ELSE IF mode = "late" THEN [sock[s] EXCEPT !.phase = "ended"] ELSE Free
    BY <1>1 DEF EndedAll
  <2>2. CASE s \notin ended
    BY <1>2, <2>1, <2>2 DEF IInv, Types
  <2>3. CASE s \in ended /\ mode = "late"
    <3>1. sock'[s] = [sock[s] EXCEPT !.phase = "ended"] /\ sock[s] \in SocketState
      BY <1>2, <2>1, <2>3
    <3>2. sock'[s] \in SocketState /\ sock'[s].owner = sock[s].owner
      BY <3>1 DEF SocketState
    <3>3. sock[s].owner \in Ids
      BY <2>3, SocketsAssumption DEF IInv, MapHoldsLiveSockets
    <3> QED
      BY <2>3, <3>2, <3>3
  <2>4. CASE s \in ended /\ mode # "late"
    BY <2>1, <2>4 DEF Free, SocketState
  <2> QED
    BY <2>2, <2>3, <2>4
<1>4. ASSUME NEW id \in Ids
      PROVE  LET extra == IF mode = "sync" /\ inst[id].socket # NoSocket THEN 1 ELSE 0 IN
             /\ inst'[id] \in Record /\ inst'[id].socket = NoSocket
             /\ Pending(inst'[id]) <= Pending(inst[id]) + extra
             /\ Remembered(inst'[id])
  <2>1. inst[id] \in Record /\ Remembered(inst[id]) /\ inst'[id] = disconnect(inst[id], mode)
    BY <1>1, <1>2 DEF IInv, AllRemembered
  <2> QED
    BY <2>1, DisconnectFacts
<1>5. Types'
  <2>1. inst' \in [Ids -> Record]
    BY <1>1, <1>4
  <2>2. sock' = [s \in Sockets |-> sock'[s]]
    BY <1>1 DEF EndedAll
  <2> HIDE DEF ended
  <2>3. sock' \in [Sockets -> SocketState]
    BY <1>3, <2>2
  <2> QED
    BY <1>3, <2>1, <2>3 DEF Types
<1>6. RunsBounded'
  <2>1. ASSUME NEW id \in Ids PROVE Runs(id)' <= MaxRuns
    <3> DEFINE held == inst[id].socket
               extra == IF mode = "sync" /\ held # NoSocket THEN 1 ELSE 0
    <3>1. /\ Owned(id)' \subseteq Owned(id)
          /\ IsFiniteSet(Owned(id)) /\ Cardinality(Owned(id)) \in Nat
      BY <1>3, OwnedFacts, SocketsAssumption DEF IInv, Owned
    <3>2. IsFiniteSet(Owned(id)') /\ Cardinality(Owned(id)') \in Nat
          /\ Cardinality(Owned(id)') <= Cardinality(Owned(id))
      BY <3>1, FS_Subset, FS_CardinalityType
    <3>3. Cardinality(Owned(id)') + extra <= Cardinality(Owned(id))
      <4>1. CASE mode = "sync" /\ held # NoSocket
        <5>1. held \in Sockets /\ held \in Owned(id)
          BY <1>2, <4>1 DEF Record, IInv, MapHoldsLiveSockets, Owned
        <5>2. held \notin Owned(id)'
          BY <1>3, <4>1, <5>1, SocketsAssumption DEF Owned
        <5>3. Cardinality(Owned(id) \ {held}) = Cardinality(Owned(id)) - 1
              /\ IsFiniteSet(Owned(id) \ {held}) /\ Owned(id)' \subseteq Owned(id) \ {held}
          BY <3>1, <5>1, <5>2, FS_RemoveElement
        <5>4. Cardinality(Owned(id)') <= Cardinality(Owned(id) \ {held})
          BY <5>3, FS_Subset
        <5> QED
          BY <3>1, <3>2, <4>1, <5>3, <5>4
      <4>2. CASE ~(mode = "sync" /\ held # NoSocket)
        BY <3>1, <3>2, <4>2
      <4> QED
        BY <4>1, <4>2
    <3>4. Runs(id)' = Pending(inst'[id]) + Cardinality(Owned(id)') /\ Pending(inst'[id]) \in Nat
      BY <1>4, <3>2 DEF Runs, Pending, Record
    <3>5. Runs(id) = Pending(inst[id]) + Cardinality(Owned(id)) /\ Pending(inst[id]) \in Nat
          /\ Runs(id) <= MaxRuns
      BY OwnedFacts DEF IInv, RunsBounded
    <3>6. Pending(inst'[id]) <= Pending(inst[id]) + extra /\ extra \in {0, 1}
      BY <1>4
    <3> HIDE DEF extra
    <3> QED
      BY <3>1, <3>2, <3>3, <3>4, <3>5, <3>6, AttemptsAssumption
  <2> QED
    BY <2>1 DEF RunsBounded
<1>7. MapHoldsLiveSockets' /\ AllRemembered'
  BY <1>4 DEF MapHoldsLiveSockets, AllRemembered
<1> QED
  BY <1>5, <1>6, <1>7 DEF IInv

LEMMA StepIInv == IInv /\ [Next]_vars => IInv'
<1> SUFFICES ASSUME IInv, [Next]_vars PROVE IInv'
  OBVIOUS
<1>1. CASE Restart
  <2>1. Init'
    BY <1>1 DEF Restart, Init
  <2> QED
    BY <2>1, InitIInv, PTL
<1>2. CASE UNCHANGED vars
  BY <1>2 DEF vars, IInv, Types, RunsBounded, Runs, Owned, MapHoldsLiveSockets, Live, AllRemembered
<1> QED
  BY <1>1, <1>2, AddStep, LoadStep, RemoveStep, TimeStep, OpenStep, CloseStep, DestroyStep
     DEF Next

LEMMA SpecIInv == Spec => []IInv
  BY InitIInv, StepIInv, PTL DEF Spec

\* The records keep their types; in particular the timers and calls of one
\* instance that run at once never exceed the sockets and calls added for it.
THEOREM TypeCorrect == Spec => []TypeOK
<1>1. IInv => TypeOK
  <2> SUFFICES ASSUME IInv PROVE TypeOK
    OBVIOUS
  <2>1. ASSUME NEW id \in Ids PROVE inst[id] \in Instance
    <3>1. inst[id] \in Record /\ Runs(id) <= MaxRuns
      BY DEF IInv, Types, RunsBounded
    <3>2. Pending(inst[id]) <= MaxRuns
      BY <3>1, OwnedFacts, AttemptsAssumption DEF IInv
    <3>3. /\ inst[id].strayTimers \in 0..MaxRuns /\ inst[id].adding \in 0..MaxRuns
          /\ inst[id].reconnecting \in 0..MaxRuns
      BY <3>1, <3>2, AttemptsAssumption DEF Pending, Record
    <3> QED
      BY <3>1, <3>3 DEF Record, Instance
  <2> QED
    BY <2>1 DEF IInv, Types, TypeOK
<1> QED
  BY <1>1, SpecIInv, PTL

\* What getSocket() returns can be written to and is the instance's own, however
\* connects, disconnects and stale close updates interleave.
THEOREM MapIsLive == Spec => []MapHoldsLiveSockets
<1>1. IInv => MapHoldsLiveSockets
  BY DEF IInv
<1> QED
  BY <1>1, SpecIInv, PTL

\* No instance that lost its connection is forgotten: an attempt is on its way,
\* or the circuit is open.
THEOREM LostIsRetried == Spec => []DisconnectedIsRetried
<1>1. IInv => DisconnectedIsRetried
  BY DEF IInv, AllRemembered, Remembered, DisconnectedIsRetried, Waiting
<1> QED
  BY <1>1, SpecIInv, PTL
=============================================================================
