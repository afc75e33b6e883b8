-------------------------- MODULE MessageLifecycle --------------------------
(***************************************************************************)
(* What the API promises about the status of a message it sends through a  *)
(* provider (schema.prisma, MessageStatus): it is settled once, as SENT    *)
(* only if the provider took the message; one settled as FAILED stays so;  *)
(* one settled as SENT shows from then on what the provider reports of it. *)
(***************************************************************************)
CONSTANTS
  Messages,  \* messages to send
  Kinds      \* statuses a provider reports

VARIABLES
  status,    \* the status column of each message, "none" before there is a row
  taken,     \* messages the provider has taken
  tracked,   \* messages settled as SENT
  reported   \* statuses the provider has reported of each message

vars == <<status, taken, tracked, reported>>

Unsettled == {"PENDING", "PROCESSING"}

Init ==
  /\ status = [m \in Messages |-> "none"]
  /\ taken = {} /\ tracked = {}
  /\ reported = [m \in Messages |-> {}]

SetStatus(m, s) == status' = [status EXCEPT ![m] = s]

Create(m) ==
  /\ status[m] = "none"
  /\ SetStatus(m, "PENDING")
  /\ UNCHANGED <<taken, tracked, reported>>

Process(m) ==
  /\ status[m] = "PENDING"
  /\ SetStatus(m, "PROCESSING")
  /\ UNCHANGED <<taken, tracked, reported>>

Take(m) ==
  /\ status[m] # "none"
  /\ taken' = taken \union {m}
  /\ UNCHANGED <<status, tracked, reported>>

SettleSent(m) ==
  /\ status[m] \in Unsettled /\ m \in taken
  /\ SetStatus(m, "SENT")
  /\ tracked' = tracked \union {m}
  /\ UNCHANGED <<taken, reported>>

SettleFailed(m) ==
  /\ status[m] \in Unsettled
  /\ SetStatus(m, "FAILED")
  /\ UNCHANGED <<taken, tracked, reported>>

Report(m, k) ==
  /\ m \in taken
  /\ reported' = [reported EXCEPT ![m] = @ \union {k}]
  /\ UNCHANGED <<status, taken, tracked>>

Reconcile(m, k) ==
  /\ m \in tracked /\ k \in reported[m]
  /\ SetStatus(m, k)
  /\ UNCHANGED <<taken, tracked, reported>>

Next ==
  \E m \in Messages :
    \/ Create(m) \/ Process(m) \/ Take(m) \/ SettleSent(m) \/ SettleFailed(m)
    \/ \E k \in Kinds : Report(m, k) \/ Reconcile(m, k)

Spec == Init /\ [][Next]_vars
=============================================================================
