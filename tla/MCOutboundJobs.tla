--------------------------- MODULE MCOutboundJobs ---------------------------
(* Instances of OutboundJobs for TLC. *)
EXTENDS OutboundJobs, TLC

\* Office hours in UTC; and a window over midnight three hours to the east, which opens
\* at an hour that the code reads as 24:00.  At seven in the evening the first is over; it
\* is ten in the second, which the code takes to be over too, as ten is past its end.
MCWindows ==
  {[startHour |-> 9, endHour |-> 18, zone |-> 0], [startHour |-> 21, endHour |-> 6, zone |-> 3]}
MCTimes == {43}

MCSymmetry == Permutations(Clients) \union Permutations(Messages) \union Permutations(Pods)
=============================================================================
