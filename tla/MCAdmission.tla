---------------------------- MODULE MCAdmission ----------------------------
EXTENDS Admission, TLC

\* The limit's guard before that of the key, or after; a route may have no limit.
MCGuards == {Validate, <<"rl:instance">> \o Validate \o <<"rl:recipient">>}
MClimit == [l \in {"rl:instance", "rl:recipient"} |-> IF l = "rl:instance" THEN 2 ELSE 1]

\* Three requests of the lists and of keys, or five of the sandbox: the two share nothing
\* but their guards.
Sandbox == {"createInstance", "simulateInbound", "deleteSession"}
MCTraffics ==
  {[n \in 1..5 |-> IF n <= 3 THEN OfPhone \union {"revokeApiKey"} ELSE {}],
   [n \in 1..5 |-> IF n = 1 THEN {"createInstance"} ELSE Sandbox]}

Symmetry == Permutations(Clients) \union Permutations(Phones)
=============================================================================
