--------------------------- MODULE AdmissionProofs ---------------------------
(* Safety of admission for any number of clients, keys, phones, limits and requests:   *)
(* types, the agreement of the caches with their tables, and the limits.  First, what  *)
(* a request has before it, from which follows which await comes next.                 *)
EXTENDS Admission, FiniteSetTheorems, SequenceTheorems, TLAPS

Steps  == Limits \union {"getFromCache", "delExpired", "findKey", "setCache"}
OpSteps == {"hget", "findUnique", "hset", "findAbsent", "create", "findEntry", "delete",
            "del", "findMany", "hsetAll", "createSession", "setQuota", "getActiveSession",
            "checkSandboxQuota", "incr", "close", "delQuota", "deactivate", "delKey"}
Requests == [op : Ops \union {"none"}, key : ApiKeys \union {"none"},
             phone : Phones \union {"none"}, todo : Seq(Steps \union OpSteps),
             read : SUBSET Phones]

\* The i-th of the awaits s is of the operation itself, which come last, or else of the
\* guard, whose validation is in order.
OfOp(op, s, i) ==
  /\ Len(s) - i < Len(Awaits(op))
  /\ s[i] = Awaits(op)[Len(Awaits(op)) - (Len(s) - i)]

\* The awaits of a validation but for the last, and what comes after each.
Lookup == {"getFromCache", "delExpired", "findKey"}
After(a) ==
  IF a = "getFromCache" THEN "delExpired" ELSE IF a = "delExpired" THEN "findKey" ELSE "setCache"

OfGuard(op, s, i) ==
  /\ Len(s) - i >= Len(Awaits(op)) /\ op \in Guarded
  /\ s[i] \in Steps
  /\ s[i] \in Lookup => Len(s) - i > Len(Awaits(op)) /\ s[i+1] = After(s[i])
  /\ s[i] \notin Lookup => s[i+1] \notin {"delExpired", "findKey", "setCache"}

Orderly(op, s) ==
  /\ \A i \in 1..Len(s) : OfOp(op, s, i) \/ OfGuard(op, s, i)
  /\ \A i, j \in 1..Len(s) : s[i] = s[j] => i = j

Shaped(r) ==
  r # NoRequest =>
    /\ r.op \in Ops /\ r.key \in ApiKeys /\ (r.op \in OfPhone => r.phone \in Phones)
    /\ r.todo # <<>> /\ Orderly(r.op, r.todo)

Shape == reqs \in [Clients -> Requests] /\ \A c \in Clients : Shaped(reqs[c])

-----------------------------------------------------------------------------
(* Which await comes after which. *)

LEMMA AwaitsType ==
  \A op \in Ops :
    /\ Awaits(op) \in Seq(OpSteps) /\ Len(Awaits(op)) \in 2..5
    /\ \A i, j \in 1..Len(Awaits(op)) : Awaits(op)[i] = Awaits(op)[j] => i = j
<1> DEFINE Good(s) == /\ s \in Seq(OpSteps) /\ Len(s) \in 2..5
                     /\ \A i, j \in 1..Len(s) : s[i] = s[j] => i = j
<1>1. Good(<<"hget", "findUnique", "hset">>)
  BY DEF OpSteps
<1>2. /\ Good(<<"findAbsent", "create", "del", "findMany", "hsetAll">>)
      /\ Good(<<"findEntry", "delete", "del", "findMany", "hsetAll">>)
  BY DEF OpSteps
<1>3. /\ Good(<<"createSession", "setQuota">>)
      /\ Good(<<"getActiveSession", "checkSandboxQuota", "incr">>)
      /\ Good(<<"getActiveSession", "close", "delQuota">>)
      /\ Good(<<"deactivate", "delKey">>)
  BY DEF OpSteps
<1> HIDE DEF Good
<1>4. ASSUME NEW op \in Ops PROVE Good(Awaits(op))
  BY <1>1, <1>2, <1>3 DEF Ops, Guarded, Awaits
<1> QED
  BY <1>4 DEF Good

\* What is left after the first n awaits is orderly as well.
LEMMA SuffixOrderly ==
  ASSUME NEW op \in Ops, NEW s \in Seq(Steps \union OpSteps), NEW n \in 1..Len(s),
         Orderly(op, s)
  PROVE  LET t == SubSeq(s, n + 1, Len(s)) IN
         /\ t \in Seq(Steps \union OpSteps) /\ Orderly(op, t) /\ Len(t) = Len(s) - n
         /\ \A i \in 1..Len(t) : t[i] = s[n + i]
<1> DEFINE t == SubSeq(s, n + 1, Len(s))
           L == Len(Awaits(op))
<1>1. Len(s) \in Nat /\ n \in Nat
  OBVIOUS
<1>2. /\ t \in Seq(Steps \union OpSteps) /\ Len(t) = Len(s) - n
      /\ \A i \in 1..Len(t) : t[i] = s[n + i]
  OBVIOUS
<1>3. L \in 2..5
  BY AwaitsType
<1> HIDE DEF t, L
<1>4. ASSUME NEW i \in 1..Len(t) PROVE OfOp(op, t, i) \/ OfGuard(op, t, i)
  <2>1. n + i \in 1..Len(s) /\ Len(t) - i = Len(s) - (n + i) /\ t[i] = s[n + i]
    BY <1>1, <1>2
  <2>2. CASE OfOp(op, s, n + i)
    BY <2>1, <2>2 DEF OfOp
  <2>3. CASE OfGuard(op, s, n + i)
    <3>1. Len(s) - (n + i) >= L
      BY <2>3 DEF OfGuard, L
    <3>2. Len(t) - i >= 2
      BY <1>1, <1>2, <1>3, <2>1, <3>1
    <3>3. i + 1 \in 1..Len(t) /\ n + (i + 1) = n + i + 1
      BY <3>2, <1>1, <1>2
    <3>4. t[i + 1] = s[n + i + 1]
      BY <3>3, <1>2
    <3> QED
      BY <2>1, <2>3, <3>4 DEF OfGuard
  <2> QED
    BY <2>1, <2>2, <2>3 DEF Orderly
<1>5. \A i, j \in 1..Len(t) : t[i] = t[j] => i = j
  <2>1. ASSUME NEW i \in 1..Len(t), NEW j \in 1..Len(t), t[i] = t[j] PROVE i = j
    <3>1. n + i \in 1..Len(s) /\ n + j \in 1..Len(s) /\ s[n + i] = s[n + j]
      BY <1>1, <1>2, <2>1
    <3>2. n + i = n + j
      BY <3>1 DEF Orderly
    <3> QED
      BY <1>1, <3>2
  <2> QED
    BY <2>1
<1> QED
  BY <1>2, <1>4, <1>5 DEF Orderly, t

\* b comes after the await a of the operation op itself: "end" after the last.
Way(op, a, b) ==
  \/ /\ op = "isBlacklisted"
     /\ \/ a = "hget" /\ b = "findUnique"
        \/ a = "findUnique" /\ b = "hset"
        \/ a = "hset" /\ b = "end"
  \/ /\ op \in {"addToBlacklist", "removeFromBlacklist"}
     /\ \/ a = "findAbsent" /\ b = "create" /\ op = "addToBlacklist"
        \/ a = "create" /\ b = "del" /\ op = "addToBlacklist"
        \/ a = "findEntry" /\ b = "delete" /\ op = "removeFromBlacklist"
        \/ a = "delete" /\ b = "del" /\ op = "removeFromBlacklist"
        \/ a = "del" /\ b = "findMany"
        \/ a = "findMany" /\ b = "hsetAll"
        \/ a = "hsetAll" /\ b = "end"
  \/ /\ op = "createInstance"
     /\ \/ a = "createSession" /\ b = "setQuota"
        \/ a = "setQuota" /\ b = "end"
  \/ /\ op = "simulateInbound"
     /\ \/ a = "getActiveSession" /\ b = "checkSandboxQuota"
        \/ a = "checkSandboxQuota" /\ b = "incr"
        \/ a = "incr" /\ b = "end"
  \/ /\ op = "deleteSession"
     /\ \/ a = "getActiveSession" /\ b = "close"
        \/ a = "close" /\ b = "delQuota"
        \/ a = "delQuota" /\ b = "end"
  \/ /\ op = "revokeApiKey"
     /\ \/ a = "deactivate" /\ b = "delKey"
        \/ a = "delKey" /\ b = "end"

\* What may come first, or after an await of the guard that leaves the rest open.
Firsts == {"hget", "findAbsent", "findEntry", "createSession", "getActiveSession"}
Opening == Limits \union {"getFromCache"} \union Firsts

\* The same for an await of the guard.
GuardWay(op, a, b) ==
  /\ op \in Guarded /\ a \in Steps
  /\ IF a \in Lookup THEN b = After(a) ELSE b \in Opening

LEMMA AwaitsWay ==
  ASSUME NEW op \in Ops, NEW n \in 1..Len(Awaits(op))
  PROVE  /\ Way(op, Awaits(op)[n],
                IF n = Len(Awaits(op)) THEN "end" ELSE Awaits(op)[n + 1])
         /\ op \in Guarded => Awaits(op)[1] \in Firsts
         /\ op \notin Guarded => Awaits(op)[1] = "deactivate"
<1>1. CASE op = "isBlacklisted"
  <2>1. Awaits(op) = <<"hget", "findUnique", "hset">>
    BY <1>1 DEF Awaits
  <2>2. /\ Len(Awaits(op)) = 3
        /\ Awaits(op)[1] = "hget"
        /\ Awaits(op)[2] = "findUnique"
        /\ Awaits(op)[3] = "hset"
    BY <2>1
  <2>3. n = 1 \/ n = 2 \/ n = 3
    BY <2>2
  <2> QED
    BY <1>1, <2>2, <2>3 DEF Way, Firsts, Guarded
<1>2. CASE op = "addToBlacklist"
  <2>1. Awaits(op) = <<"findAbsent", "create", "del", "findMany", "hsetAll">>
    BY <1>2 DEF Awaits
  <2>2. /\ Len(Awaits(op)) = 5
        /\ Awaits(op)[1] = "findAbsent"
        /\ Awaits(op)[2] = "create"
        /\ Awaits(op)[3] = "del"
        /\ Awaits(op)[4] = "findMany"
        /\ Awaits(op)[5] = "hsetAll"
    BY <2>1
  <2>3. n = 1 \/ n = 2 \/ n = 3 \/ n = 4 \/ n = 5
    BY <2>2
  <2> QED
    BY <1>2, <2>2, <2>3 DEF Way, Firsts, Guarded
<1>3. CASE op = "removeFromBlacklist"
  <2>1. Awaits(op) = <<"findEntry", "delete", "del", "findMany", "hsetAll">>
    BY <1>3 DEF Awaits
  <2>2. /\ Len(Awaits(op)) = 5
        /\ Awaits(op)[1] = "findEntry"
        /\ Awaits(op)[2] = "delete"
        /\ Awaits(op)[3] = "del"
        /\ Awaits(op)[4] = "findMany"
        /\ Awaits(op)[5] = "hsetAll"
    BY <2>1
  <2>3. n = 1 \/ n = 2 \/ n = 3 \/ n = 4 \/ n = 5
    BY <2>2
  <2> QED
    BY <1>3, <2>2, <2>3 DEF Way, Firsts, Guarded
<1>4. CASE op = "createInstance"
  <2>1. Awaits(op) = <<"createSession", "setQuota">>
    BY <1>4 DEF Awaits
  <2>2. /\ Len(Awaits(op)) = 2
        /\ Awaits(op)[1] = "createSession"
        /\ Awaits(op)[2] = "setQuota"
    BY <2>1
  <2>3. n = 1 \/ n = 2
    BY <2>2
  <2> QED
    BY <1>4, <2>2, <2>3 DEF Way, Firsts, Guarded
<1>5. CASE op = "simulateInbound"
  <2>1. Awaits(op) = <<"getActiveSession", "checkSandboxQuota", "incr">>
    BY <1>5 DEF Awaits
  <2>2. /\ Len(Awaits(op)) = 3
        /\ Awaits(op)[1] = "getActiveSession"
        /\ Awaits(op)[2] = "checkSandboxQuota"
        /\ Awaits(op)[3] = "incr"
    BY <2>1
  <2>3. n = 1 \/ n = 2 \/ n = 3
    BY <2>2
  <2> QED
    BY <1>5, <2>2, <2>3 DEF Way, Firsts, Guarded
<1>6. CASE op = "deleteSession"
  <2>1. Awaits(op) = <<"getActiveSession", "close", "delQuota">>
    BY <1>6 DEF Awaits
  <2>2. /\ Len(Awaits(op)) = 3
        /\ Awaits(op)[1] = "getActiveSession"
        /\ Awaits(op)[2] = "close"
        /\ Awaits(op)[3] = "delQuota"
    BY <2>1
  <2>3. n = 1 \/ n = 2 \/ n = 3
    BY <2>2
  <2> QED
    BY <1>6, <2>2, <2>3 DEF Way, Firsts, Guarded
<1>7. CASE op = "revokeApiKey"
  <2>1. Awaits(op) = <<"deactivate", "delKey">>
    BY <1>7 DEF Awaits
  <2>2. /\ Len(Awaits(op)) = 2
        /\ Awaits(op)[1] = "deactivate"
        /\ Awaits(op)[2] = "delKey"
    BY <2>1
  <2>3. n = 1 \/ n = 2
    BY <2>2
  <2> QED
    BY <1>7, <2>2, <2>3 DEF Way, Firsts, Guarded
<1> QED
  BY <1>1, <1>2, <1>3, <1>4, <1>5, <1>6, <1>7 DEF Ops, Guarded

\* What an orderly series of awaits goes on with after its first.
LEMMA HeadWay ==
  ASSUME NEW op \in Ops, NEW s \in Seq(Steps \union OpSteps), s # <<>>, Orderly(op, s)
  PROVE  \/ Len(s) = 1 /\ Way(op, s[1], "end")
         \/ Len(s) >= 2 /\ Way(op, s[1], s[2]) /\ s[2] \in OpSteps
         \/ Len(s) >= 3 /\ GuardWay(op, s[1], s[2])
<1> DEFINE L == Len(Awaits(op))
           m == Len(s)
<1> HIDE DEF L, m
<1>1. L \in 2..5 /\ m \in Nat /\ m >= 1
  BY AwaitsType DEF L, m
<1>2. CASE OfOp(op, s, 1)
  <2>1. m - 1 < L /\ s[1] = Awaits(op)[L - (m - 1)]
    BY <1>2 DEF OfOp, L, m
  <2>2. L - (m - 1) \in 1..L
    BY <1>1, <2>1
  <2>3. CASE m = 1
    <3>1. L - (m - 1) = L
      BY <1>1, <2>3
    <3>2. L \in 1..L
      BY <1>1
    <3>3. Way(op, Awaits(op)[L], "end")
      BY <3>2, AwaitsWay DEF L
    <3> QED
      BY <2>1, <2>3, <3>1, <3>3 DEF m
  <2>4. CASE m # 1
    <3>1. 2 \in 1..m /\ m - 2 < L
      BY <1>1, <2>1, <2>4
    <3>2. OfOp(op, s, 2)
      BY <2>1, <3>1, <1>1 DEF Orderly, OfGuard, L, m
    <3>3. s[2] = Awaits(op)[L - (m - 2)]
      BY <3>2 DEF OfOp, L, m
    <3>4. /\ (L - (m - 1)) + 1 = L - (m - 2)
          /\ L - (m - 1) # L
      BY <1>1, <2>4
    <3>5. Way(op, Awaits(op)[L - (m - 1)], Awaits(op)[L - (m - 2)])
      BY <2>2, <3>4, AwaitsWay DEF L
    <3>6. Awaits(op)[L - (m - 2)] \in OpSteps
      <4>1. L - (m - 2) \in 1..L
        BY <1>1, <2>2, <2>4, <3>1, <3>4
      <4> QED
        BY <4>1, AwaitsType DEF L
    <3>7. m >= 2
      BY <1>1, <2>4
    <3> QED
      BY <2>1, <3>3, <3>5, <3>6, <3>7 DEF m
  <2> QED
    BY <2>3, <2>4
<1>3. CASE OfGuard(op, s, 1)
  <2>1. m - 1 >= L /\ op \in Guarded /\ s[1] \in Steps
    BY <1>3 DEF OfGuard, L, m
  <2>2. m >= 3 /\ 2 \in 1..m /\ 3 \in 1..m
    BY <1>1, <2>1
  <2>3. s[1] \in Lookup => s[1+1] = After(s[1])
    BY <1>3 DEF OfGuard, L, m
  <2>4. s[1] \notin Lookup => s[2] \in Opening
    <3>1. s[1] \notin Lookup => s[1+1] \notin {"delExpired", "findKey", "setCache"}
      BY <1>3 DEF OfGuard, L, m
    <3>2. CASE OfGuard(op, s, 2)
      BY <3>1, <3>2 DEF OfGuard, Steps, Opening
    <3>3. CASE OfOp(op, s, 2)
      <4>1. m - 2 < L /\ s[2] = Awaits(op)[L - (m - 2)]
        BY <3>3 DEF OfOp, L, m
      <4>2. L - (m - 2) = 1 /\ 1 \in 1..L
        BY <1>1, <2>1, <4>1
      <4>3. Awaits(op)[1] \in Firsts
        BY <2>1, <4>2, AwaitsWay DEF L
      <4> QED
        BY <4>1, <4>2, <4>3 DEF Opening
    <3> QED
      BY <2>2, <3>2, <3>3 DEF Orderly, m
  <2> QED
    BY <2>1, <2>2, <2>3, <2>4 DEF GuardWay, m
<1>4. 1 \in 1..m
  BY <1>1
<1> QED
  BY <1>2, <1>3, <1>4 DEF Orderly, m

\* An await of a guard is none of an operation.
LEMMA StepsApart == Steps \intersect OpSteps = {}
<1>1. ASSUME NEW a \in OpSteps
      PROVE  \E op \in Ops : \E n \in DOMAIN Awaits(op) : Awaits(op)[n] = a
  <2> DEFINE Has(op, n, b) == n \in DOMAIN Awaits(op) /\ Awaits(op)[n] = b
  <2>1. /\ Has("isBlacklisted", 1, "hget") /\ Has("isBlacklisted", 2, "findUnique")
        /\ Has("isBlacklisted", 3, "hset")
    BY DEF Awaits
  <2>2. /\ Has("addToBlacklist", 1, "findAbsent") /\ Has("addToBlacklist", 2, "create")
        /\ Has("addToBlacklist", 3, "del") /\ Has("addToBlacklist", 4, "findMany")
        /\ Has("addToBlacklist", 5, "hsetAll")
    BY DEF Awaits
  <2>3. /\ Has("removeFromBlacklist", 1, "findEntry")
        /\ Has("removeFromBlacklist", 2, "delete")
    BY DEF Awaits
  <2>4. /\ Has("createInstance", 1, "createSession") /\ Has("createInstance", 2, "setQuota")
        /\ Has("revokeApiKey", 1, "deactivate") /\ Has("revokeApiKey", 2, "delKey")
    BY DEF Awaits
  <2>5. /\ Has("simulateInbound", 1, "getActiveSession")
        /\ Has("simulateInbound", 2, "checkSandboxQuota") /\ Has("simulateInbound", 3, "incr")
        /\ Has("deleteSession", 2, "close") /\ Has("deleteSession", 3, "delQuota")
    BY DEF Awaits
  <2>6. \E op \in Ops : \E n \in 1..5 : Has(op, n, a)
    <3> HIDE DEF Has
    <3> QED
      BY <2>1, <2>2, <2>3, <2>4, <2>5 DEF OpSteps, Guarded, Ops
  <2> QED
    BY <2>6
<1>2. OpSteps \intersect Limits = {}
  BY <1>1, NamesAssumption
<1> QED
  BY <1>2 DEF OpSteps, Steps

\* What a request begins with is orderly.
LEMMA BeginOrderly ==
  ASSUME NEW op \in Ops, NEW g,
         (op \in Guarded /\ g \in Guards) \/ (op = "revokeApiKey" /\ g = <<>>)
  PROVE  LET s == g \o Awaits(op) IN
         /\ s \in Seq(Steps \union OpSteps) /\ s # <<>> /\ Orderly(op, s)
         /\ s[1] \in Opening \/ (op = "revokeApiKey" /\ s[1] = "deactivate")
<1> DEFINE w == Awaits(op)
           s == g \o w
           m == Len(g)
           L == Len(w)
<1>1. /\ g \in Seq(Steps)
      /\ \A i, j \in 1..Len(g) : g[i] = g[j] => i = j
      /\ \A i \in 1..Len(g), n \in 1..4 : g[i] = Validate[n] =>
           \A k \in 1..4 : i - n + k \in 1..Len(g) /\ g[i - n + k] = Validate[k]
  <2>1. CASE g = <<>>
    <3>1. g \in Seq(Steps) /\ Len(g) = 0
      BY <2>1
    <3>2. 1..Len(g) = {}
      BY <3>1
    <3> QED
      BY <3>1, <3>2
  <2>2. CASE g \in Guards
    <3>1. g \in Seq(Steps) /\ DOMAIN g = 1..Len(g)
      BY <2>2, GuardsAssumption DEF Steps
    <3> DEFINE Good(D) ==
          /\ \A i, j \in D : g[i] = g[j] => i = j
          /\ \A i \in D, n \in 1..4 : g[i] = Validate[n] =>
               \A k \in 1..4 : i - n + k \in D /\ g[i - n + k] = Validate[k]
    <3>2. Good(DOMAIN g)
      BY <2>2, GuardsAssumption
    <3>3. Good(1..Len(g))
      <4> HIDE DEF Good
      <4> QED
        BY <3>1, <3>2
    <3> QED
      BY <3>1, <3>3
  <2> QED
    BY <2>1, <2>2
<1>2. /\ w \in Seq(OpSteps) /\ L \in 2..5
      /\ \A i, j \in 1..L : w[i] = w[j] => i = j
  BY AwaitsType
<1>3. /\ op \in Guarded => w[1] \in Firsts
      /\ op \notin Guarded => w[1] = "deactivate"
  <2>1. 1 \in 1..Len(Awaits(op))
    BY <1>2
  <2> QED
    BY <2>1, AwaitsWay
<1> HIDE DEF w
<1>4. /\ s \in Seq(Steps \union OpSteps) /\ Len(s) = m + L /\ m \in Nat
      /\ \A i \in 1..(m + L) : s[i] = IF i <= m THEN g[i] ELSE w[i - m]
  <2>1. g \in Seq(Steps \union OpSteps) /\ w \in Seq(Steps \union OpSteps)
    BY <1>1, <1>2
  <2> QED
    BY <2>1
<1> HIDE DEF s, m, L
<1>5. /\ Validate[1] = "getFromCache" /\ Validate[2] = "delExpired"
      /\ Validate[3] = "findKey" /\ Validate[4] = "setCache"
  BY DEF Validate
<1>6. ASSUME NEW i \in 1..m PROVE OfGuard(op, s, i)
  <2>1. op \in Guarded
    BY <1>6 DEF m
  <2>2. s[i] = g[i] /\ s[i] \in Steps /\ Len(s) - i >= L /\ i \in Nat /\ i \in 1..Len(g)
    BY <1>1, <1>2, <1>4 DEF m
  <2>3. \A j \in 1..3 : i + j <= m => s[i + j] = g[i + j]
    BY <1>2, <1>4
  <2>4. ASSUME NEW n \in 1..3, g[i] = Validate[n]
        PROVE  Len(s) - i > L /\ s[i+1] = Validate[n+1]
    <3>1. n \in 1..4 /\ n + 1 \in 1..4
      OBVIOUS
    <3>2. i - n + (n + 1) \in 1..Len(g) /\ g[i - n + (n + 1)] = Validate[n + 1]
      BY <1>1, <2>2, <2>4, <3>1
    <3>3. i - n + (n + 1) = i + 1
      BY <2>2
    <3> QED
      BY <1>2, <1>4, <2>2, <2>3, <3>2, <3>3 DEF m
  <2>5. s[i] \in Lookup => Len(s) - i > L /\ s[i+1] = After(s[i])
    <3>1. s[i] \in Lookup => \E n \in 1..3 : g[i] = Validate[n] /\ After(s[i]) = Validate[n+1]
      BY <1>5, <2>2 DEF Lookup, After
    <3> QED
      BY <2>4, <3>1
  <2>6. s[i] \notin Lookup => s[i+1] \notin {"delExpired", "findKey", "setCache"}
    <3>1. CASE i = m
      <4>1. s[i+1] = w[1]
        BY <1>2, <1>4, <2>2, <3>1
      <4> QED
        BY <4>1, <1>3, <2>1 DEF Firsts
    <3>2. CASE i # m
      <4>1. i + 1 \in 1..Len(g) /\ s[i+1] = g[i+1]
        BY <1>4, <2>2, <2>3, <3>2 DEF m
      <4>2. ASSUME NEW n \in 2..4, g[i+1] = Validate[n] PROVE g[i] = Validate[n-1]
        <5>1. n \in 1..4 /\ n - 1 \in 1..4 /\ (i+1) - n + (n-1) = i
          BY <2>2
        <5> QED
          BY <1>1, <4>1, <4>2, <5>1
      <4>3. g[i+1] \in {"delExpired", "findKey", "setCache"} =>
              \E n \in 2..4 : g[i+1] = Validate[n]
        BY <1>5
      <4>4. \A n \in 2..4 : Validate[n-1] \in Lookup
        BY <1>5 DEF Lookup
      <4> QED
        BY <2>2, <4>1, <4>2, <4>3, <4>4
    <3> QED
      BY <3>1, <3>2
  <2> QED
    BY <2>1, <2>2, <2>5, <2>6 DEF OfGuard, L, w
<1>7. ASSUME NEW i \in 1..Len(s), i \notin 1..m PROVE OfOp(op, s, i)
  <2>1. Len(s) - i < L /\ s[i] = w[i - m] /\ i - m = L - (Len(s) - i)
    BY <1>2, <1>4, <1>7
  <2> QED
    BY <2>1 DEF OfOp, L, w
<1>8. ASSUME NEW i \in 1..Len(s), NEW j \in 1..Len(s), s[i] = s[j] PROVE i = j
  <2>1. CASE i <= m /\ j <= m
    BY <1>1, <1>2, <1>4, <1>8, <2>1 DEF m
  <2>2. CASE i > m /\ j > m
    <3>1. i - m \in 1..L /\ j - m \in 1..L /\ w[i - m] = w[j - m]
      BY <1>2, <1>4, <1>8, <2>2
    <3>2. i - m = j - m
      BY <1>2, <3>1
    <3> QED
      BY <1>2, <1>4, <3>2
  <2>3. ASSUME NEW k \in 1..Len(s) PROVE /\ k <= m => s[k] \in Steps
                                         /\ k > m => s[k] \in OpSteps
    <3>1. k <= m => s[k] = g[k] /\ k \in 1..Len(g)
      BY <1>2, <1>4 DEF m
    <3>2. k > m => s[k] = w[k - m] /\ k - m \in 1..Len(w)
      BY <1>2, <1>4 DEF L
    <3> QED
      BY <1>1, <1>2, <3>1, <3>2
  <2>4. (i <= m) = (j <= m)
    BY <1>2, <1>4, <1>8, <2>3, StepsApart
  <2> QED
    BY <1>2, <1>4, <2>1, <2>2, <2>4
<1>9. Orderly(op, s)
  BY <1>6, <1>7, <1>8 DEF Orderly
<1>10. s # <<>> /\ 1 \in 1..Len(s)
  BY <1>2, <1>4
<1>11. s[1] \in Opening \/ (op = "revokeApiKey" /\ s[1] = "deactivate")
  <2>1. CASE m = 0
    <3>1. s[1] = w[1]
      BY <1>2, <1>4, <2>1
    <3> QED
      BY <3>1, <1>3 DEF Ops, Opening
  <2>2. CASE m # 0
    <3>1. 1 \in 1..Len(g) /\ s[1] = g[1] /\ g[1] \in Steps
      BY <1>1, <1>2, <1>4, <2>2 DEF m
    <3>2. ASSUME NEW n \in 2..4 PROVE g[1] # Validate[n]
      <4> SUFFICES ASSUME g[1] = Validate[n] PROVE FALSE
        OBVIOUS
      <4>1. n \in 1..4 /\ 1 \in 1..4
        OBVIOUS
      <4>2. 1 - n + 1 \in 1..Len(g)
        BY <1>1, <3>1, <4>1
      <4> QED
        BY <4>2
    <3>3. g[1] \notin {"delExpired", "findKey", "setCache"}
      BY <1>5, <3>2
    <3> QED
      BY <3>1, <3>3 DEF Steps, Opening
  <2> QED
    BY <2>1, <2>2
<1> QED
  BY <1>4, <1>9, <1>10, <1>11 DEF s, w

-----------------------------------------------------------------------------
(* What a step makes of the requests. *)

Others(c) == \A d \in Clients \ {c} : reqs'[d] = reqs[d]

\* The request of c, at the await a, is over, or it goes on with what b comes after a.
Onward(c, a, R) ==
  LET r == reqs[c]
      q == reqs'[c] IN
  /\ Others(c)
  /\ \/ q = NoRequest /\ Way(r.op, a, "end")
     \/ /\ q # NoRequest /\ q.todo # <<>> /\ q.read = R
        /\ q.op = r.op /\ q.key = r.key /\ q.phone = r.phone
        /\ \/ Way(r.op, a, Head(q.todo)) /\ Head(q.todo) \in OpSteps
           \/ GuardWay(r.op, a, Head(q.todo))
           \/ a = "getFromCache" /\ Head(q.todo) \in Opening \union {"findKey"}
        /\ \A i \in 1..Len(q.todo) :
             /\ q.todo[i] # a
             /\ \E j \in 1..Len(r.todo) : r.todo[j] = q.todo[i]

LEMMA Put ==
  ASSUME Shape, NEW c \in Clients, NEW q \in Requests, Shaped(q),
         reqs' = [reqs EXCEPT ![c] = q]
  PROVE  Shape' /\ Others(c) /\ reqs'[c] = q
<1>1. reqs' \in [Clients -> Requests]
  BY DEF Shape
<1>2. \A d \in Clients : reqs'[d] = IF d = c THEN q ELSE reqs[d]
  BY DEF Shape
<1>3. \A d \in Clients : Shaped(reqs'[d])
  <2> HIDE DEF Shaped
  <2> QED
    BY <1>2 DEF Shape
<1> QED
  BY <1>1, <1>2, <1>3 DEF Shape, Others

LEMMA Over ==
  ASSUME Shape, NEW c \in Clients, Answers(c)
  PROVE  Shape' /\ Others(c) /\ reqs'[c] = NoRequest
<1>1. NoRequest \in Requests /\ Shaped(NoRequest)
  BY DEF NoRequest, Requests, Shaped
<1> QED
  BY <1>1, Put DEF Answers

\* What is known of a request that is at an await.
LEMMA HeadOf ==
  ASSUME Shape, NEW c \in Clients, NEW a, At(c, a)
  PROVE  LET r == reqs[c] IN
         /\ r # NoRequest /\ r \in Requests /\ r.op \in Ops /\ r.key \in ApiKeys
         /\ r.op \in OfPhone => r.phone \in Phones
         /\ r.todo \in Seq(Steps \union OpSteps) /\ r.todo # <<>> /\ r.todo[1] = a
         /\ Orderly(r.op, r.todo) /\ 1 \in 1..Len(r.todo)
         /\ \/ a \in Steps /\ a \notin OpSteps /\ r.op \in Guarded
            \/ a \in OpSteps /\ a \notin Steps /\ \E b : Way(r.op, a, b)
<1> DEFINE r == reqs[c]
<1>1. r \in Requests /\ Shaped(r) /\ r.todo # <<>> /\ Head(r.todo) = a
  BY DEF Shape, At
<1>2. r # NoRequest
  BY <1>1 DEF NoRequest
<1>3. /\ r.op \in Ops /\ r.key \in ApiKeys /\ (r.op \in OfPhone => r.phone \in Phones)
      /\ r.todo \in Seq(Steps \union OpSteps) /\ Orderly(r.op, r.todo)
  BY <1>1, <1>2 DEF Shaped, Requests
<1>4. PICK op, s : op = r.op /\ s = r.todo
  OBVIOUS
<1>5. op \in Ops /\ s \in Seq(Steps \union OpSteps) /\ s # <<>> /\ Orderly(op, s)
  BY <1>1, <1>3, <1>4
<1>6. s[1] = a /\ 1 \in 1..Len(s) /\ a \in Steps \union OpSteps
  BY <1>1, <1>4, <1>5
<1>7. (\E b : Way(op, s[1], b)) \/ (op \in Guarded /\ s[1] \in Steps)
  BY <1>5, HeadWay DEF GuardWay
<1>8. \A b, d : Way(op, b, d) => b \in OpSteps
  BY DEF Way, OpSteps
<1> QED
  BY <1>1, <1>2, <1>3, <1>4, <1>5, <1>6, <1>7, <1>8, StepsApart

LEMMA Advance ==
  ASSUME Shape, NEW c \in Clients, NEW a, At(c, a), NEW R \in SUBSET Phones,
         Stepped(c, 1, R)
  PROVE  Shape' /\ Onward(c, a, R)
<1> DEFINE r == reqs[c]
<1>1. PICK s : s = r.todo
  OBVIOUS
<1>2. /\ r # NoRequest /\ r \in Requests /\ r.op \in Ops /\ r.key \in ApiKeys
      /\ r.op \in OfPhone => r.phone \in Phones
      /\ s \in Seq(Steps \union OpSteps) /\ s # <<>> /\ s[1] = a
      /\ Orderly(r.op, s) /\ 1 \in 1..Len(s)
  BY <1>1, HeadOf
<1>3. PICK q : q = IF Len(r.todo) <= 1 THEN NoRequest
                   ELSE [r EXCEPT !.todo = SubSeq(r.todo, 1 + 1, Len(r.todo)),
                                  !.read = R]
  OBVIOUS
<1>4. reqs' = [reqs EXCEPT ![c] = q]
  BY <1>3 DEF Stepped
<1>5. CASE Len(s) <= 1
  <2>1. q = NoRequest
    BY <1>1, <1>3, <1>5
  <2>2. Answers(c)
    BY <1>4, <2>1 DEF Answers
  <2>3. Way(r.op, s[1], "end")
    BY <1>2, <1>5, HeadWay
  <2> QED
    BY <1>2, <2>2, <2>3, Over DEF Onward
<1>6. CASE ~(Len(s) <= 1)
  <2> DEFINE t == SubSeq(s, 1 + 1, Len(s))
  <2>1. /\ t \in Seq(Steps \union OpSteps) /\ Orderly(r.op, t) /\ Len(t) = Len(s) - 1
        /\ \A i \in 1..Len(t) : t[i] = s[1 + i]
    BY <1>2, SuffixOrderly
  <2> HIDE DEF t
  <2>2. Len(t) >= 1 /\ t # <<>> /\ Head(t) = s[2]
    <3>1. Len(t) \in Nat /\ Len(s) \in Nat /\ Len(t) >= 1
      BY <1>2, <1>6, <2>1
    <3>2. 1 \in 1..Len(t) /\ 1 + 1 = 2
      BY <3>1
    <3>3. t # <<>> /\ Head(t) = t[1]
      BY <2>1, <3>1
    <3> QED
      BY <2>1, <3>1, <3>2, <3>3
  <2>3. q = [r EXCEPT !.todo = t, !.read = R]
    BY <1>1, <1>3, <1>6 DEF t
  <2>4. /\ q \in Requests /\ q.op = r.op /\ q.key = r.key /\ q.phone = r.phone
        /\ q.todo = t /\ q.read = R
    BY <1>2, <2>1, <2>3 DEF Requests
  <2>5. q # NoRequest
    BY <1>2, <2>2, <2>4 DEF NoRequest
  <2>6. Shaped(q)
    BY <1>2, <2>1, <2>2, <2>4 DEF Shaped
  <2>7. Shape' /\ Others(c) /\ reqs'[c] = q
    BY <1>4, <2>4, <2>6, Put
  <2>8. \/ Way(r.op, s[1], s[2]) /\ s[2] \in OpSteps
        \/ GuardWay(r.op, s[1], s[2])
    BY <1>2, <1>6, HeadWay
  <2>9. \A i \in 1..Len(t) : t[i] # a /\ \E j \in 1..Len(s) : s[j] = t[i]
    <3> SUFFICES ASSUME NEW i \in 1..Len(t)
                 PROVE  t[i] # a /\ \E j \in 1..Len(s) : s[j] = t[i]
      OBVIOUS
    <3>1. 1 + i \in 1..Len(s) /\ 1 + i # 1 /\ t[i] = s[1 + i]
      BY <1>2, <2>1
    <3> QED
      BY <1>2, <3>1 DEF Orderly
  <2> QED
    BY <1>1, <1>2, <2>2, <2>4, <2>5, <2>7, <2>8, <2>9 DEF Onward
<1> QED
  BY <1>5, <1>6

\* The awaits of a validation follow its first.
LEMMA Chain ==
  ASSUME NEW op \in Ops, NEW s \in Seq(Steps \union OpSteps), s # <<>>, Orderly(op, s),
         s[1] = "getFromCache"
  PROVE  /\ Len(s) >= 6 /\ s[3] = "findKey" /\ s[4] = "setCache"
<1> DEFINE L == Len(Awaits(op))
           m == Len(s)
           Chained(i, a) == i \in 1..m /\ m - i >= L /\ s[i] = a
<1> HIDE DEF L, m
<1>1. L \in 2..5 /\ m \in Nat /\ m >= 1
  BY AwaitsType DEF L, m
<1>2. ASSUME NEW i \in 1..m, OfGuard(op, s, i), s[i] \in Lookup
      PROVE  Chained(i + 1, After(s[i]))
  <2>1. m - i > L /\ s[i+1] = After(s[i])
    BY <1>2 DEF OfGuard, L, m
  <2> QED
    BY <1>1, <2>1
<1>3. ASSUME NEW i, NEW a, Chained(i, a) PROVE OfGuard(op, s, i)
  BY <1>1, <1>3 DEF Orderly, OfOp, L, m
<1>4. OfGuard(op, s, 1) /\ 1 \in 1..m
  <2>1. \A b, d : Way(op, b, d) => b \in OpSteps
    BY DEF Way, OpSteps
  <2>2. GuardWay(op, s[1], s[2])
    BY <2>1, HeadWay DEF OpSteps
  <2>3. ~OfOp(op, s, 1)
    <3> SUFFICES ASSUME OfOp(op, s, 1) PROVE FALSE
      OBVIOUS
    <3>1. L - (m - 1) \in 1..L /\ s[1] = Awaits(op)[L - (m - 1)]
      BY <1>1 DEF OfOp, L, m
    <3>2. s[1] \in OpSteps
      BY <3>1, AwaitsType DEF L
    <3> QED
      BY <3>2 DEF OpSteps
  <2> QED
    BY <1>1, <2>3 DEF Orderly, m
<1>5. Chained(2, "delExpired")
  BY <1>2, <1>4 DEF Lookup, After
<1>6. Chained(3, "findKey")
  BY <1>2, <1>3, <1>5 DEF Lookup, After
<1>7. Chained(4, "setCache")
  BY <1>2, <1>3, <1>6 DEF Lookup, After
<1> QED
  BY <1>1, <1>6, <1>7 DEF m

\* A hit in the cache of keys takes the request past the awaits of a miss, a miss past the
\* deletion of an entry that is past its expiry.
LEMMA Skip ==
  ASSUME Shape, NEW c \in Clients, At(c, "getFromCache"), NEW n \in {2, 4},
         Stepped(c, n, {})
  PROVE  Shape' /\ Onward(c, "getFromCache", {})
<1> DEFINE r == reqs[c]
<1>1. PICK s : s = r.todo
  OBVIOUS
<1>2. /\ r # NoRequest /\ r \in Requests /\ r.op \in Ops /\ r.key \in ApiKeys
      /\ r.op \in OfPhone => r.phone \in Phones
      /\ s \in Seq(Steps \union OpSteps) /\ s # <<>> /\ s[1] = "getFromCache"
      /\ Orderly(r.op, s) /\ 1 \in 1..Len(s)
  BY <1>1, HeadOf
<1>3. "setCache" \notin OpSteps
  BY DEF OpSteps
<1>4. \A b, d : Way(r.op, b, d) => b \in OpSteps
  BY DEF Way, OpSteps
<1>5. Len(s) >= 6 /\ Len(s) \in Nat /\ s[3] = "findKey" /\ s[4] = "setCache"
  BY <1>2, Chain
<1>6. PICK q : q = [r EXCEPT !.todo = SubSeq(r.todo, n + 1, Len(r.todo)), !.read = {}]
  OBVIOUS
<1>7. reqs' = [reqs EXCEPT ![c] = q]
  <2>1. ~(Len(s) <= n)
    BY <1>5
  <2>2. ~(Len(r.todo) <= n)
    BY <1>1, <2>1
  <2> QED
    BY <1>6, <2>2 DEF Stepped
<1> DEFINE t == SubSeq(s, n + 1, Len(s))
           u == SubSeq(s, 3 + 1, Len(s))
<1>8. /\ t \in Seq(Steps \union OpSteps) /\ Orderly(r.op, t) /\ Len(t) = Len(s) - n
      /\ \A i \in 1..Len(t) : t[i] = s[n + i]
  <2>1. n \in 1..Len(s)
    BY <1>5
  <2> QED
    BY <1>2, <2>1, SuffixOrderly
<1>9. /\ u \in Seq(Steps \union OpSteps) /\ Orderly(r.op, u) /\ Len(u) = Len(s) - 3
      /\ \A i \in 1..Len(u) : u[i] = s[3 + i]
  <2>1. 3 \in 1..Len(s)
    BY <1>5
  <2> QED
    BY <1>2, <2>1, SuffixOrderly
<1> HIDE DEF t, u
<1>10. t # <<>> /\ Head(t) = t[1] /\ t[1] = s[n + 1]
  BY <1>5, <1>8
<1>11. /\ u # <<>> /\ 1 \in 1..Len(u) /\ 2 \in 1..Len(u)
       /\ u[1] = s[3 + 1] /\ u[2] = s[3 + 2]
  BY <1>5, <1>9
<1>12. 3 + 1 = 4 /\ 3 + 2 = 5 /\ 4 + 1 = 5 /\ 2 + 1 = 3
  OBVIOUS
<1>13. Head(t) \in Opening \union {"findKey"}
  <2>1. u[1] = "setCache"
    BY <1>5, <1>11, <1>12
  <2>2. GuardWay(r.op, u[1], u[2])
    BY <1>2, <1>3, <1>4, <1>9, <1>11, <2>1, HeadWay
  <2>3. u[2] \in Opening
    BY <2>1, <2>2 DEF GuardWay, Lookup
  <2> QED
    BY <1>5, <1>10, <1>11, <1>12, <2>3
<1>14. q = [r EXCEPT !.todo = t, !.read = {}]
  BY <1>1, <1>6 DEF t
<1>15. /\ q \in Requests /\ q.op = r.op /\ q.key = r.key /\ q.phone = r.phone
       /\ q.todo = t /\ q.read = {}
  BY <1>2, <1>8, <1>14 DEF Requests
<1>16. q # NoRequest
  BY <1>2, <1>10, <1>15 DEF NoRequest
<1>17. Shaped(q)
  BY <1>2, <1>8, <1>10, <1>15 DEF Shaped
<1>18. Shape' /\ Others(c) /\ reqs'[c] = q
  BY <1>7, <1>15, <1>17, Put
<1>19. \A i \in 1..Len(t) : t[i] # "getFromCache" /\ \E j \in 1..Len(s) : s[j] = t[i]
  <2> SUFFICES ASSUME NEW i \in 1..Len(t)
               PROVE  t[i] # "getFromCache" /\ \E j \in 1..Len(s) : s[j] = t[i]
    OBVIOUS
  <2>1. n + i \in 1..Len(s) /\ n + i # 1 /\ t[i] = s[n + i]
    BY <1>5, <1>8
  <2> QED
    BY <1>2, <2>1 DEF Orderly
<1> QED
  BY <1>1, <1>10, <1>13, <1>15, <1>16, <1>18, <1>19 DEF Onward

\* A new request is at its guard, or at the first await of its operation.
LEMMA Started ==
  ASSUME Shape, NEW c \in Clients, NEW op \in Ops, NEW k \in ApiKeys,
         NEW p \in Phones \union {"none"}, NEW g, op \in OfPhone => p # "none",
         (op \in Guarded /\ g \in Guards) \/ (op = "revokeApiKey" /\ g = <<>>),
         Begin(c, op, k, p, g)
  PROVE  LET q == reqs'[c] IN
         /\ Shape' /\ Others(c) /\ reqs[c] = NoRequest
         /\ q # NoRequest /\ q.op = op /\ q.key = k /\ q.phone = p /\ q.read = {}
         /\ q.todo # <<>>
         /\ Head(q.todo) \in Opening \/ Head(q.todo) = "deactivate"
<1> DEFINE s == g \o Awaits(op)
<1>1. /\ s \in Seq(Steps \union OpSteps) /\ s # <<>> /\ Orderly(op, s)
      /\ s[1] \in Opening \/ s[1] = "deactivate"
  BY BeginOrderly
<1>2. PICK q : q = [op |-> op, key |-> k, phone |-> p, todo |-> s, read |-> {}]
  OBVIOUS
<1>3. reqs' = [reqs EXCEPT ![c] = q] /\ reqs[c] = NoRequest
  BY <1>2 DEF Begin
<1> HIDE DEF s
<1>4. q \in Requests /\ q.op = op /\ q.key = k /\ q.phone = p /\ q.todo = s /\ q.read = {}
  BY <1>1, <1>2 DEF Requests
<1>5. q # NoRequest
  BY <1>1, <1>4 DEF NoRequest
<1>6. Shaped(q)
  BY <1>1, <1>4 DEF Shaped
<1>7. Shape' /\ Others(c) /\ reqs'[c] = q
  BY <1>3, <1>4, <1>6, Put
<1>8. Head(s) = s[1]
  BY <1>1
<1> QED
  BY <1>1, <1>3, <1>4, <1>5, <1>7, <1>8

\* A request that holds a read of the list is about to write it to the cache.
Reads ==
  \A c \in Clients : reqs[c].read # {} => At(c, "hset") \/ At(c, "hsetAll")

\* What a step of the request of c, which is at the await a, leaves of it.
Moved(c, a) ==
  LET r == reqs[c]
      q == reqs'[c] IN
  /\ At(c, a) /\ Shape' /\ Others(c)
  /\ q # NoRequest => q.op = r.op /\ q.key = r.key /\ q.phone = r.phone
  /\ \A i \in 1..Len(q.todo) : \E j \in 1..Len(r.todo) : r.todo[j] = q.todo[i]
  /\ a \in Limits => \A i \in 1..Len(q.todo) : q.todo[i] # a
  /\ a \in {"hset", "incr", "delKey"} => q = NoRequest
  /\ At(c, "setCache")' => a = "findKey"
  /\ At(c, "delKey")' => a = "deactivate"
  /\ At(c, "hset")' => a = "findUnique"
  /\ At(c, "del")' => a \in {"create", "delete"}
  /\ At(c, "hsetAll")' => a \in {"findMany", "hsetAll"}
  /\ At(c, "checkSandboxQuota")' => a = "getActiveSession"
  /\ At(c, "incr")' => a = "checkSandboxQuota"
  /\ At(c, "delQuota")' => a = "close"

LEMMA OverMoved ==
  ASSUME Shape, NEW c \in Clients, NEW a, At(c, a), Answers(c)
  PROVE  Moved(c, a) /\ reqs'[c] = NoRequest
<1>1. Shape' /\ Others(c) /\ reqs'[c] = NoRequest
  BY Over
<1>2. NoRequest.todo = <<>> /\ Len(NoRequest.todo) = 0
  BY DEF NoRequest
<1>3. \A b : ~At(c, b)'
  BY <1>1, <1>2 DEF At
<1>4. 1..Len(reqs'[c].todo) = {}
  BY <1>1, <1>2
<1> QED
  BY <1>1, <1>3, <1>4 DEF Moved

LEMMA OnwardMoved ==
  ASSUME Shape, Shape', NEW c \in Clients, NEW a, At(c, a), NEW R, Onward(c, a, R)
  PROVE  /\ Moved(c, a) /\ (reqs'[c] # NoRequest => reqs'[c].read = R)
         /\ a = "deactivate" => At(c, "delKey")' /\ reqs'[c].key = reqs[c].key
         /\ a \in {"create", "delete"} =>
              At(c, "del")' /\ reqs'[c].phone = reqs[c].phone
         /\ a = "findUnique" => At(c, "hset")' /\ reqs'[c].phone = reqs[c].phone
         /\ a = "findMany" => At(c, "hsetAll")'
<1> DEFINE r == reqs[c]
           q == reqs'[c]
<1>1. CASE q = NoRequest /\ Way(r.op, a, "end")
  <2>1. Answers(c)
    BY <1>1 DEF Answers, Onward, Others, Shape
  <2>2. a \notin {"deactivate", "create", "delete", "findUnique", "findMany"}
    BY <1>1 DEF Way
  <2> QED
    BY <1>1, <2>1, <2>2, OverMoved
<1>2. CASE q # NoRequest
  <2>1. PICK h : h = Head(q.todo)
    OBVIOUS
  <2>2. /\ q.todo # <<>> /\ q.read = R /\ Others(c)
        /\ q.op = r.op /\ q.key = r.key /\ q.phone = r.phone
        /\ \/ Way(r.op, a, h) /\ h \in OpSteps
           \/ GuardWay(r.op, a, h)
           \/ a = "getFromCache" /\ h \in Opening \union {"findKey"}
        /\ \A i \in 1..Len(q.todo) :
             /\ q.todo[i] # a
             /\ \E j \in 1..Len(r.todo) : r.todo[j] = q.todo[i]
    BY <1>2, <2>1 DEF Onward
  <2>3. \A b : At(c, b)' <=> h = b
    BY <2>1, <2>2 DEF At
  <2>4. OpSteps \intersect Limits = {} /\ "setCache" \notin Limits
    <3>1. "setCache" = Validate[4]
      BY DEF Validate
    <3> QED
      BY <3>1, StepsApart, NamesAssumption DEF Steps
  <2>5. /\ {"delKey", "hset", "del", "hsetAll", "checkSandboxQuota", "incr", "delQuota",
            "deactivate", "create", "delete", "findUnique", "findMany"} \subseteq OpSteps
        /\ "setCache" \notin OpSteps /\ "end" \notin OpSteps
    BY DEF OpSteps
  <2>6. h \in Opening => h \in Limits \union {"getFromCache"} \union Firsts
    BY DEF Opening
  <2>7. CASE Way(r.op, a, h) /\ h \in OpSteps
    <3>1. /\ h = "delKey" => a = "deactivate"
          /\ h = "hset" => a = "findUnique"
          /\ h = "del" => a \in {"create", "delete"}
          /\ h = "hsetAll" => a = "findMany"
      BY <2>7 DEF Way
    <3>2. /\ h = "checkSandboxQuota" => a = "getActiveSession"
          /\ h = "incr" => a = "checkSandboxQuota"
          /\ h = "delQuota" => a = "close"
          /\ a \notin {"hset", "incr", "delKey"}
      BY <2>5, <2>7 DEF Way
    <3>3. /\ a = "deactivate" => h = "delKey"
          /\ a \in {"create", "delete"} => h = "del"
          /\ a = "findUnique" => h = "hset"
          /\ a = "findMany" => h = "hsetAll"
      BY <2>7 DEF Way
    <3>4. h # "setCache"
      BY <2>5, <2>7
    <3>5. Moved(c, a)
      BY <2>2, <2>3, <3>1, <3>2, <3>4 DEF Moved
    <3> QED
      BY <2>2, <2>3, <3>3, <3>5
  <2>8. CASE GuardWay(r.op, a, h) \/ (a = "getFromCache" /\ h \in Opening \union {"findKey"})
    <3>1. a \in Steps /\ a \notin OpSteps
      BY <2>8, StepsApart DEF GuardWay, Steps
    <3>2. h = "setCache" => a = "findKey"
      BY <2>4, <2>6, <2>8 DEF GuardWay, Firsts, Lookup, After
    <3>3. h \notin {"delKey", "hset", "del", "hsetAll", "checkSandboxQuota", "incr",
                    "delQuota"}
      BY <2>4, <2>5, <2>6, <2>8 DEF GuardWay, Firsts, After
    <3>4. Moved(c, a)
      BY <2>2, <2>3, <2>5, <3>1, <3>2, <3>3 DEF Moved
    <3> QED
      BY <2>2, <2>5, <3>1, <3>4
  <2> QED
    BY <2>2, <2>7, <2>8
<1> QED
  BY <1>1, <1>2 DEF Onward

\* Which operation a request at an await is of.
LEMMA OpOf ==
  ASSUME Shape, NEW c \in Clients, NEW a, At(c, a)
  PROVE  LET r == reqs[c] IN
         /\ r # NoRequest /\ r.op \in Ops /\ r.key \in ApiKeys
         /\ a \in {"deactivate", "delKey"} => r.op = "revokeApiKey"
         /\ a \in {"hget", "findUnique", "hset"} =>
              r.op = "isBlacklisted" /\ r.phone \in Phones
         /\ a \in {"findAbsent", "create", "findEntry", "delete", "del", "findMany",
                   "hsetAll"} =>
              r.op \in {"addToBlacklist", "removeFromBlacklist"} /\ r.phone \in Phones
         /\ a \in {"createSession", "setQuota"} => r.op = "createInstance"
         /\ a \in {"checkSandboxQuota", "incr"} => r.op = "simulateInbound"
         /\ a \in {"close", "delQuota"} => r.op = "deleteSession"
         /\ a = "getActiveSession" => r.op \in {"simulateInbound", "deleteSession"}
<1>1. PICK op : op = reqs[c].op
  OBVIOUS
<1>2. /\ reqs[c] # NoRequest /\ op \in Ops /\ reqs[c].key \in ApiKeys
      /\ op \in OfPhone => reqs[c].phone \in Phones
      /\ a \notin Steps => \E b : Way(op, a, b)
  BY <1>1, HeadOf
<1>3. OpSteps \intersect Steps = {}
  BY StepsApart
<1>4. {"hget", "findUnique", "hset", "findAbsent", "create", "findEntry", "delete",
       "del", "findMany", "hsetAll", "createSession", "setQuota", "getActiveSession",
       "checkSandboxQuota", "incr", "close", "delQuota", "deactivate", "delKey"}
      \intersect Steps = {}
  BY <1>3 DEF OpSteps
<1>5. a \in {"deactivate", "delKey"} => op = "revokeApiKey"
  BY <1>2, <1>4 DEF Way
<1>6. a \in {"hget", "findUnique", "hset"} => op = "isBlacklisted"
  BY <1>2, <1>4 DEF Way
<1>7. a \in {"findAbsent", "create", "findEntry", "delete", "del", "findMany", "hsetAll"} =>
        op \in {"addToBlacklist", "removeFromBlacklist"}
  BY <1>2, <1>4 DEF Way
<1>8. /\ a \in {"createSession", "setQuota"} => op = "createInstance"
      /\ a \in {"checkSandboxQuota", "incr"} => op = "simulateInbound"
      /\ a \in {"close", "delQuota"} => op = "deleteSession"
      /\ a = "getActiveSession" => op \in {"simulateInbound", "deleteSession"}
  BY <1>2, <1>4 DEF Way
<1> QED
  BY <1>1, <1>2, <1>5, <1>6, <1>7, <1>8 DEF OfPhone

LEMMA GoesMoved ==
  ASSUME Shape, NEW c \in Clients, NEW a, At(c, a), Goes(c)
  PROVE  /\ Moved(c, a) /\ (reqs'[c] # NoRequest => reqs'[c].read = reqs[c].read)
         /\ a = "deactivate" => At(c, "delKey")' /\ reqs'[c].key = reqs[c].key
         /\ a \in {"create", "delete"} =>
              At(c, "del")' /\ reqs'[c].phone = reqs[c].phone
<1>1. reqs[c].read \in SUBSET Phones
  BY DEF Shape, Requests
<1>2. PICK R \in SUBSET Phones : R = reqs[c].read
  BY <1>1
<1>3. Shape' /\ Onward(c, a, R)
  BY <1>2, Advance DEF Goes
<1> QED
  BY <1>2, <1>3, OnwardMoved

LEMMA SteppedMoved ==
  ASSUME Shape, NEW c \in Clients, NEW a, At(c, a), NEW R \in SUBSET Phones,
         Stepped(c, 1, R)
  PROVE  /\ Moved(c, a) /\ (reqs'[c] # NoRequest => reqs'[c].read = R)
         /\ a = "findUnique" => At(c, "hset")' /\ reqs'[c].phone = reqs[c].phone
         /\ a = "findMany" => At(c, "hsetAll")'
<1>1. Shape' /\ Onward(c, a, R)
  BY Advance
<1> QED
  BY <1>1, OnwardMoved


LEMMA DropMoved ==
  ASSUME Shape, NEW c \in Clients, At(c, "hsetAll"), NEW p,
         reqs' = [reqs EXCEPT ![c].read = @ \ {p}]
  PROVE  /\ Moved(c, "hsetAll") /\ At(c, "hsetAll")'
         /\ reqs'[c].read = reqs[c].read \ {p}
<1> DEFINE r == reqs[c]
<1>1. PICK q : q = [r EXCEPT !.read = r.read \ {p}]
  OBVIOUS
<1>2. reqs' = [reqs EXCEPT ![c] = q]
  BY <1>1 DEF Shape
<1>3. r \in Requests /\ Shaped(r) /\ r # NoRequest /\ r.todo # <<>>
  BY HeadOf DEF Shape
<1>4. /\ q \in Requests /\ q.op = r.op /\ q.key = r.key /\ q.phone = r.phone
      /\ q.todo = r.todo /\ q.read = r.read \ {p}
  BY <1>1, <1>3 DEF Requests
<1>5. q # NoRequest
  BY <1>3, <1>4 DEF NoRequest
<1>6. Shaped(q)
  BY <1>3, <1>4, <1>5 DEF Shaped
<1>7. Shape' /\ Others(c) /\ reqs'[c] = q
  BY <1>2, <1>4, <1>6, Put
<1>8. \A b : At(c, b)' <=> b = "hsetAll"
  BY <1>3, <1>4, <1>7 DEF At
<1>9. "hsetAll" \notin Limits
  BY StepsApart DEF OpSteps, Steps
<1> QED
  BY <1>4, <1>7, <1>8, <1>9 DEF Moved

\* Every step of a request is a move from the await it is at.
LEMMA ValidationMoves ==
  ASSUME Shape, NEW c \in Clients
  PROVE  /\ getFromCache(c) => Moved(c, "getFromCache")
         /\ delExpired(c) => Moved(c, "delExpired")
         /\ findKey(c) => Moved(c, "findKey")
         /\ setCache(c) => Moved(c, "setCache")
         /\ deactivate(c) => /\ Moved(c, "deactivate") /\ At(c, "delKey")'
                             /\ reqs'[c].key = reqs[c].key
         /\ delKey(c) => Moved(c, "delKey")
         /\ \A l \in Limits : checkLimit(c, l) => Moved(c, l)
<1>1. getFromCache(c) => Moved(c, "getFromCache")
  BY Skip, OnwardMoved, GoesMoved DEF getFromCache
<1>2. findKey(c) => Moved(c, "findKey")
  BY OverMoved, GoesMoved DEF findKey
<1>3. /\ setCache(c) => Moved(c, "setCache")
      /\ delKey(c) => Moved(c, "delKey")
      /\ delExpired(c) => Moved(c, "delExpired")
  BY GoesMoved DEF setCache, delKey, delExpired
<1>4. deactivate(c) => /\ Moved(c, "deactivate") /\ At(c, "delKey")'
                       /\ reqs'[c].key = reqs[c].key
  BY GoesMoved DEF deactivate
<1>5. ASSUME NEW l \in Limits, checkLimit(c, l) PROVE Moved(c, l)
  BY <1>5, OverMoved, GoesMoved DEF checkLimit
<1> QED
  BY <1>1, <1>2, <1>3, <1>4, <1>5

LEMMA ListMoves ==
  ASSUME Shape, listed \subseteq Phones, NEW c \in Clients
  PROVE  /\ hget(c) => Moved(c, "hget")
         /\ findUnique(c) =>
              /\ Moved(c, "findUnique") /\ At(c, "hset")' /\ reqs'[c].phone = reqs[c].phone
              /\ reqs'[c].read = listed \intersect {reqs[c].phone}
         /\ hset(c) => Moved(c, "hset")
         /\ findEntry(c) => Moved(c, "findAbsent") \/ Moved(c, "findEntry")
         /\ create(c) => Moved(c, "create")
         /\ deleteEntry(c) => Moved(c, "delete")
         /\ del(c) => Moved(c, "del")
         /\ findMany(c) =>
              Moved(c, "findMany") /\ At(c, "hsetAll")' /\ reqs'[c].read = listed
         /\ hsetAll(c) => Moved(c, "hsetAll") /\ reqs'[c].read \subseteq reqs[c].read
<1>1. \A b : At(c, b)' => reqs'[c] # NoRequest
  BY DEF At, NoRequest
<1>2. (hget(c) => Moved(c, "hget")) /\ (hset(c) => Moved(c, "hset"))
  BY OverMoved, GoesMoved DEF hget, hset
<1>3. findUnique(c) =>
        /\ Moved(c, "findUnique") /\ At(c, "hset")' /\ reqs'[c].phone = reqs[c].phone
        /\ reqs'[c].read = listed \intersect {reqs[c].phone}
  <2> SUFFICES ASSUME findUnique(c)
               PROVE  /\ Moved(c, "findUnique") /\ At(c, "hset")'
                      /\ reqs'[c].phone = reqs[c].phone
                      /\ reqs'[c].read = listed \intersect {reqs[c].phone}
    OBVIOUS
  <2>1. PICK R \in SUBSET Phones : R = listed \intersect {reqs[c].phone}
    OBVIOUS
  <2> QED
    BY <1>1, <2>1, SteppedMoved DEF findUnique
<1>4. findEntry(c) => Moved(c, "findAbsent") \/ Moved(c, "findEntry")
  BY OverMoved, GoesMoved DEF findEntry
<1>5. (create(c) => Moved(c, "create")) /\ (deleteEntry(c) => Moved(c, "delete"))
  BY OverMoved, GoesMoved DEF create, deleteEntry
<1>6. del(c) => Moved(c, "del")
  BY GoesMoved DEF del
<1>7. findMany(c) => Moved(c, "findMany") /\ At(c, "hsetAll")' /\ reqs'[c].read = listed
  <2>1. PICK R \in SUBSET Phones : R = listed
    OBVIOUS
  <2> QED
    BY <1>1, <2>1, SteppedMoved DEF findMany
<1>8. hsetAll(c) => Moved(c, "hsetAll") /\ reqs'[c].read \subseteq reqs[c].read
  <2>1. NoRequest.read = {}
    BY DEF NoRequest
  <2> QED
    BY <2>1, OverMoved, DropMoved DEF hsetAll
<1> QED
  BY <1>2, <1>3, <1>4, <1>5, <1>6, <1>7, <1>8

LEMMA SandboxMoves ==
  ASSUME Shape, NEW c \in Clients
  PROVE  /\ createSession(c) => Moved(c, "createSession")
         /\ setQuota(c) => Moved(c, "setQuota")
         /\ getActiveSession(c) => Moved(c, "getActiveSession")
         /\ checkSandboxQuota(c) => Moved(c, "checkSandboxQuota")
         /\ incr(c) => Moved(c, "incr")
         /\ close(c) => Moved(c, "close")
         /\ delQuota(c) => Moved(c, "delQuota")
<1>1. /\ createSession(c) => Moved(c, "createSession")
      /\ setQuota(c) => Moved(c, "setQuota")
      /\ incr(c) => Moved(c, "incr")
  BY GoesMoved DEF createSession, setQuota, incr
<1>2. /\ close(c) => Moved(c, "close")
      /\ delQuota(c) => Moved(c, "delQuota")
  BY GoesMoved DEF close, delQuota
<1>3. /\ getActiveSession(c) => Moved(c, "getActiveSession")
      /\ checkSandboxQuota(c) => Moved(c, "checkSandboxQuota")
  BY OverMoved, GoesMoved DEF getActiveSession, checkSandboxQuota
<1> QED
  BY <1>1, <1>2, <1>3

-----------------------------------------------------------------------------
(* The types. *)

Types ==
  /\ keys \in [ApiKeys -> {"active", "revoked"}]
  /\ expired \subseteq ApiKeys /\ keyCache \subseteq ApiKeys
  /\ listed \subseteq Phones /\ cached \in [Phones -> {"none", "0", "1"}]
  /\ counter \in [Limits -> Nat] /\ passed \in [Limits -> Nat]
  /\ session \in {"none", "active", "closed", "expired"}
  /\ quota \in Nat /\ simulated \in Nat
  /\ traffic \in Traffics /\ asked \in 0 .. MaxRequests /\ mishaps \in 0 .. MaxMishaps
  /\ raced \subseteq ApiKeys \union Phones

LEMMA BoundsInNat == Quota \in Nat /\ MaxRequests \in Nat /\ MaxMishaps \in Nat
  BY BoundsAssumption

LEMMA TypesNext ==
  ASSUME Shape, Types, [Next]_vars
  PROVE  Types'
<1> USE BoundsInNat
<1>1. ASSUME NEW c \in Clients, request(c) \/ revokeApiKey(c) PROVE Types'
  BY <1>1 DEF request, revokeApiKey, Begin, Types, tables, redis, history
<1>2. ASSUME NEW c \in Clients, fails(c) PROVE Types'
  <2>1. reqs[c].op = "revokeApiKey" => reqs[c].key \in ApiKeys
    BY <1>2 DEF fails, Shape, Shaped
  <2>2. reqs[c].op \in OfPhone => reqs[c].phone \in Phones
    BY <1>2 DEF fails, Shape, Shaped
  <2> QED
    BY <1>2, <2>1, <2>2 DEF fails, Types, tables, redis
<1>3. ASSUME NEW c \in Clients, Validation(c) PROVE Types'
  <2>1. CASE getFromCache(c)
    BY <2>1 DEF getFromCache, ValidationLeaves, Types, tables
  <2>2. CASE findKey(c) \/ delExpired(c)
    BY <2>2 DEF findKey, delExpired, ValidationLeaves, Types, tables
  <2>3. CASE setCache(c)
    <3>1. reqs[c].key \in ApiKeys
      BY <2>3, OpOf DEF setCache
    <3> QED
      BY <2>3, <3>1 DEF setCache, ValidationLeaves, Types, tables
  <2>4. CASE deactivate(c)
    <3>1. reqs[c].key \in ApiKeys
      BY <2>4, OpOf DEF deactivate
    <3> QED
      BY <2>4, <3>1 DEF deactivate, Types, redis
  <2>5. CASE delKey(c)
    BY <2>5 DEF delKey, ValidationLeaves, Types, tables
  <2> QED
    BY <1>3, <2>1, <2>2, <2>3, <2>4, <2>5 DEF Validation
<1>4. ASSUME NEW c \in Clients, NEW l \in Limits, checkLimit(c, l) PROVE Types'
  BY <1>4 DEF checkLimit, Types, tables
<1>5. ASSUME NEW c \in Clients, ListStep(c) PROVE Types'
  <2>1. CASE hget(c) \/ findUnique(c) \/ findEntry(c) \/ findMany(c)
    BY <2>1 DEF hget, findUnique, findEntry, findMany, ListLeaves, Types
  <2>2. CASE hset(c)
    BY <2>2 DEF hset, ListLeaves, Types
  <2>3. CASE create(c) \/ deleteEntry(c)
    <3>1. reqs[c].phone \in Phones
      BY <2>3, OpOf DEF create, deleteEntry
    <3> QED
      BY <2>3, <3>1 DEF create, deleteEntry, Change, ListLeaves, Types
  <2>4. CASE del(c)
    BY <2>4 DEF del, ListLeaves, Types
  <2>5. CASE hsetAll(c)
    BY <2>5 DEF hsetAll, ListLeaves, Types
  <2> QED
    BY <1>5, <2>1, <2>2, <2>3, <2>4, <2>5 DEF ListStep
<1>6. ASSUME NEW c \in Clients, SandboxStep(c) PROVE Types'
  BY <1>6 DEF SandboxStep, createSession, setQuota, getActiveSession, checkSandboxQuota,
              incr, close, delQuota, SandboxLeaves, Types
<1>7. ASSUME NEW k \in ApiKeys, keyExpires(k) PROVE Types'
  BY <1>7 DEF keyExpires, ValidationLeaves, Types, tables
<1>8. ASSUME NEW k \in ApiKeys, passesExpiry(k) PROVE Types'
  BY <1>8 DEF passesExpiry, Types, redis, history
<1>9. ASSUME NEW l \in Limits, windowEnds(l) PROVE Types'
  BY <1>9 DEF windowEnds, Types, tables
<1>10. CASE listExpires
  BY <1>10 DEF listExpires, ListLeaves, Types
<1>11. CASE sessionExpires
  BY <1>11 DEF sessionExpires, SandboxLeaves, Types
<1>12. CASE UNCHANGED vars
  BY <1>12 DEF vars, tables, redis, history, Types
<1> QED
  BY <1>1, <1>2, <1>3, <1>4, <1>5, <1>6, <1>7, <1>9, <1>10, <1>11, <1>12, <1>8 DEF Next

LEMMA StartMoved ==
  ASSUME Shape, NEW c \in Clients, request(c) \/ revokeApiKey(c)
  PROVE  LET q == reqs'[c] IN
         /\ Shape' /\ Others(c) /\ reqs[c] = NoRequest
         /\ q # NoRequest /\ q.read = {} /\ q.todo # <<>>
         /\ Head(q.todo) \in Opening \/ Head(q.todo) = "deactivate"
         /\ asked < MaxRequests /\ asked' = asked + 1
         /\ UNCHANGED <<tables, redis, mishaps, history>>
         /\ q.op = "createInstance" =>
              session = "none" /\ \A d \in Clients : reqs[d].op # "createInstance"
         /\ q.op \in {"simulateInbound", "deleteSession"} =>
              session # "none" /\ \A d \in Clients : reqs[d].op # "createInstance"
<1>1. CASE request(c)
  <2>1. PICK op \in Guarded, k \in ApiKeys, p \in Phones \union {"none"}, guard \in Guards :
          /\ op \in OfPhone <=> p # "none"
          /\ op = "createInstance" => session = "none" /\ \A d \in Clients : reqs[d].op # op
          /\ op \in {"simulateInbound", "deleteSession"} =>
               session # "none" /\ \A d \in Clients : reqs[d].op # "createInstance"
          /\ Begin(c, op, k, p, guard)
    BY <1>1 DEF request
  <2>2. op \in Ops
    BY DEF Ops
  <2>3. LET q == reqs'[c] IN
        /\ Shape' /\ Others(c) /\ reqs[c] = NoRequest
        /\ q # NoRequest /\ q.op = op /\ q.read = {} /\ q.todo # <<>>
        /\ Head(q.todo) \in Opening \/ Head(q.todo) = "deactivate"
    BY <2>1, <2>2, Started
  <2> QED
    BY <2>1, <2>3 DEF Begin
<1>2. CASE revokeApiKey(c)
  <2>1. PICK k \in ApiKeys : Begin(c, "revokeApiKey", k, "none", <<>>)
    BY <1>2 DEF revokeApiKey
  <2>2. "revokeApiKey" \in Ops /\ "revokeApiKey" \notin OfPhone
    BY DEF Ops, OfPhone
  <2>3. LET q == reqs'[c] IN
        /\ Shape' /\ Others(c) /\ reqs[c] = NoRequest
        /\ q # NoRequest /\ q.op = "revokeApiKey" /\ q.read = {} /\ q.todo # <<>>
        /\ Head(q.todo) \in Opening \/ Head(q.todo) = "deactivate"
    BY <2>1, <2>2, Started
  <2> QED
    BY <2>1, <2>3 DEF Begin
<1> QED
  BY <1>1, <1>2

\* A request is none of those that have something to lose when it begins.
LEMMA StartAt ==
  ASSUME Shape, NEW c \in Clients, request(c) \/ revokeApiKey(c)
  PROVE  \A b \in {"setCache", "delKey", "hset", "del", "hsetAll", "checkSandboxQuota",
                   "incr", "delQuota"} : ~At(c, b) /\ ~At(c, b)'
<1>1. /\ reqs[c] = NoRequest
      /\ Head(reqs'[c].todo) \in Opening \/ Head(reqs'[c].todo) = "deactivate"
  BY StartMoved
<1>2. \A b : ~At(c, b)
  BY <1>1 DEF At, NoRequest
<1>3. OpSteps \intersect Limits = {} /\ "setCache" \notin Limits
  <2>1. "setCache" = Validate[4]
    BY DEF Validate
  <2> QED
    BY <2>1, StepsApart, NamesAssumption DEF Steps
<1>4. ASSUME NEW b \in {"setCache", "delKey", "hset", "del", "hsetAll",
                        "checkSandboxQuota", "incr", "delQuota"}
      PROVE  b \notin Opening \union {"deactivate"}
  BY <1>3 DEF Opening, Firsts, OpSteps
<1> QED
  BY <1>1, <1>2, <1>4 DEF At

LEMMA ReadsMove ==
  ASSUME Shape, Reads, NEW c \in Clients, Others(c),
         reqs'[c].read = {} \/ At(c, "hset")' \/ At(c, "hsetAll")'
  PROVE  Reads'
<1>1. ASSUME NEW d \in Clients, d # c, reqs'[d].read # {}
      PROVE  At(d, "hset")' \/ At(d, "hsetAll")'
  BY <1>1 DEF Others, Reads, At
<1> QED
  BY <1>1 DEF Reads

LEMMA QuietReads ==
  ASSUME Shape, Reads, NEW c \in Clients, NEW a, At(c, a), a \notin {"hset", "hsetAll"},
         Goes(c) \/ Answers(c)
  PROVE  Shape' /\ Reads'
<1>1. reqs[c].read = {} /\ NoRequest.read = {}
  BY DEF Reads, At, NoRequest
<1>2. Shape' /\ Others(c) /\ reqs'[c].read = {}
  BY <1>1, OverMoved, GoesMoved DEF Moved
<1> QED
  BY <1>2, ReadsMove

LEMMA ShapeNext ==
  ASSUME Shape, Types, Reads, [Next]_vars
  PROVE  Shape' /\ Reads'
<1>1. NoRequest.read = {}
  BY DEF NoRequest
<1>2. ASSUME NEW c \in Clients, request(c) \/ revokeApiKey(c) PROVE Shape' /\ Reads'
  <2>1. Shape' /\ Others(c) /\ reqs'[c].read = {}
    BY <1>2, StartMoved
  <2> QED
    BY <2>1, ReadsMove
<1>3. ASSUME NEW c \in Clients, fails(c) PROVE Shape' /\ Reads'
  <2>1. Shape' /\ Others(c) /\ reqs'[c] = NoRequest
    BY <1>3, Over DEF fails
  <2> QED
    BY <1>1, <2>1, ReadsMove
<1>4. ASSUME NEW c \in Clients, Validation(c) PROVE Shape' /\ Reads'
  <2>1. CASE getFromCache(c)
    <3>1. CASE Stepped(c, 2, {}) \/ Stepped(c, 4, {})
      <4>1. At(c, "getFromCache")
        BY <2>1 DEF getFromCache
      <4>2. Shape' /\ Onward(c, "getFromCache", {})
        BY <3>1, <4>1, Skip
      <4>3. Others(c) /\ reqs'[c].read = {}
        BY <1>1, <4>2 DEF Onward
      <4> QED
        BY <4>2, <4>3, ReadsMove
    <3> QED
      BY <2>1, <3>1, QuietReads DEF getFromCache
  <2>2. CASE findKey(c) \/ delExpired(c)
    BY <2>2, QuietReads DEF findKey, delExpired
  <2>3. CASE setCache(c) \/ delKey(c) \/ deactivate(c)
    BY <2>3, QuietReads DEF setCache, delKey, deactivate
  <2> QED
    BY <1>4, <2>1, <2>2, <2>3 DEF Validation
<1>5. ASSUME NEW c \in Clients, NEW l \in Limits, checkLimit(c, l) PROVE Shape' /\ Reads'
  <2>1. l \notin {"hset", "hsetAll"}
    BY StepsApart DEF Steps, OpSteps
  <2> QED
    BY <1>5, <2>1, QuietReads DEF checkLimit
<1>6. ASSUME NEW c \in Clients, ListStep(c) PROVE Shape' /\ Reads'
  <2>1. listed \subseteq Phones
    BY DEF Types
  <2>2. CASE hget(c) \/ findEntry(c) \/ create(c) \/ deleteEntry(c) \/ del(c)
    BY <2>2, QuietReads DEF hget, findEntry, create, deleteEntry, del
  <2>3. CASE findUnique(c) \/ findMany(c)
    <3>1. Shape' /\ Others(c) /\ (At(c, "hset")' \/ At(c, "hsetAll")')
      BY <2>1, <2>3, ListMoves DEF Moved
    <3> QED
      BY <3>1, ReadsMove
  <2>4. CASE hset(c)
    <3>1. Shape' /\ Others(c) /\ reqs'[c] = NoRequest
      BY <2>1, <2>4, ListMoves DEF Moved
    <3> QED
      BY <1>1, <3>1, ReadsMove
  <2>5. CASE hsetAll(c)
    <3>1. CASE Answers(c)
      <4>1. Shape' /\ Others(c) /\ reqs'[c] = NoRequest
        BY <3>1, Over
      <4> QED
        BY <1>1, <4>1, ReadsMove
    <3>2. ASSUME NEW p, reqs' = [reqs EXCEPT ![c].read = @ \ {p}]
          PROVE  Shape' /\ Reads'
      <4>1. Shape' /\ Others(c) /\ At(c, "hsetAll")'
        BY <2>5, <3>2, DropMoved DEF hsetAll, Moved
      <4> QED
        BY <4>1, ReadsMove
    <3> QED
      BY <2>5, <3>1, <3>2 DEF hsetAll
  <2> QED
    BY <1>6, <2>2, <2>3, <2>4, <2>5 DEF ListStep
<1>7. ASSUME NEW c \in Clients, SandboxStep(c) PROVE Shape' /\ Reads'
  <2>1. CASE createSession(c) \/ setQuota(c) \/ incr(c) \/ close(c) \/ delQuota(c)
    BY <2>1, QuietReads DEF createSession, setQuota, incr, close, delQuota
  <2>2. CASE getActiveSession(c) \/ checkSandboxQuota(c)
    BY <2>2, QuietReads DEF getActiveSession, checkSandboxQuota
  <2> QED
    BY <1>7, <2>1, <2>2 DEF SandboxStep
<1>8. CASE UNCHANGED reqs
  BY <1>8 DEF Shape, Reads, At
<1>9. ASSUME \/ \E k \in ApiKeys : keyExpires(k) \/ passesExpiry(k)
             \/ \E l \in Limits : windowEnds(l)
             \/ listExpires \/ sessionExpires \/ UNCHANGED vars
      PROVE  UNCHANGED reqs
  BY <1>9 DEF keyExpires, passesExpiry, windowEnds, listExpires, sessionExpires, vars
<1> QED
  BY <1>2, <1>3, <1>4, <1>5, <1>6, <1>7, <1>8, <1>9 DEF Next

-----------------------------------------------------------------------------
(* The cache of API keys. *)

\* No validation is about to cache a revoked key, and if the cache has it then the
\* request that revoked it is about to delete it there.
Deleting(k) == \E c \in Clients : At(c, "delKey") /\ reqs[c].key = k
KeyInv ==
  \A k \in ApiKeys \ raced :
    keys[k] = "revoked" => ~Validating(k) /\ (k \in keyCache => Deleting(k))

LEMMA KeyInvRefuses == Shape /\ KeyInv => RevokedIsRefused
  BY OpOf DEF KeyInv, Deleting, RevokedIsRefused

\* A step that neither revokes a key nor caches one.
LEMMA KeyQuiet ==
  ASSUME KeyInv, UNCHANGED keys, keyCache' \subseteq keyCache,
         raced \intersect ApiKeys \subseteq raced',
         \/ UNCHANGED reqs
         \/ \E c \in Clients :
              /\ Others(c)
              /\ At(c, "setCache")' => keys[reqs'[c].key] = "active"
              /\ At(c, "delKey") => reqs[c].key \in raced' \/ reqs[c].key \notin keyCache'
  PROVE  KeyInv'
<1> SUFFICES ASSUME NEW k \in ApiKeys, k \notin raced', keys[k] = "revoked"
             PROVE  ~Validating(k)' /\ (k \in keyCache' => Deleting(k)')
  BY DEF KeyInv
<1>1. k \notin raced /\ ~Validating(k) /\ (k \in keyCache => Deleting(k))
  BY DEF KeyInv
<1>2. CASE UNCHANGED reqs
  BY <1>1, <1>2 DEF Validating, Deleting, At
<1>3. ASSUME NEW c \in Clients, Others(c),
             At(c, "setCache")' => keys[reqs'[c].key] = "active",
             At(c, "delKey") => reqs[c].key \in raced' \/ reqs[c].key \notin keyCache'
      PROVE  ~Validating(k)' /\ (k \in keyCache' => Deleting(k)')
  <2>1. \A d \in Clients \ {c} : reqs'[d] = reqs[d]
    BY <1>3 DEF Others
  <2>2. ~Validating(k)'
    BY <1>1, <1>3, <2>1 DEF Validating, At
  <2>3. k \in keyCache' => Deleting(k)'
    BY <1>1, <1>3, <2>1 DEF Deleting, At
  <2> QED
    BY <2>2, <2>3
<1> QED
  BY <1>2, <1>3

LEMMA KeyMoved ==
  ASSUME KeyInv, UNCHANGED keys, keyCache' \subseteq keyCache,
         raced \intersect ApiKeys \subseteq raced',
         NEW c \in Clients, NEW a, Moved(c, a), a \notin {"findKey", "delKey"}
  PROVE  KeyInv'
<1>1. Others(c) /\ ~At(c, "setCache")' /\ ~At(c, "delKey")
  BY DEF Moved, At
<1> QED
  BY <1>1, KeyQuiet

LEMMA KeyNext ==
  ASSUME Shape, Types, KeyInv, [Next]_vars
  PROVE  KeyInv'
<1>1. ASSUME NEW c \in Clients, request(c) \/ revokeApiKey(c) PROVE KeyInv'
  <2>1. Others(c) /\ UNCHANGED <<keys, keyCache, raced>>
    BY <1>1, StartMoved DEF tables, redis, history
  <2>2. ~At(c, "delKey") /\ ~At(c, "setCache")'
    BY <1>1, StartAt
  <2> QED
    BY <2>1, <2>2, KeyQuiet
<1>2. ASSUME NEW c \in Clients, fails(c) PROVE KeyInv'
  <2>1. /\ Others(c) /\ reqs'[c] = NoRequest
        /\ UNCHANGED <<keys, keyCache>> /\ raced \subseteq raced'
    BY <1>2, Over DEF fails, tables, redis
  <2>2. ~At(c, "setCache")'
    BY <2>1 DEF At, NoRequest
  <2>3. At(c, "delKey") => reqs[c].key \in raced'
    BY <1>2, OpOf DEF fails
  <2> QED
    BY <2>1, <2>2, <2>3, KeyQuiet
<1>3. ASSUME NEW c \in Clients, Validation(c) PROVE KeyInv'
  <2>1. CASE getFromCache(c)
    BY <2>1, ValidationMoves, KeyMoved DEF getFromCache, ValidationLeaves, tables
  <2>2. CASE findKey(c)
    <3>1. Moved(c, "findKey") /\ UNCHANGED <<keys, keyCache, raced>>
      BY <2>2, ValidationMoves DEF findKey, ValidationLeaves, tables
    <3>2. ASSUME At(c, "setCache")' PROVE keys[reqs'[c].key] = "active"
      <4>1. reqs'[c] # NoRequest
        BY <3>2 DEF At, NoRequest
      <4>2. reqs'[c].key = reqs[c].key
        BY <3>1, <4>1 DEF Moved
      <4>3. ~Answers(c)
        BY <2>2, <4>1, Over DEF findKey
      <4> QED
        BY <2>2, <4>2, <4>3 DEF findKey
    <3>3. Others(c) /\ ~At(c, "delKey")
      BY <3>1 DEF Moved, At
    <3> QED
      BY <3>1, <3>2, <3>3, KeyQuiet
  <2>3. CASE setCache(c)
    <3>1. /\ Moved(c, "setCache") /\ At(c, "setCache")
          /\ keyCache' = keyCache \union {reqs[c].key} /\ UNCHANGED <<keys, raced>>
      BY <2>3, ValidationMoves DEF setCache, ValidationLeaves, tables
    <3>2. Others(c) /\ ~At(c, "setCache")' /\ ~At(c, "delKey")
      BY <3>1 DEF Moved, At
    <3> SUFFICES ASSUME NEW k \in ApiKeys, k \notin raced, keys[k] = "revoked"
                 PROVE  ~Validating(k)' /\ (k \in keyCache' => Deleting(k)')
      BY <3>1 DEF KeyInv
    <3>3. ~Validating(k) /\ (k \in keyCache => Deleting(k))
      BY DEF KeyInv
    <3>4. k # reqs[c].key
      BY <3>1, <3>3 DEF Validating
    <3>5. \A d \in Clients \ {c} : reqs'[d] = reqs[d]
      BY <3>2 DEF Others
    <3>6. ~Validating(k)'
      BY <3>2, <3>3, <3>5 DEF Validating, At
    <3>7. Deleting(k) => Deleting(k)'
      BY <3>2, <3>5 DEF Deleting, At
    <3> QED
      BY <3>1, <3>3, <3>4, <3>6, <3>7
  <2>4. CASE deactivate(c)
    <3>1. /\ Moved(c, "deactivate") /\ At(c, "deactivate")
          /\ At(c, "delKey")' /\ reqs'[c].key = reqs[c].key
          /\ keys' = [keys EXCEPT ![reqs[c].key] = "revoked"] /\ UNCHANGED keyCache
          /\ raced' = IF Validating(reqs[c].key) THEN raced \union {reqs[c].key} ELSE raced
      BY <2>4, ValidationMoves DEF deactivate, redis
    <3>2. Others(c) /\ ~At(c, "setCache")' /\ ~At(c, "delKey")
      BY <3>1 DEF Moved, At
    <3> SUFFICES ASSUME NEW k \in ApiKeys, k \notin raced', keys'[k] = "revoked"
                 PROVE  ~Validating(k)' /\ (k \in keyCache' => Deleting(k)')
      BY DEF KeyInv
    <3>3. \A d \in Clients \ {c} : reqs'[d] = reqs[d]
      BY <3>2 DEF Others
    <3>4. ~Validating(k) => ~Validating(k)'
      BY <3>2, <3>3 DEF Validating, At
    <3>5. CASE k = reqs[c].key
      <4>1. ~Validating(k)
        BY <3>1, <3>5
      <4>2. Deleting(k)'
        BY <3>1, <3>5 DEF Deleting
      <4> QED
        BY <3>4, <4>1, <4>2
    <3>6. CASE k # reqs[c].key
      <4>1. k \notin raced /\ keys[k] = "revoked"
        BY <3>1, <3>6 DEF Types
      <4>2. ~Validating(k) /\ (k \in keyCache => Deleting(k))
        BY <4>1 DEF KeyInv
      <4>3. Deleting(k) => Deleting(k)'
        BY <3>2, <3>3 DEF Deleting, At
      <4> QED
        BY <3>1, <3>4, <4>2, <4>3
    <3> QED
      BY <3>5, <3>6
  <2>5. CASE delExpired(c)
    BY <2>5, ValidationMoves, KeyMoved DEF delExpired, ValidationLeaves, tables
  <2>6. CASE delKey(c)
    <3>1. /\ Moved(c, "delKey") /\ UNCHANGED <<keys, raced>>
          /\ keyCache' = keyCache \ {reqs[c].key}
      BY <2>6, ValidationMoves DEF delKey, ValidationLeaves, tables
    <3>2. Others(c) /\ ~At(c, "setCache")'
      BY <3>1 DEF Moved
    <3> QED
      BY <3>1, <3>2, KeyQuiet
  <2> QED
    BY <1>3, <2>1, <2>2, <2>3, <2>4, <2>6, <2>5 DEF Validation
<1>4. ASSUME NEW c \in Clients, NEW l \in Limits, checkLimit(c, l) PROVE KeyInv'
  <2>1. l \notin {"findKey", "delKey"}
    <3>1. "findKey" = Validate[3]
      BY DEF Validate
    <3> QED
      BY <3>1, NamesAssumption, StepsApart DEF Steps, OpSteps
  <2>2. Moved(c, l) /\ UNCHANGED <<keys, keyCache, raced>>
    BY <1>4, ValidationMoves DEF checkLimit, tables
  <2> QED
    BY <2>1, <2>2, KeyMoved
<1>5. ASSUME NEW c \in Clients, ListStep(c) PROVE KeyInv'
  <2>1. \E a : Moved(c, a) /\ a \notin {"findKey", "delKey"}
    BY <1>5, ListMoves DEF ListStep, Types
  <2>2. UNCHANGED <<keys, keyCache>> /\ raced \subseteq raced'
    BY <1>5 DEF ListStep, hget, findUnique, hset, findEntry, create, deleteEntry, del,
                findMany, hsetAll, Change, ListLeaves
  <2> QED
    BY <2>1, <2>2, KeyMoved
<1>6. ASSUME NEW c \in Clients, SandboxStep(c) PROVE KeyInv'
  <2>1. \E a : Moved(c, a) /\ a \notin {"findKey", "delKey"}
    BY <1>6, SandboxMoves DEF SandboxStep
  <2>2. UNCHANGED <<keys, keyCache, raced>>
    BY <1>6 DEF SandboxStep, createSession, setQuota, getActiveSession, checkSandboxQuota,
                incr, close, delQuota, SandboxLeaves
  <2> QED
    BY <2>1, <2>2, KeyMoved
<1>7. ASSUME NEW k \in ApiKeys, keyExpires(k) PROVE KeyInv'
  <2>1. /\ keyCache' = keyCache \ {k} /\ UNCHANGED <<keys, reqs>>
        /\ raced' = IF Validating(k) THEN raced ELSE raced \ {k}
    BY <1>7 DEF keyExpires, ValidationLeaves, tables
  <2> SUFFICES ASSUME NEW j \in ApiKeys, j \notin raced', keys[j] = "revoked"
               PROVE  ~Validating(j)' /\ (j \in keyCache' => Deleting(j)')
    BY <2>1 DEF KeyInv
  <2>2. (Validating(j)' <=> Validating(j)) /\ (Deleting(j)' <=> Deleting(j))
    BY <2>1 DEF Validating, Deleting, At
  <2>3. CASE j \notin raced
    BY <2>1, <2>2, <2>3 DEF KeyInv
  <2>4. CASE j \in raced
    BY <2>1, <2>2, <2>4
  <2> QED
    BY <2>3, <2>4
<1>8. CASE listExpires
  <2>1. raced \intersect ApiKeys \subseteq raced'
    BY <1>8, IdsAssumption DEF listExpires
  <2> QED
    BY <1>8, <2>1, KeyQuiet DEF listExpires, ListLeaves
<1>9. ASSUME \/ \E k \in ApiKeys : passesExpiry(k)
             \/ \E l \in Limits : windowEnds(l)
             \/ sessionExpires \/ UNCHANGED vars
      PROVE  KeyInv'
  <2>1. UNCHANGED <<keys, keyCache, raced, reqs>>
    BY <1>9 DEF passesExpiry, windowEnds, sessionExpires, SandboxLeaves, vars, tables,
                redis, history
  <2> QED
    BY <2>1, KeyQuiet
<1> QED
  BY <1>1, <1>2, <1>3, <1>4, <1>5, <1>6, <1>7, <1>8, <1>9 DEF Next

-----------------------------------------------------------------------------
(* The cache of the list. *)

\* Who is about to write what it has read of a phone has read what the table says; and if
\* the cache says something else then a request is about to delete the hash.
Told(p) == IF p \in listed THEN "1" ELSE "0"
Syncing(p) == \E c \in Clients : At(c, "del") /\ reqs[c].phone = p
ListInvOf(p) ==
  /\ \A c \in Clients : At(c, "hset") /\ reqs[c].phone = p =>
       reqs[c].read = listed \intersect {p}
  /\ \A c \in Clients : At(c, "hsetAll") /\ p \in reqs[c].read => p \in listed
  /\ cached[p] \in {"none", Told(p)} \/ Syncing(p)
ListInv == \A p \in Phones \ raced : ListInvOf(p)

LEMMA ListInvCached == Shape /\ ListInv => ListIsCached
<1> SUFFICES ASSUME Shape, ListInv, NEW p \in Phones \ raced, ~Changing(p)
             PROVE  cached[p] \in {"none", Told(p)}
  BY DEF ListIsCached, Told
<1>1. ~Syncing(p)
  BY OpOf DEF Syncing, Changing
<1> QED
  BY <1>1 DEF ListInv, ListInvOf

\* A step that neither changes the list nor writes what it has read of it.
LEMMA ListQuiet ==
  ASSUME ListInv, UNCHANGED listed, raced \intersect Phones \subseteq raced',
         \A p \in Phones : cached'[p] \in {cached[p], "none"},
         \/ UNCHANGED reqs
         \/ \E c \in Clients :
              /\ Others(c) /\ ~At(c, "hset")' /\ ~At(c, "hsetAll")'
              /\ At(c, "del") => \/ reqs[c].phone \in raced'
                                 \/ \A p \in Phones : cached'[p] = "none"
  PROVE  ListInv'
<1> SUFFICES ASSUME NEW p \in Phones, p \notin raced' PROVE ListInvOf(p)'
  BY DEF ListInv
<1>1. ListInvOf(p) /\ (Told(p)' = Told(p))
  BY DEF ListInv, Told
<1>2. CASE UNCHANGED reqs
  BY <1>1, <1>2 DEF ListInvOf, Syncing, At
<1>3. ASSUME NEW c \in Clients, Others(c), ~At(c, "hset")', ~At(c, "hsetAll")',
             At(c, "del") => \/ reqs[c].phone \in raced'
                             \/ \A q \in Phones : cached'[q] = "none"
      PROVE  ListInvOf(p)'
  <2>1. \A d \in Clients \ {c} : reqs'[d] = reqs[d]
    BY <1>3 DEF Others
  <2>2. \A d \in Clients : At(d, "hset")' /\ reqs'[d].phone = p =>
          reqs'[d].read = listed' \intersect {p}
    BY <1>1, <1>3, <2>1 DEF ListInvOf, At
  <2>3. \A d \in Clients : At(d, "hsetAll")' /\ p \in reqs'[d].read => p \in listed'
    BY <1>1, <1>3, <2>1 DEF ListInvOf, At
  <2>4. Syncing(p) => Syncing(p)' \/ cached'[p] = "none"
    BY <1>3, <2>1 DEF Syncing, At
  <2>5. cached'[p] \in {"none", Told(p)'} \/ Syncing(p)'
    BY <1>1, <2>4 DEF ListInvOf
  <2> QED
    BY <2>2, <2>3, <2>5 DEF ListInvOf
<1> QED
  BY <1>2, <1>3

LEMMA ListMoved ==
  ASSUME ListInv, UNCHANGED listed, raced \intersect Phones \subseteq raced',
         UNCHANGED cached, NEW c \in Clients, NEW a, Moved(c, a),
         a \notin {"findUnique", "findMany", "hsetAll", "del"}
  PROVE  ListInv'
<1>1. Others(c) /\ ~At(c, "hset")' /\ ~At(c, "hsetAll")' /\ ~At(c, "del")
  BY DEF Moved, At
<1> QED
  BY <1>1, ListQuiet

\* A phone is added to the list, or removed.
LEMMA ListChanged ==
  ASSUME ListInv, NEW c \in Clients, reqs[c].phone \in Phones,
         Moved(c, "create") \/ Moved(c, "delete"),
         At(c, "del")', reqs'[c].phone = reqs[c].phone, Change(c),
         \A p \in Phones \ {reqs[c].phone} : p \in listed' <=> p \in listed
  PROVE  ListInv'
<1>1. /\ Others(c) /\ ~At(c, "hset")' /\ ~At(c, "hsetAll")' /\ ~At(c, "del")
  BY DEF Moved, At
<1>2. /\ UNCHANGED cached
      /\ raced' = IF Reading(reqs[c].phone) THEN raced \union {reqs[c].phone} ELSE raced
  BY DEF Change
<1> SUFFICES ASSUME NEW p \in Phones, p \notin raced' PROVE ListInvOf(p)'
  BY DEF ListInv
<1>3. p \notin raced /\ ListInvOf(p)
  BY <1>2 DEF ListInv
<1>4. \A d \in Clients \ {c} : reqs'[d] = reqs[d]
  BY <1>1 DEF Others
<1>5. CASE p = reqs[c].phone
  <2>1. ~Reading(p)
    BY <1>2, <1>5
  <2>2. \A d \in Clients : ~(At(d, "hset")' /\ reqs'[d].phone = p) /\ ~At(d, "hsetAll")'
    BY <1>1, <1>4, <2>1 DEF Reading, At
  <2>3. Syncing(p)'
    BY <1>5 DEF Syncing
  <2> QED
    BY <2>2, <2>3 DEF ListInvOf
<1>6. CASE p # reqs[c].phone
  <2>1. Told(p)' = Told(p) /\ listed' \intersect {p} = listed \intersect {p}
    BY <1>6 DEF Told
  <2>2. Syncing(p) => Syncing(p)'
    BY <1>1, <1>4 DEF Syncing, At
  <2>3. \A d \in Clients : At(d, "hset")' /\ reqs'[d].phone = p =>
          reqs'[d].read = listed' \intersect {p}
    BY <1>1, <1>3, <1>4, <2>1 DEF ListInvOf, At
  <2>4. \A d \in Clients : At(d, "hsetAll")' /\ p \in reqs'[d].read => p \in listed'
    BY <1>1, <1>3, <1>4, <1>6 DEF ListInvOf, At
  <2> QED
    BY <1>2, <1>3, <2>1, <2>2, <2>3, <2>4 DEF ListInvOf
<1> QED
  BY <1>5, <1>6

LEMMA ListNext ==
  ASSUME Shape, Types, Reads, ListInv, [Next]_vars
  PROVE  ListInv'
<1>1. listed \subseteq Phones /\ cached \in [Phones -> {"none", "0", "1"}]
  BY DEF Types
<1>2. ASSUME NEW c \in Clients, request(c) \/ revokeApiKey(c) PROVE ListInv'
  <2>1. Others(c) /\ UNCHANGED <<listed, cached, raced>>
    BY <1>2, StartMoved DEF tables, redis, history
  <2>2. ~At(c, "del") /\ ~At(c, "hset")' /\ ~At(c, "hsetAll")'
    BY <1>2, StartAt
  <2> QED
    BY <2>1, <2>2, ListQuiet
<1>3. ASSUME NEW c \in Clients, fails(c) PROVE ListInv'
  <2>1. /\ Others(c) /\ reqs'[c] = NoRequest
        /\ UNCHANGED <<listed, cached>> /\ raced \subseteq raced'
    BY <1>3, Over DEF fails, tables, redis
  <2>2. \A b : ~At(c, b)'
    BY <2>1 DEF At, NoRequest
  <2>3. At(c, "del") => reqs[c].phone \in raced'
    BY <1>3, OpOf DEF fails, OfPhone
  <2> QED
    BY <2>1, <2>2, <2>3, ListQuiet
<1>4. ASSUME NEW c \in Clients, Validation(c) PROVE ListInv'
  <2>1. \E a : Moved(c, a) /\ a \notin {"findUnique", "findMany", "hsetAll", "del"}
    BY <1>4, ValidationMoves DEF Validation
  <2>2. UNCHANGED <<listed, cached>> /\ raced \subseteq raced'
    BY <1>4 DEF Validation, getFromCache, delExpired, findKey, setCache,
                deactivate, delKey, ValidationLeaves, tables, redis
  <2> QED
    BY <2>1, <2>2, ListMoved
<1>5. ASSUME NEW c \in Clients, NEW l \in Limits, checkLimit(c, l) PROVE ListInv'
  <2>1. l \notin {"findUnique", "findMany", "hsetAll", "del"}
    BY StepsApart DEF Steps, OpSteps
  <2>2. Moved(c, l) /\ UNCHANGED <<listed, cached, raced>>
    BY <1>5, ValidationMoves DEF checkLimit, tables
  <2> QED
    BY <2>1, <2>2, ListMoved
<1>6. ASSUME NEW c \in Clients, ListStep(c) PROVE ListInv'
  <2>1. CASE hget(c) \/ findEntry(c)
    <3>1. \E a : Moved(c, a) /\ a \notin {"findUnique", "findMany", "hsetAll", "del"}
      BY <1>1, <2>1, ListMoves
    <3>2. UNCHANGED <<listed, cached, raced>>
      BY <2>1 DEF hget, findEntry
    <3> QED
      BY <3>1, <3>2, ListMoved
  <2>2. CASE findUnique(c)
    <3>1. /\ Moved(c, "findUnique") /\ At(c, "hset")' /\ reqs'[c].phone = reqs[c].phone
          /\ reqs'[c].read = listed \intersect {reqs[c].phone}
          /\ UNCHANGED <<listed, cached, raced>>
      BY <1>1, <2>2, ListMoves DEF findUnique
    <3>2. Others(c) /\ ~At(c, "hsetAll")' /\ ~At(c, "del")
      BY <3>1 DEF Moved, At
    <3> SUFFICES ASSUME NEW p \in Phones \ raced PROVE ListInvOf(p)'
      BY <3>1 DEF ListInv
    <3>3. \A d \in Clients \ {c} : reqs'[d] = reqs[d]
      BY <3>2 DEF Others
    <3>4. ListInvOf(p) /\ Told(p)' = Told(p)
      BY <3>1 DEF ListInv, Told
    <3>5. Syncing(p) => Syncing(p)'
      BY <3>2, <3>3 DEF Syncing, At
    <3>6. \A d \in Clients : At(d, "hset")' /\ reqs'[d].phone = p =>
            reqs'[d].read = listed' \intersect {p}
      BY <3>1, <3>3, <3>4 DEF ListInvOf, At
    <3>7. \A d \in Clients : At(d, "hsetAll")' /\ p \in reqs'[d].read => p \in listed'
      BY <3>1, <3>2, <3>3, <3>4 DEF ListInvOf, At
    <3> QED
      BY <3>1, <3>4, <3>5, <3>6, <3>7 DEF ListInvOf
  <2>3. CASE hset(c)
    <3>1. /\ Moved(c, "hset") /\ At(c, "hset") /\ UNCHANGED <<listed, raced>>
          /\ cached' = [cached EXCEPT ![reqs[c].phone] =
                          IF reqs[c].read = {} THEN "0" ELSE "1"]
      BY <1>1, <2>3, ListMoves DEF hset
    <3>2. Others(c) /\ ~At(c, "hset")' /\ ~At(c, "hsetAll")' /\ ~At(c, "del")
      BY <3>1 DEF Moved, At
    <3> SUFFICES ASSUME NEW p \in Phones \ raced PROVE ListInvOf(p)'
      BY <3>1 DEF ListInv
    <3>3. \A d \in Clients \ {c} : reqs'[d] = reqs[d]
      BY <3>2 DEF Others
    <3>4. ListInvOf(p) /\ Told(p)' = Told(p)
      BY <3>1 DEF ListInv, Told
    <3>5. Syncing(p) => Syncing(p)'
      BY <3>2, <3>3 DEF Syncing, At
    <3>6. \A d \in Clients : At(d, "hset")' /\ reqs'[d].phone = p =>
            reqs'[d].read = listed' \intersect {p}
      BY <3>1, <3>2, <3>3, <3>4 DEF ListInvOf, At
    <3>7. \A d \in Clients : At(d, "hsetAll")' /\ p \in reqs'[d].read => p \in listed'
      BY <3>1, <3>2, <3>3, <3>4 DEF ListInvOf, At
    <3>8. cached'[p] \in {"none", Told(p)} \/ Syncing(p)
      <4>1. CASE p = reqs[c].phone
        <5>1. reqs[c].read = listed \intersect {p}
          BY <3>1, <3>4, <4>1 DEF ListInvOf
        <5>2. cached'[p] = IF reqs[c].read = {} THEN "0" ELSE "1"
          BY <1>1, <3>1, <4>1
        <5> QED
          BY <5>1, <5>2 DEF Told
      <4>2. CASE p # reqs[c].phone
        <5>1. cached'[p] = cached[p]
          BY <1>1, <3>1, <4>2
        <5> QED
          BY <3>4, <5>1 DEF ListInvOf
      <4> QED
        BY <4>1, <4>2
    <3> QED
      BY <3>4, <3>5, <3>6, <3>7, <3>8 DEF ListInvOf
  <2>4. CASE create(c) \/ deleteEntry(c)
    <3>1. /\ Moved(c, "create") \/ Moved(c, "delete")
          /\ reqs[c].phone \in Phones
      BY <1>1, <2>4, ListMoves, OpOf DEF create, deleteEntry
    <3>2. CASE UNCHANGED <<listed, cached, raced>>
      <4>1. \E a : Moved(c, a) /\ a \notin {"findUnique", "findMany", "hsetAll", "del"}
        BY <3>1
      <4> QED
        BY <3>2, <4>1, ListMoved
    <3>3. ASSUME Goes(c), Change(c),
                 \A p \in Phones \ {reqs[c].phone} : p \in listed' <=> p \in listed
          PROVE  ListInv'
      <4>1. At(c, "create") \/ At(c, "delete")
        BY <3>1 DEF Moved
      <4>2. At(c, "del")' /\ reqs'[c].phone = reqs[c].phone
        BY <3>3, <4>1, GoesMoved
      <4> QED
        BY <3>1, <3>3, <4>2, ListChanged
    <3> QED
      BY <2>4, <3>2, <3>3 DEF create, deleteEntry
  <2>5. CASE del(c)
    <3>1. /\ Moved(c, "del") /\ UNCHANGED <<listed, raced>>
          /\ \A p \in Phones : cached'[p] = "none"
      BY <1>1, <2>5, ListMoves DEF del
    <3>2. Others(c) /\ ~At(c, "hset")' /\ ~At(c, "hsetAll")'
      BY <3>1 DEF Moved
    <3> QED
      BY <3>1, <3>2, ListQuiet
  <2>6. CASE findMany(c)
    <3>1. /\ Moved(c, "findMany") /\ At(c, "hsetAll")' /\ reqs'[c].read = listed
          /\ UNCHANGED <<listed, cached, raced>>
      BY <1>1, <2>6, ListMoves DEF findMany
    <3>2. Others(c) /\ ~At(c, "hset")' /\ ~At(c, "del")
      BY <3>1 DEF Moved, At
    <3> SUFFICES ASSUME NEW p \in Phones \ raced PROVE ListInvOf(p)'
      BY <3>1 DEF ListInv
    <3>3. \A d \in Clients \ {c} : reqs'[d] = reqs[d]
      BY <3>2 DEF Others
    <3>4. ListInvOf(p) /\ Told(p)' = Told(p)
      BY <3>1 DEF ListInv, Told
    <3>5. Syncing(p) => Syncing(p)'
      BY <3>2, <3>3 DEF Syncing, At
    <3>6. \A d \in Clients : At(d, "hset")' /\ reqs'[d].phone = p =>
            reqs'[d].read = listed' \intersect {p}
      BY <3>1, <3>2, <3>3, <3>4 DEF ListInvOf, At
    <3>7. \A d \in Clients : At(d, "hsetAll")' /\ p \in reqs'[d].read => p \in listed'
      BY <3>1, <3>3, <3>4 DEF ListInvOf, At
    <3> QED
      BY <3>1, <3>4, <3>5, <3>6, <3>7 DEF ListInvOf
  <2>7. CASE hsetAll(c)
    <3>1. /\ Moved(c, "hsetAll") /\ At(c, "hsetAll") /\ UNCHANGED <<listed, raced>>
          /\ reqs'[c].read \subseteq reqs[c].read
          /\ \A p \in Phones :
               cached'[p] = cached[p] \/ (p \in reqs[c].read /\ cached'[p] = "1")
      BY <1>1, <2>7, ListMoves DEF hsetAll
    <3>2. Others(c) /\ ~At(c, "hset")' /\ ~At(c, "del")
      BY <3>1 DEF Moved, At
    <3> SUFFICES ASSUME NEW p \in Phones \ raced PROVE ListInvOf(p)'
      BY <3>1 DEF ListInv
    <3>3. \A d \in Clients \ {c} : reqs'[d] = reqs[d]
      BY <3>2 DEF Others
    <3>4. ListInvOf(p) /\ Told(p)' = Told(p)
      BY <3>1 DEF ListInv, Told
    <3>5. Syncing(p) => Syncing(p)'
      BY <3>2, <3>3 DEF Syncing, At
    <3>6. \A d \in Clients : At(d, "hset")' /\ reqs'[d].phone = p =>
            reqs'[d].read = listed' \intersect {p}
      BY <3>1, <3>2, <3>3, <3>4 DEF ListInvOf, At
    <3>7. \A d \in Clients : At(d, "hsetAll")' /\ p \in reqs'[d].read => p \in listed'
      BY <3>1, <3>3, <3>4 DEF ListInvOf, At
    <3>8. cached'[p] \in {"none", Told(p)} \/ Syncing(p)
      BY <3>1, <3>4 DEF ListInvOf, Told
    <3> QED
      BY <3>4, <3>5, <3>6, <3>7, <3>8 DEF ListInvOf
  <2> QED
    BY <1>6, <2>1, <2>2, <2>3, <2>4, <2>5, <2>6, <2>7 DEF ListStep
<1>7. ASSUME NEW c \in Clients, SandboxStep(c) PROVE ListInv'
  <2>1. \E a : Moved(c, a) /\ a \notin {"findUnique", "findMany", "hsetAll", "del"}
    BY <1>7, SandboxMoves DEF SandboxStep
  <2>2. UNCHANGED <<listed, cached, raced>>
    BY <1>7 DEF SandboxStep, createSession, setQuota, getActiveSession, checkSandboxQuota,
                incr, close, delQuota, SandboxLeaves
  <2> QED
    BY <2>1, <2>2, ListMoved
<1>8. ASSUME NEW k \in ApiKeys, keyExpires(k) PROVE ListInv'
  <2>1. raced \intersect Phones \subseteq raced'
    BY <1>8, IdsAssumption DEF keyExpires
  <2> QED
    BY <1>8, <2>1, ListQuiet DEF keyExpires, ValidationLeaves, tables
<1>9. CASE listExpires
  <2>1. /\ UNCHANGED <<listed, reqs>> /\ \A p \in Phones : cached'[p] = "none"
        /\ raced' = raced \ {p \in Phones : ~Reading(p)}
    BY <1>9 DEF listExpires
  <2> SUFFICES ASSUME NEW p \in Phones, p \notin raced' PROVE ListInvOf(p)'
    BY DEF ListInv
  <2>2. CASE p \notin raced
    BY <2>1, <2>2 DEF ListInv, ListInvOf, At
  <2>3. CASE ~Reading(p)
    BY <2>1, <2>3 DEF Reading, ListInvOf, At
  <2> QED
    BY <2>1, <2>2, <2>3
<1>10. ASSUME \/ \E k \in ApiKeys : passesExpiry(k)
              \/ \E l \in Limits : windowEnds(l)
              \/ sessionExpires \/ UNCHANGED vars
       PROVE  ListInv'
  <2>1. UNCHANGED <<listed, cached, raced, reqs>>
    BY <1>10 DEF passesExpiry, windowEnds, sessionExpires, SandboxLeaves, vars, tables,
                redis, history
  <2> QED
    BY <2>1, ListQuiet
<1> QED
  BY <1>2, <1>3, <1>4, <1>5, <1>6, <1>7, <1>8, <1>9, <1>10 DEF Next

-----------------------------------------------------------------------------
(* The counts. *)

N == Cardinality(Clients)

LEMMA Card ==
  ASSUME NEW S \in SUBSET Clients, NEW T \in SUBSET Clients, NEW c \in Clients
  PROVE  /\ Cardinality(S) \in Nat /\ Cardinality(T) \in Nat /\ N \in Nat /\ N >= 1
         /\ T \subseteq S => Cardinality(T) <= Cardinality(S)
         /\ c \in S /\ T \subseteq S \ {c} => Cardinality(T) <= Cardinality(S) - 1
         /\ T \subseteq S \union {c} => Cardinality(T) <= Cardinality(S) + 1
         /\ T \subseteq Clients \ {c} => Cardinality(T) <= N - 1
<1>1. IsFiniteSet(S) /\ IsFiniteSet(T) /\ IsFiniteSet(Clients)
  BY FS_Subset, ClientsAssumption
<1>2. Cardinality(S) \in Nat /\ Cardinality(T) \in Nat /\ N \in Nat
  BY <1>1, FS_CardinalityType DEF N
<1>3. ASSUME NEW U, IsFiniteSet(U), NEW V, V \subseteq U
      PROVE  Cardinality(V) <= Cardinality(U)
  BY <1>3, FS_Subset
<1>4. ASSUME NEW U, IsFiniteSet(U), c \in U
      PROVE  IsFiniteSet(U \ {c}) /\ Cardinality(U \ {c}) = Cardinality(U) - 1
  BY <1>4, FS_RemoveElement
<1>5. N >= 1
  <2>1. Cardinality(Clients \ {c}) = N - 1 /\ IsFiniteSet(Clients \ {c})
    BY <1>1, <1>4 DEF N
  <2>2. Cardinality(Clients \ {c}) \in Nat
    BY <2>1, FS_CardinalityType
  <2> QED
    BY <1>2, <2>1, <2>2
<1>6. T \subseteq S => Cardinality(T) <= Cardinality(S)
  BY <1>1, <1>3
<1>7. c \in S /\ T \subseteq S \ {c} => Cardinality(T) <= Cardinality(S) - 1
  BY <1>1, <1>3, <1>4
<1>8. T \subseteq Clients \ {c} => Cardinality(T) <= N - 1
  BY <1>1, <1>3, <1>4 DEF N
<1>9. T \subseteq S \union {c} => Cardinality(T) <= Cardinality(S) + 1
  <2>1. /\ IsFiniteSet(S \union {c})
        /\ Cardinality(S \union {c}) = IF c \in S THEN Cardinality(S) ELSE Cardinality(S) + 1
    BY <1>1, FS_AddElement
  <2>2. IsFiniteSet(S \union {c}) /\ Cardinality(S \union {c}) <= Cardinality(S) + 1
    BY <1>2, <2>1
  <2> SUFFICES ASSUME T \subseteq S \union {c} PROVE Cardinality(T) <= Cardinality(S) + 1
    OBVIOUS
  <2>3. Cardinality(T) <= Cardinality(S \union {c})
    BY <1>3, <2>2
  <2>4. Cardinality(S \union {c}) \in Nat
    BY <2>2, FS_CardinalityType
  <2> QED
    BY <1>2, <2>2, <2>3, <2>4
<1> QED
  BY <1>2, <1>5, <1>6, <1>7, <1>8, <1>9

\* A request that is not over has an await before it, so its end is a move as well.
LEMMA FailMoved ==
  ASSUME Shape, NEW c \in Clients, fails(c)
  PROVE  \E a : Moved(c, a)
<1>1. At(c, Head(reqs[c].todo)) /\ Answers(c)
  BY DEF fails, Shape, Shaped, At
<1> QED
  BY <1>1, OverMoved

\* A step begins a request, or moves one, or leaves them all.
LEMMA AnyMove ==
  ASSUME Shape, Types, [Next]_vars
  PROVE  \/ \E c \in Clients : request(c) \/ revokeApiKey(c)
         \/ \E c \in Clients : \E a : Moved(c, a)
         \/ UNCHANGED reqs
<1>1. ASSUME NEW c \in Clients,
             fails(c) \/ Validation(c) \/ ListStep(c) \/ SandboxStep(c)
               \/ \E l \in Limits : checkLimit(c, l)
      PROVE  \E a : Moved(c, a)
  <2>1. CASE fails(c)
    BY <2>1, FailMoved
  <2>2. CASE Validation(c) \/ \E l \in Limits : checkLimit(c, l)
    BY <2>2, ValidationMoves DEF Validation
  <2>3. CASE ListStep(c)
    BY <2>3, ListMoves DEF ListStep, Types
  <2>4. CASE SandboxStep(c)
    BY <2>4, SandboxMoves DEF SandboxStep
  <2> QED
    BY <1>1, <2>1, <2>2, <2>3, <2>4
<1>2. ASSUME \/ \E k \in ApiKeys : keyExpires(k) \/ passesExpiry(k)
             \/ \E l \in Limits : windowEnds(l)
             \/ listExpires \/ sessionExpires \/ UNCHANGED vars
      PROVE  UNCHANGED reqs
  BY <1>2 DEF keyExpires, passesExpiry, windowEnds, listExpires, sessionExpires, vars
<1> QED
  BY <1>1, <1>2 DEF Next

\* Requests a limit is still to count, and those that may still count as a message.
Counts(l) == {c \in Clients : \E i \in 1..Len(reqs[c].todo) : reqs[c].todo[i] = l}
Sims == {c \in Clients : reqs[c].op = "simulateInbound"}

LEMMA Shrink ==
  ASSUME Shape, UNCHANGED reqs \/ \E c \in Clients : \E a : Moved(c, a)
  PROVE  (\A l : Counts(l)' \subseteq Counts(l)) /\ Sims' \subseteq Sims
<1>1. CASE UNCHANGED reqs
  BY <1>1 DEF Counts, Sims
<1>2. ASSUME NEW c \in Clients, NEW a, Moved(c, a)
      PROVE  (\A l : Counts(l)' \subseteq Counts(l)) /\ Sims' \subseteq Sims
  <2>1. /\ \A d \in Clients \ {c} : reqs'[d] = reqs[d]
        /\ reqs'[c] # NoRequest => reqs'[c].op = reqs[c].op
        /\ \A i \in 1..Len(reqs'[c].todo) :
             \E j \in 1..Len(reqs[c].todo) : reqs[c].todo[j] = reqs'[c].todo[i]
    BY <1>2 DEF Moved, Others
  <2>2. NoRequest.op # "simulateInbound"
    BY DEF NoRequest
  <2>3. Sims' \subseteq Sims
    BY <2>1, <2>2 DEF Sims
  <2>4. ASSUME NEW l PROVE Counts(l)' \subseteq Counts(l)
    BY <2>1 DEF Counts
  <2> QED
    BY <2>3, <2>4
<1> QED
  BY <1>1, <1>2

LEMMA Grow ==
  ASSUME Shape, NEW c \in Clients, request(c) \/ revokeApiKey(c)
  PROVE  /\ \A l : Counts(l)' \subseteq Counts(l) \union {c}
         /\ Sims' \subseteq Sims \union {c}
<1>1. \A d \in Clients \ {c} : reqs'[d] = reqs[d]
  BY StartMoved DEF Others
<1> QED
  BY <1>1 DEF Counts, Sims

-----------------------------------------------------------------------------
(* The rate limits. *)

\* A limit has let past no more than it has counted, and has counted or is still to count
\* no more than were asked.
RateInv ==
  \A l \in Limits :
    /\ passed[l] <= counter[l] /\ passed[l] <= limit[l]
    /\ counter[l] + Cardinality(Counts(l)) <= asked

LEMMA RateNext ==
  ASSUME Shape, Types, RateInv, [Next]_vars
  PROVE  RateInv'
<1> USE LimitAssumption
<1> SUFFICES ASSUME NEW l \in Limits
             PROVE  /\ passed'[l] <= counter'[l] /\ passed'[l] <= limit[l]
                    /\ counter'[l] + Cardinality(Counts(l)') <= asked'
  BY DEF RateInv
<1>1. /\ counter[l] \in Nat /\ passed[l] \in Nat /\ limit[l] \in Nat /\ asked \in Nat
      /\ passed[l] <= counter[l] /\ passed[l] <= limit[l]
      /\ counter[l] + Cardinality(Counts(l)) <= asked
  BY BoundsInNat DEF Types, RateInv
<1>2. Counts(l) \in SUBSET Clients /\ Counts(l)' \in SUBSET Clients
  BY DEF Counts
<1>3. \E c : c \in Clients
  BY ClientsAssumption
<1>4. PICK m, n \in Nat : m = Cardinality(Counts(l)) /\ n = Cardinality(Counts(l)')
  BY <1>2, <1>3, Card
<1>5. ASSUME NEW c \in Clients, request(c) \/ revokeApiKey(c)
      PROVE  /\ passed'[l] <= counter'[l] /\ passed'[l] <= limit[l]
             /\ counter'[l] + n <= asked'
  <2>1. UNCHANGED <<counter, passed>> /\ asked' = asked + 1
    BY <1>5, StartMoved DEF redis, history
  <2>2. n <= m + 1
    BY <1>2, <1>4, <1>5, Grow, Card
  <2> QED
    BY <1>1, <1>4, <2>1, <2>2
<1>6. ASSUME UNCHANGED <<counter, passed, asked>>,
             UNCHANGED reqs \/ \E c \in Clients : \E a : Moved(c, a)
      PROVE  /\ passed'[l] <= counter'[l] /\ passed'[l] <= limit[l]
             /\ counter'[l] + n <= asked'
  <2>1. n <= m
    BY <1>2, <1>3, <1>4, <1>6, Shrink, Card
  <2> QED
    BY <1>1, <1>4, <1>6, <2>1
<1>7. ASSUME NEW c \in Clients, NEW k \in Limits, checkLimit(c, k)
      PROVE  /\ passed'[l] <= counter'[l] /\ passed'[l] <= limit[l]
             /\ counter'[l] + n <= asked'
  <2>1. Moved(c, k) /\ UNCHANGED asked
    BY <1>7, ValidationMoves DEF checkLimit
  <2>2. n <= m
    BY <1>2, <1>4, <2>1, Shrink, Card
  <2>3. CASE k # l
    <3>1. counter'[l] = counter[l] /\ passed'[l] = passed[l]
      BY <1>7, <2>3 DEF checkLimit, Types
    <3> QED
      BY <1>1, <1>4, <2>1, <2>2, <3>1
  <2>4. CASE k = l
    <3>1. /\ counter'[l] = counter[l] + 1
          /\ \/ passed'[l] = passed[l]
             \/ passed'[l] = passed[l] + 1 /\ ~(counter[l] + 1 > limit[l])
      BY <1>7, <2>4 DEF checkLimit, Exceeded, Types
    <3>2. c \in Counts(l)
      BY <2>1, <2>4, HeadOf DEF Moved, Counts
    <3>3. c \notin Counts(l)'
      BY <2>1, <2>4 DEF Moved, Counts
    <3>4. Counts(l)' \subseteq Counts(l) \ {c}
      BY <2>1, <3>3, Shrink
    <3>5. n <= m - 1
      BY <1>2, <1>4, <3>2, <3>4, Card
    <3> QED
      BY <1>1, <1>4, <2>1, <3>1, <3>5
  <2> QED
    BY <2>3, <2>4
<1>8. ASSUME NEW k \in Limits, windowEnds(k)
      PROVE  /\ passed'[l] <= counter'[l] /\ passed'[l] <= limit[l]
             /\ counter'[l] + n <= asked'
  <2>1. /\ UNCHANGED <<reqs, asked>>
        /\ \/ counter'[l] = 0 /\ passed'[l] = 0
           \/ counter'[l] = counter[l] /\ passed'[l] = passed[l]
    BY <1>8 DEF windowEnds, Types
  <2>2. n <= m
    BY <1>2, <1>3, <1>4, <2>1, Shrink, Card
  <2> QED
    BY <1>1, <1>4, <2>1, <2>2
<1>9. ASSUME \/ \E c \in Clients :
                  fails(c) \/ Validation(c) \/ ListStep(c) \/ SandboxStep(c)
             \/ \E k \in ApiKeys : keyExpires(k) \/ passesExpiry(k)
             \/ listExpires \/ sessionExpires \/ UNCHANGED vars
      PROVE  UNCHANGED <<counter, passed, asked>>
  <2>1. CASE \E c \in Clients : fails(c) \/ Validation(c)
    BY <2>1 DEF fails, Validation, getFromCache, delExpired, findKey, setCache,
                deactivate, delKey, ValidationLeaves, tables, redis
  <2>2. CASE \E c \in Clients : ListStep(c)
    BY <2>2 DEF ListStep, hget, findUnique, hset, findEntry, create, deleteEntry, del,
                findMany, hsetAll, Change, ListLeaves
  <2>3. CASE \E c \in Clients : SandboxStep(c)
    BY <2>3 DEF SandboxStep, createSession, setQuota, getActiveSession, checkSandboxQuota,
                incr, close, delQuota, SandboxLeaves
  <2>4. CASE \/ \E k \in ApiKeys : keyExpires(k) \/ passesExpiry(k)
             \/ listExpires \/ sessionExpires \/ UNCHANGED vars
    BY <2>4 DEF keyExpires, passesExpiry, ValidationLeaves, listExpires, ListLeaves, sessionExpires,
                SandboxLeaves, vars, redis, history
  <2> QED
    BY <1>9, <2>1, <2>2, <2>3, <2>4
<1> QED
  BY <1>4, <1>5, <1>6, <1>7, <1>8, <1>9, AnyMove DEF Next

-----------------------------------------------------------------------------
(* The quota of the sandbox. *)

SimInv == quota <= simulated /\ simulated + Cardinality(Sims) <= asked

LEMMA SimNext ==
  ASSUME Shape, Types, SimInv, [Next]_vars
  PROVE  SimInv'
<1>1. /\ quota \in Nat /\ simulated \in Nat /\ asked \in Nat
      /\ quota <= simulated /\ simulated + Cardinality(Sims) <= asked
  BY BoundsInNat DEF Types, SimInv
<1>2. Sims \in SUBSET Clients /\ Sims' \in SUBSET Clients
  BY DEF Sims
<1>3. \E c : c \in Clients
  BY ClientsAssumption
<1>4. PICK m, n \in Nat : m = Cardinality(Sims) /\ n = Cardinality(Sims')
  BY <1>2, <1>3, Card
<1> SUFFICES quota' <= simulated' /\ simulated' + n <= asked'
  BY <1>4 DEF SimInv
<1>5. ASSUME NEW c \in Clients, request(c) \/ revokeApiKey(c)
      PROVE  quota' <= simulated' /\ simulated' + n <= asked'
  <2>1. UNCHANGED <<quota, simulated>> /\ asked' = asked + 1
    BY <1>5, StartMoved DEF redis, history
  <2>2. n <= m + 1
    BY <1>2, <1>4, <1>5, Grow, Card
  <2> QED
    BY <1>1, <1>4, <2>1, <2>2
<1>6. ASSUME UNCHANGED <<simulated, asked>>, quota' = quota \/ quota' = 0,
             UNCHANGED reqs \/ \E c \in Clients : \E a : Moved(c, a)
      PROVE  quota' <= simulated' /\ simulated' + n <= asked'
  <2>1. n <= m
    BY <1>2, <1>3, <1>4, <1>6, Shrink, Card
  <2> QED
    BY <1>1, <1>4, <1>6, <2>1
<1>7. ASSUME NEW c \in Clients, incr(c)
      PROVE  quota' <= simulated' /\ simulated' + n <= asked'
  <2>1. /\ Moved(c, "incr") /\ UNCHANGED asked
        /\ quota' = quota + 1 /\ simulated' = simulated + 1
    BY <1>7, SandboxMoves DEF incr, SandboxLeaves
  <2>2. reqs[c].op = "simulateInbound"
    BY <2>1, OpOf DEF Moved
  <2>3. reqs'[c] = NoRequest
    BY <2>1 DEF Moved
  <2>4. c \in Sims /\ c \notin Sims'
    BY <2>2, <2>3 DEF Sims, NoRequest
  <2>5. Sims' \subseteq Sims \ {c}
    BY <2>1, <2>4, Shrink
  <2>6. n <= m - 1
    BY <1>2, <1>4, <2>4, <2>5, Card
  <2> QED
    BY <1>1, <1>4, <2>1, <2>6
<1>8. ASSUME \/ \E c \in Clients : fails(c) \/ Validation(c) \/ ListStep(c)
             \/ \E c \in Clients : \E l \in Limits : checkLimit(c, l)
             \/ \E c \in Clients : SandboxStep(c) /\ ~incr(c)
             \/ \E k \in ApiKeys : keyExpires(k) \/ passesExpiry(k)
             \/ \E l \in Limits : windowEnds(l)
             \/ listExpires \/ sessionExpires \/ UNCHANGED vars
      PROVE  UNCHANGED <<simulated, asked>> /\ (quota' = quota \/ quota' = 0)
  <2>1. CASE \E c \in Clients : fails(c) \/ Validation(c)
    BY <2>1 DEF fails, Validation, getFromCache, delExpired, findKey, setCache,
                deactivate, delKey, ValidationLeaves, tables, redis
  <2>2. CASE \E c \in Clients : ListStep(c)
    BY <2>2 DEF ListStep, hget, findUnique, hset, findEntry, create, deleteEntry, del,
                findMany, hsetAll, Change, ListLeaves
  <2>3. CASE \E c \in Clients : \E l \in Limits : checkLimit(c, l)
    BY <2>3 DEF checkLimit
  <2>4. CASE \E c \in Clients : SandboxStep(c) /\ ~incr(c)
    BY <2>4 DEF SandboxStep, createSession, setQuota, getActiveSession, checkSandboxQuota,
                close, delQuota, SandboxLeaves
  <2>5. CASE \/ \E k \in ApiKeys : keyExpires(k) \/ passesExpiry(k)
             \/ \E l \in Limits : windowEnds(l)
             \/ listExpires \/ sessionExpires \/ UNCHANGED vars
    BY <2>5 DEF keyExpires, passesExpiry, ValidationLeaves, windowEnds, listExpires, ListLeaves,
                sessionExpires, SandboxLeaves, vars, redis, history
  <2> QED
    BY <1>8, <2>1, <2>2, <2>3, <2>4, <2>5
<1> QED
  BY <1>5, <1>6, <1>7, <1>8, AnyMove DEF Next

\* Until createInstance has answered nobody uses the session; once somebody is to delete
\* its count it is over, and it never begins again.
Creating == \E c \in Clients : reqs[c].op = "createInstance"
SessionInv ==
  /\ session = "none" \/ Creating =>
       /\ simulated = 0 /\ quota = 0
       /\ \A c \in Clients : reqs[c].op \notin {"simulateInbound", "deleteSession"}
  /\ \A c \in Clients : At(c, "delQuota") => session \notin {"none", "active"}

\* No operation begins at a move.
LEMMA OpsShrink ==
  ASSUME UNCHANGED reqs \/ \E c \in Clients : \E a : Moved(c, a)
  PROVE  \A d \in Clients : reqs'[d].op # "none" => reqs'[d].op = reqs[d].op
<1>1. NoRequest.op = "none"
  BY DEF NoRequest
<1> QED
  BY <1>1 DEF Moved, Others

LEMMA SessionQuiet ==
  ASSUME SessionInv,
         session' = session \/ (session = "active" /\ session' = "expired"),
         UNCHANGED simulated, quota' = quota \/ quota' = 0,
         \/ UNCHANGED reqs
         \/ \E c \in Clients : \E a : Moved(c, a) /\ a # "close"
  PROVE  SessionInv'
<1>1. \A d \in Clients : reqs'[d].op # "none" => reqs'[d].op = reqs[d].op
  BY OpsShrink
<1>2. \A d \in Clients : At(d, "delQuota")' => At(d, "delQuota")
  BY DEF Moved, Others, At
<1>3. (session' = "none" => session = "none") /\ (Creating' => Creating)
  BY <1>1 DEF Creating
<1>4. session' = "none" \/ Creating' =>
        /\ simulated' = 0 /\ quota' = 0
        /\ \A c \in Clients : reqs'[c].op \notin {"simulateInbound", "deleteSession"}
  BY <1>1, <1>3 DEF SessionInv
<1>5. \A c \in Clients : At(c, "delQuota")' => session' \notin {"none", "active"}
  BY <1>2 DEF SessionInv
<1> QED
  BY <1>4, <1>5 DEF SessionInv

LEMMA SessionNext ==
  ASSUME Shape, Types, SessionInv, [Next]_vars
  PROVE  SessionInv'
<1>1. ASSUME NEW c \in Clients, request(c) \/ revokeApiKey(c) PROVE SessionInv'
  <2>1. /\ Others(c) /\ UNCHANGED <<session, quota, simulated>>
        /\ reqs'[c].op = "createInstance" =>
             session = "none" /\ \A d \in Clients : reqs[d].op # "createInstance"
        /\ reqs'[c].op \in {"simulateInbound", "deleteSession"} =>
             session # "none" /\ \A d \in Clients : reqs[d].op # "createInstance"
    BY <1>1, StartMoved DEF tables, redis, history
  <2>2. \A d \in Clients \ {c} : reqs'[d] = reqs[d]
    BY <2>1 DEF Others
  <2>3. ~At(c, "delQuota")'
    BY <1>1, StartAt
  <2>4. ASSUME session = "none" \/ Creating'
        PROVE  /\ session = "none" \/ Creating
               /\ reqs'[c].op \notin {"simulateInbound", "deleteSession"}
    <3>1. CASE reqs'[c].op = "createInstance"
      BY <2>1, <3>1
    <3>2. CASE reqs'[c].op # "createInstance"
      BY <2>1, <2>2, <2>4, <3>2 DEF Creating
    <3> QED
      BY <3>1, <3>2
  <2>5. session' = "none" \/ Creating' =>
          /\ simulated' = 0 /\ quota' = 0
          /\ \A d \in Clients : reqs'[d].op \notin {"simulateInbound", "deleteSession"}
    BY <2>1, <2>2, <2>4 DEF SessionInv
  <2>6. \A d \in Clients : At(d, "delQuota")' => session' \notin {"none", "active"}
    BY <2>1, <2>2, <2>3 DEF SessionInv, At
  <2> QED
    BY <2>5, <2>6 DEF SessionInv
<1>2. ASSUME NEW c \in Clients, createSession(c) PROVE SessionInv'
  <2>1. /\ Moved(c, "createSession") /\ session' = "active"
        /\ UNCHANGED <<quota, simulated>>
    BY <1>2, SandboxMoves DEF createSession
  <2>2. reqs[c].op = "createInstance"
    BY <2>1, OpOf DEF Moved
  <2>3. /\ simulated = 0 /\ quota = 0
        /\ \A d \in Clients : reqs[d].op \notin {"simulateInbound", "deleteSession"}
    BY <2>2 DEF SessionInv, Creating
  <2>4. \A d \in Clients : reqs'[d].op # "none" => reqs'[d].op = reqs[d].op
    BY <2>1, OpsShrink
  <2>5. \A d \in Clients : ~At(d, "delQuota")'
    <3>1. Shape'
      BY <2>1 DEF Moved
    <3>2. ASSUME NEW d \in Clients, At(d, "delQuota")' PROVE FALSE
      <4>1. d # c /\ reqs'[d] = reqs[d]
        BY <2>1, <3>2 DEF Moved, Others
      <4>2. At(d, "delQuota")
        BY <3>2, <4>1 DEF At
      <4> QED
        BY <2>3, <4>2, OpOf
    <3> QED
      BY <3>2
  <2>6. \A d \in Clients : reqs'[d].op \notin {"simulateInbound", "deleteSession"}
    BY <2>3, <2>4
  <2> QED
    BY <2>1, <2>3, <2>5, <2>6 DEF SessionInv
<1>3. ASSUME NEW c \in Clients, incr(c) \/ close(c) PROVE SessionInv'
  <2>1. /\ Moved(c, "incr") \/ Moved(c, "close")
        /\ \/ session' = "closed"
           \/ session' = session /\ \A d \in Clients : At(d, "delQuota")' => At(d, "delQuota")
    BY <1>3, SandboxMoves DEF incr, close, Moved, Others, At
  <2>2. reqs[c].op \in {"simulateInbound", "deleteSession"}
    BY <2>1, OpOf DEF Moved
  <2>3. session # "none" /\ ~Creating
    BY <2>2 DEF SessionInv
  <2>4. \A d \in Clients : reqs'[d].op # "none" => reqs'[d].op = reqs[d].op
    BY <2>1, OpsShrink
  <2>5. session' # "none" /\ ~Creating'
    BY <2>1, <2>3, <2>4 DEF Creating
  <2>6. \A d \in Clients : At(d, "delQuota")' => session' \notin {"none", "active"}
    BY <2>1 DEF SessionInv
  <2> QED
    BY <2>5, <2>6 DEF SessionInv
<1>4. ASSUME NEW c \in Clients,
             \/ setQuota(c) \/ getActiveSession(c) \/ checkSandboxQuota(c) \/ delQuota(c)
      PROVE  SessionInv'
  <2>1. \E a : Moved(c, a) /\ a # "close"
    BY <1>4, SandboxMoves
  <2>2. UNCHANGED <<session, simulated>> /\ (quota' = quota \/ quota' = 0)
    BY <1>4 DEF setQuota, getActiveSession, checkSandboxQuota, delQuota
  <2> QED
    BY <2>1, <2>2, SessionQuiet
<1>5. ASSUME NEW c \in Clients,
             \/ fails(c) \/ Validation(c) \/ ListStep(c)
             \/ \E l \in Limits : checkLimit(c, l)
      PROVE  SessionInv'
  <2>1. UNCHANGED <<session, simulated, quota>>
    <3>1. CASE fails(c) \/ Validation(c)
      BY <3>1 DEF fails, Validation, getFromCache, delExpired, findKey, setCache,
                  deactivate, delKey, ValidationLeaves, tables, redis
    <3>2. CASE ListStep(c)
      BY <3>2 DEF ListStep, hget, findUnique, hset, findEntry, create, deleteEntry, del,
                  findMany, hsetAll, Change, ListLeaves
    <3>3. CASE \E l \in Limits : checkLimit(c, l)
      BY <3>3 DEF checkLimit, tables
    <3> QED
      BY <1>5, <3>1, <3>2, <3>3
  <2>2. CASE fails(c)
    <3>1. Others(c) /\ reqs'[c] = NoRequest
      BY <2>2, Over DEF fails
    <3>2. PICK a : Moved(c, a)
      BY <2>2, FailMoved
    <3>3. ~At(c, "delQuota")'
      BY <3>1 DEF At, NoRequest
    <3>4. \A d \in Clients : At(d, "delQuota")' => At(d, "delQuota")
      BY <3>1, <3>3 DEF Others, At
    <3>5. \A d \in Clients : reqs'[d].op # "none" => reqs'[d].op = reqs[d].op
      BY <3>2, OpsShrink
    <3>6. Creating' => Creating
      BY <3>5 DEF Creating
    <3>7. session' = "none" \/ Creating' =>
            /\ simulated' = 0 /\ quota' = 0
            /\ \A d \in Clients : reqs'[d].op \notin {"simulateInbound", "deleteSession"}
      BY <2>1, <3>5, <3>6 DEF SessionInv
    <3> QED
      BY <2>1, <3>4, <3>7 DEF SessionInv
  <2>3. CASE Validation(c) \/ ListStep(c) \/ \E l \in Limits : checkLimit(c, l)
    <3>1. \A l \in Limits : l # "close"
      BY StepsApart DEF Steps, OpSteps
    <3>2. \E a : Moved(c, a) /\ a # "close"
      BY <2>3, <3>1, ValidationMoves, ListMoves DEF Validation, ListStep, Types
    <3> QED
      BY <2>1, <3>2, SessionQuiet
  <2> QED
    BY <1>5, <2>2, <2>3
<1>6. ASSUME \/ \E k \in ApiKeys : keyExpires(k) \/ passesExpiry(k)
             \/ \E l \in Limits : windowEnds(l)
             \/ listExpires \/ sessionExpires \/ UNCHANGED vars
      PROVE  SessionInv'
  <2>1. /\ UNCHANGED <<simulated, quota, reqs>>
        /\ session' = session \/ (session = "active" /\ session' = "expired")
    BY <1>6 DEF keyExpires, passesExpiry, ValidationLeaves, windowEnds, listExpires, ListLeaves,
                sessionExpires, SandboxLeaves, vars, tables, redis, history
  <2> QED
    BY <2>1, SessionQuiet
<1> QED
  BY <1>1, <1>2, <1>3, <1>4, <1>5, <1>6 DEF Next, SandboxStep

\* What the count has room for, and those that were let past it and have not counted yet;
\* and, once the session is over, those that may still be let past a count that began
\* again at 0.
Incrs == {c \in Clients : At(c, "incr")}
Checks == {c \in Clients : At(c, "checkSandboxQuota") \/ At(c, "incr")}
Ended == session \notin {"none", "active"}
QuotaInv ==
  /\ quota + Cardinality(Incrs) <= Quota + (N - 1)
  /\ \/ simulated = quota
     \/ Ended /\ simulated + Cardinality(Checks) <= Quota + 2 * (N - 1)

LEMMA QuotaInvHolds == Types /\ QuotaInv => QuotaHolds
<1> SUFFICES ASSUME Types, QuotaInv
             PROVE  simulated <= Quota + (IF session = "active" THEN 1 ELSE 2) * (N - 1)
  BY DEF QuotaHolds, N
<1>1. Incrs \in SUBSET Clients /\ Checks \in SUBSET Clients /\ \E c : c \in Clients
  BY ClientsAssumption DEF Incrs, Checks
<1>2. PICK i, j, n \in Nat : i = Cardinality(Incrs) /\ j = Cardinality(Checks) /\ n = N - 1
  BY <1>1, Card
<1>3. quota \in Nat /\ simulated \in Nat /\ Quota \in Nat
  BY BoundsInNat DEF Types
<1>4. /\ quota + i <= Quota + n
      /\ simulated = quota \/ (Ended /\ simulated + j <= Quota + 2 * n)
  BY <1>2 DEF QuotaInv
<1>5. simulated <= Quota + n \/ (Ended /\ simulated <= Quota + 2 * n)
  BY <1>2, <1>3, <1>4
<1>6. CASE session = "active"
  BY <1>2, <1>5, <1>6 DEF Ended
<1>7. CASE session # "active"
  <2>1. simulated <= Quota + 2 * n
    BY <1>2, <1>3, <1>5
  <2> QED
    BY <1>2, <1>7, <2>1
<1> QED
  BY <1>6, <1>7

\* A step that lets nobody past the count, and adds to none.
LEMMA QuotaQuiet ==
  ASSUME Types, QuotaInv, UNCHANGED <<quota, simulated>>, Ended => Ended',
         Incrs' \subseteq Incrs, Checks' \subseteq Checks
  PROVE  QuotaInv'
<1>1. /\ Incrs \in SUBSET Clients /\ Incrs' \in SUBSET Clients
      /\ Checks \in SUBSET Clients /\ Checks' \in SUBSET Clients
      /\ \E c : c \in Clients
  BY ClientsAssumption DEF Incrs, Checks
<1>2. PICK i, k, j, l \in Nat : /\ i = Cardinality(Incrs) /\ k = Cardinality(Incrs')
                                /\ j = Cardinality(Checks) /\ l = Cardinality(Checks')
                                /\ k <= i /\ l <= j
  BY <1>1, Card
<1>3. quota \in Nat /\ simulated \in Nat /\ Quota \in Nat /\ N \in Nat
  BY <1>1, Card, BoundsInNat DEF Types
<1>4. /\ quota + i <= Quota + (N - 1)
      /\ simulated = quota \/ (Ended /\ simulated + j <= Quota + 2 * (N - 1))
  BY <1>2 DEF QuotaInv
<1>5. quota + k <= Quota + (N - 1)
  BY <1>2, <1>3, <1>4
<1>6. simulated = quota \/ (Ended' /\ simulated + l <= Quota + 2 * (N - 1))
  BY <1>2, <1>3, <1>4
<1> QED
  BY <1>2, <1>5, <1>6 DEF QuotaInv

LEMMA QuotaMoved ==
  ASSUME Types, QuotaInv, UNCHANGED <<quota, simulated>>, Ended => Ended',
         \/ UNCHANGED reqs
         \/ \E c \in Clients : \E a :
              Moved(c, a) /\ a \notin {"checkSandboxQuota", "getActiveSession"}
  PROVE  QuotaInv'
<1>1. /\ \A d \in Clients : At(d, "incr")' => At(d, "incr")
      /\ \A d \in Clients : At(d, "checkSandboxQuota")' => At(d, "checkSandboxQuota")
  BY DEF Moved, Others, At
<1>2. Incrs' \subseteq Incrs /\ Checks' \subseteq Checks
  BY <1>1 DEF Incrs, Checks
<1> QED
  BY <1>2, QuotaQuiet

LEMMA QuotaNext ==
  ASSUME Shape, Types, SessionInv, QuotaInv, [Next]_vars
  PROVE  QuotaInv'
<1>1. /\ Incrs \in SUBSET Clients /\ Incrs' \in SUBSET Clients
      /\ Checks \in SUBSET Clients /\ Checks' \in SUBSET Clients
      /\ \E c : c \in Clients
  BY ClientsAssumption DEF Incrs, Checks
<1>2. PICK i, k, j, l \in Nat : /\ i = Cardinality(Incrs) /\ k = Cardinality(Incrs')
                                /\ j = Cardinality(Checks) /\ l = Cardinality(Checks')
  BY <1>1, Card
<1>3. PICK n \in Nat : n = N - 1
  BY <1>1, Card
<1>4. /\ quota \in Nat /\ simulated \in Nat /\ Quota \in Nat
      /\ quota + i <= Quota + n
      /\ simulated = quota \/ (Ended /\ simulated + j <= Quota + 2 * n)
  BY <1>2, <1>3, BoundsInNat DEF QuotaInv, Types
<1>5. ASSUME quota' + k <= Quota + n,
             simulated' = quota' \/ (Ended' /\ simulated' + l <= Quota + 2 * n)
      PROVE  QuotaInv'
  BY <1>2, <1>3, <1>5 DEF QuotaInv
<1>6. ASSUME NEW c \in Clients, request(c) \/ revokeApiKey(c) PROVE QuotaInv'
  <2>1. Others(c) /\ UNCHANGED <<session, quota, simulated>>
    BY <1>6, StartMoved DEF tables, redis, history
  <2>2. ~At(c, "incr")' /\ ~At(c, "checkSandboxQuota")'
    BY <1>6, StartAt
  <2>3. Incrs' \subseteq Incrs /\ Checks' \subseteq Checks
    BY <2>1, <2>2 DEF Others, Incrs, Checks, At
  <2> QED
    BY <2>1, <2>3, QuotaQuiet DEF Ended
<1>7. ASSUME NEW c \in Clients, createSession(c) PROVE QuotaInv'
  <2>1. /\ Moved(c, "createSession") /\ UNCHANGED <<quota, simulated>>
    BY <1>7, SandboxMoves DEF createSession
  <2>2. reqs[c].op = "createInstance"
    BY <2>1, OpOf DEF Moved
  <2>3. simulated = quota
    BY <2>2 DEF SessionInv, Creating
  <2>4. Incrs' \subseteq Incrs
    BY <2>1 DEF Moved, Others, Incrs, At
  <2>5. k <= i
    BY <1>1, <1>2, <2>4, Card
  <2> QED
    BY <1>2, <1>3, <1>4, <1>5, <2>1, <2>3, <2>5
<1>8. ASSUME NEW c \in Clients, setQuota(c) \/ delQuota(c) PROVE QuotaInv'
  <2>1. /\ Moved(c, "setQuota") \/ Moved(c, "delQuota")
        /\ quota' = 0 /\ UNCHANGED <<session, simulated>>
    BY <1>8, SandboxMoves DEF setQuota, delQuota
  <2>2. /\ Others(c) /\ ~At(c, "incr")' /\ ~At(c, "checkSandboxQuota")'
    BY <2>1 DEF Moved
  <2>3. Incrs' \subseteq Clients \ {c} /\ Checks' \subseteq Clients \ {c}
    BY <2>2 DEF Incrs, Checks
  <2>4. k <= n /\ l <= n
    BY <1>1, <1>2, <1>3, <2>3, Card
  <2>5. Checks' \subseteq Checks
    BY <2>2 DEF Others, Checks, At
  <2>6. l <= j
    BY <1>1, <1>2, <2>5, Card
  <2>7. CASE setQuota(c)
    <3>1. At(c, "setQuota")
      BY <2>7 DEF setQuota
    <3>2. reqs[c].op = "createInstance"
      BY <3>1, OpOf
    <3>3. simulated = 0
      BY <3>2 DEF SessionInv, Creating
    <3> QED
      BY <1>2, <1>3, <1>4, <1>5, <2>1, <2>4, <3>3
  <2>8. CASE delQuota(c)
    <3>1. At(c, "delQuota")
      BY <2>8 DEF delQuota
    <3>2. Ended /\ Ended'
      BY <2>1, <3>1 DEF SessionInv, Ended
    <3>3. simulated + l <= Quota + 2 * n
      BY <1>2, <1>3, <1>4, <2>4, <2>6
    <3> QED
      BY <1>2, <1>3, <1>4, <1>5, <2>1, <2>4, <3>2, <3>3
  <2> QED
    BY <1>8, <2>7, <2>8
<1>9. ASSUME NEW c \in Clients, getActiveSession(c) PROVE QuotaInv'
  <2>1. /\ Moved(c, "getActiveSession") /\ UNCHANGED <<session, quota, simulated>>
    BY <1>9, SandboxMoves DEF getActiveSession
  <2>2. Incrs' \subseteq Incrs
    BY <2>1 DEF Moved, Others, Incrs, At
  <2>3. CASE session = "active"
    <3>1. simulated = quota
      BY <1>4, <2>3 DEF Ended
    <3>2. k <= i
      BY <1>1, <1>2, <2>2, Card
    <3> QED
      BY <1>2, <1>3, <1>4, <1>5, <2>1, <3>1, <3>2
  <2>4. CASE session # "active"
    <3>1. Others(c) /\ reqs'[c] = NoRequest
      BY <1>9, <2>4, Over DEF getActiveSession
    <3>2. Checks' \subseteq Checks
      BY <3>1 DEF Others, Checks, At, NoRequest
    <3> QED
      BY <2>1, <2>2, <3>2, QuotaQuiet DEF Ended
  <2> QED
    BY <2>3, <2>4
<1>10. ASSUME NEW c \in Clients, checkSandboxQuota(c) PROVE QuotaInv'
  <2>1. /\ Moved(c, "checkSandboxQuota") /\ UNCHANGED <<session, quota, simulated>>
    BY <1>10, SandboxMoves DEF checkSandboxQuota
  <2>2. Checks' \subseteq Checks
    BY <2>1 DEF Moved, Others, Checks, At
  <2>3. CASE quota >= Quota
    <3>1. Others(c) /\ reqs'[c] = NoRequest
      BY <1>10, <2>3, Over DEF checkSandboxQuota
    <3>2. Incrs' \subseteq Incrs
      BY <3>1 DEF Others, Incrs, At, NoRequest
    <3> QED
      BY <2>1, <2>2, <3>2, QuotaQuiet DEF Ended
  <2>4. CASE ~(quota >= Quota)
    <3>1. l <= j
      BY <1>1, <1>2, <2>2, Card
    <3>2. k <= n + 1
      <4>1. Cardinality(Incrs') <= N
        BY <1>1, Card, ClientsAssumption DEF N
      <4>2. N \in Nat
        BY <1>1, Card
      <4> QED
        BY <1>2, <1>3, <4>1, <4>2
    <3>3. quota + k <= Quota + n
      BY <1>2, <1>3, <1>4, <2>4, <3>2
    <3>4. simulated = quota \/ (Ended' /\ simulated + l <= Quota + 2 * n)
      BY <1>2, <1>3, <1>4, <2>1, <3>1 DEF Ended
    <3> QED
      BY <1>5, <2>1, <3>3, <3>4
  <2> QED
    BY <2>3, <2>4
<1>11. ASSUME NEW c \in Clients, incr(c) PROVE QuotaInv'
  <2>1. /\ Moved(c, "incr") /\ At(c, "incr") /\ UNCHANGED session
        /\ quota' = quota + 1 /\ simulated' = simulated + 1
    BY <1>11, SandboxMoves DEF incr
  <2>2. Others(c) /\ ~At(c, "incr")' /\ ~At(c, "checkSandboxQuota")'
    BY <2>1 DEF Moved
  <2>3. /\ c \in Incrs /\ Incrs' \subseteq Incrs \ {c}
        /\ c \in Checks /\ Checks' \subseteq Checks \ {c}
    BY <2>1, <2>2 DEF Others, Incrs, Checks, At
  <2>4. k <= i - 1 /\ l <= j - 1
    BY <1>1, <1>2, <2>3, Card
  <2>5. quota' + k <= Quota + n
    BY <1>2, <1>3, <1>4, <2>1, <2>4
  <2>6. simulated' = quota' \/ (Ended' /\ simulated' + l <= Quota + 2 * n)
    BY <1>2, <1>3, <1>4, <2>1, <2>4 DEF Ended
  <2> QED
    BY <1>5, <2>5, <2>6
<1>12. ASSUME NEW c \in Clients, close(c) PROVE QuotaInv'
  <2>1. Moved(c, "close") /\ UNCHANGED <<quota, simulated>> /\ Ended'
    BY <1>12, SandboxMoves DEF close, Ended
  <2> QED
    BY <2>1, QuotaMoved
<1>13. ASSUME NEW c \in Clients,
              \/ fails(c) \/ Validation(c) \/ ListStep(c)
              \/ \E m \in Limits : checkLimit(c, m)
       PROVE  QuotaInv'
  <2>1. UNCHANGED <<session, simulated, quota>>
    <3>1. CASE fails(c) \/ Validation(c)
      BY <3>1 DEF fails, Validation, getFromCache, delExpired, findKey, setCache,
                  deactivate, delKey, ValidationLeaves, tables, redis
    <3>2. CASE ListStep(c)
      BY <3>2 DEF ListStep, hget, findUnique, hset, findEntry, create, deleteEntry, del,
                  findMany, hsetAll, Change, ListLeaves
    <3>3. CASE \E m \in Limits : checkLimit(c, m)
      BY <3>3 DEF checkLimit, tables
    <3> QED
      BY <1>13, <3>1, <3>2, <3>3
  <2>2. CASE fails(c)
    <3>1. Others(c) /\ reqs'[c] = NoRequest
      BY <2>2, Over DEF fails
    <3>2. Incrs' \subseteq Incrs /\ Checks' \subseteq Checks
      BY <3>1 DEF Others, Incrs, Checks, At, NoRequest
    <3> QED
      BY <2>1, <3>2, QuotaQuiet DEF Ended
  <2>3. CASE Validation(c) \/ ListStep(c) \/ \E m \in Limits : checkLimit(c, m)
    <3>1. \A m \in Limits : m \notin {"checkSandboxQuota", "getActiveSession"}
      BY StepsApart DEF Steps, OpSteps
    <3>2. \E a : Moved(c, a) /\ a \notin {"checkSandboxQuota", "getActiveSession"}
      BY <2>3, <3>1, ValidationMoves, ListMoves DEF Validation, ListStep, Types
    <3> QED
      BY <2>1, <3>2, QuotaMoved DEF Ended
  <2> QED
    BY <1>13, <2>2, <2>3
<1>14. ASSUME \/ \E m \in ApiKeys : keyExpires(m) \/ passesExpiry(m)
              \/ \E m \in Limits : windowEnds(m)
              \/ listExpires \/ sessionExpires \/ UNCHANGED vars
       PROVE  QuotaInv'
  <2>1. UNCHANGED <<simulated, quota, reqs>> /\ (Ended => Ended')
    BY <1>14 DEF keyExpires, passesExpiry, ValidationLeaves, windowEnds, listExpires,
                 ListLeaves, Ended, sessionExpires, SandboxLeaves, vars, tables, redis, history
  <2> QED
    BY <2>1, QuotaMoved
<1> QED
  BY <1>6, <1>7, <1>8, <1>9, <1>10, <1>11, <1>12, <1>13, <1>14 DEF Next, SandboxStep

-----------------------------------------------------------------------------
(* The theorems. *)

IInv ==
  /\ Shape /\ Types /\ Reads
  /\ KeyInv /\ ListInv /\ RateInv /\ SimInv /\ SessionInv /\ QuotaInv

LEMMA InitIInv == Init => IInv
<1> SUFFICES ASSUME Init PROVE IInv
  OBVIOUS
<1>1. /\ \A c \in Clients : reqs[c] = NoRequest
      /\ NoRequest \in Requests /\ Shaped(NoRequest) /\ NoRequest.read = {}
      /\ NoRequest.op = "none" /\ Len(NoRequest.todo) = 0
      /\ \A c \in Clients : \A b : ~At(c, b)
  BY DEF Init, NoRequest, Requests, Shaped, At
<1>2. Shape /\ Reads
  BY <1>1 DEF Init, Shape, Reads
<1>3. Types
  BY BoundsInNat DEF Init, Types
<1>4. KeyInv /\ ListInv
  BY <1>1 DEF Init, KeyInv, ListInv, ListInvOf
<1>5. Sims = {} /\ Incrs = {} /\ Checks = {}
  BY <1>1 DEF Sims, Incrs, Checks
<1>6. \A l \in Limits : Counts(l) = {}
  <2>1. \A c \in Clients : 1..Len(reqs[c].todo) = {}
    BY <1>1
  <2> QED
    BY <2>1 DEF Counts
<1>7. Cardinality({}) = 0
  BY FS_EmptySet
<1>8. RateInv /\ SimInv
  <2>1. ASSUME NEW l \in Limits
        PROVE  /\ counter[l] = 0 /\ passed[l] = 0 /\ limit[l] \in Nat
               /\ Cardinality(Counts(l)) = 0
    BY <1>6, <1>7, LimitAssumption DEF Init
  <2>2. RateInv
    BY <2>1 DEF Init, RateInv
  <2>3. SimInv
    BY <1>5, <1>7 DEF Init, SimInv
  <2> QED
    BY <2>2, <2>3
<1>9. SessionInv
  BY <1>1 DEF Init, SessionInv
<1>10. QuotaInv
  <2>1. N \in Nat /\ N >= 1
    BY ClientsAssumption, Card
  <2> QED
    BY <1>5, <1>7, <2>1, BoundsInNat DEF Init, QuotaInv
<1> QED
  BY <1>2, <1>3, <1>4, <1>8, <1>9, <1>10 DEF IInv

LEMMA NextIInv == IInv /\ [Next]_vars => IInv'
  BY ShapeNext, TypesNext, KeyNext, ListNext, RateNext, SimNext, SessionNext, QuotaNext
  DEF IInv

LEMMA SpecIInv == Spec => []IInv
  BY InitIInv, NextIInv, PTL DEF Spec

LEMMA IInvTypeOK == IInv => TypeOK
<1> SUFFICES ASSUME IInv PROVE TypeOK
  OBVIOUS
<1>1. Shape /\ Types /\ Reads /\ RateInv /\ SimInv
  BY DEF IInv
<1>2. \E c : c \in Clients
  BY ClientsAssumption
<1>3. MaxRequests \in Nat /\ asked \in Nat /\ asked <= MaxRequests
  BY <1>1, BoundsInNat DEF Types
<1>4. quota \in 0 .. MaxRequests /\ simulated \in 0 .. MaxRequests
  <2>1. Cardinality(Sims) \in Nat
    BY <1>2, Card DEF Sims
  <2> QED
    BY <1>1, <1>3, <2>1 DEF SimInv, Types
<1>5. ASSUME NEW l \in Limits
      PROVE  counter[l] \in 0 .. MaxRequests /\ passed[l] \in 0 .. MaxRequests
  <2>1. Cardinality(Counts(l)) \in Nat
    BY <1>2, Card DEF Counts
  <2>2. counter[l] \in Nat /\ passed[l] \in Nat
    BY <1>1 DEF Types
  <2>3. passed[l] <= counter[l] /\ counter[l] + Cardinality(Counts(l)) <= asked
    BY <1>1 DEF RateInv
  <2> QED
    BY <1>3, <2>1, <2>2, <2>3
<1>6. counter \in [Limits -> 0 .. MaxRequests] /\ passed \in [Limits -> 0 .. MaxRequests]
  BY <1>1, <1>5 DEF Types
<1>7. \A c \in Clients :
        /\ reqs[c] # NoRequest => reqs[c].todo # <<>>
        /\ reqs[c].read \subseteq Phones
        /\ reqs[c].read # {} => At(c, "hset") \/ At(c, "hsetAll")
  BY <1>1 DEF Shape, Shaped, Requests, Reads
<1> QED
  BY <1>1, <1>4, <1>6, <1>7 DEF Types, TypeOK

\* A request that is not over has an await before it, only a read of the list holds
\* phones, and no count exceeds the requests there were (the awaits of auth.service.ts,
\* rate-limit.guard.ts, blacklist.service.ts and sandbox.service.ts).
THEOREM TypeCorrect == Spec => []TypeOK
  BY SpecIInv, IInvTypeOK, PTL

\* A revoked key is refused at once, and the list's cache says what its table says, unless
\* a request that had read the table overlapped the change (validateApiKey, revokeApiKey,
\* isBlacklisted, syncBlacklistCache).
THEOREM CachesFollowTables == Spec => []CachesAgree
<1>1. IInv => CachesAgree
  BY KeyInvRefuses, ListInvCached DEF IInv, CachesAgree
<1> QED
  BY <1>1, SpecIInv, PTL

\* No limit lets more than its number past in a window (checkLimit, incrWithTtl).
THEOREM RateLimitsKept == Spec => []RateLimitsHold
<1>1. IInv => RateLimitsHold
  BY DEF IInv, RateLimitsHold, RateInv
<1> QED
  BY <1>1, SpecIInv, PTL

\* A sandbox session takes no more messages than its quota and those whose check came
\* before another's count, or found the count deleted at the session's end
\* (checkSandboxQuota, deleteSession).
THEOREM QuotaKept == Spec => []QuotaHolds
<1>1. IInv => QuotaHolds
  BY QuotaInvHolds DEF IInv
<1> QED
  BY <1>1, SpecIInv, PTL
=============================================================================
