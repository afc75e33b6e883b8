----------------------------- MODULE Admission -----------------------------
(* How the API admits a request: the API key and its cache (auth.service.ts), the      *)
(* rate limits (rate-limit.guard.ts), and, behind them, the operations that keep a     *)
(* cache or a count of their own in Redis: the lists of blocked and of allowed phones  *)
(* (blacklist.service.ts) and the quota of a sandbox session (sandbox.service.ts).     *)
(* A request is the sequence of its awaits; between two of them others run.            *)
(*                                                                                     *)
(* One list of one instance stands for its blacklist and its whitelist, whose code is  *)
(* the same.  isBlacklisted and isWhitelisted, and revokeApiKey, are exported but have *)
(* no caller in the API: they are modelled as any caller would find them.              *)
EXTENDS Integers, Sequences, FiniteSets

CONSTANTS
  Clients,      \* requests the API serves at once
  ApiKeys,
  Phones,
  Guards,       \* the sequences of awaits a guarded request may begin with
  limit,        \* of each rate limit
  Quota,        \* SANDBOX_MAX_MSGS_PER_DAY
  MaxRequests,  \* bound: requests in all
  Traffics,     \* bound: what the requests of one run may be, from the first to the last
  MaxMishaps    \* bound: requests that end at a failed await or a crash

Limits == DOMAIN limit

\* What AuthService.validateApiKey awaits.
Validate == <<"getFromCache", "delExpired", "findKey", "setCache">>

ASSUME LimitAssumption == \A l \in Limits : limit[l] \in Nat
\* A guard validates the key at most once, and counts a request once for each limit.
ASSUME GuardsAssumption ==
  \A g \in Guards :
    /\ g \in Seq(Limits \union {"getFromCache", "delExpired", "findKey", "setCache"})
    /\ \A i, j \in DOMAIN g : g[i] = g[j] => i = j
    /\ \A i \in DOMAIN g, n \in 1..4 : g[i] = Validate[n] =>
         \A m \in 1..4 : i - n + m \in DOMAIN g /\ g[i - n + m] = Validate[m]
ASSUME ClientsAssumption == IsFiniteSet(Clients) /\ Clients # {}
ASSUME IdsAssumption == ApiKeys \intersect Phones = {}
ASSUME BoundsAssumption == {Quota, MaxRequests, MaxMishaps} \subseteq Nat

VARIABLES
  keys,       \* the table of API keys
  expired,    \* keys whose expiresAt is past
  keyCache,   \* keys with an entry auth:apikey:<prefix>
  listed,     \* the phones in the table
  cached,     \* the hash of the list in Redis
  counter,    \* Redis counters rl:...
  session,    \* the sandbox session's status
  quota,      \* sandbox:<id>:msgs, 0 when there is no such key
  reqs,       \* per client its request
  traffic,    \* the run's
  asked, mishaps,
  raced,      \* history: keys and phones changed under the eyes of a request that had
              \* read them, or by one that came to no end
  passed,     \* history: per limit, requests let past it in its window
  simulated   \* history: messages of the session

tables == <<keys, expired, listed, session>>
redis == <<keyCache, cached, counter, quota>>
history == <<raced, passed, simulated>>
vars == <<tables, redis, reqs, traffic, asked, mishaps, history>>

NoRequest == [op |-> "none", key |-> "none", phone |-> "none", todo |-> <<>>, read |-> {}]

Init ==
  /\ keys = [k \in ApiKeys |-> "active"] /\ expired = {} /\ keyCache = {}
  /\ listed = {} /\ cached = [p \in Phones |-> "none"]
  /\ counter = [l \in Limits |-> 0]
  /\ session = "none" /\ quota = 0
  /\ reqs = [c \in Clients |-> NoRequest]
  /\ traffic \in Traffics /\ asked = 0 /\ mishaps = 0
  /\ raced = {} /\ passed = [l \in Limits |-> 0] /\ simulated = 0

-----------------------------------------------------------------------------
(* Requests. *)

\* Mutant: the cache is cleared before the row is changed.
Awaits_CacheFirst(op) ==
  CASE op = "isBlacklisted"       -> <<"hget", "findUnique", "hset">>
    [] op = "addToBlacklist"      -> <<"findAbsent", "create", "del", "findMany", "hsetAll">>
    [] op = "removeFromBlacklist" -> <<"findEntry", "delete", "del", "findMany", "hsetAll">>
    [] op = "createInstance"      -> <<"createSession", "setQuota">>
    [] op = "simulateInbound"     -> <<"getActiveSession", "checkSandboxQuota", "incr">>
    [] op = "deleteSession"       -> <<"getActiveSession", "close", "delQuota">>
    [] op = "revokeApiKey"        -> <<"delKey", "deactivate">>

\* Mutant: a session's count is deleted before the session is closed.
Awaits_CountFirst(op) ==
  CASE op = "isBlacklisted"       -> <<"hget", "findUnique", "hset">>
    [] op = "addToBlacklist"      -> <<"findAbsent", "create", "del", "findMany", "hsetAll">>
    [] op = "removeFromBlacklist" -> <<"findEntry", "delete", "del", "findMany", "hsetAll">>
    [] op = "createInstance"      -> <<"createSession", "setQuota">>
    [] op = "simulateInbound"     -> <<"getActiveSession", "checkSandboxQuota", "incr">>
    [] op = "deleteSession"       -> <<"getActiveSession", "delQuota", "close">>
    [] op = "revokeApiKey"        -> <<"deactivate", "delKey">>

\* What an operation awaits, in order.
Awaits(op) ==
  CASE op = "isBlacklisted"       -> <<"hget", "findUnique", "hset">>
    [] op = "addToBlacklist"      -> <<"findAbsent", "create", "del", "findMany", "hsetAll">>
    [] op = "removeFromBlacklist" -> <<"findEntry", "delete", "del", "findMany", "hsetAll">>
    [] op = "createInstance"      -> <<"createSession", "setQuota">>
    [] op = "simulateInbound"     -> <<"getActiveSession", "checkSandboxQuota", "incr">>
    [] op = "deleteSession"       -> <<"getActiveSession", "close", "delQuota">>
    [] op = "revokeApiKey"        -> <<"deactivate", "delKey">>

Guarded == {"isBlacklisted", "addToBlacklist", "removeFromBlacklist",
            "createInstance", "simulateInbound", "deleteSession"}
OfPhone == {"isBlacklisted", "addToBlacklist", "removeFromBlacklist"}
Ops == Guarded \union {"revokeApiKey"}
ASSUME TrafficAssumption == Traffics \subseteq [1..MaxRequests -> SUBSET Ops]

\* A limit is not called like an await of something else.
ASSUME NamesAssumption ==
  /\ \A n \in 1..4 : Validate[n] \notin Limits
  /\ \A op \in Ops :
       \A n \in DOMAIN Awaits(op) : Awaits(op)[n] \notin Limits

Begin(c, op, k, p, guard) ==
  /\ reqs[c] = NoRequest /\ asked < MaxRequests /\ asked' = asked + 1
  /\ op \in traffic[asked + 1]
  /\ reqs' = [reqs EXCEPT ![c] = [op |-> op, key |-> k, phone |-> p,
                                  todo |-> guard \o Awaits(op), read |-> {}]]
  /\ UNCHANGED <<tables, redis, traffic, mishaps, history>>

\* The session is known to the tenant once createInstance has answered.
request(c) ==
  \E op \in Guarded, k \in ApiKeys, p \in Phones \union {"none"}, guard \in Guards :
    /\ op \in OfPhone <=> p # "none"
    /\ op = "createInstance" => session = "none" /\ \A d \in Clients : reqs[d].op # op
    /\ op \in {"simulateInbound", "deleteSession"} =>
         session # "none" /\ \A d \in Clients : reqs[d].op # "createInstance"
    /\ Begin(c, op, k, p, guard)

revokeApiKey(c) == \E k \in ApiKeys : Begin(c, "revokeApiKey", k, "none", <<>>)

At(c, await) == reqs[c].todo # <<>> /\ Head(reqs[c].todo) = await

\* Mutant: the request is not over after its last await.
Stepped_Stays(c, n, read) ==
  reqs' = [reqs EXCEPT ![c].todo = SubSeq(@, n + 1, Len(@)), ![c].read = read]

Stepped(c, n, read) ==
  LET r == reqs[c] IN
  reqs' = [reqs EXCEPT ![c] =
             IF Len(r.todo) <= n THEN NoRequest
             ELSE [r EXCEPT !.todo = SubSeq(r.todo, n + 1, Len(r.todo)), !.read = read]]

Goes(c) == Stepped(c, 1, reqs[c].read)
Answers(c) == reqs' = [reqs EXCEPT ![c] = NoRequest]

-----------------------------------------------------------------------------
(* AuthService.validateApiKey *)

ValidationLeaves ==
  UNCHANGED <<tables, cached, counter, quota, traffic, asked, mishaps, passed, simulated>>

\* A hit answers, and the awaits that follow are those of a miss; an entry that is past
\* its key's expiresAt is deleted, as if it had been none.
getFromCache(c) ==
  /\ At(c, "getFromCache")
  /\ IF reqs[c].key \notin keyCache THEN Stepped(c, 2, {})
     ELSE IF reqs[c].key \in expired THEN Goes(c) ELSE Stepped(c, 4, {})
  /\ ValidationLeaves /\ UNCHANGED <<keyCache, raced>>

delExpired(c) ==
  /\ At(c, "delExpired") /\ Goes(c)
  /\ keyCache' = keyCache \ {reqs[c].key}
  /\ ValidationLeaves /\ UNCHANGED raced

\* UnauthorizedException: no such key, or one past its expiresAt.
findKey(c) ==
  /\ At(c, "findKey")
  /\ IF keys[reqs[c].key] = "active" /\ reqs[c].key \notin expired THEN Goes(c) ELSE Answers(c)
  /\ ValidationLeaves /\ UNCHANGED <<keyCache, raced>>

setCache(c) ==
  /\ At(c, "setCache") /\ Goes(c)
  /\ keyCache' = keyCache \union {reqs[c].key}
  /\ ValidationLeaves /\ UNCHANGED raced

\* A validation that has read the row as active, and has not cached it yet.
Validating(k) == \E c \in Clients : At(c, "setCache") /\ reqs[c].key = k

deactivate(c) ==
  /\ At(c, "deactivate") /\ Goes(c)
  /\ keys' = [keys EXCEPT ![reqs[c].key] = "revoked"]
  /\ raced' = IF Validating(reqs[c].key) THEN raced \union {reqs[c].key} ELSE raced
  /\ UNCHANGED <<expired, listed, session, redis, traffic, asked, mishaps, passed, simulated>>

delKey(c) ==
  /\ At(c, "delKey") /\ Goes(c)
  /\ keyCache' = keyCache \ {reqs[c].key}
  /\ ValidationLeaves /\ UNCHANGED raced

\* API_KEY_CACHE_TTL_SECONDS
keyExpires(k) ==
  /\ k \in keyCache /\ keyCache' = keyCache \ {k}
  /\ raced' = IF Validating(k) THEN raced ELSE raced \ {k}
  /\ ValidationLeaves /\ UNCHANGED reqs

\* The time of the key's expiresAt comes, if it has one.
passesExpiry(k) ==
  /\ k \notin expired /\ expired' = expired \union {k}
  /\ UNCHANGED <<keys, listed, session, redis, reqs, traffic, asked, mishaps, history>>

-----------------------------------------------------------------------------
(* RateLimitGuard.checkLimit, with RedisService.incrWithTtl *)

\* Mutant: the count is compared before this request is in it.
Exceeded_Before(l) == counter[l] > limit[l]

Exceeded(l) == counter[l] + 1 > limit[l]

\* The request is counted, whether it is let past or not.
checkLimit(c, l) ==
  /\ At(c, l)
  /\ counter' = [counter EXCEPT ![l] = @ + 1]
  /\ IF Exceeded(l)
     THEN Answers(c) /\ UNCHANGED passed
     ELSE Goes(c) /\ passed' = [passed EXCEPT ![l] = @ + 1]
  /\ UNCHANGED <<tables, keyCache, cached, quota, traffic, asked, mishaps, raced, simulated>>

windowEnds(l) ==
  /\ counter[l] > 0
  /\ counter' = [counter EXCEPT ![l] = 0] /\ passed' = [passed EXCEPT ![l] = 0]
  /\ UNCHANGED <<tables, keyCache, cached, quota, reqs, traffic, asked, mishaps, raced,
                 simulated>>

-----------------------------------------------------------------------------
(* BlacklistService *)

ListLeaves ==
  UNCHANGED <<keys, expired, session, keyCache, counter, quota, traffic, asked, mishaps,
              passed, simulated>>

hget(c) ==
  /\ At(c, "hget")
  /\ IF cached[reqs[c].phone] = "none" THEN Goes(c) ELSE Answers(c)
  /\ ListLeaves /\ UNCHANGED <<listed, cached, raced>>

findUnique(c) ==
  /\ At(c, "findUnique") /\ Stepped(c, 1, listed \intersect {reqs[c].phone})
  /\ ListLeaves /\ UNCHANGED <<listed, cached, raced>>

hset(c) ==
  /\ At(c, "hset") /\ Goes(c)
  /\ cached' = [cached EXCEPT ![reqs[c].phone] = IF reqs[c].read = {} THEN "0" ELSE "1"]
  /\ ListLeaves /\ UNCHANGED <<listed, raced>>

\* ConflictException, NotFoundException
findEntry(c) ==
  /\ \/ At(c, "findAbsent") /\ IF reqs[c].phone \in listed THEN Answers(c) ELSE Goes(c)
     \/ At(c, "findEntry") /\ IF reqs[c].phone \in listed THEN Goes(c) ELSE Answers(c)
  /\ ListLeaves /\ UNCHANGED <<listed, cached, raced>>

\* A lookup of the phone, or a sync of the list, that has read it and not written it yet.
Reading(p) ==
  \E c \in Clients : At(c, "hsetAll") \/ (At(c, "hset") /\ reqs[c].phone = p)

Change(c) ==
  /\ raced' = IF Reading(reqs[c].phone) THEN raced \union {reqs[c].phone} ELSE raced
  /\ ListLeaves /\ UNCHANGED cached

\* The unique constraint rejects a second row, delete() a row that is gone.
create(c) ==
  /\ At(c, "create")
  /\ IF reqs[c].phone \in listed
     THEN Answers(c) /\ ListLeaves /\ UNCHANGED <<listed, cached, raced>>
     ELSE Goes(c) /\ listed' = listed \union {reqs[c].phone} /\ Change(c)

deleteEntry(c) ==
  /\ At(c, "delete")
  /\ IF reqs[c].phone \notin listed
     THEN Answers(c) /\ ListLeaves /\ UNCHANGED <<listed, cached, raced>>
     ELSE Goes(c) /\ listed' = listed \ {reqs[c].phone} /\ Change(c)

\* syncBlacklistCache: the hash is deleted, the table read, its rows written one by one.
del(c) ==
  /\ At(c, "del") /\ Goes(c)
  /\ cached' = [p \in Phones |-> "none"]
  /\ ListLeaves /\ UNCHANGED <<listed, raced>>

findMany(c) ==
  /\ At(c, "findMany") /\ Stepped(c, 1, listed)
  /\ ListLeaves /\ UNCHANGED <<listed, cached, raced>>

hsetAll(c) ==
  /\ At(c, "hsetAll")
  /\ IF reqs[c].read = {} THEN Answers(c) /\ UNCHANGED cached
     ELSE \E p \in reqs[c].read :
            /\ reqs' = [reqs EXCEPT ![c].read = @ \ {p}]
            /\ cached' = [cached EXCEPT ![p] = "1"]
  /\ ListLeaves /\ UNCHANGED <<listed, raced>>

\* BLACKLIST_CACHE_TTL
listExpires ==
  /\ \E p \in Phones : cached[p] # "none"
  /\ cached' = [p \in Phones |-> "none"]
  /\ raced' = raced \ {p \in Phones : ~Reading(p)}
  /\ ListLeaves /\ UNCHANGED <<listed, reqs>>

-----------------------------------------------------------------------------
(* SandboxService *)

SandboxLeaves ==
  UNCHANGED <<keys, expired, listed, keyCache, cached, counter, traffic, asked, mishaps,
              raced, passed>>

createSession(c) ==
  /\ At(c, "createSession") /\ Goes(c) /\ session' = "active"
  /\ SandboxLeaves /\ UNCHANGED <<quota, simulated>>

setQuota(c) ==
  /\ At(c, "setQuota") /\ Goes(c) /\ quota' = 0
  /\ SandboxLeaves /\ UNCHANGED <<session, simulated>>

getActiveSession(c) ==
  /\ At(c, "getActiveSession")
  /\ IF session = "active" THEN Goes(c) ELSE Answers(c)
  /\ SandboxLeaves /\ UNCHANGED <<session, quota, simulated>>

checkSandboxQuota(c) ==
  /\ At(c, "checkSandboxQuota")
  /\ IF quota >= Quota THEN Answers(c) ELSE Goes(c)
  /\ SandboxLeaves /\ UNCHANGED <<session, quota, simulated>>

incr(c) ==
  /\ At(c, "incr") /\ Goes(c)
  /\ quota' = quota + 1 /\ simulated' = simulated + 1
  /\ SandboxLeaves /\ UNCHANGED session

close(c) ==
  /\ At(c, "close") /\ Goes(c) /\ session' = "closed"
  /\ SandboxLeaves /\ UNCHANGED <<quota, simulated>>

delQuota(c) ==
  /\ At(c, "delQuota") /\ Goes(c) /\ quota' = 0
  /\ SandboxLeaves /\ UNCHANGED <<session, simulated>>

\* SANDBOX_TTL_HOURS: the session ends first, the key was set after it.
sessionExpires ==
  /\ session = "active" /\ session' = "expired"
  /\ SandboxLeaves /\ UNCHANGED <<quota, reqs, simulated>>

-----------------------------------------------------------------------------
(* A request ends where it is: an await rejects, or the process dies. *)
fails(c) ==
  /\ reqs[c] # NoRequest /\ mishaps < MaxMishaps /\ mishaps' = mishaps + 1
  /\ Answers(c)
  /\ raced' = raced \union (IF reqs[c].op = "revokeApiKey" THEN {reqs[c].key}
                            ELSE IF reqs[c].op \in OfPhone THEN {reqs[c].phone} ELSE {})
  /\ UNCHANGED <<tables, redis, traffic, asked, passed, simulated>>

Validation(c) ==
  \/ getFromCache(c) \/ delExpired(c) \/ findKey(c) \/ setCache(c)
  \/ deactivate(c) \/ delKey(c)
ListStep(c) ==
  \/ hget(c) \/ findUnique(c) \/ hset(c) \/ findEntry(c) \/ create(c) \/ deleteEntry(c)
  \/ del(c) \/ findMany(c) \/ hsetAll(c)
SandboxStep(c) ==
  \/ createSession(c) \/ setQuota(c) \/ getActiveSession(c) \/ checkSandboxQuota(c)
  \/ incr(c) \/ close(c) \/ delQuota(c)

Next ==
  \/ \E c \in Clients :
       \/ request(c) \/ revokeApiKey(c) \/ fails(c)
       \/ Validation(c) \/ ListStep(c) \/ SandboxStep(c)
       \/ \E l \in Limits : checkLimit(c, l)
  \/ \E k \in ApiKeys : keyExpires(k) \/ passesExpiry(k)
  \/ \E l \in Limits : windowEnds(l)
  \/ listExpires \/ sessionExpires

Spec == Init /\ [][Next]_vars

-----------------------------------------------------------------------------
\* The variables have their types: above all, a request that is not over has an await
\* before it, and only a read of the list holds phones.
TypeOK ==
  /\ keys \in [ApiKeys -> {"active", "revoked"}]
  /\ expired \subseteq ApiKeys /\ keyCache \subseteq ApiKeys
  /\ listed \subseteq Phones /\ cached \in [Phones -> {"none", "0", "1"}]
  /\ counter \in [Limits -> 0 .. MaxRequests] /\ passed \in [Limits -> 0 .. MaxRequests]
  /\ session \in {"none", "active", "closed", "expired"}
  /\ quota \in 0 .. MaxRequests
  /\ \A c \in Clients :
       /\ reqs[c] # NoRequest => reqs[c].todo # <<>>
       /\ reqs[c].read \subseteq Phones
       /\ reqs[c].read # {} => At(c, "hset") \/ At(c, "hsetAll")
  /\ traffic \in Traffics /\ asked \in 0 .. MaxRequests /\ mishaps \in 0 .. MaxMishaps
  /\ raced \subseteq ApiKeys \union Phones /\ simulated \in 0 .. MaxRequests

\* A revoked key has no entry in the cache, so it is refused at once: unless a validation
\* that had read it as active was still to cache it (auth.service.ts validateApiKey,
\* revokeApiKey).
RevokedIsRefused ==
  \A k \in ApiKeys \ raced :
    /\ keys[k] = "revoked"
    /\ \A c \in Clients : reqs[c].op = "revokeApiKey" => reqs[c].key # k
    => k \notin keyCache

Changing(p) ==
  \E c \in Clients :
    reqs[c].op \in {"addToBlacklist", "removeFromBlacklist"} /\ reqs[c].phone = p

\* What the cache says of a phone is what the table says, unless the phone is being added
\* or removed or a request that had read the list overlapped the last change
\* (isBlacklisted, syncBlacklistCache).
ListIsCached ==
  \A p \in Phones \ raced :
    ~Changing(p) => cached[p] \in {"none", IF p \in listed THEN "1" ELSE "0"}

\* Both caches agree with their tables.
CachesAgree == RevokedIsRefused /\ ListIsCached

\* In its window a limit lets no more than its number past, whatever other limits then
\* reject (checkLimit).
RateLimitsHold == \A l \in Limits : passed[l] <= limit[l]

\* An active session takes at most Clients - 1 messages over its quota, those whose check
\* came before another's count; its end lets at most as many in again, whose check finds
\* the count deleted (checkSandboxQuota, deleteSession).
QuotaHolds ==
  simulated <= Quota + (IF session = "active" THEN 1 ELSE 2) * (Cardinality(Clients) - 1)
=============================================================================
