------------------------ MODULE CredentialsProofs ------------------------
(***************************************************************************)
(* Theorems of Credentials, for any rows, accounts, secrets and numbers of *)
(* requests and failures: its types, and what the guards let through.      *)
(***************************************************************************)
EXTENDS Credentials, TLAPS

Statuses == {"ACTIVE", "REVOKED"}
LookedUp == TwilioTypes \union {"meta"}

\* A row whose payload is stored keeps its provider, and looks up the payload's account
\* or what it did before.
LEMMA StoredRow ==
  ASSUME NEW row \in Rows, row.provider \in Providers, NEW o \in Payloads,
         NEW type \in Providers \union {"none"}, NEW s \in Statuses
  PROVE  LET new == [Stored(row, type, o) EXCEPT !.status = s] IN
         /\ new \in Rows
         /\ new.provider = row.provider /\ new.data = o /\ new.status = s
         /\ new.external \in {o.account, row.external}
         /\ new.type = type /\ (type \in LookedUp => new.external = o.account)
  BY DEF Stored, extractPublicIdentifiers, Rows, Payloads, Statuses, LookedUp

LEMMA DeletedRow ==
  ASSUME NEW p \in Providers \union {"none"}
  PROVE  LET row == [NoRow EXCEPT !.status = "deleted", !.provider = p] IN
         row \in Rows /\ row.provider = p /\ row.status = "deleted" /\ row.external = "none"
  BY DEF NoRow, Rows, Providers, None

-----------------------------------------------------------------------------
(* The inductive invariant. *)

\* A row has its payload, has claimed the payload's account, and is looked up by it if it
\* is looked up at all.
StoredInv ==
  \A c \in Ids :
    /\ Exists(c) => rows[c].provider \in Providers /\ rows[c].data \in Payloads
                    /\ <<c, rows[c].data.account>> \in claims
    /\ rows[c].external # "none" => <<c, rows[c].external>> \in claims
    /\ Exists(c) /\ rows[c].type \in LookedUp => rows[c].external = rows[c].data.account

\* Two hooks of a row disturb each other.
Alone ==
  \A h1, h2 \in hooks : h1.cred = h2.cred /\ h1.cred \notin disturbed => h1 = h2

\* An undisturbed hook calls with the payload its row has.
Fresh ==
  \A h \in hooks : h.at = "call" =>
    /\ <<h.cred, h.data.account>> \in claims
    /\ h.cred \notin disturbed /\ Exists(h.cred) => h.data = rows[h.cred].data

\* The dashboard knows the payload since it is stored, Telegram since the hook.
Told(c) ==
  Exists(c) /\ rows[c].type = rows[c].provider /\ (rows[c].type = "telegram" => Undisturbed(c))

WebhookOf(c) == [cred |-> c, secret |-> rows[c].data.secret]

WebhookInv ==
  \A c \in Ids : Told(c) /\ SoleClaim(c) => webhook[rows[c].data.account] = WebhookOf(c)

IInv == TypeOK /\ StoredInv /\ Alone /\ Fresh /\ WebhookInv

-----------------------------------------------------------------------------
(* A request that stores a payload, as both create and update do. *)
Stores(c, o) ==
  /\ rows' \in [Ids -> Rows]
  /\ \A d \in Ids : d # c => rows'[d] = rows[d]
  /\ rows'[c].data = o /\ rows'[c].provider \in Providers /\ rows'[c].status \in Statuses
  /\ rows'[c].external \in {o.account, rows[c].external, "none"}
  /\ rows'[c].type \in LookedUp => rows'[c].external = o.account
  /\ \E type \in Providers : /\ rows'[c].type \in {type, "none"}
                             /\ Configured(type, c, o)

LEMMA Storing ==
  ASSUME TypeOK, StoredInv, NEW c \in Ids, create(c) \/ update(c)
  PROVE  \E o \in Payloads : Stores(c, o)
  <1>1. CASE create(c)
    <2>1. PICK p \in Providers, o \in Payloads :
            /\ rows' = [rows EXCEPT ![c] =
                          Stored([NoRow EXCEPT !.provider = p, !.status = "ACTIVE"], p, o)]
            /\ Configured(p, c, o)
      BY <1>1 DEF create
    <2> DEFINE new == Stored([NoRow EXCEPT !.provider = p, !.status = "ACTIVE"], p, o)
    <2>2. /\ new \in Rows /\ new.provider = p /\ new.data = o /\ new.status = "ACTIVE"
          /\ new.external \in {o.account, "none"}
          /\ new.type = p /\ (p \in LookedUp => new.external = o.account)
      BY DEF Stored, extractPublicIdentifiers, NoRow, Rows, Payloads, Providers, None, LookedUp
    <2> HIDE DEF new
    <2>3. rows' = [rows EXCEPT ![c] = new]
      BY <2>1 DEF new
    <2>4. rows'[c] = new /\ rows' \in [Ids -> Rows] /\ \A d \in Ids : d # c => rows'[d] = rows[d]
      BY <2>2, <2>3 DEF TypeOK
    <2>5. Stores(c, o)
      BY <2>1, <2>2, <2>4 DEF Stores, Statuses
    <2> QED BY <2>5
  <1>2. CASE update(c)
    <2>1. PICK o \in Payloads, type \in Providers \union {"none"}, s \in Statuses :
            /\ rows' = [rows EXCEPT ![c] = [Stored(rows[c], type, o) EXCEPT !.status = s]]
            /\ Configured(IF type = "none" THEN rows[c].provider ELSE type, c, o)
      BY <1>2 DEF update, Statuses
    <2>2. rows[c] \in Rows /\ rows[c].provider \in Providers
      BY <1>2 DEF update, StoredInv, TypeOK
    <2> DEFINE new == [Stored(rows[c], type, o) EXCEPT !.status = s]
    <2>3. /\ new \in Rows /\ new.provider = rows[c].provider /\ new.data = o /\ new.status = s
          /\ new.external \in {o.account, rows[c].external}
          /\ new.type = type /\ (type \in LookedUp => new.external = o.account)
      BY <2>2, StoredRow
    <2> HIDE DEF new
    <2>4. rows' = [rows EXCEPT ![c] = new]
      BY <2>1 DEF new
    <2>5. rows'[c] = new /\ rows' \in [Ids -> Rows] /\ \A d \in Ids : d # c => rows'[d] = rows[d]
      BY <2>3, <2>4 DEF TypeOK
    <2>6. Stores(c, o)
      BY <2>1, <2>2, <2>3, <2>5 DEF Stores
    <2> QED BY <2>6
  <1> QED BY <1>1, <1>2

\* A deleted row keeps its provider.
LEMMA Deleting ==
  ASSUME TypeOK, NEW c \in Ids, delete(c)
  PROVE  /\ rows' \in [Ids -> Rows]
         /\ \A d \in Ids : d # c => rows'[d] = rows[d]
         /\ rows'[c].status = "deleted" /\ rows'[c].external = "none"
  <1> DEFINE new == [NoRow EXCEPT !.status = "deleted", !.provider = rows[c].provider]
  <1>1. new \in Rows /\ new.status = "deleted" /\ new.external = "none"
    BY DEF TypeOK, NoRow, Rows, None
  <1>2. rows' = [rows EXCEPT ![c] = new]
    BY DEF delete
  <1> HIDE DEF new
  <1> QED BY <1>1, <1>2 DEF TypeOK

LEMMA Switching ==
  ASSUME TypeOK, NEW c \in Ids, updateStatus(c)
  PROVE  /\ rows' \in [Ids -> Rows]
         /\ \A d \in Ids : /\ rows'[d].provider = rows[d].provider /\ rows'[d].type = rows[d].type
                           /\ rows'[d].data = rows[d].data /\ rows'[d].external = rows[d].external
                           /\ rows'[d].status \in Statuses <=> rows[d].status \in Statuses
  <1>1. PICK s \in Statuses : rows' = [rows EXCEPT ![c].status = s]
    BY DEF updateStatus, Statuses
  <1>2. rows[c].status \in Statuses
    BY DEF updateStatus, Exists, Statuses
  <1> QED BY <1>1, <1>2 DEF TypeOK, Rows, Statuses

-----------------------------------------------------------------------------
(* What hooks there are and which rows are disturbed. *)

\* A hook of c begins.
LEMMA Firing ==
  ASSUME TypeOK, Alone, NEW c \in Ids, Fire(c), Request
  PROVE  /\ hooks' \subseteq Hooks /\ \A h \in hooks' : h.at = "call" => h \in hooks
         /\ disturbed' \subseteq Ids
         /\ Alone'
         /\ ~Undisturbed(c)'
         /\ \A d \in Ids : d # c => Undisturbed(d)' = Undisturbed(d)
         /\ \A h \in hooks : h.cred \notin disturbed' => h.cred # c /\ h.cred \notin disturbed
  <1> DEFINE new == [n |-> calls, cred |-> c, at |-> "resolve", data |-> None]
  <1>1. new.cred = c /\ new.at = "resolve" /\ new \in Hooks
    BY BoundsAssumption DEF Request, TypeOK, Hooks
  <1>2. hooks' = hooks \union {new}
    BY DEF Fire
  <1> HIDE DEF new
  <1>3. CASE \E h \in hooks : h.cred = c
    <2>1. disturbed' = disturbed \union {c}
      BY <1>3 DEF Fire
    <2> QED BY <2>1, <1>1, <1>2, <1>3 DEF TypeOK, Alone, Undisturbed
  <1>4. CASE ~\E h \in hooks : h.cred = c
    <2>1. disturbed' = disturbed \ {c}
      BY <1>4 DEF Fire
    <2> QED BY <2>1, <1>1, <1>2, <1>4 DEF TypeOK, Alone, Undisturbed
  <1> QED BY <1>3, <1>4

-----------------------------------------------------------------------------
(* A webhook that is set for a row is of an account the row has claimed, so that the  *)
(* rows that are alone with theirs keep them.                                         *)
LEMMA Keeping ==
  ASSUME WebhookInv, NEW c, NEW a, NEW d \in Ids, d # c, rows'[d] = rows[d],
         \A b \in Accounts : b # a => webhook'[b] = webhook[b],
         <<c, a>> \in claims', claims \subseteq claims',
         rows[d].data.account \in Accounts, Undisturbed(d)' => Undisturbed(d),
         Told(d)', SoleClaim(d)'
  PROVE  webhook'[rows'[d].data.account] = WebhookOf(d)'
  <1>1. Told(d) /\ SoleClaim(d)
    BY DEF Told, SoleClaim, Exists
  <1>2. rows[d].data.account # a
    <2>1. SUFFICES ASSUME rows[d].data.account = a PROVE FALSE
      OBVIOUS
    <2>2. <<c, a>>[2] = rows'[d].data.account => <<c, a>>[1] = d
      BY DEF SoleClaim
    <2> QED BY <2>1, <2>2
  <1> QED BY <1>1, <1>2 DEF WebhookInv, WebhookOf

\* A row that exists has a payload of an account.
LEMMA StoredAccount ==
  ASSUME StoredInv, NEW c \in Ids, Exists(c)
  PROVE  rows[c].data.account \in Accounts /\ rows[c].data.secret \in Secrets
         /\ rows[c].data \in Payloads
  BY DEF StoredInv, Payloads

-----------------------------------------------------------------------------
(* The requests. *)
LEMMA StoringStep ==
  ASSUME IInv, NEW c \in Ids, create(c) \/ update(c)
  PROVE  IInv'
  <1>1. PICK o \in Payloads : Stores(c, o)
    BY Storing DEF IInv
  <1>2. Fire(c) /\ Request /\ publicUrl' = publicUrl /\ mishaps' = mishaps
    BY DEF create, update
  <1>3. o.account \in Accounts /\ o.secret \in Secrets
    BY DEF Payloads
  <1>4. claims' = claims \union {<<c, o.account>>}
    BY <1>1 DEF Stores, Configured, Providers
  <1>5. /\ webhook' \in [Accounts -> [cred : Ids, secret : Secrets] \union {Unset}]
        /\ \A b \in Accounts : b # o.account => webhook'[b] = webhook[b]
        /\ rows'[c].type \in Providers \ {"telegram"} =>
             webhook'[o.account] = [cred |-> c, secret |-> o.secret]
    <2> DEFINE w == [cred |-> c, secret |-> o.secret]
    <2>1. w \in [cred : Ids, secret : Secrets]
      BY <1>3
    <2> PICK type \in Providers : rows'[c].type \in {type, "none"} /\ Configured(type, c, o)
      BY <1>1 DEF Stores
    <2>2. CASE type = "telegram"
      BY <2>2 DEF Configured, IInv, TypeOK, Providers
    <2>3. CASE type # "telegram"
      <3>1. webhook' = [webhook EXCEPT ![o.account] = w]
        BY <2>3 DEF Configured
      <3> HIDE DEF w
      <3>2. /\ webhook' \in [Accounts -> [cred : Ids, secret : Secrets] \union {Unset}]
            /\ \A b \in Accounts : b # o.account => webhook'[b] = webhook[b]
            /\ webhook'[o.account] = w
        BY <3>1, <2>1, <1>3 DEF IInv, TypeOK
      <3> QED BY <3>2 DEF w
    <2> QED BY <2>2, <2>3
  <1>6. TypeOK'
    <2>1. rows' \in [Ids -> Rows]
      BY <1>1 DEF Stores
    <2>2. /\ hooks' \subseteq Hooks /\ disturbed' \subseteq Ids
          /\ \A h \in hooks' : h.at = "call" => h \in hooks
      BY <1>2, Firing DEF IInv
    <2>3. calls' \in 0 .. MaxCalls
      BY <1>2, BoundsAssumption DEF IInv, TypeOK, Request
    <2> QED BY <2>1, <2>2, <2>3, <1>2, <1>3, <1>4, <1>5 DEF IInv, TypeOK
  <1>7. StoredInv'
    <2>1. ASSUME NEW d \in Ids, d # c
          PROVE  rows'[d] = rows[d]
      BY <2>1, <1>1 DEF Stores
    <2>2. /\ rows'[c].provider \in Providers /\ rows'[c].data = o
          /\ rows'[c].external \in {o.account, rows[c].external, "none"}
          /\ rows'[c].type \in LookedUp => rows'[c].external = o.account
      BY <1>1 DEF Stores
    <2> QED BY <2>1, <2>2, <1>4 DEF IInv, StoredInv, Exists
  <1>8. Alone' /\ Fresh'
    <2>1. Alone'
      BY <1>2, Firing DEF IInv
    <2>2. ASSUME NEW h \in hooks', h.at = "call"
          PROVE  /\ <<h.cred, h.data.account>> \in claims'
                 /\ h.cred \notin disturbed' /\ Exists(h.cred)' => h.data = rows'[h.cred].data
      <3>1. h \in hooks /\ h.cred \in Ids
        BY <2>2, <1>2, Firing DEF IInv, TypeOK, Hooks
      <3>2. h.cred \notin disturbed' => h.cred # c /\ h.cred \notin disturbed
        BY <3>1, <1>2, Firing DEF IInv
      <3>3. h.cred # c => rows'[h.cred] = rows[h.cred]
        BY <3>1, <1>1 DEF Stores
      <3> QED BY <2>2, <3>1, <3>2, <3>3, <1>4 DEF IInv, Fresh, Exists
    <2> QED BY <2>1, <2>2 DEF Fresh
  <1>9. WebhookInv'
    <2>1. SUFFICES ASSUME NEW d \in Ids, Told(d)', SoleClaim(d)'
                   PROVE  webhook'[rows'[d].data.account] = WebhookOf(d)'
      BY DEF WebhookInv
    <2>2. CASE d = c
      <3>1. rows'[c].type # "telegram"
        BY <2>1, <2>2, <1>2, Firing DEF Told, IInv
      <3>2. rows'[c].type \in Providers /\ rows'[c].data = o
        BY <2>1, <2>2, <1>1 DEF Stores, Told
      <3> QED BY <2>2, <3>1, <3>2, <1>5 DEF WebhookOf
    <2>3. CASE d # c
      <3>1. rows'[d] = rows[d]
        BY <2>3, <1>1 DEF Stores
      <3>2. rows[d].data.account \in Accounts
        BY <3>1, <2>1, StoredAccount DEF IInv, Told, Exists
      <3>3. Undisturbed(d)' = Undisturbed(d)
        BY <2>3, <1>2, Firing DEF IInv
      <3>4. <<c, o.account>> \in claims' /\ claims \subseteq claims'
        BY <1>4
      <3> QED BY <2>1, <2>3, <3>1, <3>2, <3>3, <3>4, <1>5, Keeping DEF IInv
    <2> QED BY <2>2, <2>3
  <1> QED BY <1>6, <1>7, <1>8, <1>9 DEF IInv

LEMMA SwitchingStep ==
  ASSUME IInv, NEW c \in Ids, updateStatus(c)
  PROVE  IInv'
  <1>1. /\ hooks' = hooks /\ webhook' = webhook /\ publicUrl' = publicUrl /\ mishaps' = mishaps
        /\ disturbed' = disturbed /\ claims' = claims /\ Request
    BY DEF updateStatus
  <1>2. /\ rows' \in [Ids -> Rows]
        /\ \A d \in Ids : /\ rows'[d].provider = rows[d].provider /\ rows'[d].type = rows[d].type
                          /\ rows'[d].data = rows[d].data /\ rows'[d].external = rows[d].external
                          /\ Exists(d)' <=> Exists(d)
    BY Switching DEF IInv, Exists, Statuses
  <1>3. TypeOK'
    BY <1>1, <1>2, BoundsAssumption DEF IInv, TypeOK, Request
  <1>4. StoredInv'
    BY <1>1, <1>2 DEF IInv, StoredInv
  <1>5. Alone'
    BY <1>1 DEF IInv, Alone
  <1>6. Fresh'
    <2>1. \A h \in hooks : h.cred \in Ids
      BY DEF IInv, TypeOK, Hooks
    <2> QED BY <2>1, <1>1, <1>2 DEF IInv, Fresh
  <1>7. WebhookInv'
    BY <1>1, <1>2 DEF IInv, WebhookInv, Told, Undisturbed, SoleClaim, WebhookOf
  <1> QED BY <1>3, <1>4, <1>5, <1>6, <1>7 DEF IInv

LEMMA DeletingStep ==
  ASSUME IInv, NEW c \in Ids, delete(c)
  PROVE  IInv'
  <1>1. /\ webhook' = webhook /\ publicUrl' = publicUrl /\ mishaps' = mishaps /\ claims' = claims
        /\ Request /\ Fire(c)
    BY DEF delete
  <1>2. /\ rows' \in [Ids -> Rows]
        /\ \A d \in Ids : d # c => rows'[d] = rows[d]
        /\ ~Exists(c)' /\ rows'[c].external = "none"
    BY Deleting DEF IInv, Exists
  <1>3. /\ hooks' \subseteq Hooks /\ disturbed' \subseteq Ids /\ Alone'
        /\ \A h \in hooks' : h.at = "call" => h \in hooks
        /\ \A d \in Ids : d # c => Undisturbed(d)' = Undisturbed(d)
        /\ \A h \in hooks : h.cred \notin disturbed' => h.cred # c /\ h.cred \notin disturbed
    BY <1>1, Firing DEF IInv
  <1>4. TypeOK'
    BY <1>1, <1>2, <1>3, BoundsAssumption DEF IInv, TypeOK, Request
  <1>5. StoredInv'
    BY <1>1, <1>2 DEF IInv, StoredInv, Exists
  <1>6. Fresh'
    <2>1. \A h \in hooks : h.cred \in Ids
      BY DEF IInv, TypeOK, Hooks
    <2> QED BY <2>1, <1>1, <1>2, <1>3 DEF IInv, Fresh, Exists
  <1>7. WebhookInv'
    <2>1. SUFFICES ASSUME NEW d \in Ids, Told(d)', SoleClaim(d)'
                   PROVE  webhook'[rows'[d].data.account] = WebhookOf(d)'
      BY DEF WebhookInv
    <2>2. d # c
      BY <2>1, <1>2 DEF Told
    <2>3. rows'[d] = rows[d] /\ Undisturbed(d)' = Undisturbed(d)
      BY <2>2, <1>2, <1>3
    <2>4. Told(d) /\ SoleClaim(d)
      BY <2>1, <2>3, <1>1 DEF Told, SoleClaim, Exists
    <2> QED BY <2>3, <2>4, <1>1 DEF IInv, WebhookInv, WebhookOf
  <1> QED BY <1>3, <1>4, <1>5, <1>6, <1>7 DEF IInv

-----------------------------------------------------------------------------
(* The hooks. *)

\* A hook reads its row.
LEMMA ResolveStep ==
  ASSUME IInv, NEW h \in hooks, resolve(h)
  PROVE  IInv'
  <1>1. /\ rows' = rows /\ publicUrl' = publicUrl /\ calls' = calls /\ claims' = claims
        /\ webhook' = webhook /\ mishaps' = mishaps /\ disturbed' = disturbed
    BY DEF resolve, HookLeaves
  <1>2. h \in Hooks /\ h.cred \in Ids /\ Exists(h.cred)
    BY DEF resolve, Resolves, Active, Exists, IInv, TypeOK, Hooks
  <1>3. rows[h.cred].data \in Payloads /\ <<h.cred, rows[h.cred].data.account>> \in claims
    BY <1>2, StoredAccount DEF IInv, StoredInv
  <1> DEFINE new == [h EXCEPT !.at = "call", !.data = rows[h.cred].data]
  <1>4. new \in Hooks /\ new.cred = h.cred /\ new.at = "call" /\ new.data = rows[h.cred].data
    BY <1>2, <1>3 DEF Hooks
  <1>5. hooks' = (hooks \ {h}) \union {new}
    BY DEF resolve
  <1> HIDE DEF new
  <1>6. TypeOK'
    BY <1>1, <1>3, <1>4, <1>5 DEF IInv, TypeOK
  <1>7. StoredInv'
    BY <1>1 DEF IInv, StoredInv, Exists
  <1>8. Alone'
    BY <1>1, <1>4, <1>5 DEF IInv, Alone
  <1>9. Fresh'
    BY <1>1, <1>3, <1>4, <1>5 DEF IInv, Fresh, Exists
  <1>10. WebhookInv'
    <2>1. \A d \in Ids : Undisturbed(d)' = Undisturbed(d)
      BY <1>1, <1>4, <1>5 DEF Undisturbed
    <2> QED BY <2>1, <1>1 DEF IInv, WebhookInv, Told, SoleClaim, WebhookOf, Exists
  <1> QED BY <1>6, <1>7, <1>8, <1>9, <1>10 DEF IInv

\* A hook ends, with its webhook set or not: if not, it was disturbed, or its row is none
\* that a hook tells the provider about.
Ends(h) ==
  /\ hooks' = hooks \ {h}
  /\ rows' = rows /\ publicUrl' = publicUrl /\ calls' = calls /\ claims' = claims
  /\ disturbed' = disturbed \/ disturbed' = disturbed \union {h.cred}
  /\ mishaps' \in 0 .. MaxMishaps

LEMMA EndedHook ==
  ASSUME IInv, NEW h \in hooks, Ends(h),
         webhook' \in [Accounts -> [cred : Ids, secret : Secrets] \union {Unset}]
  PROVE  /\ TypeOK' /\ StoredInv' /\ Alone' /\ Fresh'
         /\ \A d \in Ids : d # h.cred => Undisturbed(d)' = Undisturbed(d)
  <1>1. h.cred \in Ids
    BY DEF IInv, TypeOK, Hooks
  <1>2. TypeOK'
    BY <1>1 DEF Ends, IInv, TypeOK
  <1>3. StoredInv'
    BY DEF Ends, IInv, StoredInv, Exists
  <1>4. Alone'
    BY DEF Ends, IInv, Alone
  <1>5. Fresh'
    BY DEF Ends, IInv, Fresh, Exists
  <1>6. \A d \in Ids : d # h.cred => Undisturbed(d)' = Undisturbed(d)
    BY DEF Ends, Undisturbed
  <1> QED BY <1>2, <1>3, <1>4, <1>5, <1>6

\* It ends without having set a webhook.
LEMMA UnsetStep ==
  ASSUME IInv, NEW h \in hooks, Ends(h), webhook' = webhook,
         \/ disturbed' = disturbed \union {h.cred}
         \/ rows[h.cred].provider # "telegram"
         \/ rows[h.cred].type # rows[h.cred].provider
  PROVE  IInv'
  <1>1. /\ TypeOK' /\ StoredInv' /\ Alone' /\ Fresh'
        /\ \A d \in Ids : d # h.cred => Undisturbed(d)' = Undisturbed(d)
    BY EndedHook DEF IInv, TypeOK
  <1>2. WebhookInv'
    <2>1. SUFFICES ASSUME NEW d \in Ids, Told(d)', SoleClaim(d)'
                   PROVE  webhook'[rows'[d].data.account] = WebhookOf(d)'
      BY DEF WebhookInv
    <2>2. rows' = rows /\ claims' = claims
      BY DEF Ends
    <2>3. Told(d)
      <3>1. CASE d # h.cred
        BY <3>1, <2>1, <2>2, <1>1 DEF Told, Exists
      <3>2. CASE d = h.cred
        BY <3>2, <2>1, <2>2 DEF Told, Exists, Undisturbed
      <3> QED BY <3>1, <3>2
    <2>4. SoleClaim(d)
      BY <2>1, <2>2 DEF SoleClaim
    <2> QED BY <2>2, <2>3, <2>4 DEF IInv, WebhookInv, WebhookOf
  <1> QED BY <1>1, <1>2 DEF IInv

\* It ends with its webhook set, for a payload it has if nothing disturbed it.
LEMMA SetStep ==
  ASSUME IInv, NEW h \in hooks, Ends(h), Registers(h), h.at = "call"
  PROVE  IInv'
  <1>1. h \in Hooks /\ h.cred \in Ids /\ h.data \in Payloads
    BY DEF IInv, TypeOK, Hooks
  <1>2. h.data.account \in Accounts /\ h.data.secret \in Secrets
    BY <1>1 DEF Payloads
  <1> DEFINE w == [cred |-> h.cred, secret |-> h.data.secret]
  <1>3. w \in [cred : Ids, secret : Secrets]
    BY <1>1, <1>2
  <1>4. webhook' = [webhook EXCEPT ![h.data.account] = w]
    BY DEF Registers
  <1>5. rows' = rows /\ claims' = claims /\ <<h.cred, h.data.account>> \in claims'
    BY DEF Ends, IInv, Fresh
  <1>6. w = [cred |-> h.cred, secret |-> h.data.secret]
    OBVIOUS
  <1> HIDE DEF w
  <1>7. /\ webhook' \in [Accounts -> [cred : Ids, secret : Secrets] \union {Unset}]
        /\ \A b \in Accounts : b # h.data.account => webhook'[b] = webhook[b]
        /\ webhook'[h.data.account] = w
    BY <1>2, <1>3, <1>4 DEF IInv, TypeOK
  <1>8. /\ TypeOK' /\ StoredInv' /\ Alone' /\ Fresh'
        /\ \A d \in Ids : d # h.cred => Undisturbed(d)' = Undisturbed(d)
    BY <1>7, EndedHook
  <1>9. WebhookInv'
    <2>1. SUFFICES ASSUME NEW d \in Ids, Told(d)', SoleClaim(d)'
                   PROVE  webhook'[rows'[d].data.account] = WebhookOf(d)'
      BY DEF WebhookInv
    <2>2. CASE d = h.cred
      <3>1. rows[d].provider = "telegram"
        BY <2>2 DEF Registers
      <3>2. d \notin disturbed /\ Exists(d)
        BY <2>1, <3>1, <1>5 DEF Told, Undisturbed, Exists, Ends
      <3>3. h.data = rows[d].data
        BY <2>2, <3>2 DEF IInv, Fresh
      <3> QED BY <2>2, <3>3, <1>5, <1>6, <1>7 DEF WebhookOf
    <2>3. CASE d # h.cred
      <3>1. rows[d].data.account \in Accounts
        BY <2>1, <1>5, StoredAccount DEF IInv, Told, Exists
      <3> QED BY <2>1, <2>3, <3>1, <1>5, <1>7, <1>8, Keeping DEF IInv
    <2> QED BY <2>2, <2>3
  <1> QED BY <1>8, <1>9 DEF IInv

LEMMA HookStep ==
  ASSUME IInv, NEW h \in hooks, Hook(h) \/ callFails(h)
  PROVE  IInv'
  <1>1. CASE resolve(h)
    BY <1>1, ResolveStep
  <1>2. CASE resolveThrows(h)
    <2>1. Ends(h) /\ webhook' = webhook /\ disturbed' = disturbed \union {h.cred}
      BY <1>2 DEF resolveThrows, Ends, End, HookLeaves, IInv, TypeOK
    <2> QED BY <2>1, UnsetStep
  <1>3. CASE notOfItsType(h)
    <2>1. Ends(h) /\ webhook' = webhook /\ rows[h.cred].type # rows[h.cred].provider
      BY <1>3 DEF notOfItsType, Resolves, Ends, End, HookLeaves, IInv, TypeOK
    <2> QED BY <2>1, UnsetStep
  <1>4. CASE registerWebhook(h)
    <2>1. Ends(h) /\ Registers(h) /\ h.at = "call"
      BY <1>4 DEF registerWebhook, Ends, End, HookLeaves, IInv, TypeOK
    <2> QED BY <2>1, SetStep
  <1>5. CASE noPublicUrl(h)
    <2>1. Ends(h) /\ webhook' = webhook /\ disturbed' = disturbed \union {h.cred}
      BY <1>5 DEF noPublicUrl, Ends, End, HookLeaves, IInv, TypeOK
    <2> QED BY <2>1, UnsetStep
  <1>6. CASE otherCall(h)
    <2>1. Ends(h) /\ webhook' = webhook /\ rows[h.cred].provider # "telegram"
      BY <1>6 DEF otherCall, Ends, End, HookLeaves, IInv, TypeOK
    <2> QED BY <2>1, UnsetStep
  <1>7. CASE callFails(h)
    <2>1. mishaps' \in 0 .. MaxMishaps
      BY <1>7, BoundsAssumption DEF callFails, Mishap, IInv, TypeOK
    <2>2. Ends(h) /\ h.at = "call" /\ disturbed' = disturbed \union {h.cred}
      BY <1>7, <2>1 DEF callFails, Ends, End, HookLeaves
    <2>3. Registers(h) \/ webhook' = webhook
      BY <1>7 DEF callFails
    <2> QED BY <2>2, <2>3, UnsetStep, SetStep
  <1> QED BY <1>1, <1>2, <1>3, <1>4, <1>6, <1>7, <1>5 DEF Hook

LEMMA CrashStep ==
  ASSUME IInv, crash
  PROVE  IInv'
  <1>1. /\ rows' = rows /\ webhook' = webhook /\ calls' = calls /\ claims' = claims
        /\ hooks' = {} /\ publicUrl' \in BOOLEAN
        /\ disturbed' = disturbed \union {h.cred : h \in hooks}
    BY DEF crash
  <1>2. mishaps' \in 0 .. MaxMishaps
    BY BoundsAssumption DEF crash, Mishap, IInv, TypeOK
  <1>3. TypeOK'
    <2>1. \A h \in hooks : h.cred \in Ids
      BY DEF IInv, TypeOK, Hooks
    <2> QED BY <2>1, <1>1, <1>2 DEF IInv, TypeOK
  <1>4. StoredInv' /\ Alone' /\ Fresh'
    BY <1>1 DEF IInv, StoredInv, Alone, Fresh, Exists
  <1>5. WebhookInv'
    <2>1. \A d \in Ids : Undisturbed(d)' => Undisturbed(d)
      BY <1>1 DEF Undisturbed
    <2> QED BY <2>1, <1>1 DEF IInv, WebhookInv, Told, SoleClaim, WebhookOf, Exists
  <1> QED BY <1>3, <1>4, <1>5 DEF IInv

-----------------------------------------------------------------------------
LEMMA Inductive == Spec => []IInv
  <1>1. Init => IInv
    <2> SUFFICES ASSUME Init PROVE IInv
      OBVIOUS
    <2>1. TypeOK
      <3>1. NoRow \in Rows
        BY DEF NoRow, Rows
      <3> QED BY <3>1, BoundsAssumption DEF Init, TypeOK
    <2>2. StoredInv
      BY DEF Init, StoredInv, Exists, NoRow
    <2>3. Alone /\ Fresh
      BY DEF Init, Alone, Fresh
    <2>4. WebhookInv
      BY DEF Init, WebhookInv, Told, Exists, NoRow
    <2> QED BY <2>1, <2>2, <2>3, <2>4 DEF IInv
  <1>2. IInv /\ [Next]_vars => IInv'
    <2> SUFFICES ASSUME IInv, [Next]_vars PROVE IInv'
      OBVIOUS
    <2>1. ASSUME NEW c \in Ids, create(c) \/ update(c)
          PROVE  IInv'
      BY <2>1, StoringStep
    <2>2. ASSUME NEW c \in Ids, updateStatus(c)
          PROVE  IInv'
      BY <2>2, SwitchingStep
    <2>3. ASSUME NEW c \in Ids, delete(c)
          PROVE  IInv'
      BY <2>3, DeletingStep
    <2>4. ASSUME NEW h \in hooks, Hook(h) \/ callFails(h)
          PROVE  IInv'
      BY <2>4, HookStep
    <2>5. CASE crash
      BY <2>5, CrashStep
    <2>6. CASE UNCHANGED vars
      BY <2>6 DEF vars, IInv, TypeOK, StoredInv, Alone, Fresh, WebhookInv, Told,
                  Undisturbed, SoleClaim, WebhookOf, Exists
    <2> QED BY <2>1, <2>2, <2>3, <2>4, <2>4, <2>5, <2>6 DEF Next
  <1> QED BY <1>1, <1>2, PTL DEF Spec

-----------------------------------------------------------------------------
\* The variables have their types, and no hook calls a provider with a payload that is not
\* of the provider's type.
THEOREM TypeCorrect == Spec => []TypeOK
  <1>1. IInv => TypeOK
    BY DEF IInv
  <1> QED BY <1>1, Inductive, PTL

\* An event of an account whose credential is active and complete is let through, for that
\* credential and no other (the guards' canActivate), however often it was rotated,
\* switched off and on, and whatever its earlier hooks met: but for TWILIO_RCS, which the
\* guard's lookup leaves out, and a Telegram credential whose last hook set nothing.
THEOREM EventsGetThroughAlways == Spec => []EventsGetThrough
  <1>1. IInv => EventsGetThrough
    <2> SUFFICES ASSUME IInv, NEW c \in Ids, Resolves(c), SoleClaim(c),
                        rows[c].provider # "rcs",
                        rows[c].provider = "telegram" => Undisturbed(c)
                 PROVE  {d \in Ids : Accepts(rows[c].data.account, d)} = {c}
      BY DEF EventsGetThrough
    <2> DEFINE a == rows[c].data.account
    <2>1. Exists(c) /\ Active(c) /\ rows[c].type = rows[c].provider
      BY DEF Resolves, Active, Exists
    <2>2. rows[c].provider \in Providers /\ a \in Accounts /\ a # "none"
      BY <2>1, StoredAccount, NamesAssumption DEF IInv, StoredInv
    <2>3. webhook[a] = [cred |-> c, secret |-> rows[c].data.secret]
      BY <2>1 DEF IInv, WebhookInv, Told, WebhookOf, Providers
    <2>4. Accepts(a, c)
      <3>1. CASE rows[c].provider = "telegram"
        BY <3>1, <2>1, <2>3 DEF Accepts, HasSecretToken, Named
      <3>2. CASE rows[c].provider = "slack"
        BY <3>2, <2>1, <2>3 DEF Accepts, IsSigned, Named
      <3>3. CASE rows[c].provider \in {"twilio", "meta"}
        <4>1. rows[c].external = a
          BY <3>3, <2>1 DEF IInv, StoredInv, LookedUp, TwilioTypes
        <4> QED BY <3>3, <4>1, <2>1, <2>3
                DEF TwilioTypes, Accepts, ByAccountSid, ByExternalId, Owners
      <3> QED BY <3>1, <3>2, <3>3, <2>2 DEF Providers
    <2>5. ASSUME NEW d \in Ids, Accepts(a, d)
          PROVE  d = c
      <3>1. d = webhook[a].cred \/ rows[d].external = a
        BY <2>5 DEF Accepts, HasSecretToken, IsSigned, Named, ByAccountSid, ByExternalId, Owners
      <3>2. CASE rows[d].external = a
        <4>1. <<d, a>> \in claims
          BY <3>2, <2>2 DEF IInv, StoredInv
        <4>2. <<d, a>>[2] = a => <<d, a>>[1] = c
          BY <4>1 DEF SoleClaim
        <4> QED BY <4>2
      <3> QED BY <3>1, <3>2, <2>3
    <2> QED BY <2>4, <2>5
  <1> QED BY <1>1, Inductive, PTL
=============================================================================
