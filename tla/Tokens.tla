------------------------------- MODULE Tokens -------------------------------
(***************************************************************************)
(* API tokens, what they permit, and the keys that sign them               *)
(* (pkg/repository/token*.go, pkg/request, pkg/token, pkg/certs, pkg/auth).*)
(*                                                                         *)
(* A token is a row of redis with a time to live; the signed JWT a client  *)
(* holds only names it.  What a token permits is computed for every        *)
(* request from the row and from the memberships the user has then, which  *)
(* change at any time (module Membership).  Rows are written without       *)
(* optimistic locking.  Public keys live in redis as long as their         *)
(* certificate; every replica caches them.                                 *)
(***************************************************************************)
EXTENDS Integers

CONSTANTS
    Users, Provider,
    Methods, Visibility,   \* Visibility[m]: "project", "tenant", "machine", "admin", "infra", "self" or "public"
    ProjectMethods, TenantMethods, MachineMethods, InfraMethods, AdminViewerMethods, \* the methods of each role
    Manage,                \* the methods of the token service
    Existing,              \* the projects and tenants there are
    MaxTokens, MaxKeys,                        \* bounds
    MaxLife, CertLife, RenewBefore, CacheLife, \* durations in ticks
    Calls, Replicas,
    Scenarios,             \* where behaviours start, the requests and the membership changes they make (bound)
    None, Never

AnySubject == "*"
NoSubject == ""
Ids == 1..MaxTokens
Keys == 1..MaxKeys

\* Every method is of one visibility, and the roles of a kind have methods of that kind.
ASSUME MethodAssumption ==
    /\ DOMAIN Visibility = Methods /\ AdminViewerMethods \subseteq Methods
    /\ \A r \in DOMAIN ProjectMethods : \A m \in ProjectMethods[r] : m \in Methods /\ Visibility[m] = "project"
    /\ \A r \in DOMAIN TenantMethods : \A m \in TenantMethods[r] : m \in Methods /\ Visibility[m] = "tenant"
    /\ \A r \in DOMAIN MachineMethods : \A m \in MachineMethods[r] : m \in Methods /\ Visibility[m] = "machine"
    /\ \A r \in DOMAIN InfraMethods : \A m \in InfraMethods[r] : m \in Methods /\ Visibility[m] = "infra"
    /\ None \notin {"viewer", "editor", "unspecified"}

\* A key is renewed before it expires, as it is with the defaults of the server.
ASSUME KeyAssumption ==
    /\ MaxKeys \in Nat \ {0} /\ Never \notin Int
    /\ CertLife \in Nat /\ RenewBefore \in 0..CertLife /\ CacheLife \in Nat

\* The memberships of a user: "*" and the empty name are no projects or tenants.
Member(pat) ==
    /\ {"projects", "tenants"} \subseteq DOMAIN pat
    /\ AnySubject \notin DOMAIN pat.projects \cup DOMAIN pat.tenants
    /\ \A s \in DOMAIN pat.projects : pat.projects[s] \in DOMAIN ProjectMethods
    /\ \A s \in DOMAIN pat.tenants : pat.tenants[s] \in DOMAIN TenantMethods

\* What a token and a request for one have in common: a lifetime, and roles that exist.
Held(t) ==
    /\ {"admin", "infra", "projects", "tenants", "machines", "perms", "life"} \subseteq DOMAIN t
    /\ t.admin \in {None, "viewer", "editor", "unspecified"} /\ t.infra \in {None} \cup DOMAIN InfraMethods
    /\ \A s \in DOMAIN t.projects : t.projects[s] \in DOMAIN ProjectMethods
    /\ \A s \in DOMAIN t.tenants : t.tenants[s] \in DOMAIN TenantMethods
    /\ \A s \in DOMAIN t.machines : t.machines[s] \in DOMAIN MachineMethods
    /\ t.life \in Nat \ {0}

Asked(q) ==
    /\ {"op", "user"} \subseteq DOMAIN q /\ q.user \in Users \cup {None}
    /\ Held(q) /\ (q.op # "update" => q.admin # "unspecified")
    /\ \A p \in q.perms : p.methods \subseteq Methods

Row(t) ==
    /\ {"user", "type", "key", "chosen", "issued", "kept"} \subseteq DOMAIN t /\ t.user \in Users /\ t.type \in {"user", "api"}
    /\ Held(t) /\ t.admin # "unspecified"
    /\ \A p \in t.perms : p[1] \in Methods

\* Behaviours start with tokens that were just made and are signed by the first key.
ASSUME ScenarioAssumption == \A s \in Scenarios :
    /\ DOMAIN s.pats = Users /\ (\A u \in Users : Member(s.pats[u])) /\ (\A pat \in s.script.roles : Member(pat))
    /\ {"requests", "roles", "clock", "left"} \subseteq DOMAIN s.script /\ s.script.clock \in Nat
    /\ \A q \in s.script.requests : Asked(q)
    /\ DOMAIN s.tokens \subseteq Ids
    /\ \A i \in DOMAIN s.tokens :
          /\ Row(s.tokens[i]) /\ s.tokens[i].key = 1 /\ s.tokens[i].chosen = 0 /\ s.tokens[i].issued = 0
          /\ s.tokens[i].kept = s.tokens[i].life

VARIABLES
    pats,     \* the project and tenant roles of each user
    store,    \* the rows of the token store
    private,  \* the key that signs new tokens
    until,    \* when a key expires, Never for keys that were not made
    cache,    \* the public keys each replica knows, and since when
    now,
    call,     \* calls in progress
    used,     \* ids given to tokens
    script,   \* the requests and membership changes of this behaviour, how many are left, and how long it lasts
    revoked,  \* history: ids that were revoked
    raced     \* history: ids that were revoked, or expired, while they were updated, or before they were stored

tokenVars == <<store, used, revoked, raced>>
keyVars == <<private, until>>
vars == <<pats, store, private, until, cache, now, call, used, script, revoked, raced>>

Idle == [pc |-> "idle"]

Init ==
    \E s \in Scenarios :
      /\ pats = s.pats
      /\ store = s.tokens
      /\ used = DOMAIN s.tokens
      /\ script = s.script
      /\ private = 1
      /\ until = [k \in Keys |-> IF k = 1 THEN CertLife ELSE Never]
      /\ cache = [r \in Replicas |-> [keys |-> {}, at |-> 0]]
      /\ now = 0
      /\ call = [c \in Calls |-> Idle]
      /\ revoked = {} /\ raced = {}

-----------------------------------------------------------------------------
(* What a token permits: method by method, the subjects.                   *)

Visible(v) == {m \in Methods : Visibility[m] = v}

\* A user token has the roles of its user, and nothing else.
Resolve(tok, pat) ==
    IF tok.type # "user" THEN tok
    ELSE [tok EXCEPT !.projects = pat.projects, !.tenants = pat.tenants, !.admin = None, !.perms = {}]

ByRole(roles, table) == UNION {table[roles[s]] \X {s} : s \in DOMAIN roles}

Claimed(t) ==
    ByRole(t.projects, ProjectMethods) \cup ByRole(t.tenants, TenantMethods) \cup ByRole(t.machines, MachineMethods)
    \cup t.perms
    \cup (IF t.admin = "viewer" THEN AdminViewerMethods \X {AnySubject} ELSE {})
    \cup (IF t.infra = None THEN {} ELSE InfraMethods[t.infra] \X {AnySubject})

\* "*" means the subjects in which the role of the user has the method.
Reduced(G, pat) ==
    {g \in G : g[2] # AnySubject \/ Visibility[g[1]] \notin {"project", "tenant"}}
    \cup {g \in ByRole(pat.projects, ProjectMethods) : <<g[1], AnySubject>> \in G /\ Visibility[g[1]] = "project"}
    \cup {g \in ByRole(pat.tenants, TenantMethods) : <<g[1], AnySubject>> \in G /\ Visibility[g[1]] = "tenant"}

\* Mutant: subjects the user has left are not dropped.
AllSubjects(G, pat) == G
CurrentSubjects(G, pat) ==
    {g \in G :
        \/ g[2] \in {AnySubject, NoSubject}
        \/ /\ Visibility[g[1]] = "project" => g[2] \in DOMAIN pat.projects
           /\ Visibility[g[1]] = "tenant" => g[2] \in DOMAIN pat.tenants}

Permissions(tok, pat) ==
    LET held == Resolve(tok, pat)
        claimed == Claimed(held)
        granted == CurrentSubjects(IF held.admin = None THEN Reduced(claimed, pat) ELSE claimed, pat)
        always == IF held.type = "user" THEN Visible("public") \cup Visible("self") ELSE {}
    IN IF held.admin = "editor" THEN [m \in Methods |-> {AnySubject}]
       ELSE [m \in {g[1] : g \in claimed} \cup always |->
                {g[2] : g \in {x \in granted : x[1] = m}} \cup (IF m \in always THEN {AnySubject} ELSE {})]

Permitted(tok, m, s) ==
    LET table == Permissions(tok, pats[tok.user])
    IN m \in DOMAIN table /\ table[m] \cap {AnySubject, s} # {}

-----------------------------------------------------------------------------
(* Requests for tokens are validated against the token of the session and  *)
(* against what the user may do at most.                                   *)

Lacks(allowed, asked) == ~(DOMAIN asked \subseteq DOMAIN allowed) /\ AnySubject \notin DOMAIN allowed
Unspecified(roles) == \E s \in DOMAIN roles : roles[s] = "unspecified"

Exceeds(have, want, m) == m \notin DOMAIN have \/ (AnySubject \notin have[m] /\ AnySubject \notin want[m] /\ ~(want[m] \subseteq have[m]))

\* validateTokenRequest
Refused(current, requested, pat) ==
    LET have == Permissions(current, pat)
        cur == Resolve(current, pat)
        want == Permissions([requested EXCEPT !.type = "none"], pat)
    IN \/ Lacks(cur.tenants, requested.tenants) \/ Unspecified(requested.tenants)
       \/ Lacks(cur.projects, requested.projects) \/ Unspecified(requested.projects)
       \/ Lacks(cur.machines, requested.machines)
       \/ \E p \in requested.perms : p[1] \notin Methods
       \/ \E m \in DOMAIN want : Exceeds(have, want, m)

\* hasAdminRole
AdminRole(pat) ==
    IF Provider \notin DOMAIN pat.tenants THEN None
    ELSE CASE pat.tenants[Provider] = "owner" -> "editor"
           [] pat.tenants[Provider] \in {"editor", "viewer"} -> "viewer"
           [] OTHER -> None

AdminRequestRefused(pat, role) == role # None /\ AdminRole(pat) # "editor" /\ AdminRole(pat) # role

\* Permissions are requested by visibility, and stored by subject.
Compact(perms) ==
    {[visibility |-> p.visibility, subject |-> p.subject,
      methods |-> UNION {q.methods : q \in {x \in perms : x.visibility = p.visibility /\ x.subject = p.subject}}] : p \in perms}
Flatten(perms) == UNION {p.methods \X {p.subject} : p \in perms}

PermissionsInvalid(perms, pat) ==
    \E p \in perms :
        \/ \E m \in p.methods : Visibility[m] # p.visibility
        \/ /\ AdminRole(pat) = None
           /\ \/ p.visibility = "admin"
              \/ p.visibility = "project" /\ p.subject \notin DOMAIN pat.projects \cup {AnySubject}
              \/ p.visibility = "tenant" /\ p.subject \notin DOMAIN pat.tenants \cup {AnySubject}
        \/ AdminRole(pat) # None /\ p.visibility \in {"project", "tenant"} /\ p.subject \notin Existing \cup {AnySubject}

\* Mutant: what the user may do now is not looked at.
SameToken(session, pat) == session
\* The most a user may do; a session hands its infra and machine roles on.
FullToken(session, pat) ==
    [session EXCEPT !.type = "none", !.projects = pat.projects, !.tenants = pat.tenants,
                    !.admin = AdminRole(pat), !.perms = {}]

\* A member of the provider gets the admin role it asks for, unless the session has one already.
Elevated(session, requested, pat) ==
    IF AdminRole(pat) # None /\ session.admin = None
    THEN [Resolve(session, pat) EXCEPT !.admin = requested.admin, !.type = "api"]
    ELSE session

Token(user, type, q) ==
    [user |-> user, type |-> type, admin |-> q.admin, infra |-> q.infra, projects |-> q.projects, tenants |-> q.tenants,
     machines |-> q.machines, perms |-> Flatten(Compact(q.perms)), life |-> q.life,
     key |-> None, chosen |-> None, issued |-> None, kept |-> None]

-----------------------------------------------------------------------------
Go(c, rec) == call' = [call EXCEPT ![c] = rec]
At(c, pc) == call[c].pc = pc
Starts(c, q) == call[c] = Idle /\ q \in script.requests /\ script.left > 0 /\ script' = [script EXCEPT !.left = @ - 1]

Expires(tok) == tok.issued + tok.life
Valid(i) == i \in DOMAIN store /\ now < Expires(store[i])
May(i, m) == Valid(i) /\ Permitted(store[i], m, NoSubject)

Signing(tok) == [pc |-> "sign", tok |-> tok]
Requested(tok, session) == [pc |-> "sign", tok |-> tok, by |-> session]
Refreshed(tok) == [pc |-> "sign", tok |-> [tok EXCEPT !.type = "api"], by |-> tok, old |-> tok]

\* A login, and a token that the operator makes with the command line, are not validated.
Login(c, u, q) ==
    /\ q.op = "login"
    /\ Starts(c, q)
    /\ Go(c, Signing(Token(u, "user", q)))
    /\ UNCHANGED <<pats, tokenVars, keyVars, cache, now>>

Issue(c, u, q) ==
    /\ q.op = "issue"
    /\ Starts(c, q)
    /\ Go(c, Signing(Token(u, "api", q)))
    /\ UNCHANGED <<pats, tokenVars, keyVars, cache, now>>

Create(c, i, q) ==
    /\ q.op = "create"
    /\ Starts(c, q)
    /\ May(i, Manage)
    /\ q.life <= MaxLife
    /\ LET user == store[i].user
           pat == pats[user]
           requested == Token(user, "api", q)
           session == Elevated(store[i], requested, pat)
       IN /\ ~(store[i].admin = None /\ AdminRole(pat) # None /\ AdminRequestRefused(pat, q.admin))
          /\ ~(q.user # None /\ AdminRole(pat) = None)
          /\ ~PermissionsInvalid(q.perms, pat)
          /\ ~Refused(session, requested, pat)
          /\ ~Refused(FullToken(session, pat), requested, pat)
          /\ Go(c, Requested([requested EXCEPT !.user = IF q.user = None THEN user ELSE q.user], session))
    /\ UNCHANGED <<pats, tokenVars, keyVars, cache, now>>

Refresh(c, i, q) ==
    /\ q.op = "refresh"
    /\ Starts(c, q)
    /\ May(i, Manage)
    /\ LET tok == store[i]
           pat == pats[tok.user]
       IN /\ ~Refused(tok, tok, pat)
          /\ ~Refused([FullToken(tok, pat) EXCEPT !.perms = Resolve(tok, pat).perms], tok, pat)
          /\ Go(c, Refreshed(tok))
    /\ UNCHANGED <<pats, tokenVars, keyVars, cache, now>>

\* What a request does not name stays as it is.
Merge(tok, q) ==
    [tok EXCEPT !.admin = IF q.admin = None THEN @ ELSE IF q.admin = "unspecified" THEN None ELSE q.admin,
                !.perms = IF q.perms = {} THEN @ ELSE Flatten(Compact(q.perms)),
                !.projects = IF q.projects = <<>> THEN @ ELSE q.projects,
                !.tenants = IF q.tenants = <<>> THEN @ ELSE q.tenants,
                !.machines = IF q.machines = <<>> THEN @ ELSE q.machines,
                !.infra = IF q.infra = None THEN @ ELSE q.infra]

Update(c, i, j, q) ==
    /\ q.op = "update"
    /\ Starts(c, q)
    /\ May(i, Manage)
    /\ j \in DOMAIN store /\ store[j].user = store[i].user /\ store[j].type = "api"
    /\ LET pat == pats[store[i].user]
           requested == [Token(store[i].user, "api", q) EXCEPT !.admin = IF @ = "unspecified" THEN None ELSE @]
       IN /\ ~PermissionsInvalid(q.perms, pat)
          /\ ~Refused(store[i], requested, pat)
          /\ ~Refused(FullToken(store[i], pat), requested, pat)
    /\ Go(c, [pc |-> "set", id |-> j, tok |-> Merge(store[j], q), by |-> store[i], old |-> store[j]])
    /\ UNCHANGED <<pats, tokenVars, keyVars, cache, now>>

\* Mutant: the row is written without a time to live.
KeptForever(tok) == Never
\* What is left of the token's life is the time to live of its row, none when nothing is left.
KeptUntil(tok) == IF now < Expires(tok) THEN Expires(tok) ELSE Never
Write(c) ==
    LET row == [call[c].tok EXCEPT !.kept = KeptUntil(call[c].tok)]
    IN  store' = [i \in DOMAIN store \cup {call[c].id} |-> IF i = call[c].id THEN row ELSE store[i]]

Set(c) ==
    /\ At(c, "set")
    /\ Write(c)
    /\ Go(c, Idle)
    /\ UNCHANGED <<pats, used, revoked, raced, keyVars, cache, now, script>>

Remove(gone) == store' = [i \in DOMAIN store \ gone |-> store[i]]
Updating(i) == \E c \in Calls : At(c, "set") /\ call[c].id = i

\* The owner of a token revokes it, or an admin does.
Revoke(c, i, q) ==
    /\ q.op = "revoke"
    /\ Starts(c, q)
    /\ i \in DOMAIN store
    /\ Remove({i})
    /\ revoked' = revoked \cup {i}
    /\ raced' = IF Updating(i) THEN raced \cup {i} ELSE raced
    /\ UNCHANGED <<pats, used, keyVars, cache, now, call>>

-----------------------------------------------------------------------------
(* Keys.                                                                   *)

Living == {k \in Keys : until[k] # Never /\ now < until[k]}
FreeKeys == {k \in Keys : until[k] = Never}
NewKey == CHOOSE k \in Keys : k \in FreeKeys

\* Mutant: keys sign until they expire.
NeverDue(k) == k \notin Living
Due(k) == k \notin Living \/ until[k] - now < RenewBefore

\* LatestPrivate.  Whoever finds that the key is due makes a new one.
Chosen(c, k) == Go(c, [call[c] EXCEPT !.pc = "jwt", !.tok.key = k, !.tok.chosen = now])

Sign(c) ==
    /\ At(c, "sign")
    /\ IF Due(private) THEN Go(c, [call[c] EXCEPT !.pc = "renew"]) ELSE Chosen(c, private)
    /\ UNCHANGED <<pats, tokenVars, keyVars, cache, now, script>>

Renew(c) ==
    /\ At(c, "renew")
    /\ FreeKeys # {}
    /\ LET k == NewKey IN
         /\ until' = [until EXCEPT ![k] = now + CertLife]
         /\ private' = k
         /\ Chosen(c, k)
    /\ UNCHANGED <<pats, tokenVars, cache, now, script>>

FreshId == CHOOSE i \in Ids : i \notin used

\* NewJWT: the token is issued now, with the key that was the latest when the call asked for it.
Jwt(c) ==
    /\ At(c, "jwt")
    /\ Ids \ used # {}
    /\ used' = used \cup {FreshId}
    /\ Go(c, [pc |-> "store", id |-> FreshId, tok |-> [call[c].tok EXCEPT !.issued = now]])
    /\ UNCHANGED <<pats, store, revoked, raced, keyVars, cache, now, script>>

Store(c) ==
    /\ At(c, "store")
    /\ Write(c)
    /\ Go(c, Idle)
    /\ UNCHANGED <<pats, used, revoked, raced, keyVars, cache, now, script>>

Fresh(r) == cache[r].keys # {} /\ now - cache[r].at < CacheLife
KnownKeys(r) == IF Fresh(r) THEN cache[r].keys ELSE Living

\* A request, of whoever, makes the replica look at its cache.
Authenticate(r) ==
    /\ ~Fresh(r)
    /\ cache' = [cache EXCEPT ![r] = [keys |-> Living, at |-> now]]
    /\ UNCHANGED <<pats, tokenVars, keyVars, now, call, script>>

-----------------------------------------------------------------------------
\* Members are added, changed and removed.
ChangeRoles(u, pat) ==
    /\ pat \in script.roles /\ pats[u] # pat
    /\ script.left > 0 /\ script' = [script EXCEPT !.left = @ - 1]
    /\ pats' = [pats EXCEPT ![u] = pat]
    /\ UNCHANGED <<tokenVars, keyVars, cache, now, call>>

\* Tokens that are not stored yet and will have expired by then.
Overdue(time) == {call[c].id : c \in {d \in Calls : At(d, "store") /\ Expires(call[d].tok) <= time}}

Tick ==
    /\ now < script.clock
    /\ now' = now + 1
    /\ LET gone == {i \in DOMAIN store : store[i].kept = now'} IN
         /\ Remove(gone)
         /\ raced' = raced \cup {i \in gone : Updating(i)} \cup Overdue(now')
    /\ UNCHANGED <<pats, keyVars, cache, call, used, script, revoked>>

Next ==
    \/ \E c \in Calls :
         \/ Set(c) \/ Sign(c) \/ Renew(c) \/ Jwt(c) \/ Store(c)
         \/ \E q \in script.requests :
              \/ \E u \in Users : Login(c, u, q) \/ Issue(c, u, q)
              \/ \E i \in Ids : Create(c, i, q) \/ Refresh(c, i, q) \/ Revoke(c, i, q)
              \/ \E i, j \in Ids : Update(c, i, j, q)
    \/ \E r \in Replicas : Authenticate(r)
    \/ \E u \in Users, pat \in script.roles : ChangeRoles(u, pat)
    \/ Tick

Spec == Init /\ [][Next]_vars

-----------------------------------------------------------------------------
\* Rows, keys and calls are of their types; every row was signed by a key that was made.
TypeOK ==
    /\ \A i \in DOMAIN store : i \in used /\ Row(store[i]) /\ store[i].issued \in 0..now /\ until[store[i].key] \in Nat
    /\ used \subseteq Ids /\ DOMAIN pats = Users /\ \A u \in Users : Member(pats[u])
    /\ private \in Keys /\ until \in [Keys -> Nat \cup {Never}] /\ until[private] # Never
    /\ now \in Nat
    /\ \A r \in Replicas : cache[r].keys \subseteq Keys /\ cache[r].at \in 0..now
    /\ \A c \in Calls : call[c].pc \in {"idle", "sign", "renew", "jwt", "store", "set"}

Scoped == {m \in Methods : Visibility[m] \in {"project", "tenant"}}

\* Without an admin role a token permits nothing in a project or tenant its user is no member of, however
\* it was made and whatever changed since (RBAC.md: subjects "are calculated at request time").  The
\* empty subject is none.
WithinMembership ==
    \A i \in DOMAIN store : store[i].admin = None =>
        LET pat == pats[store[i].user]
            table == Permissions(store[i], pat)
        IN \A m \in DOMAIN table \cap Scoped :
             table[m] \ {NoSubject} \subseteq IF Visibility[m] = "project" THEN DOMAIN pat.projects ELSE DOMAIN pat.tenants

Within(tok, limits, pat) ==
    LET table == Permissions(tok, pat) IN
    \A m \in DOMAIN table \cap Scoped : \A s \in table[m] :
        \E limit \in limits : LET have == Permissions(limit, pat) IN m \in DOMAIN have /\ (s \in have[m] \/ AnySubject \in have[m])

Validated(c) == call[c] = Idle /\ "by" \in DOMAIN call'[c]
Limits(rec) == {rec.by} \cup (IF "old" \in DOMAIN rec THEN {rec.old} ELSE {})

\* A token made, changed or refreshed permits nothing in projects and tenants that neither the session
\* nor, before an update, the token itself did (validateTokenRequest); tokens with an admin role aside.
NoElevation ==
    [][\A c \in Calls : Validated(c) /\ call'[c].tok.admin = None =>
         Within(call'[c].tok, Limits(call'[c]), pats[call'[c].by.user])]_vars

\* The admin methods of a role, and of a token.
RoleMethods(role) ==
    Visible("admin") \cap (CASE role = "editor" -> Methods [] role = "viewer" -> AdminViewerMethods [] OTHER -> {})
AdminMethods(tok, pat) == DOMAIN Permissions(tok, pat) \cap Visible("admin")
\* An update leaves a token what it had, and a refresh what it names method by method.
Kept(rec, pat) ==
    CASE "old" \notin DOMAIN rec -> {} [] rec.pc = "set" -> AdminMethods(rec.old, pat) [] OTHER -> {g[1] : g \in rec.old.perms}

\* A request is given only the admin methods of the role its user has in the provider tenant now
\* (RBAC.md 5.1), which the session alone does not tell.
AdminFromProvider ==
    [][\A c \in Calls : Validated(c) =>
         LET rec == call'[c]
             pat == pats[rec.by.user]
         IN AdminMethods(rec.tok, pat) \subseteq RoleMethods(AdminRole(pat)) \cup Kept(rec, pat)]_vars

\* A revoked token never comes back (RBAC.md 8.4), unless it was being updated when it was revoked.
RevokedIsGone == (revoked \ raced) \cap DOMAIN store = {}

\* The store forgets a token when it expires, unless it was being updated then, or was not yet stored:
\* such a row is written without a time to live (token-store.go:59).
StoreForgets == \A i \in DOMAIN store \ raced : now < Expires(store[i])

\* The life of a token, and the time between the choice of its key and its issue.
Span(tok) == tok.life + (tok.issued - tok.chosen)

\* A token whose span is no longer than keys are renewed in advance can be verified until it expires
\* (RBAC.md 8.5), whoever renewed the key and whenever.
VerifiedUntilExpiry ==
    \A i \in Ids : Valid(i) /\ Span(store[i]) <= RenewBefore => store[i].key \in Living

\* Every replica accepts such a token at the latest when its cached keys have expired once.
AcceptedOnceCached ==
    \A i \in Ids, r \in Replicas :
        Valid(i) /\ Span(store[i]) <= RenewBefore /\ now - store[i].issued >= CacheLife => store[i].key \in KnownKeys(r)

\* Whatever row is stored, its token permits nothing beyond the memberships of its user.
TokensSound == TypeOK /\ WithinMembership

\* What was revoked or has expired is gone from the store (RBAC.md 8.4, token-store.go Set).
Forgotten == RevokedIsGone /\ StoreForgets

\* A token can be verified by every replica for as long as it lives (certs-store.go, certCache).
Verifiable == VerifiedUntilExpiry /\ AcceptedOnceCached

\* No request for a token gains rights: neither a subject, nor a method, nor an admin role.
RightsBounded == NoElevation /\ AdminFromProvider
=============================================================================
