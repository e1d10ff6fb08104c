----------------------------- MODULE Membership -----------------------------
(***************************************************************************)
(* Tenants, projects, their members and invites (pkg/repository/tenant*.go,*)
(* project*.go, pkg/invite, and the services of pkg/service that call them).*)
(*                                                                         *)
(* A user is a tenant of its own; a project belongs to a tenant, and the   *)
(* members of the tenant inherit a role in it.  Tenants, projects and      *)
(* memberships are rows of the tenant service, invites are keys of redis:  *)
(* no lock and no transaction spans two calls, so whatever was read may be *)
(* outdated when it is acted upon, and a call may die between two writes.  *)
(* The rows outlive nothing: an id is never used twice.                    *)
(***************************************************************************)
EXTENDS Naturals, FiniteSets

CONSTANTS
    Users,        \* users, which are tenants
    Provider,     \* the tenant of the operators
    OtherTenants, \* ids for tenants that are created
    ProjectIds, Secrets,
    Calls,        \* api calls in progress at the same time
    MaxRows,      \* membership rows that exist at a time (bound)
    MaxMishaps,   \* after more kinds of mishaps than this nothing new begins (bound)
    Requested,    \* roles that requests ask for
    Scenarios,    \* where behaviours start, and the calls that are made (bound)
    None, Never   \* Never: an id that was not used so far

Roles == {"owner", "editor", "viewer", "guest"}
Rank == [owner |-> 1, editor |-> 2, viewer |-> 3, guest |-> 4]
TenantIds == Users \cup {Provider} \cup OtherTenants
Groups == TenantIds \cup ProjectIds
Mishaps == {"halfway", "raced", "overlap", "strayed", "stale", "evicted", "demoted"}

VARIABLES
    tenants,    \* existing tenants
    labelled,   \* whether the provider tenant has its label
    projects,   \* the tenant of each project
    members,    \* membership rows
    acceptable, \* invites by secret: what the invited user may accept
    listed,     \* invites by group: what the owners see
    used,       \* projects with ips, networks, machines or reservations
    call,       \* api calls
    ops,        \* the calls this behaviour still makes: of which kinds, by whom, on which groups, how many
    joined,     \* history: who joined with a secret
    mishap      \* history: what went wrong so far, see Mishaps

rows == <<tenants, labelled, projects, members, used>>
invites == <<acceptable, listed, joined>>
vars == <<tenants, labelled, projects, members, acceptable, listed, used, call, ops, joined, mishap>>

Idle == [pc |-> "idle"]
Row(id, group, member, role) == [id |-> id, group |-> group, member |-> member, role |-> role]

\* Projects and tenants are told apart by their ids, and an invite from its absence; rows by their ids.
ASSUME IdsAssumption ==
    /\ ProjectIds \cap TenantIds = {}
    /\ None # Never /\ None \notin Secrets /\ {None, Never} \cap TenantIds = {}
    /\ {None, Never} \cap [group : Groups, role : Requested] = {}
ASSUME RolesAssumption == Requested \subseteq Roles \cup {"unspecified"} /\ None \notin Roles
\* Behaviours start where no call is in progress: with an owner for every tenant and project.
ASSUME ScenarioAssumption == \A s \in Scenarios :
    /\ s.tenants \subseteq TenantIds /\ s.labelled \in BOOLEAN
    /\ s.projects \in [ProjectIds -> s.tenants \cup {None, Never}]
    /\ \A r \in s.members :
         /\ r.id \in 1..MaxRows /\ r.member \in TenantIds /\ r.role \in Roles
         /\ r = Row(r.id, r.group, r.member, r.role)
         /\ r.group \in TenantIds \/ (r.group \in ProjectIds /\ s.projects[r.group] # Never)
    /\ \A r, q \in s.members : r.id = q.id \/ (r.group = q.group /\ r.member = q.member) => r = q
    /\ \A g \in s.tenants \cup {p \in ProjectIds : s.projects[p] \in s.tenants} :
         \E r \in s.members : r.group = g /\ r.role = "owner"

Init ==
    \E s \in Scenarios :
      /\ tenants = s.tenants
      /\ labelled = s.labelled
      /\ projects = s.projects
      /\ members = s.members
      /\ ops = s.ops
      /\ acceptable = [x \in Secrets |-> Never]
      /\ listed = {}
      /\ used = {}
      /\ call = [c \in Calls |-> Idle]
      /\ joined = [x \in Secrets |-> {}]
      /\ mishap = {}

ProjectsOf(t) == {p \in ProjectIds : projects[p] = t}
There(g) == g \in tenants \/ (g \in ProjectIds /\ projects[g] \in TenantIds)
RowsOf(g, m) == {r \in members : r.group = g /\ r.member = m}
RolesOf(g, m) == {r.role : r \in RowsOf(g, m)}
Owners(g) == {r \in members : r.group = g /\ r.role = "owner"}
FreeIds == 1..MaxRows \ ({r.id : r \in members} \cup {call[c].row.id : c \in {d \in Calls : "row" \in DOMAIN call[d]}})
NewId == CHOOSE i \in FreeIds : TRUE

-----------------------------------------------------------------------------
(* Roles: GetProjectsAndTenants takes the stronger of a project role and   *)
(* the inherited one; the member list of a project is computed elsewhere.  *)

Strongest(S) == IF S = {} THEN None ELSE CHOOSE x \in S : \A y \in S : Rank[x] <= Rank[y]

ProjectRole(u, p) == Strongest((RolesOf(p, u) \cup RolesOf(projects[p], u)) \ {"guest"})

TenantRole(u, t) ==
    IF RolesOf(t, u) # {} THEN Strongest(RolesOf(t, u))
    ELSE IF \E p \in ProjectsOf(t) : RolesOf(p, u) # {} THEN "guest"
    ELSE None

\* Without a default tenant nothing can be requested.
Known(u) == u \in tenants /\ TenantRole(u, u) # None
RoleIn(u, g) == IF g \in ProjectIds THEN ProjectRole(u, g) ELSE TenantRole(u, g)
May(u, g, roles) == Known(u) /\ There(g) /\ RoleIn(u, g) \in roles

WeakerThan(shown, inherited) == Rank[shown] > Rank[inherited]

\* The role of a member that Get shows: the one of the project, replaced by a stronger inherited one.
RoleShown(p, u) ==
    LET direct == Strongest(RolesOf(p, u))
        inherited == Strongest(RolesOf(projects[p], u) \ {"guest"})
    IN IF inherited # None /\ (direct = None \/ WeakerThan(direct, inherited)) THEN inherited ELSE direct

-----------------------------------------------------------------------------
Go(c, rec) == call' = [call EXCEPT ![c] = rec]
Finish(c) == Go(c, Idle)
At(c, pc) == call[c].pc = pc
Starts(c, op, u, g) ==
    /\ call[c] = Idle
    /\ op \in ops.kinds /\ u \in ops.by /\ g \in ops.on
    /\ ops.left > 0 /\ ops' = [ops EXCEPT !.left = @ - 1]
    /\ Cardinality(mishap) <= MaxMishaps
Hap(m) == mishap' = mishap \cup m
When(cond, m) == IF cond THEN {m} ELSE {}

RoleOrViewer(role) == IF role = "unspecified" THEN "viewer" ELSE role

\* The calls here do not look whether the group is still there; the tenant service does, and refuses a
\* membership of, or in, what does not exist.
CreateRow(g, m, role) ==
    IF There(g) /\ m \in tenants
    THEN FreeIds # {} /\ members' = members \cup {Row(NewId, g, m, role)}
    ELSE UNCHANGED members

\* The last step of several calls: it does not check again that the member is new.
Join(c) ==
    /\ At(c, "join")
    /\ CreateRow(call[c].group, call[c].member, RoleOrViewer(call[c].role))
    /\ joined' = IF call[c].secret = None THEN joined
                 ELSE [joined EXCEPT ![call[c].secret] = @ \cup {call[c].member}]
    /\ Hap(When(RowsOf(call[c].group, call[c].member) # call[c].rows, "overlap"))
    /\ Finish(c)
    /\ UNCHANGED <<tenants, labelled, projects, used, acceptable, listed, ops>>

\* What the calls that add a member know when they begin.
Joining(g, m, role, secret) ==
    [pc |-> "join", group |-> g, member |-> m, role |-> role, secret |-> secret, rows |-> RowsOf(g, m)]

-----------------------------------------------------------------------------
(* Removing and changing members.                                          *)

\* Mutant: forgets that there must be another owner.
IsNoOwner(row) == FALSE
IsLastOwner(row) == row.role = "owner" /\ Cardinality(Owners(row.group)) < 2

\* Mutant: forgets that a user stays in its own tenant.
NotOwnTenant(row) == FALSE
OwnTenant(row) == row.group = row.member

MayRemove(row) == ~OwnTenant(row) /\ ~IsLastOwner(row)
MayRemoveFromProject(row) == ~IsLastOwner(row)
MayDemote(row, role) ==
    /\ role # "unspecified"
    /\ OwnTenant(row) => role = "owner"
    /\ IsLastOwner(row) => role = "owner"
MayDemoteInProject(row, role) == IsLastOwner(row) => role = "owner"

\* RemoveMember by an owner, or Leave; a user who is a member twice is an error.
RemoveMember(c, u, g, m) ==
    /\ Starts(c, "remove", u, g)
    /\ IF u = m THEN May(u, g, Roles) ELSE May(u, g, {"owner"})
    /\ \E row \in RowsOf(g, m) :
         /\ Cardinality(RowsOf(g, m)) = 1
         /\ IF g \in ProjectIds THEN MayRemoveFromProject(row) ELSE MayRemove(row)
         /\ Go(c, [pc |-> "remove", row |-> row, owners |-> Owners(g)])
    /\ UNCHANGED <<rows, invites, mishap>>

LostOwner(c) == Owners(call[c].row.group) # call[c].owners

RemoveWrite(c) ==
    /\ At(c, "remove")
    /\ members' = {r \in members : r.id # call[c].row.id}
    /\ Hap(When(LostOwner(c), "raced"))
    /\ Finish(c)
    /\ UNCHANGED <<tenants, labelled, projects, used, invites, ops>>

UpdateMember(c, u, g, m, role) ==
    /\ Starts(c, "update", u, g)
    /\ May(u, g, {"owner"})
    /\ \E row \in RowsOf(g, m) :
         /\ Cardinality(RowsOf(g, m)) = 1
         /\ IF g \in ProjectIds THEN MayDemoteInProject(row, role) ELSE MayDemote(row, role)
         /\ Go(c, [pc |-> "update", row |-> row, owners |-> Owners(g), role |-> role])
    /\ UNCHANGED <<rows, invites, mishap>>

UpdateWrite(c) ==
    /\ At(c, "update")
    /\ members' = {IF r.id # call[c].row.id THEN r
                   ELSE [r EXCEPT !.role = IF call[c].role = "unspecified" THEN call[c].row.role ELSE call[c].role] : r \in members}
    /\ Hap(When(LostOwner(c), "raced"))
    /\ Finish(c)
    /\ UNCHANGED <<tenants, labelled, projects, used, invites, ops>>

\* A member of the tenant without a row in the project gets one.
UpdateInherited(c, u, p, m, role) ==
    /\ Starts(c, "update", u, p)
    /\ May(u, p, {"owner"})
    /\ RowsOf(p, m) = {}
    /\ TenantRole(m, projects[p]) # None
    /\ Go(c, Joining(p, m, role, None))
    /\ UNCHANGED <<rows, invites, mishap>>

-----------------------------------------------------------------------------
(* Invites: two keys per invite, written and deleted in one transaction.   *)

\* Mutant: the invite is still listed.
DeleteInviteSecret(g, s) ==
    /\ acceptable' = [acceptable EXCEPT ![s] = None]
    /\ listed' = listed

DeleteInvite(g, s) ==
    /\ acceptable' = [acceptable EXCEPT ![s] = IF @ = Never THEN Never ELSE None]
    /\ listed' = listed \ {<<g, s>>}
Invite(c, u, g, role, s) ==
    /\ Starts(c, "invite", u, g)
    /\ May(u, g, {"owner"})
    /\ role # "unspecified"
    /\ acceptable[s] = Never
    /\ acceptable' = [acceptable EXCEPT ![s] = [group |-> g, role |-> role]]
    /\ listed' = listed \cup {<<g, s>>}
    /\ UNCHANGED <<rows, joined, call, mishap>>

Expire(s) ==
    /\ acceptable[s] \notin {None, Never}
    /\ acceptable' = [acceptable EXCEPT ![s] = None]
    /\ listed' = {x \in listed : x[2] # s}
    /\ UNCHANGED <<rows, joined, call, ops, mishap>>

\* The caller names the group the secret is for.
InviteDelete(c, u, g, s) ==
    /\ Starts(c, "uninvite", u, g)
    /\ May(u, g, {"owner"})
    /\ acceptable[s] # Never
    /\ DeleteInvite(g, s)
    /\ Hap(When(acceptable[s] # None /\ acceptable[s].group # g, "strayed"))
    /\ UNCHANGED <<rows, joined, call>>

\* Mutant: invites are accepted by members.
IsAnyone(g, m) == TRUE
IsNew(g, m) == RowsOf(g, m) = {}

\* Only the project of an invite has to be there; whether its tenant is shows when the member is added.
InviteAccept(c, u, s) ==
    /\ acceptable[s] \notin {None, Never}
    /\ Starts(c, "accept", u, acceptable[s].group)
    /\ u \in tenants
    /\ LET g == acceptable[s].group IN
         /\ IF g \in ProjectIds THEN There(g) /\ projects[g] # u ELSE u # g
         /\ IsNew(g, u)
         /\ Go(c, [Joining(g, u, acceptable[s].role, s) EXCEPT !.pc = "accept"])
    /\ UNCHANGED <<rows, invites, mishap>>

\* Deleting an invite that is gone is no error.
AcceptDelete(c) ==
    /\ At(c, "accept")
    /\ DeleteInvite(call[c].group, call[c].secret)
    /\ Hap(When(acceptable[call[c].secret] = None, "overlap"))
    /\ Go(c, [call[c] EXCEPT !.pc = "join"])
    /\ UNCHANGED <<rows, joined, ops>>

-----------------------------------------------------------------------------
(* Tenants and projects.                                                   *)

NewTenant(t) == t \notin tenants /\ \A r \in members : r.group # t

\* The tenant becomes the owner of its project.
CreateProject(c, u, t, p) ==
    /\ Starts(c, "create", u, p)
    /\ May(u, t, {"owner", "editor"})
    /\ projects[p] = Never
    /\ projects' = [projects EXCEPT ![p] = t]
    /\ Go(c, Joining(p, t, "owner", None))
    /\ UNCHANGED <<tenants, labelled, members, used, invites, mishap>>

\* A user becomes the owner of the tenant it creates, ...
CreateTenant(c, u, t) ==
    /\ Starts(c, "create", u, t)
    /\ Known(u)
    /\ NewTenant(t)
    /\ tenants' = tenants \cup {t}
    /\ Go(c, Joining(t, u, "owner", None))
    /\ UNCHANGED <<labelled, projects, members, used, invites, mishap>>

\* ... a tenant that an admin creates becomes its own owner.
AdminCreateTenant(c, t) ==
    /\ Starts(c, "admin", Provider, t)
    /\ NewTenant(t)
    /\ tenants' = tenants \cup {t}
    /\ Go(c, Joining(t, t, "owner", None))
    /\ UNCHANGED <<labelled, projects, members, used, invites, mishap>>

AdminAddMember(c, t, m, role) ==
    /\ Starts(c, "admin", Provider, t)
    /\ t \in tenants
    /\ RowsOf(t, m) = {}
    /\ role # "unspecified"
    /\ Go(c, Joining(t, m, role, None))
    /\ UNCHANGED <<rows, invites, mishap>>

ProjectUnused(p) == p \notin used
TenantUnused(u, t) == u # t /\ ProjectsOf(t) = {}

DeleteGroup(c, u, g) ==
    /\ Starts(c, "delete", u, g)
    /\ May(u, g, {"owner"})
    /\ IF g \in ProjectIds THEN ProjectUnused(g) ELSE TenantUnused(u, g)
    /\ Go(c, [pc |-> "delete", group |-> g, used |-> used, projects |-> projects])
    /\ UNCHANGED <<rows, invites, mishap>>

\* An empty group is deleted, or one that got used since that was checked.
DeleteProjectWrite(c) ==
    /\ At(c, "delete")
    /\ call[c].group \in ProjectIds
    /\ projects' = [projects EXCEPT ![call[c].group] = None]
    /\ Hap(When(used # call[c].used, "stale"))
    /\ Finish(c)
    /\ UNCHANGED <<tenants, labelled, members, used, invites, ops>>

DeleteTenantWrite(c) ==
    /\ At(c, "delete")
    /\ call[c].group \in TenantIds
    /\ tenants' = tenants \ {call[c].group}
    /\ Hap(When(projects # call[c].projects, "stale") \cup When(call[c].group \in Users, "evicted"))
    /\ Finish(c)
    /\ UNCHANGED <<labelled, projects, members, used, invites, ops>>

\* Ips, networks, machines and reservations are created for a project that was there.
UseProject(c, u, p) ==
    /\ Starts(c, "use", u, p)
    /\ May(u, p, {"owner", "editor"})
    /\ p \notin used
    /\ Go(c, [pc |-> "use", group |-> p])
    /\ UNCHANGED <<rows, invites, mishap>>

UseWrite(c) ==
    /\ At(c, "use")
    /\ used' = used \cup {call[c].group}
    /\ Hap(When(~There(call[c].group), "stale"))
    /\ Finish(c)
    /\ UNCHANGED <<tenants, labelled, projects, members, invites, ops>>

-----------------------------------------------------------------------------
(* A login ensures the tenant of the user, the start of a replica the      *)
(* provider tenant; both then look for the owner's membership, of any role.*)

Login(c, u) ==
    /\ Starts(c, "login", u, u)
    /\ Go(c, [pc |-> IF u \in tenants THEN "lookup" ELSE "new", group |-> u])
    /\ UNCHANGED <<rows, invites, mishap>>

\* Of two logins at the same time the second finds a conflict and fails.
LoginCreate(c) ==
    /\ At(c, "new")
    /\ tenants' = tenants \cup {call[c].group}
    /\ IF call[c].group \in tenants THEN Finish(c) ELSE Go(c, [call[c] EXCEPT !.pc = "lookup"])
    /\ UNCHANGED <<labelled, projects, members, used, invites, ops, mishap>>

StartReplica(c) ==
    /\ Starts(c, "start", Provider, Provider)
    /\ Go(c, [pc |-> IF Provider \in tenants /\ labelled THEN "lookup" ELSE "provider", group |-> Provider])
    /\ UNCHANGED <<rows, invites, mishap>>

\* A conflict means that the tenant is there without its label: the label is added.
CreateProvider(c) ==
    /\ At(c, "provider")
    /\ tenants' = tenants \cup {Provider}
    /\ labelled' = (labelled \/ Provider \notin tenants)
    /\ Go(c, [call[c] EXCEPT !.pc = IF Provider \in tenants THEN "patch" ELSE "lookup"])
    /\ UNCHANGED <<projects, members, used, invites, ops, mishap>>

PatchProvider(c) ==
    /\ At(c, "patch")
    /\ labelled' = TRUE
    /\ Go(c, [call[c] EXCEPT !.pc = "lookup"])
    /\ UNCHANGED <<tenants, projects, members, used, invites, ops, mishap>>

LookupOwner(c) ==
    /\ At(c, "lookup")
    /\ LET t == call[c].group
       IN IF RowsOf(t, t) # {}
          THEN Finish(c) /\ Hap(When(Owners(t) = {}, "demoted"))
          ELSE Go(c, Joining(t, t, "owner", None)) /\ UNCHANGED mishap
    /\ UNCHANGED <<rows, invites, ops>>

-----------------------------------------------------------------------------
\* A replica is stopped, or the tenant service cannot be reached, within a call.
Fail(c) ==
    /\ "fail" \in ops.kinds
    /\ call[c] # Idle
    /\ Hap(When(call[c].pc \in {"join", "lookup", "patch"}, "halfway"))
    /\ Finish(c)
    /\ UNCHANGED <<rows, invites, ops>>

Next ==
    \/ \E c \in Calls :
         \/ Join(c) \/ RemoveWrite(c) \/ UpdateWrite(c) \/ AcceptDelete(c)
         \/ DeleteProjectWrite(c) \/ DeleteTenantWrite(c) \/ UseWrite(c)
         \/ LoginCreate(c) \/ StartReplica(c) \/ CreateProvider(c) \/ PatchProvider(c) \/ LookupOwner(c)
         \/ Fail(c)
         \/ \E u \in Users :
              \/ \E g \in Groups, m \in TenantIds : RemoveMember(c, u, g, m)
              \/ \E g \in Groups, m \in TenantIds, role \in Requested : UpdateMember(c, u, g, m, role)
              \/ \E p \in ProjectIds, m \in TenantIds, role \in Requested : UpdateInherited(c, u, p, m, role)
              \/ \E g \in Groups, role \in Requested, s \in Secrets : Invite(c, u, g, role, s)
              \/ \E g \in Groups, s \in Secrets : InviteDelete(c, u, g, s)
              \/ \E s \in Secrets : InviteAccept(c, u, s)
              \/ \E t \in TenantIds, p \in ProjectIds : CreateProject(c, u, t, p)
              \/ \E t \in OtherTenants : CreateTenant(c, u, t)
              \/ \E g \in Groups : DeleteGroup(c, u, g)
              \/ \E p \in ProjectIds : UseProject(c, u, p)
              \/ Login(c, u)
         \/ \E t \in OtherTenants : AdminCreateTenant(c, t)
         \/ \E t \in TenantIds, m \in TenantIds, role \in Requested : AdminAddMember(c, t, m, role)
    \/ \E s \in Secrets : Expire(s)

Spec == Init /\ [][Next]_vars

-----------------------------------------------------------------------------
(* Properties.  Each holds until the mishaps it names have happened.       *)

Unless(m, P) == mishap \cap m = {} => P
Joins(c, g) == At(c, "join") /\ call[c].group = g

\* Rows, roles and invites are of their types: a member has a role the code knows.
TypeOK ==
    /\ tenants \subseteq TenantIds /\ labelled \in BOOLEAN
    /\ projects \in [ProjectIds -> TenantIds \cup {None, Never}]
    /\ members \subseteq [id : 1..MaxRows, group : Groups, member : TenantIds, role : Roles]
    /\ acceptable \in [Secrets -> [group : Groups, role : Roles] \cup {None, Never}]
    /\ listed \subseteq Groups \X Secrets
    /\ used \subseteq ProjectIds
    /\ mishap \subseteq Mishaps

\* Every tenant and every project has an owner (checkIfMemberIsLastOwner), once its creation is over:
\* unless owners were removed at the same time, a creation failed between its two writes, a tenant was
\* deleted while it created something, or an admin added a new tenant to itself as less than an owner before
\* its login did, which then finds a membership and looks no further (EnsureProviderTenant, ensureTenant).
HasOwner ==
    Unless({"raced", "halfway", "stale", "evicted", "demoted"},
        \A g \in Groups : There(g) =>
            \/ Owners(g) # {}
            \/ \E c \in Calls : Joins(c, g) \/ (At(c, "lookup") /\ call[c].group = g))

\* Nobody is a member of a group twice, which would lock the member out (find: "found multiple
\* membership associations"): unless two calls added it at the same time.
SingleMembership ==
    Unless({"overlap"}, \A r, q \in members : r.group = q.group /\ r.member = q.member => r = q)

\* An invite lets one user join: unless two users accept it at the same time.
InviteOnce == Unless({"overlap"}, \A s \in Secrets : Cardinality(joined[s]) <= 1)

\* Owners see exactly the invites that can be accepted (invite-store.go keeps both keys in step):
\* unless an invite was deleted in the name of another group.
InvitesListed ==
    Unless({"strayed"}, listed = {<<acceptable[s].group, s>> : s \in {x \in Secrets : acceptable[x] \notin {None, Never}}})

\* What a project owns has a project, and a project a tenant (validateDelete): unless something was
\* created between validation and deletion.
NothingOrphaned ==
    Unless({"stale"}, (\A p \in used : There(p)) /\ (\A p \in ProjectIds : projects[p] \in TenantIds => projects[p] \in tenants))

\* A user who has a membership in its own tenant keeps it, as owner (tenant-member-validation.go): no
\* sequence of removals and updates by other owners locks a user out.
OwnTenantKept ==
    [][\A u \in Users : "owner" \in RolesOf(u, u) => "owner" \in RolesOf(u, u)']_vars

\* The role a project's member list shows is the role the member's requests have
\* (ProjectService.Get and GetProjectsAndTenants compute it differently).
RolesAgree ==
    Unless({"overlap"}, \A p \in ProjectIds, u \in Users :
        projects[p] \in tenants /\ "guest" \notin RolesOf(p, u) => RoleShown(p, u) = ProjectRole(u, p))

\* The rows of members say the same to everybody who reads them.
MembersAgree == TypeOK /\ SingleMembership /\ NothingOrphaned /\ RolesAgree

\* An invite can be used by one user, and seen while it can be used.
InvitesAgree == InviteOnce /\ InvitesListed
=============================================================================
