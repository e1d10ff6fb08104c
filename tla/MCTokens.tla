------------------------------ MODULE MCTokens ------------------------------
EXTENDS Tokens, TLC
CONSTANTS u, v, p, q, t, absent

\* Two methods of projects and of tenants, and one of every other kind.
MCVisibility == [get |-> "project", set |-> "project", tget |-> "tenant", tset |-> "tenant", aget |-> "admin", aset |-> "admin",
                 tokens |-> "self", version |-> "public", boot |-> "machine", report |-> "infra"]
MCMethods == DOMAIN MCVisibility
MCProjectMethods == [owner |-> {"get", "set"}, viewer |-> {"get"}, unspecified |-> {}]
MCTenantMethods == [owner |-> {"tget", "tset"}, editor |-> {"tget"}, viewer |-> {"tget"}, guest |-> {}, unspecified |-> {}]
MCMachineMethods == [editor |-> {"boot"}]
MCInfraMethods == [editor |-> {"report"}]
MCAdminViewer == {"get", "tget", "aget", "tokens", "version"}

Nothing == <<>>
Pat(projects, tenants) == [projects |-> projects, tenants |-> tenants]
Asks(op) == [op |-> op, user |-> None, admin |-> None, infra |-> None, projects |-> Nothing, tenants |-> Nothing,
             machines |-> Nothing, perms |-> {}, life |-> 1]
Perm(visibility, subject, methods) == [visibility |-> visibility, subject |-> subject, methods |-> methods]
TokenPerm == Perm("self", NoSubject, {"tokens"})
TokenRow(user, type, asked) == [Token(user, type, asked) EXCEPT !.key = 1, !.chosen = 0, !.issued = 0, !.kept = 0 + asked.life]

Viewer == Pat(p :> "viewer", u :> "owner")
Owner == Pat(p :> "owner" @@ q :> "viewer", u :> "owner" @@ t :> "viewer")
Left == Pat(Nothing, u :> "owner")
Operator == Pat(p :> "viewer", u :> "owner" @@ Provider :> "owner")
Observer == Pat(p :> "owner", u :> "owner" @@ Provider :> "viewer")

UserRow == TokenRow(u, "user", Asks("login"))
Scenario(tokens, pat, requests, roles, clock, left) ==
    [tokens |-> tokens, pats |-> (u :> pat @@ v :> Pat(Nothing, v :> "owner")),
     script |-> [requests |-> requests, roles |-> roles, clock |-> clock, left |-> left]]

Creates == {[Asks("create") EXCEPT !.projects = p :> r] : r \in {"viewer", "owner", "unspecified"}}
    \cup {[Asks("create") EXCEPT !.perms = {Perm("project", s, m), TokenPerm}] : s \in {p, AnySubject}, m \in {{"get"}, {"set"}}}
    \cup {[Asks("create") EXCEPT !.tenants = s :> "owner", !.perms = {Perm("tenant", s, {"tget"}), Perm("tenant", s, {"tset"})}] : s \in {u, AnySubject}}
Admins == {[Asks("create") EXCEPT !.admin = a, !.user = x] : a \in {"viewer", "editor"}, x \in {None, v}}
    \cup {[Asks("create") EXCEPT !.admin = "viewer", !.perms = {Perm("admin", NoSubject, {"aget"})}]}
    \cup {[Asks("create") EXCEPT !.admin = "viewer", !.perms = {Perm("project", s, {"get"})}] : s \in {q, absent}}
    \cup {[Asks("create") EXCEPT !.admin = "viewer", !.perms = {Perm("tenant", s, {"tget"})}] : s \in {t, absent}}
Updates == {[Asks("update") EXCEPT !.projects = s :> r] : s \in {p, AnySubject}, r \in {"viewer", "owner"}}
    \cup {[Asks("update") EXCEPT !.admin = a] : a \in {"unspecified", "editor"}}
    \cup {[Asks("update") EXCEPT !.perms = {TokenPerm}]}
Limited == [Asks("issue") EXCEPT !.projects = p :> "viewer", !.perms = {TokenPerm}]
Broad == [Asks("issue") EXCEPT !.projects = AnySubject :> "owner", !.tenants = AnySubject :> "owner", !.infra = "editor",
                               !.machines = AnySubject :> "editor", !.perms = {TokenPerm}]
\* A viewer's token that names every method of the role as well.
Named == [Asks("issue") EXCEPT !.admin = "viewer",
             !.perms = {TokenPerm, Perm("admin", NoSubject, {"aget"}), Perm("project", p, {"get"}), Perm("tenant", u, {"tget"}),
                        Perm("public", NoSubject, {"version"})}]
Admin(a) == [Asks("issue") EXCEPT !.admin = a, !.perms = {TokenPerm}]

MCScenarios ==
    \* what requests may ask for, by tokens of every kind, while memberships change
    {Scenario((1 :> TokenRow(u, "api", a)), pat, Creates \cup Updates \cup {Asks("refresh")}, {Left, Owner}, 0, 2) :
        a \in {Limited, Broad}, pat \in {Viewer, Owner}}
    \cup {Scenario((1 :> UserRow), pat, Creates \cup Admins \cup {Asks("refresh"), Broad}, {Viewer, Owner, Operator, Observer}, 0, 2) :
        pat \in {Owner, Operator, Observer}}
    \cup {Scenario((1 :> TokenRow(u, "api", Admin(a))), Operator, Creates \cup Admins \cup Updates \cup {Asks("refresh")}, {Viewer, Operator, Observer}, 0, 2) :
        a \in {"viewer", "editor"}}
    \cup {Scenario((1 :> TokenRow(u, "api", Named)), Observer, {Asks("refresh")}, {Viewer, Left}, 0, 2)}
    \* tokens are revoked, updated and refreshed, and expire
    \cup {Scenario((1 :> TokenRow(u, "api", [a EXCEPT !.life = 2])), Operator, {[Asks("update") EXCEPT !.projects = p :> "viewer"], Asks("refresh"), Asks("revoke")}, {}, 4, 4) :
        a \in {Admin("editor")}}
    \* keys are renewed
    \cup {Scenario(<<>>, Viewer, {[Asks("login") EXCEPT !.life = l] : l \in {2, 3}}, {}, 6, 2)}
Symmetry == Permutations(Calls)
=============================================================================
