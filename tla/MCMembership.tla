--------------------------- MODULE MCMembership ---------------------------
EXTENDS Membership, TLC
CONSTANTS a, b, d, other, p, q

Own(u, i) == Row(i, u, u, "owner")
CallsOf(kinds, by, on) == [kinds |-> kinds, by |-> by, on |-> on, left |-> 4]
Members == {Own(a, 1), Own(b, 2), Own(d, 3), Row(4, p, a, "owner")}
Base == [tenants |-> {a, b, d}, labelled |-> FALSE,
         projects |-> [x \in ProjectIds |-> IF x = p THEN a ELSE Never],
         members |-> Members, ops |-> {}]
Nobody == [Base EXCEPT !.tenants = {}, !.projects = [x \in ProjectIds |-> Never], !.members = {}]
MCScenarios ==
    \* a member joins the project of another and becomes its owner
    {[Base EXCEPT !.ops = CallsOf({"remove", "update", "invite", "accept"}, {a, b}, {p})],
     \* a user invites another into its own tenant
     [Base EXCEPT !.ops = CallsOf({"remove", "update", "invite", "accept", "delete", "create"}, {a, b}, {a, q})],
     [Base EXCEPT !.members = @ \cup {Row(5, a, b, "owner")}, !.ops = CallsOf({"remove", "update", "delete"}, {a, b}, {a, p})],
     \* invites are deleted, in the name of another project, or expire
     [Base EXCEPT !.ops = CallsOf({"invite", "accept", "uninvite", "fail"}, {a, b, d}, {p, b})],
     \* projects and tenants come and go
     [Base EXCEPT !.ops = CallsOf({"create", "delete", "use", "fail"}, {a}, {p, q, other})],
     [Base EXCEPT !.members = @ \cup {Row(5, p, b, "viewer")}, !.ops = CallsOf({"invite", "accept", "remove"}, {a, b}, {p})],
     \* inherited roles
     [Base EXCEPT !.members = @ \cup {Row(5, a, b, "viewer")}, !.ops = CallsOf({"update", "admin", "remove"}, {a, b, Provider}, {a, p})],
     [Base EXCEPT !.ops = CallsOf({"admin", "create", "fail"}, {a, Provider}, {other, q})],
     \* users log in for the first time while replicas start
     [Nobody EXCEPT !.ops = CallsOf({"login", "start", "fail"}, {a, Provider}, {a, Provider})],
     \* an admin adds a tenant to itself while its user logs in
     [Nobody EXCEPT !.ops = CallsOf({"login", "admin"}, {a, Provider}, {a})],
     [Nobody EXCEPT !.tenants = {Provider}, !.members = {Own(Provider, 1)}, !.ops = CallsOf({"start"}, {Provider}, {Provider})]}
Symmetry == Permutations(Calls)
=============================================================================
