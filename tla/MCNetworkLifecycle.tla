------------------------- MODULE MCNetworkLifecycle -------------------------
EXTENDS NetworkLifecycle, TLC
CONSTANTS s, e, m, n, c1, c2, u1, t2, P, Q, P1, P2, P11, a, b, pr

\* Children of the default length are halves of P, the smaller ones quarters.
MCSub == [x \in Prefixes |-> CASE x = P -> {P1, P2, P11} [] x = P1 -> {P11} [] OTHER -> {}]
MCLengthOf == [x \in Prefixes |-> CASE x \in {P1, P2} -> 1 [] x = P11 -> 2 [] OTHER -> 0]
MCFamilyOf == [x \in Prefixes |-> "v4"]
MCAddressesOf == [x \in Prefixes |-> CASE x = P1 -> {a} [] x = Q -> {b} [] OTHER -> {}]
MCVrfs == {1}
Super(i, t, v) == [id |-> i, type |-> t, project |-> NoProject, prefixes |-> {P},
                   lengths |-> {<<"v4", 1>>}, min |-> {<<"v4", 1>>}, vrf |-> v]
External(p) == [id |-> e, type |-> "external", project |-> NoProject, prefixes |-> {p}, lengths |-> {}, min |-> {}, vrf |-> 1]
Underlay == [id |-> m, type |-> "underlay", project |-> NoProject, prefixes |-> {Q}, lengths |-> {}, min |-> {}, vrf |-> 0]
Child(parent, lengths, family) ==
    [type |-> "child", parent |-> parent, project |-> pr, lengths |-> lengths, family |-> family]
MCRootRequests == {Super(s, "super", 1), External(P), Underlay}
MCChildRequests == {Child(s, {}, None), Child(None, {<<"v4", 2>>}, "v4"), Child(m, {}, None), Child(n, {}, None)}
MCUpdateRequests == {[id |-> e, prefixes |-> {P}], [id |-> n, prefixes |-> {Q}]}
MCIpRequests ==
    {[network |-> x, project |-> pr, address |-> y, attached |-> FALSE] : x \in {c1}, y \in {None}} \cup
    {[network |-> x, project |-> pr, address |-> y, attached |-> FALSE] : x \in {e}, y \in {b}}
\* In the last one another network left a half of P in the namespace of the project; where t2 is gone one network or ip is deleted.
MCScenarios ==
    {[there |-> {}, known |-> {}, gone |-> {m, n, c1, c2, u1}],
     [there |-> {External(Q)}, known |-> {}, gone |-> {s, m, n, c1, c2}],
     [there |-> {Super(s, "super", 1)}, known |-> {}, gone |-> {e, m, n, c2}],
     [there |-> {Super(s, "super", 1)}, known |-> {}, gone |-> {e, m, n, u1, t2}],
     [there |-> {Super(m, "superNamespaced", 0)}, known |-> {}, gone |-> {s, e, n, c2}],
     [there |-> {Super(m, "superNamespaced", 1)}, known |-> {}, gone |-> {s, e, n, u1}],
     [there |-> {Super(n, "superNamespaced", 0)}, known |-> {}, gone |-> {s, e, m, c2, u1, t2}],
     [there |-> {Super(n, "superNamespaced", 0)}, known |-> {<<pr, P1>>}, gone |-> {s, e, c2, u1, t2}]}
Symmetry == Permutations(Requests) \cup Permutations(Tasks)
=============================================================================
