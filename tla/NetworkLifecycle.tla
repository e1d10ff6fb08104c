-------------------------- MODULE NetworkLifecycle --------------------------
(***************************************************************************)
(* Networks and ips (pkg/repository/network.go, network-validation.go,     *)
(* ip.go, ip-validation.go).  Three stores have no common transaction: the *)
(* rows of networks and ips in RethinkDB, the prefixes and addresses in    *)
(* the ipam, and the pool of vrfs.  Requests create and update in several  *)
(* steps and validate before they act; deletions are tasks that asynq      *)
(* delivers at least once.                                                 *)
(***************************************************************************)
EXTENDS Naturals, FiniteSets

CONSTANTS
    Requests,      \* api calls in progress at the same time
    Tasks,         \* delete tasks, each enqueued once (bound)
    RootIds,       \* ids of super, external and underlay networks, each used once (bound)
    ChildIds,      \* uuids of child networks, each used once (bound)
    Uuids,         \* allocation uuids of ips, each used once (bound)
    Prefixes,      \* all prefixes, of roots and of children
    Sub,           \* Sub[p]: the prefixes within p
    FamilyOf,      \* FamilyOf[p]: address family of p
    LengthOf,      \* LengthOf[p]: length of p
    AddressesOf,   \* AddressesOf[p]: the addresses of p
    Vrfs,          \* the integers of the vrf pool
    RootRequests,  \* what operators ask for
    ChildRequests, \* what projects ask for
    UpdateRequests,
    IpRequests,
    Scenarios,     \* where behaviours start: the root networks that are there, the ids and tasks
                   \* that are gone, and what namespaces still know of networks that are gone
    NoProject,     \* the project of a network that all may use
    None,
    MaxTries,      \* deliveries of a task (bound)
    MaxMishaps     \* after more kinds of mishaps than this nothing new begins (bound)

Ids == RootIds \cup ChildIds
Projects == {q.project : q \in ChildRequests \cup IpRequests}
Namespaces == Projects \cup {None}
Addresses == UNION {AddressesOf[p] : p \in Prefixes}
Families == {FamilyOf[p] : p \in Prefixes}
\* Lengths of prefixes, at most one for an address family.
Kinds == Families \X {LengthOf[p] : p \in Prefixes}
Lengths == {x \in SUBSET Kinds : \A k, l \in x : k[1] = l[1] => k = l}
SuperTypes == {"super", "superNamespaced"}
ChildTypes == {"child", "childShared"}
Types == SuperTypes \cup ChildTypes \cup {"external", "underlay"}
Mishaps == {"halfway", "again", "shared", "reused", "midway", "orphaned"}

RootType == [id : RootIds, type : SuperTypes \cup {"external", "underlay"}, project : Projects \cup {NoProject},
             prefixes : SUBSET Prefixes, lengths : Lengths, min : Lengths, vrf : Vrfs \cup {0}]
RowType == [type : Types, project : Projects \cup {NoProject}, ns : Namespaces, parent : Ids \cup {None},
            prefixes : SUBSET Prefixes, lengths : Lengths, min : Lengths, vrf : Vrfs \cup {0}]
IpType == [uuid : Uuids, network : Ids, project : Projects, prefix : Prefixes, attached : BOOLEAN]

\* Without an id the parent is the super network of the partition, without lengths they are its default.
ChildRequest == [type : ChildTypes, parent : Ids \cup {None}, project : Projects,
                 lengths : Lengths, family : Families \cup {None}]

Overlap(p, q) == p = q \/ p \in Sub[q] \/ q \in Sub[p]

\* Prefixes are nested or disjoint.
ASSUME PrefixesAssumption ==
    /\ \A p, q \in Prefixes : p \in Sub[q] => Sub[p] \subseteq Sub[q]
    /\ \A p, q \in Prefixes : Sub[p] \cap Sub[q] # {} => Overlap(p, q)
    /\ \A p \in Prefixes : LengthOf[p] \in Nat

\* No name stands for two things.
ASSUME NamesAssumption ==
    /\ RootIds \cap ChildIds = {} /\ Ids \cap Uuids = {}
    /\ None \notin Ids \cup Projects \cup Families \cup Addresses \cup RowType \cup IpType
    /\ Vrfs \subseteq Nat \ {0}
    /\ MaxTries \in Nat

ASSUME RequestsAssumption ==
    /\ RootRequests \subseteq RootType
    /\ ChildRequests \subseteq ChildRequest
    /\ UpdateRequests \subseteq [id : Ids, prefixes : SUBSET Prefixes]
    /\ IpRequests \subseteq [network : Ids, project : Projects, address : Addresses \cup {None}, attached : BOOLEAN]

\* The networks that are there have ids, vrfs and prefixes of their own.
ASSUME ScenarioAssumption ==
    \A s \in Scenarios :
      /\ s.there \subseteq RootType /\ s.gone \subseteq Ids \cup Uuids \cup Tasks /\ s.known \subseteq Projects \X Prefixes
      /\ \A q, x \in s.there : q.id = x.id \/ (q.vrf = x.vrf /\ q.vrf # 0) => q = x
      /\ \A q, x \in s.there : \A p \in q.prefixes, z \in x.prefixes : Overlap(p, z) => q = x /\ p = z

VARIABLES
    rows,      \* the network table
    ips,       \* the ip table, keyed by namespace and address
    prefixes,  \* prefixes in the ipam, per namespace
    acquired,  \* addresses acquired in the ipam, per namespace and prefix
    vrfs,      \* free vrfs
    req,       \* the api calls
    task,      \* the delete tasks
    used,      \* ids and uuids that were given to an entity, and tasks that are gone
    released,  \* history: entities that a task began to release
    mishap     \* history: what went wrong so far, see Mishaps

stores == <<rows, ips, prefixes, acquired, vrfs>>
vars == <<rows, ips, prefixes, acquired, vrfs, req, task, used, released, mishap>>

Idle == [pc |-> "idle"]
IpKeys == Namespaces \X Addresses

\* Steps of requests: on the row of a network that is there, and for a child that has no row yet.
Changes == {"rootPrefix", "updateRemove", "updateAdd", "updateRow"}
Births == {"childPrefix", "childVrf", "childRow"}

RowOf(q) == [type |-> q.type, project |-> q.project, ns |-> None, parent |-> None,
             prefixes |-> q.prefixes, lengths |-> q.lengths, min |-> q.min, vrf |-> q.vrf]

\* Some networks are there already, others are gone.
Init ==
    \E s \in Scenarios :
      /\ rows = [i \in Ids |-> IF \E q \in s.there : q.id = i THEN RowOf(CHOOSE q \in s.there : q.id = i) ELSE None]
      /\ prefixes = s.known \cup ({None} \X UNION {q.prefixes : q \in s.there})
      /\ vrfs = Vrfs \ {q.vrf : q \in s.there}
      /\ used = {q.id : q \in s.there} \cup s.gone
      /\ ips = [k \in IpKeys |-> None]
      /\ acquired = {}
      /\ req = [r \in Requests |-> Idle]
      /\ task = [t \in Tasks |-> [pc |-> "unused"]]
      /\ released = {} /\ mishap = {}

Stored == {i \in Ids : rows[i] # None}
MayBegin(r) == req[r] = Idle /\ Cardinality(mishap) <= MaxMishaps

Goto(r, pc) == req' = [req EXCEPT ![r].pc = pc]
Finish(r) == req' = [req EXCEPT ![r] = Idle]
\* The call ends with an error; what it had acquired stays acquired.
Fail(r, halfway) ==
    /\ Finish(r)
    /\ mishap' = IF halfway THEN mishap \cup {"halfway"} ELSE mishap

\* What overlaps when one request or task deletes, and another one makes, changes or takes from the same network.
BeingReleased(e) == \E x \in released : x[1] = e
Dying(i) == BeingReleased(i) \/ \E t \in Tasks : task[t].pc \in {"prefix", "vrf", "row"} /\ task[t].network = i
Changing(i) == \E r \in Requests : req[r].pc \in Changes /\ req[r].id = i
Parenting(i) == \E r \in Requests : req[r].pc \in Births /\ req[r].row.parent = i

-----------------------------------------------------------------------------
(* The ipam *)

CanCreatePrefix(ns, p) == \A q \in Prefixes : <<ns, q>> \in prefixes => ~Overlap(p, q)

\* The ipam refuses to delete a prefix that has addresses.
HasAddresses(ns, p) == \E a \in Addresses : <<ns, p, a>> \in acquired

\* A prefix is made that the row of another network still carries, or the copy of a row that an ip is made from.
Reuses(ns, p, own) ==
    \/ \E i \in Stored \ {own} : rows[i].ns = ns /\ p \in rows[i].prefixes
    \/ \E r \in Requests : /\ req[r].pc = "ipAcquire" /\ req[r].ip.network # own
                           /\ req[r].nw.ns = ns /\ p \in req[r].nw.prefixes
Reused(new, own) == IF \E x \in new : Reuses(x[1], x[2], own) THEN {"reused"} ELSE {}

-----------------------------------------------------------------------------
(* Validation *)

\* Only roots are compared, for children lie within them.
Overlapping(ps) ==
    \/ \E p, q \in ps : p # q /\ Overlap(p, q)
    \/ \E i \in Stored : /\ rows[i].parent = None /\ rows[i].ns = None
                         /\ \E p \in ps, q \in rows[i].prefixes : Overlap(p, q)

\* arePrefixesEmpty looks for ips by prefix, in whatever namespace.
PrefixesEmpty(ps) == \A k \in IpKeys : ips[k] # None => ips[k].prefix \notin ps

\* One partition: a second super network is refused.
NetworkTypePossible(type) == type = "super" => \A i \in Stored : rows[i].type # "super"

OfFamily(ps, f) == {p \in ps : FamilyOf[p] = f}

\* Children are smaller than every prefix of their family.
LengthsPossible(lengths, ps) ==
    \A k \in lengths : OfFamily(ps, k[1]) # {} /\ \A p \in OfFamily(ps, k[1]) : k[2] > LengthOf[p]

\* Every address family of a super network needs a length for its children.
LengthsAllowed(q) ==
    /\ q.lengths # {}
    /\ \A p \in q.prefixes : \E k \in q.lengths : k[1] = FamilyOf[p]
    /\ LengthsPossible(q.lengths, q.prefixes) /\ LengthsPossible(q.min, q.prefixes)

SuperAllowed(q) ==
    /\ q.type \in SuperTypes
    /\ NetworkTypePossible(q.type)
    /\ LengthsAllowed(q)

ExternalAllowed(q) == q.type = "external" /\ q.vrf # 0 /\ q.lengths = {} /\ q.min = {}

UnderlayAllowed(q) ==
    /\ q.type = "underlay"
    /\ q.vrf = 0 /\ q.project = NoProject /\ q.lengths = {} /\ q.min = {}
    /\ \A p \in q.prefixes : FamilyOf[p] = "v4"

ParentAllowed(parent, project) ==
    /\ parent # None
    /\ parent.type \in SuperTypes
    /\ parent.project \in {NoProject, project}

\* The lengths of the prefixes that a child gets: those asked for, or the default, of one family or of all.
Wanted(parent, q) ==
    LET asked == IF q.lengths = {} THEN parent.lengths ELSE q.lengths
    IN  {k \in asked : q.family \in {None, k[1]}}

ChildLengthsAllowed(parent, q) ==
    /\ parent.lengths # {}
    /\ LengthsPossible(q.lengths, parent.prefixes)
    /\ \A k \in q.lengths, least \in parent.min : k[1] = least[1] => k[2] >= least[2]
    /\ Wanted(parent, q) # {}

\* The network with the id, or the super networks of the partition.
Parents(q, projects) ==
    IF q.parent # None THEN {q.parent} \cap Stored
    ELSE {i \in Stored : rows[i].type = "super" /\ rows[i].project \in projects}

IpAllowed(nw, project) ==
    /\ nw # None
    /\ nw.project \in {NoProject, project}
    /\ nw.type \in ChildTypes \cup {"external", "underlay"}
    /\ nw.project # project => nw.type # "child"

-----------------------------------------------------------------------------
(* Create a super, external or underlay network: vrf, row, prefixes *)

ValidateRoot(r, q) ==
    /\ MayBegin(r)
    /\ q.id \notin used
    /\ rows[q.id] = None
    /\ SuperAllowed(q) \/ ExternalAllowed(q) \/ UnderlayAllowed(q)
    /\ ~Overlapping(q.prefixes)
    /\ req' = [req EXCEPT ![r] =
          [pc |-> IF q.vrf = 0 THEN "rootRow" ELSE "rootVrf", id |-> q.id, todo |-> q.prefixes,
           row |-> RowOf(q)]]
    /\ UNCHANGED <<stores, task, used, released, mishap>>

\* Mutant: the pool is asked for the vrf, and the answer is not looked at.
RootVrfUnchecked(r) ==
    /\ req[r].pc = "rootVrf"
    /\ vrfs' = vrfs \ {req[r].row.vrf}
    /\ Goto(r, "rootRow")
    /\ UNCHANGED <<rows, ips, prefixes, acquired, task, used, released, mishap>>

RootVrf(r) ==
    /\ req[r].pc = "rootVrf"
    /\ \/ /\ req[r].row.vrf \in vrfs
          /\ vrfs' = vrfs \ {req[r].row.vrf}
          /\ Goto(r, "rootRow")
       \/ /\ req[r].row.vrf \notin vrfs
          /\ Finish(r)
          /\ UNCHANGED vrfs
    /\ UNCHANGED <<rows, ips, prefixes, acquired, task, used, released, mishap>>

RootRow(r) ==
    /\ req[r].pc = "rootRow"
    /\ \/ /\ rows[req[r].id] = None
          /\ rows' = [rows EXCEPT ![req[r].id] = req[r].row]
          /\ used' = used \cup {req[r].id}
          /\ Goto(r, "rootPrefix")
          /\ UNCHANGED mishap
       \/ /\ rows[req[r].id] # None
          /\ Fail(r, req[r].row.vrf # 0)
          /\ UNCHANGED <<rows, used>>
    /\ UNCHANGED <<ips, prefixes, acquired, vrfs, task, released>>

\* When the ipam refuses, the row stays as it is.
RootPrefix(r) ==
    /\ req[r].pc = "rootPrefix"
    /\ \E p \in req[r].todo :
         \/ /\ CanCreatePrefix(None, p)
            /\ prefixes' = prefixes \cup {<<None, p>>}
            /\ req' = [req EXCEPT ![r] = IF req[r].todo = {p} THEN Idle ELSE [req[r] EXCEPT !.todo = @ \ {p}]]
            /\ mishap' = mishap \cup Reused({<<None, p>>}, req[r].id)
         \/ /\ ~CanCreatePrefix(None, p)
            /\ Fail(r, TRUE)
            /\ UNCHANGED prefixes
    /\ UNCHANGED <<rows, ips, acquired, vrfs, task, used, released>>

-----------------------------------------------------------------------------
(* Create a child network: prefixes, vrf, row *)

ValidateChild(r, q) ==
    /\ MayBegin(r)
    /\ q.project # NoProject
    /\ \E i \in Ids : /\ Parents(q, {NoProject}) = {i}
                     /\ ParentAllowed(rows[i], q.project)
                     /\ ChildLengthsAllowed(rows[i], q)
    /\ q.type = "childShared" =>
         ~\E i \in Stored : rows[i].type = "childShared" /\ rows[i].project = q.project
    /\ req' = [req EXCEPT ![r] = [pc |-> "childParent", child |-> q]]
    /\ UNCHANGED <<stores, task, used, released, mishap>>

\* The parent is read again, this time whatever its project is; a child inherits
\* its vrf, and lives in the namespace of its project below a namespaced super network.
ChildParent(r) ==
    /\ req[r].pc = "childParent"
    /\ LET q == req[r].child
           found(i) == /\ Parents(q, Projects \cup {NoProject}) = {i}
                       /\ rows[i].type \in SuperTypes
                       /\ Wanted(rows[i], q) # {}
       IN  \/ \E i \in Ids :
                /\ found(i)
                /\ req' = [req EXCEPT ![r] =
                      [pc |-> "childPrefix", todo |-> Wanted(rows[i], q), from |-> rows[i].prefixes,
                       row |-> [type |-> q.type, project |-> q.project, parent |-> i,
                                ns |-> IF rows[i].type = "superNamespaced" THEN q.project ELSE None,
                                prefixes |-> {}, lengths |-> {}, min |-> {}, vrf |-> rows[i].vrf]]]
                /\ mishap' = IF Dying(i) \/ Changing(i) THEN mishap \cup {"midway"} ELSE mishap
           \/ /\ ~\E i \in Ids : found(i)
              /\ Finish(r)
              /\ UNCHANGED mishap
    /\ UNCHANGED <<stores, task, used, released>>

\* What the ipam knows when prefixes are made in a namespace.
InNamespace(ns, made) == prefixes \cup ({ns} \X made)

\* The prefixes of the parent that the namespace does not know yet.
MissingIn(ns, from) == IF ns = None THEN {} ELSE {p \in from : <<ns, p>> \notin prefixes}

\* Mutant: a prefix is free when it is not taken as a whole.
FreeChildrenUntaken(ns, from, known, k) ==
    {c \in Prefixes : /\ FamilyOf[c] = k[1] /\ LengthOf[c] = k[2] /\ <<ns, c>> \notin known
                      /\ \E p \in OfFamily(from, k[1]) : <<ns, p>> \in known /\ c \in Sub[p]}

\* AcquireChildPrefix: of the right length, within a prefix of the parent, apart from what is known within it.
FreeChildren(ns, from, known, k) ==
    {c \in Prefixes : /\ FamilyOf[c] = k[1] /\ LengthOf[c] = k[2]
                      /\ \E p \in OfFamily(from, k[1]) :
                           /\ <<ns, p>> \in known /\ c \in Sub[p]
                           /\ \A q \in Sub[p] : <<ns, q>> \in known => ~Overlap(c, q)}

\* One address family after the other: the prefixes of the parent are made in the namespace of the project
\* when its first child needs them, and the call fails with the first one that the ipam refuses.
ChildPrefix(r) ==
    /\ req[r].pc = "childPrefix"
    /\ \E k \in req[r].todo :
         LET row == req[r].row
             missing == MissingIn(row.ns, OfFamily(req[r].from, k[1]))
             possible == {p \in missing : CanCreatePrefix(row.ns, p)}
             known == InNamespace(row.ns, missing)
             free == FreeChildren(row.ns, req[r].from, known, k)
             fails(made) == /\ prefixes' = InNamespace(row.ns, made)
                            /\ Finish(r)
                            /\ mishap' = mishap \cup Reused(prefixes' \ prefixes, None)
                                               \cup (IF row.prefixes # {} THEN {"halfway"} ELSE {})
         IN  \/ possible # missing /\ \E made \in SUBSET possible : fails(made)
             \/ possible = missing /\ free = {} /\ fails(missing)
             \/ /\ possible = missing
                /\ \E c \in free :
                     /\ prefixes' = known \cup {<<row.ns, c>>}
                     /\ req' = [req EXCEPT ![r] = [req[r] EXCEPT
                           !.todo = @ \ {k},
                           !.row = [row EXCEPT !.prefixes = @ \cup {c}],
                           !.pc = IF req[r].todo # {k} THEN "childPrefix"
                                  ELSE IF row.vrf # 0 THEN "childRow" ELSE "childVrf"]]
                     /\ mishap' = mishap \cup Reused(prefixes' \ prefixes, None)
    /\ UNCHANGED <<rows, ips, acquired, vrfs, task, used, released>>

ChildVrf(r) ==
    /\ req[r].pc = "childVrf"
    /\ \/ \E v \in vrfs :
            /\ vrfs' = vrfs \ {v}
            /\ req' = [req EXCEPT ![r].row.vrf = v, ![r].pc = "childRow"]
            /\ UNCHANGED mishap
       \/ /\ vrfs = {}
          /\ Fail(r, TRUE)
          /\ UNCHANGED vrfs
    /\ UNCHANGED <<rows, ips, prefixes, acquired, task, used, released>>

ChildRow(r) ==
    /\ req[r].pc = "childRow"
    /\ \E i \in ChildIds \ used :
         /\ rows' = [rows EXCEPT ![i] = req[r].row]
         /\ used' = used \cup {i}
    /\ Finish(r)
    /\ UNCHANGED <<ips, prefixes, acquired, vrfs, task, released, mishap>>

-----------------------------------------------------------------------------
(* Change the prefixes of a root network *)

ValidateUpdate(r, q) ==
    /\ MayBegin(r)
    /\ rows[q.id] # None
    /\ rows[q.id].parent = None /\ q.prefixes # {}
    /\ PrefixesEmpty(rows[q.id].prefixes \ q.prefixes)
    /\ LET added == q.prefixes \ rows[q.id].prefixes
       IN  added # {} => ~Overlapping(added)
    /\ req' = [req EXCEPT ![r] =
          [pc |-> "updateRemove", id |-> q.id, row |-> rows[q.id], prefixes |-> q.prefixes,
           todo |-> rows[q.id].prefixes \ q.prefixes]]
    /\ mishap' = IF Dying(q.id) \/ Changing(q.id) \/ Parenting(q.id) THEN mishap \cup {"midway"} ELSE mishap
    /\ UNCHANGED <<stores, task, used, released>>

\* Nobody asks whether children in a namespace have a part of a prefix that is taken out.
Children(i) == {rows[j] : j \in {x \in Stored : rows[x].parent = i}}
               \cup {req[r].row : r \in {x \in Requests : req[x].pc \in Births /\ req[x].row.parent = i}}
Orphaned(i, p) ==
    IF \E row \in Children(i) : row.ns # None /\ row.prefixes \cap Sub[p] # {} THEN {"orphaned"} ELSE {}

\* Here a missing prefix is an error too.
UpdateRemove(r) ==
    /\ req[r].pc = "updateRemove"
    /\ \/ /\ req[r].todo = {}
          /\ req' = [req EXCEPT ![r].pc = "updateAdd", ![r].todo = req[r].prefixes \ req[r].row.prefixes]
          /\ UNCHANGED <<prefixes, mishap>>
       \/ \E p \in req[r].todo :
            \/ /\ <<None, p>> \in prefixes /\ ~HasAddresses(None, p)
               /\ prefixes' = prefixes \ {<<None, p>>}
               /\ req' = [req EXCEPT ![r].todo = @ \ {p}]
               /\ mishap' = mishap \cup Orphaned(req[r].id, p)
            \/ /\ <<None, p>> \notin prefixes \/ HasAddresses(None, p)
               /\ Fail(r, req[r].todo # req[r].row.prefixes \ req[r].prefixes)
               /\ UNCHANGED prefixes
    /\ UNCHANGED <<rows, ips, acquired, vrfs, task, used, released>>

UpdateAdd(r) ==
    /\ req[r].pc = "updateAdd"
    /\ \/ /\ req[r].todo = {}
          /\ Goto(r, "updateRow")
          /\ UNCHANGED <<prefixes, mishap>>
       \/ \E p \in req[r].todo :
            \/ /\ CanCreatePrefix(None, p)
               /\ prefixes' = prefixes \cup {<<None, p>>}
               /\ req' = [req EXCEPT ![r].todo = @ \ {p}]
               /\ mishap' = mishap \cup Reused({<<None, p>>}, None)
            \/ /\ ~CanCreatePrefix(None, p)
               /\ Fail(r, req[r].prefixes # req[r].row.prefixes)
               /\ UNCHANGED prefixes
    /\ UNCHANGED <<rows, ips, acquired, vrfs, task, used, released>>

\* Optimistic locking: an outdated copy is a conflict, after the ipam was changed.
UpdateRow(r) ==
    /\ req[r].pc = "updateRow"
    /\ \/ /\ rows[req[r].id] = req[r].row
          /\ rows' = [rows EXCEPT ![req[r].id].prefixes = req[r].prefixes]
          /\ Finish(r)
          /\ UNCHANGED mishap
       \/ /\ rows[req[r].id] # req[r].row
          /\ Fail(r, req[r].prefixes # req[r].row.prefixes)
          /\ UNCHANGED rows
    /\ UNCHANGED <<ips, prefixes, acquired, vrfs, task, used, released>>

-----------------------------------------------------------------------------
(* Create an ip: address in the ipam, then the row *)

ValidateIp(r, q) ==
    /\ MayBegin(r)
    /\ LET nw == rows[q.network]
       IN  /\ IpAllowed(nw, q.project)
           /\ q.address # None => /\ ips[<<nw.ns, q.address>>] = None
                                  /\ \E p \in nw.prefixes : q.address \in AddressesOf[p]
           /\ q.address = None => \E p \in nw.prefixes, a \in Addresses :
                                     a \in AddressesOf[p] /\ <<nw.ns, p, a>> \notin acquired
           /\ req' = [req EXCEPT ![r] = [pc |-> "ipAcquire", ip |-> q, nw |-> nw]]
    /\ UNCHANGED <<stores, task, used, released, mishap>>

\* Mutant: an address that was free during validation is taken without asking the ipam.
IpAcquireUnasked(r) ==
    /\ req[r].pc = "ipAcquire"
    /\ LET q == req[r].ip
           nw == req[r].nw
       IN  \E x \in nw.prefixes \X Addresses :
             /\ x[2] \in AddressesOf[x[1]]
             /\ q.address \in {None, x[2]}
             /\ acquired' = acquired \cup (IF q.address = None THEN {<<nw.ns, x[1], x[2]>>} ELSE {})
             /\ req' = [req EXCEPT ![r] =
                   [pc |-> "ipRow", ns |-> nw.ns, network |-> q.network, project |-> q.project,
                    attached |-> q.attached, prefix |-> x[1], address |-> x[2]]]
    /\ UNCHANGED <<rows, ips, prefixes, vrfs, task, used, released, mishap>>

IpAcquire(r) ==
    /\ req[r].pc = "ipAcquire"
    /\ LET q == req[r].ip
           nw == req[r].nw
           free == {x \in nw.prefixes \X Addresses :
                      /\ x[2] \in AddressesOf[x[1]]
                      /\ q.address \in {None, x[2]}
                      /\ <<nw.ns, x[1]>> \in prefixes
                      /\ <<nw.ns, x[1], x[2]>> \notin acquired}
       IN  \/ \E x \in free :
                /\ acquired' = acquired \cup {<<nw.ns, x[1], x[2]>>}
                /\ req' = [req EXCEPT ![r] =
                      [pc |-> "ipRow", ns |-> nw.ns, network |-> q.network, project |-> q.project,
                       attached |-> q.attached, prefix |-> x[1], address |-> x[2]]]
           \/ /\ free = {}
              /\ Finish(r)
              /\ UNCHANGED acquired
    /\ UNCHANGED <<rows, ips, prefixes, vrfs, task, used, released, mishap>>

IpRow(r) ==
    /\ req[r].pc = "ipRow"
    /\ LET q == req[r]
           key == <<q.ns, q.address>>
       IN  \/ /\ ips[key] = None
              /\ \E u \in Uuids \ used :
                   /\ ips' = [ips EXCEPT ![key] =
                         [uuid |-> u, network |-> q.network, project |-> q.project,
                          prefix |-> q.prefix, attached |-> q.attached]]
                   /\ used' = used \cup {u}
              /\ Finish(r)
              /\ UNCHANGED mishap
           \/ /\ ips[key] # None
              /\ Fail(r, TRUE)
              /\ UNCHANGED <<ips, used>>
    /\ UNCHANGED <<rows, prefixes, acquired, vrfs, task, released>>

-----------------------------------------------------------------------------
(* Deletions are validated and enqueued *)

Enqueue(t, payload) ==
    /\ task[t].pc = "unused" /\ t \notin used
    /\ task' = [task EXCEPT ![t] = payload]

DeleteNetwork(t, i) ==
    /\ Cardinality(mishap) <= MaxMishaps
    /\ rows[i] # None
    /\ \A c \in Stored : rows[c].parent # i
    /\ PrefixesEmpty(rows[i].prefixes)
    /\ Enqueue(t, [pc |-> "queued", tries |-> 0, network |-> i])
    /\ UNCHANGED <<stores, req, used, released, mishap>>

DeleteIp(t, k) ==
    /\ Cardinality(mishap) <= MaxMishaps
    /\ ips[k] # None
    /\ ~ips[k].attached
    /\ Enqueue(t, [pc |-> "queued", tries |-> 0, uuid |-> ips[k].uuid])
    /\ UNCHANGED <<stores, req, used, released, mishap>>

IsNetworkTask(t) == task[t].pc # "unused" /\ "network" \in DOMAIN task[t]
Step(t, pc) == task' = [task EXCEPT ![t].pc = pc]
Archived(t) == task[t].tries + 1 >= MaxTries

\* The attempt fails or the worker dies: asynq runs the task again, up to a limit.
Retry(t) == task' = [task EXCEPT ![t] = [task[t] EXCEPT
                       !.pc = IF Archived(t) THEN "archived" ELSE "queued", !.tries = @ + 1]]

\* The task begins or continues to release what entity e holds.  It goes wrong
\* when another attempt has released the same before.
Releasing(t, e, wrong) ==
    LET before == {x \in released : x[1] = e}
    IN  /\ released' = IF before = {} THEN released \cup {<<e, t, task[t].tries>>} ELSE released
        /\ mishap' = mishap \cup wrong \cup
             (IF before \subseteq {<<e, t, task[t].tries>>} THEN {} ELSE {"again"})

ReadNetwork(t) ==
    /\ IsNetworkTask(t) /\ task[t].pc = "queued"
    /\ LET i == task[t].network
       IN  \/ rows[i] = None /\ Step(t, "done")
           \/ /\ rows[i] # None
              /\ task' = [task EXCEPT ![t] =
                    [pc |-> "prefix", tries |-> @.tries, network |-> i, row |-> rows[i], todo |-> rows[i].prefixes]]
    /\ mishap' = IF Changing(task[t].network) THEN mishap \cup {"midway"} ELSE mishap
    /\ UNCHANGED <<stores, req, used, released>>

\* Mutant: the vrf is forgotten.
ReleasePrefixOnly(t) ==
    /\ task[t].pc = "prefix"
    /\ LET ns == task[t].row.ns
       IN  \/ /\ task[t].todo = {}
              /\ Step(t, "row")
              /\ UNCHANGED <<prefixes, released, mishap>>
           \/ \E p \in task[t].todo :
                /\ ~HasAddresses(ns, p)
                /\ prefixes' = prefixes \ {<<ns, p>>}
                /\ task' = [task EXCEPT ![t].todo = @ \ {p}]
                /\ Releasing(t, task[t].network, {})
    /\ UNCHANGED <<rows, ips, acquired, vrfs, req, used>>

ReleasePrefix(t) ==
    /\ task[t].pc = "prefix"
    /\ LET ns == task[t].row.ns
       IN  \/ /\ task[t].todo = {}
              /\ Step(t, IF task[t].row.vrf > 0 THEN "vrf" ELSE "row")
              /\ UNCHANGED <<prefixes, released, mishap>>
           \/ \E p \in task[t].todo :
                \/ /\ HasAddresses(ns, p)
                   /\ Retry(t)
                   /\ UNCHANGED <<prefixes, released, mishap>>
                \/ /\ ~HasAddresses(ns, p)
                   /\ prefixes' = prefixes \ {<<ns, p>>}
                   /\ task' = [task EXCEPT ![t].todo = @ \ {p}]
                   /\ Releasing(t, task[t].network, {})
    /\ UNCHANGED <<rows, ips, acquired, vrfs, req, used>>

\* Also when the vrf is the one of the parent, or of children that came late.
ReleaseVrf(t) ==
    /\ task[t].pc = "vrf"
    /\ vrfs' = vrfs \cup {task[t].row.vrf}
    /\ Step(t, "row")
    /\ LET i == task[t].network
           kin == {j \in Stored \ {i} : rows[j].vrf = task[t].row.vrf}
                  \cup {r \in Requests : req[r].pc \in {"childPrefix", "childRow"} /\ req[r].row.vrf = task[t].row.vrf}
       IN  Releasing(t, i, IF kin # {} THEN {"shared"} ELSE {})
    /\ UNCHANGED <<rows, ips, prefixes, acquired, req, used>>

DeleteRow(t) ==
    /\ task[t].pc = "row"
    /\ rows' = [rows EXCEPT ![task[t].network] = None]
    /\ Step(t, "done")
    /\ Releasing(t, task[t].network, {})
    /\ UNCHANGED <<ips, prefixes, acquired, vrfs, req, used>>

ReadIp(t) ==
    /\ task[t].pc = "queued" /\ ~IsNetworkTask(t)
    /\ LET found == {k \in IpKeys : ips[k] # None /\ ips[k].uuid = task[t].uuid}
       IN  \/ found = {} /\ Step(t, "done")
           \/ \E k \in found :
                LET nw == rows[ips[k].network]
                IN  IF nw = None THEN Retry(t)
                    ELSE task' = [task EXCEPT ![t] =
                           [pc |-> "address", tries |-> @.tries, uuid |-> @.uuid,
                            key |-> k, prefix |-> ips[k].prefix, ns |-> nw.ns]]
    /\ UNCHANGED <<stores, req, used, released, mishap>>

\* The name of a namespaced address is not known to the ipam; not found is fine.
ReleaseIP(t) ==
    /\ task[t].pc = "address"
    /\ LET known == task[t].ns = None
       IN  /\ acquired' = acquired \ (IF known THEN {<<None, task[t].prefix, task[t].key[2]>>} ELSE {})
           /\ Releasing(t, task[t].uuid, {})
    /\ Step(t, "ip")
    /\ UNCHANGED <<rows, ips, prefixes, vrfs, req, used>>

\* The row is deleted by its key, whoever owns it by now.
DeleteIpRow(t) ==
    /\ task[t].pc = "ip"
    /\ ips' = [ips EXCEPT ![task[t].key] = None]
    /\ Step(t, "done")
    /\ Releasing(t, task[t].uuid, {})
    /\ UNCHANGED <<rows, prefixes, acquired, vrfs, req, used>>

TaskDies(t) ==
    /\ task[t].pc \in {"prefix", "vrf", "row", "address", "ip"}
    /\ Retry(t)
    /\ UNCHANGED <<stores, req, used, released, mishap>>

-----------------------------------------------------------------------------

Request(r) ==
    \/ \E q \in RootRequests : ValidateRoot(r, q)
    \/ RootVrf(r) \/ RootRow(r) \/ RootPrefix(r)
    \/ \E q \in ChildRequests : ValidateChild(r, q)
    \/ ChildParent(r) \/ ChildPrefix(r) \/ ChildVrf(r) \/ ChildRow(r)
    \/ \E q \in UpdateRequests : ValidateUpdate(r, q)
    \/ UpdateRemove(r) \/ UpdateAdd(r) \/ UpdateRow(r)
    \/ \E q \in IpRequests : ValidateIp(r, q)
    \/ IpAcquire(r) \/ IpRow(r)

Task(t) ==
    \/ \E i \in Ids : DeleteNetwork(t, i)
    \/ \E k \in IpKeys : DeleteIp(t, k)
    \/ ReadNetwork(t) \/ ReleasePrefix(t) \/ ReleaseVrf(t) \/ DeleteRow(t)
    \/ ReadIp(t) \/ ReleaseIP(t) \/ DeleteIpRow(t)
    \/ TaskDies(t)

Next == (\E r \in Requests : Request(r)) \/ (\E t \in Tasks : Task(t))

Spec == Init /\ [][Next]_vars
-----------------------------------------------------------------------------
(* Properties *)

\* Every store holds what its documents and the ipam allow; the pool never gets a vrf that is not its own.
TypeOK ==
    /\ rows \in [Ids -> RowType \cup {None}]
    /\ ips \in [IpKeys -> IpType \cup {None}]
    /\ prefixes \subseteq Namespaces \X Prefixes
    /\ acquired \subseteq Namespaces \X Prefixes \X Addresses
    /\ vrfs \subseteq Vrfs
    /\ used \subseteq Ids \cup Uuids \cup Tasks
    /\ mishap \subseteq Mishaps

Unless(kinds) == mishap \cap kinds = {}
Held(r) == IF req[r].pc \in {"rootRow", "childPrefix", "childVrf", "childRow"} THEN {req[r].row} ELSE {}
Rows == {rows[i] : i \in Stored} \cup UNION {Held(r) : r \in Requests}
\* Neither the network nor its parent is being made, changed or deleted.
Settled(i) ==
    /\ i \in Stored
    /\ \A r \in Requests : "id" \in DOMAIN req[r] => req[r].id \notin {i, rows[i].parent}
    /\ ~BeingReleased(i) /\ ~BeingReleased(rows[i].parent)

\* Two networks that nobody is making, changing or deleting have no prefix in common, unless one is
\* the parent of the other, whatever lengths were asked for, as long as no call failed halfway and no
\* super network gave a prefix away that its children use: prefixesOverlapping looks at the rows and the
\* ipam refuses what validation could not see.
NetworksDisjoint ==
    Unless({"halfway", "again", "midway", "orphaned"}) =>
      \A i, j \in Ids :
        /\ Settled(i) /\ Settled(j) /\ i # j
        /\ rows[i].ns = rows[j].ns /\ rows[i].parent # j /\ rows[j].parent # i
        => \A p \in rows[i].prefixes, q \in rows[j].prefixes : ~Overlap(p, q)

\* A vrf belongs to one network, or to a parent and its children, as long as no network with relatives
\* was deleted and no deletion was repeated: NetworkDeleteHandleFn gives back the vrf of the row it read.
VrfExclusive ==
    Unless({"again", "shared", "midway"}) =>
      \A i, j \in {x \in Stored : ~BeingReleased(x)} :
        rows[i].vrf = rows[j].vrf /\ rows[i].vrf # 0 =>
          i = j \/ rows[i].parent = j \/ rows[j].parent = i \/ (rows[i].parent = rows[j].parent /\ rows[i].parent # None)

\* The network of an ip exists: a network is only deleted when it has no ips (validateDelete), and an ip that
\* is made later keeps its prefix in the ipam.
IpHasNetwork ==
    Unless({"again", "reused", "midway"}) =>
      \A k \in IpKeys : ips[k] # None /\ ~BeingReleased(ips[k].uuid) => rows[ips[k].network] # None

\* An ip nobody deletes holds its address in the ipam, whatever deletions and requests go on, as long as no
\* deletion was repeated.
AddressBacked ==
    Unless({"again"}) =>
      \A k \in IpKeys : ips[k] # None /\ ~BeingReleased(ips[k].uuid)
                          => <<k[1], ips[k].prefix, k[2]>> \in acquired

\* A vrf that is not in the pool belongs to a network, and an address that is taken in the ipam to an ip, or
\* to a request that just got it, as long as no call failed halfway.
NothingLost ==
    Unless({"halfway", "again"}) =>
      /\ \A v \in Vrfs \ vrfs : \E row \in Rows : row.vrf = v
      /\ \A x \in acquired : x[1] = None =>
           \/ ips[<<None, x[3]>>] # None
           \/ \E r \in Requests : req[r].pc = "ipRow" /\ req[r].ns = None /\ req[r].address = x[3]

\* The rows of ips agree with the rows of networks and with the ipam.
IpsBacked == TypeOK /\ IpHasNetwork /\ AddressBacked
=============================================================================
