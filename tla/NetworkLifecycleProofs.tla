----------------------- MODULE NetworkLifecycleProofs -----------------------
(* Proofs about NetworkLifecycle for any sets of networks, ips, prefixes,    *)
(* vrfs, requests and tasks. First the shape of calls and tasks, then what   *)
(* each step does, then one invariant after the other.                       *)
EXTENDS NetworkLifecycle, TLAPS

(* Rows of networks without and with a parent.                               *)
RootRows == [type : SuperTypes \cup {"external", "underlay"}, project : Projects \cup {NoProject},
             ns : {None}, parent : {None},
             prefixes : SUBSET Prefixes, lengths : Lengths, min : Lengths, vrf : Vrfs \cup {0}]
ChildRows == [type : ChildTypes, project : Projects, ns : Namespaces, parent : RootIds,
              prefixes : SUBSET Prefixes, lengths : Lengths, min : Lengths, vrf : Vrfs \cup {0}]

RootCall == [pc : {"rootVrf", "rootRow", "rootPrefix"}, id : RootIds, todo : SUBSET Prefixes, row : RootRows]
ParentCall == [pc : {"childParent"}, child : ChildRequest]
ChildCall == [pc : Births, todo : SUBSET Kinds, from : SUBSET Prefixes, row : ChildRows]
UpdateCall == [pc : {"updateRemove", "updateAdd", "updateRow"}, id : RootIds, row : RootRows,
               prefixes : SUBSET Prefixes, todo : SUBSET Prefixes]
IpRequest == [network : Ids, project : Projects, address : Addresses \cup {None}, attached : BOOLEAN]
IpCall == [pc : {"ipAcquire"}, ip : IpRequest, nw : RowType]
IpRowCall == [pc : {"ipRow"}, ns : Namespaces, network : Ids, project : Projects, attached : BOOLEAN,
              prefix : Prefixes, address : Addresses]
Calls == {Idle} \cup RootCall \cup ParentCall \cup ChildCall \cup UpdateCall \cup IpCall \cup IpRowCall

Unused == [pc |-> "unused"]
NetQueued == [pc : {"queued", "done"}, tries : Nat, network : Ids]
NetTask == [pc : {"queued", "prefix", "vrf", "row", "done", "archived"}, tries : Nat, network : Ids,
            row : RowType, todo : SUBSET Prefixes]
IpQueued == [pc : {"queued", "done", "archived"}, tries : Nat, uuid : Uuids]
IpTask == [pc : {"queued", "address", "ip", "done", "archived"}, tries : Nat, uuid : Uuids,
           key : IpKeys, prefix : Prefixes, ns : Namespaces]
TaskRecords == {Unused} \cup NetQueued \cup NetTask \cup IpQueued \cup IpTask

TypeInv ==
    /\ TypeOK
    /\ \A i \in RootIds : rows[i] \in RootRows \cup {None}
    /\ \A i \in ChildIds : rows[i] \in ChildRows \cup {None}
    /\ req \in [Requests -> Calls]
    /\ task \in [Tasks -> TaskRecords]
    /\ released \subseteq (Ids \cup Uuids) \X Tasks \X Nat
    /\ \A t \in Tasks : task[t] \in NetTask /\ task[t].pc = "vrf" => task[t].row.vrf \in Vrfs

LEMMA RowKinds ==
  /\ RootRows \subseteq RowType /\ ChildRows \subseteq RowType
  /\ None \notin RootRows /\ None \notin ChildRows
<1>1. RootRows \subseteq RowType
  BY DEF RootRows, RowType, Types, Namespaces
<1>2. ChildRows \subseteq RowType
  BY DEF ChildRows, RowType, Types, Ids
<1> QED BY <1>1, <1>2, NamesAssumption

LEMMA LengthSets == {} \in Lengths /\ \A x \in Lengths : x \subseteq Kinds
BY DEF Lengths

-----------------------------------------------------------------------------
(* The step a call or task is at tells its shape.                            *)

LEMMA CallShapes ==
  ASSUME NEW c \in Calls
  PROVE  /\ c.pc = "idle" => c = Idle
         /\ c.pc \in {"rootVrf", "rootRow", "rootPrefix"} => c \in RootCall
         /\ c.pc = "childParent" => c \in ParentCall
         /\ c.pc \in {"childPrefix", "childVrf", "childRow"} => c \in ChildCall
         /\ c.pc \in {"updateRemove", "updateAdd", "updateRow"} => c \in UpdateCall
         /\ c.pc = "ipAcquire" => c \in IpCall
         /\ c.pc = "ipRow" => c \in IpRowCall
<1>1. CASE c = Idle
  BY <1>1 DEF Idle
<1>2. CASE c \in RootCall
  BY <1>2 DEF RootCall
<1>3. CASE c \in ParentCall
  BY <1>3 DEF ParentCall
<1>4. CASE c \in ChildCall
  BY <1>4 DEF ChildCall, Births
<1>5. CASE c \in UpdateCall
  BY <1>5 DEF UpdateCall
<1>6. CASE c \in IpCall
  BY <1>6 DEF IpCall
<1>7. CASE c \in IpRowCall
  BY <1>7 DEF IpRowCall
<1> QED BY <1>1, <1>2, <1>3, <1>4, <1>5, <1>6, <1>7 DEF Calls

LEMMA TaskShapes ==
  ASSUME NEW t \in TaskRecords
  PROVE  /\ t.pc = "unused" => t = Unused
         /\ t.pc \in {"prefix", "vrf", "row"} => t \in NetTask
         /\ t.pc \in {"address", "ip"} => t \in IpTask
         /\ t.pc # "unused" /\ "network" \in DOMAIN t => t \in NetQueued \cup NetTask
         /\ t.pc # "unused" /\ "network" \notin DOMAIN t => t \in IpQueued \cup IpTask
         /\ t.pc # "unused" => t \in NetQueued \cup NetTask \cup IpQueued \cup IpTask
<1>1. CASE t = Unused
  BY <1>1 DEF Unused
<1>2. CASE t \in NetQueued
  BY <1>2 DEF NetQueued
<1>3. CASE t \in NetTask
  BY <1>3 DEF NetTask
<1>4. CASE t \in IpQueued
  BY <1>4 DEF IpQueued
<1>5. CASE t \in IpTask
  BY <1>5 DEF IpTask
<1> QED BY <1>1, <1>2, <1>3, <1>4, <1>5 DEF TaskRecords

-----------------------------------------------------------------------------
(* What the steps of requests do.                                            *)

OthersStay(r) == \A x \in Requests \ {r} : req'[x] = req[x]
Moves(r) == req' \in [Requests -> Calls] /\ OthersStay(r)

LEMMA Becomes ==
  ASSUME req \in [Requests -> Calls], NEW r \in Requests, NEW c \in Calls,
         req' = [req EXCEPT ![r] = c]
  PROVE  Moves(r) /\ req'[r] = c
BY DEF Moves, OthersStay

LEMMA Ends ==
  ASSUME req \in [Requests -> Calls], NEW r \in Requests, Finish(r)
  PROVE  Moves(r) /\ req'[r] = Idle
BY Becomes DEF Finish, Calls

LEMMA FailEnds ==
  ASSUME req \in [Requests -> Calls], NEW r \in Requests, NEW h \in BOOLEAN, Fail(r, h)
  PROVE  /\ Moves(r) /\ req'[r] = Idle
         /\ mishap' = mishap \cup (IF h THEN {"halfway"} ELSE {})
BY Ends DEF Fail

LEMMA ValidateRootEffect ==
  ASSUME TypeInv, NEW r \in Requests, NEW q \in RootRequests, ValidateRoot(r, q)
  PROVE  /\ Moves(r) /\ req[r] = Idle
         /\ q \in RootType /\ q.id \notin used /\ rows[q.id] = None
         /\ ~Overlapping(q.prefixes)
         /\ req'[r] \in RootCall
         /\ req'[r].pc = IF q.vrf = 0 THEN "rootRow" ELSE "rootVrf"
         /\ req'[r].id = q.id /\ req'[r].todo = q.prefixes /\ req'[r].row = RowOf(q)
         /\ UNCHANGED <<rows, ips, prefixes, acquired, vrfs, task, used, released, mishap>>
<1> DEFINE c == [pc |-> IF q.vrf = 0 THEN "rootRow" ELSE "rootVrf", id |-> q.id, todo |-> q.prefixes,
                 row |-> RowOf(q)]
<1>1. q \in RootType /\ RowOf(q) \in RootRows
  BY RequestsAssumption DEF RootType, RootRows, RowOf
<1>2. c \in RootCall
  BY <1>1 DEF RootCall, RootType
<1>3. Moves(r) /\ req'[r] = c
  BY <1>2, Becomes DEF ValidateRoot, TypeInv, Calls
<1> QED BY <1>1, <1>2, <1>3 DEF ValidateRoot, MayBegin, stores

LEMMA RootVrfEffect ==
  ASSUME TypeInv, NEW r \in Requests, RootVrf(r)
  PROVE  /\ Moves(r) /\ req[r] \in RootCall /\ req[r].pc = "rootVrf"
         /\ \/ /\ req[r].row.vrf \in vrfs /\ vrfs' = vrfs \ {req[r].row.vrf}
               /\ req'[r] \in RootCall /\ req'[r].pc = "rootRow"
               /\ req'[r].id = req[r].id /\ req'[r].todo = req[r].todo /\ req'[r].row = req[r].row
            \/ req'[r] = Idle /\ vrfs' = vrfs
         /\ UNCHANGED <<rows, ips, prefixes, acquired, task, used, released, mishap>>
<1>1. req[r] \in RootCall /\ req[r].pc = "rootVrf"
  BY CallShapes DEF RootVrf, TypeInv
<1> DEFINE c == [req[r] EXCEPT !.pc = "rootRow"]
<1>2. c \in RootCall /\ c.pc = "rootRow" /\ c.id = req[r].id /\ c.todo = req[r].todo /\ c.row = req[r].row
  BY <1>1 DEF RootCall
<1>3. c \in Calls
  BY <1>2 DEF Calls
<1>4. CASE req[r].row.vrf \in vrfs
  <2>1. req' = [req EXCEPT ![r] = c]
    BY <1>4 DEF RootVrf, Goto
  <2>2. Moves(r) /\ req'[r] = c
    BY <2>1, <1>3, Becomes DEF TypeInv
  <2> QED BY <1>1, <1>2, <1>4, <2>2 DEF RootVrf
<1>5. CASE req[r].row.vrf \notin vrfs
  BY <1>1, <1>5, Ends DEF RootVrf, TypeInv
<1> QED BY <1>4, <1>5

LEMMA RootRowEffect ==
  ASSUME TypeInv, NEW r \in Requests, RootRow(r)
  PROVE  /\ Moves(r) /\ req[r] \in RootCall /\ req[r].pc = "rootRow"
         /\ \/ /\ rows[req[r].id] = None
               /\ rows' = [rows EXCEPT ![req[r].id] = req[r].row]
               /\ used' = used \cup {req[r].id} /\ mishap' = mishap
               /\ req'[r] \in RootCall /\ req'[r].pc = "rootPrefix"
               /\ req'[r].id = req[r].id /\ req'[r].todo = req[r].todo /\ req'[r].row = req[r].row
            \/ /\ rows[req[r].id] # None
               /\ rows' = rows /\ used' = used /\ req'[r] = Idle
               /\ mishap' = mishap \cup (IF req[r].row.vrf # 0 THEN {"halfway"} ELSE {})
         /\ UNCHANGED <<ips, prefixes, acquired, vrfs, task, released>>
<1>1. req[r] \in RootCall /\ req[r].pc = "rootRow"
  BY CallShapes DEF RootRow, TypeInv
<1> DEFINE c == [req[r] EXCEPT !.pc = "rootPrefix"]
<1>2. c \in RootCall /\ c.pc = "rootPrefix" /\ c.id = req[r].id /\ c.todo = req[r].todo /\ c.row = req[r].row
  BY <1>1 DEF RootCall
<1>3. c \in Calls
  BY <1>2 DEF Calls
<1>4. CASE rows[req[r].id] = None
  <2>1. req' = [req EXCEPT ![r] = c]
    BY <1>4 DEF RootRow, Goto
  <2>2. Moves(r) /\ req'[r] = c
    BY <2>1, <1>3, Becomes DEF TypeInv
  <2> QED BY <1>1, <1>2, <1>4, <2>2 DEF RootRow
<1>5. CASE rows[req[r].id] # None
  <2>1. Fail(r, req[r].row.vrf # 0)
    BY <1>5 DEF RootRow
  <2>2. Moves(r) /\ req'[r] = Idle /\ mishap' = mishap \cup (IF req[r].row.vrf # 0 THEN {"halfway"} ELSE {})
    BY <2>1, FailEnds DEF TypeInv
  <2> QED BY <1>1, <1>5, <2>2 DEF RootRow
<1> QED BY <1>4, <1>5

LEMMA RootPrefixEffect ==
  ASSUME TypeInv, NEW r \in Requests, RootPrefix(r)
  PROVE  /\ Moves(r) /\ req[r] \in RootCall /\ req[r].pc = "rootPrefix"
         /\ \/ \E p \in req[r].todo :
                 /\ CanCreatePrefix(None, p)
                 /\ prefixes' = prefixes \cup {<<None, p>>}
                 /\ mishap' = mishap \cup Reused({<<None, p>>}, req[r].id)
                 /\ \/ req'[r] = Idle /\ req[r].todo = {p}
                    \/ /\ req'[r] \in RootCall /\ req'[r].pc = "rootPrefix"
                       /\ req'[r].id = req[r].id /\ req'[r].row = req[r].row
                       /\ req'[r].todo = req[r].todo \ {p}
            \/ /\ prefixes' = prefixes /\ req'[r] = Idle
               /\ mishap' = mishap \cup {"halfway"}
         /\ UNCHANGED <<rows, ips, acquired, vrfs, task, used, released>>
<1>1. req[r] \in RootCall /\ req[r].pc = "rootPrefix"
  BY CallShapes DEF RootPrefix, TypeInv
<1>2. PICK p \in req[r].todo :
         \/ /\ CanCreatePrefix(None, p)
            /\ prefixes' = prefixes \cup {<<None, p>>}
            /\ req' = [req EXCEPT ![r] = IF req[r].todo = {p} THEN Idle ELSE [req[r] EXCEPT !.todo = @ \ {p}]]
            /\ mishap' = mishap \cup Reused({<<None, p>>}, req[r].id)
         \/ Fail(r, TRUE) /\ prefixes' = prefixes
  BY DEF RootPrefix
<1> DEFINE c == [req[r] EXCEPT !.todo = @ \ {p}]
<1>3. /\ c \in RootCall /\ c.pc = "rootPrefix" /\ c.id = req[r].id /\ c.row = req[r].row
      /\ c.todo = req[r].todo \ {p}
  BY <1>1 DEF RootCall
<1>4. CASE Fail(r, TRUE) /\ prefixes' = prefixes
  <2>1. Moves(r) /\ req'[r] = Idle /\ mishap' = mishap \cup {"halfway"}
    BY <1>4, FailEnds DEF TypeInv
  <2> QED BY <1>1, <1>4, <2>1 DEF RootPrefix
<1>5. CASE req' = [req EXCEPT ![r] = IF req[r].todo = {p} THEN Idle ELSE [req[r] EXCEPT !.todo = @ \ {p}]]
  <2> DEFINE d == IF req[r].todo = {p} THEN Idle ELSE c
  <2>1. d \in Calls
    BY <1>3 DEF Calls
  <2>2. req' = [req EXCEPT ![r] = d]
    BY <1>5
  <2>3. Moves(r) /\ req'[r] = d
    BY <2>1, <2>2, Becomes DEF TypeInv
  <2>4. CASE Fail(r, TRUE) /\ prefixes' = prefixes
    BY <2>4, <1>4
  <2>5. CASE /\ CanCreatePrefix(None, p)
             /\ prefixes' = prefixes \cup {<<None, p>>}
             /\ mishap' = mishap \cup Reused({<<None, p>>}, req[r].id)
    <3>1. \/ req'[r] = Idle /\ req[r].todo = {p}
          \/ /\ req'[r] \in RootCall /\ req'[r].pc = "rootPrefix"
             /\ req'[r].id = req[r].id /\ req'[r].row = req[r].row
             /\ req'[r].todo = req[r].todo \ {p}
      BY <2>3, <1>3
    <3> HIDE DEF c, d
    <3> QED BY <1>1, <2>3, <2>5, <3>1 DEF RootPrefix
  <2> QED BY <1>2, <2>4, <2>5
<1> QED BY <1>2, <1>4, <1>5

LEMMA ValidateChildEffect ==
  ASSUME TypeInv, NEW r \in Requests, NEW q \in ChildRequests, ValidateChild(r, q)
  PROVE  /\ Moves(r) /\ req[r] = Idle
         /\ req'[r] \in ParentCall /\ req'[r].pc = "childParent"
         /\ UNCHANGED <<rows, ips, prefixes, acquired, vrfs, task, used, released, mishap>>
<1> DEFINE c == [pc |-> "childParent", child |-> q]
<1>1. c \in ParentCall /\ c.pc = "childParent"
  BY RequestsAssumption DEF ParentCall
<1>2. c \in Calls
  BY <1>1 DEF Calls
<1>3. Moves(r) /\ req'[r] = c
  BY <1>2, Becomes DEF ValidateChild, TypeInv
<1> QED BY <1>1, <1>3 DEF ValidateChild, MayBegin, stores

LEMMA WantedLengths ==
  ASSUME NEW row \in RowType, NEW q \in ChildRequest
  PROVE  Wanted(row, q) \subseteq Kinds
<1>1. row.lengths \in Lengths /\ q.lengths \in Lengths
  BY DEF RowType, ChildRequest
<1> QED BY <1>1, LengthSets DEF Wanted

\* The parent that the call finds, by its id or by the partition.
LEMMA ChildParentEffect ==
  ASSUME TypeInv, NEW r \in Requests, ChildParent(r)
  PROVE  /\ Moves(r) /\ req[r] \in ParentCall /\ req[r].pc = "childParent"
         /\ \/ req'[r] = Idle /\ mishap' = mishap
            \/ \E i \in RootIds :
                 /\ rows[i] # None /\ rows[i].type \in SuperTypes
                 /\ req'[r] \in ChildCall /\ req'[r].pc = "childPrefix"
                 /\ req'[r].from = rows[i].prefixes
                 /\ req'[r].row.vrf = rows[i].vrf
                 /\ req'[r].row.parent = i
                 /\ req'[r].row.prefixes = {}
                 /\ mishap' = mishap \cup (IF Dying(i) \/ Changing(i) THEN {"midway"} ELSE {})
         /\ UNCHANGED <<rows, ips, prefixes, acquired, vrfs, task, used, released>>
<1>1. req[r] \in ParentCall /\ req[r].pc = "childParent"
  BY CallShapes DEF ChildParent, TypeInv
<1>u. UNCHANGED <<rows, ips, prefixes, acquired, vrfs, task, used, released>>
  BY DEF ChildParent, stores
<1> DEFINE q == req[r].child
           c(i) == [pc |-> "childPrefix", todo |-> Wanted(rows[i], q), from |-> rows[i].prefixes,
                    row |-> [type |-> q.type, project |-> q.project, parent |-> i,
                             ns |-> IF rows[i].type = "superNamespaced" THEN q.project ELSE None,
                             prefixes |-> {}, lengths |-> {}, min |-> {}, vrf |-> rows[i].vrf]]
<1>2. \/ \E i \in Ids :
           /\ Parents(q, Projects \cup {NoProject}) = {i} /\ rows[i].type \in SuperTypes
           /\ req' = [req EXCEPT ![r] = c(i)]
           /\ mishap' = IF Dying(i) \/ Changing(i) THEN mishap \cup {"midway"} ELSE mishap
      \/ Finish(r) /\ mishap' = mishap
  BY DEF ChildParent
<1>3. ASSUME NEW i \in Ids,
             Parents(q, Projects \cup {NoProject}) = {i}, rows[i].type \in SuperTypes,
             req' = [req EXCEPT ![r] = c(i)]
      PROVE  /\ Moves(r) /\ i \in RootIds /\ rows[i] # None
             /\ req'[r] \in ChildCall /\ req'[r].pc = "childPrefix"
             /\ req'[r].from = rows[i].prefixes
             /\ req'[r].row.vrf = rows[i].vrf
             /\ req'[r].row.parent = i
             /\ req'[r].row.prefixes = {}
  <2>1. rows[i] # None
    BY <1>3 DEF Parents, Stored
  <2>2. i \in RootIds
    BY <2>1, <1>3 DEF TypeInv, Ids, ChildRows, ChildTypes, SuperTypes
  <2>3. rows[i] \in RootRows
    BY <2>1, <2>2 DEF TypeInv
  <2>4. q \in ChildRequest
    BY <1>1 DEF ParentCall
  <2>5. Wanted(rows[i], q) \subseteq Kinds
    BY <2>3, <2>4, WantedLengths, RowKinds
  <2>6. q.type \in ChildTypes /\ q.project \in Projects
    BY <2>4 DEF ChildRequest
  <2>7. rows[i].prefixes \subseteq Prefixes /\ rows[i].vrf \in Vrfs \cup {0}
    BY <2>3 DEF RootRows
  <2>8. c(i).row \in ChildRows
    BY <2>2, <2>6, <2>7, LengthSets DEF ChildRows, Namespaces
  <2>9. c(i) \in ChildCall
    BY <2>5, <2>7, <2>8 DEF ChildCall, Births
  <2>10. c(i) \in Calls
    BY <2>9 DEF Calls
  <2>11. Moves(r) /\ req'[r] = c(i)
    BY <2>10, <1>3, Becomes DEF TypeInv
  <2> QED BY <2>1, <2>2, <2>9, <2>11
<1>4. CASE Finish(r) /\ mishap' = mishap
  BY <1>1, <1>u, <1>4, Ends DEF TypeInv
<1>5. ASSUME NEW i \in Ids,
             Parents(q, Projects \cup {NoProject}) = {i}, rows[i].type \in SuperTypes,
             req' = [req EXCEPT ![r] = c(i)],
             mishap' = IF Dying(i) \/ Changing(i) THEN mishap \cup {"midway"} ELSE mishap
      PROVE  /\ Moves(r) /\ i \in RootIds /\ rows[i] # None
             /\ req'[r] \in ChildCall /\ req'[r].pc = "childPrefix"
             /\ req'[r].from = rows[i].prefixes
             /\ req'[r].row.vrf = rows[i].vrf
             /\ req'[r].row.parent = i
             /\ req'[r].row.prefixes = {}
             /\ mishap' = mishap \cup (IF Dying(i) \/ Changing(i) THEN {"midway"} ELSE {})
  <2>1. mishap' = mishap \cup (IF Dying(i) \/ Changing(i) THEN {"midway"} ELSE {})
    BY <1>5
  <2> QED BY <1>3, <1>5, <2>1
<1> HIDE DEF c, q
<1> QED BY <1>1, <1>u, <1>2, <1>4, <1>5

\* The namespace gets to know some of the parent's prefixes; a child prefix is apart from what is known.
LEMMA ChildPrefixEffect ==
  ASSUME TypeInv, NEW r \in Requests, ChildPrefix(r)
  PROVE  /\ Moves(r) /\ req[r] \in ChildCall /\ req[r].pc = "childPrefix"
         /\ \E made \in SUBSET MissingIn(req[r].row.ns, req[r].from) :
            \/ \E c \in Prefixes, d \in req[r].from :
                 /\ c \in Sub[d] /\ <<req[r].row.ns, d>> \in InNamespace(req[r].row.ns, made)
                 /\ \A x \in Sub[d] : <<req[r].row.ns, x>> \in InNamespace(req[r].row.ns, made) => ~Overlap(c, x)
                 /\ prefixes' = InNamespace(req[r].row.ns, made) \cup {<<req[r].row.ns, c>>}
                 /\ req'[r] \in ChildCall
                 /\ req'[r].pc \in {"childPrefix"} \cup (IF req[r].row.vrf # 0 THEN {"childRow"} ELSE {"childVrf"})
                 /\ req'[r].from = req[r].from
                 /\ req'[r].row.vrf = req[r].row.vrf /\ req'[r].row.ns = req[r].row.ns
                 /\ req'[r].row.parent = req[r].row.parent /\ req'[r].row.type = req[r].row.type
                 /\ req'[r].row.prefixes = req[r].row.prefixes \cup {c}
                 /\ mishap' = mishap \cup Reused(prefixes' \ prefixes, None)
            \/ /\ prefixes' = InNamespace(req[r].row.ns, made)
               /\ req'[r] = Idle
               /\ mishap' = mishap \cup Reused(prefixes' \ prefixes, None)
                                   \cup (IF req[r].row.prefixes # {} THEN {"halfway"} ELSE {})
         /\ UNCHANGED <<rows, ips, acquired, vrfs, task, used, released>>
<1>1. req[r] \in ChildCall /\ req[r].pc = "childPrefix"
  BY CallShapes DEF ChildPrefix, TypeInv
<1>u. UNCHANGED <<rows, ips, acquired, vrfs, task, used, released>>
  BY DEF ChildPrefix
<1> DEFINE row == req[r].row
           ns == req[r].row.ns
           from == req[r].from
           missing(k) == MissingIn(ns, OfFamily(from, k[1]))
           known(k) == InNamespace(ns, missing(k))
           free(k) == FreeChildren(ns, from, known(k), k)
           fails(made) == /\ prefixes' = InNamespace(ns, made)
                          /\ Finish(r)
                          /\ mishap' = mishap \cup Reused(prefixes' \ prefixes, None)
                                             \cup (IF row.prefixes # {} THEN {"halfway"} ELSE {})
           new(k, c) == [req[r] EXCEPT
                            !.todo = @ \ {k},
                            !.row = [row EXCEPT !.prefixes = @ \cup {c}],
                            !.pc = IF req[r].todo # {k} THEN "childPrefix"
                                   ELSE IF row.vrf # 0 THEN "childRow" ELSE "childVrf"]
           gets(k, c) == /\ prefixes' = known(k) \cup {<<ns, c>>}
                         /\ req' = [req EXCEPT ![r] = new(k, c)]
                         /\ mishap' = mishap \cup Reused(prefixes' \ prefixes, None)
<1>2. PICK k \in req[r].todo :
         \/ \E made \in SUBSET {p \in missing(k) : CanCreatePrefix(ns, p)} : fails(made)
         \/ fails(missing(k))
         \/ \E c \in free(k) : gets(k, c)
  BY DEF ChildPrefix
<1>m. missing(k) \subseteq MissingIn(ns, from)
  BY DEF MissingIn, OfFamily
<1>3. ASSUME NEW made \in SUBSET MissingIn(ns, from), fails(made)
      PROVE  /\ Moves(r)
             /\ prefixes' = InNamespace(ns, made)
             /\ req'[r] = Idle
             /\ mishap' = mishap \cup Reused(prefixes' \ prefixes, None)
                                 \cup (IF row.prefixes # {} THEN {"halfway"} ELSE {})
  <2>1. Finish(r)
    BY <1>3
  <2>2. Moves(r) /\ req'[r] = Idle
    BY <2>1, Ends DEF TypeInv
  <2> QED BY <1>3, <2>2
<1>4. ASSUME NEW c \in free(k), gets(k, c)
      PROVE  /\ Moves(r) /\ c \in Prefixes
             /\ \E d \in from :
                  /\ c \in Sub[d] /\ <<ns, d>> \in known(k)
                  /\ \A x \in Sub[d] : <<ns, x>> \in known(k) => ~Overlap(c, x)
             /\ prefixes' = known(k) \cup {<<ns, c>>}
             /\ req'[r] \in ChildCall
             /\ req'[r].pc \in {"childPrefix"} \cup (IF row.vrf # 0 THEN {"childRow"} ELSE {"childVrf"})
             /\ req'[r].from = req[r].from
             /\ req'[r].row.vrf = row.vrf /\ req'[r].row.ns = row.ns
             /\ req'[r].row.parent = row.parent /\ req'[r].row.type = row.type
             /\ req'[r].row.prefixes = row.prefixes \cup {c}
             /\ mishap' = mishap \cup Reused(prefixes' \ prefixes, None)
  <2>1. /\ c \in Prefixes
        /\ \E d \in from : /\ c \in Sub[d] /\ <<ns, d>> \in known(k)
                           /\ \A x \in Sub[d] : <<ns, x>> \in known(k) => ~Overlap(c, x)
    <3> HIDE DEF known
    <3> QED BY <1>4 DEF FreeChildren, OfFamily
  <2>2. /\ new(k, c) \in ChildCall
        /\ new(k, c).pc \in {"childPrefix"} \cup (IF row.vrf # 0 THEN {"childRow"} ELSE {"childVrf"})
        /\ new(k, c).from = req[r].from
        /\ new(k, c).row.vrf = row.vrf /\ new(k, c).row.ns = row.ns
        /\ new(k, c).row.parent = row.parent /\ new(k, c).row.type = row.type
        /\ new(k, c).row.prefixes = row.prefixes \cup {c}
    BY <1>1, <2>1 DEF ChildCall, ChildRows, Births
  <2>3. req' = [req EXCEPT ![r] = new(k, c)]
    BY <1>4
  <2>4. new(k, c) \in Calls
    BY <2>2 DEF Calls
  <2>5. Moves(r) /\ req'[r] = new(k, c)
    <3> HIDE DEF new
    <3> QED BY <2>3, <2>4, Becomes DEF TypeInv
  <2>6. prefixes' = known(k) \cup {<<ns, c>>} /\ mishap' = mishap \cup Reused(prefixes' \ prefixes, None)
    BY <1>4
  <2> HIDE DEF new, free, known
  <2> QED BY <2>1, <2>2, <2>5, <2>6
<1>5. CASE \E made \in SUBSET {p \in missing(k) : CanCreatePrefix(ns, p)} : fails(made)
  <2> HIDE DEF fails, missing
  <2> QED BY <1>1, <1>u, <1>m, <1>3, <1>5
<1>6. CASE fails(missing(k))
  <2> HIDE DEF fails, missing
  <2> QED BY <1>1, <1>u, <1>m, <1>3, <1>6
<1>7. CASE \E c \in free(k) : gets(k, c)
  <2> HIDE DEF gets, free, missing
  <2> QED BY <1>1, <1>u, <1>m, <1>4, <1>7
<1> QED BY <1>2, <1>5, <1>6, <1>7

LEMMA ChildVrfEffect ==
  ASSUME TypeInv, NEW r \in Requests, ChildVrf(r)
  PROVE  /\ Moves(r) /\ req[r] \in ChildCall /\ req[r].pc = "childVrf"
         /\ \/ \E v \in vrfs :
                 /\ vrfs' = vrfs \ {v} /\ mishap' = mishap
                 /\ req'[r] \in ChildCall /\ req'[r].pc = "childRow"
                 /\ req'[r].row.vrf = v /\ req'[r].row.ns = req[r].row.ns
                 /\ req'[r].row.parent = req[r].row.parent /\ req'[r].row.type = req[r].row.type
                 /\ req'[r].row.prefixes = req[r].row.prefixes
            \/ vrfs' = vrfs /\ req'[r] = Idle /\ mishap' = mishap \cup {"halfway"}
         /\ UNCHANGED <<rows, ips, prefixes, acquired, task, used, released>>
<1>1. req[r] \in ChildCall /\ req[r].pc = "childVrf"
  BY CallShapes DEF ChildVrf, TypeInv
<1> DEFINE new(v) == [req[r] EXCEPT !.row = [req[r].row EXCEPT !.vrf = v], !.pc = "childRow"]
<1>2. ASSUME NEW v \in vrfs, vrfs' = vrfs \ {v}, req' = [req EXCEPT ![r] = new(v)], mishap' = mishap
      PROVE  /\ Moves(r) /\ req'[r] \in ChildCall /\ req'[r].pc = "childRow"
             /\ req'[r].row.vrf = v /\ req'[r].row.ns = req[r].row.ns
             /\ req'[r].row.parent = req[r].row.parent /\ req'[r].row.type = req[r].row.type
             /\ req'[r].row.prefixes = req[r].row.prefixes
  <2>1. /\ new(v) \in ChildCall /\ new(v).pc = "childRow"
        /\ new(v).row.vrf = v /\ new(v).row.ns = req[r].row.ns
        /\ new(v).row.parent = req[r].row.parent /\ new(v).row.type = req[r].row.type
        /\ new(v).row.prefixes = req[r].row.prefixes
    BY <1>1 DEF ChildCall, ChildRows, Births, TypeInv, TypeOK
  <2>2. Moves(r) /\ req'[r] = new(v)
    BY <1>2, <2>1, Becomes DEF TypeInv, Calls
  <2> HIDE DEF new
  <2> QED BY <2>1, <2>2
<1>3. CASE \E v \in vrfs : vrfs' = vrfs \ {v} /\ req' = [req EXCEPT ![r] = new(v)] /\ mishap' = mishap
  <2> HIDE DEF new
  <2> QED BY <1>1, <1>2, <1>3 DEF ChildVrf
<1>4. CASE Fail(r, TRUE) /\ vrfs' = vrfs
  <2>1. Moves(r) /\ req'[r] = Idle /\ mishap' = mishap \cup {"halfway"}
    BY <1>4, FailEnds DEF TypeInv
  <2> QED BY <1>1, <1>4, <2>1 DEF ChildVrf
<1> QED BY <1>3, <1>4 DEF ChildVrf

LEMMA ChildRowEffect ==
  ASSUME TypeInv, NEW r \in Requests, ChildRow(r)
  PROVE  /\ Moves(r) /\ req[r] \in ChildCall /\ req[r].pc = "childRow" /\ req'[r] = Idle
         /\ \E i \in ChildIds \ used :
              rows' = [rows EXCEPT ![i] = req[r].row] /\ used' = used \cup {i}
         /\ UNCHANGED <<ips, prefixes, acquired, vrfs, task, released, mishap>>
BY CallShapes, Ends DEF ChildRow, TypeInv

LEMMA ValidateUpdateEffect ==
  ASSUME TypeInv, NEW r \in Requests, NEW q \in UpdateRequests, ValidateUpdate(r, q)
  PROVE  /\ Moves(r) /\ req[r] = Idle
         /\ q.id \in RootIds /\ rows[q.id] # None
         /\ req'[r] \in UpdateCall /\ req'[r].pc = "updateRemove"
         /\ req'[r].id = q.id /\ req'[r].row = rows[q.id] /\ req'[r].prefixes = q.prefixes
         /\ req'[r].todo = rows[q.id].prefixes \ q.prefixes
         /\ mishap' = mishap \cup (IF Dying(q.id) \/ Changing(q.id) \/ Parenting(q.id) THEN {"midway"} ELSE {})
         /\ UNCHANGED <<rows, ips, prefixes, acquired, vrfs, task, used, released>>
<1> DEFINE c == [pc |-> "updateRemove", id |-> q.id, row |-> rows[q.id], prefixes |-> q.prefixes,
                 todo |-> rows[q.id].prefixes \ q.prefixes]
<1>1. q.id \in Ids /\ q.prefixes \subseteq Prefixes /\ rows[q.id] # None /\ rows[q.id].parent = None
  BY RequestsAssumption DEF ValidateUpdate
<1>2. q.id \in RootIds
  BY <1>1, NamesAssumption DEF TypeInv, ChildRows, Ids
<1>3. rows[q.id] \in RootRows
  BY <1>1, <1>2 DEF TypeInv
<1>4. c \in UpdateCall
  BY <1>1, <1>2, <1>3 DEF UpdateCall, RootRows
<1>5. req' = [req EXCEPT ![r] = c]
  BY DEF ValidateUpdate
<1>6. Moves(r) /\ req'[r] = c
  BY <1>4, <1>5, Becomes DEF TypeInv, Calls
<1>7. req[r] = Idle /\ UNCHANGED <<rows, ips, prefixes, acquired, vrfs, task, used, released>>
  BY DEF ValidateUpdate, MayBegin, stores
<1>8. mishap' = mishap \cup (IF Dying(q.id) \/ Changing(q.id) \/ Parenting(q.id) THEN {"midway"} ELSE {})
  BY DEF ValidateUpdate
<1> QED BY <1>1, <1>2, <1>4, <1>6, <1>7, <1>8

(* An update goes on with the network, the copy and the prefixes it has.     *)
SameUpdate(c, d) == d \in UpdateCall /\ d.id = c.id /\ d.row = c.row /\ d.prefixes = c.prefixes

LEMMA UpdateRemoveEffect ==
  ASSUME TypeInv, NEW r \in Requests, UpdateRemove(r)
  PROVE  /\ Moves(r) /\ req[r] \in UpdateCall /\ req[r].pc = "updateRemove"
         /\ \/ /\ req[r].todo = {} /\ SameUpdate(req[r], req'[r]) /\ req'[r].pc = "updateAdd"
               /\ req'[r].todo = req[r].prefixes \ req[r].row.prefixes
               /\ prefixes' = prefixes /\ mishap' = mishap
            \/ \E p \in req[r].todo :
                 /\ <<None, p>> \in prefixes /\ ~HasAddresses(None, p)
                 /\ prefixes' = prefixes \ {<<None, p>>}
                 /\ mishap' = mishap \cup Orphaned(req[r].id, p)
                 /\ SameUpdate(req[r], req'[r]) /\ req'[r].pc = "updateRemove"
                 /\ req'[r].todo = req[r].todo \ {p}
            \/ /\ req'[r] = Idle /\ prefixes' = prefixes
               /\ mishap' = mishap \cup (IF req[r].todo # req[r].row.prefixes \ req[r].prefixes
                                         THEN {"halfway"} ELSE {})
         /\ UNCHANGED <<rows, ips, acquired, vrfs, task, used, released>>
<1>1. req[r] \in UpdateCall /\ req[r].pc = "updateRemove"
  BY CallShapes DEF UpdateRemove, TypeInv
<1>2. UNCHANGED <<rows, ips, acquired, vrfs, task, used, released>>
  BY DEF UpdateRemove
<1> DEFINE c == [req[r] EXCEPT !.pc = "updateAdd", !.todo = req[r].prefixes \ req[r].row.prefixes]
           new(p) == [req[r] EXCEPT !.todo = @ \ {p}]
<1>3. CASE req[r].todo = {} /\ req' = [req EXCEPT ![r] = c] /\ prefixes' = prefixes /\ mishap' = mishap
  <2>1. SameUpdate(req[r], c) /\ c.pc = "updateAdd" /\ c.todo = req[r].prefixes \ req[r].row.prefixes
    BY <1>1 DEF UpdateCall, SameUpdate
  <2>2. Moves(r) /\ req'[r] = c
    BY <1>3, <2>1, Becomes DEF TypeInv, Calls, SameUpdate
  <2> HIDE DEF c
  <2> QED BY <1>1, <1>2, <1>3, <2>1, <2>2
<1>4. ASSUME NEW p \in req[r].todo, <<None, p>> \in prefixes, ~HasAddresses(None, p),
             prefixes' = prefixes \ {<<None, p>>}, req' = [req EXCEPT ![r] = new(p)],
             mishap' = mishap \cup Orphaned(req[r].id, p)
      PROVE  Moves(r) /\ SameUpdate(req[r], req'[r]) /\ req'[r].pc = "updateRemove" /\ req'[r].todo = req[r].todo \ {p}
  <2>1. SameUpdate(req[r], new(p)) /\ new(p).pc = "updateRemove" /\ new(p).todo = req[r].todo \ {p}
    BY <1>1 DEF UpdateCall, SameUpdate
  <2>2. Moves(r) /\ req'[r] = new(p)
    BY <1>4, <2>1, Becomes DEF TypeInv, Calls, SameUpdate
  <2> HIDE DEF new
  <2> QED BY <2>1, <2>2
<1>5. CASE \E p \in req[r].todo :
             /\ <<None, p>> \in prefixes /\ ~HasAddresses(None, p)
             /\ prefixes' = prefixes \ {<<None, p>>} /\ req' = [req EXCEPT ![r] = new(p)]
             /\ mishap' = mishap \cup Orphaned(req[r].id, p)
  <2> HIDE DEF new
  <2> QED BY <1>1, <1>2, <1>4, <1>5
<1>6. CASE Fail(r, req[r].todo # req[r].row.prefixes \ req[r].prefixes) /\ prefixes' = prefixes
  <2>1. /\ Moves(r) /\ req'[r] = Idle
        /\ mishap' = mishap \cup (IF req[r].todo # req[r].row.prefixes \ req[r].prefixes THEN {"halfway"} ELSE {})
    BY <1>6, FailEnds DEF TypeInv
  <2> QED BY <1>1, <1>2, <1>6, <2>1
<1> QED BY <1>3, <1>5, <1>6 DEF UpdateRemove

LEMMA UpdateAddEffect ==
  ASSUME TypeInv, NEW r \in Requests, UpdateAdd(r)
  PROVE  /\ Moves(r) /\ req[r] \in UpdateCall /\ req[r].pc = "updateAdd"
         /\ \/ /\ req[r].todo = {} /\ SameUpdate(req[r], req'[r]) /\ req'[r].pc = "updateRow"
               /\ prefixes' = prefixes /\ mishap' = mishap
            \/ \E p \in req[r].todo :
                 /\ CanCreatePrefix(None, p)
                 /\ prefixes' = prefixes \cup {<<None, p>>}
                 /\ mishap' = mishap \cup Reused({<<None, p>>}, None)
                 /\ SameUpdate(req[r], req'[r]) /\ req'[r].pc = "updateAdd"
                 /\ req'[r].todo = req[r].todo \ {p}
            \/ /\ req'[r] = Idle /\ prefixes' = prefixes
               /\ mishap' = mishap \cup (IF req[r].prefixes # req[r].row.prefixes THEN {"halfway"} ELSE {})
         /\ UNCHANGED <<rows, ips, acquired, vrfs, task, used, released>>
<1>1. req[r] \in UpdateCall /\ req[r].pc = "updateAdd"
  BY CallShapes DEF UpdateAdd, TypeInv
<1>2. UNCHANGED <<rows, ips, acquired, vrfs, task, used, released>>
  BY DEF UpdateAdd
<1> DEFINE c == [req[r] EXCEPT !.pc = "updateRow"]
           new(p) == [req[r] EXCEPT !.todo = @ \ {p}]
<1>3. CASE req[r].todo = {} /\ req' = [req EXCEPT ![r] = c] /\ prefixes' = prefixes /\ mishap' = mishap
  <2>1. SameUpdate(req[r], c) /\ c.pc = "updateRow"
    BY <1>1 DEF UpdateCall, SameUpdate
  <2>2. Moves(r) /\ req'[r] = c
    BY <1>3, <2>1, Becomes DEF TypeInv, Calls, SameUpdate
  <2> HIDE DEF c
  <2> QED BY <1>1, <1>2, <1>3, <2>1, <2>2
<1>4. ASSUME NEW p \in req[r].todo, req' = [req EXCEPT ![r] = new(p)]
      PROVE  Moves(r) /\ SameUpdate(req[r], req'[r]) /\ req'[r].pc = "updateAdd" /\ req'[r].todo = req[r].todo \ {p}
  <2>1. SameUpdate(req[r], new(p)) /\ new(p).pc = "updateAdd" /\ new(p).todo = req[r].todo \ {p}
    BY <1>1 DEF UpdateCall, SameUpdate
  <2>2. Moves(r) /\ req'[r] = new(p)
    BY <1>4, <2>1, Becomes DEF TypeInv, Calls, SameUpdate
  <2> HIDE DEF new
  <2> QED BY <2>1, <2>2
<1>5. CASE \E p \in req[r].todo :
             /\ CanCreatePrefix(None, p)
             /\ prefixes' = prefixes \cup {<<None, p>>} /\ req' = [req EXCEPT ![r] = new(p)]
             /\ mishap' = mishap \cup Reused({<<None, p>>}, None)
  <2> HIDE DEF new
  <2> QED BY <1>1, <1>2, <1>4, <1>5
<1>6. CASE Fail(r, req[r].prefixes # req[r].row.prefixes) /\ prefixes' = prefixes
  <2>1. /\ Moves(r) /\ req'[r] = Idle
        /\ mishap' = mishap \cup (IF req[r].prefixes # req[r].row.prefixes THEN {"halfway"} ELSE {})
    BY <1>6, FailEnds DEF TypeInv
  <2> QED BY <1>1, <1>2, <1>6, <2>1
<1> QED BY <1>3, <1>5, <1>6 DEF UpdateAdd, Goto

LEMMA UpdateRowEffect ==
  ASSUME TypeInv, NEW r \in Requests, UpdateRow(r)
  PROVE  /\ Moves(r) /\ req[r] \in UpdateCall /\ req[r].pc = "updateRow" /\ req'[r] = Idle
         /\ \/ /\ rows[req[r].id] = req[r].row /\ mishap' = mishap
               /\ rows' = [rows EXCEPT ![req[r].id] = [req[r].row EXCEPT !.prefixes = req[r].prefixes]]
            \/ /\ rows' = rows
               /\ mishap' = mishap \cup (IF req[r].prefixes # req[r].row.prefixes THEN {"halfway"} ELSE {})
         /\ UNCHANGED <<ips, prefixes, acquired, vrfs, task, used, released>>
<1>1. req[r] \in UpdateCall /\ req[r].pc = "updateRow"
  BY CallShapes DEF UpdateRow, TypeInv
<1>2. CASE /\ rows[req[r].id] = req[r].row
           /\ rows' = [rows EXCEPT ![req[r].id].prefixes = req[r].prefixes]
           /\ Finish(r) /\ mishap' = mishap
  <2>1. Moves(r) /\ req'[r] = Idle
    BY <1>2, Ends DEF TypeInv
  <2>2. rows' = [rows EXCEPT ![req[r].id] = [req[r].row EXCEPT !.prefixes = req[r].prefixes]]
    BY <1>2
  <2> QED BY <1>1, <1>2, <2>1, <2>2 DEF UpdateRow
<1>3. CASE Fail(r, req[r].prefixes # req[r].row.prefixes) /\ rows' = rows
  <2>1. /\ Moves(r) /\ req'[r] = Idle
        /\ mishap' = mishap \cup (IF req[r].prefixes # req[r].row.prefixes THEN {"halfway"} ELSE {})
    BY <1>3, FailEnds DEF TypeInv
  <2> QED BY <1>1, <1>3, <2>1 DEF UpdateRow
<1> QED BY <1>2, <1>3 DEF UpdateRow

LEMMA ValidateIpEffect ==
  ASSUME TypeInv, NEW r \in Requests, NEW q \in IpRequests, ValidateIp(r, q)
  PROVE  /\ Moves(r) /\ req[r] = Idle
         /\ q \in IpRequest /\ rows[q.network] # None
         /\ req'[r] \in IpCall /\ req'[r].pc = "ipAcquire" /\ req'[r].ip = q /\ req'[r].nw = rows[q.network]
         /\ UNCHANGED <<rows, ips, prefixes, acquired, vrfs, task, used, released, mishap>>
<1> DEFINE c == [pc |-> "ipAcquire", ip |-> q, nw |-> rows[q.network]]
<1>1. q \in IpRequest /\ rows[q.network] # None
  BY RequestsAssumption DEF IpRequest, ValidateIp, IpAllowed
<1>2. c \in IpCall
  BY <1>1 DEF IpCall, TypeInv, TypeOK, IpRequest
<1>3. req' = [req EXCEPT ![r] = c]
  BY DEF ValidateIp
<1>4. Moves(r) /\ req'[r] = c
  BY <1>2, <1>3, Becomes DEF TypeInv, Calls
<1> QED BY <1>1, <1>2, <1>4 DEF ValidateIp, MayBegin, stores

LEMMA IpAcquireEffect ==
  ASSUME TypeInv, NEW r \in Requests, IpAcquire(r)
  PROVE  /\ Moves(r) /\ req[r] \in IpCall /\ req[r].pc = "ipAcquire"
         /\ \/ \E p \in req[r].nw.prefixes, a \in Addresses :
                 /\ <<req[r].nw.ns, p>> \in prefixes /\ <<req[r].nw.ns, p, a>> \notin acquired
                 /\ acquired' = acquired \cup {<<req[r].nw.ns, p, a>>}
                 /\ req'[r] \in IpRowCall /\ req'[r].pc = "ipRow"
                 /\ req'[r].ns = req[r].nw.ns /\ req'[r].network = req[r].ip.network
                 /\ req'[r].prefix = p /\ req'[r].address = a
            \/ req'[r] = Idle /\ acquired' = acquired
         /\ UNCHANGED <<rows, ips, prefixes, vrfs, task, used, released, mishap>>
<1>1. req[r] \in IpCall /\ req[r].pc = "ipAcquire"
  BY CallShapes DEF IpAcquire, TypeInv
<1>2. UNCHANGED <<rows, ips, prefixes, vrfs, task, used, released, mishap>>
  BY DEF IpAcquire
<1> DEFINE q == req[r].ip
           nw == req[r].nw
           c(x) == [pc |-> "ipRow", ns |-> nw.ns, network |-> q.network, project |-> q.project,
                    attached |-> q.attached, prefix |-> x[1], address |-> x[2]]
<1>3. CASE Finish(r) /\ acquired' = acquired
  BY <1>1, <1>2, <1>3, Ends DEF TypeInv
<1>4. ASSUME NEW x \in nw.prefixes \X Addresses, <<nw.ns, x[1]>> \in prefixes, <<nw.ns, x[1], x[2]>> \notin acquired,
             acquired' = acquired \cup {<<nw.ns, x[1], x[2]>>}, req' = [req EXCEPT ![r] = c(x)]
      PROVE  /\ x[1] \in nw.prefixes /\ x[2] \in Addresses /\ Moves(r)
             /\ req'[r] \in IpRowCall /\ req'[r].pc = "ipRow"
             /\ req'[r].ns = req[r].nw.ns /\ req'[r].network = req[r].ip.network
             /\ req'[r].prefix = x[1] /\ req'[r].address = x[2]
  <2>1. x[1] \in nw.prefixes /\ x[2] \in Addresses
    OBVIOUS
  <2>2. c(x) \in IpRowCall
    BY <1>1, <2>1 DEF IpCall, IpRowCall, IpRequest, RowType
  <2>3. /\ c(x).pc = "ipRow" /\ c(x).ns = nw.ns /\ c(x).network = q.network
        /\ c(x).prefix = x[1] /\ c(x).address = x[2]
    OBVIOUS
  <2>4. c(x) \in Calls /\ req' = [req EXCEPT ![r] = c(x)] /\ req \in [Requests -> Calls]
    BY <1>4, <2>2 DEF TypeInv, Calls
  <2> HIDE DEF c
  <2>5. Moves(r) /\ req'[r] = c(x)
    BY <2>4, Becomes
  <2> QED BY <2>1, <2>2, <2>3, <2>5
<1>5. CASE \E x \in nw.prefixes \X Addresses :
             /\ <<nw.ns, x[1]>> \in prefixes /\ <<nw.ns, x[1], x[2]>> \notin acquired
             /\ acquired' = acquired \cup {<<nw.ns, x[1], x[2]>>} /\ req' = [req EXCEPT ![r] = c(x)]
  <2> HIDE DEF c
  <2> QED BY <1>1, <1>2, <1>4, <1>5
<1> QED BY <1>3, <1>5 DEF IpAcquire

LEMMA IpRowEffect ==
  ASSUME TypeInv, NEW r \in Requests, IpRow(r)
  PROVE  /\ Moves(r) /\ req[r] \in IpRowCall /\ req[r].pc = "ipRow" /\ req'[r] = Idle
         /\ \/ \E u \in Uuids \ used, ip \in IpType :
                 /\ ips[<<req[r].ns, req[r].address>>] = None
                 /\ ips' = [ips EXCEPT ![<<req[r].ns, req[r].address>>] = ip]
                 /\ ip.uuid = u /\ ip.network = req[r].network /\ ip.prefix = req[r].prefix
                 /\ used' = used \cup {u} /\ mishap' = mishap
            \/ /\ ips[<<req[r].ns, req[r].address>>] # None
               /\ ips' = ips /\ used' = used /\ mishap' = mishap \cup {"halfway"}
         /\ UNCHANGED <<rows, prefixes, acquired, vrfs, task, released>>
<1>1. req[r] \in IpRowCall /\ req[r].pc = "ipRow"
  BY CallShapes DEF IpRow, TypeInv
<1> DEFINE key == <<req[r].ns, req[r].address>>
           ip(u) == [uuid |-> u, network |-> req[r].network, project |-> req[r].project,
                     prefix |-> req[r].prefix, attached |-> req[r].attached]
<1>2. CASE /\ ips[key] = None /\ Finish(r) /\ mishap' = mishap
           /\ \E u \in Uuids \ used : ips' = [ips EXCEPT ![key] = ip(u)] /\ used' = used \cup {u}
  <2>1. PICK u \in Uuids \ used : ips' = [ips EXCEPT ![key] = ip(u)] /\ used' = used \cup {u}
    BY <1>2
  <2>2. ip(u) \in IpType /\ ip(u).uuid = u /\ ip(u).network = req[r].network /\ ip(u).prefix = req[r].prefix
    BY <1>1 DEF IpRowCall, IpType
  <2>3. Moves(r) /\ req'[r] = Idle
    BY <1>2, Ends DEF TypeInv
  <2> HIDE DEF ip
  <2> QED BY <1>1, <1>2, <2>1, <2>2, <2>3 DEF IpRow
<1>3. CASE ips[key] # None /\ Fail(r, TRUE) /\ ips' = ips /\ used' = used
  <2>1. Moves(r) /\ req'[r] = Idle /\ mishap' = mishap \cup {"halfway"}
    BY <1>3, FailEnds DEF TypeInv
  <2> QED BY <1>1, <1>3, <2>1 DEF IpRow
<1> QED BY <1>2, <1>3 DEF IpRow

-----------------------------------------------------------------------------
(* What the steps of tasks do.                                               *)

Runs(t) == task' \in [Tasks -> TaskRecords] /\ \A x \in Tasks \ {t} : task'[x] = task[x]

LEMMA TaskBecomes ==
  ASSUME task \in [Tasks -> TaskRecords], NEW t \in Tasks, NEW c \in TaskRecords,
         task' = [task EXCEPT ![t] = c]
  PROVE  Runs(t) /\ task'[t] = c
BY DEF Runs

(* The task is queued or archived, and forgets nothing it knew.              *)
Again(c, d) ==
    /\ d.pc \in {"queued", "archived"} /\ d.tries = c.tries + 1
    /\ c \in NetTask => d \in NetTask /\ d.network = c.network /\ d.row = c.row
    /\ c \in IpTask => d \in IpTask /\ d.uuid = c.uuid /\ d.key = c.key /\ d.prefix = c.prefix /\ d.ns = c.ns
    /\ c \in IpQueued => d \in IpQueued /\ d.uuid = c.uuid

LEMMA RetryEffect ==
  ASSUME task \in [Tasks -> TaskRecords], NEW t \in Tasks,
         task[t] \in NetTask \cup IpTask \cup IpQueued, Retry(t)
  PROVE  Runs(t) /\ Again(task[t], task'[t])
<1> DEFINE pc == IF Archived(t) THEN "archived" ELSE "queued"
           tries == task[t].tries + 1
           c == [task[t] EXCEPT !.pc = pc, !.tries = tries]
<1>1. task' = [task EXCEPT ![t] = c]
  BY DEF Retry
<1>5. pc \in {"queued", "archived"}
  OBVIOUS
<1>6. task[t].tries \in Nat
  BY DEF NetTask, IpTask, IpQueued
<1>7. tries \in Nat /\ tries = task[t].tries + 1
  BY <1>6
<1> HIDE DEF pc, tries
<1>2. CASE task[t] \in NetTask
  <2>1. c \in NetTask /\ c.network = task[t].network /\ c.row = task[t].row
    BY <1>2, <1>5, <1>7 DEF NetTask
  <2>2. c.pc \in {"queued", "archived"} /\ c.tries = task[t].tries + 1
    BY <1>2, <1>5, <1>7 DEF NetTask
  <2>3. task[t] \notin IpTask /\ task[t] \notin IpQueued
    BY <1>2 DEF NetTask, IpTask, IpQueued
  <2>4. Again(task[t], c) /\ c \in TaskRecords
    BY <2>1, <2>2, <2>3 DEF Again, TaskRecords
  <2> HIDE DEF c
  <2> QED BY <1>1, <2>4, TaskBecomes
<1>3. CASE task[t] \in IpTask
  <2>1. c \in IpTask /\ c.uuid = task[t].uuid /\ c.key = task[t].key /\ c.prefix = task[t].prefix /\ c.ns = task[t].ns
    BY <1>3, <1>5, <1>7 DEF IpTask
  <2>2. c.pc \in {"queued", "archived"} /\ c.tries = task[t].tries + 1
    BY <1>3, <1>5, <1>7 DEF IpTask
  <2>3. task[t] \notin NetTask /\ task[t] \notin IpQueued
    BY <1>3 DEF NetTask, IpTask, IpQueued
  <2>4. Again(task[t], c) /\ c \in TaskRecords
    BY <2>1, <2>2, <2>3 DEF Again, TaskRecords
  <2> HIDE DEF c
  <2> QED BY <1>1, <2>4, TaskBecomes
<1>4. CASE task[t] \in IpQueued
  <2>1. c \in IpQueued /\ c.uuid = task[t].uuid
    BY <1>4, <1>5, <1>7 DEF IpQueued
  <2>2. c.pc \in {"queued", "archived"} /\ c.tries = task[t].tries + 1
    BY <1>4, <1>5, <1>7 DEF IpQueued
  <2>3. task[t] \notin NetTask /\ task[t] \notin IpTask
    BY <1>4 DEF NetTask, IpTask, IpQueued
  <2>4. Again(task[t], c) /\ c \in TaskRecords
    BY <2>1, <2>2, <2>3 DEF Again, TaskRecords
  <2> HIDE DEF c
  <2> QED BY <1>1, <2>4, TaskBecomes
<1> QED BY <1>2, <1>3, <1>4

(* Nothing of e was released before the attempt the task is at.              *)
FreshFor(t, e) == \A x \in released : x[1] = e => x = <<e, t, task[t].tries>>

LEMMA ReleasingEffect ==
  ASSUME NEW t, NEW e, NEW wrong, Releasing(t, e, wrong)
  PROVE  /\ mishap' = mishap \cup wrong \cup (IF FreshFor(t, e) THEN {} ELSE {"again"})
         /\ released \subseteq released' /\ released' \subseteq released \cup {<<e, t, task[t].tries>>}
         /\ \E x \in released' : x[1] = e
         /\ FreshFor(t, e) => <<e, t, task[t].tries>> \in released'
<1> DEFINE x == <<e, t, task[t].tries>>
           before == {y \in released : y[1] = e}
<1>1. x[1] = e
  OBVIOUS
<1>2. FreshFor(t, e) <=> before \subseteq {x}
  BY DEF FreshFor
<1>3. before = {} => released' = released \cup {x}
  BY DEF Releasing
<1>4. before # {} => released' = released
  BY DEF Releasing
<1>5. mishap' = mishap \cup wrong \cup (IF before \subseteq {x} THEN {} ELSE {"again"})
  BY DEF Releasing
<1> HIDE DEF x
<1>6. before \subseteq released
  OBVIOUS
<1>7. released \subseteq released' /\ released' \subseteq released \cup {x}
  BY <1>3, <1>4
<1>8. \E y \in released' : y[1] = e
  BY <1>1, <1>3, <1>4
<1>9. FreshFor(t, e) => x \in released'
  BY <1>2, <1>3, <1>4, <1>6
<1> QED BY <1>2, <1>5, <1>7, <1>8, <1>9 DEF x

LEMMA DeleteNetworkEffect ==
  ASSUME TypeInv, NEW t \in Tasks, NEW i \in Ids, DeleteNetwork(t, i)
  PROVE  /\ Runs(t) /\ task[t] = Unused
         /\ rows[i] # None /\ PrefixesEmpty(rows[i].prefixes)
         /\ task'[t] \in NetQueued /\ task'[t].pc = "queued" /\ task'[t].tries = 0 /\ task'[t].network = i
         /\ UNCHANGED <<rows, ips, prefixes, acquired, vrfs, req, used, released, mishap>>
<1> DEFINE c == [pc |-> "queued", tries |-> 0, network |-> i]
<1>1. c \in NetQueued /\ c \in TaskRecords
  BY DEF NetQueued, TaskRecords
<1>2. task[t] = Unused /\ task' = [task EXCEPT ![t] = c]
  BY TaskShapes DEF DeleteNetwork, Enqueue, TypeInv
<1>3. Runs(t) /\ task'[t] = c
  BY <1>1, <1>2, TaskBecomes DEF TypeInv
<1> QED BY <1>1, <1>2, <1>3 DEF DeleteNetwork, stores

LEMMA DeleteIpEffect ==
  ASSUME TypeInv, NEW t \in Tasks, NEW k \in IpKeys, DeleteIp(t, k)
  PROVE  /\ Runs(t) /\ task[t] = Unused /\ ips[k] # None
         /\ task'[t] \in IpQueued /\ task'[t].pc = "queued" /\ task'[t].tries = 0 /\ task'[t].uuid = ips[k].uuid
         /\ UNCHANGED <<rows, ips, prefixes, acquired, vrfs, req, used, released, mishap>>
<1> DEFINE c == [pc |-> "queued", tries |-> 0, uuid |-> ips[k].uuid]
<1>0. ips[k] # None /\ ips[k].uuid \in Uuids
  BY DEF DeleteIp, TypeInv, TypeOK, IpType
<1>1. c \in IpQueued /\ c \in TaskRecords
  BY <1>0 DEF IpQueued, TaskRecords
<1>2. task[t] = Unused /\ task' = [task EXCEPT ![t] = c]
  BY TaskShapes DEF DeleteIp, Enqueue, TypeInv
<1>3. Runs(t) /\ task'[t] = c
  BY <1>1, <1>2, TaskBecomes DEF TypeInv
<1> QED BY <1>0, <1>1, <1>2, <1>3 DEF DeleteIp, stores

(* The task goes on, with what it read.                                      *)
SameNet(c, d) == d \in NetTask /\ d.tries = c.tries /\ d.network = c.network /\ d.row = c.row
SameIp(c, d) == d \in IpTask /\ d.tries = c.tries /\ d.uuid = c.uuid /\ d.key = c.key /\ d.prefix = c.prefix /\ d.ns = c.ns
Done(c, d) ==
    /\ d.pc = "done" /\ d.tries = c.tries
    /\ c \in NetQueued \cup NetTask => d \in NetQueued \cup NetTask /\ d.network = c.network
    /\ c \in IpQueued => d \in IpQueued /\ d.uuid = c.uuid
    /\ c \in IpTask => SameIp(c, d)

LEMMA StepEffect ==
  ASSUME task \in [Tasks -> TaskRecords], NEW t \in Tasks, NEW pc, Step(t, pc)
  PROVE  /\ task[t] \in NetTask /\ pc \in {"prefix", "vrf", "row", "done"}
              => Runs(t) /\ SameNet(task[t], task'[t]) /\ task'[t].pc = pc
         /\ task[t] \in IpTask /\ pc \in {"address", "ip", "done"}
              => Runs(t) /\ SameIp(task[t], task'[t]) /\ task'[t].pc = pc
         /\ task[t] \in NetQueued \cup NetTask \cup IpQueued \cup IpTask /\ pc = "done"
              => Runs(t) /\ Done(task[t], task'[t])
<1> DEFINE c == [task[t] EXCEPT !.pc = pc]
<1>1. task' = [task EXCEPT ![t] = c]
  BY DEF Step
<1>2. ASSUME task[t] \in NetTask, pc \in {"prefix", "vrf", "row", "done"}
      PROVE  Runs(t) /\ SameNet(task[t], task'[t]) /\ task'[t].pc = pc
  <2>1. SameNet(task[t], c) /\ c.pc = pc
    BY <1>2 DEF NetTask, SameNet
  <2>2. c \in TaskRecords
    BY <2>1 DEF SameNet, TaskRecords
  <2> HIDE DEF c
  <2> QED BY <1>1, <2>1, <2>2, TaskBecomes
<1>3. ASSUME task[t] \in IpTask, pc \in {"address", "ip", "done"}
      PROVE  Runs(t) /\ SameIp(task[t], task'[t]) /\ task'[t].pc = pc
  <2>1. SameIp(task[t], c) /\ c.pc = pc
    BY <1>3 DEF IpTask, SameIp
  <2>2. c \in TaskRecords
    BY <2>1 DEF SameIp, TaskRecords
  <2> HIDE DEF c
  <2> QED BY <1>1, <2>1, <2>2, TaskBecomes
<1>4. ASSUME task[t] \in NetQueued, pc = "done"
      PROVE  Runs(t) /\ Done(task[t], task'[t])
  <2>1. c \in NetQueued /\ c.pc = pc /\ c.tries = task[t].tries /\ c.network = task[t].network
    BY <1>4 DEF NetQueued
  <2>2. task[t] \notin IpQueued \cup IpTask
    BY <1>4 DEF NetQueued, IpQueued, IpTask
  <2>3. c \in TaskRecords /\ Done(task[t], c)
    BY <1>4, <2>1, <2>2 DEF TaskRecords, Done
  <2> HIDE DEF c
  <2> QED BY <1>1, <2>3, TaskBecomes
<1>5. ASSUME task[t] \in IpQueued, pc = "done"
      PROVE  Runs(t) /\ Done(task[t], task'[t])
  <2>1. c \in IpQueued /\ c.pc = pc /\ c.tries = task[t].tries /\ c.uuid = task[t].uuid
    BY <1>5 DEF IpQueued
  <2>2. task[t] \notin NetQueued \cup NetTask \cup IpTask
    BY <1>5 DEF NetQueued, IpQueued, NetTask, IpTask
  <2>3. c \in TaskRecords /\ Done(task[t], c)
    BY <1>5, <2>1, <2>2 DEF TaskRecords, Done
  <2> HIDE DEF c
  <2> QED BY <1>1, <2>3, TaskBecomes
<1>6. NetTask \cap (IpQueued \cup IpTask) = {} /\ IpTask \cap (NetQueued \cup NetTask) = {}
  BY DEF NetTask, NetQueued, IpTask, IpQueued
<1> QED BY <1>2, <1>3, <1>4, <1>5, <1>6 DEF Done, SameNet, SameIp

LEMMA ReadNetworkEffect ==
  ASSUME TypeInv, NEW t \in Tasks, ReadNetwork(t)
  PROVE  /\ Runs(t) /\ task[t] \in NetQueued \cup NetTask /\ task[t].pc = "queued"
         /\ \/ Done(task[t], task'[t])
            \/ /\ rows[task[t].network] # None
               /\ task'[t] \in NetTask /\ task'[t].pc = "prefix"
               /\ task'[t].tries = task[t].tries /\ task'[t].network = task[t].network
               /\ task'[t].row = rows[task[t].network] /\ task'[t].todo = rows[task[t].network].prefixes
         /\ mishap' = mishap \cup (IF Changing(task[t].network) THEN {"midway"} ELSE {})
         /\ UNCHANGED <<rows, ips, prefixes, acquired, vrfs, req, used, released>>
<1> DEFINE i == task[t].network
           c == [pc |-> "prefix", tries |-> task[t].tries, network |-> i, row |-> rows[i], todo |-> rows[i].prefixes]
<1>1. task[t] \in NetQueued \cup NetTask /\ task[t].pc = "queued" /\ i \in Ids /\ task[t].tries \in Nat
  BY TaskShapes DEF ReadNetwork, IsNetworkTask, TypeInv, NetQueued, NetTask
<1>2. /\ mishap' = mishap \cup (IF Changing(i) THEN {"midway"} ELSE {})
      /\ UNCHANGED <<rows, ips, prefixes, acquired, vrfs, req, used, released>>
  BY DEF ReadNetwork, stores
<1>3. CASE Step(t, "done")
  BY <1>1, <1>2, <1>3, StepEffect DEF TypeInv
<1>4. CASE rows[i] # None /\ task' = [task EXCEPT ![t] = c]
  <2>1. rows[i] \in RowType
    BY <1>1, <1>4 DEF TypeInv, TypeOK
  <2>2. c \in NetTask /\ c.pc = "prefix" /\ c.tries = task[t].tries /\ c.network = i /\ c.row = rows[i] /\ c.todo = rows[i].prefixes
    BY <1>1, <2>1 DEF NetTask, RowType
  <2>3. c \in TaskRecords
    BY <2>2 DEF TaskRecords
  <2> HIDE DEF c
  <2>4. Runs(t) /\ task'[t] = c
    BY <1>4, <2>3, TaskBecomes DEF TypeInv
  <2> QED BY <1>1, <1>2, <1>4, <2>2, <2>4
<1> QED BY <1>3, <1>4 DEF ReadNetwork

LEMMA ReleasePrefixEffect ==
  ASSUME TypeInv, NEW t \in Tasks, ReleasePrefix(t)
  PROVE  /\ Runs(t) /\ task[t] \in NetTask /\ task[t].pc = "prefix"
         /\ \/ /\ task[t].todo = {} /\ SameNet(task[t], task'[t])
               /\ task'[t].pc = IF task[t].row.vrf > 0 THEN "vrf" ELSE "row"
               /\ UNCHANGED <<prefixes, released, mishap>>
            \/ Again(task[t], task'[t]) /\ UNCHANGED <<prefixes, released, mishap>>
            \/ \E p \in task[t].todo :
                 /\ ~HasAddresses(task[t].row.ns, p)
                 /\ prefixes' = prefixes \ {<<task[t].row.ns, p>>}
                 /\ SameNet(task[t], task'[t]) /\ task'[t].pc = "prefix" /\ task'[t].todo = task[t].todo \ {p}
                 /\ Releasing(t, task[t].network, {})
         /\ UNCHANGED <<rows, ips, acquired, vrfs, req, used>>
<1>1. task[t] \in NetTask /\ task[t].pc = "prefix"
  BY TaskShapes DEF ReleasePrefix, TypeInv
<1>2. UNCHANGED <<rows, ips, acquired, vrfs, req, used>>
  BY DEF ReleasePrefix
<1> DEFINE new(p) == [task[t] EXCEPT !.todo = @ \ {p}]
<1>3. CASE task[t].todo = {} /\ Step(t, IF task[t].row.vrf > 0 THEN "vrf" ELSE "row") /\ UNCHANGED <<prefixes, released, mishap>>
  BY <1>1, <1>2, <1>3, StepEffect DEF TypeInv
<1>4. CASE Retry(t) /\ UNCHANGED <<prefixes, released, mishap>>
  BY <1>1, <1>2, <1>4, RetryEffect DEF TypeInv
<1>5. ASSUME NEW p \in task[t].todo, task' = [task EXCEPT ![t] = new(p)]
      PROVE  Runs(t) /\ SameNet(task[t], task'[t]) /\ task'[t].pc = "prefix" /\ task'[t].todo = task[t].todo \ {p}
  <2>1. SameNet(task[t], new(p)) /\ new(p).pc = "prefix" /\ new(p).todo = task[t].todo \ {p}
    BY <1>1 DEF NetTask, SameNet
  <2>2. new(p) \in TaskRecords
    BY <2>1 DEF SameNet, TaskRecords
  <2> HIDE DEF new
  <2> QED BY <1>5, <2>1, <2>2, TaskBecomes DEF TypeInv
<1>6. CASE \E p \in task[t].todo :
             /\ ~HasAddresses(task[t].row.ns, p) /\ prefixes' = prefixes \ {<<task[t].row.ns, p>>}
             /\ task' = [task EXCEPT ![t] = new(p)] /\ Releasing(t, task[t].network, {})
  <2> HIDE DEF new
  <2> QED BY <1>1, <1>2, <1>5, <1>6
<1> QED BY <1>3, <1>4, <1>6 DEF ReleasePrefix

(* Others that live with the vrf a task gives back.                          *)
Kin(i, v) == {j \in Stored \ {i} : rows[j].vrf = v}
             \cup {r \in Requests : req[r].pc \in {"childPrefix", "childRow"} /\ req[r].row.vrf = v}

LEMMA ReleaseVrfEffect ==
  ASSUME TypeInv, NEW t \in Tasks, ReleaseVrf(t)
  PROVE  /\ Runs(t) /\ task[t] \in NetTask /\ task[t].pc = "vrf" /\ task[t].row.vrf \in Vrfs
         /\ SameNet(task[t], task'[t]) /\ task'[t].pc = "row"
         /\ vrfs' = vrfs \cup {task[t].row.vrf}
         /\ Releasing(t, task[t].network, IF Kin(task[t].network, task[t].row.vrf) # {} THEN {"shared"} ELSE {})
         /\ UNCHANGED <<rows, ips, prefixes, acquired, req, used>>
<1>1. task[t] \in NetTask /\ task[t].pc = "vrf" /\ task[t].row.vrf \in Vrfs
  BY TaskShapes DEF ReleaseVrf, TypeInv
<1>2. Runs(t) /\ SameNet(task[t], task'[t]) /\ task'[t].pc = "row"
  BY <1>1, StepEffect DEF ReleaseVrf, TypeInv
<1> QED BY <1>1, <1>2 DEF ReleaseVrf, Kin

LEMMA DeleteRowEffect ==
  ASSUME TypeInv, NEW t \in Tasks, DeleteRow(t)
  PROVE  /\ Runs(t) /\ task[t] \in NetTask /\ task[t].pc = "row"
         /\ SameNet(task[t], task'[t]) /\ task'[t].pc = "done"
         /\ rows' = [rows EXCEPT ![task[t].network] = None]
         /\ Releasing(t, task[t].network, {})
         /\ UNCHANGED <<ips, prefixes, acquired, vrfs, req, used>>
<1>1. task[t] \in NetTask /\ task[t].pc = "row"
  BY TaskShapes DEF DeleteRow, TypeInv
<1>2. Runs(t) /\ SameNet(task[t], task'[t]) /\ task'[t].pc = "done"
  BY <1>1, StepEffect DEF DeleteRow, TypeInv
<1> QED BY <1>1, <1>2 DEF DeleteRow

LEMMA ReadIpEffect ==
  ASSUME TypeInv, NEW t \in Tasks, ReadIp(t)
  PROVE  /\ Runs(t) /\ task[t] \in IpQueued \cup IpTask /\ task[t].pc = "queued"
         /\ \/ Done(task[t], task'[t])
            \/ Again(task[t], task'[t])
            \/ \E k \in IpKeys :
                 /\ ips[k] # None /\ ips[k].uuid = task[t].uuid /\ rows[ips[k].network] # None
                 /\ task'[t] \in IpTask /\ task'[t].pc = "address" /\ task'[t].tries = task[t].tries
                 /\ task'[t].uuid = task[t].uuid /\ task'[t].key = k /\ task'[t].prefix = ips[k].prefix
                 /\ task'[t].ns = rows[ips[k].network].ns
         /\ UNCHANGED <<rows, ips, prefixes, acquired, vrfs, req, used, released, mishap>>
<1> DEFINE c(k) == [pc |-> "address", tries |-> task[t].tries, uuid |-> task[t].uuid,
                    key |-> k, prefix |-> ips[k].prefix, ns |-> rows[ips[k].network].ns]
<1>1. task[t] \in IpQueued \cup IpTask /\ task[t].pc = "queued" /\ task[t].tries \in Nat /\ task[t].uuid \in Uuids
  <2>1. task[t] \in TaskRecords /\ task[t].pc = "queued" /\ ~IsNetworkTask(t)
    BY DEF ReadIp, TypeInv
  <2>2. task[t] \in IpQueued \cup IpTask
    BY <2>1, TaskShapes DEF IsNetworkTask
  <2> QED BY <2>1, <2>2 DEF IpQueued, IpTask
<1>2. UNCHANGED <<rows, ips, prefixes, acquired, vrfs, req, used, released, mishap>>
  BY DEF ReadIp, stores
<1>3. CASE Step(t, "done")
  BY <1>1, <1>2, <1>3, StepEffect DEF TypeInv
<1>4. CASE Retry(t)
  BY <1>1, <1>2, <1>4, RetryEffect DEF TypeInv
<1>5. ASSUME NEW k \in IpKeys, ips[k] # None, ips[k].uuid = task[t].uuid, rows[ips[k].network] # None,
             task' = [task EXCEPT ![t] = c(k)]
      PROVE  /\ Runs(t)
             /\ task'[t] \in IpTask /\ task'[t].pc = "address" /\ task'[t].tries = task[t].tries
             /\ task'[t].uuid = task[t].uuid /\ task'[t].key = k /\ task'[t].prefix = ips[k].prefix
             /\ task'[t].ns = rows[ips[k].network].ns
  <2>1. ips[k] \in IpType /\ rows[ips[k].network] \in RowType
    BY <1>5 DEF TypeInv, TypeOK, IpType
  <2>2. /\ c(k) \in IpTask /\ c(k).pc = "address" /\ c(k).tries = task[t].tries
        /\ c(k).uuid = task[t].uuid /\ c(k).key = k /\ c(k).prefix = ips[k].prefix
        /\ c(k).ns = rows[ips[k].network].ns
    BY <1>1, <2>1 DEF IpTask, IpType, RowType
  <2>3. c(k) \in TaskRecords
    BY <2>2 DEF TaskRecords
  <2> HIDE DEF c
  <2>4. Runs(t) /\ task'[t] = c(k)
    BY <1>5, <2>3, TaskBecomes DEF TypeInv
  <2> QED BY <2>2, <2>4
<1>6. CASE \E k \in IpKeys : /\ ips[k] # None /\ ips[k].uuid = task[t].uuid /\ rows[ips[k].network] # None
                             /\ task' = [task EXCEPT ![t] = c(k)]
  <2> HIDE DEF c
  <2> QED BY <1>1, <1>2, <1>5, <1>6
<1>7. \/ Step(t, "done") \/ Retry(t)
      \/ \E k \in IpKeys : /\ ips[k] # None /\ ips[k].uuid = task[t].uuid /\ rows[ips[k].network] # None
                           /\ task' = [task EXCEPT ![t] = c(k)]
  BY DEF ReadIp
<1> QED BY <1>3, <1>4, <1>6, <1>7

LEMMA ReleaseIPEffect ==
  ASSUME TypeInv, NEW t \in Tasks, ReleaseIP(t)
  PROVE  /\ Runs(t) /\ task[t] \in IpTask /\ task[t].pc = "address"
         /\ SameIp(task[t], task'[t]) /\ task'[t].pc = "ip"
         /\ acquired' = acquired \ (IF task[t].ns = None THEN {<<None, task[t].prefix, task[t].key[2]>>} ELSE {})
         /\ Releasing(t, task[t].uuid, {})
         /\ UNCHANGED <<rows, ips, prefixes, vrfs, req, used>>
<1>1. task[t] \in IpTask /\ task[t].pc = "address"
  BY TaskShapes DEF ReleaseIP, TypeInv
<1>2. Runs(t) /\ SameIp(task[t], task'[t]) /\ task'[t].pc = "ip"
  BY <1>1, StepEffect DEF ReleaseIP, TypeInv
<1> QED BY <1>1, <1>2 DEF ReleaseIP

LEMMA DeleteIpRowEffect ==
  ASSUME TypeInv, NEW t \in Tasks, DeleteIpRow(t)
  PROVE  /\ Runs(t) /\ task[t] \in IpTask /\ task[t].pc = "ip"
         /\ SameIp(task[t], task'[t]) /\ task'[t].pc = "done"
         /\ ips' = [ips EXCEPT ![task[t].key] = None]
         /\ Releasing(t, task[t].uuid, {})
         /\ UNCHANGED <<rows, prefixes, acquired, vrfs, req, used>>
<1>1. task[t] \in IpTask /\ task[t].pc = "ip"
  BY TaskShapes DEF DeleteIpRow, TypeInv
<1>2. Runs(t) /\ SameIp(task[t], task'[t]) /\ task'[t].pc = "done"
  BY <1>1, StepEffect DEF DeleteIpRow, TypeInv
<1> QED BY <1>1, <1>2 DEF DeleteIpRow

LEMMA TaskDiesEffect ==
  ASSUME TypeInv, NEW t \in Tasks, TaskDies(t)
  PROVE  /\ Runs(t) /\ task[t] \in NetTask \cup IpTask /\ task[t].pc \in {"prefix", "vrf", "row", "address", "ip"}
         /\ Again(task[t], task'[t])
         /\ UNCHANGED <<rows, ips, prefixes, acquired, vrfs, req, used, released, mishap>>
<1>1. task[t] \in NetTask \cup IpTask /\ task[t].pc \in {"prefix", "vrf", "row", "address", "ip"}
  BY TaskShapes DEF TaskDies, TypeInv
<1> QED BY <1>1, RetryEffect DEF TaskDies, TypeInv, stores

-----------------------------------------------------------------------------
(* Types.                                                                    *)

RowTypes ==
    /\ rows \in [Ids -> RowType \cup {None}]
    /\ \A i \in RootIds : rows[i] \in RootRows \cup {None}
    /\ \A i \in ChildIds : rows[i] \in ChildRows \cup {None}
IpamTypes == prefixes \subseteq Namespaces \X Prefixes /\ acquired \subseteq Namespaces \X Prefixes \X Addresses
TaskTypes ==
    /\ task \in [Tasks -> TaskRecords]
    /\ released \subseteq (Ids \cup Uuids) \X Tasks \X Nat
    /\ \A t \in Tasks : task[t] \in NetTask /\ task[t].pc = "vrf" => task[t].row.vrf \in Vrfs
Rest == vrfs \subseteq Vrfs /\ used \subseteq Ids \cup Uuids \cup Tasks /\ mishap \subseteq Mishaps

LEMMA TypeParts ==
  TypeInv <=> /\ RowTypes /\ ips \in [IpKeys -> IpType \cup {None}] /\ IpamTypes /\ Rest
              /\ req \in [Requests -> Calls] /\ TaskTypes
BY DEF TypeInv, TypeOK, RowTypes, IpamTypes, TaskTypes, Rest

LEMMA ReusedWord == ASSUME NEW new, NEW own PROVE Reused(new, own) \subseteq {"reused"}
BY DEF Reused

LEMMA OrphanedWord == ASSUME NEW i, NEW p PROVE Orphaned(i, p) \subseteq {"orphaned"}
BY DEF Orphaned

LEMMA KnownTypes ==
  ASSUME TypeInv, NEW ns \in Namespaces, NEW made \in SUBSET Prefixes
  PROVE  InNamespace(ns, made) \subseteq Namespaces \X Prefixes
BY DEF InNamespace, TypeInv, TypeOK

LEMMA TypeInit == Init => TypeInv
<1> SUFFICES ASSUME Init PROVE TypeInv
  OBVIOUS
<1>1. PICK s \in Scenarios :
      /\ rows = [i \in Ids |-> IF \E q \in s.there : q.id = i THEN RowOf(CHOOSE q \in s.there : q.id = i) ELSE None]
      /\ prefixes = s.known \cup ({None} \X UNION {q.prefixes : q \in s.there})
      /\ vrfs = Vrfs \ {q.vrf : q \in s.there}
      /\ used = {q.id : q \in s.there} \cup s.gone
  BY DEF Init
<1>2. s.there \subseteq RootType /\ s.gone \subseteq Ids \cup Uuids \cup Tasks /\ s.known \subseteq Projects \X Prefixes
  BY ScenarioAssumption
<1>3. \A i \in Ids : rows[i] = None \/ \E q \in s.there : q.id = i /\ rows[i] = RowOf(q)
  BY <1>1
<1>4. \A q \in s.there : RowOf(q) \in RootRows /\ q.id \in RootIds
  BY <1>2 DEF RootType, RootRows, RowOf
<1>5. RowTypes
  <2>1. \A i \in Ids : rows[i] = None \/ (i \in RootIds /\ rows[i] \in RootRows)
    BY <1>3, <1>4
  <2>2. RootIds \subseteq Ids /\ ChildIds \subseteq Ids /\ RootIds \cap ChildIds = {} /\ DOMAIN rows = Ids
    BY <1>1, NamesAssumption DEF Ids
  <2>3. rows = [i \in Ids |-> rows[i]]
    BY <1>1
  <2>4. \A i \in Ids : rows[i] \in RowType \cup {None}
    BY <2>1, RowKinds
  <2> QED BY <2>1, <2>2, <2>3, <2>4 DEF RowTypes
<1>6. prefixes \subseteq Namespaces \X Prefixes
  <2>1. UNION {q.prefixes : q \in s.there} \subseteq Prefixes
    BY <1>2 DEF RootType
  <2>2. None \in Namespaces /\ Projects \subseteq Namespaces
    BY DEF Namespaces
  <2> QED BY <1>1, <1>2, <2>1, <2>2
<1>7. Rest
  BY <1>1, <1>2, <1>4 DEF Rest, Init, Ids
<1>8. TaskTypes
  BY DEF TaskTypes, TaskRecords, Unused, NetTask, Init
<1> QED BY <1>5, <1>6, <1>7, <1>8, TypeParts DEF IpamTypes, Calls, Init

(* Types after a step, put together again.                                   *)
LEMMA TypePartsNext ==
  /\ RowTypes' /\ ips' \in [IpKeys -> IpType \cup {None}] /\ IpamTypes' /\ Rest'
  /\ req' \in [Requests -> Calls] /\ TaskTypes'
  => TypeInv'
BY DEF TypeInv, TypeOK, RowTypes, IpamTypes, TaskTypes, Rest

LEMMA RequestTypes ==
  ASSUME TypeInv, NEW r \in Requests, Request(r)
  PROVE  TypeInv'
<1>0. /\ RowTypes /\ ips \in [IpKeys -> IpType \cup {None}] /\ IpamTypes /\ Rest
      /\ req \in [Requests -> Calls] /\ TaskTypes
  BY TypeParts
<1>a. rows' = rows => RowTypes'
  BY <1>0 DEF RowTypes
<1>b. prefixes' = prefixes /\ acquired' = acquired => IpamTypes'
  BY <1>0 DEF IpamTypes
<1>c. task' = task /\ released' = released => TaskTypes'
  BY <1>0 DEF TaskTypes
<1>d. Moves(r) => req' \in [Requests -> Calls]
  BY DEF Moves
<1>e. ASSUME NEW i \in RootIds, NEW row \in RootRows \cup {None}, rows' = [rows EXCEPT ![i] = row]
      PROVE  RowTypes'
  BY <1>0, <1>e, RowKinds, NamesAssumption DEF RowTypes, Ids
<1>f. None \in Namespaces
  BY DEF Namespaces
<1>1. ASSUME NEW q \in RootRequests, ValidateRoot(r, q) PROVE TypeInv'
  BY <1>0, <1>a, <1>b, <1>c, <1>d, <1>1, ValidateRootEffect, TypePartsNext DEF Rest
<1>2. ASSUME RootVrf(r) PROVE TypeInv'
  <2>1. Rest'
    BY <1>0, <1>2, RootVrfEffect DEF Rest
  <2> QED BY <1>0, <1>a, <1>b, <1>c, <1>d, <1>2, <2>1, RootVrfEffect, TypePartsNext
<1>3. ASSUME RootRow(r) PROVE TypeInv'
  <2>0. req[r].id \in Ids
    BY <1>3, RootRowEffect DEF RootCall, Ids
  <2>4. mishap' \subseteq mishap \cup {"halfway"} /\ used' \subseteq used \cup {req[r].id} /\ vrfs' = vrfs
    BY <1>3, RootRowEffect
  <2>1. Rest'
    BY <1>0, <2>0, <2>4 DEF Rest, Mishaps
  <2>2. RowTypes'
    BY <1>3, <1>a, <1>e, RootRowEffect DEF RootCall
  <2> QED BY <1>0, <1>b, <1>c, <1>d, <1>3, <2>1, <2>2, RootRowEffect, TypePartsNext
<1>4. ASSUME RootPrefix(r) PROVE TypeInv'
  <2>1. Rest'
    BY <1>0, <1>4, RootPrefixEffect, ReusedWord DEF Rest, Mishaps
  <2>2. IpamTypes'
    <3>1. req[r].todo \subseteq Prefixes
      BY <1>4, RootPrefixEffect DEF RootCall
    <3>2. prefixes' = prefixes \/ \E p \in Prefixes : prefixes' = prefixes \cup {<<None, p>>}
      BY <1>4, <3>1, RootPrefixEffect
    <3>3. acquired' = acquired
      BY <1>4, RootPrefixEffect
    <3> QED BY <1>0, <1>f, <3>2, <3>3 DEF IpamTypes
  <2> QED BY <1>0, <1>a, <1>c, <1>d, <1>4, <2>1, <2>2, RootPrefixEffect, TypePartsNext
<1>5. ASSUME NEW q \in ChildRequests, ValidateChild(r, q) PROVE TypeInv'
  BY <1>0, <1>a, <1>b, <1>c, <1>d, <1>5, ValidateChildEffect, TypePartsNext DEF Rest
<1>6. ASSUME ChildParent(r) PROVE TypeInv'
  <2>1. Rest'
    BY <1>0, <1>6, ChildParentEffect DEF Rest, Mishaps
  <2> QED BY <1>0, <1>a, <1>b, <1>c, <1>d, <1>6, <2>1, ChildParentEffect, TypePartsNext
<1>7. ASSUME ChildPrefix(r) PROVE TypeInv'
  <2>1. Rest'
    BY <1>0, <1>7, ChildPrefixEffect, ReusedWord DEF Rest, Mishaps
  <2>2. req[r] \in ChildCall /\ req[r].row.ns \in Namespaces /\ req[r].from \in SUBSET Prefixes
    BY <1>7, ChildPrefixEffect DEF ChildCall, ChildRows
  <2>3. \A made \in SUBSET Prefixes : InNamespace(req[r].row.ns, made) \subseteq Namespaces \X Prefixes
    BY <2>2, KnownTypes
  <2>6. MissingIn(req[r].row.ns, req[r].from) \subseteq Prefixes
    BY <2>2 DEF MissingIn
  <2>4. \E made \in SUBSET Prefixes :
          \/ prefixes' = InNamespace(req[r].row.ns, made)
          \/ \E c \in Prefixes : prefixes' = InNamespace(req[r].row.ns, made) \cup {<<req[r].row.ns, c>>}
    BY <1>7, <2>6, ChildPrefixEffect
  <2>5. IpamTypes'
    BY <1>0, <1>7, <2>2, <2>3, <2>4, ChildPrefixEffect DEF IpamTypes
  <2> QED BY <1>0, <1>a, <1>c, <1>d, <1>7, <2>1, <2>5, ChildPrefixEffect, TypePartsNext
<1>8. ASSUME ChildVrf(r) PROVE TypeInv'
  <2>1. Rest'
    BY <1>0, <1>8, ChildVrfEffect DEF Rest, Mishaps
  <2> QED BY <1>0, <1>a, <1>b, <1>c, <1>d, <1>8, <2>1, ChildVrfEffect, TypePartsNext
<1>9. ASSUME ChildRow(r) PROVE TypeInv'
  <2>1. PICK i \in ChildIds \ used : rows' = [rows EXCEPT ![i] = req[r].row] /\ used' = used \cup {i}
    BY <1>9, ChildRowEffect
  <2>2. Rest'
    BY <1>0, <1>9, <2>1, ChildRowEffect DEF Rest, Ids
  <2>3. req[r].row \in ChildRows
    BY <1>9, ChildRowEffect DEF ChildCall
  <2>4. RowTypes'
    BY <1>0, <2>1, <2>3, RowKinds, NamesAssumption DEF RowTypes, Ids
  <2> QED BY <1>0, <1>b, <1>c, <1>d, <1>9, <2>2, <2>4, ChildRowEffect, TypePartsNext
<1>10. ASSUME NEW q \in UpdateRequests, ValidateUpdate(r, q) PROVE TypeInv'
  <2>1. Rest'
    BY <1>0, <1>10, ValidateUpdateEffect DEF Rest, Mishaps
  <2> QED BY <1>0, <1>a, <1>b, <1>c, <1>d, <1>10, <2>1, ValidateUpdateEffect, TypePartsNext
<1>11. ASSUME UpdateRemove(r) PROVE TypeInv'
  <2>0. mishap' \subseteq mishap \cup {"halfway", "orphaned"} /\ vrfs' = vrfs /\ used' = used
    BY <1>11, UpdateRemoveEffect, OrphanedWord
  <2>1. Rest'
    BY <1>0, <2>0 DEF Rest, Mishaps
  <2>2. IpamTypes'
    BY <1>0, <1>11, UpdateRemoveEffect DEF IpamTypes
  <2> QED BY <1>0, <1>a, <1>c, <1>d, <1>11, <2>1, <2>2, UpdateRemoveEffect, TypePartsNext
<1>12. ASSUME UpdateAdd(r) PROVE TypeInv'
  <2>1. Rest'
    BY <1>0, <1>12, UpdateAddEffect, ReusedWord DEF Rest, Mishaps
  <2>2. IpamTypes'
    <3>1. req[r].todo \subseteq Prefixes
      BY <1>12, UpdateAddEffect DEF UpdateCall
    <3>2. prefixes' = prefixes \/ \E p \in Prefixes : prefixes' = prefixes \cup {<<None, p>>}
      BY <1>12, <3>1, UpdateAddEffect
    <3>3. acquired' = acquired
      BY <1>12, UpdateAddEffect
    <3> QED BY <1>0, <1>f, <3>2, <3>3 DEF IpamTypes
  <2> QED BY <1>0, <1>a, <1>c, <1>d, <1>12, <2>1, <2>2, UpdateAddEffect, TypePartsNext
<1>13. ASSUME UpdateRow(r) PROVE TypeInv'
  <2>1. Rest'
    BY <1>0, <1>13, UpdateRowEffect DEF Rest, Mishaps
  <2>2. req[r].id \in RootIds /\ [req[r].row EXCEPT !.prefixes = req[r].prefixes] \in RootRows
    BY <1>13, UpdateRowEffect DEF UpdateCall, RootRows
  <2>3. RowTypes'
    BY <1>13, <1>a, <1>e, <2>2, UpdateRowEffect
  <2> QED BY <1>0, <1>b, <1>c, <1>d, <1>13, <2>1, <2>3, UpdateRowEffect, TypePartsNext
<1>14. ASSUME NEW q \in IpRequests, ValidateIp(r, q) PROVE TypeInv'
  BY <1>0, <1>a, <1>b, <1>c, <1>d, <1>14, ValidateIpEffect, TypePartsNext DEF Rest
<1>15. ASSUME IpAcquire(r) PROVE TypeInv'
  <2>1. Rest'
    BY <1>0, <1>15, IpAcquireEffect DEF Rest
  <2>2. req[r].nw.ns \in Namespaces /\ req[r].nw.prefixes \subseteq Prefixes
    BY <1>15, IpAcquireEffect DEF IpCall, RowType
  <2>3. \A p \in req[r].nw.prefixes, a \in Addresses :
           <<req[r].nw.ns, p, a>> \in Namespaces \X Prefixes \X Addresses
    BY <2>2
  <2>5. /\ prefixes' = prefixes
        /\ \/ acquired' = acquired
           \/ \E p \in req[r].nw.prefixes, a \in Addresses : acquired' = acquired \cup {<<req[r].nw.ns, p, a>>}
    BY <1>15, IpAcquireEffect
  <2>4. IpamTypes'
    <3>1. acquired' \subseteq Namespaces \X Prefixes \X Addresses
      BY <1>0, <2>3, <2>5 DEF IpamTypes
    <3>2. prefixes' \subseteq Namespaces \X Prefixes
      BY <1>0, <2>5 DEF IpamTypes
    <3> QED BY <3>1, <3>2 DEF IpamTypes
  <2> QED BY <1>0, <1>a, <1>c, <1>d, <1>15, <2>1, <2>4, IpAcquireEffect, TypePartsNext
<1>16. ASSUME IpRow(r) PROVE TypeInv'
  <2>1. Rest'
    BY <1>0, <1>16, IpRowEffect DEF Rest, Mishaps
  <2>2. ips' \in [IpKeys -> IpType \cup {None}]
    BY <1>0, <1>16, IpRowEffect
  <2> QED BY <1>a, <1>b, <1>c, <1>d, <1>16, <2>1, <2>2, IpRowEffect, TypePartsNext
<1> QED BY <1>1, <1>2, <1>3, <1>4, <1>5, <1>6, <1>7, <1>8, <1>9, <1>10, <1>11, <1>12, <1>13, <1>14, <1>15, <1>16
        DEF Request

LEMMA TaskTypesNext ==
  ASSUME TypeInv, NEW t \in Tasks, Runs(t),
         \/ released' = released
         \/ /\ task[t].tries \in Nat
            /\ \E e \in Ids \cup Uuids : released' \subseteq released \cup {<<e, t, task[t].tries>>},
         task'[t] \in NetTask /\ task'[t].pc = "vrf" => task'[t].row.vrf \in Vrfs
  PROVE  TaskTypes'
<1>1. released' \subseteq (Ids \cup Uuids) \X Tasks \X Nat
  BY DEF TypeInv
<1>2. \A x \in Tasks : task'[x] \in NetTask /\ task'[x].pc = "vrf" => task'[x].row.vrf \in Vrfs
  BY DEF Runs, TypeInv
<1> QED BY <1>1, <1>2 DEF TaskTypes, Runs

LEMMA ReleasingTypes ==
  ASSUME TypeInv, NEW t \in Tasks, NEW e \in Ids \cup Uuids, NEW wrong \in SUBSET Mishaps, Releasing(t, e, wrong)
  PROVE  /\ mishap' \subseteq Mishaps
         /\ released' \subseteq released \cup {<<e, t, task[t].tries>>}
<1>1. mishap' \subseteq mishap \cup wrong \cup {"again"}
  BY ReleasingEffect
<1>2. mishap \subseteq Mishaps /\ "again" \in Mishaps
  BY DEF TypeInv, TypeOK, Mishaps
<1>3. released' \subseteq released \cup {<<e, t, task[t].tries>>}
  BY ReleasingEffect
<1> QED BY <1>1, <1>2, <1>3

LEMMA TaskStepTypes ==
  ASSUME TypeInv, NEW t \in Tasks, Task(t)
  PROVE  TypeInv'
<1>0. /\ RowTypes /\ ips \in [IpKeys -> IpType \cup {None}] /\ IpamTypes /\ Rest
      /\ req \in [Requests -> Calls] /\ TaskTypes
  BY TypeParts
<1>a. rows' = rows => RowTypes'
  BY <1>0 DEF RowTypes
<1>b. prefixes' = prefixes /\ acquired' = acquired => IpamTypes'
  BY <1>0 DEF IpamTypes
<1>c. vrfs' = vrfs /\ used' = used /\ mishap' = mishap => Rest'
  BY <1>0 DEF Rest
<1>d. vrfs' = vrfs /\ used' = used /\ mishap' \subseteq Mishaps => Rest'
  BY <1>0 DEF Rest
<1>e. /\ task[t] \in NetTask => task[t].network \in Ids \cup Uuids /\ task[t].tries \in Nat
      /\ task[t] \in IpTask => task[t].uuid \in Ids \cup Uuids /\ task[t].tries \in Nat
  BY DEF NetTask, IpTask
<1>1. ASSUME NEW i \in Ids, DeleteNetwork(t, i) PROVE TypeInv'
  <2>1. TaskTypes'
    BY <1>1, DeleteNetworkEffect, TaskTypesNext
  <2> QED BY <1>0, <1>a, <1>b, <1>c, <1>1, <2>1, DeleteNetworkEffect, TypePartsNext
<1>2. ASSUME NEW k \in IpKeys, DeleteIp(t, k) PROVE TypeInv'
  <2>1. TaskTypes'
    BY <1>2, DeleteIpEffect, TaskTypesNext
  <2> QED BY <1>0, <1>a, <1>b, <1>c, <1>2, <2>1, DeleteIpEffect, TypePartsNext
<1>3. ASSUME ReadNetwork(t) PROVE TypeInv'
  <2>1. TaskTypes'
    BY <1>3, ReadNetworkEffect, TaskTypesNext DEF Done
  <2>2. Rest'
    BY <1>0, <1>3, ReadNetworkEffect DEF Rest, Mishaps
  <2> QED BY <1>0, <1>a, <1>b, <1>3, <2>1, <2>2, ReadNetworkEffect, TypePartsNext
<1>4. ASSUME ReleasePrefix(t) PROVE TypeInv'
  <2>0. task[t] \in NetTask /\ task[t].row.vrf \in Vrfs \cup {0} /\ Vrfs \subseteq Nat
    BY <1>4, ReleasePrefixEffect, NamesAssumption DEF NetTask, RowType
  <2>1. (released' = released /\ mishap' = mishap) \/ Releasing(t, task[t].network, {})
    BY <1>4, ReleasePrefixEffect
  <2>2. mishap' \subseteq Mishaps /\ (released' = released \/ released' \subseteq released \cup {<<task[t].network, t, task[t].tries>>})
    BY <1>0, <1>e, <2>0, <2>1, ReleasingTypes DEF Rest
  <2>3. task'[t] \in NetTask /\ task'[t].pc = "vrf" => task'[t].row.vrf \in Vrfs
    BY <1>4, <2>0, ReleasePrefixEffect DEF SameNet, Again
  <2>4. TaskTypes'
    BY <1>4, <1>e, <2>0, <2>2, <2>3, ReleasePrefixEffect, TaskTypesNext
  <2>5. IpamTypes'
    BY <1>0, <1>4, ReleasePrefixEffect DEF IpamTypes
  <2> QED BY <1>0, <1>a, <1>d, <1>4, <2>2, <2>4, <2>5, ReleasePrefixEffect, TypePartsNext
<1>5. ASSUME ReleaseVrf(t) PROVE TypeInv'
  <2>0. task[t] \in NetTask /\ task[t].row.vrf \in Vrfs /\ task'[t].pc = "row"
    BY <1>5, ReleaseVrfEffect
  <2>1. \E wrong \in SUBSET Mishaps : Releasing(t, task[t].network, wrong)
    BY <1>5, ReleaseVrfEffect DEF Mishaps
  <2>2. mishap' \subseteq Mishaps /\ released' \subseteq released \cup {<<task[t].network, t, task[t].tries>>}
    BY <1>e, <2>0, <2>1, ReleasingTypes
  <2>3. TaskTypes'
    BY <1>5, <1>e, <2>0, <2>2, ReleaseVrfEffect, TaskTypesNext
  <2>4. Rest'
    BY <1>0, <1>5, <2>0, <2>2, ReleaseVrfEffect DEF Rest
  <2> QED BY <1>0, <1>a, <1>b, <1>5, <2>3, <2>4, ReleaseVrfEffect, TypePartsNext
<1>6. ASSUME DeleteRow(t) PROVE TypeInv'
  <2>0. task[t] \in NetTask /\ task'[t].pc = "done" /\ Releasing(t, task[t].network, {})
    BY <1>6, DeleteRowEffect
  <2>2. mishap' \subseteq Mishaps /\ released' \subseteq released \cup {<<task[t].network, t, task[t].tries>>}
    BY <1>e, <2>0, ReleasingTypes
  <2>3. TaskTypes'
    BY <1>6, <1>e, <2>0, <2>2, DeleteRowEffect, TaskTypesNext
  <2>4. RowTypes'
    <3>1. rows' = [rows EXCEPT ![task[t].network] = None] /\ rows \in [Ids -> RowType \cup {None}]
      BY <1>0, <1>6, DeleteRowEffect DEF RowTypes
    <3>2. \A i \in Ids : rows'[i] = None \/ rows'[i] = rows[i]
      BY <3>1
    <3> QED BY <1>0, <3>1, <3>2 DEF RowTypes, Ids
  <2> QED BY <1>0, <1>b, <1>d, <1>6, <2>2, <2>3, <2>4, DeleteRowEffect, TypePartsNext
<1>7. ASSUME ReadIp(t) PROVE TypeInv'
  <2>1. TaskTypes'
    BY <1>7, ReadIpEffect, TaskTypesNext DEF Done, Again
  <2> QED BY <1>0, <1>a, <1>b, <1>c, <1>7, <2>1, ReadIpEffect, TypePartsNext
<1>8. ASSUME ReleaseIP(t) PROVE TypeInv'
  <2>0. task[t] \in IpTask /\ task'[t].pc = "ip" /\ Releasing(t, task[t].uuid, {})
    BY <1>8, ReleaseIPEffect
  <2>2. mishap' \subseteq Mishaps /\ released' \subseteq released \cup {<<task[t].uuid, t, task[t].tries>>}
    BY <1>e, <2>0, ReleasingTypes
  <2>3. TaskTypes'
    BY <1>8, <1>e, <2>0, <2>2, ReleaseIPEffect, TaskTypesNext
  <2>4. IpamTypes'
    BY <1>0, <1>8, ReleaseIPEffect DEF IpamTypes
  <2> QED BY <1>0, <1>a, <1>d, <1>8, <2>2, <2>3, <2>4, ReleaseIPEffect, TypePartsNext
<1>9. ASSUME DeleteIpRow(t) PROVE TypeInv'
  <2>0. task[t] \in IpTask /\ task'[t].pc = "done" /\ Releasing(t, task[t].uuid, {})
    BY <1>9, DeleteIpRowEffect
  <2>2. mishap' \subseteq Mishaps /\ released' \subseteq released \cup {<<task[t].uuid, t, task[t].tries>>}
    BY <1>e, <2>0, ReleasingTypes
  <2>3. TaskTypes'
    BY <1>9, <1>e, <2>0, <2>2, DeleteIpRowEffect, TaskTypesNext
  <2>4. ips' \in [IpKeys -> IpType \cup {None}]
    BY <1>0, <1>9, DeleteIpRowEffect
  <2> QED BY <1>0, <1>a, <1>b, <1>d, <1>9, <2>2, <2>3, <2>4, DeleteIpRowEffect, TypePartsNext
<1>10. ASSUME TaskDies(t) PROVE TypeInv'
  <2>1. TaskTypes'
    BY <1>10, TaskDiesEffect, TaskTypesNext DEF Again
  <2> QED BY <1>0, <1>a, <1>b, <1>c, <1>10, <2>1, TaskDiesEffect, TypePartsNext
<1> QED BY <1>1, <1>2, <1>3, <1>4, <1>5, <1>6, <1>7, <1>8, <1>9, <1>10 DEF Task

(* Whatever calls and deletions overlap, the tables hold networks, ips and   *)
(* vrfs of the kinds that the documents and the pool allow.                  *)
THEOREM TypeCorrect == Spec => []TypeOK
<1>1. TypeInv /\ [Next]_vars => TypeInv'
  <2> SUFFICES ASSUME TypeInv, [Next]_vars PROVE TypeInv'
    OBVIOUS
  <2>1. CASE Next
    BY <2>1, RequestTypes, TaskStepTypes DEF Next
  <2>2. CASE UNCHANGED vars
    BY <2>2 DEF vars, TypeInv, TypeOK
  <2> QED BY <2>1, <2>2
<1>2. TypeInv => TypeOK
  BY DEF TypeInv
<1> QED BY TypeInit, <1>1, <1>2, PTL DEF Spec

-----------------------------------------------------------------------------
(* What every step leaves alone.                                             *)

NetworkCall(r) ==
    \/ \E q \in RootRequests : ValidateRoot(r, q)
    \/ RootVrf(r) \/ RootRow(r) \/ RootPrefix(r)
    \/ \E q \in ChildRequests : ValidateChild(r, q)
    \/ ChildParent(r) \/ ChildPrefix(r) \/ ChildVrf(r) \/ ChildRow(r)
    \/ \E q \in UpdateRequests : ValidateUpdate(r, q)
    \/ UpdateRemove(r) \/ UpdateAdd(r) \/ UpdateRow(r)
IpSteps == {"ipAcquire", "ipRow"}

LEMMA NetworkCallStays ==
  ASSUME TypeInv, NEW r \in Requests, NetworkCall(r)
  PROVE  /\ UNCHANGED <<ips, acquired, task, released>>
         /\ Moves(r) /\ req[r].pc \notin IpSteps /\ req'[r].pc \notin IpSteps
<1>0. \A d \in {Idle} \cup RootCall \cup ParentCall \cup ChildCall \cup UpdateCall : d.pc \notin IpSteps
  BY DEF Idle, RootCall, ParentCall, ChildCall, UpdateCall, Births, IpSteps
<1>1. ASSUME NEW q \in RootRequests, ValidateRoot(r, q) PROVE req[r].pc \notin IpSteps /\ req'[r].pc \notin IpSteps /\ Moves(r) /\ UNCHANGED <<ips, acquired, task, released>>
  BY <1>0, <1>1, ValidateRootEffect
<1>2. CASE RootVrf(r)
  BY <1>0, <1>2, RootVrfEffect
<1>3. CASE RootRow(r)
  BY <1>0, <1>3, RootRowEffect
<1>4. CASE RootPrefix(r)
  BY <1>0, <1>4, RootPrefixEffect
<1>5. ASSUME NEW q \in ChildRequests, ValidateChild(r, q) PROVE req[r].pc \notin IpSteps /\ req'[r].pc \notin IpSteps /\ Moves(r) /\ UNCHANGED <<ips, acquired, task, released>>
  BY <1>0, <1>5, ValidateChildEffect
<1>6. CASE ChildParent(r)
  BY <1>0, <1>6, ChildParentEffect
<1>7. CASE ChildPrefix(r)
  BY <1>0, <1>7, ChildPrefixEffect
<1>8. CASE ChildVrf(r)
  BY <1>0, <1>8, ChildVrfEffect
<1>9. CASE ChildRow(r)
  BY <1>0, <1>9, ChildRowEffect
<1>10. ASSUME NEW q \in UpdateRequests, ValidateUpdate(r, q) PROVE req[r].pc \notin IpSteps /\ req'[r].pc \notin IpSteps /\ Moves(r) /\ UNCHANGED <<ips, acquired, task, released>>
  BY <1>0, <1>10, ValidateUpdateEffect
<1>11. CASE UpdateRemove(r)
  BY <1>0, <1>11, UpdateRemoveEffect DEF SameUpdate
<1>12. CASE UpdateAdd(r)
  BY <1>0, <1>12, UpdateAddEffect DEF SameUpdate
<1>13. CASE UpdateRow(r)
  BY <1>0, <1>13, UpdateRowEffect
<1> QED BY <1>1, <1>2, <1>3, <1>4, <1>5, <1>6, <1>7, <1>8, <1>9, <1>10, <1>11, <1>12, <1>13 DEF NetworkCall

(* A row of a network only changes to be gone, or if it is a root network.   *)
RowsMove ==
    /\ used \subseteq used' /\ mishap \subseteq mishap' /\ released \subseteq released'
    /\ \A i \in Ids : \/ rows'[i] = rows[i] \/ rows'[i] = None
                      \/ i \in RootIds /\ rows'[i] \in RootRows /\ i \in used'
                      \/ i \notin used /\ i \in used' /\ rows'[i] # None

LEMMA RequestMoves ==
  ASSUME TypeInv, NEW r \in Requests, Request(r), Stored \subseteq used
  PROVE  RowsMove
<1>a. rows' = rows /\ used' = used /\ released' = released /\ mishap \subseteq mishap' => RowsMove
  BY DEF RowsMove
<1>1. ASSUME NEW q \in RootRequests, ValidateRoot(r, q) PROVE RowsMove
  BY <1>a, <1>1, ValidateRootEffect
<1>2. CASE RootVrf(r)
  BY <1>a, <1>2, RootVrfEffect
<1>3. CASE RootRow(r)
  <2>1. req[r].id \in RootIds /\ req[r].row \in RootRows
    BY <1>3, RootRowEffect DEF RootCall
  <2>2. CASE rows' = [rows EXCEPT ![req[r].id] = req[r].row] /\ used' = used \cup {req[r].id} /\ mishap' = mishap
    BY <1>3, <2>1, <2>2, RootRowEffect DEF RowsMove, TypeInv, TypeOK
  <2>3. CASE rows' = rows /\ used' = used /\ mishap \subseteq mishap'
    BY <1>a, <1>3, <2>3, RootRowEffect
  <2> QED BY <1>3, <2>2, <2>3, RootRowEffect
<1>4. CASE RootPrefix(r)
  BY <1>a, <1>4, RootPrefixEffect
<1>5. ASSUME NEW q \in ChildRequests, ValidateChild(r, q) PROVE RowsMove
  BY <1>a, <1>5, ValidateChildEffect
<1>6. CASE ChildParent(r)
  BY <1>a, <1>6, ChildParentEffect
<1>7. CASE ChildPrefix(r)
  BY <1>a, <1>7, ChildPrefixEffect
<1>8. CASE ChildVrf(r)
  BY <1>a, <1>8, ChildVrfEffect
<1>9. CASE ChildRow(r)
  <2>1. PICK i \in ChildIds \ used : rows' = [rows EXCEPT ![i] = req[r].row] /\ used' = used \cup {i}
    BY <1>9, ChildRowEffect
  <2>2. req[r].row \in ChildRows /\ req[r].row # None
    BY <1>9, ChildRowEffect, RowKinds DEF ChildCall
  <2>3. \A j \in Ids : j # i => rows'[j] = rows[j]
    BY <2>1 DEF TypeInv, TypeOK
  <2>4. i \in Ids /\ rows'[i] # None
    BY <2>1, <2>2 DEF TypeInv, TypeOK, Ids
  <2>5. mishap' = mishap /\ released' = released
    BY <1>9, ChildRowEffect
  <2> QED BY <2>1, <2>3, <2>4, <2>5 DEF RowsMove
<1>10. ASSUME NEW q \in UpdateRequests, ValidateUpdate(r, q) PROVE RowsMove
  BY <1>a, <1>10, ValidateUpdateEffect
<1>11. CASE UpdateRemove(r)
  BY <1>a, <1>11, UpdateRemoveEffect
<1>12. CASE UpdateAdd(r)
  BY <1>a, <1>12, UpdateAddEffect
<1>13. CASE UpdateRow(r)
  <2>1. CASE rows' = rows
    BY <1>a, <1>13, <2>1, UpdateRowEffect
  <2>2. CASE /\ rows[req[r].id] = req[r].row /\ mishap' = mishap
             /\ rows' = [rows EXCEPT ![req[r].id] = [req[r].row EXCEPT !.prefixes = req[r].prefixes]]
    <3>1. req[r].id \in RootIds /\ req[r].row \in RootRows /\ [req[r].row EXCEPT !.prefixes = req[r].prefixes] \in RootRows
      BY <1>13, UpdateRowEffect DEF UpdateCall, RootRows
    <3>2. rows[req[r].id] # None /\ req[r].id \in used
      BY <2>2, <3>1, RowKinds DEF Stored, Ids
    <3>3. rows'[req[r].id] \in RootRows /\ \A j \in Ids : j # req[r].id => rows'[j] = rows[j]
      BY <2>2, <3>1 DEF TypeInv, TypeOK, Ids
    <3> QED BY <1>13, <2>2, <3>1, <3>2, <3>3, UpdateRowEffect DEF RowsMove
  <2> QED BY <1>13, <2>1, <2>2, UpdateRowEffect
<1>14. ASSUME NEW q \in IpRequests, ValidateIp(r, q) PROVE RowsMove
  BY <1>a, <1>14, ValidateIpEffect
<1>15. CASE IpAcquire(r)
  BY <1>a, <1>15, IpAcquireEffect
<1>16. CASE IpRow(r)
  BY <1>16, IpRowEffect DEF RowsMove
<1> QED BY <1>1, <1>2, <1>3, <1>4, <1>5, <1>6, <1>7, <1>8, <1>9, <1>10, <1>11, <1>12, <1>13, <1>14, <1>15, <1>16
        DEF Request

LEMMA ReleasingGrows ==
  ASSUME NEW t, NEW e, NEW wrong, Releasing(t, e, wrong)
  PROVE  mishap \subseteq mishap' /\ released \subseteq released'
BY ReleasingEffect

LEMMA TaskMoves ==
  ASSUME TypeInv, NEW t \in Tasks, Task(t)
  PROVE  RowsMove
<1>a. rows' = rows /\ used' = used /\ released \subseteq released' /\ mishap \subseteq mishap' => RowsMove
  BY DEF RowsMove
<1>1. ASSUME NEW i \in Ids, DeleteNetwork(t, i) PROVE RowsMove
  BY <1>a, <1>1, DeleteNetworkEffect
<1>2. ASSUME NEW k \in IpKeys, DeleteIp(t, k) PROVE RowsMove
  BY <1>a, <1>2, DeleteIpEffect
<1>3. CASE ReadNetwork(t)
  BY <1>a, <1>3, ReadNetworkEffect
<1>4. CASE ReleasePrefix(t)
  <2>1. mishap \subseteq mishap' /\ released \subseteq released'
    BY <1>4, ReleasePrefixEffect, ReleasingGrows
  <2> QED BY <1>a, <1>4, <2>1, ReleasePrefixEffect
<1>5. CASE ReleaseVrf(t)
  <2>1. mishap \subseteq mishap' /\ released \subseteq released'
    BY <1>5, ReleaseVrfEffect, ReleasingGrows
  <2> QED BY <1>a, <1>5, <2>1, ReleaseVrfEffect
<1>6. CASE DeleteRow(t)
  <2>1. mishap \subseteq mishap' /\ released \subseteq released'
    BY <1>6, DeleteRowEffect, ReleasingGrows
  <2>2. \A i \in Ids : rows'[i] = None \/ rows'[i] = rows[i]
    BY <1>6, DeleteRowEffect DEF TypeInv, TypeOK
  <2> QED BY <1>6, <2>1, <2>2, DeleteRowEffect DEF RowsMove
<1>7. CASE ReadIp(t)
  BY <1>a, <1>7, ReadIpEffect
<1>8. CASE ReleaseIP(t)
  <2>1. mishap \subseteq mishap' /\ released \subseteq released'
    BY <1>8, ReleaseIPEffect, ReleasingGrows
  <2> QED BY <1>a, <1>8, <2>1, ReleaseIPEffect
<1>9. CASE DeleteIpRow(t)
  <2>1. mishap \subseteq mishap' /\ released \subseteq released'
    BY <1>9, DeleteIpRowEffect, ReleasingGrows
  <2> QED BY <1>a, <1>9, <2>1, DeleteIpRowEffect
<1>10. CASE TaskDies(t)
  BY <1>a, <1>10, TaskDiesEffect
<1> QED BY <1>1, <1>2, <1>3, <1>4, <1>5, <1>6, <1>7, <1>8, <1>9, <1>10 DEF Task

-----------------------------------------------------------------------------
(* The namespace of a network never changes, so ips and calls know it.       *)

LivesIn(i, ns) == i \in used /\ (i \in RootIds => ns = None) /\ (rows[i] # None => rows[i].ns = ns)

Places ==
    /\ Stored \subseteq used
    /\ \A k \in IpKeys : ips[k] # None => LivesIn(ips[k].network, k[1])
    /\ \A r \in Requests : req[r].pc = "ipAcquire" => LivesIn(req[r].ip.network, req[r].nw.ns)
    /\ \A r \in Requests : req[r].pc = "ipRow" => LivesIn(req[r].network, req[r].ns)
    /\ \A t \in Tasks : task[t] \in IpTask => task[t].ns = task[t].key[1]

(* The same after a step.                                                    *)
LivesOn(i, ns) == i \in used' /\ (i \in RootIds => ns = None) /\ (rows'[i] # None => rows'[i].ns = ns)

LEMMA LivesInStays ==
  ASSUME RowsMove, NEW i \in Ids, NEW ns, LivesIn(i, ns)
  PROVE  LivesOn(i, ns)
<1>1. i \in used /\ i \in used'
  BY DEF LivesIn, RowsMove
<1>2. CASE rows'[i] = rows[i] \/ rows'[i] = None
  BY <1>1, <1>2 DEF LivesIn, LivesOn
<1>3. CASE i \in RootIds /\ rows'[i] \in RootRows
  BY <1>1, <1>3 DEF LivesIn, LivesOn, RootRows
<1> QED BY <1>1, <1>2, <1>3 DEF RowsMove

LEMMA StoredUsed ==
  ASSUME RowsMove, Stored \subseteq used
  PROVE  Stored' \subseteq used'
BY DEF RowsMove, Stored

LEMMA PlacesInit == Init => Places
<1> SUFFICES ASSUME Init PROVE Places
  OBVIOUS
<1>1. Stored \subseteq used
  BY DEF Init, Stored
<1>2. /\ ips = [k \in IpKeys |-> None] /\ req = [r \in Requests |-> Idle] /\ task = [t \in Tasks |-> [pc |-> "unused"]]
  BY DEF Init
<1> QED BY <1>1, <1>2 DEF Places, Idle, IpTask

LEMMA PlacesRequest ==
  ASSUME TypeInv, Places, NEW r \in Requests, Request(r)
  PROVE  Places'
<1>0. RowsMove /\ Stored \subseteq used
  BY RequestMoves DEF Places
<1>1. Stored' \subseteq used'
  BY <1>0, StoredUsed
<1>2. /\ req \in [Requests -> Calls] /\ ips \in [IpKeys -> IpType \cup {None}]
  BY DEF TypeInv, TypeOK
<1>3. ASSUME NEW x \in Requests, req'[x] = req[x], req'[x].pc = "ipAcquire"
      PROVE  LivesOn(req'[x].ip.network, req'[x].nw.ns)
  <2>1. req[x].ip.network \in Ids /\ LivesIn(req[x].ip.network, req[x].nw.ns)
    BY <1>2, <1>3, CallShapes DEF IpCall, IpRequest, Places
  <2> QED BY <1>0, <1>3, <2>1, LivesInStays
<1>4. ASSUME NEW x \in Requests, req'[x] = req[x], req'[x].pc = "ipRow"
      PROVE  LivesOn(req'[x].network, req'[x].ns)
  <2>1. req[x].network \in Ids /\ LivesIn(req[x].network, req[x].ns)
    BY <1>2, <1>4, CallShapes DEF IpRowCall, Places
  <2> QED BY <1>0, <1>4, <2>1, LivesInStays
<1>5. ASSUME NEW k \in IpKeys, ips'[k] = ips[k], ips'[k] # None
      PROVE  LivesOn(ips'[k].network, k[1])
  <2>1. ips[k].network \in Ids /\ LivesIn(ips[k].network, k[1])
    BY <1>2, <1>5 DEF IpType, Places
  <2> QED BY <1>0, <1>5, <2>1, LivesInStays
<1>6. CASE NetworkCall(r)
  <2>1. UNCHANGED <<ips, acquired, task, released>> /\ Moves(r) /\ req'[r].pc \notin IpSteps
    BY <1>6, NetworkCallStays
  <2>2. \A x \in Requests : req'[x].pc \in IpSteps => req'[x] = req[x]
    BY <2>1 DEF Moves, OthersStay
  <2>3. \A x \in Requests : req'[x].pc = "ipAcquire" => LivesOn(req'[x].ip.network, req'[x].nw.ns)
    BY <1>3, <2>2 DEF IpSteps
  <2>4. \A x \in Requests : req'[x].pc = "ipRow" => LivesOn(req'[x].network, req'[x].ns)
    BY <1>4, <2>2 DEF IpSteps
  <2>5. \A k \in IpKeys : ips'[k] # None => LivesOn(ips'[k].network, k[1])
    BY <1>5, <2>1
  <2>6. \A t \in Tasks : task'[t] \in IpTask => task'[t].ns = task'[t].key[1]
    BY <2>1 DEF Places
  <2> QED BY <1>1, <2>3, <2>4, <2>5, <2>6 DEF Places, LivesIn, LivesOn
<1>7. ASSUME NEW q \in IpRequests, ValidateIp(r, q) PROVE Places'
  <2>1. /\ Moves(r) /\ req'[r].ip.network \in Ids /\ req'[r].pc = "ipAcquire"
        /\ rows[req'[r].ip.network] # None /\ req'[r].nw = rows[req'[r].ip.network]
        /\ UNCHANGED <<rows, ips, task, used>>
    BY <1>7, ValidateIpEffect DEF IpRequest
  <2>2. LivesOn(req'[r].ip.network, req'[r].nw.ns)
    BY <1>0, <1>1, <2>1 DEF LivesOn, Stored, TypeInv, RootRows
  <2>3. \A x \in Requests : req'[x].pc = "ipAcquire" => LivesOn(req'[x].ip.network, req'[x].nw.ns)
    BY <1>3, <2>1, <2>2 DEF Moves, OthersStay
  <2>4. \A x \in Requests : req'[x].pc = "ipRow" => LivesOn(req'[x].network, req'[x].ns)
    BY <1>4, <2>1 DEF Moves, OthersStay
  <2>5. \A k \in IpKeys : ips'[k] # None => LivesOn(ips'[k].network, k[1])
    BY <1>5, <2>1
  <2>6. \A t \in Tasks : task'[t] \in IpTask => task'[t].ns = task'[t].key[1]
    BY <2>1 DEF Places
  <2> QED BY <1>1, <2>3, <2>4, <2>5, <2>6 DEF Places, LivesIn, LivesOn
<1>8. CASE IpAcquire(r)
  <2>0. Idle.pc = "idle"
    BY DEF Idle
  <2>1. /\ Moves(r) /\ req[r].pc = "ipAcquire" /\ req'[r].pc \in {"ipRow", "idle"}
        /\ req'[r].pc = "ipRow" => req'[r].ns = req[r].nw.ns /\ req'[r].network = req[r].ip.network
        /\ UNCHANGED <<rows, ips, task, used>>
    BY <1>8, <2>0, IpAcquireEffect
  <2>2. req'[r].pc = "ipRow" => LivesOn(req'[r].network, req'[r].ns)
    BY <1>0, <2>1 DEF LivesIn, LivesOn, Places
  <2>3. \A x \in Requests : req'[x].pc = "ipAcquire" => LivesOn(req'[x].ip.network, req'[x].nw.ns)
    BY <1>3, <2>1 DEF Moves, OthersStay
  <2>4. \A x \in Requests : req'[x].pc = "ipRow" => LivesOn(req'[x].network, req'[x].ns)
    BY <1>4, <2>1, <2>2 DEF Moves, OthersStay
  <2>5. \A k \in IpKeys : ips'[k] # None => LivesOn(ips'[k].network, k[1])
    BY <1>5, <2>1
  <2>6. \A t \in Tasks : task'[t] \in IpTask => task'[t].ns = task'[t].key[1]
    BY <2>1 DEF Places
  <2> QED BY <1>1, <2>3, <2>4, <2>5, <2>6 DEF Places, LivesIn, LivesOn
<1>9. CASE IpRow(r)
  <2>1. /\ Moves(r) /\ req'[r] = Idle /\ Idle.pc = "idle" /\ UNCHANGED <<rows, task>>
        /\ req[r].ns \in Namespaces /\ req[r].address \in Addresses /\ req[r].pc = "ipRow"
        /\ req[r].network \in Ids
    BY <1>9, IpRowEffect DEF Idle, IpRowCall
  <2> DEFINE key == <<req[r].ns, req[r].address>>
  <2>2. /\ \A k \in IpKeys \ {key} : ips'[k] = ips[k]
        /\ ips'[key] = ips[key] \/ ips'[key].network = req[r].network
    BY <1>2, <1>9, <2>1, IpRowEffect DEF IpKeys
  <2>3. LivesOn(req[r].network, req[r].ns)
    BY <1>0, <2>1, LivesInStays DEF Places
  <2>4. \A x \in Requests : req'[x].pc = "ipAcquire" => LivesOn(req'[x].ip.network, req'[x].nw.ns)
    BY <1>3, <2>1 DEF Moves, OthersStay
  <2>5. \A x \in Requests : req'[x].pc = "ipRow" => LivesOn(req'[x].network, req'[x].ns)
    BY <1>4, <2>1 DEF Moves, OthersStay
  <2>6. \A k \in IpKeys : ips'[k] # None => LivesOn(ips'[k].network, k[1])
    <3> SUFFICES ASSUME NEW k \in IpKeys, ips'[k] # None PROVE LivesOn(ips'[k].network, k[1])
      OBVIOUS
    <3>1. CASE ips'[k] = ips[k]
      BY <1>5, <3>1
    <3>2. CASE k = key /\ ips'[k].network = req[r].network
      BY <2>3, <3>2
    <3> QED BY <2>2, <3>1, <3>2
  <2>7. \A t \in Tasks : task'[t] \in IpTask => task'[t].ns = task'[t].key[1]
    BY <2>1 DEF Places
  <2> QED BY <1>1, <2>4, <2>5, <2>6, <2>7 DEF Places, LivesIn, LivesOn
<1> QED BY <1>6, <1>7, <1>8, <1>9 DEF Request, NetworkCall

NetworkTask(t) ==
    \/ \E i \in Ids : DeleteNetwork(t, i)
    \/ ReadNetwork(t) \/ ReleasePrefix(t) \/ ReleaseVrf(t) \/ DeleteRow(t)
    \/ TaskDies(t)
ReleasesIp(c) == c \in IpTask /\ c.pc \in {"address", "ip"}

LEMMA NetworkTaskStays ==
  ASSUME TypeInv, NEW t \in Tasks, NetworkTask(t)
  PROVE  /\ UNCHANGED <<ips, acquired, req, used>>
         /\ Runs(t) /\ ~ReleasesIp(task'[t])
         /\ task'[t] \in IpTask => task[t] \in IpTask /\ task'[t].ns = task[t].ns /\ task'[t].key = task[t].key
<1>0. /\ (NetQueued \cup NetTask) \cap (IpQueued \cup IpTask) = {}
      /\ NetQueued \cap NetTask = {} /\ IpQueued \cap IpTask = {}
  BY DEF NetQueued, NetTask, IpQueued, IpTask
<1>1. ASSUME NEW i \in Ids, DeleteNetwork(t, i) PROVE UNCHANGED <<ips, acquired, req, used>> /\ Runs(t) /\ task'[t] \in NetQueued
  BY <1>1, DeleteNetworkEffect
<1>2. ASSUME ReadNetwork(t) PROVE UNCHANGED <<ips, acquired, req, used>> /\ Runs(t) /\ task'[t] \in NetQueued \cup NetTask
  BY <1>2, ReadNetworkEffect DEF Done
<1>3. ASSUME ReleasePrefix(t) PROVE UNCHANGED <<ips, acquired, req, used>> /\ Runs(t) /\ task'[t] \in NetQueued \cup NetTask
  BY <1>3, ReleasePrefixEffect DEF SameNet, Again
<1>4. ASSUME ReleaseVrf(t) PROVE UNCHANGED <<ips, acquired, req, used>> /\ Runs(t) /\ task'[t] \in NetQueued \cup NetTask
  BY <1>4, ReleaseVrfEffect DEF SameNet
<1>5. ASSUME DeleteRow(t) PROVE UNCHANGED <<ips, acquired, req, used>> /\ Runs(t) /\ task'[t] \in NetQueued \cup NetTask
  BY <1>5, DeleteRowEffect DEF SameNet
<1>6. ASSUME TaskDies(t)
      PROVE  /\ UNCHANGED <<ips, acquired, req, used>> /\ Runs(t) /\ task'[t].pc \in {"queued", "archived"}
             /\ task[t] \in NetTask \cup IpTask /\ Again(task[t], task'[t])
  BY <1>6, TaskDiesEffect DEF Again
<1>7. CASE TaskDies(t)
  BY <1>0, <1>6, <1>7 DEF Again, ReleasesIp
<1> QED BY <1>0, <1>1, <1>2, <1>3, <1>4, <1>5, <1>7 DEF NetworkTask, ReleasesIp

LEMMA PlacesTask ==
  ASSUME TypeInv, Places, NEW t \in Tasks, Task(t)
  PROVE  Places'
<1>0. RowsMove /\ Stored \subseteq used /\ Stored' \subseteq used'
  BY TaskMoves, StoredUsed DEF Places
<1>1. req' = req => /\ \A x \in Requests : req'[x].pc = "ipAcquire" => LivesOn(req'[x].ip.network, req'[x].nw.ns)
                    /\ \A x \in Requests : req'[x].pc = "ipRow" => LivesOn(req'[x].network, req'[x].ns)
  <2>1. \A x \in Requests : /\ req[x].pc = "ipAcquire" => req[x].ip.network \in Ids
                            /\ req[x].pc = "ipRow" => req[x].network \in Ids
    BY CallShapes DEF IpCall, IpRequest, IpRowCall, TypeInv
  <2> QED BY <1>0, <2>1, LivesInStays DEF Places
<1>2. ASSUME NEW k \in IpKeys, ips'[k] = ips[k], ips'[k] # None
      PROVE  LivesOn(ips'[k].network, k[1])
  <2>1. ips[k].network \in Ids /\ LivesIn(ips[k].network, k[1])
    BY <1>2 DEF IpType, Places, TypeInv, TypeOK
  <2> QED BY <1>0, <1>2, <2>1, LivesInStays
<1>3. ASSUME \A k \in IpKeys : ips'[k] # None => ips'[k] = ips[k], req' = req, Runs(t),
             task'[t] \in IpTask => task'[t].ns = task'[t].key[1]
      PROVE  Places'
  <2>1. \A k \in IpKeys : ips'[k] # None => LivesOn(ips'[k].network, k[1])
    BY <1>2, <1>3
  <2>2. \A x \in Tasks : task'[x] \in IpTask => task'[x].ns = task'[x].key[1]
    BY <1>3 DEF Runs, Places
  <2> QED BY <1>0, <1>1, <1>3, <2>1, <2>2 DEF Places, LivesIn, LivesOn
<1>4. CASE NetworkTask(t)
  BY <1>3, <1>4, NetworkTaskStays DEF Places
<1>5. ASSUME NEW k \in IpKeys, DeleteIp(t, k) PROVE Places'
  <2>1. task'[t] \notin IpTask
    BY <1>5, DeleteIpEffect DEF IpQueued, IpTask
  <2> QED BY <1>3, <1>5, <2>1, DeleteIpEffect
<1>6. CASE ReadIp(t)
  <2>1. task'[t] \in IpTask => task'[t].ns = task'[t].key[1]
    <3>0. IpQueued \cap IpTask = {} /\ \A c : c \in IpQueued \cup IpTask => c.pc \in {"queued", "address", "ip", "done", "archived"}
      BY DEF IpQueued, IpTask
    <3>1. CASE \E k \in IpKeys :
                 /\ ips[k] # None /\ rows[ips[k].network] # None
                 /\ task'[t].key = k /\ task'[t].ns = rows[ips[k].network].ns
      BY <3>1 DEF Places, LivesIn
    <3>2. CASE Done(task[t], task'[t]) \/ Again(task[t], task'[t])
      <4>1. task'[t] \in IpTask => task[t] \in IpTask /\ task'[t].ns = task[t].ns /\ task'[t].key = task[t].key
        BY <1>6, <3>0, <3>2, ReadIpEffect DEF Done, SameIp, Again
      <4> QED BY <4>1 DEF Places
    <3> QED BY <1>6, <3>1, <3>2, ReadIpEffect
  <2> QED BY <1>3, <1>6, <2>1, ReadIpEffect
<1>7. CASE ReleaseIP(t)
  <2>1. task'[t].ns = task'[t].key[1]
    BY <1>7, ReleaseIPEffect DEF SameIp, Places
  <2> QED BY <1>3, <1>7, <2>1, ReleaseIPEffect
<1>8. CASE DeleteIpRow(t)
  <2>1. task'[t].ns = task'[t].key[1]
    BY <1>8, DeleteIpRowEffect DEF SameIp, Places
  <2>2. \A k \in IpKeys : ips'[k] # None => ips'[k] = ips[k]
    BY <1>8, DeleteIpRowEffect DEF TypeInv, TypeOK
  <2> QED BY <1>3, <1>8, <2>1, <2>2, DeleteIpRowEffect
<1> QED BY <1>4, <1>5, <1>6, <1>7, <1>8 DEF Task, NetworkTask

-----------------------------------------------------------------------------
(* Every release is by an attempt of its task that is not still to begin.    *)

Waits(c) ==
    \/ c \in NetQueued \cup NetTask /\ c.pc = "queued"
    \/ c \in IpQueued \cup IpTask /\ c.pc \in {"queued", "address"}
Attempts ==
    \A x \in released :
      /\ task[x[2]] # Unused /\ x[3] <= task[x[2]].tries
      /\ Waits(task[x[2]]) => x[3] < task[x[2]].tries

LEMMA TaskTries ==
  ASSUME TypeInv, NEW t \in Tasks, task[t] # Unused
  PROVE  task[t].tries \in Nat
BY DEF TypeInv, TaskRecords, NetQueued, NetTask, IpQueued, IpTask

LEMMA AttemptsNext ==
  ASSUME TypeInv, Attempts, NEW t \in Tasks, Runs(t), task'[t] # Unused,
         \/ released' = released /\ task[t] = Unused
         \/ released' = released /\ task[t] # Unused /\ task'[t].tries = task[t].tries + 1
         \/ released' = released /\ task[t] # Unused /\ task'[t].tries = task[t].tries /\ Waits(task[t])
         \/ /\ task[t] # Unused /\ task'[t].tries = task[t].tries /\ ~Waits(task'[t])
            /\ \E e : released' \subseteq released \cup {<<e, t, task[t].tries>>}
  PROVE  Attempts'
<1> SUFFICES ASSUME NEW x \in released'
             PROVE  /\ task'[x[2]] # Unused /\ x[3] <= task'[x[2]].tries
                    /\ Waits(task'[x[2]]) => x[3] < task'[x[2]].tries
  BY DEF Attempts, Waits
<1>1. CASE x \in released
  <2>1. x[2] \in Tasks /\ x[3] \in Nat
    BY <1>1 DEF TypeInv
  <2>2. /\ task[x[2]] # Unused /\ x[3] <= task[x[2]].tries /\ task[x[2]].tries \in Nat
        /\ Waits(task[x[2]]) => x[3] < task[x[2]].tries
    BY <1>1, <2>1, TaskTries DEF Attempts
  <2>3. CASE x[2] # t
    BY <2>1, <2>2, <2>3 DEF Runs
  <2>4. CASE x[2] = t
    BY <2>1, <2>2, <2>4
  <2> QED BY <2>3, <2>4
<1>2. CASE x \notin released
  <2>1. /\ x[2] = t /\ x[3] = task[t].tries /\ task'[t].tries = task[t].tries /\ ~Waits(task'[t])
        /\ task[t] # Unused
    BY <1>2
  <2> QED BY <2>1, TaskTries
<1> QED BY <1>1, <1>2

LEMMA UnusedShape ==
  /\ \A c \in NetQueued \cup NetTask \cup IpQueued \cup IpTask : c # Unused
  /\ \A c \in NetQueued \cup NetTask : c.pc # "queued" => ~Waits(c)
<1>1. \A c \in NetQueued \cup NetTask \cup IpQueued \cup IpTask : c.pc # "unused"
  BY DEF NetQueued, NetTask, IpQueued, IpTask
<1>2. Unused.pc = "unused"
  BY DEF Unused
<1>3. \A c \in NetQueued \cup NetTask : c \notin IpQueued \cup IpTask
  BY DEF NetQueued, NetTask, IpQueued, IpTask
<1> QED BY <1>1, <1>2, <1>3 DEF Waits

LEMMA AttemptsTask ==
  ASSUME TypeInv, Attempts, NEW t \in Tasks, Task(t)
  PROVE  Attempts'
<1>0. \A c \in NetTask \cup IpTask \cup IpQueued : \A d : Again(c, d) => d # Unused /\ d.tries = c.tries + 1
  BY UnusedShape DEF Again
<1>1. ASSUME NEW i \in Ids, DeleteNetwork(t, i) PROVE Attempts'
  BY <1>1, DeleteNetworkEffect, UnusedShape, AttemptsNext
<1>2. ASSUME NEW k \in IpKeys, DeleteIp(t, k) PROVE Attempts'
  BY <1>2, DeleteIpEffect, UnusedShape, AttemptsNext
<1>3. CASE ReadNetwork(t)
  <2>1. /\ task[t] \in NetQueued \cup NetTask /\ task'[t] \in NetQueued \cup NetTask
        /\ task'[t].tries = task[t].tries /\ task'[t].pc # "queued"
    BY <1>3, ReadNetworkEffect DEF Done
  <2>2. released' = released /\ Runs(t)
    BY <1>3, ReadNetworkEffect
  <2>3. released' \subseteq released \cup {<<0, t, task[t].tries>>}
    BY <2>2
  <2> QED BY <2>1, <2>2, <2>3, UnusedShape, AttemptsNext
<1>4. CASE ReleasePrefix(t)
  <2>1. task[t] \in NetTask /\ Runs(t)
    BY <1>4, ReleasePrefixEffect
  <2>2. CASE Again(task[t], task'[t]) /\ released' = released
    BY <1>0, <2>1, <2>2, UnusedShape, AttemptsNext
  <2>3. CASE SameNet(task[t], task'[t]) /\ task'[t].pc # "queued" /\ (released' = released \/ Releasing(t, task[t].network, {}))
    <3>1. released' \subseteq released \cup {<<task[t].network, t, task[t].tries>>}
      BY <2>3, ReleasingEffect
    <3> QED BY <2>1, <2>3, <3>1, UnusedShape, AttemptsNext DEF SameNet
  <2> QED BY <1>4, <2>2, <2>3, ReleasePrefixEffect
<1>5. CASE ReleaseVrf(t)
  <2>1. task[t] \in NetTask /\ Runs(t) /\ SameNet(task[t], task'[t]) /\ task'[t].pc # "queued"
    BY <1>5, ReleaseVrfEffect
  <2>2. released' \subseteq released \cup {<<task[t].network, t, task[t].tries>>}
    BY <1>5, ReleaseVrfEffect, ReleasingEffect
  <2> QED BY <2>1, <2>2, UnusedShape, AttemptsNext DEF SameNet
<1>6. CASE DeleteRow(t)
  <2>1. task[t] \in NetTask /\ Runs(t) /\ SameNet(task[t], task'[t]) /\ task'[t].pc # "queued"
    BY <1>6, DeleteRowEffect
  <2>2. released' \subseteq released \cup {<<task[t].network, t, task[t].tries>>}
    BY <1>6, DeleteRowEffect, ReleasingEffect
  <2> QED BY <2>1, <2>2, UnusedShape, AttemptsNext DEF SameNet
<1>7. CASE ReadIp(t)
  <2>1. task[t] \in IpQueued \cup IpTask /\ task[t].pc = "queued" /\ released' = released /\ Runs(t)
    BY <1>7, ReadIpEffect
  <2>2. \/ Again(task[t], task'[t])
        \/ task'[t] \in IpQueued \cup IpTask /\ task'[t].tries = task[t].tries
    BY <1>7, ReadIpEffect DEF Done, SameIp
  <2> QED BY <1>0, <2>1, <2>2, UnusedShape, AttemptsNext DEF Waits
<1>8. CASE ReleaseIP(t)
  <2>1. task[t] \in IpTask /\ Runs(t) /\ SameIp(task[t], task'[t]) /\ task'[t].pc = "ip"
    BY <1>8, ReleaseIPEffect
  <2>2. released' \subseteq released \cup {<<task[t].uuid, t, task[t].tries>>}
    BY <1>8, ReleaseIPEffect, ReleasingEffect
  <2> QED BY <2>1, <2>2, UnusedShape, AttemptsNext DEF SameIp, Waits
<1>9. CASE DeleteIpRow(t)
  <2>1. task[t] \in IpTask /\ Runs(t) /\ SameIp(task[t], task'[t]) /\ task'[t].pc = "done"
    BY <1>9, DeleteIpRowEffect
  <2>2. released' \subseteq released \cup {<<task[t].uuid, t, task[t].tries>>}
    BY <1>9, DeleteIpRowEffect, ReleasingEffect
  <2> QED BY <2>1, <2>2, UnusedShape, AttemptsNext DEF SameIp, Waits
<1>10. CASE TaskDies(t)
  BY <1>0, <1>10, TaskDiesEffect, UnusedShape, AttemptsNext
<1> QED BY <1>1, <1>2, <1>3, <1>4, <1>5, <1>6, <1>7, <1>8, <1>9, <1>10 DEF Task

-----------------------------------------------------------------------------
(* Addresses of ips.  Nobody but the task that deletes an ip gives back its  *)
(* address, and an address is acquired for one call.                         *)

Triple(c) == <<c.ns, c.prefix, c.address>>
HasIp(r) == req[r].pc = "ipRow"

(* A task that is the first to release an ip finds the row as it read it.    *)
RowsRead ==
    \A t \in Tasks : ReleasesIp(task[t]) /\ FreshFor(t, task[t].uuid) =>
      /\ ips[task[t].key] # None /\ ips[task[t].key].uuid = task[t].uuid
      /\ ips[task[t].key].prefix = task[t].prefix
LiveBacked ==
    \A k \in IpKeys : ips[k] # None /\ ~BeingReleased(ips[k].uuid) => <<k[1], ips[k].prefix, k[2]>> \in acquired
CallsBacked == \A r \in Requests : HasIp(r) => Triple(req[r]) \in acquired
CallsAlone == \A r, x \in Requests : HasIp(r) /\ HasIp(x) /\ Triple(req[r]) = Triple(req[x]) => r = x
CallsFresh ==
    \A r \in Requests, k \in IpKeys :
      HasIp(r) /\ ips[k] # None /\ Triple(req[r]) = <<k[1], ips[k].prefix, k[2]>> => BeingReleased(ips[k].uuid)
Backed == RowsRead /\ LiveBacked /\ CallsBacked /\ CallsAlone /\ CallsFresh

AddressInv == TypeInv /\ Places /\ Attempts /\ (Unless({"again"}) => Backed)

LEMMA ReleasedStays ==
  ASSUME released \subseteq released', NEW e, BeingReleased(e)
  PROVE  \E x \in released' : x[1] = e
BY DEF BeingReleased

(* Calls and tasks that leave the ips alone.                                 *)
LEMMA BackedStays ==
  ASSUME TypeInv, Backed, UNCHANGED <<ips, acquired>>, released \subseteq released',
         \A r \in Requests : req'[r].pc = "ipRow" => req'[r] = req[r],
         \A t \in Tasks : ReleasesIp(task'[t]) => task'[t] = task[t]
  PROVE  Backed'
<1>1. RowsRead'
  BY DEF Backed, RowsRead, ReleasesIp, FreshFor
<1>2. LiveBacked'
  BY DEF Backed, LiveBacked, BeingReleased
<1>3. CallsBacked' /\ CallsAlone'
  BY DEF Backed, CallsBacked, CallsAlone, HasIp, Triple
<1>4. CallsFresh'
  BY DEF Backed, CallsFresh, HasIp, Triple, BeingReleased
<1> QED BY <1>1, <1>2, <1>3, <1>4 DEF Backed

LEMMA BackedIpAcquire ==
  ASSUME TypeInv, Backed, NEW r \in Requests, IpAcquire(r)
  PROVE  Backed'
<1>1. Moves(r) /\ UNCHANGED <<ips, task, released>>
  BY IpAcquireEffect
<1>2. CASE acquired' = acquired /\ req'[r] = Idle
  <2>1. Idle.pc = "idle"
    BY DEF Idle
  <2>2. \A x \in Requests : req'[x].pc = "ipRow" => req'[x] = req[x]
    BY <1>1, <1>2, <2>1 DEF Moves, OthersStay
  <2> QED BY <1>1, <1>2, <2>2, BackedStays
<1>3. ASSUME NEW x, x \notin acquired, acquired' = acquired \cup {x},
             req'[r] \in IpRowCall, Triple(req'[r]) = x
      PROVE  Backed'
  <2>1. \A y \in Requests : y # r => req'[y] = req[y]
    BY <1>1 DEF Moves, OthersStay
  <2>2. RowsRead'
    BY <1>1 DEF Backed, RowsRead, ReleasesIp, FreshFor
  <2>3. LiveBacked'
    BY <1>1, <1>3 DEF Backed, LiveBacked, BeingReleased
  <2>4. CallsBacked'
    BY <1>3, <2>1 DEF Backed, CallsBacked, HasIp
  <2>5. CallsAlone'
    BY <1>3, <2>1 DEF Backed, CallsBacked, CallsAlone, HasIp
  <2>6. CallsFresh'
    BY <1>1, <1>3, <2>1 DEF Backed, CallsFresh, LiveBacked, HasIp, BeingReleased
  <2> QED BY <2>2, <2>3, <2>4, <2>5, <2>6 DEF Backed
<1>4. ASSUME NEW p \in req[r].nw.prefixes, NEW a \in Addresses,
             <<req[r].nw.ns, p, a>> \notin acquired, acquired' = acquired \cup {<<req[r].nw.ns, p, a>>},
             req'[r] \in IpRowCall, req'[r].ns = req[r].nw.ns, req'[r].prefix = p, req'[r].address = a
      PROVE  Backed'
  BY <1>3, <1>4 DEF Triple
<1> QED BY <1>2, <1>4, IpAcquireEffect

LEMMA BackedIpRow ==
  ASSUME TypeInv, Backed, NEW r \in Requests, IpRow(r)
  PROVE  Backed'
<1>1. /\ Moves(r) /\ UNCHANGED <<acquired, task, released>> /\ req'[r] = Idle
      /\ req[r] \in IpRowCall /\ HasIp(r)
  BY IpRowEffect DEF HasIp
<1>2. \A x \in Requests : req'[x].pc = "ipRow" => x # r /\ req'[x] = req[x]
  BY <1>1 DEF Idle, Moves, OthersStay
<1>3. CASE ips' = ips
  BY <1>1, <1>2, <1>3, BackedStays
<1> DEFINE key == <<req[r].ns, req[r].address>>
<1>4. ASSUME NEW ip \in IpType, ips[key] = None, ips' = [ips EXCEPT ![key] = ip], ip.prefix = req[r].prefix
      PROVE  Backed'
  <2>1. /\ key \in IpKeys /\ key[1] = req[r].ns /\ key[2] = req[r].address
        /\ Triple(req[r]) = <<key[1], ip.prefix, key[2]>>
    BY <1>1, <1>4 DEF IpRowCall, IpKeys, Triple
  <2> HIDE DEF key
  <2>2. ips'[key] = ip /\ \A k \in IpKeys : k # key => ips'[k] = ips[k]
    BY <1>4, <2>1 DEF TypeInv, TypeOK
  <2>3. RowsRead'
    <3> SUFFICES ASSUME NEW t \in Tasks, ReleasesIp(task[t]), FreshFor(t, task[t].uuid)
                 PROVE  /\ ips'[task[t].key] # None /\ ips'[task[t].key].uuid = task[t].uuid
                        /\ ips'[task[t].key].prefix = task[t].prefix
      BY <1>1 DEF RowsRead, FreshFor
    <3>1. /\ ips[task[t].key] # None /\ ips[task[t].key].uuid = task[t].uuid
          /\ ips[task[t].key].prefix = task[t].prefix /\ task[t].key \in IpKeys
      BY DEF Backed, RowsRead, ReleasesIp, IpTask
    <3> QED BY <1>4, <2>2, <3>1
  <2>4. LiveBacked'
    <3> SUFFICES ASSUME NEW k \in IpKeys, ips'[k] # None, ~BeingReleased(ips'[k].uuid)
                 PROVE  <<k[1], ips'[k].prefix, k[2]>> \in acquired
      BY <1>1 DEF LiveBacked, BeingReleased
    <3>1. CASE k = key
      BY <1>1, <1>4, <2>1, <2>2, <3>1 DEF Backed, CallsBacked
    <3>2. CASE k # key
      BY <2>2, <3>2 DEF Backed, LiveBacked
    <3> QED BY <3>1, <3>2
  <2>5. CallsBacked' /\ CallsAlone'
    BY <1>1, <1>2 DEF Backed, CallsBacked, CallsAlone, HasIp
  <2>6. CallsFresh'
    <3> SUFFICES ASSUME NEW x \in Requests, NEW k \in IpKeys, HasIp(x), x # r, ips'[k] # None,
                        Triple(req[x]) = <<k[1], ips'[k].prefix, k[2]>>
                 PROVE  BeingReleased(ips'[k].uuid)
      BY <1>1, <1>2 DEF CallsFresh, HasIp, BeingReleased
    <3>1. CASE k = key
      BY <1>1, <1>4, <2>1, <2>2, <3>1 DEF Backed, CallsAlone
    <3>2. CASE k # key
      BY <2>2, <3>2 DEF Backed, CallsFresh
    <3> QED BY <3>1, <3>2
  <2> QED BY <2>3, <2>4, <2>5, <2>6 DEF Backed
<1> QED BY <1>3, <1>4, IpRowEffect

LEMMA BackedReadIp ==
  ASSUME TypeInv, Backed, NEW t \in Tasks, ReadIp(t)
  PROVE  Backed'
<1>1. Runs(t) /\ UNCHANGED <<ips, acquired, req, released>>
  BY ReadIpEffect
<1>2. CASE ~ReleasesIp(task'[t])
  <2>1. \A x \in Tasks : ReleasesIp(task'[x]) => task'[x] = task[x]
    BY <1>1, <1>2 DEF Runs
  <2> QED BY <1>1, <2>1, BackedStays
<1>3. CASE \E k \in IpKeys :
             /\ ips[k] # None /\ ips[k].uuid = task[t].uuid /\ task'[t].uuid = task[t].uuid
             /\ task'[t].key = k /\ task'[t].prefix = ips[k].prefix
  <2>1. RowsRead'
    BY <1>1, <1>3 DEF Backed, RowsRead, ReleasesIp, FreshFor, Runs
  <2>2. LiveBacked' /\ CallsBacked' /\ CallsAlone' /\ CallsFresh'
    BY <1>1 DEF Backed, LiveBacked, CallsBacked, CallsAlone, CallsFresh, HasIp, BeingReleased
  <2> QED BY <2>1, <2>2 DEF Backed
<1> QED BY <1>2, <1>3, ReadIpEffect DEF Done, Again, ReleasesIp

LEMMA BackedReleaseIP ==
  ASSUME TypeInv, Places, Attempts, Backed, NEW t \in Tasks, ReleaseIP(t), "again" \notin mishap'
  PROVE  Backed'
<1>1. /\ Runs(t) /\ task[t] \in IpTask /\ task[t].pc = "address" /\ SameIp(task[t], task'[t]) /\ task'[t].pc = "ip"
      /\ UNCHANGED <<ips, req>>
      /\ acquired' = acquired \ (IF task[t].ns = None THEN {<<None, task[t].prefix, task[t].key[2]>>} ELSE {})
  BY ReleaseIPEffect
<1> DEFINE u == task[t].uuid
           key == task[t].key
           x == <<key[1], task[t].prefix, key[2]>>
<1>2. FreshFor(t, u) /\ released \subseteq released' /\ <<u, t, task[t].tries>> \in released'
  BY ReleaseIPEffect, ReleasingEffect
<1>3. ~BeingReleased(u)
  <2>1. task[t].tries \in Nat /\ Waits(task[t])
    BY <1>1 DEF IpTask, Waits
  <2>2. ASSUME NEW y \in released, y[1] = u PROVE FALSE
    <3>1. y = <<u, t, task[t].tries>>
      BY <1>2, <2>2 DEF FreshFor
    <3>2. y[2] = t /\ y[3] = task[t].tries
      BY <3>1
    <3> QED BY <2>1, <2>2, <3>2 DEF Attempts
  <2> QED BY <2>2 DEF BeingReleased
<1>4. /\ key \in IpKeys /\ ips[key] # None /\ ips[key].uuid = u /\ ips[key].prefix = task[t].prefix
      /\ task[t].ns = key[1]
  BY <1>1, <1>2 DEF Backed, RowsRead, ReleasesIp, IpTask, Places
<1>5. acquired \ {x} \subseteq acquired'
  BY <1>1, <1>4
<1>6. \E y \in released' : y[1] = u
  BY <1>2
<1> HIDE DEF u, x
<1>7. RowsRead'
  <2> SUFFICES ASSUME NEW s \in Tasks, ReleasesIp(task'[s]), FreshFor(s, task[s].uuid)'
               PROVE  /\ ips[task'[s].key] # None /\ ips[task'[s].key].uuid = task'[s].uuid
                      /\ ips[task'[s].key].prefix = task'[s].prefix
    BY <1>1 DEF RowsRead, FreshFor
  <2>1. CASE s = t
    BY <1>1, <1>4, <2>1 DEF SameIp, u
  <2>2. CASE s # t
    <3>1. task'[s] = task[s] /\ FreshFor(s, task[s].uuid)
      BY <1>1, <1>2, <2>2 DEF Runs, FreshFor
    <3> QED BY <3>1 DEF Backed, RowsRead
  <2> QED BY <2>1, <2>2
<1>8. LiveBacked'
  <2> SUFFICES ASSUME NEW k \in IpKeys, ips[k] # None, ~BeingReleased(ips[k].uuid)'
               PROVE  <<k[1], ips[k].prefix, k[2]>> \in acquired'
    BY <1>1 DEF LiveBacked, BeingReleased
  <2>1. ips[k].uuid # u /\ ~BeingReleased(ips[k].uuid)
    BY <1>1, <1>2, <1>6 DEF BeingReleased
  <2>2. <<k[1], ips[k].prefix, k[2]>> \in acquired
    BY <2>1 DEF Backed, LiveBacked
  <2>3. k # key
    BY <1>4, <2>1
  <2>4. k[1] # key[1] \/ k[2] # key[2]
    BY <1>4, <2>3 DEF IpKeys
  <2>5. <<k[1], ips[k].prefix, k[2]>> # x
    BY <2>4 DEF x
  <2> QED BY <1>5, <2>2, <2>5
<1>9. \A r \in Requests : HasIp(r) => Triple(req[r]) # x
  BY <1>3, <1>4 DEF Backed, CallsFresh, x
<1>10. CallsBacked' /\ CallsAlone'
  BY <1>1, <1>5, <1>9 DEF Backed, CallsBacked, CallsAlone, HasIp, Triple
<1>11. CallsFresh'
  BY <1>1, <1>2 DEF Backed, CallsFresh, HasIp, Triple, BeingReleased
<1> QED BY <1>7, <1>8, <1>10, <1>11 DEF Backed

LEMMA BackedDeleteIpRow ==
  ASSUME TypeInv, Backed, NEW t \in Tasks, DeleteIpRow(t), "again" \notin mishap'
  PROVE  Backed'
<1>1. /\ Runs(t) /\ task[t] \in IpTask /\ task[t].pc = "ip" /\ task'[t].pc = "done"
      /\ UNCHANGED <<acquired, req>> /\ ips' = [ips EXCEPT ![task[t].key] = None]
  BY DeleteIpRowEffect
<1> DEFINE u == task[t].uuid
           key == task[t].key
<1>2. FreshFor(t, u) /\ released \subseteq released' /\ <<u, t, task[t].tries>> \in released'
  BY DeleteIpRowEffect, ReleasingEffect
<1>3. key \in IpKeys /\ ips[key] # None /\ ips[key].uuid = u
  BY <1>1, <1>2 DEF Backed, RowsRead, ReleasesIp, IpTask
<1>4. ips'[key] = None /\ \A k \in IpKeys : k # key => ips'[k] = ips[k]
  BY <1>1, <1>3 DEF TypeInv, TypeOK
<1>5. RowsRead'
  <2> SUFFICES ASSUME NEW s \in Tasks, ReleasesIp(task'[s]), FreshFor(s, task[s].uuid)'
               PROVE  /\ ips'[task'[s].key] # None /\ ips'[task'[s].key].uuid = task'[s].uuid
                      /\ ips'[task'[s].key].prefix = task'[s].prefix
    BY DEF RowsRead, FreshFor
  <2>1. s # t /\ task'[s] = task[s]
    BY <1>1 DEF Runs, ReleasesIp
  <2>2. FreshFor(s, task[s].uuid)
    BY <1>2, <2>1 DEF FreshFor
  <2>3. /\ ips[task[s].key] # None /\ ips[task[s].key].uuid = task[s].uuid
        /\ ips[task[s].key].prefix = task[s].prefix /\ task[s].key \in IpKeys
    BY <2>1, <2>2 DEF Backed, RowsRead, ReleasesIp, IpTask
  <2>4. task[s].uuid # u
    BY <1>2, <2>1 DEF FreshFor
  <2>5. task[s].key # key
    BY <1>3, <2>3, <2>4
  <2> QED BY <1>4, <2>1, <2>3, <2>5
<1>6. LiveBacked'
  BY <1>1, <1>2, <1>4 DEF Backed, LiveBacked, BeingReleased
<1>7. CallsBacked' /\ CallsAlone'
  BY <1>1 DEF Backed, CallsBacked, CallsAlone, HasIp, Triple
<1>8. CallsFresh'
  BY <1>1, <1>2, <1>4 DEF Backed, CallsFresh, HasIp, Triple, BeingReleased
<1> QED BY <1>5, <1>6, <1>7, <1>8 DEF Backed

LEMMA AddressInit == Init => AddressInv
<1> SUFFICES ASSUME Init PROVE AddressInv
  OBVIOUS
<1>1. /\ ips = [k \in IpKeys |-> None] /\ req = [r \in Requests |-> Idle] /\ task = [t \in Tasks |-> [pc |-> "unused"]]
      /\ released = {}
  BY DEF Init
<1>2. Backed
  BY <1>1 DEF Backed, RowsRead, LiveBacked, CallsBacked, CallsAlone, CallsFresh, ReleasesIp, IpTask, HasIp, Idle
<1> QED BY <1>1, <1>2, TypeInit, PlacesInit DEF AddressInv, Attempts

LEMMA AddressStep == AddressInv /\ [Next]_vars => AddressInv'
<1> SUFFICES ASSUME AddressInv, [Next]_vars PROVE AddressInv'
  OBVIOUS
<1> USE DEF AddressInv
<1>1. ASSUME NEW r \in Requests, Request(r) PROVE AddressInv'
  <2>1. TypeInv' /\ Places' /\ RowsMove
    BY <1>1, RequestTypes, PlacesRequest, RequestMoves DEF Places
  <2>2. UNCHANGED <<task, released>>
    BY <1>1, NetworkCallStays, ValidateIpEffect, IpAcquireEffect, IpRowEffect DEF Request, NetworkCall
  <2>3. Attempts'
    BY <2>2 DEF Attempts
  <2>4. ASSUME Unless({"again"})' PROVE Backed'
    <3>1. Backed
      BY <2>1, <2>4 DEF Unless, RowsMove
    <3>2. CASE NetworkCall(r)
      <4>1. \A x \in Requests : req'[x].pc = "ipRow" => req'[x] = req[x]
        BY <3>2, NetworkCallStays DEF Moves, OthersStay, IpSteps
      <4> QED BY <2>2, <3>1, <3>2, <4>1, NetworkCallStays, BackedStays
    <3>3. ASSUME NEW q \in IpRequests, ValidateIp(r, q) PROVE Backed'
      <4>1. \A x \in Requests : req'[x].pc = "ipRow" => req'[x] = req[x]
        BY <3>3, ValidateIpEffect DEF Moves, OthersStay
      <4> QED BY <2>2, <3>1, <3>3, <4>1, ValidateIpEffect, BackedStays
    <3> QED BY <1>1, <3>1, <3>2, <3>3, BackedIpAcquire, BackedIpRow DEF Request, NetworkCall
  <2> QED BY <2>1, <2>3, <2>4
<1>2. ASSUME NEW t \in Tasks, Task(t) PROVE AddressInv'
  <2>1. TypeInv' /\ Places' /\ RowsMove /\ Attempts'
    BY <1>2, TaskStepTypes, PlacesTask, TaskMoves, AttemptsTask
  <2>2. ASSUME Unless({"again"})' PROVE Backed'
    <3>1. Backed /\ "again" \notin mishap'
      BY <2>1, <2>2 DEF Unless, RowsMove
    <3>2. CASE NetworkTask(t)
      <4>1. \A x \in Tasks : ReleasesIp(task'[x]) => task'[x] = task[x]
        BY <3>2, NetworkTaskStays DEF Runs
      <4> QED BY <2>1, <3>1, <3>2, <4>1, NetworkTaskStays, BackedStays DEF RowsMove
    <3>3. ASSUME NEW k \in IpKeys, DeleteIp(t, k) PROVE Backed'
      <4>1. \A x \in Tasks : ReleasesIp(task'[x]) => task'[x] = task[x]
        BY <3>3, DeleteIpEffect DEF Runs, ReleasesIp
      <4> QED BY <3>1, <3>3, <4>1, DeleteIpEffect, BackedStays
    <3> QED BY <1>2, <3>1, <3>2, <3>3, BackedReadIp, BackedReleaseIP, BackedDeleteIpRow DEF Task, NetworkTask
  <2> QED BY <2>1, <2>2
<1>3. CASE UNCHANGED vars
  <2>1. TypeInv'
    BY <1>3 DEF vars, TypeInv, TypeOK
  <2>2. Places' /\ Attempts'
    BY <1>3 DEF vars, Places, Stored, LivesIn, Attempts
  <2>3. Unless({"again"})' => Backed'
    BY <1>3, BackedStays DEF vars, Unless
  <2> QED BY <2>1, <2>2, <2>3
<1> QED BY <1>1, <1>2, <1>3 DEF Next

(* The address of an ip that nobody deletes stays acquired in the ipam,      *)
(* however creations and deletions overlap, unless a deletion is repeated.   *)
THEOREM AddressesBacked == Spec => []AddressBacked
<1>1. AddressInv => AddressBacked
  BY DEF AddressInv, Backed, LiveBacked, AddressBacked
<1> QED BY AddressInit, AddressStep, <1>1, PTL DEF Spec

-----------------------------------------------------------------------------
(* Vrfs and addresses that are taken belong to somebody.                     *)

Releases(c) == c \in NetTask /\ c.pc \in {"prefix", "vrf", "row"}
Holds(r, v) == req[r].pc \in {"rootRow", "childRow"} /\ req[r].row.vrf = v
(* A task that is the first to release the network only has to delete the row. *)
Doomed(i) == \E t \in Tasks : Releases(task[t]) /\ task[t].pc = "row" /\ task[t].network = i /\ FreshFor(t, i)

VrfsHeld ==
    \A v \in Vrfs \ vrfs : \/ \E i \in Stored : rows[i].vrf = v /\ ~Doomed(i)
                           \/ \E r \in Requests : Holds(r, v)
(* A task that is the first to release a network finds its vrf as it read it. *)
VrfsRead ==
    \A t \in Tasks : Releases(task[t]) /\ FreshFor(t, task[t].network) =>
      rows[task[t].network] # None /\ rows[task[t].network].vrf = task[t].row.vrf
AddressesHeld ==
    \A x \in acquired : x[1] = None =>
      \/ ips[<<None, x[3]>>] # None /\ ips[<<None, x[3]>>].prefix = x[2]
      \/ \E r \in Requests : HasIp(r) /\ Triple(req[r]) = x
(* The row of an ip is deleted after its address is given back, to one call at most. *)
AddressesAwaited ==
    \A t \in Tasks :
      /\ ReleasesIp(task[t]) /\ task[t].pc = "ip" /\ FreshFor(t, task[t].uuid)
      /\ task[t].key[1] = None /\ <<None, task[t].prefix, task[t].key[2]>> \in acquired
      => \E r \in Requests : HasIp(r) /\ Triple(req[r]) = <<None, task[t].prefix, task[t].key[2]>>

LossInv ==
    /\ AddressInv
    /\ Unless({"again"}) => VrfsRead
    /\ Unless({"halfway", "again"}) => VrfsHeld /\ AddressesHeld /\ AddressesAwaited

(* Requests never remove a row, and never change its vrf or its parent.      *)
RowsKeep ==
    \A i \in Stored : /\ rows'[i] # None /\ rows'[i].vrf = rows[i].vrf
                      /\ rows'[i].parent = rows[i].parent /\ rows'[i].ns = rows[i].ns

LEMMA RequestKeepsRows ==
  ASSUME TypeInv, Stored \subseteq used, NEW r \in Requests, Request(r)
  PROVE  RowsKeep /\ UNCHANGED <<task, released>>
<1>a. rows' = rows => RowsKeep
  BY DEF RowsKeep, Stored
<1>b. UNCHANGED <<task, released>>
  BY NetworkCallStays, ValidateIpEffect, IpAcquireEffect, IpRowEffect DEF Request, NetworkCall
<1>1. CASE RootRow(r)
  <2>1. CASE rows[req[r].id] = None /\ rows' = [rows EXCEPT ![req[r].id] = req[r].row]
    <3>1. \A i \in Stored : rows'[i] = rows[i] /\ rows[i] # None
      BY <2>1 DEF Stored, TypeInv, TypeOK
    <3> QED BY <1>b, <3>1 DEF RowsKeep
  <2> QED BY <1>1, <1>a, <1>b, <2>1, RootRowEffect
<1>2. CASE ChildRow(r)
  BY <1>2, <1>b, ChildRowEffect DEF RowsKeep, Stored, TypeInv, TypeOK
<1>3. CASE UpdateRow(r)
  <2>1. CASE /\ rows[req[r].id] = req[r].row
             /\ rows' = [rows EXCEPT ![req[r].id] = [req[r].row EXCEPT !.prefixes = req[r].prefixes]]
    <3>1. [req[r].row EXCEPT !.prefixes = req[r].prefixes] \in RootRows /\ req[r].row \in RootRows
      BY <1>3, UpdateRowEffect DEF UpdateCall, RootRows
    <3>2. /\ [req[r].row EXCEPT !.prefixes = req[r].prefixes].vrf = req[r].row.vrf
          /\ [req[r].row EXCEPT !.prefixes = req[r].prefixes].parent = req[r].row.parent
          /\ [req[r].row EXCEPT !.prefixes = req[r].prefixes].ns = req[r].row.ns
      BY <3>1 DEF RootRows
    <3> DEFINE row == [req[r].row EXCEPT !.prefixes = req[r].prefixes]
    <3>3. row # None
      BY <3>1, RowKinds
    <3> HIDE DEF row
    <3>4. rows' = [rows EXCEPT ![req[r].id] = row]
      BY <2>1 DEF row
    <3>5. row.vrf = req[r].row.vrf /\ row.parent = req[r].row.parent /\ row.ns = req[r].row.ns
      BY <3>2 DEF row
    <3> QED BY <2>1, <1>b, <3>3, <3>4, <3>5 DEF RowsKeep, Stored, TypeInv, TypeOK
  <2> QED BY <1>3, <1>a, <1>b, <2>1, UpdateRowEffect
<1> QED BY <1>a, <1>b, <1>1, <1>2, <1>3, ValidateRootEffect, RootVrfEffect, RootPrefixEffect, ValidateChildEffect,
        ChildParentEffect, ChildPrefixEffect, ChildVrfEffect, ValidateUpdateEffect, UpdateRemoveEffect, UpdateAddEffect,
        ValidateIpEffect, IpAcquireEffect, IpRowEffect DEF Request

LEMMA VrfsHeldNext ==
  ASSUME VrfsHeld, UNCHANGED <<task, released>>, RowsKeep, NEW r \in Requests, OthersStay(r),
         \A v \in vrfs \ vrfs' : Holds(r, v)',
         \A v \in Vrfs : Holds(r, v) => Holds(r, v)' \/ \E i \in Ids : rows'[i] # None /\ rows'[i].vrf = v /\ ~Doomed(i)
  PROVE  VrfsHeld'
<1>0. \A i : Doomed(i)' <=> Doomed(i)
  BY DEF Doomed, FreshFor
<1> SUFFICES ASSUME NEW v \in Vrfs \ vrfs'
             PROVE  \/ \E i \in Stored' : rows'[i].vrf = v /\ ~Doomed(i)
                    \/ \E x \in Requests : Holds(x, v)'
  BY <1>0 DEF VrfsHeld
<1>1. CASE v \in vrfs
  BY <1>1
<1>2. CASE \E i \in Stored : rows[i].vrf = v /\ ~Doomed(i)
  BY <1>2 DEF RowsKeep, Stored
<1>3. ASSUME NEW x \in Requests, x # r, Holds(x, v) PROVE Holds(x, v)'
  BY <1>3 DEF Holds, OthersStay
<1>4. CASE Holds(r, v)
  BY <1>4 DEF Stored
<1> QED BY <1>1, <1>2, <1>3, <1>4 DEF VrfsHeld

LEMMA VrfsHeldSame ==
  ASSUME VrfsHeld, UNCHANGED <<task, released>>, RowsKeep, NEW r \in Requests, OthersStay(r), vrfs' = vrfs,
         req[r].pc \notin {"rootRow", "childRow"}
  PROVE  VrfsHeld'
<1>1. \A v : ~Holds(r, v)
  BY DEF Holds
<1> QED BY <1>1, VrfsHeldNext

(* A network without a row is not doomed.                                    *)
LEMMA NotDoomed ==
  ASSUME VrfsRead, NEW i, rows[i] = None PROVE ~Doomed(i)
BY DEF VrfsRead, Doomed

LEMMA VrfsHeldRequest ==
  ASSUME TypeInv, Stored \subseteq used, VrfsHeld, VrfsRead, NEW r \in Requests, Request(r), "halfway" \notin mishap'
  PROVE  VrfsHeld'
<1>0. RowsKeep /\ UNCHANGED <<task, released>>
  BY RequestKeepsRows
<1> USE DEF Moves
<1>1. ASSUME NEW q \in RootRequests, ValidateRoot(r, q) PROVE VrfsHeld'
  BY <1>0, <1>1, ValidateRootEffect, VrfsHeldSame DEF Idle
<1>2. CASE RootVrf(r)
  <2>1. \A v : ~Holds(r, v)
    BY <1>2, RootVrfEffect DEF Holds
  <2>2. \A v \in vrfs \ vrfs' : Holds(r, v)'
    BY <1>2, RootVrfEffect DEF Holds
  <2> QED BY <1>0, <1>2, <2>1, <2>2, RootVrfEffect, VrfsHeldNext
<1>3. CASE RootRow(r)
  <2>1. CASE rows[req[r].id] = None /\ rows' = [rows EXCEPT ![req[r].id] = req[r].row]
    <3>1. req[r].id \in Ids /\ req[r].row # None /\ rows'[req[r].id] = req[r].row
      BY <1>3, <2>1, RootRowEffect, RowKinds DEF RootCall, Ids, TypeInv, TypeOK
    <3>2. ~Doomed(req[r].id)
      BY <2>1, NotDoomed
    <3>3. \A v \in Vrfs : Holds(r, v) => \E i \in Ids : rows'[i] # None /\ rows'[i].vrf = v /\ ~Doomed(i)
      BY <3>1, <3>2 DEF Holds
    <3> QED BY <1>0, <1>3, <3>3, RootRowEffect, VrfsHeldNext
  <2>2. CASE mishap' = mishap \cup (IF req[r].row.vrf # 0 THEN {"halfway"} ELSE {})
    <3>1. \A v \in Vrfs : ~Holds(r, v)
      BY <2>2, NamesAssumption DEF Holds
    <3> QED BY <1>0, <1>3, <3>1, RootRowEffect, VrfsHeldNext
  <2> QED BY <1>3, <2>1, <2>2, RootRowEffect
<1>4. CASE RootPrefix(r)
  BY <1>0, <1>4, RootPrefixEffect, VrfsHeldSame
<1>5. ASSUME NEW q \in ChildRequests, ValidateChild(r, q) PROVE VrfsHeld'
  BY <1>0, <1>5, ValidateChildEffect, VrfsHeldSame DEF Idle
<1>6. CASE ChildParent(r)
  BY <1>0, <1>6, ChildParentEffect, VrfsHeldSame
<1>7. CASE ChildPrefix(r)
  BY <1>0, <1>7, ChildPrefixEffect, VrfsHeldSame
<1>8. CASE ChildVrf(r)
  <2>1. \A v : ~Holds(r, v)
    BY <1>8, ChildVrfEffect DEF Holds
  <2>2. \A v \in vrfs \ vrfs' : Holds(r, v)'
    BY <1>8, ChildVrfEffect DEF Holds
  <2> QED BY <1>0, <1>8, <2>1, <2>2, ChildVrfEffect, VrfsHeldNext
<1>9. CASE ChildRow(r)
  <2>1. PICK i \in ChildIds \ used : rows' = [rows EXCEPT ![i] = req[r].row]
    BY <1>9, ChildRowEffect
  <2>2. i \in Ids /\ rows[i] = None /\ req[r].row # None /\ rows'[i] = req[r].row
    BY <1>9, <2>1, ChildRowEffect, RowKinds DEF ChildCall, Ids, TypeInv, TypeOK, Stored
  <2>3. ~Doomed(i)
    BY <2>2, NotDoomed
  <2>4. \A v \in Vrfs : Holds(r, v) => \E j \in Ids : rows'[j] # None /\ rows'[j].vrf = v /\ ~Doomed(j)
    BY <2>2, <2>3 DEF Holds
  <2> QED BY <1>0, <1>9, <2>4, ChildRowEffect, VrfsHeldNext
<1>10. ASSUME NEW q \in UpdateRequests, ValidateUpdate(r, q) PROVE VrfsHeld'
  BY <1>0, <1>10, ValidateUpdateEffect, VrfsHeldSame DEF Idle
<1>11. CASE UpdateRemove(r)
  BY <1>0, <1>11, UpdateRemoveEffect, VrfsHeldSame
<1>12. CASE UpdateAdd(r)
  BY <1>0, <1>12, UpdateAddEffect, VrfsHeldSame
<1>13. CASE UpdateRow(r)
  BY <1>0, <1>13, UpdateRowEffect, VrfsHeldSame
<1>14. ASSUME NEW q \in IpRequests, ValidateIp(r, q) PROVE VrfsHeld'
  BY <1>0, <1>14, ValidateIpEffect, VrfsHeldSame DEF Idle
<1>15. CASE IpAcquire(r)
  BY <1>0, <1>15, IpAcquireEffect, VrfsHeldSame
<1>16. CASE IpRow(r)
  BY <1>0, <1>16, IpRowEffect, VrfsHeldSame
<1> QED BY <1>1, <1>2, <1>3, <1>4, <1>5, <1>6, <1>7, <1>8, <1>9, <1>10, <1>11, <1>12, <1>13, <1>14, <1>15, <1>16
        DEF Request

LEMMA VrfsReadRequest ==
  ASSUME TypeInv, Stored \subseteq used, VrfsRead, NEW r \in Requests, Request(r)
  PROVE  VrfsRead'
<1>1. RowsKeep /\ UNCHANGED <<task, released>>
  BY RequestKeepsRows
<1>2. \A t \in Tasks : Releases(task[t]) => task[t].network \in Ids
  BY DEF Releases, NetTask
<1> QED BY <1>1, <1>2 DEF VrfsRead, FreshFor, RowsKeep, Stored

(* A step of a task that does not touch the network table.                   *)
LEMMA VrfsTaskNext ==
  ASSUME VrfsRead, NEW t \in Tasks, Runs(t), UNCHANGED <<rows, req>>, vrfs \subseteq vrfs',
         released \subseteq released',
         \/ ~Releases(task'[t])
         \/ /\ Releases(task[t]) /\ SameNet(task[t], task'[t])
            /\ task'[t].pc = "row" => \A v \in Vrfs : task[t].row.vrf = v => v \in vrfs'
         \/ /\ task'[t].pc = "prefix" /\ rows[task'[t].network] # None
            /\ rows[task'[t].network].vrf = task'[t].row.vrf
  PROVE  (VrfsHeld => VrfsHeld') /\ VrfsRead'
<1>1. \A x \in Tasks : \A i : x # t \/ SameNet(task[t], task'[t]) => (FreshFor(x, i)' => FreshFor(x, i))
  BY DEF FreshFor, Runs, SameNet
<1>2. VrfsRead'
  <2> SUFFICES ASSUME NEW x \in Tasks, Releases(task'[x]), FreshFor(x, task[x].network)'
               PROVE  rows[task'[x].network] # None /\ rows[task'[x].network].vrf = task'[x].row.vrf
    BY DEF VrfsRead, FreshFor
  <2>1. CASE x # t
    <3>1. task'[x] = task[x] /\ FreshFor(x, task[x].network)
      BY <1>1, <2>1 DEF Runs, FreshFor
    <3> QED BY <3>1 DEF VrfsRead
  <2>2. CASE x = t /\ Releases(task[t]) /\ SameNet(task[t], task'[t])
    <3>1. task'[t].network = task[t].network /\ task'[t].row = task[t].row /\ task'[t].tries = task[t].tries
      BY <2>2 DEF SameNet
    <3>2. FreshFor(t, task[t].network)
      BY <2>2, <3>1 DEF FreshFor
    <3> QED BY <2>2, <3>1, <3>2 DEF VrfsRead
  <2> QED BY <2>1, <2>2
<1>3. VrfsHeld => VrfsHeld'
  <2> SUFFICES ASSUME VrfsHeld, NEW v \in Vrfs \ vrfs', NEW i \in Stored, rows[i].vrf = v, ~Doomed(i), Doomed(i)'
               PROVE  FALSE
    BY DEF VrfsHeld, Holds, Stored
  <2>1. PICK x \in Tasks : Releases(task'[x]) /\ task'[x].pc = "row" /\ task'[x].network = i /\ FreshFor(x, i)'
    BY DEF Doomed, Releases
  <2>2. CASE x # t
    <3>1. task'[x] = task[x] /\ FreshFor(x, i)
      BY <1>1, <2>1, <2>2 DEF Runs
    <3> QED BY <2>1, <3>1 DEF Doomed
  <2>3. CASE x = t
    <3>1. Releases(task[t]) /\ SameNet(task[t], task'[t]) /\ \A w \in Vrfs : task[t].row.vrf = w => w \in vrfs'
      BY <2>1, <2>3
    <3>2. task[t].network = i /\ FreshFor(t, i)
      BY <1>1, <2>1, <2>3, <3>1 DEF SameNet
    <3>3. rows[i].vrf = task[t].row.vrf
      BY <3>1, <3>2 DEF VrfsRead
    <3> QED BY <3>1, <3>3
  <2> QED BY <2>2, <2>3
<1> QED BY <1>2, <1>3

LEMMA VrfsTask ==
  ASSUME TypeInv, VrfsRead, NEW t \in Tasks, Task(t), "again" \notin mishap'
  PROVE  (VrfsHeld => VrfsHeld') /\ VrfsRead'
<1>0. released \subseteq released'
  BY TaskMoves DEF RowsMove
<1>a. \A c \in NetQueued \cup IpQueued \cup IpTask : ~Releases(c)
  BY DEF NetQueued, IpQueued, IpTask, Releases, NetTask
<1>b. \A c, d : Again(c, d) \/ Done(c, d) => ~Releases(d)
  BY DEF Releases, Again, Done
<1>1. ASSUME NEW i \in Ids, DeleteNetwork(t, i) PROVE (VrfsHeld => VrfsHeld') /\ VrfsRead'
  BY <1>0, <1>a, <1>1, DeleteNetworkEffect, VrfsTaskNext
<1>2. ASSUME NEW k \in IpKeys, DeleteIp(t, k) PROVE (VrfsHeld => VrfsHeld') /\ VrfsRead'
  BY <1>0, <1>a, <1>2, DeleteIpEffect, VrfsTaskNext
<1>3. CASE ReadNetwork(t)
  BY <1>0, <1>b, <1>3, ReadNetworkEffect, VrfsTaskNext
<1>4. CASE ReleasePrefix(t)
  <2>1. Releases(task[t]) /\ task[t].row.vrf \in Nat
    BY <1>4, ReleasePrefixEffect, NamesAssumption DEF Releases, NetTask, RowType
  <2>2. CASE Again(task[t], task'[t])
    BY <1>0, <1>b, <1>4, <2>2, ReleasePrefixEffect, VrfsTaskNext
  <2>3. CASE SameNet(task[t], task'[t])
    <3>1. task'[t].pc = "row" => task[t].row.vrf \notin Vrfs
      <4>1. task'[t].pc = "row" => ~(task[t].row.vrf > 0)
        BY <1>4, <1>b, <2>1, <2>3, ReleasePrefixEffect DEF Again
      <4> QED BY <2>1, <4>1, NamesAssumption
    <3> QED BY <1>0, <1>4, <2>1, <2>3, <3>1, ReleasePrefixEffect, VrfsTaskNext
  <2> QED BY <1>4, <2>2, <2>3, ReleasePrefixEffect
<1>5. CASE ReleaseVrf(t)
  BY <1>0, <1>5, ReleaseVrfEffect, VrfsTaskNext DEF Releases
<1>6. CASE DeleteRow(t)
  <2> DEFINE i == task[t].network
  <2>1. /\ Runs(t) /\ Releases(task[t]) /\ task[t].pc = "row" /\ task'[t].pc = "done"
        /\ UNCHANGED <<req, vrfs>> /\ rows' = [rows EXCEPT ![i] = None]
    BY <1>6, DeleteRowEffect DEF Releases
  <2>2. FreshFor(t, i) /\ <<i, t, task[t].tries>> \in released'
    BY <1>6, DeleteRowEffect, ReleasingEffect
  <2>3. Doomed(i) /\ rows'[i] = None /\ \A j \in Ids : j # i => rows'[j] = rows[j]
    BY <2>1, <2>2 DEF Doomed, TypeInv, TypeOK, Releases, NetTask
  <2>4. ASSUME NEW x \in Tasks, NEW j \in Ids, Releases(task'[x]), FreshFor(x, j)', task'[x].network = j
        PROVE  x # t /\ task'[x] = task[x] /\ FreshFor(x, j) /\ j # i
    <3>1. x # t /\ task'[x] = task[x]
      BY <2>1, <2>4 DEF Runs, Releases
    <3>2. FreshFor(x, j)
      BY <1>0, <2>4, <3>1 DEF FreshFor
    <3>3. <<i, t, task[t].tries>>[1] = i /\ <<i, t, task[t].tries>>[2] = t
      OBVIOUS
    <3>4. j # i
      <4> SUFFICES ASSUME j = i PROVE FALSE
        OBVIOUS
      <4>1. \A y \in released' : y[1] = i => y = <<i, x, task'[x].tries>>
        BY <2>4 DEF FreshFor
      <4>2. <<i, t, task[t].tries>> = <<i, x, task'[x].tries>>
        BY <2>2, <3>3, <4>1
      <4> QED BY <3>1, <4>2
    <3> QED BY <3>1, <3>2, <3>4
  <2>5. VrfsRead'
    <3> SUFFICES ASSUME NEW x \in Tasks, Releases(task'[x]), FreshFor(x, task[x].network)'
                 PROVE  rows'[task'[x].network] # None /\ rows'[task'[x].network].vrf = task'[x].row.vrf
      BY DEF VrfsRead, FreshFor
    <3>1. x # t /\ task'[x] = task[x] /\ task[x].network \in Ids
      BY <2>1 DEF Runs, Releases, NetTask
    <3>3. FreshFor(x, task[x].network) /\ task[x].network # i
      BY <1>0, <2>2, <3>1 DEF FreshFor
    <3> QED BY <2>3, <3>1, <3>3 DEF VrfsRead
  <2>6. VrfsHeld => VrfsHeld'
    <3> SUFFICES ASSUME VrfsHeld, NEW v \in Vrfs \ vrfs, NEW j \in Stored, rows[j].vrf = v, ~Doomed(j)
                 PROVE  rows'[j] # None /\ rows'[j].vrf = v /\ ~Doomed(j)'
      BY <2>1 DEF VrfsHeld, Holds, Stored
    <3>1. j # i /\ rows'[j] = rows[j] /\ j \in Ids
      BY <2>3 DEF Stored
    <3>2. ~Doomed(j)'
      BY <2>4, <3>1 DEF Doomed
    <3> QED BY <3>1, <3>2 DEF Stored
  <2> QED BY <2>5, <2>6
<1>7. CASE ReadIp(t)
  BY <1>0, <1>a, <1>b, <1>7, ReadIpEffect, VrfsTaskNext
<1>8. CASE ReleaseIP(t)
  BY <1>0, <1>a, <1>8, ReleaseIPEffect, VrfsTaskNext DEF SameIp
<1>9. CASE DeleteIpRow(t)
  BY <1>0, <1>a, <1>9, DeleteIpRowEffect, VrfsTaskNext DEF SameIp
<1>10. CASE TaskDies(t)
  BY <1>0, <1>b, <1>10, TaskDiesEffect, VrfsTaskNext
<1> QED BY <1>1, <1>2, <1>3, <1>4, <1>5, <1>6, <1>7, <1>8, <1>9, <1>10 DEF Task

(* Calls and tasks that leave the ips alone.                                 *)
LEMMA HeldStays ==
  ASSUME AddressesHeld, AddressesAwaited, UNCHANGED <<ips, acquired>>, released \subseteq released',
         \A r \in Requests : req[r].pc = "ipRow" => req'[r] = req[r],
         \A t \in Tasks : ReleasesIp(task'[t]) /\ task'[t].pc = "ip" => task'[t] = task[t]
  PROVE  AddressesHeld' /\ AddressesAwaited'
<1>1. \A x : (\E r \in Requests : HasIp(r) /\ Triple(req[r]) = x) => \E r \in Requests : HasIp(r)' /\ Triple(req'[r]) = x
  BY DEF HasIp
<1>2. AddressesHeld'
  BY <1>1 DEF AddressesHeld
<1>3. AddressesAwaited'
  <2> SUFFICES ASSUME NEW t \in Tasks, ReleasesIp(task'[t]), task'[t].pc = "ip", FreshFor(t, task[t].uuid)',
                      task'[t].key[1] = None, <<None, task'[t].prefix, task'[t].key[2]>> \in acquired
               PROVE  \E r \in Requests : HasIp(r)' /\ Triple(req'[r]) = <<None, task'[t].prefix, task'[t].key[2]>>
    BY DEF AddressesAwaited, FreshFor
  <2>1. task'[t] = task[t] /\ FreshFor(t, task[t].uuid)
    BY DEF FreshFor
  <2> QED BY <1>1, <2>1 DEF AddressesAwaited
<1> QED BY <1>2, <1>3

LEMMA HeldRequest ==
  ASSUME TypeInv, Backed, AddressesHeld, AddressesAwaited, NEW r \in Requests, Request(r),
         Stored \subseteq used, "halfway" \notin mishap'
  PROVE  AddressesHeld' /\ AddressesAwaited'
<1>0. UNCHANGED <<task, released>>
  BY RequestKeepsRows
<1>1. CASE NetworkCall(r)
  <2>1. \A x \in Requests : req[x].pc = "ipRow" => req'[x] = req[x]
    BY <1>1, NetworkCallStays DEF Moves, OthersStay, IpSteps
  <2> QED BY <1>0, <1>1, <2>1, NetworkCallStays, HeldStays
<1>2. ASSUME NEW q \in IpRequests, ValidateIp(r, q) PROVE AddressesHeld' /\ AddressesAwaited'
  <2>1. \A x \in Requests : req[x].pc = "ipRow" => req'[x] = req[x]
    BY <1>2, ValidateIpEffect DEF Moves, OthersStay, Idle
  <2> QED BY <1>0, <1>2, <2>1, ValidateIpEffect, HeldStays
<1>3. CASE IpAcquire(r)
  <2>1. \A x \in Requests : req[x].pc = "ipRow" => x # r /\ req'[x] = req[x]
    BY <1>3, IpAcquireEffect DEF Moves, OthersStay
  <2>2. ips' = ips
    BY <1>3, IpAcquireEffect
  <2>3. CASE acquired' = acquired
    BY <1>0, <2>1, <2>2, <2>3, HeldStays
  <2>4. ASSUME NEW x, acquired' = acquired \cup {x}, HasIp(r)', Triple(req'[r]) = x
        PROVE  AddressesHeld' /\ AddressesAwaited'
    <3>1. \A y \in Requests : HasIp(y) => HasIp(y)' /\ req'[y] = req[y]
      BY <2>1 DEF HasIp
    <3> QED BY <1>0, <2>2, <2>4, <3>1 DEF AddressesHeld, AddressesAwaited, FreshFor
  <2>5. ASSUME NEW p \in req[r].nw.prefixes, NEW a \in Addresses, acquired' = acquired \cup {<<req[r].nw.ns, p, a>>},
               req'[r].pc = "ipRow", req'[r].ns = req[r].nw.ns, req'[r].prefix = p, req'[r].address = a
        PROVE  AddressesHeld' /\ AddressesAwaited'
    BY <2>4, <2>5 DEF HasIp, Triple
  <2> QED BY <1>3, <2>3, <2>5, IpAcquireEffect
<1>4. CASE IpRow(r)
  <2> DEFINE key == <<req[r].ns, req[r].address>>
  <2>1. /\ Moves(r) /\ req[r] \in IpRowCall /\ HasIp(r) /\ acquired' = acquired
        /\ \A x \in Requests : x # r => req'[x] = req[x]
    BY <1>4, IpRowEffect DEF HasIp, Moves, OthersStay
  <2>2. PICK ip \in IpType : ips[key] = None /\ ips' = [ips EXCEPT ![key] = ip] /\ ip.prefix = req[r].prefix
    BY <1>4, IpRowEffect
  <2>3. /\ key \in IpKeys /\ key[1] = req[r].ns /\ key[2] = req[r].address
        /\ Triple(req[r]) = <<key[1], ip.prefix, key[2]>> /\ ip # None
    BY <2>1, <2>2, NamesAssumption DEF IpRowCall, IpKeys, Triple
  <2> HIDE DEF key
  <2>4. ips'[key] = ip /\ \A k \in IpKeys : k # key => ips'[k] = ips[k]
    BY <2>2, <2>3 DEF TypeInv, TypeOK
  <2>5. AddressesHeld'
    <3> SUFFICES ASSUME NEW x \in acquired, x[1] = None
                 PROVE  \/ ips'[<<None, x[3]>>] # None /\ ips'[<<None, x[3]>>].prefix = x[2]
                        \/ \E y \in Requests : HasIp(y)' /\ Triple(req'[y]) = x
      BY <2>1 DEF AddressesHeld
    <3>0. <<None, x[3]>> \in IpKeys
      BY DEF TypeInv, TypeOK, IpKeys, Namespaces
    <3>1. CASE Triple(req[r]) = x
      <4>1. key = <<None, x[3]>> /\ x[2] = ip.prefix
        BY <2>3, <3>1 DEF IpKeys
      <4> QED BY <2>3, <2>4, <4>1
    <3>2. CASE ips[<<None, x[3]>>] # None /\ ips[<<None, x[3]>>].prefix = x[2]
      BY <2>2, <2>4, <3>0, <3>2
    <3>3. ASSUME NEW y \in Requests, y # r, HasIp(y), Triple(req[y]) = x
          PROVE  HasIp(y)' /\ Triple(req'[y]) = x
      BY <2>1, <3>3 DEF HasIp
    <3> QED BY <3>1, <3>2, <3>3 DEF AddressesHeld
  <2>6. AddressesAwaited'
    <3> SUFFICES ASSUME NEW t \in Tasks, ReleasesIp(task[t]), task[t].pc = "ip", FreshFor(t, task[t].uuid),
                        task[t].key[1] = None, <<None, task[t].prefix, task[t].key[2]>> \in acquired
                 PROVE  \E y \in Requests : HasIp(y)' /\ Triple(req'[y]) = <<None, task[t].prefix, task[t].key[2]>>
      BY <1>0, <2>1 DEF AddressesAwaited, FreshFor
    <3>1. PICK y \in Requests : HasIp(y) /\ Triple(req[y]) = <<None, task[t].prefix, task[t].key[2]>>
      BY DEF AddressesAwaited
    <3>2. ips[task[t].key] # None /\ task[t].key \in IpKeys
      BY DEF Backed, RowsRead, ReleasesIp, IpTask
    <3>3. task[t].key = <<None, task[t].key[2]>>
      BY <3>2 DEF IpKeys
    <3>4. y # r
      BY <2>2, <2>3, <3>1, <3>2, <3>3 DEF IpKeys
    <3> QED BY <2>1, <3>1, <3>4 DEF HasIp
  <2> QED BY <2>5, <2>6
<1> QED BY <1>1, <1>2, <1>3, <1>4 DEF Request, NetworkCall

LEMMA HeldTask ==
  ASSUME TypeInv, Places, Backed, AddressesHeld, AddressesAwaited, NEW t \in Tasks, Task(t), "again" \notin mishap'
  PROVE  AddressesHeld' /\ AddressesAwaited'
<1>0. released \subseteq released'
  BY TaskMoves DEF RowsMove, Places
<1>1. ASSUME Runs(t), UNCHANGED <<ips, acquired, req>>, ~(ReleasesIp(task'[t]) /\ task'[t].pc = "ip")
      PROVE  AddressesHeld' /\ AddressesAwaited'
  <2>1. \A x \in Tasks : ReleasesIp(task'[x]) /\ task'[x].pc = "ip" => task'[x] = task[x]
    BY <1>1 DEF Runs
  <2> QED BY <1>0, <1>1, <2>1, HeldStays
<1>2. CASE NetworkTask(t)
  BY <1>1, <1>2, NetworkTaskStays
<1>3. ASSUME NEW k \in IpKeys, DeleteIp(t, k) PROVE AddressesHeld' /\ AddressesAwaited'
  BY <1>1, <1>3, DeleteIpEffect
<1>4. CASE ReadIp(t)
  BY <1>1, <1>4, ReadIpEffect DEF Done, Again
<1>5. CASE ReleaseIP(t)
  <2> DEFINE x == <<None, task[t].prefix, task[t].key[2]>>
  <2>1. /\ Runs(t) /\ UNCHANGED <<ips, req>> /\ SameIp(task[t], task'[t])
        /\ acquired' = acquired \ (IF task[t].ns = None THEN {x} ELSE {})
        /\ task[t].ns = task[t].key[1]
    BY <1>5, ReleaseIPEffect DEF Places
  <2>2. AddressesHeld'
    BY <2>1 DEF AddressesHeld, HasIp
  <2>3. AddressesAwaited'
    <3> SUFFICES ASSUME NEW y \in Tasks, ReleasesIp(task'[y]), task'[y].pc = "ip", FreshFor(y, task[y].uuid)',
                        task'[y].key[1] = None, <<None, task'[y].prefix, task'[y].key[2]>> \in acquired'
                 PROVE  \E r \in Requests : HasIp(r) /\ Triple(req[r]) = <<None, task'[y].prefix, task'[y].key[2]>>
      BY <2>1 DEF AddressesAwaited, FreshFor, HasIp
    <3>1. y # t
      BY <2>1 DEF SameIp
    <3>2. task'[y] = task[y] /\ FreshFor(y, task[y].uuid) /\ acquired' \subseteq acquired
      BY <1>0, <2>1, <3>1 DEF Runs, FreshFor
    <3> QED BY <3>2 DEF AddressesAwaited
  <2> QED BY <2>2, <2>3
<1>6. CASE DeleteIpRow(t)
  <2> DEFINE key == task[t].key
             z == <<None, task[t].prefix, key[2]>>
  <2>1. /\ Runs(t) /\ task[t] \in IpTask /\ task[t].pc = "ip" /\ task'[t].pc = "done"
        /\ UNCHANGED <<acquired, req>> /\ ips' = [ips EXCEPT ![key] = None]
    BY <1>6, DeleteIpRowEffect
  <2>2. FreshFor(t, task[t].uuid)
    <3>1. Releasing(t, task[t].uuid, {})
      BY <1>6, DeleteIpRowEffect
    <3>2. mishap' = mishap \cup {} \cup (IF FreshFor(t, task[t].uuid) THEN {} ELSE {"again"})
      BY <3>1, ReleasingEffect
    <3> QED BY <3>2
  <2>3. key \in IpKeys /\ ips[key] # None /\ ips[key].prefix = task[t].prefix /\ ReleasesIp(task[t])
    BY <2>1, <2>2 DEF Backed, RowsRead, ReleasesIp, IpTask
  <2>4. \A k \in IpKeys : k # key => ips'[k] = ips[k]
    BY <2>1 DEF TypeInv, TypeOK
  <2>5. AddressesHeld'
    <3> SUFFICES ASSUME NEW x \in acquired, x[1] = None
                 PROVE  \/ ips'[<<None, x[3]>>] # None /\ ips'[<<None, x[3]>>].prefix = x[2]
                        \/ \E r \in Requests : HasIp(r) /\ Triple(req[r]) = x
      BY <2>1 DEF AddressesHeld, HasIp
    <3>0. <<None, x[3]>> \in IpKeys /\ x = <<x[1], x[2], x[3]>>
      BY DEF TypeInv, TypeOK, IpKeys, Namespaces
    <3>1. CASE key # <<None, x[3]>>
      BY <2>4, <3>0, <3>1 DEF AddressesHeld
    <3>2. CASE key = <<None, x[3]>> /\ x[2] = task[t].prefix
      <4>1. x = z /\ key[1] = None
        BY <3>0, <3>2
      <4> QED BY <2>1, <2>2, <2>3, <4>1 DEF AddressesAwaited
    <3>3. CASE key = <<None, x[3]>> /\ x[2] # task[t].prefix
      BY <2>3, <3>3 DEF AddressesHeld
    <3> QED BY <3>1, <3>2, <3>3
  <2>6. AddressesAwaited'
    <3> SUFFICES ASSUME NEW y \in Tasks, ReleasesIp(task'[y]), task'[y].pc = "ip", FreshFor(y, task[y].uuid)',
                        task'[y].key[1] = None, <<None, task'[y].prefix, task'[y].key[2]>> \in acquired
                 PROVE  \E r \in Requests : HasIp(r) /\ Triple(req[r]) = <<None, task'[y].prefix, task'[y].key[2]>>
      BY <2>1 DEF AddressesAwaited, FreshFor, HasIp
    <3>1. y # t
      BY <2>1
    <3>2. task'[y] = task[y] /\ FreshFor(y, task[y].uuid)
      BY <1>0, <2>1, <3>1 DEF Runs, FreshFor
    <3> QED BY <3>2 DEF AddressesAwaited
  <2> QED BY <2>5, <2>6
<1> QED BY <1>2, <1>3, <1>4, <1>5, <1>6 DEF Task, NetworkTask

LEMMA LossInit == Init => LossInv
<1> SUFFICES ASSUME Init PROVE LossInv
  OBVIOUS
<1>1. /\ req = [r \in Requests |-> Idle] /\ task = [t \in Tasks |-> [pc |-> "unused"]] /\ acquired = {}
  BY DEF Init
<1>2. VrfsRead /\ AddressesHeld /\ AddressesAwaited /\ \A i : ~Doomed(i)
  BY <1>1 DEF VrfsRead, AddressesHeld, AddressesAwaited, Doomed, Releases, ReleasesIp, NetTask, IpTask
<1>3. VrfsHeld
  <2>1. PICK s \in Scenarios :
        /\ rows = [i \in Ids |-> IF \E q \in s.there : q.id = i THEN RowOf(CHOOSE q \in s.there : q.id = i) ELSE None]
        /\ vrfs = Vrfs \ {q.vrf : q \in s.there}
    BY DEF Init
  <2>0. \A v \in Vrfs \ vrfs : \E q \in s.there : q.vrf = v
    BY <2>1
  <2> SUFFICES ASSUME NEW q \in s.there PROVE \E i \in Stored : rows[i].vrf = q.vrf
    BY <1>2, <2>0 DEF VrfsHeld
  <2>2. q \in RootType /\ \A x \in s.there : x.id = q.id => x = q
    BY ScenarioAssumption
  <2>3. (CHOOSE x \in s.there : x.id = q.id) = q
    BY <2>2
  <2>4. q.id \in Ids
    BY <2>2 DEF RootType, Ids
  <2>5. rows[q.id] = RowOf(q)
    BY <2>1, <2>3, <2>4
  <2>6. RowOf(q) # None /\ RowOf(q).vrf = q.vrf
    BY <2>2, RowKinds DEF RootType, RootRows, RowOf
  <2> QED BY <2>4, <2>5, <2>6 DEF Stored
<1> QED BY <1>2, <1>3, AddressInit DEF LossInv

LEMMA LossStep == LossInv /\ [Next]_vars => LossInv'
<1> SUFFICES ASSUME LossInv, [Next]_vars PROVE LossInv'
  OBVIOUS
<1>1. AddressInv' /\ AddressInv
  BY AddressStep DEF LossInv
<1>2. ASSUME NEW r \in Requests, Request(r), Unless({"again"})'
      PROVE  VrfsRead' /\ (Unless({"halfway", "again"})' => VrfsHeld' /\ AddressesHeld' /\ AddressesAwaited')
  <2>1. TypeInv /\ Places /\ Stored \subseteq used /\ mishap \subseteq mishap'
    BY <1>1, <1>2, RequestMoves DEF AddressInv, Places, RowsMove
  <2>2. VrfsRead /\ Backed
    BY <1>1, <1>2, <2>1 DEF LossInv, AddressInv, Unless
  <2>3. ASSUME Unless({"halfway", "again"})'
        PROVE  "halfway" \notin mishap' /\ VrfsHeld /\ AddressesHeld /\ AddressesAwaited
    BY <2>1, <2>3 DEF LossInv, Unless
  <2> QED BY <1>2, <2>1, <2>2, <2>3, VrfsHeldRequest, VrfsReadRequest, HeldRequest
<1>3. ASSUME NEW t \in Tasks, Task(t), Unless({"again"})'
      PROVE  VrfsRead' /\ (Unless({"halfway", "again"})' => VrfsHeld' /\ AddressesHeld' /\ AddressesAwaited')
  <2>1. TypeInv /\ Places /\ mishap \subseteq mishap'
    BY <1>1, <1>3, TaskMoves DEF AddressInv, RowsMove
  <2>2. VrfsRead /\ Backed /\ "again" \notin mishap'
    BY <1>1, <1>3, <2>1 DEF LossInv, AddressInv, Unless
  <2>3. ASSUME Unless({"halfway", "again"})' PROVE VrfsHeld /\ AddressesHeld /\ AddressesAwaited
    BY <2>1, <2>3 DEF LossInv, Unless
  <2> QED BY <1>3, <2>1, <2>2, <2>3, VrfsTask, HeldTask
<1>4. CASE UNCHANGED vars
  <2>1. LossInv /\ UNCHANGED <<rows, ips, acquired, vrfs, req, task, released, mishap>>
    BY <1>4 DEF vars
  <2>2. VrfsHeld => VrfsHeld'
    BY <2>1 DEF VrfsHeld, Stored, Doomed, FreshFor, Holds
  <2>3. VrfsRead => VrfsRead'
    BY <2>1 DEF VrfsRead, FreshFor
  <2>4. AddressesHeld => AddressesHeld'
    BY <2>1 DEF AddressesHeld, HasIp
  <2>5. AddressesAwaited => AddressesAwaited'
    BY <2>1 DEF AddressesAwaited, HasIp, FreshFor
  <2> QED BY <1>1, <2>1, <2>2, <2>3, <2>4, <2>5 DEF LossInv, Unless
<1>5. Unless({"halfway", "again"})' => Unless({"again"})'
  BY DEF Unless
<1> QED BY <1>1, <1>2, <1>3, <1>4, <1>5 DEF Next, LossInv

(* As long as no call fails halfway and no deletion is repeated, a vrf that  *)
(* is not free belongs to a network, and an address that is taken to an ip   *)
(* or to the call that is about to make it.                                  *)
THEOREM NoneLost == Spec => []NothingLost
<1>1. LossInv => NothingLost
  <2> SUFFICES ASSUME LossInv, Unless({"halfway", "again"})
               PROVE  /\ \A v \in Vrfs \ vrfs : \E row \in Rows : row.vrf = v
                      /\ \A x \in acquired : x[1] = None =>
                           \/ ips[<<None, x[3]>>] # None
                           \/ \E r \in Requests : req[r].pc = "ipRow" /\ req[r].ns = None /\ req[r].address = x[3]
    BY DEF NothingLost
  <2>1. VrfsHeld /\ AddressesHeld /\ TypeInv
    BY DEF LossInv, AddressInv
  <2>2. \A i \in Stored : rows[i] \in Rows
    BY DEF Rows
  <2>3. \A r \in Requests : \A v : Holds(r, v) => req[r].row \in Rows /\ req[r].row.vrf = v
    BY DEF Holds, Rows, Held
  <2>4. \A x \in acquired, r \in Requests : x[1] = None /\ HasIp(r) /\ Triple(req[r]) = x
          => req[r].pc = "ipRow" /\ req[r].ns = None /\ req[r].address = x[3]
    BY DEF HasIp, Triple
  <2>5. \A v \in Vrfs \ vrfs : \E row \in Rows : row.vrf = v
    BY <2>1, <2>2, <2>3 DEF VrfsHeld
  <2>6. \A x \in acquired : x[1] = None =>
           \/ ips[<<None, x[3]>>] # None
           \/ \E r \in Requests : req[r].pc = "ipRow" /\ req[r].ns = None /\ req[r].address = x[3]
    BY <2>1, <2>4 DEF AddressesHeld
  <2> QED BY <2>5, <2>6
<1> QED BY LossInit, LossStep, <1>1, PTL DEF Spec

-----------------------------------------------------------------------------
(* Who claims a vrf: the networks of one root, which share it, or one call   *)
(* that makes a root. A network that is deleted claims its vrf until the     *)
(* first task that releases it gives the vrf back.                           *)

Root(i) == IF rows[i].parent = None THEN i ELSE rows[i].parent
Holder(i) ==
    /\ rows[i] # None
    /\ \/ ~BeingReleased(i)
       \/ \E t \in Tasks : Releases(task[t]) /\ task[t].pc # "row" /\ task[t].network = i /\ FreshFor(t, i)
Claim(f, v) ==
    \/ \E i \in Ids : Holder(i) /\ rows[i].vrf = v /\ f = <<"network", Root(i)>>
    \/ \E r \in Requests : req[r].pc = "rootRow" /\ req[r].row.vrf = v /\ f = <<"call", r>>
    \/ \E r \in Requests : req[r].pc \in {"childPrefix", "childRow"} /\ req[r].row.vrf = v
                           /\ f = <<"network", req[r].row.parent>>
Exclusive ==
    \A v \in Vrfs : \A f, g : Claim(f, v) => v \notin vrfs /\ (Claim(g, v) => f = g)

VrfInv == LossInv /\ (Unless({"again", "shared", "midway"}) => Exclusive)

LEMMA ExclusiveStays ==
  ASSUME Exclusive, vrfs' \subseteq vrfs, \A v \in Vrfs : \A f : Claim(f, v)' => Claim(f, v)
  PROVE  Exclusive'
BY DEF Exclusive

(* A free vrf gets its first claim.                                          *)
LEMMA ExclusiveTaken ==
  ASSUME Exclusive, NEW w \in vrfs, vrfs' = vrfs \ {w}, NEW g,
         \A v \in Vrfs : \A f : Claim(f, v)' => Claim(f, v) \/ (v = w /\ f = g)
  PROVE  Exclusive'
<1> SUFFICES ASSUME NEW v \in Vrfs, NEW f, NEW h, Claim(f, v)'
             PROVE  v \notin vrfs' /\ (Claim(h, v)' => f = h)
  BY DEF Exclusive
<1>1. CASE v = w
  BY <1>1 DEF Exclusive
<1>2. CASE v # w
  BY <1>2 DEF Exclusive
<1> QED BY <1>1, <1>2

(* A claim goes over to another one.                                         *)
LEMMA ExclusivePassed ==
  ASSUME Exclusive, vrfs' = vrfs, NEW e, NEW g,
         \A v \in Vrfs : \A f : Claim(f, v)' => (Claim(f, v) /\ f # e) \/ (f = g /\ Claim(e, v))
  PROVE  Exclusive'
<1> SUFFICES ASSUME NEW v \in Vrfs, NEW f, NEW h, Claim(f, v)'
             PROVE  v \notin vrfs' /\ (Claim(h, v)' => f = h)
  BY DEF Exclusive
<1>1. v \notin vrfs
  BY DEF Exclusive
<1>2. CASE Claim(h, v)'
  <2>1. CASE Claim(e, v)
    BY <1>2, <2>1 DEF Exclusive
  <2>2. CASE ~Claim(e, v)
    BY <1>2, <2>2 DEF Exclusive
  <2> QED BY <2>1, <2>2
<1> QED BY <1>1, <1>2

(* A request leaves every network that it does not make a holder as it was.  *)
LEMMA HoldersKeep ==
  ASSUME RowsKeep, UNCHANGED <<task, released>>, NEW i \in Ids, rows[i] # None, Holder(i)'
  PROVE  Holder(i) /\ rows'[i].vrf = rows[i].vrf /\ Root(i)' = Root(i)
BY DEF RowsKeep, Stored, Holder, Root, BeingReleased, FreshFor

(* A claim after a step of request r is an old one of somebody else, or made *)
(* by the call or by the row it stores.                                      *)
ClaimOfCall(r, f, v) ==
    \/ req[r].pc = "rootRow" /\ req[r].row.vrf = v /\ f = <<"call", r>>
    \/ req[r].pc \in {"childPrefix", "childRow"} /\ req[r].row.vrf = v /\ f = <<"network", req[r].row.parent>>

LEMMA ClaimsRequest ==
  ASSUME RowsKeep, UNCHANGED <<task, released>>, NEW r \in Requests, OthersStay(r),
         NEW v, NEW f, Claim(f, v)'
  PROVE  \/ Claim(f, v) /\ f # <<"call", r>>
         \/ ClaimOfCall(r, f, v)'
         \/ \E i \in Ids : /\ rows[i] = None /\ rows'[i] # None /\ rows'[i].vrf = v
                           /\ f = <<"network", Root(i)'>>
<1>1. ASSUME NEW i \in Ids, Holder(i)', rows'[i].vrf = v, f = <<"network", Root(i)'>>, rows[i] # None
      PROVE  Claim(f, v) /\ f # <<"call", r>>
  BY <1>1, HoldersKeep DEF Claim
<1>2. ASSUME NEW i \in Ids, Holder(i)' PROVE rows'[i] # None
  BY <1>2 DEF Holder
<1>3. ASSUME NEW x \in Requests, x # r, req'[x].pc = "rootRow", req'[x].row.vrf = v, f = <<"call", x>>
      PROVE  Claim(f, v) /\ f # <<"call", r>>
  BY <1>3 DEF Claim, OthersStay
<1>4. ASSUME NEW x \in Requests, x # r, req'[x].pc \in {"childPrefix", "childRow"}, req'[x].row.vrf = v,
             f = <<"network", req'[x].row.parent>>
      PROVE  Claim(f, v) /\ f # <<"call", r>>
  BY <1>4 DEF Claim, OthersStay
<1> QED BY <1>1, <1>2, <1>3, <1>4 DEF Claim, ClaimOfCall

(* A request that neither stores a new row nor makes a claim by its call.    *)
LEMMA ExclusiveQuiet ==
  ASSUME Exclusive, RowsKeep, UNCHANGED <<task, released>>, NEW r \in Requests, OthersStay(r), vrfs' \subseteq vrfs,
         rows' = rows \/ \A i \in Ids : rows[i] = None => rows'[i] = None,
         \A v, f : ClaimOfCall(r, f, v)' => Claim(f, v)
  PROVE  Exclusive'
BY ClaimsRequest, ExclusiveStays

LEMMA ExclusiveRequest ==
  ASSUME TypeInv, Stored \subseteq used, Exclusive, NEW r \in Requests, Request(r), "midway" \notin mishap'
  PROVE  Exclusive'
<1>0. RowsKeep /\ UNCHANGED <<task, released>>
  BY RequestKeepsRows
<1>a. ASSUME req'[r].pc \notin {"rootRow", "childPrefix", "childRow"} PROVE \A v, f : ~ClaimOfCall(r, f, v)'
  BY <1>a DEF ClaimOfCall
<1>b. ASSUME OthersStay(r), vrfs' = vrfs, rows' = rows, req'[r].pc \notin {"rootRow", "childPrefix", "childRow"}
      PROVE  Exclusive'
  BY <1>0, <1>a, <1>b, ExclusiveQuiet
<1>c. Idle.pc = "idle" /\ 0 \notin Vrfs
  BY NamesAssumption DEF Idle
<1> USE DEF Moves
<1>1. ASSUME NEW q \in RootRequests, ValidateRoot(r, q) PROVE Exclusive'
  <2>1. /\ OthersStay(r) /\ vrfs' = vrfs /\ rows' = rows
        /\ req'[r].pc = (IF q.vrf = 0 THEN "rootRow" ELSE "rootVrf") /\ req'[r].row = RowOf(q)
    BY <1>1, ValidateRootEffect
  <2>2. CASE q.vrf # 0
    BY <1>b, <2>1, <2>2
  <2>3. CASE q.vrf = 0
    <3>1. RowOf(q).vrf = 0
      BY <2>3 DEF RowOf
    <3>2. \A v \in Vrfs : \A f : ~ClaimOfCall(r, f, v)'
      BY <1>c, <2>1, <2>3, <3>1 DEF ClaimOfCall
    <3>3. \A v \in Vrfs : \A f : Claim(f, v)' => Claim(f, v)
      BY <1>0, <2>1, <3>2, ClaimsRequest
    <3> QED BY <2>1, <3>3, ExclusiveStays
  <2> QED BY <2>2, <2>3
<1>2. CASE RootVrf(r)
  <2>1. OthersStay(r) /\ rows' = rows
    BY <1>2, RootVrfEffect
  <2>2. CASE req'[r] = Idle /\ vrfs' = vrfs
    BY <1>b, <1>c, <2>1, <2>2
  <2>3. ASSUME NEW w \in vrfs, vrfs' = vrfs \ {w}, req'[r].pc = "rootRow", req'[r].row.vrf = w
        PROVE  Exclusive'
    <3>1. \A v, f : ClaimOfCall(r, f, v)' => v = w /\ f = <<"call", r>>
      BY <2>3 DEF ClaimOfCall
    <3>2. \A v \in Vrfs : \A f : Claim(f, v)' => Claim(f, v) \/ (v = w /\ f = <<"call", r>>)
      BY <1>0, <2>1, <3>1, ClaimsRequest
    <3> QED BY <2>3, <3>2, ExclusiveTaken
  <2> QED BY <1>2, <2>2, <2>3, RootVrfEffect
<1>3. CASE RootRow(r)
  <2>1. OthersStay(r) /\ vrfs' = vrfs /\ req[r].pc = "rootRow" /\ req[r].id \in RootIds /\ req[r].row \in RootRows
    BY <1>3, RootRowEffect DEF RootCall
  <2>2. CASE rows' = rows /\ req'[r] = Idle
    BY <1>b, <1>c, <2>1, <2>2
  <2>3. ASSUME NEW i \in RootIds, rows[i] = None, req'[r].pc = "rootPrefix", rows' = [rows EXCEPT ![i] = req[r].row]
        PROVE  Exclusive'
    <3>1. i \in Ids /\ rows'[i] = req[r].row /\ \A j \in Ids : j # i => rows'[j] = rows[j]
      BY <2>1, <2>3 DEF TypeInv, TypeOK, Ids
    <3>2. Root(i)' = i
      BY <2>1, <3>1 DEF Root, RootRows
    <3>3. \A v : req[r].row.vrf = v => Claim(<<"call", r>>, v)
      BY <2>1 DEF Claim
    <3>4. ASSUME NEW j \in Ids, rows[j] = None, rows'[j] # None PROVE j = i
      BY <3>1, <3>4
    <3>5. \A v, f : ~ClaimOfCall(r, f, v)'
      BY <1>a, <2>3
    <3>6. ASSUME NEW v \in Vrfs, NEW f, Claim(f, v)'
          PROVE  (Claim(f, v) /\ f # <<"call", r>>) \/ (f = <<"network", i>> /\ Claim(<<"call", r>>, v))
      <4>1. CASE \E j \in Ids : rows[j] = None /\ rows'[j] # None /\ rows'[j].vrf = v /\ f = <<"network", Root(j)'>>
        BY <3>1, <3>2, <3>3, <3>4, <4>1
      <4> QED BY <1>0, <2>1, <3>5, <3>6, <4>1, ClaimsRequest
    <3> QED BY <2>1, <3>6, ExclusivePassed
  <2> QED BY <1>3, <2>1, <2>2, <2>3, RootRowEffect
<1>4. CASE RootPrefix(r)
  BY <1>b, <1>c, <1>4, RootPrefixEffect
<1>5. ASSUME NEW q \in ChildRequests, ValidateChild(r, q) PROVE Exclusive'
  BY <1>b, <1>5, ValidateChildEffect
<1>6. CASE ChildParent(r)
  <2>1. OthersStay(r) /\ vrfs' = vrfs /\ rows' = rows
    BY <1>6, ChildParentEffect
  <2>2. CASE req'[r] = Idle
    BY <1>b, <1>c, <2>1, <2>2
  <2>3. ASSUME NEW i \in RootIds, rows[i] # None, req'[r].pc = "childPrefix", req'[r].row.vrf = rows[i].vrf,
               req'[r].row.parent = i, mishap' = mishap \cup (IF Dying(i) \/ Changing(i) THEN {"midway"} ELSE {})
        PROVE  Exclusive'
    <3>1. ~Dying(i)
      BY <2>3
    <3>2. Holder(i)
      BY <2>3, <3>1 DEF Holder, Dying
    <3>3. Root(i) = i /\ i \in Ids
      BY <2>3 DEF Root, TypeInv, RootRows, Ids
    <3>4. \A v, f : ClaimOfCall(r, f, v)' => Claim(f, v)
      BY <2>3, <3>2, <3>3 DEF ClaimOfCall, Claim
    <3> QED BY <1>0, <2>1, <3>4, ExclusiveQuiet
  <2> QED BY <1>6, <2>2, <2>3, ChildParentEffect
<1>7. CASE ChildPrefix(r)
  <2>1. OthersStay(r) /\ vrfs' = vrfs /\ rows' = rows /\ req[r].pc = "childPrefix"
    BY <1>7, ChildPrefixEffect
  <2>2. CASE req'[r] = Idle
    BY <1>b, <1>c, <2>1, <2>2
  <2>3. CASE req'[r].row.vrf = req[r].row.vrf /\ req'[r].row.parent = req[r].row.parent
             /\ req'[r].pc \in {"childPrefix", "childVrf", "childRow"}
    <3>1. \A v, f : ClaimOfCall(r, f, v)' => Claim(f, v)
      BY <2>1, <2>3 DEF ClaimOfCall, Claim
    <3> QED BY <1>0, <2>1, <3>1, ExclusiveQuiet
  <2> QED BY <1>7, <2>2, <2>3, ChildPrefixEffect
<1>8. CASE ChildVrf(r)
  <2>1. OthersStay(r) /\ rows' = rows
    BY <1>8, ChildVrfEffect
  <2>2. CASE req'[r] = Idle /\ vrfs' = vrfs
    BY <1>b, <1>c, <2>1, <2>2
  <2>3. ASSUME NEW w \in vrfs, vrfs' = vrfs \ {w}, req'[r].pc = "childRow", req'[r].row.vrf = w
        PROVE  Exclusive'
    <3>1. \A v, f : ClaimOfCall(r, f, v)' => v = w /\ f = <<"network", req'[r].row.parent>>
      BY <2>3 DEF ClaimOfCall
    <3>2. \A v \in Vrfs : \A f : Claim(f, v)' => Claim(f, v) \/ (v = w /\ f = <<"network", req'[r].row.parent>>)
      BY <1>0, <2>1, <3>1, ClaimsRequest
    <3> QED BY <2>3, <3>2, ExclusiveTaken
  <2> QED BY <1>8, <2>2, <2>3, ChildVrfEffect
<1>9. CASE ChildRow(r)
  <2>1. OthersStay(r) /\ vrfs' = vrfs /\ req'[r] = Idle /\ req[r] \in ChildCall /\ req[r].pc = "childRow"
    BY <1>9, ChildRowEffect
  <2>2. PICK i \in ChildIds \ used : rows' = [rows EXCEPT ![i] = req[r].row]
    BY <1>9, ChildRowEffect
  <2>3. i \in Ids /\ rows'[i] = req[r].row /\ \A j \in Ids : j # i => rows'[j] = rows[j]
    BY <2>2 DEF TypeInv, TypeOK, Ids
  <2>4. Root(i)' = req[r].row.parent
    <3>1. req[r].row.parent \in RootIds /\ None \notin RootIds
      BY <2>1, NamesAssumption DEF ChildCall, ChildRows, Ids
    <3> QED BY <2>3, <3>1 DEF Root
  <2>5. \A v : req[r].row.vrf = v => Claim(<<"network", req[r].row.parent>>, v)
    BY <2>1 DEF Claim
  <2>6. \A v, f : ~ClaimOfCall(r, f, v)'
    BY <1>a, <1>c, <2>1
  <2>7. ASSUME NEW v \in Vrfs, NEW f, Claim(f, v)' PROVE Claim(f, v)
    <3>1. CASE \E j \in Ids : rows[j] = None /\ rows'[j] # None /\ rows'[j].vrf = v /\ f = <<"network", Root(j)'>>
      BY <2>3, <2>4, <2>5, <3>1
    <3> QED BY <1>0, <2>1, <2>6, <2>7, <3>1, ClaimsRequest
  <2> QED BY <2>1, <2>7, ExclusiveStays
<1>10. ASSUME NEW q \in UpdateRequests, ValidateUpdate(r, q) PROVE Exclusive'
  BY <1>b, <1>10, ValidateUpdateEffect
<1>11. CASE UpdateRemove(r)
  BY <1>b, <1>c, <1>11, UpdateRemoveEffect
<1>12. CASE UpdateAdd(r)
  BY <1>b, <1>c, <1>12, UpdateAddEffect
<1>13. CASE UpdateRow(r)
  <2>1. OthersStay(r) /\ vrfs' = vrfs /\ req'[r] = Idle
    BY <1>13, UpdateRowEffect
  <2>2. \A v, f : ~ClaimOfCall(r, f, v)'
    BY <1>a, <1>c, <2>1
  <2>3. rows' = rows \/ \A i \in Ids : rows[i] = None => rows'[i] = None
    <3>1. req[r].row # None
      BY <1>13, UpdateRowEffect, RowKinds DEF UpdateCall
    <3> QED BY <1>13, <3>1, UpdateRowEffect DEF TypeInv, TypeOK
  <2> QED BY <1>0, <2>1, <2>2, <2>3, ExclusiveQuiet
<1>14. ASSUME NEW q \in IpRequests, ValidateIp(r, q) PROVE Exclusive'
  BY <1>b, <1>14, ValidateIpEffect
<1>15. CASE IpAcquire(r)
  BY <1>b, <1>c, <1>15, IpAcquireEffect
<1>16. CASE IpRow(r)
  BY <1>b, <1>c, <1>16, IpRowEffect
<1> QED BY <1>1, <1>2, <1>3, <1>4, <1>5, <1>6, <1>7, <1>8, <1>9, <1>10, <1>11, <1>12, <1>13, <1>14, <1>15, <1>16
        DEF Request

(* A task leaves what others hold as it was.                                 *)
LEMMA HoldersTask ==
  ASSUME TypeInv, Attempts, NEW t \in Tasks, Runs(t), released \subseteq released',
         \A i \in Ids : rows'[i] = rows[i] \/ rows'[i] = None,
         \/ ~Releases(task'[t]) \/ task'[t].pc = "row"
         \/ Releases(task[t]) /\ task[t].pc # "row" /\ SameNet(task[t], task'[t])
         \/ Waits(task[t]) /\ task'[t].tries = task[t].tries,
         NEW i \in Ids, Holder(i)'
  PROVE  Holder(i) /\ rows'[i] = rows[i] /\ Root(i)' = Root(i)
<1>1. rows'[i] = rows[i] /\ rows[i] # None
  BY DEF Holder
<1>2. Root(i)' = Root(i)
  BY <1>1 DEF Root
<1>3. CASE ~BeingReleased(i)'
  <2>1. ~BeingReleased(i)
    BY <1>3 DEF BeingReleased
  <2> QED BY <1>1, <1>2, <2>1 DEF Holder
<1>4. ASSUME NEW x \in Tasks, Releases(task'[x]), task'[x].pc # "row", task'[x].network = i, FreshFor(x, i)'
      PROVE  Holder(i)
  <2>1. CASE x # t
    <3>1. task'[x] = task[x] /\ FreshFor(x, i)
      BY <1>4, <2>1 DEF Runs, FreshFor
    <3> QED BY <1>1, <1>4, <3>1 DEF Holder
  <2>2. CASE x = t /\ Releases(task[t]) /\ task[t].pc # "row" /\ SameNet(task[t], task'[t])
    <3>1. task[t].network = i /\ FreshFor(t, i)
      BY <1>4, <2>2 DEF SameNet, FreshFor
    <3> QED BY <1>1, <2>2, <3>1 DEF Holder
  <2>3. CASE x = t /\ Waits(task[t]) /\ task'[t].tries = task[t].tries
    <3>1. ASSUME NEW y \in released, y[1] = i PROVE FALSE
      <4>1. y = <<i, t, task[t].tries>>
        BY <1>4, <2>3, <3>1 DEF FreshFor
      <4>2. y[2] = t /\ y[3] = task[t].tries
        BY <4>1
      <4>3. y[3] < task[t].tries /\ y[3] \in Nat
        BY <2>3, <3>1, <4>2 DEF Attempts, TypeInv
      <4> QED BY <4>2, <4>3
    <3> QED BY <1>1, <3>1 DEF Holder, BeingReleased
  <2> QED BY <1>4, <2>1, <2>2, <2>3
<1> QED BY <1>1, <1>2, <1>3, <1>4 DEF Holder

LEMMA ExclusiveTask ==
  ASSUME TypeInv, Attempts, Stored \subseteq used, VrfsRead, Exclusive, NEW t \in Tasks, Task(t),
         "again" \notin mishap', "shared" \notin mishap'
  PROVE  Exclusive'
<1>0. released \subseteq released' /\ \A c \in NetQueued \cup IpQueued \cup IpTask : ~Releases(c)
  BY TaskMoves DEF RowsMove, NetQueued, IpQueued, IpTask, Releases, NetTask
<1>b. \A c, d : Again(c, d) \/ Done(c, d) => ~Releases(d)
  BY DEF Releases, Again, Done
<1>c. ASSUME Runs(t), UNCHANGED req, vrfs' = vrfs, \A i \in Ids : rows'[i] = rows[i] \/ rows'[i] = None,
             \/ ~Releases(task'[t]) \/ task'[t].pc = "row"
             \/ Releases(task[t]) /\ task[t].pc # "row" /\ SameNet(task[t], task'[t])
             \/ Waits(task[t]) /\ task'[t].tries = task[t].tries
      PROVE  Exclusive'
  <2>1. \A i \in Ids : Holder(i)' => Holder(i) /\ rows'[i] = rows[i] /\ Root(i)' = Root(i)
    BY <1>0, <1>c, HoldersTask
  <2>2. \A v, f : Claim(f, v)' => Claim(f, v)
    BY <1>c, <2>1 DEF Claim
  <2> QED BY <1>c, <2>2, ExclusiveStays
<1>1. ASSUME NEW i \in Ids, DeleteNetwork(t, i) PROVE Exclusive'
  BY <1>0, <1>c, <1>1, DeleteNetworkEffect
<1>2. ASSUME NEW k \in IpKeys, DeleteIp(t, k) PROVE Exclusive'
  BY <1>0, <1>c, <1>2, DeleteIpEffect
<1>3. CASE ReadNetwork(t)
  <2>1. Waits(task[t])
    BY <1>3, ReadNetworkEffect DEF Waits
  <2> QED BY <1>b, <1>c, <1>3, <2>1, ReadNetworkEffect
<1>4. CASE ReleasePrefix(t)
  <2>1. Releases(task[t]) /\ task[t].pc # "row"
    BY <1>4, ReleasePrefixEffect DEF Releases
  <2> QED BY <1>b, <1>c, <1>4, <2>1, ReleasePrefixEffect
<1>5. CASE ReleaseVrf(t)
  <2>0. task[t] \in NetTask /\ task[t].row.vrf \in Vrfs
    BY <1>5, ReleaseVrfEffect
  <2>2. PICK i \in Ids, w \in Vrfs : i = task[t].network /\ w = task[t].row.vrf
    BY <2>0 DEF NetTask
  <2>1. /\ Runs(t) /\ task[t] \in NetTask /\ task[t].pc = "vrf"
        /\ SameNet(task[t], task'[t]) /\ task'[t].pc = "row"
        /\ vrfs' = vrfs \cup {w} /\ UNCHANGED <<rows, req>>
    BY <1>5, <2>2, ReleaseVrfEffect
  <2>3. Releasing(t, i, IF Kin(i, w) # {} THEN {"shared"} ELSE {})
    BY <1>5, <2>2, ReleaseVrfEffect
  <2>4. FreshFor(t, i) /\ Kin(i, w) = {} /\ <<i, t, task[t].tries>> \in released'
    BY <2>3, ReleasingEffect
  <2>5. rows[i] # None /\ rows[i].vrf = w /\ Releases(task[t])
    BY <2>1, <2>2, <2>4 DEF VrfsRead, Releases
  <2>6. Holder(i)
    BY <2>1, <2>2, <2>4, <2>5 DEF Holder
  <2>7. \A j \in Ids : Holder(j)' => Holder(j) /\ rows'[j] = rows[j] /\ Root(j)' = Root(j)
    BY <1>0, <2>1, HoldersTask
  <2>8. \A v, f : Claim(f, v)' => Claim(f, v)
    BY <2>1, <2>7 DEF Claim
  <2>9. ~Holder(i)'
    <3>1. <<i, t, task[t].tries>>[1] = i /\ <<i, t, task[t].tries>>[2] = t
      OBVIOUS
    <3>2. \E x \in released' : x[1] = i
      BY <2>4, <3>1
    <3>3. ASSUME NEW x \in Tasks, Releases(task'[x]), task'[x].pc # "row", FreshFor(x, i)' PROVE FALSE
      <4>1. <<i, t, task[t].tries>> = <<i, x, task'[x].tries>>
        BY <2>4, <3>1, <3>3 DEF FreshFor
      <4> QED BY <2>1, <3>3, <4>1
    <3> QED BY <3>2, <3>3 DEF Holder, BeingReleased
  <2>10. ASSUME NEW f, Claim(f, w)' PROVE FALSE
    <3>1. ASSUME NEW j \in Ids, Holder(j)', rows[j].vrf = w PROVE FALSE
      <4>1. j \in Stored \ {i}
        BY <2>7, <2>9, <3>1 DEF Stored, Holder
      <4> QED BY <2>4, <3>1, <4>1 DEF Kin
    <3>2. ASSUME NEW r \in Requests, req[r].pc \in {"childPrefix", "childRow"}, req[r].row.vrf = w PROVE FALSE
      BY <2>4, <3>2 DEF Kin
    <3>3. ASSUME NEW r \in Requests, req[r].pc = "rootRow", req[r].row.vrf = w PROVE FALSE
      <4>1. Claim(<<"call", r>>, w)
        BY <3>3 DEF Claim
      <4>2. Claim(<<"network", Root(i)>>, w)
        BY <2>5, <2>6 DEF Claim
      <4>3. <<"call", r>> # <<"network", Root(i)>>
        OBVIOUS
      <4> QED BY <2>1, <4>1, <4>2, <4>3 DEF Exclusive
    <3> QED BY <2>1, <2>10, <3>1, <3>2, <3>3 DEF Claim
  <2> QED BY <2>1, <2>8, <2>10 DEF Exclusive
<1>6. CASE DeleteRow(t)
  <2>1. \A i \in Ids : rows'[i] = rows[i] \/ rows'[i] = None
    BY <1>6, DeleteRowEffect DEF TypeInv, TypeOK
  <2>2. ~Releases(task'[t])
    BY <1>6, DeleteRowEffect DEF Releases
  <2> QED BY <1>c, <1>6, <2>1, <2>2, DeleteRowEffect
<1>7. CASE ReadIp(t)
  BY <1>0, <1>b, <1>c, <1>7, ReadIpEffect
<1>8. CASE ReleaseIP(t)
  BY <1>0, <1>c, <1>8, ReleaseIPEffect DEF SameIp
<1>9. CASE DeleteIpRow(t)
  BY <1>0, <1>c, <1>9, DeleteIpRowEffect DEF SameIp
<1>10. CASE TaskDies(t)
  BY <1>b, <1>c, <1>10, TaskDiesEffect
<1> QED BY <1>1, <1>2, <1>3, <1>4, <1>5, <1>6, <1>7, <1>8, <1>9, <1>10 DEF Task

LEMMA VrfInit == Init => VrfInv
<1> SUFFICES ASSUME Init PROVE VrfInv
  OBVIOUS
<1>1. PICK s \in Scenarios :
      /\ rows = [i \in Ids |-> IF \E q \in s.there : q.id = i THEN RowOf(CHOOSE q \in s.there : q.id = i) ELSE None]
      /\ vrfs = Vrfs \ {q.vrf : q \in s.there}
  BY DEF Init
<1>2. ASSUME NEW i \in Ids, rows[i] # None
      PROVE  \E q \in s.there : q.id = i /\ rows[i].vrf = q.vrf /\ Root(i) = i
  <2>1. PICK q \in s.there : q.id = i
    BY <1>1, <1>2
  <2>2. q \in RootType /\ \A x \in s.there : x.id = i => x = q
    BY <2>1, ScenarioAssumption
  <2>3. rows[i] = RowOf(q)
    BY <1>1, <2>1, <2>2
  <2> QED BY <2>1, <2>3 DEF RowOf, Root
<1>3. ASSUME NEW v \in Vrfs, NEW f, Claim(f, v)
      PROVE  \E q \in s.there : q.vrf = v /\ f = <<"network", q.id>>
  <2>1. \A r \in Requests : req[r].pc = "idle"
    BY DEF Init, Idle
  <2>2. PICK i \in Ids : Holder(i) /\ rows[i].vrf = v /\ f = <<"network", Root(i)>>
    BY <1>3, <2>1 DEF Claim
  <2> QED BY <1>2, <2>2 DEF Holder
<1>4. \A q, x \in s.there : q.vrf = x.vrf /\ q.vrf # 0 => q = x
  BY ScenarioAssumption
<1>5. 0 \notin Vrfs
  BY NamesAssumption
<1>6. ASSUME NEW v \in Vrfs, NEW f, Claim(f, v)
      PROVE  v \notin vrfs /\ \A g : Claim(g, v) => f = g
  <2>1. PICK q \in s.there : q.vrf = v /\ f = <<"network", q.id>>
    BY <1>3, <1>6
  <2>2. v \notin vrfs
    BY <1>1, <2>1
  <2>3. ASSUME NEW g, Claim(g, v) PROVE f = g
    BY <1>3, <1>4, <1>5, <2>1, <2>3
  <2> QED BY <2>2, <2>3
<1>7. Exclusive
  BY <1>6 DEF Exclusive
<1> QED BY <1>7, LossInit DEF VrfInv

LEMMA VrfStep == VrfInv /\ [Next]_vars => VrfInv'
<1> SUFFICES ASSUME VrfInv, [Next]_vars PROVE VrfInv'
  OBVIOUS
<1>1. LossInv /\ LossInv'
  BY LossStep DEF VrfInv
<1>2. TypeInv /\ Attempts /\ Stored \subseteq used
  BY <1>1 DEF LossInv, AddressInv, Places
<1> SUFFICES ASSUME Unless({"again", "shared", "midway"})' PROVE Exclusive'
  BY <1>1 DEF VrfInv
<1>3. "again" \notin mishap' /\ "shared" \notin mishap' /\ "midway" \notin mishap'
  BY DEF Unless
<1>4. ASSUME mishap \subseteq mishap' PROVE VrfsRead /\ Exclusive
  BY <1>1, <1>4 DEF VrfInv, LossInv, Unless
<1>5. ASSUME NEW r \in Requests, Request(r) PROVE Exclusive'
  BY <1>2, <1>3, <1>4, <1>5, RequestMoves, ExclusiveRequest DEF RowsMove
<1>6. ASSUME NEW t \in Tasks, Task(t) PROVE Exclusive'
  BY <1>2, <1>3, <1>4, <1>6, TaskMoves, ExclusiveTask DEF RowsMove
<1>7. CASE UNCHANGED vars
  <2>1. Exclusive /\ UNCHANGED <<rows, vrfs, req, task, released>>
    BY <1>4, <1>7 DEF vars
  <2> QED BY <2>1 DEF Exclusive, Claim, Holder, Root, BeingReleased, FreshFor
<1> QED BY <1>5, <1>6, <1>7 DEF Next

(* A vrf belongs to the networks of one root, as long as no deletion is      *)
(* repeated, none gives back a vrf that relatives use, and no child is made  *)
(* under a root that is just deleted.                                        *)
THEOREM VrfsExclusive == Spec => []VrfExclusive
<1>1. VrfInv => VrfExclusive
  <2> SUFFICES ASSUME VrfInv, Unless({"again", "shared", "midway"}),
                      NEW i \in Stored, NEW j \in Stored, ~BeingReleased(i), ~BeingReleased(j),
                      rows[i].vrf = rows[j].vrf, rows[i].vrf # 0
               PROVE  i = j \/ rows[i].parent = j \/ rows[j].parent = i
                      \/ (rows[i].parent = rows[j].parent /\ rows[i].parent # None)
    BY DEF VrfExclusive
  <2>1. TypeInv /\ Exclusive
    BY DEF VrfInv, LossInv, AddressInv
  <2>2. i \in Ids /\ j \in Ids /\ rows[i].vrf \in Vrfs
    BY <2>1 DEF Stored, TypeInv, TypeOK, RowType
  <2>3. Holder(i) /\ Holder(j)
    BY DEF Holder, Stored
  <2>4. Claim(<<"network", Root(i)>>, rows[i].vrf) /\ Claim(<<"network", Root(j)>>, rows[i].vrf)
    BY <2>2, <2>3 DEF Claim
  <2>5. Root(i) = Root(j)
    BY <2>1, <2>2, <2>4 DEF Exclusive
  <2> QED BY <2>5 DEF Root
<1> QED BY VrfInit, VrfStep, <1>1, PTL DEF Spec

-----------------------------------------------------------------------------
(* Changes of a network and its deletion, as long as they do not overlap.    *)

Changer(r) == req[r].pc \in Changes
(* What a call, or a task, has taken out of the ipam so far.                 *)
Removed(c) == {p \in c.row.prefixes \ c.prefixes : c.pc # "updateRemove" \/ p \notin c.todo}
Freed(c) == {p \in c.row.prefixes : c.pc # "prefix" \/ p \notin c.todo}

Alone == \A r, x \in Requests : Changer(r) /\ Changer(x) /\ req[r].id = req[x].id => r = x
Undisturbed ==
    \A r \in Requests, t \in Tasks :
      Changer(r) /\ Releases(task[t]) /\ task[t].network = req[r].id => ~FreshFor(t, req[r].id)
CallsCurrent == \A r \in Requests : Changer(r) => rows[req[r].id] = req[r].row
ReleasesCurrent ==
    \A t \in Tasks : Releases(task[t]) /\ FreshFor(t, task[t].network) => rows[task[t].network] = task[t].row
UpdatesLive == \A r \in Requests : Changer(r) /\ req[r].pc # "rootPrefix" => ~BeingReleased(req[r].id)
Calm == Alone /\ Undisturbed /\ CallsCurrent /\ ReleasesCurrent /\ UpdatesLive

(* What calls and tasks still have to do is a part of what they were asked.  *)
CallTodo(c) ==
    /\ c.pc \in {"rootVrf", "rootRow"} => c.todo = c.row.prefixes
    /\ c.pc = "rootPrefix" => c.todo \subseteq c.row.prefixes
    /\ c.pc = "updateRemove" => c.todo \subseteq c.row.prefixes \ c.prefixes
    /\ c.pc = "updateAdd" => c.todo \subseteq c.prefixes \ c.row.prefixes
TaskTodo(c) == c \in NetTask /\ c.pc = "prefix" => c.todo \subseteq c.row.prefixes
Todos == (\A r \in Requests : CallTodo(req[r])) /\ (\A t \in Tasks : TaskTodo(task[t]))

CalmInv == AddressInv /\ Todos /\ (Unless({"again", "midway"}) => Calm)

LEMMA ChangerShape ==
  ASSUME TypeInv, NEW r \in Requests, Changer(r)
  PROVE  /\ req[r].id \in RootIds /\ req[r].id \in Ids /\ req[r].row \in RootRows /\ req[r].row # None
         /\ req[r].row.ns = None
         /\ req[r].pc # "rootPrefix" => req[r] \in UpdateCall
<1>1. req[r] \in RootCall \cup UpdateCall /\ (req[r].pc # "rootPrefix" => req[r] \in UpdateCall)
  BY CallShapes DEF Changer, Changes, TypeInv
<1> QED BY <1>1, RowKinds DEF RootCall, UpdateCall, RootRows, Ids

(* A row that is there only changes when an update is written.               *)
LEMMA ChangedByRequest ==
  ASSUME TypeInv, Stored \subseteq used, NEW r \in Requests, Request(r), NEW i \in Ids, rows[i] # None, rows'[i] # rows[i]
  PROVE  /\ req[r] \in UpdateCall /\ req[r].pc = "updateRow" /\ req[r].id = i /\ rows[i] = req[r].row
         /\ rows'[i] # None /\ rows'[i].prefixes = req[r].prefixes /\ rows'[i].ns = rows[i].ns
         /\ prefixes' = prefixes
<1>1. CASE UpdateRow(r)
  <2> DEFINE row == [req[r].row EXCEPT !.prefixes = req[r].prefixes]
  <2>1. row \in RootRows /\ row # None /\ row.prefixes = req[r].prefixes /\ row.ns = req[r].row.ns
    BY <1>1, UpdateRowEffect, RowKinds DEF UpdateCall, RootRows
  <2>2. rows[req[r].id] = req[r].row /\ rows' = [rows EXCEPT ![req[r].id] = row]
    BY <1>1, UpdateRowEffect
  <2> HIDE DEF row
  <2> QED BY <1>1, <2>1, <2>2, UpdateRowEffect DEF TypeInv, TypeOK
<1>2. CASE RootRow(r)
  BY <1>2, RootRowEffect DEF TypeInv, TypeOK
<1>3. CASE ChildRow(r)
  BY <1>3, ChildRowEffect DEF TypeInv, TypeOK, Stored
<1> QED BY <1>1, <1>2, <1>3, ValidateRootEffect, RootVrfEffect, RootPrefixEffect, ValidateChildEffect,
        ChildParentEffect, ChildPrefixEffect, ChildVrfEffect, ValidateUpdateEffect, UpdateRemoveEffect, UpdateAddEffect,
        ValidateIpEffect, IpAcquireEffect, IpRowEffect DEF Request

LEMMA IdleTodo == CallTodo(Idle)
BY DEF CallTodo, Idle, Births

LEMMA RequestTodo ==
  ASSUME TypeInv, NEW r \in Requests, Request(r), CallTodo(req[r]), NEW c, c = req'[r]
  PROVE  CallTodo(c)
<1>0. \A p : p \in Births => p \notin {"rootVrf", "rootRow", "rootPrefix", "updateRemove", "updateAdd", "childParent"}
  BY DEF Births
<1>1. ASSUME NEW q \in RootRequests, ValidateRoot(r, q) PROVE CallTodo(c)
  <2>1. c.pc \in {"rootRow", "rootVrf"} /\ c.todo = q.prefixes /\ c.row.prefixes = q.prefixes
    <3>1. c.pc \in {"rootRow", "rootVrf"} /\ c.todo = q.prefixes /\ c.row = RowOf(q)
      BY <1>1, ValidateRootEffect
    <3>2. RowOf(q).prefixes = q.prefixes
      BY DEF RowOf
    <3> QED BY <3>1, <3>2
  <2> QED BY <1>0, <2>1 DEF CallTodo
<1>2. CASE RootVrf(r)
  BY <1>0, <1>2, RootVrfEffect, IdleTodo DEF CallTodo
<1>3. CASE RootRow(r)
  BY <1>0, <1>3, RootRowEffect, IdleTodo DEF CallTodo
<1>4. CASE RootPrefix(r)
  BY <1>0, <1>4, RootPrefixEffect, IdleTodo DEF CallTodo
<1>5. ASSUME NEW q \in ChildRequests, ValidateChild(r, q) PROVE CallTodo(c)
  BY <1>0, <1>5, ValidateChildEffect DEF CallTodo
<1>6. CASE ChildParent(r)
  BY <1>0, <1>6, ChildParentEffect, IdleTodo DEF CallTodo, Births
<1>7. CASE ChildPrefix(r)
  BY <1>0, <1>7, ChildPrefixEffect, IdleTodo DEF CallTodo, Births
<1>8. CASE ChildVrf(r)
  BY <1>0, <1>8, ChildVrfEffect, IdleTodo DEF CallTodo, Births
<1>9. CASE ChildRow(r)
  BY <1>9, ChildRowEffect, IdleTodo
<1>10. ASSUME NEW q \in UpdateRequests, ValidateUpdate(r, q) PROVE CallTodo(c)
  <2>1. c.pc = "updateRemove" /\ c.todo = c.row.prefixes \ c.prefixes
    BY <1>10, ValidateUpdateEffect
  <2> QED BY <1>0, <2>1 DEF CallTodo
<1>11. CASE UpdateRemove(r)
  BY <1>0, <1>11, UpdateRemoveEffect, IdleTodo DEF CallTodo, SameUpdate
<1>12. CASE UpdateAdd(r)
  <2>1. req[r].pc = "updateAdd" /\ req[r].todo \subseteq req[r].prefixes \ req[r].row.prefixes
    BY <1>12, UpdateAddEffect DEF CallTodo
  <2>2. \/ c = Idle
        \/ c.pc = "updateRow"
        \/ c.pc = "updateAdd" /\ c.todo \subseteq req[r].todo /\ c.prefixes = req[r].prefixes /\ c.row = req[r].row
    BY <1>12, UpdateAddEffect DEF SameUpdate
  <2> QED BY <1>0, <2>1, <2>2, IdleTodo DEF CallTodo, Births
<1>13. CASE UpdateRow(r)
  BY <1>13, UpdateRowEffect, IdleTodo
<1>14. ASSUME NEW q \in IpRequests, ValidateIp(r, q) PROVE CallTodo(c)
  BY <1>14, ValidateIpEffect DEF CallTodo, Births
<1>15. CASE IpAcquire(r)
  BY <1>15, IpAcquireEffect, IdleTodo DEF CallTodo, Births
<1>16. CASE IpRow(r)
  BY <1>16, IpRowEffect, IdleTodo
<1> QED BY <1>1, <1>2, <1>3, <1>4, <1>5, <1>6, <1>7, <1>8, <1>9, <1>10, <1>11, <1>12, <1>13, <1>14, <1>15, <1>16
        DEF Request

LEMMA TodosRequest ==
  ASSUME TypeInv, Todos, NEW r \in Requests, Request(r)
  PROVE  Todos'
<1>1. OthersStay(r) /\ task' = task
  BY NetworkCallStays, ValidateIpEffect, IpAcquireEffect, IpRowEffect DEF Request, NetworkCall, Moves
<1>2. ASSUME NEW x \in Requests PROVE CallTodo(req'[x])
  <2>1. CASE x = r
    BY <2>1, RequestTodo DEF Todos
  <2>2. CASE x # r
    BY <1>1, <2>2 DEF Todos, OthersStay
  <2> QED BY <2>1, <2>2
<1> QED BY <1>1, <1>2 DEF Todos, CallTodo, TaskTodo

(* A task that releases a network did so before, or reads it only now.       *)
LEMMA ReleasesStep ==
  ASSUME TypeInv, NEW t \in Tasks, Task(t), "midway" \notin mishap', Releases(task'[t])
  PROVE  /\ Runs(t) /\ task'[t].tries = task[t].tries /\ task'[t].network = task[t].network
         /\ \/ /\ Releases(task[t]) /\ task'[t].row = task[t].row /\ rows' = rows
               /\ \A p \in Freed(task'[t]) : p \in Freed(task[t]) \/ <<task'[t].row.ns, p>> \notin prefixes'
            \/ /\ rows' = rows /\ prefixes' = prefixes
               /\ task'[t].row = rows[task[t].network] /\ Freed(task'[t]) = {}
               /\ ~Changing(task[t].network)
<1>0. \A c \in NetQueued \cup IpQueued \cup IpTask : ~Releases(c)
  BY DEF NetQueued, IpQueued, IpTask, Releases, NetTask
<1>b. \A c, d : Again(c, d) \/ Done(c, d) => ~Releases(d)
  BY DEF Releases, Again, Done
<1>1. ASSUME NEW i \in Ids, DeleteNetwork(t, i) PROVE FALSE
  BY <1>0, <1>1, DeleteNetworkEffect
<1>2. ASSUME NEW k \in IpKeys, DeleteIp(t, k) PROVE FALSE
  BY <1>0, <1>2, DeleteIpEffect
<1>3. CASE ReadNetwork(t)
  <2>1. /\ task'[t].pc = "prefix" /\ task'[t].todo = rows[task[t].network].prefixes
        /\ task'[t].row = rows[task[t].network]
    BY <1>3, <1>b, ReadNetworkEffect
  <2>2. Freed(task'[t]) = {}
    BY <2>1 DEF Freed
  <2> QED BY <1>3, <1>b, <2>1, <2>2, ReadNetworkEffect
<1>4. CASE ReleasePrefix(t)
  <2>1. Releases(task[t]) /\ Runs(t) /\ SameNet(task[t], task'[t]) /\ rows' = rows /\ task[t].pc = "prefix"
    BY <1>4, <1>b, ReleasePrefixEffect DEF Releases
  <2>2. CASE task[t].todo = {}
    BY <2>1, <2>2 DEF SameNet, Freed
  <2>3. ASSUME NEW p \in task[t].todo, prefixes' = prefixes \ {<<task[t].row.ns, p>>},
               task'[t].pc = "prefix", task'[t].todo = task[t].todo \ {p}
        PROVE  \A q \in Freed(task'[t]) : q \in Freed(task[t]) \/ <<task'[t].row.ns, q>> \notin prefixes'
    <3>1. \A q \in Freed(task'[t]) : q \in Freed(task[t]) \/ q = p
      BY <2>1, <2>3 DEF SameNet, Freed
    <3> QED BY <2>1, <2>3, <3>1 DEF SameNet
  <2> QED BY <1>4, <1>b, <2>1, <2>2, <2>3, ReleasePrefixEffect DEF SameNet
<1>5. CASE ReleaseVrf(t)
  BY <1>5, ReleaseVrfEffect DEF SameNet, Freed, Releases
<1>6. ASSUME DeleteRow(t) PROVE FALSE
  BY <1>6, DeleteRowEffect DEF Releases
<1>7. ASSUME ReadIp(t) PROVE FALSE
  BY <1>0, <1>b, <1>7, ReadIpEffect
<1>8. ASSUME ReleaseIP(t) PROVE FALSE
  BY <1>0, <1>8, ReleaseIPEffect DEF SameIp
<1>9. ASSUME DeleteIpRow(t) PROVE FALSE
  BY <1>0, <1>9, DeleteIpRowEffect DEF SameIp
<1>10. ASSUME TaskDies(t) PROVE FALSE
  BY <1>b, <1>10, TaskDiesEffect
<1> QED BY <1>1, <1>2, <1>3, <1>4, <1>5, <1>6, <1>7, <1>8, <1>9, <1>10 DEF Task

LEMMA TaskKeepsCalls ==
  ASSUME TypeInv, NEW t \in Tasks, Task(t)
  PROVE  Runs(t) /\ req' = req /\ \A k \in IpKeys : ips'[k] # None => ips'[k] = ips[k]
<1>1. CASE NetworkTask(t)
  BY <1>1, NetworkTaskStays
<1>2. CASE DeleteIpRow(t)
  BY <1>2, DeleteIpRowEffect DEF TypeInv, TypeOK
<1> QED BY <1>1, <1>2, DeleteIpEffect, ReadIpEffect, ReleaseIPEffect DEF Task, NetworkTask

(* A row that goes is the one that the first task to release it has read.    *)
LEMMA RowDeleted ==
  ASSUME TypeInv, NEW t \in Tasks, Task(t), "again" \notin mishap', NEW i \in Ids, rows'[i] # rows[i]
  PROVE  /\ Releases(task[t]) /\ task[t].pc = "row" /\ task[t].network = i /\ FreshFor(t, i) /\ ~Releases(task'[t])
         /\ \E x \in released' : x[1] = i /\ x[2] = t
<1>1. DeleteRow(t)
  BY DeleteNetworkEffect, DeleteIpEffect, ReadNetworkEffect, ReleasePrefixEffect, ReleaseVrfEffect,
     ReadIpEffect, ReleaseIPEffect, DeleteIpRowEffect, TaskDiesEffect DEF Task
<1>2. Releases(task[t]) /\ task[t].pc = "row" /\ task[t].network = i /\ ~Releases(task'[t])
  BY <1>1, DeleteRowEffect DEF Releases, TypeInv, TypeOK
<1>3. Releasing(t, i, {})
  BY <1>1, <1>2, DeleteRowEffect
<1>4. FreshFor(t, i) /\ <<i, t, task[t].tries>> \in released'
  BY <1>3, ReleasingEffect
<1>5. <<i, t, task[t].tries>>[1] = i /\ <<i, t, task[t].tries>>[2] = t
  OBVIOUS
<1> QED BY <1>2, <1>4, <1>5

LEMMA TaskRows ==
  ASSUME TypeInv, NEW t \in Tasks, Task(t), NEW i \in Ids
  PROVE  rows'[i] = rows[i] \/ rows'[i] = None
<1>1. CASE DeleteRow(t)
  BY <1>1, DeleteRowEffect DEF TypeInv, TypeOK
<1> QED BY <1>1, DeleteNetworkEffect, DeleteIpEffect, ReadNetworkEffect, ReleasePrefixEffect, ReleaseVrfEffect,
        ReadIpEffect, ReleaseIPEffect, DeleteIpRowEffect, TaskDiesEffect DEF Task

(* A task is at its prefixes because it just read the row, or goes on.       *)
LEMMA TaskAtPrefix ==
  ASSUME TypeInv, NEW t \in Tasks, Task(t), task'[t] \in NetTask, task'[t].pc = "prefix"
  PROVE  \/ ReadNetwork(t) /\ ~Done(task[t], task'[t])
         \/ ReleasePrefix(t) /\ SameNet(task[t], task'[t]) /\ task'[t].todo \subseteq task[t].todo
<1>0. \A c \in NetQueued \cup IpQueued \cup IpTask : c.pc # "prefix"
  BY DEF NetQueued, IpQueued, IpTask
<1>1. CASE ReadNetwork(t)
  BY <1>1 DEF Done
<1>2. CASE ReleasePrefix(t)
  BY <1>2, ReleasePrefixEffect DEF Again
<1>3. CASE ReadIp(t)
  BY <1>0, <1>3, ReadIpEffect DEF Done, Again
<1> QED BY <1>0, <1>1, <1>2, <1>3, DeleteNetworkEffect, DeleteIpEffect, ReleaseVrfEffect, DeleteRowEffect,
        ReleaseIPEffect, DeleteIpRowEffect, TaskDiesEffect DEF Task, SameIp, Again

LEMMA TodosTask ==
  ASSUME TypeInv, Todos, NEW t \in Tasks, Task(t)
  PROVE  Todos'
<1>1. Runs(t) /\ req' = req
  BY TaskKeepsCalls
<1>3. ASSUME task'[t] \in NetTask, task'[t].pc = "prefix" PROVE task'[t].todo \subseteq task'[t].row.prefixes
  <2>1. CASE ReadNetwork(t) /\ ~Done(task[t], task'[t])
    BY <2>1, ReadNetworkEffect
  <2>2. CASE ReleasePrefix(t) /\ SameNet(task[t], task'[t]) /\ task'[t].todo \subseteq task[t].todo
    <3>1. task[t].todo \subseteq task[t].row.prefixes
      BY <2>2, ReleasePrefixEffect DEF Todos, TaskTodo
    <3> QED BY <2>2, <3>1 DEF SameNet
  <2> QED BY <1>3, <2>1, <2>2, TaskAtPrefix
<1>4. ASSUME NEW x \in Tasks PROVE TaskTodo(task'[x])
  <2>1. CASE x = t
    BY <1>3, <2>1 DEF TaskTodo
  <2>2. CASE x # t
    BY <1>1, <2>2 DEF Runs, Todos
  <2> QED BY <2>1, <2>2
<1> QED BY <1>1, <1>4 DEF Todos, CallTodo, TaskTodo

LEMMA TodosInit == Init => Todos
<1> SUFFICES ASSUME Init PROVE Todos
  OBVIOUS
<1>1. req = [r \in Requests |-> Idle] /\ task = [t \in Tasks |-> [pc |-> "unused"]]
  BY DEF Init
<1>3. \A c \in NetTask : c.pc # "unused"
  BY DEF NetTask
<1> QED BY <1>1, <1>3, IdleTodo DEF Todos, TaskTodo

(* The changes that a request leaves alone.                                  *)
LEMMA OtherChanges ==
  ASSUME TypeInv, Stored \subseteq used, Calm, NEW r \in Requests, Request(r), NEW x \in Requests \ {r}, req'[x].pc \in Changes
  PROVE  Changer(x) /\ req'[x] = req[x] /\ rows'[req[x].id] = req[x].row /\ (Changer(r) => req[r].id # req[x].id)
<1>1. req'[x] = req[x] /\ Changer(x)
  BY NetworkCallStays, ValidateIpEffect, IpAcquireEffect, IpRowEffect DEF Request, NetworkCall, Moves, OthersStay, Changer
<1>2. rows[req[x].id] = req[x].row /\ rows[req[x].id] # None /\ req[x].id \in Ids
  BY <1>1, ChangerShape DEF Calm, CallsCurrent
<1>3. Changer(r) => req[r].id # req[x].id
  BY <1>1 DEF Calm, Alone
<1>4. rows'[req[x].id] = rows[req[x].id]
  BY <1>2, <1>3, ChangedByRequest DEF Changer, Changes
<1> QED BY <1>1, <1>2, <1>3, <1>4

(* A request that begins or goes on to change a network.                     *)
Begins(c) ==
    /\ \A x \in Requests : Changer(x) => req[x].id # c.id
    /\ \A t \in Tasks : Releases(task[t]) /\ task[t].network = c.id => ~FreshFor(t, c.id)
    /\ c.pc # "rootPrefix" => ~BeingReleased(c.id)
    /\ rows[c.id] = None \/ ~Parenting(c.id)

LEMMA OwnChange ==
  ASSUME TypeInv, Stored \subseteq used, Calm, NEW r \in Requests, Request(r), "midway" \notin mishap',
         NEW c, c = req'[r], c.pc \in Changes
  PROVE  /\ rows'[c.id] = c.row
         /\ \/ Changer(r) /\ req[r].id = c.id /\ (c.pc # "rootPrefix" => req[r].pc # "rootPrefix")
            \/ Begins(c)
<1>a. \A x \in Requests : Changer(x) => rows[req[x].id] # None
  BY ChangerShape DEF Calm, CallsCurrent
<1>b. \A t \in Tasks : Releases(task[t]) /\ FreshFor(t, task[t].network) => rows[task[t].network] # None
  BY NamesAssumption DEF Calm, ReleasesCurrent, Releases, NetTask
<1>c. ASSUME ~Dying(c.id), ~Changing(c.id), ~Parenting(c.id) PROVE Begins(c)
  BY <1>c DEF Dying, Changing, Changer, Releases, Begins
<1>d. ASSUME c = Idle \/ c.pc \notin Changes PROVE FALSE
  BY <1>d DEF Idle, Changes
<1>1. CASE RootRow(r)
  <2>1. /\ req[r] \in RootCall /\ rows[req[r].id] = None /\ rows' = [rows EXCEPT ![req[r].id] = req[r].row]
        /\ c.pc = "rootPrefix" /\ c.id = req[r].id /\ c.row = req[r].row
    BY <1>1, <1>d, RootRowEffect
  <2>2. Begins(c)
    BY <1>a, <1>b, <2>1 DEF Begins
  <2> QED BY <2>1, <2>2 DEF TypeInv, TypeOK, RootCall, Ids
<1>2. CASE RootPrefix(r)
  <2>1. /\ req[r].pc = "rootPrefix" /\ rows' = rows
        /\ c.pc = "rootPrefix" /\ c.id = req[r].id /\ c.row = req[r].row
    BY <1>2, <1>d, RootPrefixEffect
  <2>2. Changer(r)
    BY <2>1 DEF Changer, Changes
  <2> QED BY <2>1, <2>2 DEF Calm, CallsCurrent
<1>3. ASSUME NEW q \in UpdateRequests, ValidateUpdate(r, q) PROVE rows'[c.id] = c.row /\ Begins(c)
  <2>1. /\ rows' = rows /\ c.id = q.id /\ c.row = rows[q.id] /\ ~Dying(q.id) /\ ~Changing(q.id) /\ ~Parenting(q.id)
    BY <1>3, ValidateUpdateEffect
  <2> QED BY <1>c, <2>1
<1>4. CASE UpdateRemove(r) \/ UpdateAdd(r)
  <2>1. Changer(r) /\ rows' = rows /\ req[r].pc \in {"updateRemove", "updateAdd"}
    BY <1>4, UpdateRemoveEffect, UpdateAddEffect DEF Changer, Changes
  <2>2. c.row = req[r].row /\ c.id = req[r].id
    BY <1>4, <1>d, UpdateRemoveEffect, UpdateAddEffect DEF SameUpdate
  <2> QED BY <2>1, <2>2 DEF Calm, CallsCurrent
<1>6. CASE RootVrf(r)
  BY <1>6, <1>d, RootVrfEffect DEF Changes
<1>7. ASSUME NEW q \in RootRequests, ValidateRoot(r, q) PROVE FALSE
  BY <1>7, <1>d, ValidateRootEffect DEF Changes
<1>8. ASSUME NEW q \in ChildRequests, ValidateChild(r, q) PROVE FALSE
  BY <1>8, <1>d, ValidateChildEffect DEF Changes
<1>9. ASSUME ChildParent(r) \/ ChildPrefix(r) \/ ChildVrf(r) \/ ChildRow(r) PROVE FALSE
  BY <1>9, <1>d, ChildParentEffect, ChildPrefixEffect, ChildVrfEffect, ChildRowEffect DEF Changes
<1>10. ASSUME NEW q \in IpRequests, ValidateIp(r, q) PROVE FALSE
  BY <1>10, <1>d, ValidateIpEffect DEF Changes
<1>11. ASSUME UpdateRow(r) \/ IpAcquire(r) \/ IpRow(r) PROVE FALSE
  BY <1>11, <1>d, UpdateRowEffect, IpAcquireEffect, IpRowEffect DEF Changes
<1> QED BY <1>1, <1>2, <1>3, <1>4, <1>6, <1>7, <1>8, <1>9, <1>10, <1>11 DEF Request

LEMMA CalmRequest ==
  ASSUME TypeInv, Stored \subseteq used, Calm, NEW r \in Requests, Request(r), "midway" \notin mishap'
  PROVE  Calm'
<1>0. UNCHANGED <<task, released>>
  BY RequestKeepsRows
<1>1. ASSUME NEW x \in Requests, x # r, req'[x].pc \in Changes
      PROVE  Changer(x) /\ req'[x] = req[x] /\ rows'[req[x].id] = req[x].row
  BY <1>1, OtherChanges
<1>2. ASSUME NEW c, c = req'[r], c.pc \in Changes
      PROVE  /\ rows'[c.id] = c.row
             /\ \/ Changer(r) /\ req[r].id = c.id /\ (c.pc # "rootPrefix" => req[r].pc # "rootPrefix")
                \/ Begins(c)
  BY <1>2, OwnChange
<1>3. Alone'
  <2> SUFFICES ASSUME NEW x \in Requests, NEW y \in Requests, x # y, req'[x].pc \in Changes, req'[y].pc \in Changes,
                      req'[x].id = req'[y].id
               PROVE  FALSE
    BY DEF Alone, Changer
  <2>1. \A z \in Requests : z # r /\ req'[z].pc \in Changes => Changer(z) /\ req'[z].id = req[z].id
    BY <1>1
  <2>2. ASSUME NEW z \in Requests, z # r, req'[z].pc \in Changes, req'[r].pc \in Changes, req'[z].id = req'[r].id PROVE FALSE
    BY <1>2, <2>1, <2>2 DEF Calm, Alone, Begins
  <2>3. CASE x # r /\ y # r
    BY <2>1, <2>3 DEF Calm, Alone
  <2> QED BY <2>2, <2>3
<1>4. Undisturbed'
  <2> SUFFICES ASSUME NEW x \in Requests, NEW t \in Tasks, req'[x].pc \in Changes, Releases(task[t]),
                      task[t].network = req'[x].id
               PROVE  ~FreshFor(t, req'[x].id)
    BY <1>0 DEF Undisturbed, Changer, Releases, FreshFor
  <2>1. CASE x # r
    BY <1>1, <2>1 DEF Calm, Undisturbed
  <2>2. CASE x = r
    BY <1>2, <2>2 DEF Calm, Undisturbed, Begins
  <2> QED BY <2>1, <2>2
<1>5. CallsCurrent'
  <2> SUFFICES ASSUME NEW x \in Requests, req'[x].pc \in Changes PROVE rows'[req'[x].id] = req'[x].row
    BY DEF CallsCurrent, Changer
  <2> QED BY <1>1, <1>2
<1>6. ReleasesCurrent'
  <2> SUFFICES ASSUME NEW t \in Tasks, Releases(task[t]), FreshFor(t, task[t].network)
               PROVE  rows'[task[t].network] = task[t].row
    BY <1>0 DEF ReleasesCurrent, FreshFor, Releases
  <2> DEFINE i == task[t].network
  <2>1. i \in Ids /\ rows[i] = task[t].row /\ rows[i] # None
    BY NamesAssumption DEF Calm, ReleasesCurrent, Releases, NetTask
  <2>2. Changer(r) => req[r].id # i
    BY DEF Calm, Undisturbed
  <2>3. rows'[i] = rows[i]
    BY <2>1, <2>2, ChangedByRequest DEF Changer, Changes
  <2> QED BY <2>1, <2>3
<1>7. UpdatesLive'
  <2> SUFFICES ASSUME NEW x \in Requests, req'[x].pc \in Changes, req'[x].pc # "rootPrefix" PROVE ~BeingReleased(req'[x].id)
    BY <1>0 DEF UpdatesLive, Changer, BeingReleased
  <2>1. CASE x # r
    BY <1>1, <2>1 DEF Calm, UpdatesLive
  <2>2. CASE x = r
    BY <1>2, <2>2 DEF Calm, UpdatesLive, Begins
  <2> QED BY <2>1, <2>2
<1> QED BY <1>3, <1>4, <1>5, <1>6, <1>7 DEF Calm

(* What a task begins to release is the ip it deletes, or the network that   *)
(* nobody released before.                                                   *)
LEMMA NewlyReleased ==
  ASSUME TypeInv, NEW t \in Tasks, Task(t), NEW x \in released', x \notin released
  PROVE  \/ x[1] \in Uuids
         \/ Releases(task[t]) /\ x[1] = task[t].network /\ FreshFor(t, x[1])
<1>1. ASSUME NEW e, NEW wrong, Releasing(t, e, wrong) PROVE x[1] = e /\ FreshFor(t, e)
  BY <1>1 DEF Releasing, FreshFor
<1>2. CASE ReleasePrefix(t) \/ ReleaseVrf(t) \/ DeleteRow(t)
  BY <1>1, <1>2, ReleasePrefixEffect, ReleaseVrfEffect, DeleteRowEffect DEF Releases
<1>3. CASE ReleaseIP(t) \/ DeleteIpRow(t)
  BY <1>1, <1>3, ReleaseIPEffect, DeleteIpRowEffect DEF IpTask
<1> QED BY <1>2, <1>3, DeleteNetworkEffect, DeleteIpEffect, ReadNetworkEffect, ReadIpEffect, TaskDiesEffect DEF Task

(* Who still is the first to release a network was it before.                *)
LEMMA StillFirst ==
  ASSUME TypeInv, NEW t \in Tasks, Task(t), "midway" \notin mishap', NEW x \in Tasks, NEW i,
         Releases(task'[x]), task'[x].network = i, \A y \in released' : y[1] = i => y = <<i, x, task'[x].tries>>
  PROVE  FreshFor(x, i) /\ task[x].network = i /\ (x # t => task'[x] = task[x])
<1>0. Runs(t) /\ released \subseteq released'
  BY TaskMoves, TaskKeepsCalls DEF RowsMove
<1>1. CASE x # t
  BY <1>0, <1>1 DEF Runs, FreshFor
<1>2. CASE x = t
  BY <1>0, <1>2, ReleasesStep DEF FreshFor
<1> QED BY <1>1, <1>2

LEMMA CalmTask ==
  ASSUME TypeInv, Calm, NEW t \in Tasks, Task(t), "again" \notin mishap', "midway" \notin mishap'
  PROVE  Calm'
<1>0. Runs(t) /\ req' = req /\ released \subseteq released'
  BY TaskMoves, TaskKeepsCalls DEF RowsMove
<1>2. Alone'
  BY <1>0 DEF Calm, Alone, Changer
<1>3. Undisturbed'
  <2> SUFFICES ASSUME NEW r \in Requests, NEW x \in Tasks, NEW i, i = req[r].id, Changer(r), Releases(task'[x]),
                      task'[x].network = i, \A y \in released' : y[1] = i => y = <<i, x, task'[x].tries>>
               PROVE  FALSE
    BY <1>0 DEF Undisturbed, Changer, FreshFor
  <2>1. FreshFor(x, i) /\ task[x].network = i /\ (x # t => task'[x] = task[x])
    BY StillFirst
  <2>2. ~Releases(task[x])
    BY <2>1 DEF Calm, Undisturbed
  <2>3. x = t /\ ~Changing(i)
    BY <2>1, <2>2, ReleasesStep
  <2> QED BY <2>3 DEF Changing, Changer
<1>4. CallsCurrent'
  <2> SUFFICES ASSUME NEW r \in Requests, Changer(r) PROVE rows'[req[r].id] = rows[req[r].id]
    BY <1>0 DEF Calm, CallsCurrent, Changer
  <2> QED BY ChangerShape, RowDeleted DEF Calm, Undisturbed
<1>5. ReleasesCurrent'
  <2> SUFFICES ASSUME NEW x \in Tasks, NEW i, i = task'[x].network, Releases(task'[x]),
                      \A y \in released' : y[1] = i => y = <<i, x, task'[x].tries>>
               PROVE  rows'[i] = task'[x].row
    BY DEF ReleasesCurrent, FreshFor, Releases
  <2>1. FreshFor(x, i) /\ task[x].network = i /\ (x # t => task'[x] = task[x])
    BY StillFirst
  <2>2. i \in Ids
    BY DEF Releases, NetTask
  <2>3. rows'[i] = rows[i]
    <3> SUFFICES ASSUME rows'[i] # rows[i] PROVE FALSE
      OBVIOUS
    <3>1. x # t /\ \E y \in released' : y[1] = i /\ y[2] = t
      BY <2>2, RowDeleted
    <3>2. PICK y \in released' : y[1] = i /\ y[2] = t
      BY <3>1
    <3>3. y = <<i, x, task'[x].tries>>
      BY <3>2
    <3> QED BY <3>1, <3>2, <3>3
  <2>4. CASE x # t
    BY <2>1, <2>3, <2>4 DEF Calm, ReleasesCurrent
  <2>5. CASE x = t
    BY <2>1, <2>3, <2>5, ReleasesStep DEF Calm, ReleasesCurrent
  <2> QED BY <2>4, <2>5
<1>6. UpdatesLive'
  <2> SUFFICES ASSUME NEW r \in Requests, Changer(r), req[r].pc # "rootPrefix", NEW x \in released', x[1] = req[r].id
               PROVE  FALSE
    BY <1>0 DEF UpdatesLive, Changer, BeingReleased
  <2>1. x \notin released /\ req[r].id \in Ids
    BY ChangerShape DEF Calm, UpdatesLive, BeingReleased
  <2>2. Releases(task[t]) /\ task[t].network = req[r].id /\ FreshFor(t, req[r].id)
    BY <2>1, NewlyReleased, NamesAssumption
  <2> QED BY <2>2 DEF Calm, Undisturbed
<1> QED BY <1>2, <1>3, <1>4, <1>5, <1>6 DEF Calm

LEMMA CalmInit == Init => CalmInv
<1> SUFFICES ASSUME Init PROVE CalmInv
  OBVIOUS
<1>1. req = [r \in Requests |-> Idle] /\ task = [t \in Tasks |-> [pc |-> "unused"]]
  BY DEF Init
<1>2. \A r \in Requests : ~Changer(r)
  BY <1>1 DEF Idle, Changer, Changes
<1>3. \A t \in Tasks : ~Releases(task[t])
  BY <1>1 DEF Releases
<1> QED BY <1>2, <1>3, AddressInit, TodosInit DEF CalmInv, Calm, Alone, Undisturbed, CallsCurrent, ReleasesCurrent, UpdatesLive

LEMMA CalmStep == CalmInv /\ [Next]_vars => CalmInv'
<1> SUFFICES ASSUME CalmInv, [Next]_vars PROVE CalmInv'
  OBVIOUS
<1>1. AddressInv /\ AddressInv' /\ TypeInv /\ Stored \subseteq used /\ Todos
  BY AddressStep DEF CalmInv, AddressInv, Places
<1>2. ASSUME mishap \subseteq mishap', Unless({"again", "midway"})'
      PROVE  Calm /\ "again" \notin mishap' /\ "midway" \notin mishap'
  BY <1>1, <1>2 DEF CalmInv, Unless
<1>3. ASSUME NEW r \in Requests, Request(r) PROVE CalmInv'
  BY <1>1, <1>2, <1>3, TodosRequest, CalmRequest, RequestMoves DEF RowsMove, CalmInv
<1>4. ASSUME NEW t \in Tasks, Task(t) PROVE CalmInv'
  BY <1>1, <1>2, <1>4, TodosTask, CalmTask, TaskMoves DEF RowsMove, CalmInv
<1>5. CASE UNCHANGED vars
  <2>1. UNCHANGED <<rows, req, task, released, mishap>>
    BY <1>5 DEF vars
  <2>2. Todos'
    BY <1>1, <2>1 DEF Todos, CallTodo, TaskTodo
  <2>3. Calm => Alone' /\ Undisturbed' /\ CallsCurrent' /\ UpdatesLive'
    BY <2>1 DEF Calm, Alone, Undisturbed, CallsCurrent, UpdatesLive, Changer, FreshFor, BeingReleased
  <2>4. Calm => ReleasesCurrent'
    BY <2>1 DEF Calm, ReleasesCurrent, FreshFor
  <2> QED BY <1>1, <2>1, <2>2, <2>3, <2>4 DEF CalmInv, Calm, Unless
<1> QED BY <1>3, <1>4, <1>5 DEF Next

-----------------------------------------------------------------------------
(* Ips and networks.  A prefix is in the ipam as long as it has addresses.   *)

Known == \A x \in acquired : <<x[1], x[2]>> \in prefixes

LEMMA KnownStays ==
  ASSUME TypeInv, Known, acquired' \subseteq acquired,
         \/ prefixes \subseteq prefixes'
         \/ \E ns, p : ~HasAddresses(ns, p) /\ prefixes' = prefixes \ {<<ns, p>>}
  PROVE  Known'
<1>1. CASE prefixes \subseteq prefixes'
  BY <1>1 DEF Known
<1>2. ASSUME NEW ns, NEW p, ~HasAddresses(ns, p), prefixes' = prefixes \ {<<ns, p>>} PROVE Known'
  <2> SUFFICES ASSUME NEW x \in acquired, <<x[1], x[2]>> = <<ns, p>> PROVE FALSE
    BY <1>2 DEF Known
  <2>1. x = <<ns, p, x[3]>> /\ x[3] \in Addresses
    BY DEF TypeInv, TypeOK
  <2> QED BY <1>2, <2>1 DEF HasAddresses
<1> QED BY <1>1, <1>2

LEMMA KnownRequest ==
  ASSUME TypeInv, Known, NEW r \in Requests, Request(r)
  PROVE  Known'
<1>1. ASSUME prefixes \subseteq prefixes', acquired' = acquired PROVE Known'
  BY <1>1, KnownStays
<1>2. CASE UpdateRemove(r)
  BY <1>2, UpdateRemoveEffect, KnownStays
<1>3. CASE IpAcquire(r)
  <2>1. CASE acquired' = acquired
    BY <1>1, <1>3, <2>1, IpAcquireEffect
  <2>2. ASSUME NEW ns, NEW p, NEW a, <<ns, p>> \in prefixes, acquired' = acquired \cup {<<ns, p, a>>} PROVE Known'
    <3>1. prefixes' = prefixes
      BY <1>3, IpAcquireEffect
    <3>2. <<ns, p, a>>[1] = ns /\ <<ns, p, a>>[2] = p
      OBVIOUS
    <3> QED BY <2>2, <3>1, <3>2 DEF Known
  <2> QED BY <1>3, <2>1, <2>2, IpAcquireEffect
<1>4. CASE ChildPrefix(r)
  <2>1. prefixes \subseteq prefixes'
    BY <1>4, ChildPrefixEffect DEF InNamespace
  <2> QED BY <1>1, <1>4, <2>1, ChildPrefixEffect
<1> QED BY <1>1, <1>2, <1>3, <1>4, ValidateRootEffect, RootVrfEffect, RootRowEffect, RootPrefixEffect, ValidateChildEffect,
        ChildParentEffect, ChildVrfEffect, ChildRowEffect, ValidateUpdateEffect, UpdateAddEffect, UpdateRowEffect,
        ValidateIpEffect, IpRowEffect DEF Request

LEMMA KnownTask ==
  ASSUME TypeInv, Known, NEW t \in Tasks, Task(t)
  PROVE  Known' /\ prefixes' \subseteq prefixes
<1>1. ASSUME prefixes' = prefixes, acquired' \subseteq acquired PROVE Known' /\ prefixes' \subseteq prefixes
  BY <1>1, KnownStays
<1>2. CASE ReleasePrefix(t)
  BY <1>1, <1>2, ReleasePrefixEffect, KnownStays
<1> QED BY <1>1, <1>2, DeleteNetworkEffect, DeleteIpEffect, ReadNetworkEffect, ReleaseVrfEffect, DeleteRowEffect,
        ReadIpEffect, ReleaseIPEffect, DeleteIpRowEffect, TaskDiesEffect DEF Task

(* What a request adds to the ipam was in nobody's row but its own.          *)
LEMMA AddedByRequest ==
  ASSUME TypeInv, NEW r \in Requests, Request(r), "reused" \notin mishap', NEW ns, NEW p,
         <<ns, p>> \in prefixes', <<ns, p>> \notin prefixes
  PROVE  /\ rows' = rows /\ ips' = ips /\ acquired' = acquired
         /\ \A i \in Ids : rows[i] # None /\ rows[i].ns = ns /\ p \in rows[i].prefixes
              => req[r].pc = "rootPrefix" /\ req[r].id = i
         /\ \A x \in Requests : req[x].pc = "ipAcquire" /\ req[x].nw.ns = ns /\ p \in req[x].nw.prefixes
              => req[r].pc = "rootPrefix" /\ req[x].ip.network = req[r].id /\ p \in req[r].todo
         /\ \/ req[r].pc = "rootPrefix" \/ req[r].pc = "childPrefix"
            \/ req[r].pc = "updateAdd" /\ ns = None /\ p \in req[r].todo
<1>0. None \notin Ids /\ \A x \in Requests : req[x].pc = "ipAcquire" => req[x].ip.network \in Ids
  BY NamesAssumption, CallShapes DEF TypeInv, IpCall, IpRequest
<1>1. \A new, own : <<ns, p>> \in new /\ Reuses(ns, p, own) => "reused" \in Reused(new, own)
  BY DEF Reused
<1>2. ASSUME NEW own, NEW new, <<ns, p>> \in new, Reused(new, own) \subseteq mishap'
      PROVE  /\ \A i \in Ids : rows[i] # None /\ rows[i].ns = ns /\ p \in rows[i].prefixes => i = own
             /\ \A x \in Requests : req[x].pc = "ipAcquire" /\ req[x].nw.ns = ns /\ p \in req[x].nw.prefixes
                  => req[x].ip.network = own
  <2>1. ~Reuses(ns, p, own)
    BY <1>1, <1>2
  <2> QED BY <2>1 DEF Reuses, Stored
<1>3. CASE RootPrefix(r)
  <2>1. PICK q \in req[r].todo : /\ prefixes' = prefixes \cup {<<None, q>>}
                                 /\ mishap' = mishap \cup Reused({<<None, q>>}, req[r].id)
    BY <1>3, RootPrefixEffect
  <2>2. q = p /\ ns = None
    BY <2>1
  <2>3. <<ns, p>> \in {<<None, q>>} /\ Reused({<<None, q>>}, req[r].id) \subseteq mishap'
    BY <2>1, <2>2
  <2> QED BY <1>2, <1>3, <2>2, <2>3, RootPrefixEffect
<1>4. CASE UpdateAdd(r)
  <2>1. PICK q \in req[r].todo : /\ prefixes' = prefixes \cup {<<None, q>>}
                                 /\ mishap' = mishap \cup Reused({<<None, q>>}, None)
    BY <1>4, UpdateAddEffect
  <2>2. q = p /\ ns = None
    BY <2>1
  <2>3. <<ns, p>> \in {<<None, q>>} /\ Reused({<<None, q>>}, None) \subseteq mishap'
    BY <2>1, <2>2
  <2> QED BY <1>0, <1>2, <1>4, <2>2, <2>3, UpdateAddEffect
<1>5. CASE ChildPrefix(r)
  <2>1. Reused(prefixes' \ prefixes, None) \subseteq mishap'
    BY <1>5, ChildPrefixEffect
  <2> QED BY <1>0, <1>2, <1>5, <2>1, ChildPrefixEffect
<1> QED BY <1>3, <1>4, <1>5, ValidateRootEffect, RootVrfEffect, RootRowEffect, ValidateChildEffect,
        ChildParentEffect, ChildVrfEffect, ChildRowEffect, ValidateUpdateEffect, UpdateRemoveEffect, UpdateRowEffect,
        ValidateIpEffect, IpAcquireEffect, IpRowEffect DEF Request

(* Ips and what a change or a deletion has taken out of the ipam, as long as *)
(* changes and deletions do not overlap.                                     *)

ChangesGone ==
    \A r \in Requests : Changer(r) /\ req[r].pc # "rootPrefix" => \A p \in Removed(req[r]) : <<None, p>> \notin prefixes
ReleasesGone ==
    \A t \in Tasks : Releases(task[t]) /\ FreshFor(t, task[t].network) =>
      \A p \in Freed(task[t]) : <<task[t].row.ns, p>> \notin prefixes
(* As long as the ipam has the prefix, the network has it too.               *)
Backing(ns, p, n) == <<ns, p>> \in prefixes => rows[n] # None /\ p \in rows[n].prefixes
BackingOn(ns, p, n) == <<ns, p>> \in prefixes' => rows'[n] # None /\ p \in rows'[n].prefixes
IpsFit ==
    /\ \A r \in Requests : req[r].pc = "ipAcquire" =>
         \A p \in req[r].nw.prefixes : Backing(req[r].nw.ns, p, req[r].ip.network)
    /\ \A r \in Requests : HasIp(r) => Backing(req[r].ns, req[r].prefix, req[r].network)
    /\ \A k \in IpKeys : ips[k] # None /\ ~BeingReleased(ips[k].uuid) => Backing(k[1], ips[k].prefix, ips[k].network)

Fitting == Calm /\ ChangesGone /\ ReleasesGone /\ IpsFit
FitInv == CalmInv /\ Known /\ (Unless({"again", "reused", "midway"}) => Fitting)

LEMMA ReleasesGoneRequest ==
  ASSUME TypeInv, Fitting, NEW r \in Requests, Request(r), "reused" \notin mishap', UNCHANGED <<task, released>>
  PROVE  ReleasesGone'
<1> SUFFICES ASSUME NEW t \in Tasks, Releases(task[t]), FreshFor(t, task[t].network),
                    NEW p \in Freed(task[t]), <<task[t].row.ns, p>> \in prefixes'
             PROVE  FALSE
  BY DEF ReleasesGone, FreshFor, Releases, Freed
<1> DEFINE i == task[t].network
<1>1. i \in Ids /\ rows[i] = task[t].row /\ rows[i] # None
  BY NamesAssumption DEF Fitting, Calm, ReleasesCurrent, Releases, NetTask
<1>2. Changer(r) => req[r].id # i
  BY DEF Fitting, Calm, Undisturbed
<1>3. <<task[t].row.ns, p>> \notin prefixes /\ p \in rows[i].prefixes /\ rows[i].ns = task[t].row.ns
  BY <1>1 DEF Fitting, ReleasesGone, Freed
<1> QED BY <1>1, <1>2, <1>3, AddedByRequest DEF Changer, Changes

LEMMA ChangesGoneRequest ==
  ASSUME TypeInv, Stored \subseteq used, Todos, Fitting, NEW r \in Requests, Request(r), "reused" \notin mishap'
  PROVE  ChangesGone'
<1>1. ASSUME NEW x \in Requests, x # r, req'[x].pc \in Changes, req[x].pc # "rootPrefix",
             NEW p \in Removed(req[x]), <<None, p>> \in prefixes'
      PROVE  FALSE
  <2>1. Changer(x) /\ (Changer(r) => req[r].id # req[x].id)
    BY <1>1, OtherChanges DEF Fitting
  <2>2. req[x].id \in Ids /\ rows[req[x].id] = req[x].row /\ req[x].row # None /\ req[x].row.ns = None
    BY <2>1, ChangerShape DEF Fitting, Calm, CallsCurrent
  <2>3. <<None, p>> \notin prefixes /\ p \in rows[req[x].id].prefixes
    BY <1>1, <2>1, <2>2 DEF Fitting, ChangesGone, Removed
  <2> QED BY <1>1, <2>1, <2>2, <2>3, AddedByRequest DEF Changer, Changes
<1>2. ASSUME NEW c, c = req'[r], c.pc \in Changes, c.pc # "rootPrefix" PROVE \A p \in Removed(c) : <<None, p>> \notin prefixes'
  <2>d. ASSUME c = Idle \/ c.pc \notin Changes \ {"rootPrefix"} PROVE FALSE
    BY <1>2, <2>d DEF Idle, Changes
  <2>0. ASSUME req[r].pc \in {"updateRemove", "updateAdd"} PROVE \A p \in Removed(req[r]) : <<None, p>> \notin prefixes
    BY <2>0 DEF Fitting, ChangesGone, Changer, Changes
  <2>1. CASE UpdateRemove(r)
    <3>1. req[r].pc = "updateRemove"
      BY <2>1, UpdateRemoveEffect
    <3>2. CASE /\ req[r].todo = {} /\ SameUpdate(req[r], c) /\ prefixes' = prefixes
      BY <2>0, <3>1, <3>2 DEF SameUpdate, Removed
    <3>3. ASSUME NEW p \in req[r].todo, prefixes' = prefixes \ {<<None, p>>}, SameUpdate(req[r], c),
                 c.pc = "updateRemove", c.todo = req[r].todo \ {p}
          PROVE  \A q \in Removed(c) : <<None, q>> \notin prefixes'
      <4>1. \A q \in Removed(c) : q = p \/ q \in Removed(req[r])
        BY <3>1, <3>3 DEF SameUpdate, Removed
      <4> QED BY <2>0, <3>1, <3>3, <4>1
    <3> QED BY <1>2, <2>1, <2>d, <3>2, <3>3, UpdateRemoveEffect
  <2>2. CASE UpdateAdd(r)
    <3>1. req[r].pc = "updateAdd" /\ req[r].todo \cap req[r].row.prefixes = {}
      BY <2>2, UpdateAddEffect DEF Todos, CallTodo
    <3>2. ASSUME SameUpdate(req[r], c), c.pc \in {"updateAdd", "updateRow"} PROVE Removed(c) = Removed(req[r])
      BY <3>1, <3>2 DEF SameUpdate, Removed
    <3>3. CASE SameUpdate(req[r], c) /\ c.pc = "updateRow" /\ prefixes' = prefixes
      BY <2>0, <3>1, <3>2, <3>3
    <3>4. ASSUME NEW p \in req[r].todo, prefixes' = prefixes \cup {<<None, p>>}, SameUpdate(req[r], c), c.pc = "updateAdd"
          PROVE  \A q \in Removed(c) : <<None, q>> \notin prefixes'
      <4>1. \A q \in Removed(req[r]) : q # p
        BY <3>1, <3>4 DEF Removed
      <4> QED BY <2>0, <3>1, <3>2, <3>4, <4>1
    <3> QED BY <1>2, <2>2, <2>d, <3>3, <3>4, UpdateAddEffect
  <2>3. ASSUME NEW q \in UpdateRequests, ValidateUpdate(r, q) PROVE Removed(c) = {}
    <3>1. c.pc = "updateRemove" /\ c.row = rows[q.id] /\ c.prefixes = q.prefixes /\ c.todo = rows[q.id].prefixes \ q.prefixes
      BY <1>2, <2>3, ValidateUpdateEffect
    <3> QED BY <3>1 DEF Removed
  <2>4. ASSUME NEW q \in RootRequests, ValidateRoot(r, q) PROVE FALSE
    BY <1>2, <2>4, <2>d, ValidateRootEffect DEF Changes
  <2>5. ASSUME RootVrf(r) \/ RootRow(r) \/ RootPrefix(r) PROVE FALSE
    BY <1>2, <2>5, <2>d, RootVrfEffect, RootRowEffect, RootPrefixEffect DEF Changes
  <2>6. ASSUME NEW q \in ChildRequests, ValidateChild(r, q) PROVE FALSE
    BY <1>2, <2>6, <2>d, ValidateChildEffect DEF Changes
  <2>7. ASSUME ChildParent(r) \/ ChildPrefix(r) \/ ChildVrf(r) \/ ChildRow(r) PROVE FALSE
    BY <1>2, <2>7, <2>d, ChildParentEffect, ChildPrefixEffect, ChildVrfEffect, ChildRowEffect DEF Changes
  <2>8. ASSUME NEW q \in IpRequests, ValidateIp(r, q) PROVE FALSE
    BY <1>2, <2>8, <2>d, ValidateIpEffect DEF Changes
  <2>9. ASSUME UpdateRow(r) \/ IpAcquire(r) \/ IpRow(r) PROVE FALSE
    BY <1>2, <2>9, <2>d, UpdateRowEffect, IpAcquireEffect, IpRowEffect DEF Changes
  <2> QED BY <2>1, <2>2, <2>3, <2>4, <2>5, <2>6, <2>7, <2>8, <2>9 DEF Request
<1> SUFFICES ASSUME NEW x \in Requests, req'[x].pc \in Changes, req'[x].pc # "rootPrefix"
             PROVE  \A p \in Removed(req'[x]) : <<None, p>> \notin prefixes'
  BY DEF ChangesGone, Changer, Removed
<1>3. CASE x # r
  BY <1>1, <1>3, OtherChanges DEF Fitting
<1>4. CASE x = r
  BY <1>2, <1>4
<1> QED BY <1>3, <1>4

LEMMA BackingRequest ==
  ASSUME TypeInv, Stored \subseteq used, Todos, Fitting, NEW r \in Requests, Request(r), "reused" \notin mishap',
         NEW i \in Ids, NEW ns, NEW p, LivesIn(i, ns), Backing(ns, p, i),
         \/ <<ns, p>> \in prefixes
         \/ \E x \in Requests : req[x].pc = "ipAcquire" /\ req[x].nw.ns = ns /\ p \in req[x].nw.prefixes
                                /\ req[x].ip.network = i
  PROVE  BackingOn(ns, p, i)
<1> SUFFICES ASSUME <<ns, p>> \in prefixes' PROVE rows'[i] # None /\ p \in rows'[i].prefixes
  BY DEF BackingOn
<1>1. CASE <<ns, p>> \in prefixes
  <2>1. rows[i] # None /\ p \in rows[i].prefixes /\ rows[i].ns = ns
    BY <1>1 DEF Backing, LivesIn
  <2>2. CASE rows'[i] # rows[i]
    <3>1. /\ req[r] \in UpdateCall /\ req[r].pc = "updateRow" /\ req[r].id = i /\ rows[i] = req[r].row
          /\ rows'[i] # None /\ rows'[i].prefixes = req[r].prefixes
      BY <2>1, <2>2, ChangedByRequest
    <3>2. Changer(r) /\ rows[i].ns = None
      BY <3>1, ChangerShape DEF Changer, Changes
    <3>3. \A q \in Removed(req[r]) : <<None, q>> \notin prefixes
      BY <3>1, <3>2 DEF Fitting, ChangesGone
    <3>4. p \notin Removed(req[r])
      BY <1>1, <2>1, <3>2, <3>3
    <3> QED BY <2>1, <3>1, <3>4 DEF Removed
  <2> QED BY <2>1, <2>2
<1>2. CASE <<ns, p>> \notin prefixes
  <2>1. rows' = rows /\ req[r].pc = "rootPrefix" /\ req[r].id = i /\ p \in req[r].todo
    BY <1>2, AddedByRequest
  <2>2. Changer(r) /\ rows[i] = req[r].row /\ req[r].todo \subseteq req[r].row.prefixes
    BY <2>1 DEF Fitting, Calm, CallsCurrent, Todos, CallTodo, Changer, Changes
  <2> QED BY <2>1, <2>2, ChangerShape
<1> QED BY <1>1, <1>2

LEMMA IpsFitRequest ==
  ASSUME TypeInv, Places, Backed, Known, Todos, Fitting, NEW r \in Requests, Request(r), "reused" \notin mishap'
  PROVE  IpsFit'
<1>0. Stored \subseteq used /\ released' = released
  BY RequestKeepsRows DEF Places
<1>1. ASSUME NEW x \in Requests, req[x].pc = "ipAcquire", NEW p \in req[x].nw.prefixes
      PROVE  BackingOn(req[x].nw.ns, p, req[x].ip.network)
  <2>1. req[x].ip.network \in Ids /\ LivesIn(req[x].ip.network, req[x].nw.ns)
    BY <1>1, CallShapes DEF Places, TypeInv, IpCall, IpRequest
  <2>2. Backing(req[x].nw.ns, p, req[x].ip.network)
    BY <1>1 DEF Fitting, IpsFit
  <2> QED BY <1>0, <1>1, <2>1, <2>2, BackingRequest
<1>2. ASSUME NEW x \in Requests, HasIp(x)
      PROVE  BackingOn(req[x].ns, req[x].prefix, req[x].network)
  <2>1. req[x].network \in Ids /\ LivesIn(req[x].network, req[x].ns)
    BY <1>2, CallShapes DEF HasIp, Places, TypeInv, IpRowCall
  <2>2. Backing(req[x].ns, req[x].prefix, req[x].network)
    BY <1>2 DEF Fitting, IpsFit
  <2>3. <<req[x].ns, req[x].prefix>> \in prefixes
    <3>1. Triple(req[x]) \in acquired
      BY <1>2 DEF Backed, CallsBacked
    <3>2. Triple(req[x])[1] = req[x].ns /\ Triple(req[x])[2] = req[x].prefix
      BY DEF Triple
    <3> QED BY <3>1, <3>2 DEF Known
  <2> QED BY <1>0, <1>2, <2>1, <2>2, <2>3, BackingRequest
<1>3. ASSUME NEW k \in IpKeys, ips[k] # None, ~BeingReleased(ips[k].uuid)
      PROVE  BackingOn(k[1], ips[k].prefix, ips[k].network)
  <2>1. ips[k].network \in Ids /\ LivesIn(ips[k].network, k[1])
    BY <1>3 DEF Places, TypeInv, TypeOK, IpType
  <2>2. Backing(k[1], ips[k].prefix, ips[k].network)
    BY <1>3 DEF Fitting, IpsFit
  <2>3. <<k[1], ips[k].prefix>> \in prefixes
    <3>1. <<k[1], ips[k].prefix, k[2]>> \in acquired
      BY <1>3 DEF Backed, LiveBacked
    <3>2. \A y1, y2, y3 : <<y1, y2, y3>>[1] = y1 /\ <<y1, y2, y3>>[2] = y2
      OBVIOUS
    <3> QED BY <3>1, <3>2 DEF Known
  <2> QED BY <1>0, <1>3, <2>1, <2>2, <2>3, BackingRequest
<1> DEFINE Fits ==
        /\ \A x \in Requests : req'[x].pc = "ipAcquire" =>
             \A p \in req'[x].nw.prefixes : BackingOn(req'[x].nw.ns, p, req'[x].ip.network)
        /\ \A x \in Requests : req'[x].pc = "ipRow" => BackingOn(req'[x].ns, req'[x].prefix, req'[x].network)
        /\ \A k \in IpKeys : ips'[k] # None /\ ~BeingReleased(ips'[k].uuid)
             => BackingOn(k[1], ips'[k].prefix, ips'[k].network)
<1>4. SUFFICES Fits
  BY <1>0 DEF IpsFit, BackingOn, Backing, HasIp, BeingReleased
<1>5. CASE NetworkCall(r)
  <2>1. ips' = ips /\ \A x \in Requests : req'[x].pc \in IpSteps => req'[x] = req[x]
    BY <1>5, NetworkCallStays DEF Moves, OthersStay
  <2> QED BY <1>1, <1>2, <1>3, <2>1 DEF IpSteps, HasIp
<1>6. ASSUME NEW q \in IpRequests, ValidateIp(r, q) PROVE Fits
  <2>1. ips' = ips /\ \A x \in Requests : req'[x].pc \in IpSteps /\ x # r => req'[x] = req[x]
    BY <1>6, ValidateIpEffect DEF Moves, OthersStay
  <2>2. req'[r].pc = "ipAcquire" /\ \A p \in req'[r].nw.prefixes : BackingOn(req'[r].nw.ns, p, req'[r].ip.network)
    BY <1>6, ValidateIpEffect DEF BackingOn
  <2> QED BY <1>1, <1>2, <1>3, <2>1, <2>2 DEF IpSteps, HasIp
<1>7. CASE IpAcquire(r)
  <2>1. ips' = ips /\ \A x \in Requests : req'[x].pc \in IpSteps /\ x # r => req'[x] = req[x]
    BY <1>7, IpAcquireEffect DEF Moves, OthersStay
  <2>2. req[r].pc = "ipAcquire"
    BY <1>7, IpAcquireEffect
  <2>3. CASE req'[r] = Idle
    BY <1>1, <1>2, <1>3, <2>1, <2>3 DEF IpSteps, HasIp, Idle
  <2>4. CASE /\ req'[r].prefix \in req[r].nw.prefixes /\ req'[r].pc = "ipRow"
             /\ req'[r].ns = req[r].nw.ns /\ req'[r].network = req[r].ip.network
    <3>1. BackingOn(req'[r].ns, req'[r].prefix, req'[r].network)
      BY <1>1, <2>2, <2>4
    <3> QED BY <1>1, <1>2, <1>3, <2>1, <2>4, <3>1 DEF IpSteps, HasIp
  <2> QED BY <1>7, <2>3, <2>4, IpAcquireEffect
<1>8. CASE IpRow(r)
  <2>1. req'[r] = Idle /\ \A x \in Requests : req'[x].pc \in IpSteps /\ x # r => req'[x] = req[x]
    BY <1>8, IpRowEffect DEF Moves, OthersStay
  <2>2. CASE ips' = ips
    BY <1>1, <1>2, <1>3, <2>1, <2>2 DEF IpSteps, HasIp, Idle
  <2>3. ASSUME NEW ip, ips' = [ips EXCEPT ![<<req[r].ns, req[r].address>>] = ip],
               ip.network = req[r].network, ip.prefix = req[r].prefix
        PROVE  Fits
    <3>1. HasIp(r)
      BY <1>8, IpRowEffect DEF HasIp
    <3>2. BackingOn(req[r].ns, req[r].prefix, req[r].network)
      BY <1>2, <3>1
    <3>3. ASSUME NEW k \in IpKeys, ips'[k] # None, ~BeingReleased(ips'[k].uuid)
          PROVE  BackingOn(k[1], ips'[k].prefix, ips'[k].network)
      <4>1. CASE k = <<req[r].ns, req[r].address>>
        <5>1. ips'[k] = ip /\ k[1] = req[r].ns
          BY <2>3, <4>1 DEF TypeInv, TypeOK
        <5> QED BY <2>3, <3>2, <5>1
      <4>2. CASE k # <<req[r].ns, req[r].address>>
        <5>1. ips'[k] = ips[k]
          BY <2>3, <4>2 DEF TypeInv, TypeOK
        <5> QED BY <1>3, <3>3, <5>1
      <4> QED BY <4>1, <4>2
    <3> QED BY <1>1, <1>2, <2>1, <3>3 DEF IpSteps, HasIp, Idle
  <2> QED BY <1>8, <2>2, <2>3, IpRowEffect
<1> QED BY <1>5, <1>6, <1>7, <1>8 DEF Request, NetworkCall

LEMMA FittingTask ==
  ASSUME TypeInv, Places, Fitting, Calm', NEW t \in Tasks, Task(t), "again" \notin mishap', "midway" \notin mishap',
         prefixes' \subseteq prefixes
  PROVE  Fitting'
<1>0. Runs(t) /\ req' = req /\ released \subseteq released'
  BY TaskMoves, TaskKeepsCalls DEF RowsMove
(* Who still is the first to release a network was it before.               *)
<1>4. ChangesGone'
  BY <1>0 DEF Fitting, ChangesGone, Changer, Removed
<1>5. ReleasesGone'
  <2> SUFFICES ASSUME NEW x \in Tasks, NEW i, i = task'[x].network, Releases(task'[x]),
                      \A y \in released' : y[1] = i => y = <<i, x, task'[x].tries>>
               PROVE  \A p \in Freed(task'[x]) : <<task'[x].row.ns, p>> \notin prefixes'
    BY DEF ReleasesGone, FreshFor, Releases, Freed
  <2>1. FreshFor(x, i) /\ task[x].network = i /\ (x # t => task'[x] = task[x])
    BY StillFirst
  <2>2. CASE x # t
    BY <2>1, <2>2 DEF Fitting, ReleasesGone
  <2>3. CASE x = t
    <3>1. CASE /\ Releases(task[t]) /\ task'[t].row = task[t].row
               /\ \A p \in Freed(task'[t]) : p \in Freed(task[t]) \/ <<task'[t].row.ns, p>> \notin prefixes'
      BY <2>1, <2>3, <3>1 DEF Fitting, ReleasesGone
    <3> QED BY <2>3, <3>1, ReleasesStep
  <2> QED BY <2>2, <2>3
<1>6. IpsFit'
  <2>1. ASSUME NEW i \in Ids, NEW ns, NEW p, LivesIn(i, ns), Backing(ns, p, i) PROVE BackingOn(ns, p, i)
    <3> SUFFICES ASSUME <<ns, p>> \in prefixes' PROVE rows'[i] # None /\ p \in rows'[i].prefixes
      BY DEF BackingOn
    <3>1. rows[i] # None /\ p \in rows[i].prefixes /\ rows[i].ns = ns
      BY <2>1 DEF Backing, LivesIn
    <3>2. ASSUME rows'[i] # rows[i] PROVE FALSE
      <4>1. Releases(task[t]) /\ task[t].pc = "row" /\ task[t].network = i /\ FreshFor(t, i)
        BY <3>2, RowDeleted
      <4>2. rows[i] = task[t].row /\ p \in Freed(task[t])
        BY <3>1, <4>1 DEF Fitting, Calm, ReleasesCurrent, Freed
      <4> QED BY <3>1, <4>1, <4>2 DEF Fitting, ReleasesGone
    <3> QED BY <3>1, <3>2
  <2>2. ASSUME NEW x \in Requests, req[x].pc = "ipAcquire", NEW p \in req[x].nw.prefixes
        PROVE  BackingOn(req[x].nw.ns, p, req[x].ip.network)
    BY <2>1, <2>2, CallShapes DEF Places, TypeInv, IpCall, IpRequest, Fitting, IpsFit
  <2>3. ASSUME NEW x \in Requests, HasIp(x) PROVE BackingOn(req[x].ns, req[x].prefix, req[x].network)
    BY <2>1, <2>3, CallShapes DEF HasIp, Places, TypeInv, IpRowCall, Fitting, IpsFit
  <2>4. ASSUME NEW k \in IpKeys, ips'[k] # None, \A x \in released' : x[1] # ips'[k].uuid
        PROVE  BackingOn(k[1], ips'[k].prefix, ips'[k].network)
    <3>1. ips'[k] = ips[k] /\ ips[k] # None /\ ~BeingReleased(ips[k].uuid)
      BY <1>0, <2>4, TaskKeepsCalls DEF BeingReleased
    <3>2. ips[k].network \in Ids /\ LivesIn(ips[k].network, k[1])
      BY <3>1 DEF Places, TypeInv, TypeOK, IpType
    <3>3. Backing(k[1], ips[k].prefix, ips[k].network)
      BY <3>1 DEF Fitting, IpsFit
    <3> QED BY <2>1, <3>1, <3>2, <3>3
  <2> QED BY <1>0, <2>2, <2>3, <2>4 DEF IpsFit, BackingOn, Backing, HasIp, BeingReleased
<1> QED BY <1>4, <1>5, <1>6 DEF Fitting

LEMMA FitInit == Init => FitInv
<1> SUFFICES ASSUME Init PROVE FitInv
  OBVIOUS
<1>1. /\ ips = [k \in IpKeys |-> None] /\ req = [r \in Requests |-> Idle] /\ task = [t \in Tasks |-> [pc |-> "unused"]]
      /\ acquired = {}
  BY DEF Init
<1>2. \A r \in Requests : req[r].pc = "idle"
  BY <1>1 DEF Idle
<1>3. \A t \in Tasks : task[t].pc = "unused"
  BY <1>1
<1>4. ChangesGone
  BY <1>2 DEF ChangesGone, Changer, Changes
<1>5. ReleasesGone /\ IpsFit
  BY <1>1, <1>2, <1>3 DEF ReleasesGone, Releases, IpsFit, HasIp
<1>6. Unless({"again", "midway"})
  BY DEF Init, Unless
<1> QED BY <1>1, <1>4, <1>5, <1>6, CalmInit DEF FitInv, CalmInv, Known, Fitting

LEMMA FitStep == FitInv /\ [Next]_vars => FitInv'
<1> SUFFICES ASSUME FitInv, [Next]_vars PROVE FitInv'
  OBVIOUS
<1>1. CalmInv /\ CalmInv' /\ TypeInv /\ Places /\ Todos /\ Known /\ Stored \subseteq used
  BY CalmStep DEF FitInv, CalmInv, AddressInv, Places
<1>2. ASSUME mishap \subseteq mishap', Unless({"again", "reused", "midway"})'
      PROVE  /\ Backed /\ Fitting /\ Calm'
             /\ "again" \notin mishap' /\ "reused" \notin mishap' /\ "midway" \notin mishap'
  BY <1>1, <1>2 DEF FitInv, CalmInv, AddressInv, Unless
<1>3. ASSUME NEW r \in Requests, Request(r) PROVE FitInv'
  <2>1. Known' /\ mishap \subseteq mishap' /\ UNCHANGED <<task, released>>
    BY <1>1, <1>3, KnownRequest, RequestMoves, RequestKeepsRows DEF RowsMove
  <2>2. ASSUME Unless({"again", "reused", "midway"})' PROVE Fitting'
    BY <1>1, <1>2, <1>3, <2>1, <2>2, ChangesGoneRequest, ReleasesGoneRequest, IpsFitRequest DEF Fitting
  <2> QED BY <1>1, <2>1, <2>2 DEF FitInv
<1>4. ASSUME NEW t \in Tasks, Task(t) PROVE FitInv'
  <2>1. Known' /\ prefixes' \subseteq prefixes /\ mishap \subseteq mishap'
    BY <1>1, <1>4, KnownTask, TaskMoves DEF RowsMove
  <2> QED BY <1>1, <1>2, <1>4, <2>1, FittingTask DEF FitInv
<1>5. CASE UNCHANGED vars
  <2>1. UNCHANGED <<rows, ips, prefixes, acquired, req, task, released, mishap>> /\ FitInv
    BY <1>5 DEF vars
  <2>2. Fitting => ChangesGone'
    BY <2>1 DEF Fitting, ChangesGone, Changer
  <2>3. Fitting => ReleasesGone' /\ IpsFit'
    BY <2>1 DEF Fitting, ReleasesGone, IpsFit, Backing, HasIp, BeingReleased, FreshFor
  <2>4. Unless({"again", "reused", "midway"})' => Calm'
    BY <1>1 DEF CalmInv, Unless
  <2> QED BY <1>1, <2>1, <2>2, <2>3, <2>4 DEF FitInv, Fitting, Known, Unless
<1> QED BY <1>3, <1>4, <1>5 DEF Next

(* Ips agree with the networks and with the ipam: the network of an ip that  *)
(* nobody deletes is there, and its address is acquired. This holds however  *)
(* creations, updates and deletions overlap, unless a deletion is repeated,  *)
(* a prefix is made while another row still carries it, or a network is      *)
(* changed while it is deleted.                                              *)
THEOREM IpsAreBacked == Spec => []IpsBacked
<1>1. FitInv => IpsBacked
  <2>1. FitInv => TypeOK /\ AddressBacked
    BY DEF FitInv, CalmInv, AddressInv, TypeInv, Backed, LiveBacked, AddressBacked
  <2>2. ASSUME FitInv, Unless({"again", "reused", "midway"}), NEW k \in IpKeys, ips[k] # None, ~BeingReleased(ips[k].uuid)
        PROVE  rows[ips[k].network] # None
    <3>1. Backed /\ Known /\ Fitting
      BY <2>2 DEF FitInv, CalmInv, AddressInv, Unless
    <3>2. <<k[1], ips[k].prefix, k[2]>> \in acquired /\ Backing(k[1], ips[k].prefix, ips[k].network)
      BY <2>2, <3>1 DEF Backed, LiveBacked, Fitting, IpsFit
    <3>3. \A y1, y2, y3 : <<y1, y2, y3>>[1] = y1 /\ <<y1, y2, y3>>[2] = y2
      OBVIOUS
    <3> QED BY <3>1, <3>2, <3>3 DEF Known, Backing
  <2> QED BY <2>1, <2>2 DEF IpsBacked, IpHasNetwork
<1> QED BY FitInit, FitStep, <1>1, PTL DEF Spec

-----------------------------------------------------------------------------
(* Who owns a prefix in the ipam: a network, the part that a change of it    *)
(* leaves it so far or that a deletion did not take yet, or a call that      *)
(* makes a child.                                                            *)

Keeps(c, p) ==
    \/ c.pc = "rootPrefix" /\ p \in c.row.prefixes /\ p \notin c.todo
    \/ c.pc = "updateRemove" /\ p \in c.row.prefixes /\ (p \in c.prefixes \/ p \in c.todo)
    \/ c.pc = "updateAdd" /\ p \in c.prefixes /\ p \notin c.todo
    \/ c.pc = "updateRow" /\ p \in c.prefixes
NetOwns(i, p) ==
    /\ rows[i] # None
    /\ \/ ~BeingReleased(i) /\ ~Changing(i) /\ p \in rows[i].prefixes
       \/ ~BeingReleased(i) /\ \E r \in Requests : Changer(r) /\ req[r].id = i /\ Keeps(req[r], p)
       \/ \E t \in Tasks : /\ task[t] \in NetTask /\ task[t].pc = "prefix" /\ task[t].network = i
                           /\ FreshFor(t, i) /\ p \in task[t].todo
CallOwns(r, u, ns, p) ==
    req[r].pc \in Births /\ req[r].row.ns = ns /\ req[r].row.parent = u /\ p \in req[r].row.prefixes
(* f owns p in a namespace, and its parent is u.                             *)
Owns(f, u, ns, p) ==
    \/ \E i \in Ids : NetOwns(i, p) /\ rows[i].ns = ns /\ rows[i].parent = u /\ f = <<"network", i>>
    \/ \E r \in Requests : CallOwns(r, u, ns, p) /\ f = <<"call", r>>

InIpam == \A f, u, ns, p : Owns(f, u, ns, p) => <<ns, p>> \in prefixes
OneOwner == \A f, g, u, w, ns, p : Owns(f, u, ns, p) /\ Owns(g, w, ns, p) => f = g
(* What overlaps with a prefix of a root network is within it and of one of  *)
(* its children, or its parent is going.                                     *)
BelowRoots ==
    \A f, g, w, p, q : Owns(f, None, None, p) /\ Owns(g, w, None, q) /\ Overlap(p, q)
                         => IF w = None THEN p = q
                            ELSE (f = <<"network", w>> /\ q \in Sub[p]) \/ BeingReleased(w)
(* Children do not overlap, whatever their parents are.                      *)
Siblings ==
    \A f, g, u, w, ns, p, q :
      Owns(f, u, ns, p) /\ Owns(g, w, ns, q) /\ u # None /\ w # None /\ f # g /\ Overlap(p, q)
        => BeingReleased(u) \/ BeingReleased(w)
Owning == InIpam /\ OneOwner /\ BelowRoots /\ Siblings

(* Root network w has prefix d, also when a change that goes on is done.     *)
StillHas(w, d) ==
    /\ w \in RootIds /\ rows[w] # None /\ d \in rows[w].prefixes
    /\ \A r \in Requests : Changer(r) /\ req[r].id = w => Keeps(req[r], d)
(* The ipam does not compare namespaces, so that what keeps children in      *)
(* namespaces apart from those of other networks is that they lie within the *)
(* prefixes of their parents.                                                *)
Within ==
    \A g, w, ns, q : Owns(g, w, ns, q) /\ w # None /\ ns # None /\ ~BeingReleased(w)
                       => \E d \in Prefixes : StillHas(w, d) /\ q \in Sub[d]

(* A child is made from the prefixes that its parent has.                    *)
ParentsHeld ==
    \A r \in Requests : req[r].pc = "childPrefix" /\ ~BeingReleased(req[r].row.parent) =>
      /\ rows[req[r].row.parent] # None /\ req[r].from \subseteq rows[req[r].row.parent].prefixes
      /\ ~Changing(req[r].row.parent)

OwnInv == CalmInv /\ (Unless({"halfway", "again", "midway", "orphaned"}) => ParentsHeld /\ Owning /\ Within)

LEMMA OverlapSame == ASSUME NEW p, NEW q PROVE Overlap(p, p) /\ (Overlap(p, q) => Overlap(q, p))
BY DEF Overlap

(* What overlaps with a part overlaps with the whole.                        *)
LEMMA OverlapPart ==
  ASSUME NEW c \in Prefixes, NEW p \in Prefixes, NEW q \in Prefixes, c \in Sub[p], Overlap(c, q)
  PROVE  Overlap(p, q)
<1>1. CASE c = q
  BY <1>1 DEF Overlap
<1>2. CASE q \in Sub[c]
  BY <1>2, PrefixesAssumption DEF Overlap
<1>3. CASE c \in Sub[q]
  <2>1. Sub[p] \cap Sub[q] # {}
    BY <1>3
  <2> QED BY <2>1, PrefixesAssumption
<1> QED BY <1>1, <1>2, <1>3 DEF Overlap

LEMMA OwnedPrefix ==
  ASSUME TypeInv, InIpam, NEW f, NEW u, NEW ns, NEW p, Owns(f, u, ns, p)
  PROVE  <<ns, p>> \in prefixes /\ p \in Prefixes
<1>1. <<ns, p>> \in prefixes
  BY DEF InIpam
<1> QED BY <1>1 DEF TypeInv, TypeOK

LEMMA OwningStays ==
  ASSUME Owning, released \subseteq released',
         \A f, u, ns, p : Owns(f, u, ns, p)' => Owns(f, u, ns, p) /\ <<ns, p>> \in prefixes'
  PROVE  Owning'
<1>1. \A e : BeingReleased(e) => BeingReleased(e)'
  BY DEF BeingReleased
<1>2. InIpam'
  BY DEF InIpam
<1>3. OneOwner'
  <2> SUFFICES ASSUME NEW f, NEW g, NEW u, NEW w, NEW ns, NEW p, Owns(f, u, ns, p)', Owns(g, w, ns, p)' PROVE f = g
    BY DEF OneOwner
  <2>1. Owns(f, u, ns, p) /\ Owns(g, w, ns, p)
    OBVIOUS
  <2> QED BY <2>1 DEF Owning, OneOwner
<1>4. BelowRoots'
  <2> SUFFICES ASSUME NEW f, NEW g, NEW w, NEW p, NEW q, Owns(f, None, None, p)', Owns(g, w, None, q)', Overlap(p, q)
               PROVE  IF w = None THEN p = q ELSE (f = <<"network", w>> /\ q \in Sub[p]) \/ BeingReleased(w)'
    BY DEF BelowRoots
  <2>1. Owns(f, None, None, p) /\ Owns(g, w, None, q)
    OBVIOUS
  <2> QED BY <1>1, <2>1 DEF Owning, BelowRoots
<1>5. Siblings'
  <2> SUFFICES ASSUME NEW f, NEW g, NEW u, NEW w, NEW ns, NEW p, NEW q, Owns(f, u, ns, p)', Owns(g, w, ns, q)',
                      u # None, w # None, f # g, Overlap(p, q)
               PROVE  BeingReleased(u)' \/ BeingReleased(w)'
    BY DEF Siblings
  <2>1. Owns(f, u, ns, p) /\ Owns(g, w, ns, q)
    OBVIOUS
  <2> QED BY <1>1, <2>1 DEF Owning, Siblings
<1> QED BY <1>2, <1>3, <1>4, <1>5 DEF Owning

(* A prefix is made that the ipam allows.                                    *)
Gets(p) == p \in Prefixes /\ CanCreatePrefix(None, p) /\ prefixes' = prefixes \cup {<<None, p>>}

LEMMA OwningGrows ==
  ASSUME TypeInv, Owning, released' = released, prefixes \subseteq prefixes', NEW h,
         \A f, u, ns, p : Owns(f, u, ns, p)' => Owns(f, u, ns, p) \/ (f = h /\ u = None /\ ns = None /\ Gets(p))
  PROVE  Owning'
<1>1. \A e : BeingReleased(e)' = BeingReleased(e)
  BY DEF BeingReleased
<1>2. ASSUME NEW f, NEW u, NEW p, NEW q, Owns(f, u, None, p), Gets(q) PROVE ~Overlap(p, q)
  <2>1. <<None, p>> \in prefixes /\ p \in Prefixes
    BY <1>2, OwnedPrefix DEF Owning
  <2> QED BY <1>2, <2>1, OverlapSame DEF Gets, CanCreatePrefix
<1>3. InIpam'
  BY DEF InIpam, Owning, Gets
<1>4. OneOwner'
  <2> SUFFICES ASSUME NEW f, NEW g, NEW u, NEW w, NEW ns, NEW p, Owns(f, u, ns, p)', Owns(g, w, ns, p)', f # g PROVE FALSE
    BY DEF OneOwner
  <2>1. Owns(f, u, ns, p) \/ (f = h /\ u = None /\ ns = None /\ Gets(p))
    OBVIOUS
  <2>2. Owns(g, w, ns, p) \/ (g = h /\ w = None /\ ns = None /\ Gets(p))
    OBVIOUS
  <2>3. Overlap(p, p)
    BY OverlapSame
  <2> QED BY <1>2, <2>1, <2>2, <2>3 DEF Owning, OneOwner
<1>5. BelowRoots'
  <2> SUFFICES ASSUME NEW f, NEW g, NEW w, NEW p, NEW q, Owns(f, None, None, p)', Owns(g, w, None, q)', Overlap(p, q)
               PROVE  IF w = None THEN p = q ELSE (f = <<"network", w>> /\ q \in Sub[p]) \/ BeingReleased(w)
    BY <1>1 DEF BelowRoots
  <2>1. Owns(f, None, None, p) \/ Gets(p)
    OBVIOUS
  <2>2. Owns(g, w, None, q) \/ (w = None /\ Gets(q))
    OBVIOUS
  <2>3. Overlap(q, p) /\ Overlap(p, p)
    BY OverlapSame
  <2>4. ASSUME Gets(p), Gets(q) PROVE p = q
    <3>1. <<None, p>> \notin prefixes
      BY <2>3, <2>4 DEF Gets, CanCreatePrefix
    <3>2. <<None, p>> \in prefixes \cup {<<None, q>>}
      BY <2>4 DEF Gets
    <3> QED BY <3>1, <3>2
  <2> QED BY <1>2, <2>1, <2>2, <2>3, <2>4 DEF Owning, BelowRoots
<1>6. Siblings'
  <2> SUFFICES ASSUME NEW f, NEW g, NEW u, NEW w, NEW ns, NEW p, NEW q, Owns(f, u, ns, p)', Owns(g, w, ns, q)',
                      u # None, w # None, f # g, Overlap(p, q)
               PROVE  BeingReleased(u) \/ BeingReleased(w)
    BY <1>1 DEF Siblings
  <2>1. Owns(f, u, ns, p) /\ Owns(g, w, ns, q)
    OBVIOUS
  <2> QED BY <2>1 DEF Owning, Siblings
<1> QED BY <1>3, <1>4, <1>5, <1>6 DEF Owning

(* A network still has what it owns.                                         *)
LEMMA StillOwned ==
  ASSUME TypeInv, NEW w, NEW d, StillHas(w, d), ~BeingReleased(w)
  PROVE  Owns(<<"network", w>>, None, None, d)
<1>1. w \in Ids /\ rows[w] # None /\ rows[w].ns = None /\ rows[w].parent = None
  BY DEF StillHas, TypeInv, RootRows, Ids
<1>2. CASE ~Changing(w)
  BY <1>1, <1>2 DEF StillHas, NetOwns, Owns
<1>3. CASE Changing(w)
  <2>1. PICK r \in Requests : Changer(r) /\ req[r].id = w
    BY <1>3 DEF Changing, Changer
  <2>2. Keeps(req[r], d)
    BY <2>1 DEF StillHas
  <2>3. NetOwns(w, d)
    BY <1>1, <2>1, <2>2 DEF NetOwns
  <2> QED BY <1>1, <2>3 DEF Owns
<1> QED BY <1>2, <1>3

(* A call gets a prefix c within prefix d of the parent k, in namespace m.   *)
LEMMA OwningChild ==
  ASSUME TypeInv, Owning, Within, released' = released, prefixes \subseteq prefixes',
         NEW h, NEW k, NEW m, NEW c \in Prefixes, NEW d \in Prefixes, k # None, c \in Sub[d],
         \A x \in Sub[d] : <<m, x>> \in prefixes => ~Overlap(c, x), <<m, c>> \in prefixes',
         BeingReleased(k) \/ Owns(<<"network", k>>, None, None, d),
         \A f, u, ns, p : Owns(f, u, ns, p)' => Owns(f, u, ns, p) \/ (f = h /\ u = k /\ ns = m /\ p = c)
  PROVE  Owning'
<1>1. \A e : BeingReleased(e)' = BeingReleased(e)
  BY DEF BeingReleased
<1>2. \A f, u : ~Owns(f, u, m, c)
  BY OverlapSame DEF Owning, InIpam
<1>3. InIpam'
  BY DEF InIpam, Owning
<1>4. OneOwner'
  BY <1>2 DEF OneOwner, Owning
<1>5. BelowRoots'
  <2> SUFFICES ASSUME NEW f, NEW g, NEW w, NEW p, NEW q, Owns(f, None, None, p)', Owns(g, w, None, q)', Overlap(p, q)
               PROVE  IF w = None THEN p = q ELSE (f = <<"network", w>> /\ q \in Sub[p]) \/ BeingReleased(w)
    BY <1>1 DEF BelowRoots
  <2>1. Owns(f, None, None, p)
    OBVIOUS
  <2>0. p \in Prefixes
    BY <2>1, OwnedPrefix DEF Owning
  <2>2. CASE Owns(g, w, None, q)
    BY <2>1, <2>2 DEF Owning, BelowRoots
  <2>3. CASE w = k /\ m = None /\ q = c /\ ~BeingReleased(k)
    <3>1. Overlap(p, d)
      BY <2>0, <2>3, OverlapSame, OverlapPart
    <3>2. Owns(<<"network", k>>, None, None, d)
      BY <2>3
    <3>3. p = d
      BY <2>1, <3>1, <3>2 DEF Owning, BelowRoots
    <3>4. f = <<"network", k>>
      BY <2>1, <3>2, <3>3 DEF Owning, OneOwner
    <3> QED BY <2>3, <3>3, <3>4
  <2> QED BY <2>2, <2>3
(* What overlaps with c is in d when it is of a child.                       *)
<1>6. ASSUME NEW g, NEW w, NEW q, Owns(g, w, m, q), w # None, ~BeingReleased(w), ~BeingReleased(k), Overlap(c, q)
      PROVE  FALSE
  <2>1. Owns(<<"network", k>>, None, None, d)
    BY <1>6
  <2>2. <<m, q>> \in prefixes /\ q \in Prefixes
    BY <1>6, OwnedPrefix DEF Owning
  <2>3. Overlap(d, q)
    BY <1>6, <2>2, OverlapPart
  <2>4. q \in Sub[d]
    <3>1. CASE m = None
      BY <1>6, <2>1, <2>3, <3>1 DEF Owning, BelowRoots
    <3>2. CASE m # None
      <4>1. PICK x \in Prefixes : StillHas(w, x) /\ q \in Sub[x]
        BY <1>6, <3>2 DEF Within
      <4>2. Owns(<<"network", w>>, None, None, x)
        BY <1>6, <4>1, StillOwned
      <4>3. Overlap(x, d)
        BY <2>2, <2>3, <4>1, OverlapSame, OverlapPart
      <4>4. x = d
        BY <2>1, <4>2, <4>3 DEF Owning, BelowRoots
      <4> QED BY <4>1, <4>4
    <3> QED BY <3>1, <3>2
  <2> QED BY <1>6, <2>2, <2>4
<1>7. Siblings'
  <2> SUFFICES ASSUME NEW f, NEW g, NEW u, NEW w, NEW ns, NEW p, NEW q, Owns(f, u, ns, p)', Owns(g, w, ns, q)',
                      u # None, w # None, f # g, Overlap(p, q), ~BeingReleased(u), ~BeingReleased(w)
               PROVE  FALSE
    BY <1>1 DEF Siblings
  <2>1. Owns(f, u, ns, p) \/ (f = h /\ u = k /\ ns = m /\ p = c)
    OBVIOUS
  <2>2. Owns(g, w, ns, q) \/ (g = h /\ w = k /\ ns = m /\ q = c)
    OBVIOUS
  <2>3. CASE Owns(f, u, ns, p) /\ Owns(g, w, ns, q)
    BY <2>3 DEF Owning, Siblings
  <2>4. Overlap(q, p)
    BY OverlapSame
  <2> QED BY <1>6, <2>1, <2>2, <2>3, <2>4
<1> QED BY <1>3, <1>4, <1>5, <1>7 DEF Owning

(* What a call owns goes over to the network it makes.                       *)
LEMMA OwningPassed ==
  ASSUME Owning, released' = released, prefixes' = prefixes, NEW e, NEW h,
         \A u, ns, p : Owns(e, u, ns, p) => u # None,
         \A f, u, ns, p : Owns(f, u, ns, p)' => (Owns(f, u, ns, p) /\ f # e) \/ (f = h /\ Owns(e, u, ns, p))
  PROVE  Owning'
<1>1. \A i : BeingReleased(i)' = BeingReleased(i)
  BY DEF BeingReleased
<1>2. InIpam'
  BY DEF InIpam, Owning
<1>3. OneOwner'
  <2> SUFFICES ASSUME NEW f, NEW g, NEW u, NEW w, NEW ns, NEW p, Owns(f, u, ns, p)', Owns(g, w, ns, p)', f # g PROVE FALSE
    BY DEF OneOwner
  <2>1. (Owns(f, u, ns, p) /\ f # e) \/ (f = h /\ Owns(e, u, ns, p))
    OBVIOUS
  <2>2. (Owns(g, w, ns, p) /\ g # e) \/ (g = h /\ Owns(e, w, ns, p))
    OBVIOUS
  <2> QED BY <2>1, <2>2 DEF Owning, OneOwner
<1>4. BelowRoots'
  <2> SUFFICES ASSUME NEW f, NEW g, NEW w, NEW p, NEW q, Owns(f, None, None, p)', Owns(g, w, None, q)', Overlap(p, q)
               PROVE  IF w = None THEN p = q ELSE (f = <<"network", w>> /\ q \in Sub[p]) \/ BeingReleased(w)
    BY <1>1 DEF BelowRoots
  <2>1. Owns(f, None, None, p)
    OBVIOUS
  <2>2. Owns(g, w, None, q) \/ Owns(e, w, None, q)
    OBVIOUS
  <2> QED BY <2>1, <2>2 DEF Owning, BelowRoots
<1>5. Siblings'
  <2> SUFFICES ASSUME NEW f, NEW g, NEW u, NEW w, NEW ns, NEW p, NEW q, Owns(f, u, ns, p)', Owns(g, w, ns, q)',
                      u # None, w # None, f # g, Overlap(p, q)
               PROVE  BeingReleased(u) \/ BeingReleased(w)
    BY <1>1 DEF Siblings
  <2>1. (Owns(f, u, ns, p) /\ f # e) \/ (f = h /\ Owns(e, u, ns, p))
    OBVIOUS
  <2>2. (Owns(g, w, ns, q) /\ g # e) \/ (g = h /\ Owns(e, w, ns, q))
    OBVIOUS
  <2> QED BY <2>1, <2>2 DEF Owning, Siblings
<1> QED BY <1>2, <1>3, <1>4, <1>5 DEF Owning

(* What a change owns after its step, or the network after the change: what  *)
(* it owned before, or what the ipam just gave it.                           *)
LEMMA KeptByRequest ==
  ASSUME TypeInv, Todos, Calm, NEW r \in Requests, Request(r), Changer(r), "halfway" \notin mishap',
         NEW c, c = req[r], NEW d, d = req'[r], NEW p
  PROVE  /\ d.pc \in Changes => d.id = c.id /\ (Keeps(d, p) => Keeps(c, p) \/ Gets(p))
         /\ d.pc \notin Changes /\ p \in rows'[c.id].prefixes => Keeps(c, p) \/ Gets(p)
<1>0. CallTodo(c) /\ rows[c.id] = c.row /\ c.pc \in Changes /\ c.id \in Ids
  BY ChangerShape DEF Todos, Calm, CallsCurrent, Changer
<1>d. d = Idle => d.pc \notin Changes
  BY DEF Idle, Changes
<1>1. CASE RootPrefix(r)
  <2>1. c.pc = "rootPrefix" /\ rows' = rows
    BY <1>1, RootPrefixEffect
  <2>2. \A x : x \in c.row.prefixes /\ x \notin c.todo => Keeps(c, x)
    BY <2>1 DEF Keeps
  <2>3. ASSUME NEW q \in c.todo, CanCreatePrefix(None, q), prefixes' = prefixes \cup {<<None, q>>} PROVE Gets(q)
    <3>1. q \in Prefixes
      BY <1>1, <2>3, RootPrefixEffect DEF RootCall
    <3> QED BY <2>3, <3>1 DEF Gets
  <2>4. ASSUME NEW q \in c.todo, Gets(q), d.pc = "rootPrefix", d.id = c.id, d.row = c.row, d.todo = c.todo \ {q}
        PROVE  d.id = c.id /\ (Keeps(d, p) => Keeps(c, p) \/ Gets(p)) /\ d.pc \in Changes
    BY <2>2, <2>4 DEF Keeps, Changes
  <2>5. ASSUME NEW q \in c.todo, Gets(q), d = Idle, c.todo = {q}
        PROVE  d.pc \notin Changes /\ (p \in rows'[c.id].prefixes => Keeps(c, p) \/ Gets(p))
    BY <1>0, <1>d, <2>1, <2>2, <2>5
  <2> QED BY <1>1, <2>3, <2>4, <2>5, RootPrefixEffect
<1>2. CASE UpdateRemove(r)
  <2>1. c.pc = "updateRemove" /\ rows' = rows /\ c.todo \subseteq c.row.prefixes \ c.prefixes
    BY <1>0, <1>2, UpdateRemoveEffect DEF CallTodo
  <2>2. \A x : x \in c.row.prefixes /\ (x \in c.prefixes \/ x \in c.todo) => Keeps(c, x)
    BY <2>1 DEF Keeps
  <2>3. CASE c.todo = {} /\ SameUpdate(c, d) /\ d.pc = "updateAdd" /\ d.todo = c.prefixes \ c.row.prefixes
    <3>1. Keeps(d, p) => p \in c.prefixes /\ p \in c.row.prefixes
      BY <2>3 DEF SameUpdate, Keeps
    <3> QED BY <2>2, <2>3, <3>1 DEF SameUpdate, Changes
  <2>4. ASSUME NEW q \in c.todo, SameUpdate(c, d), d.pc = "updateRemove", d.todo = c.todo \ {q}
        PROVE  d.id = c.id /\ (Keeps(d, p) => Keeps(c, p)) /\ d.pc \in Changes
    BY <2>2, <2>4 DEF Keeps, SameUpdate, Changes
  <2>5. CASE d = Idle /\ c.todo = c.row.prefixes \ c.prefixes
    BY <1>0, <1>d, <2>1, <2>2, <2>5
  <2> QED BY <1>2, <2>3, <2>4, <2>5, UpdateRemoveEffect
<1>3. CASE UpdateAdd(r)
  <2>1. c.pc = "updateAdd" /\ rows' = rows /\ c.todo \subseteq c.prefixes \ c.row.prefixes
    BY <1>0, <1>3, UpdateAddEffect DEF CallTodo
  <2>2. \A x : x \in c.prefixes /\ x \notin c.todo => Keeps(c, x)
    BY <2>1 DEF Keeps
  <2>3. CASE c.todo = {} /\ SameUpdate(c, d) /\ d.pc = "updateRow"
    BY <2>2, <2>3 DEF Keeps, SameUpdate, Changes
  <2>4. ASSUME NEW q \in c.todo, CanCreatePrefix(None, q), prefixes' = prefixes \cup {<<None, q>>} PROVE Gets(q)
    <3>1. q \in Prefixes
      BY <1>3, <2>4, UpdateAddEffect DEF UpdateCall
    <3> QED BY <2>4, <3>1 DEF Gets
  <2>5. ASSUME NEW q \in c.todo, Gets(q), SameUpdate(c, d), d.pc = "updateAdd", d.todo = c.todo \ {q}
        PROVE  d.id = c.id /\ (Keeps(d, p) => Keeps(c, p) \/ Gets(p)) /\ d.pc \in Changes
    BY <2>2, <2>5 DEF Keeps, SameUpdate, Changes
  <2>6. CASE d = Idle /\ c.prefixes = c.row.prefixes
    BY <1>0, <1>d, <2>1, <2>2, <2>6
  <2> QED BY <1>3, <2>3, <2>4, <2>5, <2>6, UpdateAddEffect
<1>4. CASE UpdateRow(r)
  <2>1. c.pc = "updateRow" /\ d = Idle /\ c \in UpdateCall
    BY <1>4, UpdateRowEffect
  <2>2. \A x : x \in c.prefixes => Keeps(c, x)
    BY <2>1 DEF Keeps
  <2>3. rows'[c.id].prefixes \subseteq c.prefixes
    <3>1. CASE rows' = [rows EXCEPT ![c.id] = [c.row EXCEPT !.prefixes = c.prefixes]]
      <4> DEFINE row == [c.row EXCEPT !.prefixes = c.prefixes]
      <4>1. row.prefixes = c.prefixes
        BY <2>1 DEF UpdateCall, RootRows
      <4>2. rows' = [rows EXCEPT ![c.id] = row]
        BY <3>1
      <4> HIDE DEF row
      <4> QED BY <1>0, <4>1, <4>2 DEF TypeInv, TypeOK
    <3>2. CASE rows' = rows /\ c.prefixes = c.row.prefixes
      BY <1>0, <3>2
    <3> QED BY <1>4, <3>1, <3>2, UpdateRowEffect
  <2> QED BY <1>d, <2>1, <2>2, <2>3
<1>5. ASSUME c.pc \notin Changes PROVE FALSE
  BY <1>0, <1>5
<1>6. ASSUME NEW q \in RootRequests, ValidateRoot(r, q) PROVE FALSE
  BY <1>5, <1>6, ValidateRootEffect DEF Idle, Changes
<1>7. ASSUME RootVrf(r) \/ RootRow(r) PROVE FALSE
  BY <1>5, <1>7, RootVrfEffect, RootRowEffect DEF Changes
<1>8. ASSUME NEW q \in ChildRequests, ValidateChild(r, q) PROVE FALSE
  BY <1>5, <1>8, ValidateChildEffect DEF Idle, Changes
<1>9. ASSUME ChildParent(r) \/ ChildPrefix(r) \/ ChildVrf(r) \/ ChildRow(r) PROVE FALSE
  BY <1>5, <1>9, ChildParentEffect, ChildPrefixEffect, ChildVrfEffect, ChildRowEffect DEF Changes
<1>10. ASSUME NEW q \in UpdateRequests, ValidateUpdate(r, q) PROVE FALSE
  BY <1>5, <1>10, ValidateUpdateEffect DEF Idle, Changes
<1>11. ASSUME NEW q \in IpRequests, ValidateIp(r, q) PROVE FALSE
  BY <1>5, <1>11, ValidateIpEffect DEF Idle, Changes
<1>12. ASSUME IpAcquire(r) \/ IpRow(r) PROVE FALSE
  BY <1>5, <1>12, IpAcquireEffect, IpRowEffect DEF Changes
<1> QED BY <1>1, <1>2, <1>3, <1>4, <1>6, <1>7, <1>8, <1>9, <1>10, <1>11, <1>12 DEF Request

(* A change that begins on a network that was there starts with its row.     *)
LEMMA BegunKeeps ==
  ASSUME TypeInv, NEW r \in Requests, Request(r), NEW d, d = req'[r], d.pc \in Changes, rows[d.id] # None,
         ~(Changer(r) /\ req[r].id = d.id), NEW p, Keeps(d, p)
  PROVE  p \in rows[d.id].prefixes
<1>d. ASSUME d = Idle \/ d.pc \notin Changes PROVE FALSE
  BY <1>d DEF Idle, Changes
<1>1. ASSUME NEW q \in UpdateRequests, ValidateUpdate(r, q) PROVE p \in rows[d.id].prefixes
  <2>1. d.pc = "updateRemove" /\ d.id = q.id /\ d.row = rows[q.id]
    BY <1>1, ValidateUpdateEffect
  <2> QED BY <2>1 DEF Keeps
<1>2. ASSUME RootPrefix(r) PROVE FALSE
  BY <1>2, <1>d, RootPrefixEffect DEF Changer, Changes
<1>3. ASSUME UpdateRemove(r) PROVE FALSE
  BY <1>3, <1>d, UpdateRemoveEffect DEF Changer, Changes, SameUpdate
<1>4. ASSUME UpdateAdd(r) PROVE FALSE
  BY <1>4, <1>d, UpdateAddEffect DEF Changer, Changes, SameUpdate
<1>5. ASSUME RootRow(r) PROVE FALSE
  BY <1>5, <1>d, RootRowEffect
<1>6. CASE RootVrf(r)
  BY <1>6, <1>d, RootVrfEffect DEF Changes
<1>7. ASSUME NEW q \in RootRequests, ValidateRoot(r, q) PROVE FALSE
  BY <1>7, <1>d, ValidateRootEffect DEF Changes
<1>8. ASSUME NEW q \in ChildRequests, ValidateChild(r, q) PROVE FALSE
  BY <1>8, <1>d, ValidateChildEffect DEF Changes
<1>9. ASSUME ChildParent(r) \/ ChildPrefix(r) \/ ChildVrf(r) \/ ChildRow(r) PROVE FALSE
  BY <1>9, <1>d, ChildParentEffect, ChildPrefixEffect, ChildVrfEffect, ChildRowEffect DEF Changes
<1>10. ASSUME NEW q \in IpRequests, ValidateIp(r, q) PROVE FALSE
  BY <1>10, <1>d, ValidateIpEffect DEF Changes
<1>11. ASSUME UpdateRow(r) \/ IpAcquire(r) \/ IpRow(r) PROVE FALSE
  BY <1>11, <1>d, UpdateRowEffect, IpAcquireEffect, IpRowEffect DEF Changes
<1> QED BY <1>1, <1>2, <1>3, <1>4, <1>5, <1>6, <1>7, <1>8, <1>9, <1>10, <1>11 DEF Request

LEMMA NetOwnsRequest ==
  ASSUME TypeInv, Stored \subseteq used, Todos, Calm, NEW r \in Requests, Request(r),
         "halfway" \notin mishap', "midway" \notin mishap', NEW i \in Ids, rows[i] # None, NEW p, NetOwns(i, p)'
  PROVE  NetOwns(i, p) \/ (Changer(r) /\ req[r].id = i /\ Gets(p))
<1>0. UNCHANGED <<task, released>> /\ \A x \in Requests \ {r} : req'[x] = req[x]
  BY RequestKeepsRows, NetworkCallStays, ValidateIpEffect, IpAcquireEffect, IpRowEffect
     DEF Request, NetworkCall, Moves, OthersStay
<1>1. ASSUME NEW t \in Tasks, task[t] \in NetTask, task[t].pc = "prefix", task[t].network = i, FreshFor(t, i), p \in task[t].todo
      PROVE  NetOwns(i, p)
  BY <1>1 DEF NetOwns
<1>2. ASSUME ~BeingReleased(i), \A x \in Requests : req'[x].pc \in Changes => req'[x].id # i, p \in rows'[i].prefixes
      PROVE  NetOwns(i, p) \/ (Changer(r) /\ req[r].id = i /\ Gets(p))
  <2>1. CASE Changer(r) /\ req[r].id = i
    <3>1. req'[r].pc \notin Changes
      BY <1>2, <2>1, KeptByRequest
    <3>2. Keeps(req[r], p) \/ Gets(p)
      BY <1>2, <2>1, <3>1, KeptByRequest
    <3> QED BY <1>2, <2>1, <3>2 DEF NetOwns
  <2>2. CASE ~(Changer(r) /\ req[r].id = i)
    <3>1. ~Changing(i)
      BY <1>0, <1>2, <2>2 DEF Changing, Changer
    <3>2. rows'[i] = rows[i]
      BY <2>2, ChangedByRequest DEF Changer, Changes
    <3> QED BY <1>2, <3>1, <3>2 DEF NetOwns
  <2> QED BY <2>1, <2>2
<1>3. ASSUME ~BeingReleased(i), NEW x \in Requests, req'[x].pc \in Changes, req'[x].id = i, Keeps(req'[x], p)
      PROVE  NetOwns(i, p) \/ (Changer(r) /\ req[r].id = i /\ Gets(p))
  <2>1. CASE x # r
    BY <1>0, <1>3, <2>1 DEF NetOwns, Changer
  <2>2. CASE x = r /\ Changer(r) /\ req[r].id = i
    <3>1. Keeps(req[r], p) \/ Gets(p)
      BY <1>3, <2>2, KeptByRequest
    <3> QED BY <1>3, <2>2, <3>1 DEF NetOwns
  <2>3. CASE x = r /\ ~(Changer(r) /\ req[r].id = i)
    <3>1. p \in rows[i].prefixes
      BY <1>3, <2>3, BegunKeeps
    <3>2. Begins(req'[r])
      BY <1>3, <2>3, OwnChange
    <3>3. ~Changing(i)
      BY <1>3, <2>3, <3>2 DEF Begins, Changing, Changer
    <3> QED BY <1>3, <3>1, <3>3 DEF NetOwns
  <2> QED BY <2>1, <2>2, <2>3
<1>4. \/ ~BeingReleased(i) /\ (\A x \in Requests : req'[x].pc \in Changes => req'[x].id # i) /\ p \in rows'[i].prefixes
      \/ ~BeingReleased(i) /\ \E x \in Requests : req'[x].pc \in Changes /\ req'[x].id = i /\ Keeps(req'[x], p)
      \/ \E t \in Tasks : /\ task[t] \in NetTask /\ task[t].pc = "prefix" /\ task[t].network = i
                          /\ FreshFor(t, i) /\ p \in task[t].todo
  BY <1>0 DEF NetOwns, BeingReleased, Changing, Changer, FreshFor, Keeps
<1> QED BY <1>1, <1>2, <1>3, <1>4

(* A network that is made owns what the call that makes it owned.            *)
LEMMA NetOwnsBorn ==
  ASSUME TypeInv, Stored \subseteq used, Todos, Calm, Calm', NEW r \in Requests, Request(r),
         NEW i \in Ids, rows[i] = None, NEW p, NetOwns(i, p)'
  PROVE  ChildRow(r) /\ rows'[i] = req[r].row /\ p \in req[r].row.prefixes
<1>0. UNCHANGED <<task, released>> /\ rows'[i] # None /\ \A x \in Requests \ {r} : req'[x] = req[x]
  BY RequestKeepsRows, NetworkCallStays, ValidateIpEffect, IpAcquireEffect, IpRowEffect
     DEF Request, NetworkCall, Moves, OthersStay, NetOwns
<1>a. \A x \in Requests : Changer(x) => req[x].id # i
  BY ChangerShape DEF Calm, CallsCurrent
<1>b. \A t \in Tasks : Releases(task[t]) /\ task[t].network = i => ~FreshFor(t, i)
  BY NamesAssumption DEF Calm, ReleasesCurrent, Releases, NetTask
<1>c. ~\E t \in Tasks : /\ task[t] \in NetTask /\ task[t].pc = "prefix" /\ task[t].network = i /\ FreshFor(t, i)
  BY <1>b DEF Releases
<1>d. \/ (\A x \in Requests : req'[x].pc \in Changes => req'[x].id # i) /\ p \in rows'[i].prefixes
      \/ \E x \in Requests : req'[x].pc \in Changes /\ req'[x].id = i /\ Keeps(req'[x], p)
  BY <1>0, <1>c DEF NetOwns, Changing, Changer, FreshFor, Keeps
<1>1. CASE RootRow(r)
  <2>1. req'[r].pc = "rootPrefix" /\ req'[r].id = i /\ req'[r].todo = req'[r].row.prefixes
    <3>1. CallTodo(req[r]) /\ req[r].pc = "rootRow"
      BY <1>1, RootRowEffect DEF Todos
    <3> QED BY <1>0, <1>1, <3>1, RootRowEffect DEF TypeInv, TypeOK, CallTodo
  <2>2. ~Keeps(req'[r], p)
    BY <2>1 DEF Keeps
  <2> QED BY <1>0, <1>a, <1>d, <2>1, <2>2 DEF Changer, Changes
<1>2. CASE ChildRow(r)
  <2>1. rows'[i] = req[r].row /\ req'[r] = Idle
    BY <1>0, <1>2, ChildRowEffect DEF TypeInv, TypeOK
  <2>2. \A x \in Requests : req'[x].pc \in Changes => req'[x].id # i
    BY <1>0, <1>a, <2>1 DEF Changer, Idle, Changes
  <2> QED BY <1>2, <1>d, <2>1, <2>2
<1>3. CASE UpdateRow(r)
  BY <1>0, <1>3, <1>a, UpdateRowEffect DEF Changer, Changes, TypeInv, TypeOK
<1> QED BY <1>0, <1>1, <1>2, <1>3, ValidateRootEffect, RootVrfEffect, RootPrefixEffect, ValidateChildEffect,
        ChildParentEffect, ChildPrefixEffect, ChildVrfEffect, ValidateUpdateEffect, UpdateRemoveEffect, UpdateAddEffect,
        ValidateIpEffect, IpAcquireEffect, IpRowEffect DEF Request

(* Who owns something after a step of a request.                             *)
LEMMA OwnsRequest ==
  ASSUME TypeInv, Stored \subseteq used, Todos, Calm, Calm', NEW r \in Requests, Request(r),
         "halfway" \notin mishap', "midway" \notin mishap', NEW f, NEW u, NEW ns, NEW p, Owns(f, u, ns, p)'
  PROVE  \/ Owns(f, u, ns, p) /\ f # <<"call", r>>
         \/ Changer(r) /\ f = <<"network", req[r].id>> /\ u = None /\ ns = None /\ Gets(p)
         \/ f = <<"call", r>> /\ CallOwns(r, u, ns, p)'
         \/ \E i \in Ids : /\ ChildRow(r) /\ rows[i] = None /\ rows'[i] = req[r].row /\ p \in req[r].row.prefixes
                           /\ req[r].row.ns = ns /\ req[r].row.parent = u /\ f = <<"network", i>>
<1>0. RowsKeep /\ \A x \in Requests \ {r} : req'[x] = req[x]
  BY RequestKeepsRows, NetworkCallStays, ValidateIpEffect, IpAcquireEffect, IpRowEffect
     DEF Request, NetworkCall, Moves, OthersStay
<1>1. ASSUME NEW i \in Ids, NetOwns(i, p)', rows'[i].ns = ns, rows'[i].parent = u, f = <<"network", i>>, rows[i] # None
      PROVE  \/ Owns(f, u, ns, p) /\ f # <<"call", r>>
             \/ Changer(r) /\ f = <<"network", req[r].id>> /\ u = None /\ ns = None /\ Gets(p)
  <2>1. rows'[i].ns = rows[i].ns /\ rows'[i].parent = rows[i].parent
    BY <1>0, <1>1 DEF RowsKeep, Stored
  <2>2. CASE NetOwns(i, p)
    BY <1>1, <2>1, <2>2 DEF Owns
  <2>3. CASE Changer(r) /\ req[r].id = i /\ Gets(p)
    <3>1. rows[i].ns = None /\ rows[i].parent = None
      BY <2>3, ChangerShape DEF Calm, CallsCurrent, RootRows
    <3> QED BY <1>1, <2>1, <2>3, <3>1
  <2> QED BY <1>1, <2>2, <2>3, NetOwnsRequest
<1>2. ASSUME NEW i \in Ids, NetOwns(i, p)', rows'[i].ns = ns, rows'[i].parent = u, rows[i] = None
      PROVE  /\ ChildRow(r) /\ rows'[i] = req[r].row /\ p \in req[r].row.prefixes
             /\ req[r].row.ns = ns /\ req[r].row.parent = u
  BY <1>2, NetOwnsBorn
<1>3. ASSUME NEW x \in Requests, CallOwns(x, u, ns, p)', f = <<"call", x>>, x # r
      PROVE  Owns(f, u, ns, p) /\ f # <<"call", r>>
  BY <1>0, <1>3 DEF CallOwns, Owns
<1> QED BY <1>1, <1>2, <1>3 DEF Owns

LEMMA OwningRequest ==
  ASSUME TypeInv, Stored \subseteq used, Todos, Calm, Calm', ParentsHeld, Owning, Within, NEW r \in Requests, Request(r),
         "halfway" \notin mishap', "midway" \notin mishap'
  PROVE  Owning'
<1>0. released' = released
  BY RequestKeepsRows
<1>a. ASSUME req[r].pc # "childRow", prefixes \subseteq prefixes',
             \A u, ns, p : CallOwns(r, u, ns, p)' => Owns(<<"call", r>>, u, ns, p)
      PROVE  Owning'
  <2>1. ASSUME ChildRow(r) PROVE FALSE
    BY <1>a, <2>1, ChildRowEffect
  <2>2. ASSUME NEW f, NEW u, NEW ns, NEW p, Owns(f, u, ns, p)'
        PROVE  Owns(f, u, ns, p) \/ (f = <<"network", req[r].id>> /\ u = None /\ ns = None /\ Gets(p))
    BY <1>a, <2>1, <2>2, OwnsRequest
  <2> QED BY <1>0, <1>a, <2>2, OwningGrows
<1>b. ASSUME req[r].pc # "childRow", prefixes \subseteq prefixes', req'[r].pc \notin Births PROVE Owning'
  BY <1>a, <1>b DEF CallOwns
<1>c. Idle.pc \notin Births /\ \A x \in Changes : x \notin Births
  BY DEF Idle, Births, Changes
<1>1. ASSUME NEW q \in RootRequests, ValidateRoot(r, q) PROVE Owning'
  BY <1>1, <1>b, ValidateRootEffect DEF Idle, Births
<1>2. CASE RootVrf(r) \/ RootRow(r) \/ RootPrefix(r)
  BY <1>2, <1>b, <1>c, RootVrfEffect, RootRowEffect, RootPrefixEffect DEF Births
<1>3. ASSUME NEW q \in ChildRequests, ValidateChild(r, q) PROVE Owning'
  BY <1>3, <1>b, ValidateChildEffect DEF Idle, Births
<1>4. CASE ChildParent(r)
  <2>1. prefixes' = prefixes /\ req[r].pc = "childParent" /\ (req'[r] = Idle \/ req'[r].row.prefixes = {})
    BY <1>4, ChildParentEffect
  <2>3. \A u, ns, p : ~CallOwns(r, u, ns, p)'
    BY <1>c, <2>1 DEF CallOwns
  <2> QED BY <1>a, <2>1, <2>3
<1>5. CASE ChildPrefix(r)
  <2> DEFINE m == req[r].row.ns
             k == req[r].row.parent
  <2>1. /\ req[r].pc = "childPrefix" /\ req[r] \in ChildCall
        /\ \A made : prefixes \subseteq InNamespace(m, made)
    BY <1>5, ChildPrefixEffect DEF InNamespace
  <2>2. k \in RootIds /\ k \in Ids /\ k # None /\ req[r].from \subseteq Prefixes
    BY <2>1, NamesAssumption DEF ChildCall, ChildRows, Ids
  <2>3. ASSUME NEW made, NEW c \in Prefixes, NEW d \in req[r].from, c \in Sub[d],
               \A x \in Sub[d] : <<m, x>> \in InNamespace(m, made) => ~Overlap(c, x),
               prefixes' = InNamespace(m, made) \cup {<<m, c>>},
               req'[r].row.ns = m, req'[r].row.parent = k, req'[r].row.prefixes = req[r].row.prefixes \cup {c}
        PROVE  Owning'
    <3>1. d \in Prefixes /\ prefixes \subseteq prefixes' /\ <<m, c>> \in prefixes'
      BY <2>1, <2>2, <2>3
    <3>4. \A x \in Sub[d] : <<m, x>> \in prefixes => ~Overlap(c, x)
      BY <2>1, <2>3
    <3>2. BeingReleased(k) \/ Owns(<<"network", k>>, None, None, d)
      <4> SUFFICES ASSUME ~BeingReleased(k) PROVE Owns(<<"network", k>>, None, None, d)
        OBVIOUS
      <4>1. rows[k] # None /\ d \in rows[k].prefixes /\ ~Changing(k)
        BY <2>1 DEF ParentsHeld
      <4>2. rows[k].ns = None /\ rows[k].parent = None
        BY <2>2, <4>1 DEF TypeInv, RootRows
      <4>3. NetOwns(k, d)
        BY <4>1 DEF NetOwns
      <4> QED BY <2>2, <4>2, <4>3 DEF Owns
    <3>3. ASSUME NEW f, NEW u, NEW ns, NEW p, Owns(f, u, ns, p)'
          PROVE  Owns(f, u, ns, p) \/ (f = <<"call", r>> /\ u = k /\ ns = m /\ p = c)
      <4>1. ~ChildRow(r) /\ ~Changer(r)
        BY <2>1, ChildRowEffect DEF Changer, Changes
      <4>2. CASE f = <<"call", r>> /\ CallOwns(r, u, ns, p)'
        <5>1. ns = m /\ u = k /\ (p \in req[r].row.prefixes \/ p = c)
          BY <2>3, <4>2 DEF CallOwns
        <5>2. CallOwns(r, k, m, p) => Owns(<<"call", r>>, k, m, p)
          BY DEF Owns
        <5> QED BY <2>1, <4>2, <5>1, <5>2 DEF CallOwns, Births
      <4> QED BY <3>3, <4>1, <4>2, OwnsRequest
    <3>5. k # None /\ c \in Sub[d]
      BY <2>2, <2>3
    <3>6. PICK h : h = <<"call", r>>
      OBVIOUS
    <3>7. \A f, u, ns, p : Owns(f, u, ns, p)' => Owns(f, u, ns, p) \/ (f = h /\ u = k /\ ns = m /\ p = c)
      BY <3>3, <3>6
    <3> HIDE DEF m, k
    <3> QED BY <1>0, <3>1, <3>2, <3>4, <3>5, <3>7, OwningChild
  <2>4. ASSUME NEW made, prefixes' = InNamespace(m, made), req'[r] = Idle PROVE Owning'
    <3>1. prefixes \subseteq prefixes'
      BY <2>1, <2>4
    <3> QED BY <1>b, <1>c, <2>1, <2>4, <3>1
  <2> QED BY <1>5, <2>3, <2>4, ChildPrefixEffect
<1>6. CASE ChildVrf(r)
  <2>1. /\ prefixes' = prefixes /\ req[r].pc = "childVrf"
        /\ \/ req'[r] = Idle
           \/ /\ req'[r].row.ns = req[r].row.ns /\ req'[r].row.parent = req[r].row.parent
              /\ req'[r].row.prefixes = req[r].row.prefixes
    BY <1>6, ChildVrfEffect
  <2>2. \A u, ns, p : CallOwns(r, u, ns, p)' => CallOwns(r, u, ns, p)
    BY <1>c, <2>1 DEF CallOwns, Births
  <2> QED BY <1>a, <2>1, <2>2 DEF Owns
<1>7. CASE ChildRow(r)
  <2>1. PICK i \in ChildIds \ used : rows' = [rows EXCEPT ![i] = req[r].row]
    BY <1>7, ChildRowEffect
  <2>2. prefixes' = prefixes /\ req[r].pc = "childRow" /\ req'[r] = Idle /\ req[r] \in ChildCall
    BY <1>7, ChildRowEffect
  <2>3. ASSUME NEW u, NEW ns, NEW p, Owns(<<"call", r>>, u, ns, p) PROVE u # None
    <3>1. CallOwns(r, u, ns, p)
      BY <2>3 DEF Owns
    <3> QED BY <2>2, <3>1, NamesAssumption DEF CallOwns, ChildCall, ChildRows, Ids
  <2>4. ASSUME NEW f, NEW u, NEW ns, NEW p, Owns(f, u, ns, p)'
        PROVE  (Owns(f, u, ns, p) /\ f # <<"call", r>>) \/ (f = <<"network", i>> /\ Owns(<<"call", r>>, u, ns, p))
    <3>1. ~CallOwns(r, u, ns, p)' /\ ~Changer(r)
      BY <1>c, <2>2 DEF CallOwns, Changer, Changes
    <3>2. ASSUME NEW j \in Ids, rows[j] = None, rows'[j] = req[r].row, p \in req[r].row.prefixes,
                 req[r].row.ns = ns, req[r].row.parent = u, f = <<"network", j>>
          PROVE  f = <<"network", i>> /\ Owns(<<"call", r>>, u, ns, p)
      <4>1. req[r].row # None
        BY <2>2, RowKinds DEF ChildCall
      <4>2. j = i
        BY <2>1, <3>2, <4>1 DEF TypeInv, TypeOK
      <4>3. CallOwns(r, u, ns, p)
        BY <2>2, <3>2 DEF CallOwns, Births
      <4> QED BY <3>2, <4>2, <4>3 DEF Owns
    <3> QED BY <2>4, <3>1, <3>2, OwnsRequest
  <2> QED BY <1>0, <2>2, <2>3, <2>4, OwningPassed
<1>8. ASSUME NEW q \in UpdateRequests, ValidateUpdate(r, q) PROVE Owning'
  BY <1>8, <1>b, ValidateUpdateEffect DEF Idle, Births
<1>9. CASE UpdateRemove(r)
  <2>1. req[r].pc = "updateRemove" /\ Changer(r) /\ req[r] \in UpdateCall /\ req'[r].pc \notin Births
    BY <1>9, <1>c, UpdateRemoveEffect DEF Changer, Changes, Births
  <2>2. CASE prefixes' = prefixes
    BY <1>b, <2>1, <2>2
  <2>3. ASSUME NEW q \in req[r].todo, <<None, q>> \in prefixes, prefixes' = prefixes \ {<<None, q>>}, SameUpdate(req[r], req'[r]),
               req'[r].pc = "updateRemove", req'[r].todo = req[r].todo \ {q}
        PROVE  Owning'
    <3>0. PICK i : i = req[r].id
      OBVIOUS
    <3>1. i \in Ids /\ rows[i] # None /\ rows[i].ns = None /\ rows[i] = req[r].row
      BY <2>1, <3>0, ChangerShape DEF Calm, CallsCurrent
    <3>2. q \in req[r].row.prefixes /\ q \notin req[r].prefixes
      BY <2>1, <2>3 DEF Todos, CallTodo
    <3>3. Keeps(req[r], q) /\ ~Keeps(req'[r], q)
      BY <2>1, <2>3, <3>2 DEF Keeps, SameUpdate
    <3>4. Owns(<<"network", i>>, rows[i].parent, None, q)
      <4>1. NetOwns(i, q)
        BY <2>1, <3>0, <3>1, <3>3 DEF NetOwns, Calm, UpdatesLive
      <4> QED BY <3>1, <4>1 DEF Owns
    <3>5. ~NetOwns(i, q)'
      <4>1. req'[r].pc \in Changes /\ req'[r].id = i
        BY <2>3, <3>0 DEF SameUpdate, Changes
      <4>2. \A x \in Requests : req'[x].pc \in Changes /\ req'[x].id = i => x = r
        BY <4>1 DEF Calm, Alone, Changer
      <4>3. \A t \in Tasks : Releases(task'[t]) /\ task'[t].network = i => ~FreshFor(t, i)'
        <5>1. \A t \in Tasks : Releases(task[t]) /\ task[t].network = i => ~FreshFor(t, i)
          BY <2>1, <3>0 DEF Calm, Undisturbed
        <5>2. task' = task
          BY RequestKeepsRows
        <5> QED BY <1>0, <5>1, <5>2 DEF FreshFor
      <4>4. \A t \in Tasks : task'[t] \in NetTask /\ task'[t].pc = "prefix" /\ task'[t].network = i => ~FreshFor(t, i)'
        BY <4>3 DEF Releases
      <4>5. Changing(i)'
        BY <4>1 DEF Changing
      <4>6. \A x \in Requests : Changer(x)' /\ req'[x].id = i => ~Keeps(req'[x], q)
        BY <3>3, <4>2 DEF Changer
      <4> QED BY <4>4, <4>5, <4>6 DEF NetOwns, Keeps
    <3>6. ASSUME NEW f, NEW u, NEW ns, NEW p, Owns(f, u, ns, p)' PROVE Owns(f, u, ns, p) /\ <<ns, p>> \in prefixes'
      <4>1. ~ChildRow(r) /\ ~Gets(p) /\ ~CallOwns(r, u, ns, p)'
        <5>1. <<None, q>> \notin prefixes'
          BY <2>3
        <5> QED BY <2>1, <2>3, <5>1, ChildRowEffect DEF CallOwns, Gets
      <4>2. Owns(f, u, ns, p)
        BY <3>6, <4>1, OwnsRequest
      <4>3. ASSUME ns = None, p = q PROVE FALSE
        <5>1. f = <<"network", i>>
          BY <3>4, <4>2, <4>3 DEF Owning, OneOwner
        <5> QED BY <3>5, <3>6, <4>3, <5>1 DEF Owns
      <4> QED BY <2>3, <4>2, <4>3 DEF Owning, InIpam
    <3> QED BY <1>0, <3>6, OwningStays
  <2> QED BY <1>9, <2>2, <2>3, UpdateRemoveEffect
<1>10. CASE UpdateAdd(r)
  BY <1>10, <1>b, <1>c, UpdateAddEffect DEF Births
<1>11. CASE UpdateRow(r)
  BY <1>11, <1>b, <1>c, UpdateRowEffect
<1>12. ASSUME NEW q \in IpRequests, ValidateIp(r, q) PROVE Owning'
  BY <1>12, <1>b, ValidateIpEffect DEF Idle, Births
<1>13. CASE IpAcquire(r) \/ IpRow(r)
  BY <1>13, <1>b, <1>c, IpAcquireEffect, IpRowEffect DEF Births
<1> QED BY <1>1, <1>2, <1>3, <1>4, <1>5, <1>6, <1>7, <1>8, <1>9, <1>10, <1>11, <1>12, <1>13 DEF Request

LEMMA NetOwnsTask ==
  ASSUME TypeInv, Attempts, NEW t \in Tasks, Task(t), "midway" \notin mishap',
         NEW i \in Ids, NEW p, NetOwns(i, p)'
  PROVE  NetOwns(i, p) /\ rows'[i] = rows[i]
<1>0. Runs(t) /\ req' = req /\ released \subseteq released'
  BY TaskMoves, TaskKeepsCalls DEF RowsMove
<1>1. rows'[i] = rows[i] /\ rows[i] # None
  BY TaskRows DEF NetOwns
<1>2. \A x \in released : x \in released'
  BY <1>0
<1>3. ASSUME ~BeingReleased(i)', ~Changing(i), p \in rows[i].prefixes PROVE NetOwns(i, p)
  BY <1>1, <1>2, <1>3 DEF NetOwns, BeingReleased
<1>4. ASSUME ~BeingReleased(i)', NEW r \in Requests, Changer(r), req[r].id = i, Keeps(req[r], p) PROVE NetOwns(i, p)
  BY <1>1, <1>2, <1>4 DEF NetOwns, BeingReleased
<1>5. ASSUME NEW x \in Tasks, task'[x] \in NetTask, task'[x].pc = "prefix", task'[x].network = i,
             \A y \in released' : y[1] = i => y = <<i, x, task'[x].tries>>, p \in task'[x].todo
      PROVE  NetOwns(i, p)
  <2>0. \A y \in released : y[1] = i => y = <<i, x, task'[x].tries>>
    BY <1>2, <1>5
  <2>1. CASE x # t
    BY <1>0, <1>1, <1>5, <2>0, <2>1 DEF Runs, NetOwns, FreshFor
  <2>2. CASE x = t /\ ReadNetwork(t) /\ ~Done(task[t], task'[t])
    <3>1. /\ Waits(task[t]) /\ task'[t].tries = task[t].tries /\ ~Changing(i) /\ p \in rows[i].prefixes
      BY <1>5, <2>2, ReadNetworkEffect DEF Waits
    <3>2. ASSUME NEW y \in released, y[1] = i PROVE FALSE
      <4>1. y = <<i, t, task[t].tries>>
        BY <2>0, <2>2, <3>1, <3>2
      <4>2. y[2] = t /\ y[3] = task[t].tries
        BY <4>1
      <4>3. y[3] < task[t].tries /\ y[3] \in Nat
        BY <3>1, <4>2 DEF Attempts, TypeInv
      <4> QED BY <4>2, <4>3
    <3> QED BY <1>1, <3>1, <3>2 DEF NetOwns, BeingReleased
  <2>3. CASE x = t /\ ReleasePrefix(t) /\ SameNet(task[t], task'[t]) /\ task'[t].todo \subseteq task[t].todo
    <3>1. task[t] \in NetTask /\ task[t].pc = "prefix" /\ task[t].network = i /\ task[t].tries = task'[t].tries /\ p \in task[t].todo
      BY <1>5, <2>3, ReleasePrefixEffect DEF SameNet
    <3> QED BY <1>1, <2>0, <2>3, <3>1 DEF NetOwns, FreshFor
  <2> QED BY <1>5, <2>1, <2>2, <2>3, TaskAtPrefix
<1> QED BY <1>0, <1>1, <1>3, <1>4, <1>5 DEF NetOwns, Changing, Changer, FreshFor

LEMMA OwnsTask ==
  ASSUME TypeInv, Attempts, NEW t \in Tasks, Task(t), "midway" \notin mishap', NEW f, NEW u, NEW ns, NEW p, Owns(f, u, ns, p)'
  PROVE  Owns(f, u, ns, p)
<1>0. req' = req
  BY TaskKeepsCalls
<1>1. ASSUME NEW i \in Ids, NetOwns(i, p)', rows'[i].ns = ns, rows'[i].parent = u, f = <<"network", i>>
      PROVE  Owns(f, u, ns, p)
  BY <1>1, NetOwnsTask DEF Owns
<1>2. ASSUME NEW r \in Requests, CallOwns(r, u, ns, p)', f = <<"call", r>> PROVE Owns(f, u, ns, p)
  BY <1>0, <1>2 DEF Owns, CallOwns
<1> QED BY <1>1, <1>2 DEF Owns

LEMMA OwningTask ==
  ASSUME TypeInv, Attempts, Calm, Owning, NEW t \in Tasks, Task(t), "again" \notin mishap', "midway" \notin mishap'
  PROVE  Owning'
<1>0. Runs(t) /\ req' = req /\ released \subseteq released'
  BY TaskMoves, TaskKeepsCalls DEF RowsMove
<1>1. \A f, u, ns, p : Owns(f, u, ns, p)' => Owns(f, u, ns, p)
  BY OwnsTask
<1>2. ASSUME prefixes \subseteq prefixes' PROVE Owning'
  BY <1>0, <1>1, <1>2, OwningStays DEF Owning, InIpam
<1>3. CASE ReleasePrefix(t)
  <2>1. ASSUME NEW q \in task[t].todo, prefixes' = prefixes \ {<<task[t].row.ns, q>>}, SameNet(task[t], task'[t]),
               task'[t].todo = task[t].todo \ {q}, Releasing(t, task[t].network, {})
        PROVE  Owning'
    <3>0. PICK i : i = task[t].network
      OBVIOUS
    <3>1. FreshFor(t, i) /\ <<i, t, task[t].tries>> \in released'
      BY <2>1, <3>0, ReleasingEffect
    <3>2. i \in Ids /\ task[t] \in NetTask /\ task[t].pc = "prefix" /\ rows[i] = task[t].row /\ rows[i] # None
      BY <1>3, <3>0, <3>1, ReleasePrefixEffect, NamesAssumption DEF Calm, ReleasesCurrent, Releases, NetTask
    <3>3. Owns(<<"network", i>>, rows[i].parent, task[t].row.ns, q)
      <4>1. NetOwns(i, q)
        BY <2>1, <3>0, <3>1, <3>2 DEF NetOwns
      <4> QED BY <3>2, <4>1 DEF Owns
    <3>4. ~NetOwns(i, q)'
      <4>1. BeingReleased(i)'
        <5>1. <<i, t, task[t].tries>>[1] = i
          OBVIOUS
        <5> QED BY <3>1, <5>1 DEF BeingReleased
      <4>2. ASSUME NEW x \in Tasks, \A y \in released' : y[1] = i => y = <<i, x, task'[x].tries>> PROVE x = t
        <5>1. <<i, t, task[t].tries>> = <<i, x, task'[x].tries>>
          BY <3>1, <4>2
        <5> QED BY <5>1
      <4>3. q \notin task'[t].todo
        BY <2>1
      <4> QED BY <4>1, <4>2, <4>3 DEF NetOwns, FreshFor
    <3>5. ASSUME NEW f, NEW u, NEW ns, NEW p, Owns(f, u, ns, p)', ns = task[t].row.ns, p = q PROVE FALSE
      <4>1. f = <<"network", i>>
        BY <1>1, <3>3, <3>5 DEF Owning, OneOwner
      <4> QED BY <3>4, <3>5, <4>1 DEF Owns
    <3>6. ASSUME NEW f, NEW u, NEW ns, NEW p, Owns(f, u, ns, p)' PROVE Owns(f, u, ns, p) /\ <<ns, p>> \in prefixes'
      BY <1>1, <2>1, <3>5, <3>6 DEF Owning, InIpam
    <3> QED BY <1>0, <3>6, OwningStays
  <2> QED BY <1>2, <1>3, <2>1, ReleasePrefixEffect
<1> QED BY <1>2, <1>3, DeleteNetworkEffect, DeleteIpEffect, ReadNetworkEffect, ReleaseVrfEffect, DeleteRowEffect,
        ReadIpEffect, ReleaseIPEffect, DeleteIpRowEffect, TaskDiesEffect DEF Task

LEMMA ParentsHeldRequest ==
  ASSUME TypeInv, Stored \subseteq used, Calm, ParentsHeld, NEW r \in Requests, Request(r), "midway" \notin mishap'
  PROVE  ParentsHeld'
<1>0. UNCHANGED <<task, released>> /\ RowsKeep /\ \A x \in Requests \ {r} : req'[x] = req[x]
  BY RequestKeepsRows, NetworkCallStays, ValidateIpEffect, IpAcquireEffect, IpRowEffect
     DEF Request, NetworkCall, Moves, OthersStay
<1> SUFFICES ASSUME NEW x \in Requests, req'[x].pc = "childPrefix", NEW k, k = req'[x].row.parent, ~BeingReleased(k)
             PROVE  /\ rows'[k] # None /\ req'[x].from \subseteq rows'[k].prefixes
                    /\ \A y \in Requests : req'[y].pc \in Changes => req'[y].id # k
  BY <1>0 DEF ParentsHeld, Changing, BeingReleased
<1>1. CASE ChildParent(r) /\ x = r
  <2>1. req'[r] # Idle /\ rows' = rows
    BY <1>1, ChildParentEffect DEF Idle
  <2>2. rows[k] # None /\ req'[r].from = rows[k].prefixes /\ ~Changing(k)
    BY <1>1, <2>1, ChildParentEffect
  <2> QED BY <1>0, <1>1, <2>1, <2>2 DEF Changing, Changes
<1>2. CASE /\ req[x].pc = "childPrefix" /\ req[x].row.parent = k /\ req[x].from = req'[x].from
  <2>1. rows[k] # None /\ req[x].from \subseteq rows[k].prefixes /\ ~Changing(k)
    BY <1>2 DEF ParentsHeld
  <2>2. k \in Ids
    BY <1>2, CallShapes DEF TypeInv, ChildCall, ChildRows, Ids
  <2>3. rows'[k] = rows[k]
    BY <2>1, <2>2, ChangedByRequest DEF Changing, Changes
  <2>4. ASSUME NEW y \in Requests, req'[y].pc \in Changes, req'[y].id = k PROVE FALSE
    <3>1. y = r /\ ~(Changer(r) /\ req[r].id = k)
      BY <1>0, <2>1, <2>4 DEF Changing, Changer
    <3>2. Begins(req'[r])
      BY <2>4, <3>1, OwnChange
    <3>3. ~Parenting(k)
      BY <2>1, <2>4, <3>1, <3>2 DEF Begins
    <3> QED BY <1>2, <3>3 DEF Parenting, Births
  <2> QED BY <1>2, <2>1, <2>3, <2>4
<1>3. CASE x # r
  BY <1>0, <1>2, <1>3
<1>4. CASE ChildPrefix(r) /\ x = r
  <2>1. req'[r] # Idle
    BY <1>4 DEF Idle
  <2>2. req[r].pc = "childPrefix" /\ req'[r].from = req[r].from /\ req'[r].row.parent = req[r].row.parent
    BY <1>4, <2>1, ChildPrefixEffect
  <2> QED BY <1>2, <1>4, <2>2
<1>5. ASSUME x = r, ~ChildParent(r), ~ChildPrefix(r) PROVE FALSE
  <2>d. ASSUME req'[r] = Idle \/ req'[r].pc # "childPrefix" PROVE FALSE
    BY <1>5, <2>d DEF Idle
  <2>1. ASSUME NEW q \in RootRequests, ValidateRoot(r, q) PROVE FALSE
    BY <2>1, <2>d, ValidateRootEffect
  <2>2. ASSUME RootVrf(r) \/ RootRow(r) \/ RootPrefix(r) PROVE FALSE
    BY <2>2, <2>d, RootVrfEffect, RootRowEffect, RootPrefixEffect
  <2>3. ASSUME NEW q \in ChildRequests, ValidateChild(r, q) PROVE FALSE
    BY <2>3, <2>d, ValidateChildEffect
  <2>4. ASSUME ChildVrf(r) \/ ChildRow(r) PROVE FALSE
    BY <2>4, <2>d, ChildVrfEffect, ChildRowEffect
  <2>5. ASSUME NEW q \in UpdateRequests, ValidateUpdate(r, q) PROVE FALSE
    BY <2>5, <2>d, ValidateUpdateEffect
  <2>6. ASSUME UpdateRemove(r) \/ UpdateAdd(r) \/ UpdateRow(r) PROVE FALSE
    BY <2>6, <2>d, UpdateRemoveEffect, UpdateAddEffect, UpdateRowEffect
  <2>7. ASSUME NEW q \in IpRequests, ValidateIp(r, q) PROVE FALSE
    BY <2>7, <2>d, ValidateIpEffect
  <2>8. ASSUME IpAcquire(r) \/ IpRow(r) PROVE FALSE
    BY <2>8, <2>d, IpAcquireEffect, IpRowEffect
  <2> QED BY <1>5, <2>1, <2>2, <2>3, <2>4, <2>5, <2>6, <2>7, <2>8 DEF Request
<1> QED BY <1>1, <1>3, <1>4, <1>5

LEMMA ParentsHeldTask ==
  ASSUME TypeInv, ParentsHeld, NEW t \in Tasks, Task(t), "again" \notin mishap'
  PROVE  ParentsHeld'
<1>0. req' = req /\ released \subseteq released'
  BY TaskMoves, TaskKeepsCalls DEF RowsMove
<1> SUFFICES ASSUME NEW r \in Requests, req[r].pc = "childPrefix", \A x \in released' : x[1] # req[r].row.parent
             PROVE  /\ rows'[req[r].row.parent] # None /\ req[r].from \subseteq rows'[req[r].row.parent].prefixes
                    /\ ~Changing(req[r].row.parent)
  BY <1>0 DEF ParentsHeld, BeingReleased, Changing
<1>1. ~BeingReleased(req[r].row.parent)
  BY <1>0 DEF BeingReleased
<1>2. req[r].row.parent \in Ids
  BY CallShapes DEF TypeInv, ChildCall, ChildRows, Ids
<1>3. rows'[req[r].row.parent] = rows[req[r].row.parent]
  BY <1>2, RowDeleted
<1> QED BY <1>1, <1>3 DEF ParentsHeld

(* A child that owns q in a namespace keeps its parent from losing d, which  *)
(* q lies within: to take d out would be noticed as "orphaned".              *)
LEMMA OwnedByChild ==
  ASSUME TypeInv, Todos, Calm, NEW g, NEW w, NEW ns, NEW q, Owns(g, w, ns, q), ns # None
  PROVE  \E row \in Children(w) : row.ns # None /\ q \in row.prefixes
<1>1. ASSUME NEW i \in Ids, NetOwns(i, q), rows[i].ns = ns, rows[i].parent = w
      PROVE  \E row \in Children(w) : row.ns # None /\ q \in row.prefixes
  <2>1. ASSUME NEW r \in Requests, Changer(r), req[r].id = i PROVE FALSE
    BY <1>1, <2>1, ChangerShape DEF Calm, CallsCurrent
  <2>2. ASSUME NEW t \in Tasks, task[t] \in NetTask, task[t].pc = "prefix", task[t].network = i, FreshFor(t, i), q \in task[t].todo
        PROVE  q \in rows[i].prefixes
    <3>1. rows[i] = task[t].row
      BY <2>2 DEF Calm, ReleasesCurrent, Releases
    <3> QED BY <2>2, <3>1 DEF Todos, TaskTodo
  <2>3. rows[i] # None /\ q \in rows[i].prefixes
    BY <1>1, <2>1, <2>2 DEF NetOwns
  <2>4. rows[i] \in Children(w)
    BY <1>1, <2>3 DEF Children, Stored
  <2> QED BY <1>1, <2>3, <2>4
<1>2. ASSUME NEW r \in Requests, CallOwns(r, w, ns, q)
      PROVE  \E row \in Children(w) : row.ns # None /\ q \in row.prefixes
  <2>1. req[r].row \in Children(w)
    BY <1>2 DEF CallOwns, Children
  <2> QED BY <1>2, <2>1 DEF CallOwns
<1> QED BY <1>1, <1>2 DEF Owns

(* What a change keeps after its step.                                       *)
LEMMA StillKeeps ==
  ASSUME TypeInv, Todos, NEW r \in Requests, Request(r), Changer(r),
         NEW c, c = req[r], NEW e, e = req'[r], e.pc \in Changes, NEW d, Keeps(c, d)
  PROVE  \/ Keeps(e, d)
         \/ UpdateRemove(r) /\ mishap' = mishap \cup Orphaned(c.id, d)
<1>d. ASSUME e = Idle PROVE FALSE
  BY <1>d DEF Idle, Changes
<1>1. CASE RootPrefix(r)
  <2>1. c.pc = "rootPrefix" /\ e.pc = "rootPrefix" /\ e.row = c.row /\ e.todo \subseteq c.todo
    BY <1>1, <1>d, RootPrefixEffect
  <2> QED BY <2>1 DEF Keeps
<1>2. CASE UpdateRemove(r)
  <2>1. c.pc = "updateRemove"
    BY <1>2, UpdateRemoveEffect
  <2>2. d \in c.row.prefixes /\ (d \in c.prefixes \/ d \in c.todo)
    BY <2>1 DEF Keeps
  <2>3. CASE c.todo = {} /\ SameUpdate(c, e) /\ e.pc = "updateAdd" /\ e.todo = c.prefixes \ c.row.prefixes
    BY <2>2, <2>3 DEF Keeps, SameUpdate
  <2>4. ASSUME NEW x \in c.todo, SameUpdate(c, e), e.pc = "updateRemove", e.todo = c.todo \ {x},
               mishap' = mishap \cup Orphaned(c.id, x)
        PROVE  Keeps(e, d) \/ mishap' = mishap \cup Orphaned(c.id, d)
    BY <2>2, <2>4 DEF Keeps, SameUpdate
  <2> QED BY <1>2, <1>d, <2>3, <2>4, UpdateRemoveEffect
<1>3. CASE UpdateAdd(r)
  <2>1. c.pc = "updateAdd"
    BY <1>3, UpdateAddEffect
  <2>2. CASE SameUpdate(c, e) /\ e.pc = "updateRow"
    BY <2>1, <2>2 DEF Keeps, SameUpdate
  <2>3. ASSUME NEW x \in c.todo, SameUpdate(c, e), e.pc = "updateAdd", e.todo = c.todo \ {x} PROVE Keeps(e, d)
    BY <2>1, <2>3 DEF Keeps, SameUpdate
  <2> QED BY <1>3, <1>d, <2>2, <2>3, UpdateAddEffect
<1>4. CASE UpdateRow(r)
  BY <1>4, <1>d, UpdateRowEffect
<1>5. ASSUME c.pc \notin Changes PROVE FALSE
  BY <1>5 DEF Changer
<1>6. ASSUME NEW q \in RootRequests, ValidateRoot(r, q) PROVE FALSE
  BY <1>5, <1>6, ValidateRootEffect DEF Idle, Changes
<1>7. ASSUME RootVrf(r) \/ RootRow(r) PROVE FALSE
  BY <1>5, <1>7, RootVrfEffect, RootRowEffect DEF Changes
<1>8. ASSUME NEW q \in ChildRequests, ValidateChild(r, q) PROVE FALSE
  BY <1>5, <1>8, ValidateChildEffect DEF Idle, Changes
<1>9. ASSUME ChildParent(r) \/ ChildPrefix(r) \/ ChildVrf(r) \/ ChildRow(r) PROVE FALSE
  BY <1>5, <1>9, ChildParentEffect, ChildPrefixEffect, ChildVrfEffect, ChildRowEffect DEF Changes
<1>10. ASSUME NEW q \in UpdateRequests, ValidateUpdate(r, q) PROVE FALSE
  BY <1>5, <1>10, ValidateUpdateEffect DEF Idle, Changes
<1>11. ASSUME NEW q \in IpRequests, ValidateIp(r, q) PROVE FALSE
  BY <1>5, <1>11, ValidateIpEffect DEF Idle, Changes
<1>12. ASSUME IpAcquire(r) \/ IpRow(r) PROVE FALSE
  BY <1>5, <1>12, IpAcquireEffect, IpRowEffect DEF Changes
<1> QED BY <1>1, <1>2, <1>3, <1>4, <1>6, <1>7, <1>8, <1>9, <1>10, <1>11, <1>12 DEF Request

(* A change that begins on a network that was there keeps all it has.        *)
LEMMA BeginsWithAll ==
  ASSUME TypeInv, NEW r \in Requests, Request(r), NEW e, e = req'[r], e.pc \in Changes, rows[e.id] # None,
         ~(Changer(r) /\ req[r].id = e.id), NEW d, d \in rows[e.id].prefixes
  PROVE  Keeps(e, d)
<1>d. ASSUME e = Idle \/ e.pc \notin Changes PROVE FALSE
  BY <1>d DEF Idle, Changes
<1>1. ASSUME NEW q \in UpdateRequests, ValidateUpdate(r, q) PROVE Keeps(e, d)
  <2>1. e.pc = "updateRemove" /\ e.id = q.id /\ e.row = rows[q.id] /\ e.todo = e.row.prefixes \ e.prefixes
    BY <1>1, ValidateUpdateEffect
  <2> QED BY <2>1 DEF Keeps
<1>2. ASSUME RootPrefix(r) PROVE FALSE
  BY <1>2, <1>d, RootPrefixEffect DEF Changer, Changes
<1>3. ASSUME UpdateRemove(r) PROVE FALSE
  BY <1>3, <1>d, UpdateRemoveEffect DEF Changer, Changes, SameUpdate
<1>4. ASSUME UpdateAdd(r) PROVE FALSE
  BY <1>4, <1>d, UpdateAddEffect DEF Changer, Changes, SameUpdate
<1>5. ASSUME RootRow(r) PROVE FALSE
  BY <1>5, <1>d, RootRowEffect
<1>6. CASE RootVrf(r)
  BY <1>6, <1>d, RootVrfEffect DEF Changes
<1>7. ASSUME NEW q \in RootRequests, ValidateRoot(r, q) PROVE FALSE
  BY <1>7, <1>d, ValidateRootEffect DEF Changes
<1>8. ASSUME NEW q \in ChildRequests, ValidateChild(r, q) PROVE FALSE
  BY <1>8, <1>d, ValidateChildEffect DEF Changes
<1>9. ASSUME ChildParent(r) \/ ChildPrefix(r) \/ ChildVrf(r) \/ ChildRow(r) PROVE FALSE
  BY <1>9, <1>d, ChildParentEffect, ChildPrefixEffect, ChildVrfEffect, ChildRowEffect DEF Changes
<1>10. ASSUME NEW q \in IpRequests, ValidateIp(r, q) PROVE FALSE
  BY <1>10, <1>d, ValidateIpEffect DEF Changes
<1>11. ASSUME UpdateRow(r) \/ IpAcquire(r) \/ IpRow(r) PROVE FALSE
  BY <1>11, <1>d, UpdateRowEffect, IpAcquireEffect, IpRowEffect DEF Changes
<1> QED BY <1>1, <1>2, <1>3, <1>4, <1>5, <1>6, <1>7, <1>8, <1>9, <1>10, <1>11 DEF Request

LEMMA StillHasRequest ==
  ASSUME TypeInv, Stored \subseteq used, Todos, Calm, NEW r \in Requests, Request(r),
         "midway" \notin mishap', "orphaned" \notin mishap', NEW w, NEW d, StillHas(w, d),
         NEW g, NEW ns, NEW q, Owns(g, w, ns, q), ns # None, q \in Sub[d]
  PROVE  StillHas(w, d)'
<1>0. \A x \in Requests \ {r} : req'[x] = req[x]
  BY NetworkCallStays, ValidateIpEffect, IpAcquireEffect, IpRowEffect DEF Request, NetworkCall, Moves, OthersStay
<1>1. w \in Ids /\ w \in RootIds /\ rows[w] # None /\ d \in rows[w].prefixes
  BY DEF StillHas, Ids
<1>2. rows'[w] # None /\ d \in rows'[w].prefixes
  <2>1. CASE rows'[w] # rows[w]
    <3>1. /\ req[r].pc = "updateRow" /\ req[r].id = w
          /\ rows'[w] # None /\ rows'[w].prefixes = req[r].prefixes
      BY <1>1, <2>1, ChangedByRequest
    <3>2. Keeps(req[r], d)
      BY <3>1 DEF StillHas, Changer, Changes
    <3> QED BY <3>1, <3>2 DEF Keeps
  <2> QED BY <1>1, <2>1
<1>3. ASSUME NEW x \in Requests, req'[x].pc \in Changes, req'[x].id = w PROVE Keeps(req'[x], d)
  <2>1. CASE x # r
    BY <1>0, <1>3, <2>1 DEF StillHas, Changer
  <2>2. CASE x = r /\ Changer(r) /\ req[r].id = w
    <3>1. Keeps(req[r], d)
      BY <2>2 DEF StillHas
    <3>2. Orphaned(w, d) = {"orphaned"}
      BY OwnedByChild DEF Orphaned
    <3> QED BY <1>3, <2>2, <3>1, <3>2, StillKeeps
  <2>3. CASE x = r /\ ~(Changer(r) /\ req[r].id = w)
    BY <1>1, <1>3, <2>3, BeginsWithAll
  <2> QED BY <2>1, <2>2, <2>3
<1>4. StillHas(w, d)' = (/\ w \in RootIds /\ rows'[w] # None /\ d \in rows'[w].prefixes
                         /\ \A x \in Requests : req'[x].pc \in Changes /\ req'[x].id = w => Keeps(req'[x], d))
  BY DEF StillHas, Changer, Keeps
<1> QED BY <1>1, <1>2, <1>3, <1>4

LEMMA WithinRequest ==
  ASSUME TypeInv, Stored \subseteq used, Todos, Calm, Calm', ParentsHeld, ParentsHeld', Within, NEW r \in Requests, Request(r),
         "halfway" \notin mishap', "midway" \notin mishap', "orphaned" \notin mishap'
  PROVE  Within'
<1>0. \A e : BeingReleased(e)' = BeingReleased(e)
  BY RequestKeepsRows DEF BeingReleased
<1> SUFFICES ASSUME NEW g, NEW w, NEW ns, NEW q, Owns(g, w, ns, q)', w # None, ns # None, ~BeingReleased(w)
             PROVE  \E d \in Prefixes : StillHas(w, d)' /\ q \in Sub[d]
  BY <1>0 DEF Within
<1>1. ASSUME NEW f, Owns(f, w, ns, q) PROVE \E d \in Prefixes : StillHas(w, d)' /\ q \in Sub[d]
  <2>1. PICK d \in Prefixes : StillHas(w, d) /\ q \in Sub[d]
    BY <1>1 DEF Within
  <2>2. StillHas(w, d)'
    BY <1>1, <2>1, StillHasRequest
  <2> QED BY <2>1, <2>2
<1>2. ASSUME CallOwns(r, w, ns, q), req[r].pc \in Births PROVE \E d \in Prefixes : StillHas(w, d)' /\ q \in Sub[d]
  <2>1. Owns(<<"call", r>>, w, ns, q)
    BY <1>2 DEF Owns
  <2> QED BY <1>1, <2>1
<1>3. ASSUME CallOwns(r, w, ns, q)' PROVE \E d \in Prefixes : StillHas(w, d)' /\ q \in Sub[d]
  <2>0. req'[r].pc \in Births /\ req'[r].row.ns = ns /\ req'[r].row.parent = w /\ q \in req'[r].row.prefixes
    BY <1>3 DEF CallOwns
  <2>d. ASSUME req'[r] = Idle \/ req'[r].pc \notin Births PROVE FALSE
    BY <2>0, <2>d DEF Idle, Births
  <2>1. CASE ChildPrefix(r)
    <3>1. /\ req[r] \in ChildCall /\ req[r].pc = "childPrefix" /\ rows' = rows
          /\ OthersStay(r) /\ req'[r].pc \notin Changes
      BY <2>0, <2>1, ChildPrefixEffect DEF Moves, Births, Changes
    <3>2. PICK c \in Prefixes, d \in req[r].from :
             /\ c \in Sub[d] /\ req'[r].row.ns = req[r].row.ns /\ req'[r].row.parent = req[r].row.parent
             /\ req'[r].row.prefixes = req[r].row.prefixes \cup {c}
      BY <2>1, <2>d, ChildPrefixEffect
    <3>3. CASE q \in req[r].row.prefixes
      BY <1>2, <2>0, <3>1, <3>2, <3>3 DEF CallOwns, Births
    <3>4. CASE q = c
      <4>1. /\ w \in RootIds /\ d \in Prefixes /\ rows[w] # None /\ d \in rows[w].prefixes /\ ~Changing(w)
        BY <2>0, <3>1, <3>2 DEF ParentsHeld, ChildCall, ChildRows
      <4>2. \A x \in Requests : req'[x].pc \in Changes => req'[x].id # w
        BY <3>1, <4>1 DEF Changing, OthersStay
      <4>3. StillHas(w, d)'
        BY <3>1, <4>1, <4>2 DEF StillHas, Changer
      <4> QED BY <3>2, <3>4, <4>1, <4>3
    <3> QED BY <2>0, <3>2, <3>3, <3>4
  <2>2. CASE ChildVrf(r)
    <3>1. /\ req[r].pc = "childVrf" /\ req'[r].row.ns = req[r].row.ns /\ req'[r].row.parent = req[r].row.parent
          /\ req'[r].row.prefixes = req[r].row.prefixes
      BY <2>2, <2>d, ChildVrfEffect
    <3> QED BY <1>2, <2>0, <3>1 DEF CallOwns, Births
  <2>3. CASE ChildParent(r)
    BY <2>0, <2>3, <2>d, ChildParentEffect
  <2>4. ASSUME NEW x \in RootRequests, ValidateRoot(r, x) PROVE FALSE
    BY <2>4, <2>d, ValidateRootEffect DEF Births
  <2>5. ASSUME RootVrf(r) \/ RootRow(r) \/ RootPrefix(r) PROVE FALSE
    BY <2>5, <2>d, RootVrfEffect, RootRowEffect, RootPrefixEffect DEF Births
  <2>6. ASSUME NEW x \in ChildRequests, ValidateChild(r, x) PROVE FALSE
    BY <2>6, <2>d, ValidateChildEffect DEF Births
  <2>7. ASSUME NEW x \in UpdateRequests, ValidateUpdate(r, x) PROVE FALSE
    BY <2>7, <2>d, ValidateUpdateEffect DEF Births
  <2>8. ASSUME UpdateRemove(r) \/ UpdateAdd(r) \/ UpdateRow(r) PROVE FALSE
    BY <2>8, <2>d, UpdateRemoveEffect, UpdateAddEffect, UpdateRowEffect DEF Births
  <2>9. ASSUME NEW x \in IpRequests, ValidateIp(r, x) PROVE FALSE
    BY <2>9, <2>d, ValidateIpEffect DEF Births
  <2>10. ASSUME IpAcquire(r) \/ IpRow(r) \/ ChildRow(r) PROVE FALSE
    BY <2>10, <2>d, IpAcquireEffect, IpRowEffect, ChildRowEffect DEF Births
  <2> QED BY <2>1, <2>2, <2>3, <2>4, <2>5, <2>6, <2>7, <2>8, <2>9, <2>10 DEF Request
<1>4. ASSUME ChildRow(r), q \in req[r].row.prefixes, req[r].row.ns = ns, req[r].row.parent = w
      PROVE  \E d \in Prefixes : StillHas(w, d)' /\ q \in Sub[d]
  <2>1. req[r].pc = "childRow"
    BY <1>4, ChildRowEffect
  <2> QED BY <1>2, <1>4, <2>1 DEF CallOwns, Births
<1> QED BY <1>1, <1>3, <1>4, OwnsRequest

LEMMA WithinTask ==
  ASSUME TypeInv, Attempts, Within, NEW t \in Tasks, Task(t), "again" \notin mishap', "midway" \notin mishap'
  PROVE  Within'
<1>0. req' = req /\ released \subseteq released'
  BY TaskMoves, TaskKeepsCalls DEF RowsMove
<1>1. \A e : BeingReleased(e) => BeingReleased(e)'
  BY <1>0 DEF BeingReleased
<1> SUFFICES ASSUME NEW g, NEW w, NEW ns, NEW q, Owns(g, w, ns, q)', w # None, ns # None, ~BeingReleased(w)'
             PROVE  \E d \in Prefixes : StillHas(w, d)' /\ q \in Sub[d]
  BY DEF Within
<1>2. Owns(g, w, ns, q)
  BY <1>0, OwnsTask
<1>3. PICK d \in Prefixes : StillHas(w, d) /\ q \in Sub[d]
  BY <1>1, <1>2 DEF Within
<1>4. w \in Ids
  BY <1>3 DEF StillHas, Ids
<1>5. rows'[w] = rows[w]
  BY <1>4, RowDeleted DEF BeingReleased
<1>6. StillHas(w, d)'
  BY <1>0, <1>3, <1>5 DEF StillHas, Changer, Keeps
<1> QED BY <1>3, <1>6

LEMMA OwnInit == Init => OwnInv
<1> SUFFICES ASSUME Init PROVE OwnInv
  OBVIOUS
<1>1. PICK s \in Scenarios :
        /\ rows = [i \in Ids |-> IF \E q \in s.there : q.id = i THEN RowOf(CHOOSE q \in s.there : q.id = i) ELSE None]
        /\ prefixes = s.known \cup ({None} \X UNION {q.prefixes : q \in s.there})
  BY DEF Init
<1>2. req = [r \in Requests |-> Idle] /\ task = [t \in Tasks |-> [pc |-> "unused"]]
  BY DEF Init
<1>3. ParentsHeld
  BY <1>2 DEF ParentsHeld, Idle
<1>4. ASSUME NEW i \in Ids, rows[i] # None
      PROVE  \E q \in s.there : q.id = i /\ rows[i].ns = None /\ rows[i].parent = None /\ rows[i].prefixes = q.prefixes
  <2>1. PICK q \in s.there : q.id = i /\ rows[i] = RowOf(q)
    <3>1. \E q \in s.there : q.id = i
      BY <1>1, <1>4
    <3> QED BY <1>1, <3>1
  <2> QED BY <2>1 DEF RowOf
<1>5. ASSUME NEW f, NEW u, NEW ns, NEW p, Owns(f, u, ns, p)
      PROVE  ns = None /\ \E q \in s.there : f = <<"network", q.id>> /\ p \in q.prefixes
  <2>1. \A r \in Requests : ~CallOwns(r, u, ns, p) /\ ~Changer(r)
    BY <1>2 DEF CallOwns, Changer, Idle, Births, Changes
  <2>2. PICK i \in Ids : NetOwns(i, p) /\ rows[i].ns = ns /\ f = <<"network", i>>
    BY <1>5, <2>1 DEF Owns
  <2>3. rows[i] # None /\ p \in rows[i].prefixes
    BY <1>2, <2>1, <2>2 DEF NetOwns
  <2> QED BY <1>4, <2>2, <2>3
<1>6. InIpam
  <2> SUFFICES ASSUME NEW f, NEW u, NEW ns, NEW p, Owns(f, u, ns, p) PROVE <<ns, p>> \in prefixes
    BY DEF InIpam
  <2>1. ns = None /\ \E q \in s.there : p \in q.prefixes
    BY <1>5
  <2> QED BY <1>1, <2>1
<1>7. ASSUME NEW f, NEW g, NEW u, NEW w, NEW ns, NEW m, NEW p, NEW q, Owns(f, u, ns, p), Owns(g, w, m, q), Overlap(p, q)
      PROVE  f = g /\ p = q
  <2>1. PICK x \in s.there : f = <<"network", x.id>> /\ p \in x.prefixes
    BY <1>5, <1>7
  <2>2. PICK y \in s.there : g = <<"network", y.id>> /\ q \in y.prefixes
    BY <1>5, <1>7
  <2>3. x = y /\ p = q
    BY <1>7, <2>1, <2>2, ScenarioAssumption
  <2> QED BY <2>1, <2>2, <2>3
<1>8. ASSUME NEW f, NEW u, NEW ns, NEW p, Owns(f, u, ns, p) PROVE u = None /\ ns = None
  <2>1. \A r \in Requests : ~CallOwns(r, u, ns, p)
    BY <1>2 DEF CallOwns, Idle, Births
  <2>2. PICK i \in Ids : NetOwns(i, p) /\ rows[i].parent = u
    BY <1>8, <2>1 DEF Owns
  <2>3. rows[i] # None
    BY <2>2 DEF NetOwns
  <2> QED BY <1>4, <1>5, <1>8, <2>2, <2>3
<1>9. OneOwner
  BY <1>7, OverlapSame DEF OneOwner
<1>10. BelowRoots
  BY <1>7, <1>8 DEF BelowRoots
<1>11. Siblings /\ Within
  BY <1>8 DEF Siblings, Within
<1> QED BY <1>3, <1>6, <1>9, <1>10, <1>11, CalmInit DEF OwnInv, Owning

LEMMA OwnStep == OwnInv /\ [Next]_vars => OwnInv'
<1> SUFFICES ASSUME OwnInv, [Next]_vars PROVE OwnInv'
  OBVIOUS
<1>1. CalmInv /\ CalmInv' /\ TypeInv /\ Places /\ Attempts /\ Todos /\ Stored \subseteq used
  BY CalmStep DEF OwnInv, CalmInv, AddressInv, Places
<1>2. ASSUME mishap \subseteq mishap', Unless({"halfway", "again", "midway", "orphaned"})'
      PROVE  /\ Calm /\ Calm' /\ ParentsHeld /\ Owning /\ Within
             /\ "halfway" \notin mishap' /\ "again" \notin mishap' /\ "midway" \notin mishap' /\ "orphaned" \notin mishap'
  BY <1>1, <1>2 DEF OwnInv, CalmInv, Unless
<1>3. ASSUME NEW r \in Requests, Request(r) PROVE OwnInv'
  <2>1. mishap \subseteq mishap'
    BY <1>1, <1>3, RequestMoves DEF RowsMove
  <2> QED BY <1>1, <1>2, <1>3, <2>1, ParentsHeldRequest, OwningRequest, WithinRequest DEF OwnInv
<1>4. ASSUME NEW t \in Tasks, Task(t) PROVE OwnInv'
  <2>1. mishap \subseteq mishap'
    BY <1>1, <1>4, TaskMoves DEF RowsMove
  <2> QED BY <1>1, <1>2, <1>4, <2>1, ParentsHeldTask, OwningTask, WithinTask DEF OwnInv
<1>5. CASE UNCHANGED vars
  <2>1. UNCHANGED <<rows, prefixes, req, task, released, mishap>>
    BY <1>5 DEF vars
  <2>2. ParentsHeld => ParentsHeld'
    BY <2>1 DEF ParentsHeld, BeingReleased, Changing
  <2>3. ASSUME NEW i, NEW p, NetOwns(i, p)' PROVE NetOwns(i, p)
    BY <2>1, <2>3 DEF NetOwns, BeingReleased, Changing, Changer, FreshFor
  <2>4. ASSUME NEW f, NEW u, NEW ns, NEW p, Owns(f, u, ns, p)' PROVE Owns(f, u, ns, p)
    BY <2>1, <2>3, <2>4 DEF Owns, CallOwns
  <2>5. Owning => Owning'
    BY <2>1, <2>4, OwningStays DEF Owning, InIpam
  <2>6. \A w, d : StillHas(w, d) => StillHas(w, d)'
    BY <2>1 DEF StillHas, Changer, Keeps
  <2>7. \A e : BeingReleased(e)' = BeingReleased(e)
    BY <2>1 DEF BeingReleased
  <2>8. Within => Within'
    <3> SUFFICES ASSUME Within, NEW g, NEW w, NEW ns, NEW q, Owns(g, w, ns, q)', w # None, ns # None, ~BeingReleased(w)
                 PROVE  \E d \in Prefixes : StillHas(w, d)' /\ q \in Sub[d]
      BY <2>7 DEF Within
    <3>1. PICK d \in Prefixes : StillHas(w, d) /\ q \in Sub[d]
      BY <2>4 DEF Within
    <3> QED BY <2>6, <3>1
  <2> QED BY <1>1, <2>1, <2>2, <2>5, <2>8 DEF OwnInv, Unless
<1> QED BY <1>3, <1>4, <1>5 DEF Next

(* Two networks that nobody is making, changing or deleting have no prefix   *)
(* in common, unless one is the parent of the other: whatever lengths are    *)
(* asked for, however calls and deletions overlap, the ipam keeps apart what *)
(* is in one namespace, and children in namespaces lie within the prefixes   *)
(* of their parents.  It takes that no call failed halfway, no deletion was  *)
(* repeated, no network was changed while it was deleted or changed by       *)
(* somebody else, and no super network gave a prefix away that its children  *)
(* in a namespace use.                                                       *)
THEOREM PrefixesDisjoint == Spec => []NetworksDisjoint
<1>1. OwnInv => NetworksDisjoint
  <2> SUFFICES ASSUME OwnInv, Unless({"halfway", "again", "midway", "orphaned"}), NEW i \in Ids, NEW j \in Ids,
                      Settled(i), Settled(j), i # j, rows[i].ns = rows[j].ns, rows[i].parent # j, rows[j].parent # i,
                      NEW p \in rows[i].prefixes, NEW q \in rows[j].prefixes, Overlap(p, q)
               PROVE  FALSE
    BY DEF NetworksDisjoint
  <2>1. TypeInv /\ Todos /\ Owning
    BY DEF OwnInv, CalmInv, AddressInv
  <2>2. \A r \in Requests : Changer(r) => "id" \in DOMAIN req[r]
    <3>1. \A c \in RootCall \cup UpdateCall : "id" \in DOMAIN c
      BY DEF RootCall, UpdateCall
    <3> QED BY <2>1, <3>1, CallShapes DEF TypeInv, Changer, Changes
  <2>3. ASSUME NEW k \in Ids, Settled(k), NEW z \in rows[k].prefixes
        PROVE  /\ Owns(<<"network", k>>, rows[k].parent, rows[k].ns, z)
               /\ rows[k] # None /\ ~BeingReleased(rows[k].parent)
               /\ \/ rows[k].parent = None /\ rows[k].ns = None
                  \/ k \in ChildIds /\ rows[k].parent # None
    <3>1. rows[k] # None /\ ~BeingReleased(k) /\ ~BeingReleased(rows[k].parent) /\ ~Changing(k)
      BY <2>2, <2>3 DEF Settled, Stored, Changing, Changer
    <3>2. \/ rows[k].parent = None /\ rows[k].ns = None
          \/ k \in ChildIds /\ rows[k].parent # None
      BY <2>1, <3>1, NamesAssumption DEF TypeInv, RootRows, ChildRows, Ids
    <3> QED BY <2>3, <3>1, <3>2 DEF Owns, NetOwns
  <2>4. Owns(<<"network", i>>, rows[i].parent, rows[i].ns, p) /\ Owns(<<"network", j>>, rows[j].parent, rows[i].ns, q)
    BY <2>3
  <2>5. <<"network", i>> # <<"network", j>> /\ Overlap(q, p)
    BY OverlapSame
  <2>6. p # q \/ ~Owns(<<"network", j>>, rows[j].parent, rows[i].ns, p)
    BY <2>1, <2>4, <2>5 DEF Owning, OneOwner
  <2>7. CASE rows[i].parent = None
    <3>1. rows[j].parent # None /\ <<"network", i>> = <<"network", rows[j].parent>>
      BY <2>1, <2>3, <2>4, <2>6, <2>7 DEF Owning, BelowRoots
    <3> QED BY <3>1
  <2>8. CASE rows[j].parent = None
    <3>1. rows[i].parent # None /\ <<"network", j>> = <<"network", rows[i].parent>>
      BY <2>1, <2>3, <2>4, <2>5, <2>6, <2>8 DEF Owning, BelowRoots
    <3> QED BY <3>1
  <2>9. CASE rows[i].parent # None /\ rows[j].parent # None
    BY <2>1, <2>3, <2>4, <2>5, <2>9 DEF Owning, Siblings
  <2> QED BY <2>7, <2>8, <2>9
<1> QED BY OwnInit, OwnStep, <1>1, PTL DEF Spec

=============================================================================
