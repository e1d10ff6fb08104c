------------------------------- MODULE Catalog -------------------------------
(***************************************************************************)
(* Sizes, images, filesystem layouts, size image constraints, reservations *)
(* and partitions, how operators change them while machines register and   *)
(* are allocated, and how an allocation uses them (pkg/repository).        *)
(*                                                                         *)
(* Every call validates what it is asked against the rows as they are, and *)
(* writes later: nothing is locked in between, except the rows of a        *)
(* partition's machines while one of them is picked.  What Selection       *)
(* computes is applied to whatever the database holds at that moment.      *)
(***************************************************************************)
EXTENDS Selection

Orders == INSTANCE SequencesExt

CONSTANTS
    Ids,        \* the ids of every kind of row
    Calls,      \* api calls in progress at the same time
    Projects,
    MachineIds,
    Hardwares,  \* what machines may be built of
    Scenarios   \* where behaviours start, and the calls that are made (bound)

Kinds == {"size", "image", "layout", "sic", "reservation", "partition"}
Operations == {"create", "update", "delete"}
Mishaps == {"stale", "unqualified", "partial", "unchecked", "parallel", "restocked"}

\* Amounts are unsigned, and hardware is counted in whole units.
SizeConstraint == [type : Types, identifier : DOMAIN Globs \cup {""}, min : Nat, max : Nat]
SizeRow == [constraints : SUBSET SizeConstraint]

States == {"available", "locked", "tainted"}
Machine == [id : MachineIds, rack : STRING, partition : Ids["partition"], hw : Hardwares, size : Ids["size"] \cup {Unknown},
            alive : BOOLEAN, state : States, pre : BOOLEAN, alloc : [project : Projects, role : {"machine", "firewall"},
            image : Ids["image"], layout : Ids["layout"]] \cup {None}, tags : SUBSET STRING]

\* An image is named by its operating system and version.
ASSUME ImageAssumption ==
    /\ IsFiniteSet(Ids["image"])
    /\ \A i \in Ids["image"] : i = <<i[1], i[2]>> /\ i[2] \in Nat

\* Every machine is built of something.
ASSUME HardwareAssumption == \A hw \in Hardwares :
    /\ \A type \in Types, identifier \in DOMAIN Globs \cup {""} : CapacityOf(identifier, hw[type]) \in Nat
    /\ \E type \in Types : DOMAIN hw[type] # {}

VARIABLES
    table,    \* by kind and id, the rows
    machines, \* registered machines
    call,     \* api calls
    ops,      \* the calls this behaviour still makes
    mishap    \* history: what went wrong so far, see Mishaps

vars == <<table, machines, call, ops, mishap>>

Idle == [pc |-> "idle"]
Exists(kind, id) == id \in Rows(table[kind])
PutRow(rows, id, row) == [i \in DOMAIN rows \cup {id} |-> IF i = id THEN row ELSE rows[i]]
DropRow(rows, id) == [i \in DOMAIN rows \ {id} |-> rows[i]]

Become(c, state) == call' = [call EXCEPT ![c] = state]
\* A new call: behaviours end where something was done although it would be refused by then.
Begin(c, state) ==
    /\ call[c] = Idle
    /\ "stale" \notin mishap
    /\ ops.left > 0
    /\ ops' = [ops EXCEPT !.left = @ - 1]
    /\ Become(c, state)
Note(what) == mishap' = mishap \cup what
If(condition, what) == IF condition THEN {what} ELSE {}

-----------------------------------------------------------------------------
(* What operators ask for: fields that are not given are None.             *)

OrElse(given, default) == IF given = None THEN default ELSE given
NonEmpty(given, default) == IF given \in {None, {}} THEN default ELSE given

SizeCreated(given) == [constraints |-> OrElse(given.constraints, {})]
SizeUpdated(old, given) == [old EXCEPT !.constraints = OrElse(given.constraints, @)]

ImageCreated(given) == [class |-> OrElse(given.class, "preview"), features |-> given.features]
ImageUpdated(old, given) == [class |-> OrElse(given.class, old.class), features |-> NonEmpty(given.features, old.features)]

EmptyLayout == [disks |-> {}, raids |-> <<>>, vgs |-> <<>>, lvs |-> <<>>, filesystems |-> {},
                constraints |-> [sizes |-> {}, images |-> <<>>]]
LayoutUpdated(old, given) == [f \in DOMAIN old |-> OrElse(given[f], old[f])]
LayoutCreated(given) == LayoutUpdated(EmptyLayout, given)

SicCreated(given) == [images |-> given.images]
\* What is not given any more is not constrained any more.
SicUpdated(old, given) == [old EXCEPT !.images = given.images]

ReservationCreated(given) ==
    [size |-> given.size, amount |-> given.amount, project |-> given.project, partitions |-> given.partitions]
ReservationUpdated(old, given) ==
    [old EXCEPT !.amount = OrElse(given.amount, @), !.partitions = NonEmpty(given.partitions, @)]

\* Of the management addresses the first one is stored, an update that gives several is ignored.
NoAddress == ""
PartitionCreated(given) ==
    [dns |-> OrElse(given.dns, 0), ntp |-> OrElse(given.ntp, 0), mgmt |-> IF given.mgmt = <<>> THEN NoAddress ELSE given.mgmt[1]]
PartitionUpdated(old, given) ==
    [dns |-> OrElse(given.dns, old.dns), ntp |-> OrElse(given.ntp, old.ntp),
     mgmt |-> IF Len(given.mgmt) = 1 THEN given.mgmt[1] ELSE old.mgmt]

Created(kind, given) ==
    CASE kind = "size" -> SizeCreated(given)
      [] kind = "image" -> ImageCreated(given)
      [] kind = "layout" -> LayoutCreated(given)
      [] kind = "sic" -> SicCreated(given)
      [] kind = "reservation" -> ReservationCreated(given)
      [] kind = "partition" -> PartitionCreated(given)

Updated(kind, old, given) ==
    CASE kind = "size" -> SizeUpdated(old, given)
      [] kind = "image" -> ImageUpdated(old, given)
      [] kind = "layout" -> LayoutUpdated(old, given)
      [] kind = "sic" -> SicUpdated(old, given)
      [] kind = "reservation" -> ReservationUpdated(old, given)
      [] kind = "partition" -> PartitionUpdated(old, given)

-----------------------------------------------------------------------------
(* Where behaviours start, and what they are asked.                        *)

Apart(row1, row2) == row1.constraints = {} \/ row2.constraints = {} \/ ~SizesOverlap(row1.constraints, row2.constraints)

Listed(list) == Len(list) \in Nat /\ DOMAIN list = 1..Len(list)
\* A layout, or a part of one.
LayoutParts(l) ==
    /\ DOMAIN l = DOMAIN EmptyLayout
    /\ l.raids # None => Listed(l.raids)
    /\ l.vgs # None => Listed(l.vgs) /\ \A i \in DOMAIN l.vgs : IsFiniteSet(l.vgs[i].devices)
    /\ l.lvs # None => Listed(l.lvs)
    /\ l.constraints # None => \A os \in DOMAIN l.constraints.images : l.constraints.images[os].v \in Nat

\* What messages leave out is None, a list in them may be empty.
Given(kind, row) ==
    /\ kind = "size" => row.constraints = None \/ row.constraints \subseteq SizeConstraint
    /\ kind = "layout" => LayoutParts(row)
    /\ kind = "sic" => row.images # None
    /\ kind = "reservation" => row.amount \in Int \cup {None}
    /\ kind = "partition" => row.mgmt = <<>> \/ row.mgmt[1] # None
WellFormed(kind, asked) ==
    /\ asked.op \in Operations /\ asked.id \in Ids[kind]
    /\ asked.op # "delete" => Given(kind, asked.row)
    /\ asked.op = "create" /\ kind = "reservation" => None \notin {asked.row.size, asked.row.partitions}

\* Rows and machines refer to rows that are there.
Refer(tab, ms) ==
    /\ \A m \in ms :
          /\ m.partition \in Rows(tab.partition)
          /\ m.size # Unknown => m.size \in Rows(tab.size)
          /\ m.alloc # None => m.alloc.image \in Rows(tab.image) /\ m.alloc.layout \in Rows(tab.layout)
    /\ \A r \in Rows(tab.reservation) :
          /\ tab.reservation[r].size \in Rows(tab.size)
          /\ tab.reservation[r].partitions \subseteq Rows(tab.partition)
\* Every row has all its fields.
Fields == [size |-> {"constraints"}, image |-> {"class", "features"}, layout |-> DOMAIN EmptyLayout, sic |-> {"images"},
           reservation |-> {"size", "amount", "project", "partitions"}, partition |-> {"dns", "ntp", "mgmt"}]
Complete(tab) ==
    \A k \in Kinds : Rows(tab[k]) \subseteq Ids[k]
        /\ \A i \in Rows(tab[k]) : DOMAIN tab[k][i] = Fields[k] /\ \A f \in Fields[k] : tab[k][i][f] # None
\* A machine is registered once, and what was pre-allocated is not allocated yet.
Registrations(ms) ==
    /\ ms \subseteq Machine
    /\ \A m, n \in ms : m.id = n.id => m = n
    /\ \A m \in ms : m.pre => m.alloc = None

ASSUME NoneAssumption ==
    /\ None \notin Int \cup Projects /\ None # NoAddress /\ None # "preview" /\ None # {}
    /\ None \notin [project : Projects, role : {"machine", "firewall"}, image : Ids["image"], layout : Ids["layout"]]
    /\ \A f \in DOMAIN EmptyLayout : EmptyLayout[f] # None

\* The catalog starts with rows that were accepted one after the other.
ASSUME ScenarioAssumption == \A s \in Scenarios :
    /\ IsFiniteSet(s.machines) /\ IsFiniteSet(Rows(s.table.reservation))
    /\ \A r \in Rows(s.table.reservation) : s.table.reservation[r].amount \in Int
    /\ DOMAIN s.table = Kinds /\ Complete(s.table) /\ Registrations(s.machines) /\ Refer(s.table, s.machines)
    /\ \A i \in Rows(s.table.size) : s.table.size[i] \in SizeRow
    /\ \A i, j \in Rows(s.table.size) : i # j => Apart(s.table.size[i], s.table.size[j])
    /\ \A l \in Rows(s.table.layout) : LayoutParts(s.table.layout[l]) /\ ~LayoutInvalid(s.table.layout[l])
    /\ ~LayoutsInvalid(s.table.layout)
    /\ {"requests", "allocate", "register", "networks"} \subseteq DOMAIN s.ops /\ s.ops.networks \subseteq Rows(s.table.partition)
    /\ \A kind \in Kinds : \A asked \in s.ops.requests[kind] : WellFormed(kind, asked)
    /\ \A spec \in s.ops.allocate :
          spec.project \in Projects /\ spec.role \in {"machine", "firewall"} /\ spec.image = <<spec.image[1], spec.image[2]>>
    /\ \A r \in s.ops.register :
          r.id \in MachineIds /\ r.rack \in STRING /\ r.partition \in Ids["partition"] /\ r.hw \in Hardwares

Init ==
    \E s \in Scenarios :
      /\ table = s.table
      /\ machines = s.machines
      /\ ops = s.ops
      /\ call = [c \in Calls |-> Idle]
      /\ mishap = {}

-----------------------------------------------------------------------------
(* Validations.                                                            *)

\* Mutant: reservations and image constraints of a size do not keep it.
SizeRefusedMachines(rq) ==
    \/ /\ rq.op # "delete"
       /\ rq.row.constraints # None
       /\ \/ SizeConstraintsInvalid(rq.row.constraints)
          \/ \E s \in Rows(table.size) \ {rq.id} : SizesOverlap(rq.row.constraints, table.size[s].constraints)
    \/ rq.op = "delete" /\ \E m \in machines : m.size = rq.id

SizeRefused(rq) ==
    \/ /\ rq.op # "delete"
       /\ rq.row.constraints # None
       /\ \/ SizeConstraintsInvalid(rq.row.constraints)
          \/ \E s \in Rows(table.size) \ {rq.id} : SizesOverlap(rq.row.constraints, table.size[s].constraints)
    \/ /\ rq.op = "delete"
       /\ \/ \E m \in machines : m.size = rq.id
          \/ \E r \in Rows(table.reservation) : table.reservation[r].size = rq.id
          \/ Exists("sic", rq.id)

ImageRequestRefused(rq) ==
    \/ rq.op = "create" /\ rq.row.features \in {None, {}}
    \/ rq.op = "delete" /\ \E m \in machines : m.alloc # None /\ m.alloc.image = rq.id

\* A request is validated as if it was the whole layout, collisions are looked for by updates only.
LayoutRefused(rq) ==
    LET asked == LayoutCreated(rq.row)
    IN  \/ rq.op # "delete" /\ LayoutInvalid(asked)
        \/ rq.op = "update" /\ LayoutsInvalid(PutRow(table.layout, rq.id, asked))
        \/ rq.op = "delete" /\ \E m \in machines : m.alloc # None /\ m.alloc.layout = rq.id

SicRefused(rq) == rq.op # "delete" /\ ConstraintInvalid(rq.row.images)

ReservationRefused(rq) ==
    /\ rq.op # "delete"
    /\ \/ rq.op = "create" /\ (rq.row.amount = None \/ rq.row.partitions = {} \/ ~Exists("size", rq.row.size))
       \/ rq.row.amount # None /\ rq.row.amount <= 0
       \/ \E p \in OrElse(rq.row.partitions, {}) : ~Exists("partition", p)
       \/ rq.op = "create" /\ rq.row.project \notin Projects

PartitionRefused(rq) ==
    \/ rq.op # "delete" /\ (OrElse(rq.row.dns, 0) > 3 \/ OrElse(rq.row.ntp, 0) > 5)
    \/ /\ rq.op = "delete"
       /\ \/ \E m \in machines : m.partition = rq.id
          \/ rq.id \in ops.networks
          \/ \E r \in Rows(table.reservation) : rq.id \in table.reservation[r].partitions

Refused(rq) ==
    \/ rq.kind = "size" /\ SizeRefused(rq)
    \/ rq.kind = "image" /\ ImageRequestRefused(rq)
    \/ rq.kind = "layout" /\ LayoutRefused(rq)
    \/ rq.kind = "sic" /\ SicRefused(rq)
    \/ rq.kind = "reservation" /\ ReservationRefused(rq)
    \/ rq.kind = "partition" /\ PartitionRefused(rq)

Ask(c) ==
    \E kind \in Kinds : \E asked \in ops.requests[kind] :
      LET rq == [kind |-> kind, op |-> asked.op, id |-> asked.id, row |-> asked.row]
      IN  /\ Exists(kind, rq.id) = (rq.op # "create")
          /\ ~Refused(rq)
          /\ Begin(c, [pc |-> "write", rq |-> rq, row |-> IF rq.op = "create" THEN None ELSE table[kind][rq.id]])
      /\ UNCHANGED <<table, machines, mishap>>

\* A layout that is given in parts, or one that is created next to others which it collides with.
Unsound(rq) ==
    IF rq.kind # "layout" \/ rq.op = "delete" THEN {}
    ELSE If(rq.op = "update" /\ \E f, g \in DOMAIN EmptyLayout \ {"constraints"} : rq.row[f] = None /\ rq.row[g] # None, "partial")
         \cup If(rq.op = "create" /\ LayoutsInvalid(PutRow(table.layout, rq.id, LayoutCreated(rq.row))), "unchecked")

\* An insert fails if the row is there, an update if it is not the one that was read.
Written(rq, read) ==
    /\ rq.op = "create" => ~Exists(rq.kind, rq.id)
    /\ rq.op = "update" => Exists(rq.kind, rq.id) /\ table[rq.kind][rq.id] = read

Write(c) ==
    /\ call[c].pc = "write"
    /\ LET rq == call[c].rq
           row == IF rq.op = "create" THEN Created(rq.kind, rq.row) ELSE Updated(rq.kind, call[c].row, rq.row)
       IN  /\ Written(rq, call[c].row)
           /\ table' = [table EXCEPT ![rq.kind] = IF rq.op = "delete" THEN DropRow(@, rq.id) ELSE PutRow(@, rq.id, row)]
           /\ Note(If(Refused(rq), "stale") \cup Unsound(rq))
    /\ Become(c, Idle)
    /\ UNCHANGED <<machines, ops>>

-----------------------------------------------------------------------------
(* Allocations.  The image is resolved twice: for the validation the most  *)
(* recent one of any classification, for the machine the most recent one   *)
(* that is supported, and one that is given in full as it is.              *)

Classes == {"preview", "supported", "deprecated"}
StockOf(spec) == {m \in machines : m.partition = spec.partition /\ m.size = spec.size}
ReservationsFor(spec) ==
    {r \in Rows(table.reservation) :
        table.reservation[r].size = spec.size /\ spec.partition \in table.reservation[r].partitions}
\* In the order of the database.
ReservationLists(spec) == {[i \in DOMAIN s |-> table.reservation[s[i]]] : s \in Orders!SetToSeqs(ReservationsFor(spec))}

ValidatedImage(spec) == MostRecentImageFor(spec.image, Classes, table.image)
ImageToBoot(spec) ==
    IF Patch(spec.image[2]) > 0 THEN spec.image ELSE MostRecentImageFor(spec.image, {"supported"}, table.image)
LayoutsToUse(spec, image) ==
    IF spec.layout # None THEN {spec.layout} \cap Rows(table.layout) ELSE LayoutsFor(table.layout, spec.size, image)

AllocationValid(spec) ==
    /\ Exists("partition", spec.partition)
    /\ Exists("size", spec.size)
    /\ ValidatedImage(spec) # None
    /\ ~ImageRefused(table.sic, spec.size, ValidatedImage(spec))
    /\ LayoutsToUse(spec, ValidatedImage(spec)) # {}
    /\ spec.role \in table.image[ValidatedImage(spec)].features

Allocate(c) ==
    \E spec \in ops.allocate :
      /\ AllocationValid(spec)
      /\ Begin(c, [pc |-> "pick", spec |-> spec, image |-> ValidatedImage(spec)])
      /\ UNCHANGED <<table, machines, mishap>>

Replace(m, n) == machines' = (machines \ {m}) \cup {n}
PickingFor(spec) ==
    {c \in Calls : call[c].pc = "commit" /\ call[c].spec.project = spec.project /\ call[c].spec.partition = spec.partition}
Peers(spec) == {m \in MachinesOf(StockOf(spec), spec.project) : m.alloc.role = spec.role}
Winners(spec) == SpreadAcrossRacks(Alive(Candidates(StockOf(spec))), Peers(spec), spec.tags)

\* The machine is taken under the lock of the partition.
Pick(c) ==
    /\ call[c].pc = "pick"
    /\ LET spec == call[c].spec
           image == ImageToBoot(spec)
       IN  /\ image # None
           /\ Exists("partition", spec.partition)
           /\ \E list \in ReservationLists(spec) : SizeReservationsAllow(StockOf(spec), spec.project, list)
           /\ \E l \in LayoutsToUse(spec, image), m \in Winners(spec) :
                 /\ Replace(m, [m EXCEPT !.pre = TRUE])
                 /\ Become(c, [pc |-> "commit", spec |-> spec, image |-> image,
                               layout |-> l, content |-> table.layout[l], machine |-> m.id])
           /\ Note(If(~AllocationValid(spec), "stale") \cup If(image # call[c].image, "unqualified")
                   \cup If(PickingFor(spec) # {}, "parallel"))
    /\ UNCHANGED <<table, ops>>

\* The image and the layout may be gone by now.
Outdated(k) ==
    \/ ~Exists("image", k.image) \/ ~Exists("layout", k.layout) \/ ~Exists("partition", k.spec.partition)
    \/ ImageRefused(table.sic, k.spec.size, k.image) /\ "unqualified" \notin mishap

\* The tags of a machine are the system's own, what the request wants to be placed by is not among them.
Commit(c) ==
    /\ call[c].pc = "commit"
    /\ LET k == call[c]
       IN  /\ \E m \in machines :
                /\ m.id = k.machine
                /\ m.alloc = None
                /\ LayoutFits(k.content, m.hw)
                /\ Replace(m, [m EXCEPT !.pre = FALSE, !.tags = {m.rack},
                                        !.alloc = [project |-> k.spec.project, role |-> k.spec.role,
                                                   image |-> k.image, layout |-> k.layout]])
           /\ Note(If(Outdated(k), "stale"))
    /\ Become(c, Idle)
    /\ UNCHANGED <<table, ops>>

\* Any call may fail on its way.  A machine that was picked and has no allocation yet stays pre-allocated: the rollback
\* returns before it writes.
Fail(c) ==
    /\ call[c].pc \in {"write", "pick", "commit", "register", "mark"}
    /\ Become(c, Idle)
    /\ UNCHANGED <<table, machines, ops, mishap>>

-----------------------------------------------------------------------------
(* Machines come, go and die.                                              *)

\* The size is found in the sizes there are, the partition is taken as it is given.
Register(c) ==
    \E r \in ops.register :
      /\ Begin(c, [pc |-> "register", who |-> r, size |-> FromHardware(table.size, r.hw)])
      /\ UNCHANGED <<table, machines, mishap>>

\* A machine that is there keeps its allocation.
Registered(c) ==
    /\ call[c].pc = "register"
    /\ LET k == call[c]
           here == {m \in machines : m.id = k.who.id}
           new(m) == [id |-> k.who.id, rack |-> k.who.rack, partition |-> k.who.partition, hw |-> k.who.hw,
                      size |-> k.size, alive |-> m.alive, state |-> m.state, pre |-> m.pre, alloc |-> m.alloc, tags |-> m.tags]
           unknown == [alive |-> TRUE, state |-> "available", pre |-> FALSE, alloc |-> None, tags |-> {}]
       IN  /\ machines' = (machines \ here) \cup {new(IF here = {} THEN unknown ELSE CHOOSE m \in here : TRUE)}
           /\ Note({"restocked"} \cup If(k.size # FromHardware(table.size, k.who.hw), "stale")
                   \cup If(~Exists("partition", k.who.partition), "stale"))
    /\ Become(c, Idle)
    /\ UNCHANGED <<table, ops>>

\* The allocation of a machine is removed; the machine waits again later, at once here.
Free ==
    /\ ops.left > 0
    /\ ops' = [ops EXCEPT !.left = @ - 1]
    /\ \E m \in machines : m.id \in ops.free /\ m.alloc # None /\ Replace(m, [m EXCEPT !.alloc = None])
    /\ Note({"restocked"})
    /\ UNCHANGED <<table, call>>

Die ==
    /\ ops.left > 0
    /\ ops' = [ops EXCEPT !.left = @ - 1]
    /\ \E m \in machines : m.id \in ops.die /\ m.alive /\ Replace(m, [m EXCEPT !.alive = FALSE])
    /\ UNCHANGED <<table, call, mishap>>

\* Operators lock and taint machines, and make them available before they do the other.
SetState(c) ==
    \E m \in machines, state \in States :
      /\ m.id \in ops.mark
      /\ m.state = "available" \/ state = "available"
      /\ Begin(c, [pc |-> "mark", who |-> m.id, state |-> state])
      /\ UNCHANGED <<table, machines, mishap>>

Marked(c) ==
    /\ call[c].pc = "mark"
    /\ \E m \in machines : m.id = call[c].who /\ Replace(m, [m EXCEPT !.state = call[c].state])
    /\ Note(If(call[c].state = "available", "restocked"))
    /\ Become(c, Idle)
    /\ UNCHANGED <<table, ops>>

Next ==
    \/ \E c \in Calls :
          \/ Ask(c) \/ Write(c) \/ Allocate(c) \/ Pick(c) \/ Commit(c) \/ Fail(c)
          \/ Register(c) \/ Registered(c) \/ SetState(c) \/ Marked(c)
    \/ Free
    \/ Die

Spec == Init /\ [][Next]_vars

-----------------------------------------------------------------------------
(* Properties.                                                             *)

TypeOK == Complete(table) /\ Registrations(machines) /\ mishap \subseteq Mishaps

\* What is in use is there: images, layouts and partitions of allocated machines, sizes of machines, sizes and
\* partitions of reservations, partitions of networks.  Only a call that acts on what it validated earlier can take it
\* away.
InUse == "stale" \in mishap \/ (Refer(table, machines) /\ ops.networks \subseteq Rows(table.partition))

\* Two sizes that tell machines apart by ranges of the same identifiers never fit the same machine, so that its size
\* is known.  (With different identifiers, or a range that begins at nothing, sizes of the catalog may both fit.)
Comparable(cs, ds) == \A c, d \in cs \cup ds : c.min >= 1 /\ (c.type = d.type => c.identifier = d.identifier)
OneSize ==
    "stale" \in mishap \/
    \A s, t \in Rows(table.size), hw \in Hardwares :
        LET cs == table.size[s].constraints
            ds == table.size[t].constraints
        IN  s # t /\ Comparable(cs, ds) => ~(Fits(cs, hw) /\ Fits(ds, hw))

\* Two layouts for a size of which one is bounded from below and the other from above, or that are for every version,
\* never both match an image, whatever the order of the catalog.  (Layouts that are bounded in the same direction, or
\* created next to others, may; and "<= 1.2" with ">= 1.2.5", of which neither accepts the version of the other.)
Bounds(low, high) ==
    /\ low.op \in {">", ">=", "=>"} /\ high.op \in {"<", "<=", "=<"}
    /\ ~(high.op # "<" /\ Patch(high.v) = 0 /\ Minor(high.v) = Minor(low.v) /\ high.v < low.v)
Opposed(c, d) == "*" \in {c.op, d.op} \/ Bounds(c, d) \/ Bounds(d, c)
OneLayout ==
    mishap \cap {"stale", "unchecked"} # {} \/
    \A l, k \in Rows(table.layout), s \in Ids["size"], i \in Ids["image"] :
        LET c == table.layout[l]
            d == table.layout[k]
        IN  l # k /\ LayoutMatches(c, s, i) /\ LayoutMatches(d, s, i)
                => ~Opposed(c.constraints.images[i[1]], d.constraints.images[i[1]])

\* Whatever is built from the disks of a layout up, raids first and logical volumes then, its filesystems find their
\* devices, and what is mirrored or striped has several; updates that give parts of a layout can break it.
BuiltUp(l, devices) ==
    /\ ProvidedByDisks(l) \subseteq devices
    /\ \A i \in DOMAIN l.raids : l.raids[i].devices \subseteq devices => <<l.raids[i].name>> \in devices
    /\ \A i \in DOMAIN l.lvs : (\E j \in DOMAIN l.vgs : l.vgs[j].name = l.lvs[i].vg /\ l.vgs[j].devices \subseteq devices)
                                   => <<l.lvs[i].vg, l.lvs[i].name>> \in devices
Whole(l) ==
    /\ \A fs \in l.filesystems : fs.format = "tmpfs" \/ \A D \in SUBSET Provided(l) : BuiltUp(l, D) => fs.device \in D
    /\ \A i \in DOMAIN l.lvs : l.lvs[i].type # "linear" =>
          \E j \in DOMAIN l.vgs : l.vgs[j].name = l.lvs[i].vg /\ Cardinality(l.vgs[j].devices) >= 2
LayoutWhole == "partial" \in mishap \/ \A l \in Rows(table.layout) : Whole(table.layout[l])

\* Who allocates without a reservation of its own leaves as many living machines as others have reserved and not yet
\* allocated.  This takes one reservation for each project, which none exceeds, no dead machine among the candidates,
\* and no other allocation of the project at that time.
Used(spec, r) == Allocated(StockOf(spec), table.reservation[r].project)
Promised(spec) ==
    Total([r \in {q \in ReservationsFor(spec) : table.reservation[q].project # spec.project} |->
              table.reservation[r].amount - Used(spec, r)])
Orderly(spec) ==
    /\ \A r, q \in ReservationsFor(spec) : table.reservation[r].project = table.reservation[q].project => r = q
    /\ \A r \in ReservationsFor(spec) : Used(spec, r) <= table.reservation[r].amount
    /\ Candidates(StockOf(spec)) = Alive(Candidates(StockOf(spec)))
    /\ PickingFor(spec) = {}
Entitled(spec) ==
    \E r \in ReservationsFor(spec) : table.reservation[r].project = spec.project /\ Used(spec, r) < table.reservation[r].amount
Picks(c) == call[c].pc = "pick" /\ call'[c].pc = "commit"
ReservationsKept ==
    [][\A c \in Calls : Picks(c) /\ Orderly(call[c].spec) /\ ~Entitled(call[c].spec)
          => Promised(call[c].spec) <= Cardinality(Candidates(StockOf(call[c].spec))')]_vars

\* What the capacity of a partition reports as free for a project, the project gets: no order of the reservations
\* makes the allocation fail for them.
Wants == {[project |-> p, partition |-> q, size |-> s] : p \in Projects, q \in Ids["partition"], s \in Ids["size"]}
FreeIsAllocatable ==
    \A w \in Wants : \A list \in ReservationLists(w) :
        Capacity(StockOf(w), w.project, list).free > 0 => SizeReservationsAllow(StockOf(w), w.project, list)

\* The machines of a project are spread: no rack holds two more of them than one that has a machine to give, as long
\* as allocations follow each other and nothing is given back.
Spread(ms, w, role) ==
    LET stock == {m \in ms : m.partition = w.partition /\ m.size = w.size}
        peers == {m \in MachinesOf(stock, w.project) : m.alloc.role = role}
    IN  \A m \in Alive(Candidates(stock)), n \in peers : In(n.rack, peers) <= In(m.rack, peers) + 1
Balanced ==
    mishap \cap {"restocked", "parallel", "stale"} # {} \/
    \A w \in Wants, role \in {"machine", "firewall"} : Spread(machines, w, role)

\* This takes machines that are spread when a behaviour starts, and requests that are not placed by the tags which the
\* system gives to machines itself.
Plain(spec, ms) == \A m \in ms : spec.tags \cap ({m.rack} \cup m.tags) = {}
SpreadScenarios ==
    \A s \in Scenarios :
        /\ \A w \in Wants, role \in {"machine", "firewall"} : Spread(s.machines, w, role)
        /\ \A spec \in s.ops.allocate : Plain(spec, s.machines)

\* A machine boots an image that the constraints of its size allow, if it is the one that was validated.
ImageAllowed ==
    [][\A m \in machines' :
          m.alloc # None /\ (\E n \in machines : n.id = m.id /\ n.alloc = None)
              => \/ mishap' \cap {"stale", "unqualified", "restocked"} # {}
                 \/ Exists("sic", m.size) =>
                      \A os \in DOMAIN table.sic[m.size].images \cap {m.alloc.image[1]} :
                          Satisfies(m.alloc.image[2], table.sic[m.size].images[os])]_vars

\* Rows refer to rows that are there (the validations of deletions and allocations).
RowsSound == TypeOK /\ InUse

\* The layout of an allocation is one that can be built, and does not depend on the order of the catalog.
LayoutsSound == OneLayout /\ LayoutWhole

\* An allocation takes no machine that others have reserved, and no image that its size does not allow.
AllocationAllowed == ReservationsKept /\ ImageAllowed
=============================================================================
