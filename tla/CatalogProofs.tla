---------------------------- MODULE CatalogProofs ----------------------------
(***************************************************************************)
(* For every catalog, any hardware and any number of calls, as long as no  *)
(* call acted on what it validated earlier: what is in use is there, no    *)
(* two comparable sizes fit the same machine, and no two opposed layouts   *)
(* match the same image.  Unconditionally: every row is complete and       *)
(* machines are registered once, and what is reported free for a project   *)
(* the project may allocate.  Unless they were updated in parts, layouts   *)
(* can be built.  A machine boots an image that was validated, and is not  *)
(* one that others were promised.  Machines of a project stay spread over  *)
(* the racks while allocations of the project follow each other.           *)
(***************************************************************************)
EXTENDS Catalog, FiniteSetTheorems, TLAPS

\* Sizes overlap or they do not, in whatever order they are compared (metal.Size.overlaps).
LEMMA OverlapSymmetric ==
    ASSUME NEW cs, NEW ds
    PROVE  SizesOverlap(cs, ds) <=> SizesOverlap(ds, cs)
BY DEF SizesOverlap, ConstraintsOverlap

\* A range that does not begin at nothing is only met by hardware of its type.
LEMMA RangeNeedsHardware ==
    ASSUME NEW c \in SizeConstraint, NEW hw, c.min >= 1,
           CapacityOf(c.identifier, hw[c.type]) \in Nat, InRange(c, hw)
    PROVE  DOMAIN hw[c.type] # {}
<1> SUFFICES ASSUME DOMAIN hw[c.type] = {} PROVE FALSE
    OBVIOUS
<1>1. Covered(c.identifier, hw[c.type]) = {}
  BY DEF Covered
<1>2. CapacityOf(c.identifier, hw[c.type]) = 0
  BY <1>1 DEF CapacityOf
<1>3. c.min \in Nat /\ c.min <= 0
  BY <1>2 DEF InRange, SizeConstraint
<1> QED BY <1>3

\* Hardware that a size fits, and that has models of a type, is constrained in this type (exhaustiveMatch).
LEMMA FitNeedsConstraint ==
    ASSUME NEW cs, NEW hw, NEW type \in Types, Fits(cs, hw), DOMAIN hw[type] # {}
    PROVE  type \in TypesOf(cs)
BY DEF Fits, ExhaustiveMatch, TypesOf

\* Two sizes that do not overlap and name the same identifiers never fit the same hardware.
THEOREM SizeUnique ==
    ASSUME NEW cs \in SUBSET SizeConstraint, NEW ds \in SUBSET SizeConstraint, NEW hw \in Hardwares,
           Comparable(cs, ds), Fits(cs, hw), Fits(ds, hw),
           cs = {} \/ ds = {} \/ ~SizesOverlap(cs, ds)
    PROVE  FALSE
<1>1. TypesOf(cs) \subseteq Types /\ TypesOf(ds) \subseteq Types
  BY DEF TypesOf, SizeConstraint
<1>2. ASSUME NEW c \in cs \cup ds PROVE CapacityOf(c.identifier, hw[c.type]) \in Nat
  BY HardwareAssumption DEF SizeConstraint
<1>3. TypesOf(cs) = TypesOf(ds)
  <2>1. ASSUME NEW type \in TypesOf(cs) PROVE type \in TypesOf(ds)
    <3>1. PICK c \in cs : c.type = type
      BY DEF TypesOf
    <3>2. c.min >= 1
      BY DEF Comparable
    <3>3. InRange(c, hw)
      BY DEF Fits
    <3>4. DOMAIN hw[c.type] # {}
      BY <3>2, <3>3, <1>2, RangeNeedsHardware
    <3> QED BY <3>1, <3>4, <1>1, FitNeedsConstraint
  <2>2. ASSUME NEW type \in TypesOf(ds) PROVE type \in TypesOf(cs)
    <3>1. PICK d \in ds : d.type = type
      BY DEF TypesOf
    <3>2. d.min >= 1
      BY DEF Comparable
    <3>3. InRange(d, hw)
      BY DEF Fits
    <3>4. DOMAIN hw[d.type] # {}
      BY <3>2, <3>3, <1>2, RangeNeedsHardware
    <3> QED BY <3>1, <3>4, <1>1, FitNeedsConstraint
  <2> QED BY <2>1, <2>2
<1>4. cs # {} /\ ds # {}
  <2>1. PICK type \in Types : DOMAIN hw[type] # {}
    BY HardwareAssumption
  <2>2. type \in TypesOf(cs) /\ type \in TypesOf(ds)
    BY <2>1, FitNeedsConstraint
  <2> QED BY <2>2 DEF TypesOf
<1>5. PICK c \in cs, d \in ds : c.type = d.type /\ ~ConstraintsOverlap(c, d)
  BY <1>3, <1>4 DEF SizesOverlap
<1>6. c.identifier = d.identifier
  BY <1>5 DEF Comparable
<1>7. c.min \in Nat /\ c.max \in Nat /\ d.min \in Nat /\ d.max \in Nat
  BY DEF SizeConstraint
<1>8. ~(c.min <= d.max /\ d.min <= c.max)
  BY <1>5, <1>6 DEF ConstraintsOverlap
<1> DEFINE n == CapacityOf(c.identifier, hw[c.type])
<1>9. n \in Nat /\ c.min <= n /\ n <= c.max /\ d.min <= n /\ n <= d.max
  BY <1>2, <1>5, <1>6 DEF Fits, InRange
<1> HIDE DEF n
<1> QED BY <1>7, <1>8, <1>9

-----------------------------------------------------------------------------
(* Least and greatest elements of finite sets, by the well-foundedness of  *)
(* strict inclusion: a minimal set of greater elements is empty.           *)

\* Of finitely many elements one has the greatest value.
LEMMA Greatest ==
    ASSUME NEW S, IsFiniteSet(S), S # {}, NEW f, \A x \in S : f[x] \in Int
    PROVE  \E x \in S : \A y \in S : f[y] <= f[x]
<1> DEFINE Above(a) == {x \in S : f[x] > f[a]}
           T == {A \in SUBSET S : \E a \in S : A = Above(a)}
<1>1. IsWellFoundedOn(StrictSubsetOrdering(S), FiniteSubsetsOf(S))
  BY FS_StrictSubsetOrderingWellFounded
<1>2. T \subseteq FiniteSubsetsOf(S) /\ T # {}
  <2>1. FiniteSubsetsOf(S) = SUBSET S
    BY FS_FiniteSubsetsOfFinite
  <2>2. PICK a : a \in S
    OBVIOUS
  <2>3. Above(a) \in T
    BY <2>2
  <2> QED BY <2>1, <2>3
<1>3. PICK A \in T : \A B \in T : <<B, A>> \notin StrictSubsetOrdering(S)
  BY <1>1, <1>2, WFMin
<1>4. PICK a \in S : A = Above(a)
  OBVIOUS
<1>5. ASSUME NEW b \in S, f[b] > f[a] PROVE FALSE
  <2>1. Above(b) \subseteq Above(a) /\ b \in Above(a) /\ b \notin Above(b)
    BY <1>5
  <2>2. <<Above(b), A>> \in StrictSubsetOrdering(S)
    BY <1>4, <2>1 DEF StrictSubsetOrdering
  <2>3. Above(b) \in T
    OBVIOUS
  <2> QED BY <1>3, <2>2, <2>3
<1> QED BY <1>5

\* Among finitely many integers one is the least.
LEMMA Least ==
    ASSUME NEW S \in SUBSET Int, IsFiniteSet(S), S # {}
    PROVE  \E x \in S : \A y \in S : x <= y
<1> DEFINE f == [x \in S |-> 0 - x]
<1>1. \A x \in S : f[x] \in Int /\ f[x] = 0 - x
  OBVIOUS
<1> HIDE DEF f
<1>2. PICK x \in S : \A y \in S : f[y] <= f[x]
  BY <1>1, Greatest
<1> QED BY <1>1, <1>2

\* The maximum of finitely many integers is one of them.
LEMMA MaxIn ==
    ASSUME NEW S \in SUBSET Int, IsFiniteSet(S), S # {}
    PROVE  Max(S) \in S
<1>1. PICK x \in S : \A y \in S : [z \in S |-> z][y] <= [z \in S |-> z][x]
  BY Greatest
<1>2. \E m \in S : \A y \in S : y <= m
  BY <1>1
<1> QED BY <1>2 DEF Max

-----------------------------------------------------------------------------
(* The invariant.  Requests and pending calls are well formed, and what a  *)
(* request was refused for whatever the rows are, a pending call is not.   *)
(* A write is validated again in the model only to tell which ones would   *)
(* be refused by then.                                                     *)

TableTyped ==
    /\ DOMAIN table = Kinds
    /\ Complete(table)
    /\ \A i \in Rows(table.size) : table.size[i] \in SizeRow
    /\ \A l \in Rows(table.layout) : LayoutParts(table.layout[l])

SpecOK(spec) ==
    spec.project \in Projects /\ spec.role \in {"machine", "firewall"} /\ spec.image = <<spec.image[1], spec.image[2]>>
WhoOK(r) == r.id \in MachineIds /\ r.rack \in STRING /\ r.partition \in Ids["partition"] /\ r.hw \in Hardwares
AskedFor ==
    /\ {"requests", "allocate", "register", "networks"} \subseteq DOMAIN ops
    /\ \A kind \in Kinds : \A asked \in ops.requests[kind] : WellFormed(kind, asked)
    /\ \A spec \in ops.allocate : SpecOK(spec)
    /\ \A r \in ops.register : WhoOK(r)

WriteOK(rq) ==
    /\ rq.kind \in Kinds
    /\ WellFormed(rq.kind, rq)
    /\ rq.kind = "image" /\ rq.op = "create" => rq.row.features # None
    /\ rq.kind = "layout" /\ rq.op # "delete" => ~LayoutInvalid(LayoutCreated(rq.row))
    /\ rq.kind = "reservation" /\ rq.op = "create" => rq.row.amount # None /\ rq.row.project \in Projects
CallOK(k) ==
    /\ k.pc = "write" => WriteOK(k.rq)
    /\ k.pc = "pick" => SpecOK(k.spec) /\ (Patch(k.spec.image[2]) > 0 => k.spec.image \in Ids["image"])
    /\ k.pc = "commit" => SpecOK(k.spec) /\ k.image \in Ids["image"] /\ k.layout \in Ids["layout"]
    /\ k.pc = "register" => WhoOK(k.who) /\ k.size \in Ids["size"] \cup {Unknown}
    /\ k.pc = "mark" => k.state \in States
PendingTyped == DOMAIN call = Calls /\ \A c \in Calls : CallOK(call[c])

\* What is known of the rows, unless a call acted on what it validated earlier.
Referred == "stale" \in mishap \/ Refer(table, machines)
Located == "stale" \in mishap \/ ops.networks \subseteq Rows(table.partition)
SizesApart ==
    "stale" \in mishap \/ \A i, j \in Rows(table.size) : i # j => Apart(table.size[i], table.size[j])
LayoutsApart == mishap \cap {"stale", "unchecked"} # {} \/ ~LayoutsInvalid(table.layout)

\* The parts of a layout that its validation looks at, but for the constraints.
Misbuilt(l) ==
    \/ \E d \in l.disks : DiskInvalid(d)
    \/ \E i \in DOMAIN l.raids : RaidInvalid(l, i)
    \/ \E i \in DOMAIN l.vgs : ~(l.vgs[i].devices \subseteq VolumeGroupDevices(l))
    \/ \E i \in DOMAIN l.lvs : LogicalVolumeInvalid(l, i)
    \/ \E fs \in l.filesystems : FilesystemInvalid(l, fs)
LayoutsBuilt == "partial" \in mishap \/ \A l \in Rows(table.layout) : ~Misbuilt(table.layout[l])

\* Sizes of machines only change when they register again.
SizeKept ==
    "restocked" \in mishap \/
    \A c \in Calls : call[c].pc = "commit" =>
        \A m \in machines : m.id = call[c].machine => m.size = call[c].spec.size

Typed == TableTyped /\ Registrations(machines) /\ mishap \subseteq Mishaps /\ AskedFor /\ PendingTyped
Inv == Typed /\ Referred /\ SizesApart /\ LayoutsApart /\ LayoutsBuilt /\ SizeKept

\* Nothing is missing of an empty layout (filesystemLayoutRepository.convertToInternal).
LEMMA EmptyParts == LayoutParts(EmptyLayout) /\ DOMAIN EmptyLayout = {"disks", "raids", "vgs", "lvs", "filesystems", "constraints"}
BY DEF LayoutParts, EmptyLayout, Listed

LEMMA InitInv == Init => Inv
<1> SUFFICES ASSUME Init PROVE Inv
    OBVIOUS
<1>1. PICK s \in Scenarios : table = s.table /\ machines = s.machines /\ ops = s.ops
  BY DEF Init
<1>2. (\A c \in Calls : call[c] = Idle) /\ DOMAIN call = Calls /\ mishap = {}
  BY DEF Init
<1>3. TableTyped /\ Registrations(machines) /\ Referred
  BY <1>1, ScenarioAssumption DEF TableTyped, Referred
<1>4. AskedFor
  BY <1>1, ScenarioAssumption DEF AskedFor, SpecOK, WhoOK
<1>5. PendingTyped
  BY <1>2 DEF PendingTyped, CallOK, Idle
<1>6. SizesApart /\ LayoutsApart
  BY <1>1, ScenarioAssumption DEF SizesApart, LayoutsApart
<1>7. LayoutsBuilt
  BY <1>1, ScenarioAssumption DEF LayoutsBuilt, Misbuilt, LayoutInvalid
<1>8. SizeKept
  BY <1>2 DEF SizeKept, Idle
<1> QED BY <1>2, <1>3, <1>4, <1>5, <1>6, <1>7, <1>8 DEF Inv, Typed

\* A call that goes on, or ends, leaves the others pending.
LEMMA BecomeTyped ==
    ASSUME PendingTyped, NEW c \in Calls, NEW state, Become(c, state), CallOK(state)
    PROVE  PendingTyped'
BY DEF PendingTyped, Become

\* A call that ends is well formed.
LEMMA IdleOK == CallOK(Idle)
BY DEF CallOK, Idle

\* A new call uses up one of the calls to make, and nothing else.
LEMMA BeginTyped ==
    ASSUME AskedFor, NEW c \in Calls, NEW state, Begin(c, state)
    PROVE  AskedFor' /\ Become(c, state) /\ "stale" \notin mishap
BY DEF AskedFor, Begin

\* Calls that only go on, while no size changes, keep the sizes of the machines that were picked.
LEMMA BecomeKept ==
    ASSUME SizeKept, PendingTyped, NEW c \in Calls, NEW state, Become(c, state), machines' = machines, mishap' = mishap,
           state.pc # "commit"
    PROVE  SizeKept'
BY DEF SizeKept, PendingTyped, Become

-----------------------------------------------------------------------------
(* What is written.                                                        *)

LEMMA Put ==
    ASSUME NEW rows, NEW id, NEW row
    PROVE  /\ Rows(PutRow(rows, id, row)) = Rows(rows) \cup {id}
           /\ PutRow(rows, id, row)[id] = row
           /\ \A i \in Rows(rows) \ {id} : PutRow(rows, id, row)[i] = rows[i]
BY DEF PutRow, Rows

LEMMA Drop ==
    ASSUME NEW rows, NEW id
    PROVE  /\ Rows(DropRow(rows, id)) = Rows(rows) \ {id}
           /\ \A i \in Rows(rows) \ {id} : DropRow(rows, id)[i] = rows[i]
BY DEF DropRow, Rows

\* What a write does to the table: a row is put, replaced or dropped, the other rows stay.
Rewritten(rq) ==
    /\ DOMAIN table' = Kinds
    /\ \A k \in Kinds \ {rq.kind} : table'[k] = table[k]
    /\ \A i \in Rows(table[rq.kind]) \ {rq.id} : table'[rq.kind][i] = table[rq.kind][i]
    /\ rq.op = "delete" => Rows(table'[rq.kind]) = Rows(table[rq.kind]) \ {rq.id}
    /\ rq.op # "delete" => Rows(table'[rq.kind]) = Rows(table[rq.kind]) \cup {rq.id}
    /\ rq.op = "create" => /\ rq.id \notin Rows(table[rq.kind])
                           /\ table'[rq.kind][rq.id] = Created(rq.kind, rq.row)
    /\ rq.op = "update" => /\ rq.id \in Rows(table[rq.kind])
                           /\ table'[rq.kind][rq.id] = Updated(rq.kind, table[rq.kind][rq.id], rq.row)

LEMMA WriteTable ==
    ASSUME Typed, NEW c \in Calls, Write(c), NEW rq, rq = call[c].rq
    PROVE  /\ WriteOK(rq)
           /\ Rewritten(rq)
           /\ mishap' = mishap \cup (If(Refused(rq), "stale") \cup Unsound(rq))
           /\ machines' = machines /\ ops' = ops /\ Become(c, Idle)
<1> DEFINE row == IF rq.op = "create" THEN Created(rq.kind, rq.row) ELSE Updated(rq.kind, call[c].row, rq.row)
           rows == table[rq.kind]
           rowsN == IF rq.op = "delete" THEN DropRow(rows, rq.id) ELSE PutRow(rows, rq.id, row)
<1>1. /\ call[c].pc = "write"
      /\ Written(rq, call[c].row)
      /\ table' = [table EXCEPT ![rq.kind] = rowsN]
      /\ mishap' = mishap \cup (If(Refused(rq), "stale") \cup Unsound(rq))
      /\ machines' = machines /\ ops' = ops /\ Become(c, Idle)
  BY DEF Write, Note
<1>2. WriteOK(rq)
  BY <1>1 DEF Typed, PendingTyped, CallOK
<1>3. rq.kind \in Kinds /\ DOMAIN table = Kinds /\ rq.op \in Operations
  BY <1>2 DEF WriteOK, WellFormed, Typed, TableTyped
<1>4. DOMAIN table' = Kinds /\ table'[rq.kind] = rowsN /\ \A k \in Kinds \ {rq.kind} : table'[k] = table[k]
  BY <1>1, <1>3
<1>5. CASE rq.op = "delete"
  <2>1. rowsN = DropRow(rows, rq.id)
    BY <1>5
  <2> HIDE DEF rowsN
  <2>2. Rows(rowsN) = Rows(rows) \ {rq.id} /\ \A i \in Rows(rows) \ {rq.id} : rowsN[i] = rows[i]
    <3> HIDE DEF rows
    <3> QED BY ONLY <2>1, Drop
  <2>3. Rewritten(rq)
    BY <1>4, <1>5, <2>2 DEF Rewritten
  <2> QED BY <1>1, <1>2, <2>3
<1>6. CASE rq.op = "create"
  <2>1. rowsN = PutRow(rows, rq.id, row) /\ row = Created(rq.kind, rq.row)
    BY <1>6
  <2>2. rq.id \notin Rows(rows)
    BY <1>1, <1>6 DEF Written, Exists
  <2> HIDE DEF rowsN, row
  <2>3. Rows(rowsN) = Rows(rows) \cup {rq.id} /\ rowsN[rq.id] = row /\ \A i \in Rows(rows) \ {rq.id} : rowsN[i] = rows[i]
    <3> HIDE DEF rows
    <3> QED BY ONLY <2>1, Put
  <2>4. Rewritten(rq)
    BY <1>4, <1>6, <2>1, <2>2, <2>3 DEF Rewritten
  <2> QED BY <1>1, <1>2, <2>4
<1>7. CASE rq.op = "update"
  <2>1. rowsN = PutRow(rows, rq.id, row) /\ row = Updated(rq.kind, call[c].row, rq.row)
    BY <1>7
  <2>2. rq.id \in Rows(rows) /\ rows[rq.id] = call[c].row
    BY <1>1, <1>7 DEF Written, Exists
  <2>3. row = Updated(rq.kind, table[rq.kind][rq.id], rq.row)
    BY <2>1, <2>2
  <2> HIDE DEF rowsN, row
  <2>4. Rows(rowsN) = Rows(rows) \cup {rq.id} /\ rowsN[rq.id] = row /\ \A i \in Rows(rows) \ {rq.id} : rowsN[i] = rows[i]
    <3> HIDE DEF rows
    <3> QED BY ONLY <2>1, Put
  <2>5. Rewritten(rq)
    BY <1>4, <1>7, <2>2, <2>3, <2>4 DEF Rewritten
  <2> QED BY <1>1, <1>2, <2>5
<1> QED BY <1>3, <1>5, <1>6, <1>7 DEF Operations

\* What a row of each kind becomes (the convertToInternal and update functions of the repositories).
LEMMA SizeBecomes ==
    ASSUME NEW old, NEW given
    PROVE  Created("size", given) = SizeCreated(given) /\ Updated("size", old, given) = SizeUpdated(old, given)
BY DEF Created, Updated

LEMMA ImageBecomes ==
    ASSUME NEW old, NEW given
    PROVE  Created("image", given) = ImageCreated(given) /\ Updated("image", old, given) = ImageUpdated(old, given)
BY DEF Created, Updated

LEMMA LayoutBecomes ==
    ASSUME NEW old, NEW given
    PROVE  Created("layout", given) = LayoutCreated(given) /\ Updated("layout", old, given) = LayoutUpdated(old, given)
BY DEF Created, Updated

LEMMA SicBecomes ==
    ASSUME NEW old, NEW given
    PROVE  Created("sic", given) = SicCreated(given) /\ Updated("sic", old, given) = SicUpdated(old, given)
BY DEF Created, Updated

LEMMA ReservationBecomes ==
    ASSUME NEW old, NEW given
    PROVE  /\ Created("reservation", given) = ReservationCreated(given)
           /\ Updated("reservation", old, given) = ReservationUpdated(old, given)
BY DEF Created, Updated

LEMMA PartitionBecomes ==
    ASSUME NEW old, NEW given
    PROVE  /\ Created("partition", given) = PartitionCreated(given)
           /\ Updated("partition", old, given) = PartitionUpdated(old, given)
BY DEF Created, Updated

\* Every field of what is written is filled, if all fields of what was there were.
Filled(kind, row) == DOMAIN row = Fields[kind] /\ \A f \in Fields[kind] : row[f] # None

LEMMA KindFields ==
    /\ Fields["size"] = {"constraints"} /\ Fields["image"] = {"class", "features"} /\ Fields["layout"] = DOMAIN EmptyLayout
    /\ Fields["sic"] = {"images"} /\ Fields["reservation"] = {"size", "amount", "project", "partitions"}
    /\ Fields["partition"] = {"dns", "ntp", "mgmt"}
BY DEF Fields

LEMMA WrittenFilled ==
    ASSUME NEW rq, WriteOK(rq), NEW old
    PROVE  /\ rq.op = "create" => Filled(rq.kind, Created(rq.kind, rq.row))
           /\ rq.op = "update" /\ Filled(rq.kind, old) => Filled(rq.kind, Updated(rq.kind, old, rq.row))
<1> DEFINE given == rq.row
<1>0. None # {} /\ \A f \in DOMAIN EmptyLayout : EmptyLayout[f] # None
  BY NoneAssumption
<1>1. CASE rq.kind = "size"
  <2>1. OrElse(given.constraints, {}) # None
    BY <1>0 DEF OrElse
  <2>2. Filled("size", SizeCreated(given))
    BY <2>1, KindFields DEF Filled, SizeCreated
  <2>3. Filled("size", old) => Filled("size", SizeUpdated(old, given))
    BY KindFields DEF Filled, SizeUpdated, OrElse
  <2> QED BY <1>1, <2>2, <2>3, SizeBecomes
<1>2. CASE rq.kind = "image"
  BY <1>2, ImageBecomes, KindFields, NoneAssumption DEF Filled, ImageCreated, ImageUpdated, OrElse, NonEmpty, WriteOK
<1>3. CASE rq.kind = "layout"
  <2>1. ASSUME NEW l, \A f \in DOMAIN l : l[f] # None
        PROVE  /\ DOMAIN LayoutUpdated(l, given) = DOMAIN l
               /\ \A f \in DOMAIN l : LayoutUpdated(l, given)[f] # None
    BY <2>1 DEF LayoutUpdated, OrElse
  <2>2. Filled("layout", LayoutCreated(given))
    BY <1>0, <2>1, KindFields DEF Filled, LayoutCreated
  <2>3. Filled("layout", old) => Filled("layout", LayoutUpdated(old, given))
    BY <2>1, KindFields DEF Filled
  <2> QED BY <1>3, <2>2, <2>3, LayoutBecomes
<1>4. CASE rq.kind = "sic"
  <2>1. rq.op # "delete" => given.images # None
    BY <1>4 DEF WriteOK, WellFormed, Given
  <2> QED BY <1>4, <2>1, SicBecomes, KindFields DEF Filled, SicCreated, SicUpdated
<1>5. CASE rq.kind = "reservation"
  <2>1. rq.op = "create" => given.size # None /\ given.partitions # None /\ given.amount # None /\ given.project # None
    BY <1>5, NoneAssumption DEF WriteOK, WellFormed
  <2>2. rq.op = "create" => Filled("reservation", ReservationCreated(given))
    BY <2>1, KindFields DEF Filled, ReservationCreated
  <2>3. Filled("reservation", old) => Filled("reservation", ReservationUpdated(old, given))
    BY KindFields DEF Filled, ReservationUpdated, OrElse, NonEmpty
  <2> QED BY <1>5, <2>2, <2>3, ReservationBecomes
<1>6. CASE rq.kind = "partition"
  <2>1. rq.op # "delete" => given.mgmt = <<>> \/ given.mgmt[1] # None
    BY <1>6 DEF WriteOK, WellFormed, Given
  <2>2. 0 # None /\ NoAddress # None
    BY NoneAssumption
  <2>3. rq.op = "create" => Filled("partition", PartitionCreated(given))
    BY <2>1, <2>2, KindFields DEF Filled, PartitionCreated, OrElse
  <2>4. Len(<<>>) # 1
    OBVIOUS
  <2>5. rq.op = "update" /\ Filled("partition", old) => Filled("partition", PartitionUpdated(old, given))
    BY <2>1, <2>4, KindFields DEF Filled, PartitionUpdated, OrElse
  <2> QED BY <1>6, <2>3, <2>5, PartitionBecomes
<1> QED BY <1>1, <1>2, <1>3, <1>4, <1>5, <1>6 DEF WriteOK, Kinds

\* A layout that is given in full, or changed, is one (filesystemLayoutRepository.update).
LEMMA LayoutWritten ==
    ASSUME NEW old, LayoutParts(old), NEW given, LayoutParts(given)
    PROVE  LayoutParts(LayoutUpdated(old, given)) /\ LayoutParts(LayoutCreated(given))
<1>1. ASSUME NEW o, LayoutParts(o) PROVE LayoutParts(LayoutUpdated(o, given))
  <2> DEFINE l == LayoutUpdated(o, given)
  <2>1. DOMAIN l = DOMAIN EmptyLayout /\ \A f \in DOMAIN EmptyLayout : l[f] = given[f] \/ l[f] = o[f]
    BY <1>1 DEF LayoutUpdated, OrElse, LayoutParts
  <2> HIDE DEF l
  <2>2. /\ l.raids = given.raids \/ l.raids = o.raids
        /\ l.vgs = given.vgs \/ l.vgs = o.vgs
        /\ l.lvs = given.lvs \/ l.lvs = o.lvs
        /\ l.constraints = given.constraints \/ l.constraints = o.constraints
    BY <2>1, EmptyParts
  <2>3. l.raids # None => Listed(l.raids)
    BY <2>2, <1>1 DEF LayoutParts
  <2>4. l.vgs # None => Listed(l.vgs) /\ \A i \in DOMAIN l.vgs : IsFiniteSet(l.vgs[i].devices)
    BY <2>2, <1>1 DEF LayoutParts
  <2>5. l.lvs # None => Listed(l.lvs)
    BY <2>2, <1>1 DEF LayoutParts
  <2>6. l.constraints # None => \A os \in DOMAIN l.constraints.images : l.constraints.images[os].v \in Nat
    BY <2>2, <1>1 DEF LayoutParts
  <2>7. LayoutParts(l)
    BY <2>1, <2>3, <2>4, <2>5, <2>6 DEF LayoutParts
  <2> QED BY <2>7 DEF l
<1> QED BY <1>1, EmptyParts DEF LayoutCreated

LEMMA SizeWritten ==
    ASSUME NEW rq, WriteOK(rq), rq.kind = "size", NEW old
    PROVE  /\ rq.op = "create" => Created("size", rq.row) \in SizeRow
           /\ rq.op = "update" /\ old \in SizeRow => Updated("size", old, rq.row) \in SizeRow
<1> DEFINE given == rq.row.constraints
<1>1. rq.op # "delete" => given = None \/ given \subseteq SizeConstraint
  BY DEF WriteOK, WellFormed, Given
<1>2. Created("size", rq.row) = [constraints |-> IF given = None THEN {} ELSE given]
  BY SizeBecomes DEF SizeCreated, OrElse
<1>3. old \in SizeRow => Updated("size", old, rq.row) = [constraints |-> IF given = None THEN old.constraints ELSE given]
  BY SizeBecomes DEF SizeUpdated, OrElse, SizeRow
<1>4. old \in SizeRow => old.constraints \subseteq SizeConstraint
  BY DEF SizeRow
<1> HIDE DEF given
<1> QED BY <1>1, <1>2, <1>3, <1>4 DEF SizeRow

LEMMA WriteTyped ==
    ASSUME Typed, NEW rq, WriteOK(rq), Rewritten(rq)
    PROVE  TableTyped'
<1>1. rq.kind \in Kinds /\ rq.op \in Operations /\ rq.id \in Ids[rq.kind] /\ DOMAIN table = Kinds
  BY DEF WriteOK, WellFormed, Typed, TableTyped
<1>2. \A k \in Kinds : Rows(table[k]) \subseteq Ids[k] /\ \A i \in Rows(table[k]) : Filled(k, table[k][i])
  BY DEF Typed, TableTyped, Complete, Filled
<1> DEFINE N == table'[rq.kind]
           O == table[rq.kind]
<1>3. ASSUME NEW i \in Rows(N) PROVE i \in Ids[rq.kind] /\ Filled(rq.kind, N[i])
  <2>1. CASE i # rq.id
    <3>1. i \in Rows(O) /\ N[i] = O[i]
      BY <2>1, <1>1, <1>3 DEF Rewritten
    <3> QED BY <3>1, <1>1, <1>2
  <2>2. CASE i = rq.id
    <3>1. rq.op \in {"create", "update"}
      BY <2>2, <1>1, <1>3 DEF Rewritten, Operations
    <3>2. CASE rq.op = "create"
      BY <3>2, <2>2, <1>1, WrittenFilled DEF Rewritten
    <3>3. CASE rq.op = "update"
      <4>1. rq.id \in Rows(O) /\ N[i] = Updated(rq.kind, O[i], rq.row)
        BY <3>3, <2>2 DEF Rewritten
      <4> QED BY <4>1, <3>3, <2>2, <1>1, <1>2, WrittenFilled
    <3> QED BY <3>1, <3>2, <3>3
  <2> QED BY <2>1, <2>2
<1>4. ASSUME NEW k \in Kinds, NEW i \in Rows(table'[k]) PROVE i \in Ids[k] /\ Filled(k, table'[k][i])
  <2>1. CASE k = rq.kind
    BY <2>1, <1>3, <1>4
  <2>2. CASE k # rq.kind
    <3>1. table'[k] = table[k]
      BY <2>2 DEF Rewritten
    <3> QED BY <3>1, <1>2, <1>4
  <2> QED BY <2>1, <2>2
<1>5. Complete(table')
  BY <1>4 DEF Complete, Filled
<1>6. ASSUME NEW i \in Rows(table'["size"]) PROVE table'["size"][i] \in SizeRow
  <2>1. \A j \in Rows(table["size"]) : table["size"][j] \in SizeRow
    BY DEF Typed, TableTyped
  <2>2. CASE rq.kind # "size"
    <3>1. table'["size"] = table["size"]
      BY <2>2 DEF Rewritten, Kinds
    <3> QED BY <3>1, <1>6, <2>1
  <2>3. CASE rq.kind = "size" /\ i # rq.id
    <3>1. i \in Rows(table["size"]) /\ table'["size"][i] = table["size"][i]
      BY <2>3, <1>1, <1>6 DEF Rewritten
    <3> QED BY <3>1, <2>1
  <2>4. CASE rq.kind = "size" /\ i = rq.id
    <3>1. rq.op \in {"create", "update"}
      BY <2>4, <1>1, <1>6 DEF Rewritten, Operations
    <3>2. rq.op = "create" => table'["size"][i] = Created("size", rq.row)
      BY <2>4 DEF Rewritten
    <3>3. rq.op = "update" => i \in Rows(table["size"]) /\ table'["size"][i] = Updated("size", table["size"][i], rq.row)
      BY <2>4 DEF Rewritten
    <3> QED BY <3>1, <3>2, <3>3, <2>1, <2>4, SizeWritten
  <2> QED BY <2>2, <2>3, <2>4
<1>7. ASSUME NEW i \in Rows(table'["layout"]) PROVE LayoutParts(table'["layout"][i])
  <2>1. \A j \in Rows(table["layout"]) : LayoutParts(table["layout"][j])
    BY DEF Typed, TableTyped
  <2>2. CASE rq.kind # "layout"
    <3>1. table'["layout"] = table["layout"]
      BY <2>2 DEF Rewritten, Kinds
    <3> QED BY <3>1, <1>7, <2>1
  <2>3. CASE rq.kind = "layout" /\ i # rq.id
    <3>1. i \in Rows(table["layout"]) /\ table'["layout"][i] = table["layout"][i]
      BY <2>3, <1>1, <1>7 DEF Rewritten
    <3> QED BY <3>1, <2>1
  <2>4. CASE rq.kind = "layout" /\ i = rq.id
    <3>1. rq.op \in {"create", "update"}
      BY <2>4, <1>1, <1>7 DEF Rewritten, Operations
    <3>2. LayoutParts(rq.row)
      BY <2>4, <3>1 DEF WriteOK, WellFormed, Given
    <3>3. rq.op = "create" => table'["layout"][i] = LayoutCreated(rq.row)
      BY <2>4, LayoutBecomes DEF Rewritten
    <3>4. rq.op = "update" => i \in Rows(table["layout"]) /\ table'["layout"][i] = LayoutUpdated(table["layout"][i], rq.row)
      BY <2>4, LayoutBecomes DEF Rewritten
    <3> QED BY <3>1, <3>2, <3>3, <3>4, <2>1, EmptyParts, LayoutWritten
  <2> QED BY <2>2, <2>3, <2>4
<1> QED BY <1>5, <1>6, <1>7 DEF TableTyped, Rewritten

\* A reservation that is not refused names a size and partitions that are there, and keeps its size.
LEMMA ReservationWritten ==
    ASSUME NEW rq, WriteOK(rq), rq.kind = "reservation", ~ReservationRefused(rq), NEW old, Filled("reservation", old)
    PROVE  /\ rq.op = "create" =>
                 /\ Created("reservation", rq.row).size \in Rows(table.size)
                 /\ Created("reservation", rq.row).partitions \subseteq Rows(table.partition)
           /\ rq.op = "update" =>
                 /\ Updated("reservation", old, rq.row).size = old.size
                 /\ Updated("reservation", old, rq.row).partitions \subseteq old.partitions \cup Rows(table.partition)
<1> DEFINE given == rq.row
<1>1. rq.op # "delete" => \A p \in OrElse(given.partitions, {}) : p \in Rows(table.partition)
  BY DEF ReservationRefused, Exists
<1>2. CASE rq.op = "create"
  <2>1. given.partitions # None /\ given.size \in Rows(table.size)
    BY <1>2 DEF WriteOK, WellFormed, ReservationRefused, Exists
  <2>2. given.partitions \subseteq Rows(table.partition)
    BY <1>1, <1>2, <2>1 DEF OrElse
  <2> QED BY <1>2, <2>1, <2>2, ReservationBecomes DEF ReservationCreated
<1>3. CASE rq.op = "update"
  <2> DEFINE new == ReservationUpdated(old, given)
  <2>1. DOMAIN old = {"size", "amount", "project", "partitions"}
    BY KindFields DEF Filled
  <2>2. new.size = old.size /\ new.partitions = NonEmpty(given.partitions, old.partitions)
    BY <2>1 DEF ReservationUpdated
  <2>3. NonEmpty(given.partitions, old.partitions) \subseteq old.partitions \cup Rows(table.partition)
    BY <1>1, <1>3 DEF NonEmpty, OrElse
  <2> QED BY <1>3, <2>2, <2>3, ReservationBecomes
<1> QED BY <1>2, <1>3

LEMMA WriteInUse ==
    ASSUME Typed, Referred, NEW rq, WriteOK(rq), Rewritten(rq), machines' = machines,
           mishap' = mishap \cup (If(Refused(rq), "stale") \cup Unsound(rq))
    PROVE  Referred'
<1> SUFFICES ASSUME "stale" \notin mishap' PROVE Refer(table', machines')
  BY DEF Referred
<1>1. Refer(table, machines) /\ ~Refused(rq)
  BY DEF Referred, If
<1>2. rq.kind \in Kinds /\ rq.op \in Operations
  BY DEF WriteOK, WellFormed
<1>3. ASSUME NEW k \in Kinds, NEW i \in Rows(table[k]), i \notin Rows(table'[k])
      PROVE  k = rq.kind /\ i = rq.id /\ rq.op = "delete"
  BY <1>3, <1>2 DEF Rewritten, Operations
<1>4. ASSUME NEW m \in machines
      PROVE  /\ m.partition \in Rows(table'.partition)
             /\ m.size # Unknown => m.size \in Rows(table'.size)
             /\ m.alloc # None => m.alloc.image \in Rows(table'.image) /\ m.alloc.layout \in Rows(table'.layout)
  <2>1. m.partition \in Rows(table["partition"])
    BY <1>1 DEF Refer
  <2>2. m.partition \in Rows(table'["partition"])
    BY <2>1, <1>1, <1>3 DEF Refused, PartitionRefused, Kinds
  <2>3. m.size # Unknown => m.size \in Rows(table["size"])
    BY <1>1 DEF Refer
  <2>4. m.size # Unknown => m.size \in Rows(table'["size"])
    BY <2>3, <1>1, <1>3 DEF Refused, SizeRefused, Kinds
  <2>5. m.alloc # None => m.alloc.image \in Rows(table["image"]) /\ m.alloc.layout \in Rows(table["layout"])
    BY <1>1 DEF Refer
  <2>6. m.alloc # None => m.alloc.image \in Rows(table'["image"])
    BY <2>5, <1>1, <1>3 DEF Refused, ImageRequestRefused, Kinds
  <2>7. m.alloc # None => m.alloc.layout \in Rows(table'["layout"])
    BY <2>5, <1>1, <1>3 DEF Refused, LayoutRefused, Kinds
  <2> QED BY <2>2, <2>4, <2>6, <2>7
<1>5. ASSUME NEW r \in Rows(table'["reservation"])
      PROVE  /\ table'["reservation"][r].size \in Rows(table["size"])
             /\ table'["reservation"][r].partitions \subseteq Rows(table["partition"])
  <2>1. \A i \in Rows(table["reservation"]) : /\ table["reservation"][i].size \in Rows(table["size"])
                                               /\ table["reservation"][i].partitions \subseteq Rows(table["partition"])
                                               /\ Filled("reservation", table["reservation"][i])
    BY <1>1 DEF Refer, Typed, TableTyped, Complete, Filled, Kinds
  <2>2. CASE rq.kind # "reservation"
    <3>1. table'["reservation"] = table["reservation"]
      BY <2>2 DEF Rewritten, Kinds
    <3> QED BY <3>1, <1>5, <2>1
  <2>3. CASE rq.kind = "reservation" /\ r # rq.id
    <3>1. r \in Rows(table["reservation"]) /\ table'["reservation"][r] = table["reservation"][r]
      BY <2>3, <1>2, <1>5 DEF Rewritten
    <3> QED BY <3>1, <2>1
  <2>4. CASE rq.kind = "reservation" /\ r = rq.id
    <3>1. rq.op \in {"create", "update"} /\ ~ReservationRefused(rq)
      BY <2>4, <1>1, <1>2, <1>5 DEF Rewritten, Operations, Refused
    <3>2. CASE rq.op = "create"
      <4>1. table'["reservation"][r] = Created("reservation", rq.row)
        BY <2>4, <3>2 DEF Rewritten
      <4>2. Filled("reservation", Created("reservation", rq.row))
        BY <2>4, <3>2, WrittenFilled
      <4> QED BY <4>1, <4>2, <3>1, <3>2, <2>4, ReservationWritten
    <3>3. CASE rq.op = "update"
      <4>1. r \in Rows(table["reservation"])
            /\ table'["reservation"][r] = Updated("reservation", table["reservation"][r], rq.row)
        BY <2>4, <3>3 DEF Rewritten
      <4>2. Filled("reservation", table["reservation"][r])
        BY <4>1, <2>1
      <4>3. /\ Updated("reservation", table["reservation"][r], rq.row).size = table["reservation"][r].size
            /\ Updated("reservation", table["reservation"][r], rq.row).partitions
                  \subseteq table["reservation"][r].partitions \cup Rows(table["partition"])
        BY <4>2, <3>1, <3>3, <2>4, ReservationWritten
      <4> QED BY <4>1, <4>3, <2>1
    <3> QED BY <3>1, <3>2, <3>3
  <2> QED BY <2>2, <2>3, <2>4
<1>6. ASSUME NEW r \in Rows(table'["reservation"])
      PROVE  table'["reservation"][r].size \in Rows(table'["size"])
  <2> DEFINE s == table'["reservation"][r].size
  <2>1. SUFFICES ASSUME s \notin Rows(table'["size"]) PROVE FALSE
    OBVIOUS
  <2>2. rq.kind = "size" /\ s = rq.id /\ rq.op = "delete"
    BY <2>1, <1>3, <1>5, <1>6 DEF Kinds
  <2>3. table'["reservation"] = table["reservation"]
    BY <2>2 DEF Rewritten, Kinds
  <2> QED BY <2>2, <2>3, <1>1, <1>6 DEF Refused, SizeRefused
<1>7. ASSUME NEW r \in Rows(table'["reservation"])
      PROVE  table'["reservation"][r].partitions \subseteq Rows(table'["partition"])
  <2>1. SUFFICES ASSUME NEW p \in table'["reservation"][r].partitions, p \notin Rows(table'["partition"]) PROVE FALSE
    OBVIOUS
  <2>2. rq.kind = "partition" /\ p = rq.id /\ rq.op = "delete"
    BY <2>1, <1>3, <1>5, <1>7 DEF Kinds
  <2>3. table'["reservation"] = table["reservation"]
    BY <2>2 DEF Rewritten, Kinds
  <2> QED BY <2>1, <2>2, <2>3, <1>1, <1>7 DEF Refused, PartitionRefused
<1> QED BY <1>4, <1>6, <1>7 DEF Refer

LEMMA WriteSizes ==
    ASSUME Typed, SizesApart, NEW rq, WriteOK(rq), Rewritten(rq),
           mishap' = mishap \cup (If(Refused(rq), "stale") \cup Unsound(rq))
    PROVE  SizesApart'
<1> SUFFICES ASSUME "stale" \notin mishap', NEW i \in Rows(table'["size"]), NEW j \in Rows(table'["size"]), i # j
             PROVE  Apart(table'["size"][i], table'["size"][j])
  BY DEF SizesApart
<1>1. "stale" \notin mishap /\ ~Refused(rq) /\ rq.op \in Operations
  BY DEF If, WriteOK, WellFormed
<1>2. \A k, l \in Rows(table["size"]) : k # l => Apart(table["size"][k], table["size"][l])
  BY <1>1 DEF SizesApart
<1>3. CASE rq.kind # "size"
  <2>1. table'["size"] = table["size"]
    BY <1>3 DEF Rewritten, Kinds
  <2> QED BY <2>1, <1>2
<1>4. CASE rq.kind = "size"
  <2> DEFINE given == rq.row.constraints
             old == table["size"][rq.id]
             row == table'["size"][rq.id]
  <2>1. ~SizeRefused(rq)
    BY <1>1, <1>4 DEF Refused
  <2>2. \A k \in Rows(table'["size"]) : k # rq.id => k \in Rows(table["size"]) /\ table'["size"][k] = table["size"][k]
    BY <1>1, <1>4 DEF Rewritten, Operations
  <2>3. ASSUME rq.id \in Rows(table'["size"]), NEW k \in Rows(table["size"]), k # rq.id
        PROVE  Apart(row, table["size"][k])
    <3>1. rq.op \in {"create", "update"}
      BY <2>3, <1>1, <1>4 DEF Rewritten, Operations
    <3>2. rq.op = "create" => row.constraints = IF given = None THEN {} ELSE given
      <4>1. rq.op = "create" => row = SizeCreated(rq.row)
        BY <1>4, SizeBecomes DEF Rewritten
      <4> QED BY <4>1 DEF SizeCreated, OrElse
    <3>3. rq.op = "update" => /\ rq.id \in Rows(table["size"])
                              /\ row.constraints = IF given = None THEN old.constraints ELSE given
      <4>1. rq.op = "update" => rq.id \in Rows(table["size"]) /\ row = SizeUpdated(old, rq.row)
        BY <1>4, SizeBecomes DEF Rewritten
      <4>2. rq.op = "update" => old \in SizeRow
        BY <4>1 DEF Typed, TableTyped
      <4> QED BY <4>1, <4>2 DEF SizeUpdated, OrElse, SizeRow
    <3>4. CASE given # None
      <4>1. ~SizesOverlap(given, table["size"][k].constraints)
        BY <2>1, <2>3, <3>1, <3>4 DEF SizeRefused
      <4>2. row.constraints = given
        BY <3>1, <3>2, <3>3, <3>4
      <4> QED BY <4>1, <4>2 DEF Apart
    <3>5. CASE given = None
      <4>1. CASE rq.op = "create"
        BY <4>1, <3>2, <3>5 DEF Apart
      <4>2. CASE rq.op = "update"
        <5>1. row.constraints = old.constraints /\ Apart(old, table["size"][k])
          BY <4>2, <3>3, <3>5, <1>2, <2>3
        <5> QED BY <5>1 DEF Apart
      <4> QED BY <3>1, <4>1, <4>2
    <3> QED BY <3>4, <3>5
  <2>4. CASE i = rq.id
    BY <2>2, <2>3, <2>4
  <2>5. CASE j = rq.id
    <3>1. Apart(table'["size"][j], table'["size"][i])
      BY <2>2, <2>3, <2>5
    <3> QED BY <3>1, OverlapSymmetric DEF Apart
  <2>6. CASE i # rq.id /\ j # rq.id
    BY <1>2, <2>2, <2>6
  <2> QED BY <2>4, <2>5, <2>6
<1> QED BY <1>3, <1>4

\* What collides only depends on the constraints of layouts.
LEMMA SameConstraints ==
    ASSUME NEW ls, NEW ks, Rows(ls) \subseteq Rows(ks), \A l \in Rows(ls) : ls[l].constraints = ks[l].constraints,
           LayoutsInvalid(ls)
    PROVE  LayoutsInvalid(ks)
BY DEF LayoutsInvalid, LayoutsCollide

LEMMA WriteLayouts ==
    ASSUME Typed, LayoutsApart, NEW rq, WriteOK(rq), Rewritten(rq),
           mishap' = mishap \cup (If(Refused(rq), "stale") \cup Unsound(rq))
    PROVE  LayoutsApart'
<1> SUFFICES ASSUME "stale" \notin mishap', "unchecked" \notin mishap' PROVE ~LayoutsInvalid(table'["layout"])
  BY DEF LayoutsApart
<1> DEFINE N == table'["layout"]
           O == table["layout"]
           asked == LayoutCreated(rq.row)
<1>1. "stale" \notin mishap /\ ~Refused(rq) /\ rq.op \in Operations /\ "unchecked" \notin Unsound(rq)
  BY DEF If, WriteOK, WellFormed
<1>2. ~LayoutsInvalid(O)
  BY <1>1 DEF LayoutsApart
<1>3. CASE rq.kind # "layout"
  <2>1. N = O
    BY <1>3 DEF Rewritten, Kinds
  <2> QED BY <2>1, <1>2
<1>4. CASE rq.kind = "layout" /\ rq.op = "delete"
  <2>1. Rows(N) \subseteq Rows(O) /\ \A l \in Rows(N) : N[l].constraints = O[l].constraints
    BY <1>4 DEF Rewritten
  <2> QED BY <2>1, <1>2, SameConstraints
<1>5. CASE rq.kind = "layout" /\ rq.op = "create"
  <2> DEFINE P == PutRow(O, rq.id, asked)
  <2>1. ~LayoutsInvalid(P)
    BY <1>1, <1>5 DEF Unsound, If
  <2>2. Rows(P) = Rows(O) \cup {rq.id} /\ P[rq.id] = asked /\ \A l \in Rows(O) \ {rq.id} : P[l] = O[l]
    BY Put
  <2>3. Rows(N) = Rows(O) \cup {rq.id} /\ N[rq.id] = asked /\ \A l \in Rows(O) \ {rq.id} : N[l] = O[l]
    BY <1>5, LayoutBecomes DEF Rewritten
  <2> HIDE DEF P, N, O, asked
  <2>4. Rows(N) \subseteq Rows(P) /\ \A l \in Rows(N) : N[l].constraints = P[l].constraints
    BY <2>2, <2>3
  <2> QED BY <2>1, <2>4, SameConstraints DEF N
<1>6. CASE rq.kind = "layout" /\ rq.op = "update"
  <2> DEFINE P == PutRow(O, rq.id, asked)
  <2>1. ~LayoutsInvalid(P)
    BY <1>1, <1>6 DEF Refused, LayoutRefused
  <2>2. Rows(P) = Rows(O) \cup {rq.id} /\ P[rq.id] = asked /\ \A l \in Rows(O) \ {rq.id} : P[l] = O[l]
    BY Put
  <2>3. Rows(N) = Rows(O) \cup {rq.id} /\ N[rq.id] = LayoutUpdated(O[rq.id], rq.row) /\ rq.id \in Rows(O)
        /\ \A l \in Rows(O) \ {rq.id} : N[l] = O[l]
    BY <1>6, LayoutBecomes DEF Rewritten
  <2>4. LayoutParts(O[rq.id])
    BY <2>3 DEF Typed, TableTyped
  <2>5. N[rq.id].constraints = OrElse(rq.row.constraints, O[rq.id].constraints)
    BY <2>3, <2>4, EmptyParts DEF LayoutUpdated, LayoutParts
  <2>6. asked.constraints = OrElse(rq.row.constraints, EmptyLayout.constraints)
    BY EmptyParts DEF LayoutCreated, LayoutUpdated
  <2> HIDE DEF P, N, O, asked
  <2>7. CASE rq.row.constraints = None
    <3>1. Rows(N) \subseteq Rows(O) /\ \A l \in Rows(N) : N[l].constraints = O[l].constraints
      BY <2>3, <2>5, <2>7 DEF OrElse
    <3> QED BY <3>1, <1>2, SameConstraints DEF N
  <2>8. CASE rq.row.constraints # None
    <3>1. Rows(N) \subseteq Rows(P) /\ \A l \in Rows(N) : N[l].constraints = P[l].constraints
      BY <2>2, <2>3, <2>5, <2>6, <2>8 DEF OrElse
    <3> QED BY <3>1, <2>1, SameConstraints DEF N
  <2> QED BY <2>7, <2>8
<1> QED BY <1>1, <1>3, <1>4, <1>5, <1>6 DEF Operations

\* What is misbuilt of a layout only depends on its parts.
LEMMA SameParts ==
    ASSUME NEW l, NEW k, l.disks = k.disks, l.raids = k.raids, l.vgs = k.vgs, l.lvs = k.lvs, l.filesystems = k.filesystems
    PROVE  Misbuilt(l) <=> Misbuilt(k)
BY DEF Misbuilt, RaidInvalid, VolumeGroupDevices, LogicalVolumeInvalid, FilesystemInvalid, Provided, ProvidedByDisks,
       RaidsBefore, GroupOf

LEMMA WriteBuilt ==
    ASSUME Typed, LayoutsBuilt, NEW rq, WriteOK(rq), Rewritten(rq),
           mishap' = mishap \cup (If(Refused(rq), "stale") \cup Unsound(rq))
    PROVE  LayoutsBuilt'
<1> SUFFICES ASSUME "partial" \notin mishap', NEW i \in Rows(table'["layout"]) PROVE ~Misbuilt(table'["layout"][i])
  BY DEF LayoutsBuilt
<1> DEFINE given == rq.row
           asked == LayoutCreated(given)
           Parts == {"disks", "raids", "vgs", "lvs", "filesystems"}
<1>1. "partial" \notin Unsound(rq) /\ rq.op \in Operations
  BY DEF If, WriteOK, WellFormed
<1>2. \A l \in Rows(table["layout"]) : ~Misbuilt(table["layout"][l])
  BY DEF LayoutsBuilt
<1>3. CASE rq.kind # "layout"
  <2>1. table'["layout"] = table["layout"]
    BY <1>3 DEF Rewritten, Kinds
  <2> QED BY <2>1, <1>2
<1>4. CASE rq.kind = "layout" /\ i # rq.id
  <2>1. i \in Rows(table["layout"]) /\ table'["layout"][i] = table["layout"][i]
    BY <1>4, <1>1 DEF Rewritten, Operations
  <2> QED BY <2>1, <1>2
<1>5. CASE rq.kind = "layout" /\ i = rq.id
  <2>1. rq.op \in {"create", "update"}
    BY <1>5, <1>1 DEF Rewritten, Operations
  <2>2. ~Misbuilt(asked)
    BY <1>5, <2>1 DEF WriteOK, Misbuilt, LayoutInvalid
  <2>3. CASE rq.op = "create"
    <3>1. table'["layout"][i] = asked
      BY <1>5, <2>3, LayoutBecomes DEF Rewritten
    <3> QED BY <3>1, <2>2
  <2>4. CASE rq.op = "update"
    <3> DEFINE old == table["layout"][i]
               new == LayoutUpdated(old, given)
    <3>1. i \in Rows(table["layout"]) /\ table'["layout"][i] = new
      BY <1>5, <2>4, LayoutBecomes DEF Rewritten
    <3>2. DOMAIN old = Parts \cup {"constraints"}
      BY <3>1, EmptyParts DEF Typed, TableTyped, LayoutParts
    <3>3. \A f, g \in Parts : given[f] = None => given[g] = None
      <4>1. \A f, g \in DOMAIN EmptyLayout \ {"constraints"} : given[f] = None => given[g] = None
        BY <1>1, <1>5, <2>4 DEF Unsound, If
      <4> QED BY <4>1, EmptyParts
    <3>4. \A f \in Parts : new[f] = (IF given[f] = None THEN old[f] ELSE given[f])
      BY <3>2 DEF LayoutUpdated, OrElse
    <3>5. \A f \in Parts : asked[f] = (IF given[f] = None THEN EmptyLayout[f] ELSE given[f])
      BY EmptyParts DEF LayoutCreated, LayoutUpdated, OrElse
    <3> HIDE DEF new, asked, old
    <3>6. CASE given["disks"] = None
      <4>1. \A f \in Parts : new[f] = old[f]
        BY <3>3, <3>4, <3>6
      <4>2. ~Misbuilt(old)
        BY <3>1, <1>2 DEF old
      <4> QED BY <4>1, <4>2, <3>1, SameParts
    <3>7. CASE given["disks"] # None
      <4>1. \A f \in Parts : new[f] = asked[f]
        BY <3>3, <3>4, <3>5, <3>7
      <4> QED BY <4>1, <2>2, <3>1, SameParts
    <3> QED BY <3>6, <3>7
  <2> QED BY <2>1, <2>3, <2>4
<1> QED BY <1>3, <1>4, <1>5

-----------------------------------------------------------------------------
(* The other actions.                                                      *)

\* The most recent of some images is one of them.
LEMMA MostRecentIn ==
    ASSUME NEW S \in SUBSET Ids["image"], MostRecent(S) # None
    PROVE  MostRecent(S) \in S
<1>1. S # {} /\ MostRecent(S) = CHOOSE i \in S : \A j \in S : j[2] <= i[2]
  BY DEF MostRecent
<1>2. IsFiniteSet(S)
  BY ImageAssumption, FS_Subset
<1> DEFINE f == [i \in S |-> i[2]]
<1>3. \A i \in S : f[i] \in Int /\ f[i] = i[2]
  BY ImageAssumption
<1> HIDE DEF f
<1>4. PICK i \in S : \A j \in S : f[j] <= f[i]
  BY <1>1, <1>2, <1>3, Greatest
<1>5. \A j \in S : j[2] <= i[2]
  BY <1>3, <1>4
<1> QED BY <1>1, <1>5

\* An image that is found is one of the catalog, of the operating system, class and version that are asked for.
LEMMA FoundImage ==
    ASSUME Typed, NEW request, NEW classes, MostRecentImageFor(request, classes, table.image) # None
    PROVE  LET i == MostRecentImageFor(request, classes, table.image)
           IN  i \in Ids["image"] /\ i[1] = request[1] /\ Satisfies(i[2], Requested(request))
<1> DEFINE S == {i \in Rows(table.image) : /\ i[1] = request[1]
                                          /\ table.image[i].class \in classes
                                          /\ Satisfies(i[2], Requested(request))}
<1>1. Rows(table["image"]) \subseteq Ids["image"]
  BY DEF Typed, TableTyped, Complete, Kinds
<1>2. S \in SUBSET Ids["image"]
  BY <1>1
<1>3. MostRecentImageFor(request, classes, table.image) = MostRecent(S)
  BY DEF MostRecentImageFor
<1> HIDE DEF S
<1>4. MostRecent(S) \in S
  BY <1>2, <1>3, MostRecentIn
<1> QED BY <1>2, <1>3, <1>4 DEF S

\* Whoever asks for an image in full asks for one that is there when the request is validated.
LEMMA FullImage ==
    ASSUME Typed, NEW spec, SpecOK(spec), ValidatedImage(spec) # None, Patch(spec.image[2]) > 0
    PROVE  spec.image \in Ids["image"]
<1> DEFINE i == ValidatedImage(spec)
<1>1. i \in Ids["image"] /\ i[1] = spec.image[1] /\ Satisfies(i[2], Requested(spec.image))
  BY FoundImage DEF ValidatedImage
<1> HIDE DEF i
<1>2. i[2] = spec.image[2]
  BY <1>1 DEF Satisfies, Requested
<1>3. i = <<i[1], i[2]>>
  BY <1>1, ImageAssumption
<1>4. spec.image = <<spec.image[1], spec.image[2]>>
  BY DEF SpecOK
<1>5. i = spec.image
  BY <1>1, <1>2, <1>3, <1>4
<1> QED BY <1>1, <1>5

LEMMA BootImage ==
    ASSUME Typed, NEW spec, Patch(spec.image[2]) > 0 => spec.image \in Ids["image"], ImageToBoot(spec) # None
    PROVE  ImageToBoot(spec) \in Ids["image"]
BY FoundImage DEF ImageToBoot

\* The size of hardware is one of the catalog, or unknown (sizeRepository.FromHardware).
LEMMA SizeFound ==
    ASSUME NEW sizes, NEW hw
    PROVE  FromHardware(sizes, hw) \in Rows(sizes) \cup {Unknown}
<1> DEFINE fitting == {s \in Rows(sizes) : sizes[s].constraints # {} /\ Fits(sizes[s].constraints, hw)}
<1>1. FromHardware(sizes, hw) = IF Cardinality(fitting) = 1 THEN CHOOSE s \in fitting : TRUE ELSE Unknown
  BY DEF FromHardware
<1>2. fitting = {} => Cardinality(fitting) # 1
  BY FS_EmptySet
<1>3. fitting \subseteq Rows(sizes)
  OBVIOUS
<1> HIDE DEF fitting
<1> QED BY <1>1, <1>2, <1>3

\* A machine is replaced by one of the same name that is well formed.
LEMMA ReplaceTyped ==
    ASSUME Registrations(machines), NEW m \in machines, NEW n \in Machine, Replace(m, n), n.id = m.id,
           n.pre => n.alloc = None
    PROVE  Registrations(machines')
BY DEF Registrations, Replace

\* A machine of which one field changes, or several.
LEMMA MachineFields ==
    ASSUME NEW m \in Machine
    PROVE  /\ [m EXCEPT !.pre = TRUE] \in Machine
           /\ [m EXCEPT !.alive = FALSE] \in Machine
           /\ \A state \in States : [m EXCEPT !.state = state] \in Machine
           /\ [m EXCEPT !.alloc = None] \in Machine
           /\ \A a : a \in [project : Projects, role : {"machine", "firewall"}, image : Ids["image"], layout : Ids["layout"]] =>
                 [m EXCEPT !.pre = FALSE, !.tags = {m.rack}, !.alloc = a] \in Machine
BY DEF Machine

\* Nothing but the calls and what is left to do changes.
Quiet == UNCHANGED <<table, machines, mishap>>

LEMMA QuietInv ==
    ASSUME Inv, Quiet, AskedFor', PendingTyped', SizeKept'
    PROVE  Inv'
BY DEF Inv, Typed, Quiet, TableTyped, Referred, SizesApart, LayoutsApart, LayoutsBuilt

LEMMA AskInv ==
    ASSUME Inv, NEW c \in Calls, Ask(c)
    PROVE  Inv'
<1>0. PICK kind \in Kinds : \E asked \in ops.requests[kind] :
         LET rq == [kind |-> kind, op |-> asked.op, id |-> asked.id, row |-> asked.row]
         IN  /\ ~Refused(rq)
             /\ Begin(c, [pc |-> "write", rq |-> rq, row |-> IF rq.op = "create" THEN None ELSE table[kind][rq.id]])
  BY DEF Ask
<1>1. PICK asked \in ops.requests[kind] :
         LET rq == [kind |-> kind, op |-> asked.op, id |-> asked.id, row |-> asked.row]
         IN  /\ ~Refused(rq)
             /\ Begin(c, [pc |-> "write", rq |-> rq, row |-> IF rq.op = "create" THEN None ELSE table[kind][rq.id]])
  BY <1>0
<1> DEFINE rq == [kind |-> kind, op |-> asked.op, id |-> asked.id, row |-> asked.row]
           state == [pc |-> "write", rq |-> rq, row |-> IF rq.op = "create" THEN None ELSE table[kind][rq.id]]
<1>2. ~Refused(rq) /\ Begin(c, state)
  BY <1>1
<1>3. rq.kind = kind /\ rq.op = asked.op /\ rq.id = asked.id /\ rq.row = asked.row
  OBVIOUS
<1>4. WellFormed(kind, asked)
  BY DEF Inv, Typed, AskedFor
<1>5. state.pc = "write" /\ state.rq = rq
  OBVIOUS
<1> HIDE DEF rq, state
<1>6. WellFormed(rq.kind, rq)
  BY <1>3, <1>4 DEF WellFormed
<1>7. rq.kind = "image" /\ rq.op = "create" => rq.row.features # None
  BY <1>2 DEF Refused, ImageRequestRefused
<1>8. rq.kind = "layout" /\ rq.op # "delete" => ~LayoutInvalid(LayoutCreated(rq.row))
  BY <1>2 DEF Refused, LayoutRefused
<1>9. rq.kind = "reservation" /\ rq.op = "create" => rq.row.amount # None /\ rq.row.project \in Projects
  BY <1>2 DEF Refused, ReservationRefused
<1>10. WriteOK(rq)
  BY <1>3, <1>6, <1>7, <1>8, <1>9 DEF WriteOK
<1>11. CallOK(state)
  BY <1>5, <1>10 DEF CallOK
<1>12. Quiet
  BY DEF Ask, Quiet
<1>13. AskedFor' /\ Become(c, state)
  BY <1>2, BeginTyped DEF Inv, Typed
<1>14. PendingTyped'
  BY <1>11, <1>13, BecomeTyped DEF Inv, Typed
<1>15. SizeKept'
  BY <1>5, <1>12, <1>13, BecomeKept DEF Inv, Typed, Quiet
<1> QED BY <1>12, <1>13, <1>14, <1>15, QuietInv

LEMMA AllocateInv ==
    ASSUME Inv, NEW c \in Calls, Allocate(c)
    PROVE  Inv'
<1>1. PICK spec \in ops.allocate :
         AllocationValid(spec) /\ Begin(c, [pc |-> "pick", spec |-> spec, image |-> ValidatedImage(spec)])
  BY DEF Allocate
<1> DEFINE state == [pc |-> "pick", spec |-> spec, image |-> ValidatedImage(spec)]
<1>2. state.pc = "pick" /\ state.spec = spec /\ Begin(c, state)
  BY <1>1
<1> HIDE DEF state
<1>3. SpecOK(spec) /\ ValidatedImage(spec) # None
  BY <1>1 DEF Inv, Typed, AskedFor, AllocationValid
<1>4. CallOK(state)
  BY <1>2, <1>3, FullImage DEF CallOK, Inv
<1>5. Quiet
  BY DEF Allocate, Quiet
<1>6. AskedFor' /\ Become(c, state)
  BY <1>2, BeginTyped DEF Inv, Typed
<1>7. PendingTyped'
  BY <1>4, <1>6, BecomeTyped DEF Inv, Typed
<1>8. SizeKept'
  BY <1>2, <1>5, <1>6, BecomeKept DEF Inv, Typed, Quiet
<1> QED BY <1>5, <1>6, <1>7, <1>8, QuietInv

LEMMA RegisterInv ==
    ASSUME Inv, NEW c \in Calls, Register(c)
    PROVE  Inv'
<1>1. PICK r \in ops.register : Begin(c, [pc |-> "register", who |-> r, size |-> FromHardware(table.size, r.hw)])
  BY DEF Register
<1> DEFINE state == [pc |-> "register", who |-> r, size |-> FromHardware(table.size, r.hw)]
<1>2. state.pc = "register" /\ state.who = r /\ state.size = FromHardware(table.size, r.hw) /\ Begin(c, state)
  BY <1>1
<1> HIDE DEF state
<1>3. WhoOK(r)
  BY DEF Inv, Typed, AskedFor
<1>4. Rows(table["size"]) \subseteq Ids["size"]
  BY DEF Inv, Typed, TableTyped, Complete, Kinds
<1>5. state.size \in Ids["size"] \cup {Unknown}
  BY <1>2, <1>4, SizeFound
<1>6. CallOK(state)
  BY <1>2, <1>3, <1>5 DEF CallOK
<1>7. Quiet
  BY DEF Register, Quiet
<1>8. AskedFor' /\ Become(c, state)
  BY <1>2, BeginTyped DEF Inv, Typed
<1>9. PendingTyped'
  BY <1>6, <1>8, BecomeTyped DEF Inv, Typed
<1>10. SizeKept'
  BY <1>2, <1>7, <1>8, BecomeKept DEF Inv, Typed, Quiet
<1> QED BY <1>7, <1>8, <1>9, <1>10, QuietInv

LEMMA FailInv ==
    ASSUME Inv, NEW c \in Calls, Fail(c)
    PROVE  Inv'
<1>1. Become(c, Idle) /\ Quiet /\ ops' = ops
  BY DEF Fail, Quiet
<1>2. AskedFor'
  BY <1>1 DEF Inv, Typed, AskedFor
<1>3. PendingTyped'
  BY <1>1, IdleOK, BecomeTyped DEF Inv, Typed
<1>4. SizeKept'
  BY <1>1, BecomeKept DEF Inv, Typed, Quiet, Idle
<1> QED BY <1>1, <1>2, <1>3, <1>4, QuietInv

LEMMA UnsoundKnown ==
    ASSUME NEW rq
    PROVE  Unsound(rq) \subseteq Mishaps /\ "stale" \in Mishaps
BY DEF Unsound, If, Mishaps

LEMMA WriteInv ==
    ASSUME Inv, NEW c \in Calls, Write(c)
    PROVE  Inv'
<1>1. PICK rq : rq = call[c].rq
  OBVIOUS
<1>2. /\ WriteOK(rq)
      /\ Rewritten(rq)
      /\ mishap' = mishap \cup (If(Refused(rq), "stale") \cup Unsound(rq))
      /\ machines' = machines /\ ops' = ops /\ Become(c, Idle)
  BY <1>1, WriteTable DEF Inv
<1>3. TableTyped' /\ Referred' /\ SizesApart' /\ LayoutsApart' /\ LayoutsBuilt'
  BY <1>2, WriteTyped, WriteInUse, WriteSizes, WriteLayouts, WriteBuilt DEF Inv
<1>4. Registrations(machines')
  BY <1>2 DEF Inv, Typed
<1>5. mishap' \subseteq Mishaps
  BY <1>2, UnsoundKnown DEF Inv, Typed, If
<1>6. AskedFor'
  BY <1>2 DEF Inv, Typed, AskedFor
<1>7. PendingTyped'
  BY <1>2, IdleOK, BecomeTyped DEF Inv, Typed
<1>8. SizeKept'
  <2>1. DOMAIN call = Calls
    BY DEF Inv, Typed, PendingTyped
  <2> QED BY <1>2, <2>1 DEF Inv, SizeKept, Become, Idle
<1> QED BY <1>3, <1>4, <1>5, <1>6, <1>7, <1>8 DEF Inv, Typed

\* A machine that changes, and still refers to what is there.
LEMMA ReplaceRefer ==
    ASSUME Refer(table, machines), NEW m \in machines, NEW n, Replace(m, n), table' = table,
           n.partition = m.partition, n.size = m.size,
           n.alloc # None => n.alloc.image \in Rows(table.image) /\ n.alloc.layout \in Rows(table.layout)
    PROVE  Refer(table', machines')
<1>1. machines' = (machines \ {m}) \cup {n}
  BY DEF Replace
<1>2. n.partition \in Rows(table.partition) /\ (n.size # Unknown => n.size \in Rows(table.size))
  BY DEF Refer
<1> QED BY <1>1, <1>2 DEF Refer

\* A machine that changes, but not its size, is still the one that was picked.
LEMMA ReplaceKept ==
    ASSUME SizeKept, NEW m \in machines, NEW n, Replace(m, n), n.id = m.id, n.size = m.size, call' = call,
           "restocked" \in mishap => "restocked" \in mishap'
    PROVE  SizeKept'
BY DEF SizeKept, Replace

\* What stays of the invariant while the table does.
LEMMA TableKept ==
    ASSUME Inv, table' = table, mishap \subseteq mishap', mishap' \subseteq Mishaps,
           Registrations(machines'), AskedFor', PendingTyped', Referred', SizeKept'
    PROVE  Inv'
BY DEF Inv, Typed, TableTyped, SizesApart, LayoutsApart, LayoutsBuilt

LEMMA AskedStays ==
    ASSUME AskedFor, ops' = ops \/ ops' = [ops EXCEPT !.left = @ - 1]
    PROVE  AskedFor'
BY DEF AskedFor

\* The machine that is taken waits, and is of the size that is asked for (machineRepository.findWaitingMachine).
LEMMA WinnerWaits ==
    ASSUME NEW spec, NEW m \in Winners(spec)
    PROVE  m \in machines /\ m.alloc = None /\ m.size = spec.size
BY DEF Winners, SpreadAcrossRacks, Alive, Candidates, StockOf

LEMMA PickInv ==
    ASSUME Inv, NEW c \in Calls, Pick(c)
    PROVE  Inv'
<1> DEFINE spec == call[c].spec
           image == ImageToBoot(spec)
<1>1. PICK l \in LayoutsToUse(spec, image), m \in Winners(spec) :
         /\ Replace(m, [m EXCEPT !.pre = TRUE])
         /\ Become(c, [pc |-> "commit", spec |-> spec, image |-> image,
                       layout |-> l, content |-> table.layout[l], machine |-> m.id])
  BY DEF Pick
<1> DEFINE state == [pc |-> "commit", spec |-> spec, image |-> image,
                     layout |-> l, content |-> table.layout[l], machine |-> m.id]
<1>2. /\ call[c].pc = "pick" /\ image # None /\ table' = table /\ ops' = ops
      /\ mishap \subseteq mishap' /\ mishap' \subseteq mishap \cup {"stale", "unqualified", "parallel"}
  BY DEF Pick, Note, If
<1>3. SpecOK(spec) /\ (Patch(spec.image[2]) > 0 => spec.image \in Ids["image"])
  BY <1>2 DEF Inv, Typed, PendingTyped, CallOK
<1>4. image \in Ids["image"]
  BY <1>2, <1>3, BootImage DEF Inv
<1>5. l \in Ids["layout"]
  <2>1. l \in Rows(table["layout"])
    BY DEF LayoutsToUse, LayoutsFor
  <2> QED BY <2>1 DEF Inv, Typed, TableTyped, Complete, Kinds
<1>6. m \in machines /\ m.alloc = None /\ m.size = spec.size
  BY WinnerWaits
<1>7. /\ state.pc = "commit" /\ state.spec = spec /\ state.image = image /\ state.layout = l /\ state.machine = m.id
      /\ Become(c, state)
  BY <1>1
<1> HIDE DEF state, image
<1>8. CallOK(state)
  BY <1>3, <1>4, <1>5, <1>7 DEF CallOK
<1>9. PendingTyped'
  BY <1>7, <1>8, BecomeTyped DEF Inv, Typed
<1>10. AskedFor'
  BY <1>2, AskedStays DEF Inv, Typed
<1> DEFINE n == [m EXCEPT !.pre = TRUE]
<1>11. m \in Machine /\ n \in Machine
  BY <1>6, MachineFields DEF Inv, Typed, Registrations
<1>12. n.id = m.id /\ n.size = m.size /\ n.partition = m.partition /\ n.alloc = None
  BY <1>6, <1>11 DEF Machine
<1>13. Replace(m, n)
  BY <1>1
<1> HIDE DEF n
<1>14. Registrations(machines')
  BY <1>6, <1>11, <1>12, <1>13, ReplaceTyped DEF Inv, Typed
<1>15. Referred'
  <2> SUFFICES ASSUME "stale" \notin mishap' PROVE Refer(table', machines')
    BY DEF Referred
  <2>1. Refer(table, machines)
    BY <1>2 DEF Inv, Referred
  <2> QED BY <2>1, <1>2, <1>6, <1>12, <1>13, ReplaceRefer
<1>16. SizeKept'
  <2> SUFFICES ASSUME "restocked" \notin mishap', NEW d \in Calls, call'[d].pc = "commit",
                      NEW w \in machines', w.id = call'[d].machine
               PROVE  w.size = call'[d].spec.size
    BY DEF SizeKept
  <2>1. (w \in machines /\ w # m) \/ w = n
    BY <1>13 DEF Replace
  <2>2. CASE d = c
    <3>1. call'[d] = state
      BY <2>2, <1>7 DEF Become, Inv, Typed, PendingTyped
    <3>2. w.id = m.id
      BY <3>1, <1>7
    <3>3. w = n
      BY <2>1, <3>2, <1>6 DEF Inv, Typed, Registrations
    <3> QED BY <3>1, <3>3, <1>6, <1>7, <1>12
  <2>3. CASE d # c
    <3>1. call'[d] = call[d]
      BY <2>3, <1>7 DEF Become
    <3>2. "restocked" \notin mishap
      BY <1>2
    <3> QED BY <3>1, <3>2, <2>1, <1>6, <1>12 DEF Inv, SizeKept
  <2> QED BY <2>2, <2>3
<1>17. mishap' \subseteq Mishaps
  BY <1>2 DEF Inv, Typed, Mishaps
<1> QED BY <1>2, <1>9, <1>10, <1>14, <1>15, <1>16, <1>17, TableKept

\* What a machine becomes when its allocation is written, and which machine that is.
LEMMA CommitInv ==
    ASSUME Inv, NEW c \in Calls, Commit(c)
    PROVE  Inv'
<1> DEFINE k == call[c]
           a == [project |-> k.spec.project, role |-> k.spec.role, image |-> k.image, layout |-> k.layout]
<1>1. PICK m \in machines : Replace(m, [m EXCEPT !.pre = FALSE, !.tags = {m.rack}, !.alloc = a])
  BY DEF Commit
<1>2. /\ k.pc = "commit" /\ table' = table /\ ops' = ops /\ Become(c, Idle)
      /\ mishap' = mishap \cup If(Outdated(k), "stale")
  BY DEF Commit, Note
<1>3. SpecOK(k.spec) /\ k.image \in Ids["image"] /\ k.layout \in Ids["layout"]
  BY <1>2 DEF Inv, Typed, PendingTyped, CallOK
<1>4. /\ a \in [project : Projects, role : {"machine", "firewall"}, image : Ids["image"], layout : Ids["layout"]]
      /\ a.image = k.image /\ a.layout = k.layout
  BY <1>3 DEF SpecOK
<1> DEFINE n == [m EXCEPT !.pre = FALSE, !.tags = {m.rack}, !.alloc = a]
<1> HIDE DEF a
<1>5. m \in Machine /\ n \in Machine
  BY <1>4, MachineFields DEF Inv, Typed, Registrations
<1>6. n.id = m.id /\ n.size = m.size /\ n.partition = m.partition /\ n.alloc = a /\ n.pre = FALSE
  BY <1>5 DEF Machine
<1>7. Replace(m, n)
  BY <1>1
<1> HIDE DEF n
<1>8. Registrations(machines')
  BY <1>5, <1>6, <1>7, ReplaceTyped DEF Inv, Typed
<1>9. PendingTyped' /\ AskedFor'
  BY <1>2, IdleOK, BecomeTyped, AskedStays DEF Inv, Typed
<1>10. Referred'
  <2> SUFFICES ASSUME "stale" \notin mishap' PROVE Refer(table', machines')
    BY DEF Referred
  <2>1. Refer(table, machines) /\ ~Outdated(k)
    BY <1>2 DEF Inv, Referred, If
  <2>2. k.image \in Rows(table.image) /\ k.layout \in Rows(table.layout)
    BY <2>1 DEF Outdated, Exists
  <2> QED BY <2>1, <2>2, <1>2, <1>4, <1>6, <1>7, ReplaceRefer
<1>11. SizeKept'
  <2> SUFFICES ASSUME "restocked" \notin mishap', NEW d \in Calls, call'[d].pc = "commit",
                      NEW w \in machines', w.id = call'[d].machine
               PROVE  w.size = call'[d].spec.size
    BY DEF SizeKept
  <2>1. d # c /\ call'[d] = call[d]
    BY <1>2 DEF Become, Idle, Inv, Typed, PendingTyped
  <2>2. w \in machines \/ w = n
    BY <1>7 DEF Replace
  <2> QED BY <2>1, <2>2, <1>2, <1>6 DEF Inv, SizeKept
<1>12. mishap' \subseteq Mishaps
  BY <1>2 DEF Inv, Typed, Mishaps, If
<1> QED BY <1>2, <1>8, <1>9, <1>10, <1>11, <1>12, TableKept

\* A machine that registers again keeps what it was allocated for.
LEMMA RegisteredInv ==
    ASSUME Inv, NEW c \in Calls, Registered(c)
    PROVE  Inv'
<1> DEFINE k == call[c]
           here == {m \in machines : m.id = k.who.id}
           unknown == [alive |-> TRUE, state |-> "available", pre |-> FALSE, alloc |-> None, tags |-> {}]
           old == IF here = {} THEN unknown ELSE CHOOSE m \in here : TRUE
           n == [id |-> k.who.id, rack |-> k.who.rack, partition |-> k.who.partition, hw |-> k.who.hw,
                 size |-> k.size, alive |-> old.alive, state |-> old.state, pre |-> old.pre, alloc |-> old.alloc, tags |-> old.tags]
<1>1. /\ k.pc = "register" /\ machines' = (machines \ here) \cup {n} /\ table' = table /\ ops' = ops /\ Become(c, Idle)
      /\ mishap' = mishap \cup ({"restocked"} \cup If(k.size # FromHardware(table.size, k.who.hw), "stale")
                                \cup If(~Exists("partition", k.who.partition), "stale"))
  BY DEF Registered, Note
<1>2. WhoOK(k.who) /\ k.size \in Ids["size"] \cup {Unknown}
  BY <1>1 DEF Inv, Typed, PendingTyped, CallOK
<1>3. here # {} => old \in machines
  OBVIOUS
<1>4. /\ old.alive \in BOOLEAN /\ old.state \in States /\ old.pre \in BOOLEAN /\ old.tags \in SUBSET STRING
      /\ old.alloc \in [project : Projects, role : {"machine", "firewall"}, image : Ids["image"], layout : Ids["layout"]] \cup {None}
      /\ old.pre => old.alloc = None
  <2>1. CASE here = {}
    BY <2>1 DEF States
  <2>2. CASE here # {}
    <3>1. old \in Machine /\ (old.pre => old.alloc = None)
      BY <2>2, <1>3 DEF Inv, Typed, Registrations
    <3> HIDE DEF old
    <3> QED BY <3>1 DEF Machine
  <2> QED BY <2>1, <2>2
<1>5. n \in Machine /\ (n.pre => n.alloc = None)
  <2> HIDE DEF old
  <2> QED BY <1>2, <1>4 DEF WhoOK, Machine
<1>6. /\ n.id = k.who.id /\ n.partition = k.who.partition /\ n.size = k.size /\ n.alloc = old.alloc
  OBVIOUS
<1>7. Registrations(machines')
  <2> HIDE DEF n
  <2> QED BY <1>1, <1>5, <1>6 DEF Inv, Typed, Registrations
<1>8. PendingTyped' /\ AskedFor'
  BY <1>1, IdleOK, BecomeTyped, AskedStays DEF Inv, Typed
<1>9. Referred'
  <2> SUFFICES ASSUME "stale" \notin mishap' PROVE Refer(table', machines')
    BY DEF Referred
  <2>1. /\ Refer(table, machines)
        /\ k.size = FromHardware(table.size, k.who.hw)
        /\ k.who.partition \in Rows(table.partition)
    BY <1>1 DEF Inv, Referred, If, Exists
  <2>2. k.size # Unknown => k.size \in Rows(table.size)
    BY <2>1, SizeFound
  <2>3. old.alloc # None => old.alloc.image \in Rows(table.image) /\ old.alloc.layout \in Rows(table.layout)
    <3>1. CASE here = {}
      BY <3>1
    <3>2. CASE here # {}
      BY <3>2, <1>3, <2>1 DEF Refer
    <3> QED BY <3>1, <3>2
  <2> HIDE DEF n, old
  <2>4. \A m \in machines' : m \in machines \/ m = n
    BY <1>1
  <2> QED BY <2>1, <2>2, <2>3, <2>4, <1>1, <1>6 DEF Refer
<1>10. SizeKept'
  BY <1>1 DEF SizeKept
<1>11. mishap' \subseteq Mishaps /\ mishap \subseteq mishap'
  BY <1>1 DEF Inv, Typed, Mishaps, If
<1> QED BY <1>1, <1>7, <1>8, <1>9, <1>10, <1>11, TableKept

LEMMA FreeInv ==
    ASSUME Inv, Free
    PROVE  Inv'
<1>1. PICK m \in machines : Replace(m, [m EXCEPT !.alloc = None])
  BY DEF Free
<1>2. /\ table' = table /\ call' = call /\ ops' = [ops EXCEPT !.left = @ - 1]
      /\ mishap' = mishap \cup {"restocked"}
  BY DEF Free, Note
<1> DEFINE n == [m EXCEPT !.alloc = None]
<1>3. m \in Machine /\ n \in Machine
  BY MachineFields DEF Inv, Typed, Registrations
<1>4. n.id = m.id /\ n.size = m.size /\ n.partition = m.partition /\ n.alloc = None
  BY <1>3 DEF Machine
<1> HIDE DEF n
<1>5. Replace(m, n)
  BY <1>1 DEF n
<1>6. Registrations(machines')
  BY <1>3, <1>4, <1>5, ReplaceTyped DEF Inv, Typed
<1>7. PendingTyped' /\ AskedFor'
  <2>1. PendingTyped'
    BY <1>2 DEF Inv, Typed, PendingTyped
  <2> QED BY <2>1, <1>2, AskedStays DEF Inv, Typed
<1>8. Referred'
  BY <1>2, <1>4, <1>5, ReplaceRefer DEF Inv, Referred
<1>9. SizeKept'
  BY <1>2 DEF SizeKept
<1>10. mishap' \subseteq Mishaps /\ mishap \subseteq mishap'
  BY <1>2 DEF Inv, Typed, Mishaps
<1> QED BY <1>2, <1>6, <1>7, <1>8, <1>9, <1>10, TableKept

LEMMA DieInv ==
    ASSUME Inv, Die
    PROVE  Inv'
<1>1. PICK m \in machines : Replace(m, [m EXCEPT !.alive = FALSE])
  BY DEF Die
<1>2. table' = table /\ call' = call /\ ops' = [ops EXCEPT !.left = @ - 1] /\ mishap' = mishap
  BY DEF Die
<1> DEFINE n == [m EXCEPT !.alive = FALSE]
<1>3. m \in Machine /\ n \in Machine /\ (m.pre => m.alloc = None)
  BY MachineFields DEF Inv, Typed, Registrations
<1>4. n.id = m.id /\ n.size = m.size /\ n.partition = m.partition /\ n.alloc = m.alloc /\ n.pre = m.pre
  BY <1>3 DEF Machine
<1> HIDE DEF n
<1>5. Replace(m, n)
  BY <1>1 DEF n
<1>6. Registrations(machines')
  BY <1>3, <1>4, <1>5, ReplaceTyped DEF Inv, Typed
<1>7. PendingTyped' /\ AskedFor'
  <2>1. PendingTyped'
    BY <1>2 DEF Inv, Typed, PendingTyped
  <2> QED BY <2>1, <1>2, AskedStays DEF Inv, Typed
<1>8. Referred'
  <2>1. Refer(table, machines) => (m.alloc # None => m.alloc.image \in Rows(table.image) /\ m.alloc.layout \in Rows(table.layout))
    BY DEF Refer
  <2> QED BY <2>1, <1>2, <1>4, <1>5, ReplaceRefer DEF Inv, Referred
<1>9. SizeKept'
  BY <1>2, <1>4, <1>5, ReplaceKept DEF Inv
<1> QED BY <1>2, <1>6, <1>7, <1>8, <1>9, TableKept DEF Inv, Typed

LEMMA SetStateInv ==
    ASSUME Inv, NEW c \in Calls, SetState(c)
    PROVE  Inv'
<1>1. PICK m \in machines, s \in States : Begin(c, [pc |-> "mark", who |-> m.id, state |-> s])
  BY DEF SetState
<1> DEFINE next == [pc |-> "mark", who |-> m.id, state |-> s]
<1>2. next.pc = "mark" /\ next.state \in States /\ Begin(c, next)
  BY <1>1
<1> HIDE DEF next
<1>3. CallOK(next)
  BY <1>2 DEF CallOK
<1>4. Quiet
  BY DEF SetState, Quiet
<1>5. AskedFor' /\ Become(c, next)
  BY <1>2, BeginTyped DEF Inv, Typed
<1>6. PendingTyped'
  BY <1>3, <1>5, BecomeTyped DEF Inv, Typed
<1>7. SizeKept'
  BY <1>2, <1>4, <1>5, BecomeKept DEF Inv, Typed, Quiet
<1> QED BY <1>4, <1>5, <1>6, <1>7, QuietInv

\* A machine that is locked, tainted or made available keeps everything else.
LEMMA MarkedInv ==
    ASSUME Inv, NEW c \in Calls, Marked(c)
    PROVE  Inv'
<1>1. PICK m \in machines : Replace(m, [m EXCEPT !.state = call[c].state])
  BY DEF Marked
<1>2. /\ table' = table /\ ops' = ops /\ Become(c, Idle) /\ call[c].pc = "mark"
      /\ mishap' = mishap \cup If(call[c].state = "available", "restocked")
  BY DEF Marked, Note
<1> DEFINE n == [m EXCEPT !.state = call[c].state]
<1>3. m \in Machine /\ n \in Machine /\ (m.pre => m.alloc = None)
  <2>1. call[c].state \in States
    BY <1>2 DEF Inv, Typed, PendingTyped, CallOK
  <2> QED BY <2>1, MachineFields DEF Inv, Typed, Registrations
<1>4. n.id = m.id /\ n.size = m.size /\ n.partition = m.partition /\ n.alloc = m.alloc /\ n.pre = m.pre
  BY <1>3 DEF Machine
<1> HIDE DEF n
<1>5. Replace(m, n)
  BY <1>1 DEF n
<1>6. Registrations(machines')
  BY <1>3, <1>4, <1>5, ReplaceTyped DEF Inv, Typed
<1>7. PendingTyped' /\ AskedFor'
  BY <1>2, IdleOK, BecomeTyped, AskedStays DEF Inv, Typed
<1>8. mishap' \subseteq Mishaps /\ mishap \subseteq mishap'
  BY <1>2 DEF Inv, Typed, Mishaps, If
<1>9. Referred'
  <2>1. Refer(table, machines) => (m.alloc # None => m.alloc.image \in Rows(table.image) /\ m.alloc.layout \in Rows(table.layout))
    BY DEF Refer
  <2> QED BY <2>1, <1>2, <1>4, <1>5, <1>8, ReplaceRefer DEF Inv, Referred
<1>10. SizeKept'
  <2>1. \A d \in Calls : call'[d].pc = "commit" => call'[d] = call[d]
    BY <1>2 DEF Become, Idle, Inv, Typed, PendingTyped
  <2> QED BY <2>1, <1>4, <1>5, <1>8 DEF SizeKept, Replace, Inv
<1> QED BY <1>2, <1>6, <1>7, <1>8, <1>9, <1>10, TableKept

\* Only what is written can take a partition away, and it is refused while the partition has networks.
LEMMA LocatedNext == Inv /\ Located /\ [Next]_vars => Located'
<1> SUFFICES ASSUME Inv, Located, [Next]_vars PROVE Located'
    OBVIOUS
<1>1. ASSUME ops' = ops \/ ops' = [ops EXCEPT !.left = @ - 1], table' = table, mishap \subseteq mishap' PROVE Located'
  <2>1. ops'.networks = ops.networks
    BY <1>1 DEF Inv, Typed, AskedFor
  <2> QED BY <1>1, <2>1 DEF Located
<1>2. ASSUME NEW c \in Calls, Write(c) PROVE Located'
  <2>1. PICK rq : rq = call[c].rq
    OBVIOUS
  <2>2. /\ WriteOK(rq) /\ Rewritten(rq) /\ ops' = ops
        /\ mishap' = mishap \cup (If(Refused(rq), "stale") \cup Unsound(rq))
    BY <1>2, <2>1, WriteTable DEF Inv
  <2> SUFFICES ASSUME "stale" \notin mishap', NEW p \in ops.networks PROVE p \in Rows(table'.partition)
      BY <2>2 DEF Located
  <2>3. p \in Rows(table["partition"]) /\ ~Refused(rq) /\ rq.op \in Operations /\ rq.kind \in Kinds
    BY <2>2 DEF Located, If, WriteOK, WellFormed
  <2> QED BY <2>2, <2>3 DEF Rewritten, Operations, Kinds, Refused, PartitionRefused
<1>3. ASSUME NEW c \in Calls, NEW state, Begin(c, state) PROVE ops' = [ops EXCEPT !.left = @ - 1]
  BY <1>3 DEF Begin
<1>4. ASSUME NEW c \in Calls, Ask(c) \/ Allocate(c) \/ Register(c) \/ SetState(c) PROVE Located'
  <2>1. table' = table /\ mishap' = mishap
    BY <1>4 DEF Ask, Allocate, Register, SetState
  <2>2. \E state : Begin(c, state)
    BY <1>4 DEF Ask, Allocate, Register, SetState
  <2> QED BY <1>1, <1>3, <2>1, <2>2
<1>5. ASSUME NEW c \in Calls, Pick(c) \/ Commit(c) \/ Fail(c) \/ Registered(c) \/ Marked(c) PROVE Located'
  <2>1. table' = table /\ ops' = ops /\ mishap \subseteq mishap'
    BY <1>5 DEF Pick, Commit, Fail, Registered, Marked, Note
  <2> QED BY <1>1, <2>1
<1>6. ASSUME Free \/ Die PROVE Located'
  <2>1. table' = table /\ ops' = [ops EXCEPT !.left = @ - 1] /\ mishap \subseteq mishap'
    BY <1>6 DEF Free, Die, Note
  <2> QED BY <1>1, <2>1
<1>7. ASSUME UNCHANGED vars PROVE Located'
  BY <1>1, <1>7 DEF vars
<1> QED BY <1>2, <1>4, <1>5, <1>6, <1>7 DEF Next

LEMMA NextInv == Inv /\ [Next]_vars => Inv'
<1> SUFFICES ASSUME Inv, [Next]_vars PROVE Inv'
    OBVIOUS
<1>1. CASE UNCHANGED vars
  BY <1>1 DEF vars, Inv, Typed, TableTyped, AskedFor, PendingTyped, Referred, SizesApart, LayoutsApart, LayoutsBuilt, SizeKept
<1> QED BY <1>1, AskInv, WriteInv, AllocateInv, PickInv, CommitInv, FailInv, RegisterInv, RegisteredInv, FreeInv, DieInv,
           SetStateInv, MarkedInv
        DEF Next

-----------------------------------------------------------------------------
(* What follows from the invariant.                                        *)

LEMMA InvUnique == Inv => OneSize
<1> SUFFICES ASSUME Inv, "stale" \notin mishap,
                    NEW s \in Rows(table.size), NEW t \in Rows(table.size), NEW hw \in Hardwares,
                    s # t, Comparable(table.size[s].constraints, table.size[t].constraints),
                    Fits(table.size[s].constraints, hw), Fits(table.size[t].constraints, hw)
             PROVE  FALSE
    BY DEF OneSize
<1>1. table.size[s].constraints \in SUBSET SizeConstraint /\ table.size[t].constraints \in SUBSET SizeConstraint
  BY DEF Inv, Typed, TableTyped, SizeRow
<1>2. Apart(table.size[s], table.size[t])
  BY DEF Inv, SizesApart
<1> QED BY <1>1, <1>2, SizeUnique DEF Apart

\* Versions are counted in patches of minor versions.
LEMMA VersionParts ==
    ASSUME NEW v \in Nat
    PROVE  v = 10 * Minor(v) + Patch(v) /\ Minor(v) \in Nat /\ Patch(v) \in 0..9
BY DEF Minor, Patch

\* Bounds from opposite sides that one version satisfies accept the version of the other (hasCollisions).
LEMMA BoundsMeet ==
    ASSUME NEW c, NEW d, c.v \in Nat, d.v \in Nat, NEW v \in Nat, Bounds(c, d), Satisfies(v, c), Satisfies(v, d)
    PROVE  Satisfies(d.v, c) /\ Satisfies(c.v, d)
<1> DEFINE x == c.v
           y == d.v
<1>1. /\ v = 10 * Minor(v) + Patch(v) /\ Minor(v) \in Nat /\ Patch(v) \in 0..9
      /\ x = 10 * Minor(x) + Patch(x) /\ Minor(x) \in Nat /\ Patch(x) \in 0..9
      /\ y = 10 * Minor(y) + Patch(y) /\ Minor(y) \in Nat /\ Patch(y) \in 0..9
  BY VersionParts
<1>2. /\ c.op \in {">=", "=>"} \/ c.op = ">"
      /\ d.op = "<" \/ d.op \in {"<=", "=<"}
      /\ d.op \in {"<=", "=<"} /\ Patch(y) = 0 /\ Minor(y) = Minor(x) => ~(y < x)
  BY DEF Bounds
<1>3. /\ c.op \in {">=", "=>"} => v >= x
      /\ c.op = ">" => v > x /\ ~(Patch(x) = 0 /\ Minor(v) = Minor(x))
      /\ d.op = "<" => v < y
      /\ d.op \in {"<=", "=<"} => v <= y \/ (Patch(y) = 0 /\ Minor(v) = Minor(y))
  BY <1>2 DEF Satisfies
<1> HIDE DEF x, y
<1> DEFINE mv == Minor(v)
           mx == Minor(x)
           my == Minor(y)
           pv == Patch(v)
           px == Patch(x)
           py == Patch(y)
<1>4. /\ v \in Nat /\ x \in Nat /\ y \in Nat
      /\ v = 10 * mv + pv /\ mv \in Nat /\ pv \in 0..9
      /\ x = 10 * mx + px /\ mx \in Nat /\ px \in 0..9
      /\ y = 10 * my + py /\ my \in Nat /\ py \in 0..9
  BY <1>1 DEF x, y
<1>5. /\ d.op \in {"<=", "=<"} /\ py = 0 /\ my = mx => ~(y < x)
      /\ c.op \in {">=", "=>"} => v >= x
      /\ c.op = ">" => v > x /\ ~(px = 0 /\ mv = mx)
      /\ d.op = "<" => v < y
      /\ d.op \in {"<=", "=<"} => v <= y \/ (py = 0 /\ mv = my)
  BY <1>2, <1>3 DEF x, y
<1> HIDE DEF mv, mx, my, pv, px, py
<1>6. CASE v <= y /\ (d.op = "<" => v < y)
  <2>1. /\ c.op \in {">=", "=>"} => y >= x
        /\ c.op = ">" => y > x /\ ~(px = 0 /\ my = mx)
        /\ d.op = "<" => x < y
        /\ d.op \in {"<=", "=<"} => x <= y
    BY <1>2, <1>4, <1>5, <1>6
  <2> QED BY <2>1, <1>2 DEF Satisfies, x, y, mx, my, px, py
<1>7. CASE d.op \in {"<=", "=<"} /\ py = 0 /\ mv = my /\ v > y
  <2>1. /\ c.op \in {">=", "=>"} => y >= x
        /\ c.op = ">" => y > x /\ ~(px = 0 /\ my = mx)
        /\ x <= y
    BY <1>2, <1>4, <1>5, <1>7
  <2> QED BY <2>1, <1>2, <1>7 DEF Satisfies, x, y, mx, my, px, py
<1> QED BY <1>2, <1>4, <1>5, <1>6, <1>7

\* Two layouts of which neither collides with the other, in whatever order they are compared.
LEMMA ApartOneLayout ==
    ASSUME NEW l, NEW k, LayoutParts(l), LayoutParts(k), l.constraints # None, k.constraints # None,
           ~LayoutsCollide(l, k), NEW s, NEW i \in Ids["image"], LayoutMatches(l, s, i), LayoutMatches(k, s, i)
    PROVE  ~Opposed(l.constraints.images[i[1]], k.constraints.images[i[1]])
<1> DEFINE c == l.constraints.images[i[1]]
           d == k.constraints.images[i[1]]
<1>1. i[2] \in Nat /\ c.v \in Nat /\ d.v \in Nat
  BY ImageAssumption DEF LayoutParts, LayoutMatches
<1>2. Satisfies(i[2], c) /\ Satisfies(i[2], d)
  BY DEF LayoutMatches
<1>3. ~Collision(c, d)
  BY DEF LayoutsCollide, LayoutMatches
<1> HIDE DEF c, d
<1>4. c.op # "*" /\ d.op # "*" /\ (c # d => ~(Satisfies(d.v, c) /\ Satisfies(c.v, d)))
  BY <1>3 DEF Collision
<1>5. ASSUME Bounds(c, d) PROVE FALSE
  <2>1. c # d
    BY <1>5 DEF Bounds
  <2> QED BY <1>1, <1>2, <1>4, <1>5, <2>1, BoundsMeet
<1>6. ASSUME Bounds(d, c) PROVE FALSE
  <2>1. c # d
    BY <1>6 DEF Bounds
  <2> QED BY <1>1, <1>2, <1>4, <1>6, <2>1, BoundsMeet
<1>7. ~Opposed(c, d)
  BY <1>4, <1>5, <1>6 DEF Opposed
<1> QED BY <1>7 DEF c, d

LEMMA InvOneLayout == Inv => OneLayout
<1> SUFFICES ASSUME Inv, mishap \cap {"stale", "unchecked"} = {},
                    NEW l \in Rows(table["layout"]), NEW k \in Rows(table["layout"]), NEW s \in Ids["size"],
                    NEW i \in Ids["image"], l # k,
                    LayoutMatches(table["layout"][l], s, i), LayoutMatches(table["layout"][k], s, i)
             PROVE  ~Opposed(table["layout"][l].constraints.images[i[1]], table["layout"][k].constraints.images[i[1]])
    BY DEF OneLayout
<1>1. ~LayoutsCollide(table["layout"][l], table["layout"][k])
  BY DEF Inv, LayoutsApart, LayoutsInvalid
<1>2. \A j \in Rows(table["layout"]) : LayoutParts(table["layout"][j]) /\ table["layout"][j].constraints # None
  BY EmptyParts, KindFields DEF Inv, Typed, TableTyped, Complete, Kinds
<1> QED BY <1>1, <1>2, ApartOneLayout

\* Raids are built one after the other (FilesystemLayout.Validate): the first one that is missing could be built.
LEMMA RaidsBuilt ==
    ASSUME NEW l, Listed(l.raids), \A i \in DOMAIN l.raids : ~RaidInvalid(l, i), NEW D, BuiltUp(l, D)
    PROVE  RaidsBefore(l, Len(l.raids)) \subseteq D
<1> DEFINE n == Len(l.raids)
           S == {i \in 1..n : <<l.raids[i].name>> \notin D}
<1>1. n \in Nat /\ DOMAIN l.raids = 1..n
  BY DEF Listed
<1>2. S = {}
  <2> SUFFICES ASSUME S # {} PROVE FALSE
    OBVIOUS
  <2>1. IsFiniteSet(1..n)
    BY <1>1, FS_Interval
  <2>2. IsFiniteSet(S) /\ S \in SUBSET Int
    <3>1. S \in SUBSET (1..n) /\ 1..n \subseteq Int
      BY <1>1
    <3> HIDE DEF S
    <3> QED BY <2>1, <3>1, FS_Subset
  <2>3. PICK i \in S : \A j \in S : i <= j
    <3> HIDE DEF S
    <3> QED BY <2>2, Least
  <2>4. i \in 1..n /\ <<l.raids[i].name>> \notin D
    OBVIOUS
  <2>5. \A j \in 1..(i - 1) : <<l.raids[j].name>> \in D
    BY <1>1, <2>3, <2>4
  <2>6. RaidsBefore(l, i - 1) \subseteq D
    BY <2>5 DEF RaidsBefore
  <2>7. l.raids[i].devices \subseteq ProvidedByDisks(l) \cup RaidsBefore(l, i - 1)
    BY <1>1, <2>4 DEF RaidInvalid
  <2> QED BY <1>1, <2>4, <2>6, <2>7 DEF BuiltUp
<1>3. \A i \in 1..n : <<l.raids[i].name>> \in D
  BY <1>2
<1> QED BY <1>3 DEF RaidsBefore

\* The volume group of a logical volume is one of the layout, with its devices (FilesystemLayout.Validate).
LEMMA GroupFound ==
    ASSUME NEW l, Listed(l.vgs), NEW name, GroupOf(l, name) # None
    PROVE  \E j \in DOMAIN l.vgs : l.vgs[j].name = name /\ l.vgs[j].devices = GroupOf(l, name)
<1> DEFINE is == {i \in DOMAIN l.vgs : l.vgs[i].name = name}
<1>1. is # {} /\ GroupOf(l, name) = l.vgs[Max(is)].devices
  BY DEF GroupOf
<1>2. Len(l.vgs) \in Nat /\ DOMAIN l.vgs = 1..Len(l.vgs)
  BY DEF Listed
<1>3. IsFiniteSet(DOMAIN l.vgs) /\ DOMAIN l.vgs \subseteq Int
  <2>1. 1 \in Int /\ Len(l.vgs) \in Int
    BY <1>2
  <2>2. IsFiniteSet(1..Len(l.vgs))
    BY <2>1, FS_Interval
  <2> QED BY <1>2, <2>2
<1>4. IsFiniteSet(is) /\ is \in SUBSET Int
  BY <1>3, FS_Subset
<1>5. Max(is) \in is
  <2> HIDE DEF is
  <2> QED BY <1>1, <1>4, MaxIn
<1> QED BY <1>1, <1>5

LEMMA BuiltWhole ==
    ASSUME NEW l, LayoutParts(l), \A f \in DOMAIN EmptyLayout : l[f] # None, ~Misbuilt(l)
    PROVE  Whole(l)
<1>1. /\ Listed(l.raids) /\ Listed(l.vgs) /\ Listed(l.lvs)
      /\ \A i \in DOMAIN l.vgs : IsFiniteSet(l.vgs[i].devices)
  BY EmptyParts DEF LayoutParts
<1>2. ASSUME NEW fs \in l.filesystems, fs.format # "tmpfs", NEW D \in SUBSET Provided(l), BuiltUp(l, D)
      PROVE  fs.device \in D
  <2>1. fs.device \in Provided(l)
    BY <1>2 DEF Misbuilt, FilesystemInvalid
  <2>2. RaidsBefore(l, Len(l.raids)) \subseteq D
    BY <1>1, <1>2, RaidsBuilt DEF Misbuilt
  <2>3. VolumeGroupDevices(l) \subseteq D
    BY <1>2, <2>2 DEF VolumeGroupDevices, BuiltUp
  <2>4. ASSUME NEW i \in DOMAIN l.lvs PROVE <<l.lvs[i].vg, l.lvs[i].name>> \in D
    <3>1. GroupOf(l, l.lvs[i].vg) # None
      BY DEF Misbuilt, LogicalVolumeInvalid
    <3>2. PICK j \in DOMAIN l.vgs : l.vgs[j].name = l.lvs[i].vg
      BY <1>1, <3>1, GroupFound
    <3>3. l.vgs[j].devices \subseteq D
      BY <2>3 DEF Misbuilt
    <3> QED BY <1>2, <3>2, <3>3 DEF BuiltUp
  <2> QED BY <2>1, <2>3, <2>4 DEF Provided
<1>3. ASSUME NEW i \in DOMAIN l.lvs, l.lvs[i].type # "linear"
      PROVE  \E j \in DOMAIN l.vgs : l.vgs[j].name = l.lvs[i].vg /\ Cardinality(l.vgs[j].devices) >= 2
  <2>1. GroupOf(l, l.lvs[i].vg) # None /\ ~(Cardinality(GroupOf(l, l.lvs[i].vg)) < 2)
    BY <1>3 DEF Misbuilt, LogicalVolumeInvalid
  <2>2. PICK j \in DOMAIN l.vgs : l.vgs[j].name = l.lvs[i].vg /\ l.vgs[j].devices = GroupOf(l, l.lvs[i].vg)
    BY <1>1, <2>1, GroupFound
  <2>3. Cardinality(l.vgs[j].devices) \in Nat
    BY <1>1, FS_CardinalityType
  <2>4. ~(Cardinality(l.vgs[j].devices) < 2)
    BY <2>1, <2>2
  <2>5. Cardinality(l.vgs[j].devices) >= 2
    BY <2>3, <2>4
  <2> QED BY <2>2, <2>5
<1> QED BY <1>2, <1>3 DEF Whole

LEMMA InvWhole == Inv => LayoutWhole
<1> SUFFICES ASSUME Inv, "partial" \notin mishap, NEW i \in Rows(table["layout"]) PROVE Whole(table["layout"][i])
    BY DEF LayoutWhole
<1>1. LayoutParts(table["layout"][i]) /\ ~Misbuilt(table["layout"][i])
  BY DEF Inv, Typed, TableTyped, LayoutsBuilt
<1>2. \A f \in DOMAIN EmptyLayout : table["layout"][i][f] # None
  BY KindFields DEF Inv, Typed, TableTyped, Complete, Kinds
<1> QED BY <1>1, <1>2, BuiltWhole

\* Who had no allocation and has one was committed, for the size and the image that were validated when it was picked.
LEMMA StepImage == Inv /\ [Next]_vars => [\A m \in machines' :
          m.alloc # None /\ (\E n \in machines : n.id = m.id /\ n.alloc = None)
              => \/ mishap' \cap {"stale", "unqualified", "restocked"} # {}
                 \/ Exists("sic", m.size) =>
                      \A os \in DOMAIN table.sic[m.size].images \cap {m.alloc.image[1]} :
                          Satisfies(m.alloc.image[2], table.sic[m.size].images[os])]_vars
<1> SUFFICES ASSUME Inv, Next, NEW w \in machines', w.alloc # None,
                    NEW o \in machines, o.id = w.id, o.alloc = None,
                    mishap' \cap {"stale", "unqualified", "restocked"} = {},
                    Exists("sic", w.size),
                    NEW os \in DOMAIN table.sic[w.size].images \cap {w.alloc.image[1]}
             PROVE  Satisfies(w.alloc.image[2], table.sic[w.size].images[os])
  OBVIOUS
<1>1. \A m \in machines : m.id = w.id => m = o
  BY DEF Inv, Typed, Registrations
<1>2. machines \subseteq Machine
  BY DEF Inv, Typed, Registrations
<1>3. ASSUME NEW m \in machines, NEW n, Replace(m, n), n.id = m.id, n.alloc = m.alloc \/ n.alloc = None PROVE FALSE
  <2>1. w \in machines \/ w = n
    BY <1>3 DEF Replace
  <2>2. w # o
    OBVIOUS
  <2>3. w = n /\ m = o
    BY <2>1, <2>2, <1>1, <1>3
  <2> QED BY <2>3, <1>3
<1>4. w \notin machines
  BY <1>1
<1>5. ASSUME NEW c \in Calls, Pick(c) PROVE FALSE
  <2>1. PICK m \in Winners(call[c].spec) : Replace(m, [m EXCEPT !.pre = TRUE])
    BY <1>5 DEF Pick
  <2>2. m \in machines
    BY WinnerWaits
  <2>3. [m EXCEPT !.pre = TRUE].id = m.id /\ [m EXCEPT !.pre = TRUE].alloc = m.alloc
    BY <1>2, <2>2 DEF Machine
  <2> QED BY <1>3, <2>1, <2>2, <2>3
<1>6. ASSUME NEW c \in Calls, Commit(c)
      PROVE  Satisfies(w.alloc.image[2], table.sic[w.size].images[os])
  <2> DEFINE k == call[c]
             a == [project |-> k.spec.project, role |-> k.spec.role, image |-> k.image, layout |-> k.layout]
  <2>1. PICK m \in machines : m.id = k.machine /\ Replace(m, [m EXCEPT !.pre = FALSE, !.tags = {m.rack}, !.alloc = a])
    BY <1>6 DEF Commit
  <2>2. k.pc = "commit" /\ mishap' = mishap \cup If(Outdated(k), "stale")
    BY <1>6 DEF Commit, Note
  <2> DEFINE n == [m EXCEPT !.pre = FALSE, !.tags = {m.rack}, !.alloc = a]
  <2>3. n.size = m.size /\ n.alloc = a /\ a.image = k.image
    BY <1>2 DEF Machine
  <2>4. Replace(m, n)
    BY <2>1
  <2> HIDE DEF n, a
  <2>5. w = n
    BY <1>4, <2>4 DEF Replace
  <2>6. ~ImageRefused(table.sic, k.spec.size, k.image)
    BY <2>2 DEF If, Outdated
  <2>7. "restocked" \notin mishap
    BY <2>2
  <2>8. m.size = k.spec.size
    BY <2>1, <2>2, <2>7 DEF Inv, SizeKept
  <2>9. w.size = k.spec.size /\ w.alloc.image = k.image
    BY <2>3, <2>5, <2>8
  <2> QED BY <2>6, <2>9 DEF ImageRefused, Exists
<1>7. ASSUME NEW c \in Calls, Registered(c) PROVE FALSE
  BY <1>7 DEF Registered, Note
<1>8. ASSUME NEW c \in Calls, Ask(c) \/ Write(c) \/ Allocate(c) \/ Fail(c) \/ Register(c) \/ SetState(c) PROVE FALSE
  BY <1>4, <1>8 DEF Ask, Write, Allocate, Fail, Register, SetState
<1>9. ASSUME Free PROVE FALSE
  BY <1>9 DEF Free, Note
<1>10. ASSUME Die PROVE FALSE
  <2>1. PICK m \in machines : Replace(m, [m EXCEPT !.alive = FALSE])
    BY <1>10 DEF Die
  <2>2. [m EXCEPT !.alive = FALSE].id = m.id /\ [m EXCEPT !.alive = FALSE].alloc = m.alloc
    BY <1>2 DEF Machine
  <2> QED BY <1>3, <2>1, <2>2
<1>11. ASSUME NEW c \in Calls, Marked(c) PROVE FALSE
  <2>1. PICK m \in machines : Replace(m, [m EXCEPT !.state = call[c].state])
    BY <1>11 DEF Marked
  <2>2. [m EXCEPT !.state = call[c].state].id = m.id /\ [m EXCEPT !.state = call[c].state].alloc = m.alloc
    BY <1>2 DEF Machine
  <2> QED BY <1>3, <2>1, <2>2
<1> QED BY <1>5, <1>6, <1>7, <1>8, <1>9, <1>10, <1>11 DEF Next

LEMMA InvAlways == Spec => []Inv
<1> QED BY InitInv, NextInv, PTL DEF Spec

\* Rows are complete, machines are registered once, and whatever machines, allocations and reservations refer to is
\* there, unless a call acted on what it validated before another one changed it (the validateDelete and validateCreate
\* functions of the repositories).
THEOREM RowsStay == Spec => []RowsSound
<1>1. Inv /\ Located => RowsSound
  BY DEF Inv, Typed, TableTyped, RowsSound, TypeOK, InUse, Referred, Located
<1>2. Init => Located
  BY ScenarioAssumption DEF Init, Located
<1> QED BY <1>1, <1>2, InitInv, NextInv, LocatedNext, PTL DEF Spec

\* No two sizes of the catalog that are comparable fit the same hardware, unless a call acted on what it validated
\* before another one changed it (size-validation.go, metal.Sizes.FromHardware).
THEOREM SizesDistinguish == Spec => []OneSize
<1> QED BY InvAlways, InvUnique, PTL

\* No two opposed layouts match an image for a size, unless one was created next to others it collides with; and what
\* is built from the disks of a layout up has the devices of its filesystems, unless it was updated in parts
\* (FilesystemLayout.Validate, FilesystemLayouts.Validate).
THEOREM LayoutsSelect == Spec => []LayoutsSound
<1>1. Inv => LayoutsSound
  BY InvOneLayout, InvWhole DEF LayoutsSound
<1> QED BY <1>1, InvAlways, PTL

\* A machine is allocated with an image that the constraints of its size allow, if it is the image that was validated
\* (machineRepository.validateCreate, SizeImageConstraint.Matches).
THEOREM ImagesQualified == Spec => ImageAllowed
<1> QED BY InvAlways, StepImage, PTL DEF Spec, ImageAllowed

-----------------------------------------------------------------------------
(* Sums over finite sets.                                                  *)

\* A set that has 0, and with every number the next one, has all.
LEMMA Counting ==
    ASSUME NEW N, 0 \in N, \A n \in Nat : n \in N => n + 1 \in N
    PROVE  Nat \subseteq N
<1> SUFFICES ASSUME Nat \ N # {} PROVE FALSE
    OBVIOUS
<1>1. PICK n \in Nat \ N : \A k \in Nat \ N : <<k, n>> \notin OpToRel(<, Nat)
  BY NatLessThanWellFounded, WFMin
<1>2. n # 0
  OBVIOUS
<1>3. n - 1 \in Nat /\ n - 1 < n /\ (n - 1) + 1 = n
  BY <1>2
<1>4. n - 1 \in N
  BY <1>1, <1>3 DEF OpToRel
<1> QED BY <1>3, <1>4

\* Some member of a set; a sum counted from it; the smaller sets; the sums over all subsets of a set.
Any(s) == CHOOSE x \in s : TRUE
Added(w, h, s) == IF s = {} THEN 0 ELSE w[Any(s)] + h[s \ {Any(s)}]
Smaller(S, n) == {s \in SUBSET S : Cardinality(s) <= n}
Sums(S, w, h) == h = [s \in SUBSET S |-> Added(w, h, s)]

\* A set that is not empty has some member.
LEMMA AnyIn ==
    ASSUME NEW s, s # {}
    PROVE  Any(s) \in s
BY DEF Any

\* A set without one of its members has one member less.
LEMMA WithoutOne ==
    ASSUME NEW S, IsFiniteSet(S), NEW s \in SUBSET S, NEW x \in s
    PROVE  /\ s \ {x} \in SUBSET S
           /\ Cardinality(s) \in Nat /\ Cardinality(s \ {x}) = Cardinality(s) - 1
<1>1. IsFiniteSet(s)
  BY FS_Subset
<1> QED BY <1>1, FS_RemoveElement, FS_CardinalityType

\* The subsets of a finite set have sums.
LEMMA SumExists ==
    ASSUME NEW S, IsFiniteSet(S), NEW w
    PROVE  \E h : Sums(S, w, h)
<1> DEFINE N == {n \in Nat : \E h : h = [s \in Smaller(S, n) |-> Added(w, h, s)]}
<1>0. \A s \in SUBSET S : IsFiniteSet(s) /\ Cardinality(s) \in Nat /\ (Cardinality(s) = 0 <=> s = {})
  BY FS_Subset, FS_EmptySet, FS_CardinalityType
<1>1. 0 \in N
  <2>1. Smaller(S, 0) = {{}}
    BY <1>0 DEF Smaller
  <2> DEFINE h == [s \in Smaller(S, 0) |-> 0]
  <2>2. h = [s \in Smaller(S, 0) |-> Added(w, h, s)]
    BY <2>1 DEF Added
  <2> QED BY <2>2
<1>2. ASSUME NEW n \in Nat, n \in N PROVE n + 1 \in N
  <2>1. PICK g : g = [s \in Smaller(S, n) |-> Added(w, g, s)]
    BY <1>2
  <2> DEFINE h == [s \in Smaller(S, n + 1) |-> Added(w, g, s)]
  <2>2. ASSUME NEW s \in Smaller(S, n + 1) PROVE h[s] = Added(w, h, s)
    <3>1. CASE s = {}
      BY <3>1 DEF Added
    <3>2. CASE s # {}
      <4> DEFINE r == s \ {Any(s)}
      <4>1. r \in Smaller(S, n) /\ r \in Smaller(S, n + 1)
        BY <3>2, AnyIn, WithoutOne, <1>0 DEF Smaller
      <4>2. h[r] = Added(w, g, r) /\ g[r] = Added(w, g, r)
        BY <4>1, <2>1
      <4>3. h[s] = w[Any(s)] + g[r]
        BY <3>2 DEF Added
      <4> HIDE DEF h
      <4> QED BY <3>2, <4>2, <4>3 DEF Added
    <3> QED BY <3>1, <3>2
  <2>3. h = [s \in Smaller(S, n + 1) |-> h[s]]
    OBVIOUS
  <2> HIDE DEF h
  <2>4. h = [s \in Smaller(S, n + 1) |-> Added(w, h, s)]
    BY <2>2, <2>3
  <2> QED BY <2>4
<1>3. Nat \subseteq N
  <2> HIDE DEF N
  <2> QED BY <1>1, <1>2, Counting
<1>4. Cardinality(S) \in Nat /\ Smaller(S, Cardinality(S)) = SUBSET S
  BY FS_Subset, FS_CardinalityType DEF Smaller
<1>5. Cardinality(S) \in N
  BY <1>3, <1>4
<1> QED BY <1>4, <1>5 DEF Sums

\* What is added up does not depend on the order.
LEMMA SumOf ==
    ASSUME NEW S, IsFiniteSet(S), NEW w, \A x \in S : w[x] \in Int, NEW h, Sums(S, w, h)
    PROVE  /\ h[{}] = 0
           /\ \A s \in SUBSET S : h[s] \in Int
           /\ \A s \in SUBSET S, x \in S : x \in s => h[s] = w[x] + h[s \ {x}]
<1> DEFINE Right(s) == h[s] \in Int /\ \A x \in s : h[s] = w[x] + h[s \ {x}]
           N == {n \in Nat : \A s \in Smaller(S, n) : Right(s)}
<1>0. \A s \in SUBSET S : IsFiniteSet(s) /\ Cardinality(s) \in Nat /\ (Cardinality(s) = 0 <=> s = {})
  BY FS_Subset, FS_EmptySet, FS_CardinalityType
<1>1. \A s \in SUBSET S : h[s] = Added(w, h, s)
  BY DEF Sums
<1>2. h[{}] = 0
  BY <1>1 DEF Added
<1>3. 0 \in N
  <2>1. \A s \in Smaller(S, 0) : s = {}
    BY <1>0 DEF Smaller
  <2>2. Right({})
    BY <1>2
  <2> HIDE DEF Right
  <2> QED BY <2>1, <2>2
<1>4. ASSUME NEW n \in Nat, n \in N PROVE n + 1 \in N
  <2>1. ASSUME NEW s \in Smaller(S, n + 1) PROVE Right(s)
    <3>1. CASE s = {}
      BY <3>1, <1>2
    <3>2. CASE s # {}
      <4>1. s \in SUBSET S /\ \A x \in s : x \in S /\ s \ {x} \in Smaller(S, n)
        BY WithoutOne, <1>0 DEF Smaller
      <4> DEFINE a == Any(s)
      <4>2. a \in s /\ h[s] = w[a] + h[s \ {a}]
        BY <3>2, <4>1, <1>1, AnyIn DEF Added
      <4>3. \A x \in s : w[x] \in Int /\ Right(s \ {x})
        BY <4>1, <1>4
      <4>4. h[s] \in Int
        <5>1. w[a] \in Int /\ h[s \ {a}] \in Int
          BY <4>2, <4>3
        <5> HIDE DEF a
        <5> QED BY <4>2, <5>1
      <4>5. ASSUME NEW x \in s, x # a PROVE h[s] = w[x] + h[s \ {x}]
        <5>1. h[s \ {a}] = w[x] + h[(s \ {a}) \ {x}]
          BY <4>2, <4>3, <4>5
        <5>2. h[s \ {x}] = w[a] + h[(s \ {x}) \ {a}]
          BY <4>2, <4>3, <4>5
        <5>3. (s \ {a}) \ {x} = (s \ {x}) \ {a}
          OBVIOUS
        <5>4. (s \ {x}) \ {a} \in SUBSET S /\ (s \ {x}) \ {a} \in Smaller(S, n)
          <6>1. Cardinality((s \ {x}) \ {a}) <= Cardinality(s \ {x})
            BY <4>1, <1>0, FS_Subset DEF Smaller
          <6> QED BY <6>1, <4>1, <1>0 DEF Smaller
        <5>5. h[(s \ {x}) \ {a}] \in Int
          BY <5>4, <1>4
        <5>6. w[x] \in Int /\ w[a] \in Int
          BY <4>2, <4>3
        <5> HIDE DEF a
        <5>7. h[s \ {a}] = w[x] + h[(s \ {x}) \ {a}]
          BY <5>1, <5>3
        <5>8. h[s] = w[a] + h[s \ {a}]
          BY <4>2
        <5> DEFINE r == h[(s \ {x}) \ {a}]
        <5>9. h[s] = w[a] + (w[x] + r) /\ h[s \ {x}] = w[a] + r /\ r \in Int
          BY <5>2, <5>5, <5>7, <5>8
        <5> HIDE DEF r
        <5> QED BY <5>6, <5>9
      <4> QED BY <4>2, <4>4, <4>5
    <3> QED BY <3>1, <3>2
  <2> QED BY <2>1
<1>5. Nat \subseteq N
  <2> HIDE DEF N
  <2> QED BY <1>3, <1>4, Counting
<1>6. \A s \in SUBSET S : Right(s)
  <2> TAKE s \in SUBSET S
  <2>1. Cardinality(s) \in Nat /\ s \in Smaller(S, Cardinality(s))
    BY <1>0 DEF Smaller
  <2>2. Cardinality(s) \in N
    BY <1>5, <2>1
  <2> QED BY <2>1, <2>2
<1> QED BY <1>2, <1>6

\* Total is such a sum (the sums of the capacity and of the reservations).
LEMMA TotalIs ==
    ASSUME NEW w, IsFiniteSet(DOMAIN w)
    PROVE  \E h : Sums(DOMAIN w, w, h) /\ Total(w) = h[DOMAIN w]
<1> DEFINE S == DOMAIN w
           h == CHOOSE g : g = [s \in SUBSET S |-> IF s = {} THEN 0 ELSE w[CHOOSE x \in s : TRUE] + g[s \ {CHOOSE x \in s : TRUE}]]
<1>1. Total(w) = h[S]
  BY DEF Total, MapThenSumSet, MapThenFoldSet
<1>2. h = CHOOSE g : Sums(S, w, g)
  BY DEF Sums, Added, Any
<1> HIDE DEF h
<1>3. Sums(S, w, h)
  BY <1>2, SumExists
<1> QED BY <1>1, <1>3

-----------------------------------------------------------------------------
(* Reservations: what is added up in the order of a list.                  *)

\* What stands against an allocation after the first i reservations (SizeReservations.Validate).
Standing(ms, rs, n, h) ==
    h = [i \in 0..n |-> IF i = 0 THEN 0 ELSE NotNegative(h[i - 1] + rs[i].amount - Allocated(ms, rs[i].project))]

\* There is a function that counts what stands against an allocation, place by place.
LEMMA StandingExists ==
    ASSUME NEW ms, NEW rs, NEW n \in Nat
    PROVE  \E h : Standing(ms, rs, n, h)
<1> DEFINE N == {i \in Nat : \E h : Standing(ms, rs, i, h)}
<1>1. 0 \in N
  <2> DEFINE h == [i \in 0..0 |-> 0]
  <2>1. h = [i \in 0..0 |-> IF i = 0 THEN 0 ELSE NotNegative(h[i - 1] + rs[i].amount - Allocated(ms, rs[i].project))]
    OBVIOUS
  <2> QED BY <2>1 DEF Standing
<1>2. ASSUME NEW k \in Nat, k \in N PROVE k + 1 \in N
  <2>1. PICK g : Standing(ms, rs, k, g)
    BY <1>2
  <2> DEFINE next(f, i) == IF i = 0 THEN 0 ELSE NotNegative(f[i - 1] + rs[i].amount - Allocated(ms, rs[i].project))
             h == [i \in 0..(k + 1) |-> next(g, i)]
  <2>2. \A i \in 0..k : g[i] = next(g, i)
    BY <2>1 DEF Standing
  <2>3. \A i \in 0..k : h[i] = g[i]
    BY <2>2
  <2>4. ASSUME NEW i \in 0..(k + 1) PROVE h[i] = next(h, i)
    <3>1. i # 0 => i - 1 \in 0..k
      OBVIOUS
    <3>2. i # 0 => h[i - 1] = g[i - 1]
      BY <2>3, <3>1
    <3>3. h[i] = next(g, i)
      OBVIOUS
    <3> HIDE DEF h
    <3> QED BY <3>2, <3>3
  <2>5. h = [i \in 0..(k + 1) |-> h[i]]
    OBVIOUS
  <2> HIDE DEF h
  <2>6. h = [i \in 0..(k + 1) |-> next(h, i)]
    BY <2>4, <2>5
  <2> QED BY <2>6 DEF Standing
<1>3. Nat \subseteq N
  <2> HIDE DEF N
  <2> QED BY <1>1, <1>2, Counting
<1> QED BY <1>3

\* A project may allocate by a reservation of its own, or if more machines wait than stand against it.
Own(ms, project, rs) == \E i \in DOMAIN rs : rs[i].project = project /\ Allocated(ms, project) < rs[i].amount

\* Reservations allow an allocation exactly then (SizeReservations.Validate).
LEMMA AllowIs ==
    ASSUME NEW ms, NEW project, NEW rs, Len(rs) \in Nat
    PROVE  \E h : /\ Standing(ms, rs, Len(rs), h)
                  /\ SizeReservationsAllow(ms, project, rs) <=>
                        Own(ms, project, rs) \/ h[Len(rs)] < Cardinality(Candidates(ms))
<1> DEFINE h == CHOOSE f : f = [i \in 0..Len(rs) |->
                    IF i = 0 THEN 0 ELSE NotNegative(f[i - 1] + rs[i].amount - Allocated(ms, rs[i].project))]
<1>1. SizeReservationsAllow(ms, project, rs) <=> Own(ms, project, rs) \/ h[Len(rs)] < Cardinality(Candidates(ms))
  BY DEF SizeReservationsAllow, Own
<1>2. h = CHOOSE f : Standing(ms, rs, Len(rs), f)
  BY DEF Standing
<1> HIDE DEF h
<1>3. Standing(ms, rs, Len(rs), h)
  BY <1>2, StandingExists
<1> QED BY <1>1, <1>3

\* The smaller one of two numbers.
LEMMA MinOf ==
    ASSUME NEW a \in Int, NEW b \in Int
    PROVE  Min({a, b}) = IF a <= b THEN a ELSE b
<1>1. \E x \in {a, b} : \A y \in {a, b} : x <= y
  OBVIOUS
<1>2. Min({a, b}) \in {a, b} /\ \A y \in {a, b} : Min({a, b}) <= y
  BY <1>1 DEF Min
<1> QED BY <1>2

\* The machines of a project are counted.
LEMMA AllocatedCount ==
    ASSUME NEW ms, IsFiniteSet(ms), NEW project
    PROVE  Allocated(ms, project) \in Nat
<1>1. MachinesOf(ms, project) \in SUBSET ms
  BY DEF MachinesOf
<1> QED BY <1>1, FS_Subset, FS_CardinalityType DEF Allocated

\* The parts of a sum, of which each has at most one element more than the one before, that counts for no less than the
\* reservation at this place.
Grows(ms, rs, n, S, w, part) ==
    /\ part[0] = {} /\ \A i \in 0..n : part[i] \in SUBSET S
    /\ \A i \in 1..n :
          /\ rs[i].amount \in Int
          /\ LET more == rs[i].amount - Allocated(ms, rs[i].project)
             IN  \/ part[i] = part[i - 1] /\ more <= 0
                 \/ \E x \in S : x \notin part[i - 1] /\ part[i] = part[i - 1] \cup {x} /\ w[x] >= 0 /\ w[x] >= more

\* Then what stands against an allocation is at most the sum.
LEMMA StandingBelow ==
    ASSUME NEW ms, IsFiniteSet(ms), NEW rs, NEW n \in Nat, NEW g, Standing(ms, rs, n, g),
           NEW S, IsFiniteSet(S), NEW w, \A x \in S : w[x] \in Int, NEW h, Sums(S, w, h),
           NEW part, Grows(ms, rs, n, S, w, part)
    PROVE  g[n] \in Nat /\ g[n] <= h[part[n]]
<1> DEFINE N == {i \in Nat : i <= n => g[i] \in Nat /\ g[i] <= h[part[i]]}
<1>0. /\ h[{}] = 0
      /\ \A s \in SUBSET S : h[s] \in Int
      /\ \A s \in SUBSET S, x \in S : x \in s => h[s] = w[x] + h[s \ {x}]
  BY SumOf
<1>1. 0 \in N
  <2>1. g[0] = 0
    BY DEF Standing
  <2>2. h[part[0]] = 0
    BY <1>0 DEF Grows
  <2> QED BY <2>1, <2>2
<1>2. ASSUME NEW k \in Nat, k \in N PROVE k + 1 \in N
  <2> SUFFICES ASSUME k + 1 <= n PROVE g[k + 1] \in Nat /\ g[k + 1] <= h[part[k + 1]]
      OBVIOUS
  <2> DEFINE i == k + 1
             more == rs[i].amount - Allocated(ms, rs[i].project)
  <2>1. i \in 1..n /\ i \in 0..n /\ i - 1 = k /\ k \in 0..n /\ i # 0
    OBVIOUS
  <2>2. g[k] \in Nat /\ g[k] <= h[part[k]] /\ h[part[k]] \in Int /\ h[part[i]] \in Int
    BY <1>0, <1>2, <2>1 DEF Grows
  <2>3. g[i] = NotNegative(g[k] + rs[i].amount - Allocated(ms, rs[i].project))
    BY <2>1 DEF Standing
  <2>4. rs[i].amount \in Int /\ Allocated(ms, rs[i].project) \in Nat
    BY <2>1, AllocatedCount DEF Grows
  <2>5. more \in Int /\ g[i] = NotNegative(g[k] + more)
    BY <2>2, <2>3, <2>4
  <2> HIDE DEF more
  <2>6. g[i] \in Nat /\ (g[i] = 0 \/ g[i] = g[k] + more)
    BY <2>2, <2>5 DEF NotNegative
  <2>7. CASE part[i] = part[k] /\ more <= 0
    BY <2>2, <2>5, <2>6, <2>7
  <2>8. CASE \E x \in S : x \notin part[k] /\ part[i] = part[k] \cup {x} /\ w[x] >= 0 /\ w[x] >= more
    <3>1. PICK x \in S : x \notin part[k] /\ part[i] = part[k] \cup {x} /\ w[x] >= 0 /\ w[x] >= more
      BY <2>8
    <3>2. part[i] \in SUBSET S /\ x \in part[i] /\ part[i] \ {x} = part[k]
      BY <2>1, <3>1 DEF Grows
    <3>3. h[part[i]] = w[x] + h[part[i] \ {x}]
      BY <1>0, <3>2
    <3>4. h[part[i]] = w[x] + h[part[k]]
      BY <3>2, <3>3
    <3> QED BY <2>2, <2>5, <2>6, <3>1, <3>4
  <2> QED BY <2>1, <2>7, <2>8 DEF more, Grows
<1>3. Nat \subseteq N
  <2> HIDE DEF N
  <2> QED BY <1>1, <1>2, Counting
<1> QED BY <1>3

\* The parts of a sum, of which each has at most one element more than the one before, that counts for no more than
\* the reservation at this place.
Follows(ms, rs, n, S, w, part) ==
    /\ part[0] = {} /\ \A i \in 0..n : part[i] \in SUBSET S
    /\ \A i \in 1..n :
          /\ rs[i].amount \in Int
          /\ LET more == rs[i].amount - Allocated(ms, rs[i].project)
             IN  \/ part[i] = part[i - 1] /\ more >= 0
                 \/ \E x \in S : x \notin part[i - 1] /\ part[i] = part[i - 1] \cup {x} /\ w[x] <= more

\* Then what stands against an allocation is at least the sum.
LEMMA StandingAbove ==
    ASSUME NEW ms, IsFiniteSet(ms), NEW rs, NEW n \in Nat, NEW g, Standing(ms, rs, n, g),
           NEW S, IsFiniteSet(S), NEW w, \A x \in S : w[x] \in Int, NEW h, Sums(S, w, h),
           NEW part, Follows(ms, rs, n, S, w, part)
    PROVE  g[n] \in Nat /\ g[n] >= h[part[n]]
<1> DEFINE N == {i \in Nat : i <= n => g[i] \in Nat /\ g[i] >= h[part[i]]}
<1>0. /\ h[{}] = 0
      /\ \A s \in SUBSET S : h[s] \in Int
      /\ \A s \in SUBSET S, x \in S : x \in s => h[s] = w[x] + h[s \ {x}]
  BY SumOf
<1>1. 0 \in N
  <2>1. g[0] = 0
    BY DEF Standing
  <2>2. h[part[0]] = 0
    BY <1>0 DEF Follows
  <2> QED BY <2>1, <2>2
<1>2. ASSUME NEW k \in Nat, k \in N PROVE k + 1 \in N
  <2> SUFFICES ASSUME k + 1 <= n PROVE g[k + 1] \in Nat /\ g[k + 1] >= h[part[k + 1]]
      OBVIOUS
  <2> DEFINE i == k + 1
             more == rs[i].amount - Allocated(ms, rs[i].project)
  <2>1. i \in 1..n /\ i \in 0..n /\ i - 1 = k /\ k \in 0..n /\ i # 0
    OBVIOUS
  <2>2. g[k] \in Nat /\ g[k] >= h[part[k]] /\ h[part[k]] \in Int /\ h[part[i]] \in Int
    BY <1>0, <1>2, <2>1 DEF Follows
  <2>3. g[i] = NotNegative(g[k] + rs[i].amount - Allocated(ms, rs[i].project))
    BY <2>1 DEF Standing
  <2>4. rs[i].amount \in Int /\ Allocated(ms, rs[i].project) \in Nat
    BY <2>1, AllocatedCount DEF Follows
  <2>5. more \in Int /\ g[i] = NotNegative(g[k] + more)
    BY <2>2, <2>3, <2>4
  <2> HIDE DEF more
  <2>6. g[i] \in Nat /\ g[i] >= g[k] + more
    BY <2>2, <2>5 DEF NotNegative
  <2>7. CASE part[i] = part[k] /\ more >= 0
    BY <2>2, <2>5, <2>6, <2>7
  <2>8. CASE \E x \in S : x \notin part[k] /\ part[i] = part[k] \cup {x} /\ w[x] <= more
    <3>1. PICK x \in S : x \notin part[k] /\ part[i] = part[k] \cup {x} /\ w[x] <= more
      BY <2>8
    <3>2. part[i] \in SUBSET S /\ x \in part[i] /\ part[i] \ {x} = part[k]
      BY <2>1, <3>1 DEF Follows
    <3>3. h[part[i]] = w[x] + h[part[i] \ {x}]
      BY <1>0, <3>2
    <3>4. h[part[i]] = w[x] + h[part[k]]
      BY <3>2, <3>3
    <3> QED BY <2>2, <2>5, <2>6, <3>1, <3>4
  <2> QED BY <2>1, <2>7, <2>8 DEF more, Follows
<1>3. Nat \subseteq N
  <2> HIDE DEF N
  <2> QED BY <1>1, <1>2, Counting
<1> QED BY <1>3

\* A list of the reservations for a size in a partition, in some order of the database.
LEMMA ListIs ==
    ASSUME NEW spec, IsFiniteSet(ReservationsFor(spec)), NEW list \in ReservationLists(spec),
           NEW n, n = Cardinality(ReservationsFor(spec))
    PROVE  /\ n \in Nat /\ DOMAIN list = 1..n /\ Len(list) = n
           /\ \E s \in [1..n -> ReservationsFor(spec)] :
                /\ \A i, j \in 1..n : i # j => s[i] # s[j]
                /\ \A i \in 1..n : list[i] = table.reservation[s[i]]
<1>1. n \in Nat
  BY FS_CardinalityType
<1>2. PICK s \in Orders!SetToSeqs(ReservationsFor(spec)) : list = [i \in DOMAIN s |-> table.reservation[s[i]]]
  BY DEF ReservationLists
<1>3. s \in [1..n -> ReservationsFor(spec)] /\ \A i, j \in 1..n : i # j => s[i] # s[j]
  <2>1. Orders!Cardinality(ReservationsFor(spec)) = n
    BY DEF Orders!Cardinality, Cardinality
  <2> QED BY <2>1 DEF Orders!SetToSeqs
<1>4. list = [i \in 1..n |-> table.reservation[s[i]]]
  BY <1>2, <1>3
<1>5. DOMAIN list = 1..n /\ Len(list) = n
  BY <1>1, <1>4
<1> QED BY <1>1, <1>3, <1>4, <1>5

\* The parts of an interval that are in a set.
LEMMA Prefix ==
    ASSUME NEW n \in Nat, NEW S \in SUBSET (1..n), NEW i \in 1..n
    PROVE  /\ S \cap (1..0) = {} /\ S \cap (1..n) = S
           /\ S \cap (1..i) \in SUBSET S
           /\ i \notin S => S \cap (1..i) = S \cap (1..(i - 1))
           /\ i \in S => i \notin S \cap (1..(i - 1)) /\ S \cap (1..i) = (S \cap (1..(i - 1))) \cup {i}
<1>1. 1..i = (1..(i - 1)) \cup {i} /\ i \notin 1..(i - 1) /\ 1..0 = {}
  OBVIOUS
<1> QED BY <1>1

\* Who is told that machines are free may allocate one, whatever the order of the reservations.
LEMMA FreeAllows ==
    ASSUME NEW ms, IsFiniteSet(ms), NEW project, NEW rs, Len(rs) \in Nat, DOMAIN rs = 1..Len(rs),
           \A i \in DOMAIN rs : rs[i].amount \in Int,
           Capacity(ms, project, rs).free > 0
    PROVE  SizeReservationsAllow(ms, project, rs)
<1> SUFFICES ASSUME ~Own(ms, project, rs) PROVE SizeReservationsAllow(ms, project, rs)
    BY AllowIs
<1> DEFINE n == Len(rs)
           D == 1..n
           amount == [i \in DOMAIN rs |-> rs[i].amount]
           used == [i \in DOMAIN amount |-> Min({Allocated(ms, rs[i].project), amount[i]})]
           S == {i \in DOMAIN amount : rs[i].project # project}
           w == [i \in S |-> amount[i] - used[i]]
           part == [i \in 0..n |-> S \cap (1..i)]
<1>1. Capacity(ms, project, rs).free = NotNegative(Cardinality(Alive(Candidates(ms))) - Total(w))
  BY DEF Capacity, Counts
<1>2. S \in SUBSET (1..n) /\ IsFiniteSet(S) /\ DOMAIN w = S
  <2>1. S \in SUBSET (1..n) /\ DOMAIN w = S
    OBVIOUS
  <2>2. IsFiniteSet(1..n)
    BY FS_Interval
  <2> HIDE DEF S, w
  <2> QED BY <2>1, <2>2, FS_Subset
<1>3. ASSUME NEW i \in S
      PROVE  /\ w[i] \in Int /\ w[i] >= 0 /\ w[i] >= rs[i].amount - Allocated(ms, rs[i].project)
  <2>1. rs[i].amount \in Int /\ Allocated(ms, rs[i].project) \in Nat /\ i \in DOMAIN rs
    BY AllocatedCount
  <2>2. w[i] = rs[i].amount - Min({Allocated(ms, rs[i].project), rs[i].amount})
    BY <2>1
  <2> DEFINE a == Allocated(ms, rs[i].project)
             r == rs[i].amount
             b == Min({a, r})
  <2>3. a \in Nat /\ r \in Int /\ w[i] = r - b
    BY <2>1, <2>2
  <2>4. b \in Int /\ b <= a /\ b <= r
    <3> HIDE DEF w, S
    <3> QED BY <2>1, MinOf
  <2> HIDE DEF w, S, a, b, r
  <2>5. w[i] \in Int /\ w[i] >= 0 /\ w[i] >= r - a
    BY ONLY <2>3, <2>4
  <2> QED BY <2>5 DEF a, r
<1>4. ASSUME NEW i \in 1..n, i \notin S PROVE rs[i].amount - Allocated(ms, rs[i].project) <= 0
  <2>1. rs[i].project = project /\ rs[i].amount \in Int /\ ~(Allocated(ms, project) < rs[i].amount)
    BY <1>4 DEF Own
  <2>2. Allocated(ms, project) \in Nat
    BY AllocatedCount
  <2> HIDE DEF S
  <2> QED BY <2>1, <2>2
<1>5. \A i \in 1..n : rs[i].amount \in Int
  OBVIOUS
<1> HIDE DEF w, S
<1>6. Grows(ms, rs, n, S, w, part)
  <2>1. part[0] = {} /\ \A i \in 0..n : part[i] \in SUBSET S
    OBVIOUS
  <2>2. ASSUME NEW i \in 1..n
        PROVE  LET more == rs[i].amount - Allocated(ms, rs[i].project)
               IN  \/ part[i] = part[i - 1] /\ more <= 0
                   \/ \E x \in S : x \notin part[i - 1] /\ part[i] = part[i - 1] \cup {x} /\ w[x] >= 0 /\ w[x] >= more
    <3>1. part[i] = S \cap (1..i) /\ part[i - 1] = S \cap (1..(i - 1))
      OBVIOUS
    <3> HIDE DEF part
    <3>2. i \notin S => part[i] = part[i - 1]
      BY <3>1, <1>2, Prefix
    <3>3. i \in S => i \notin part[i - 1] /\ part[i] = part[i - 1] \cup {i}
      BY <3>1, <1>2, Prefix
    <3> QED BY <3>2, <3>3, <1>3, <1>4
  <2> HIDE DEF part
  <2> QED BY <2>1, <2>2, <1>5 DEF Grows
<1>7. PICK h : Sums(S, w, h) /\ Total(w) = h[S]
  BY <1>2, TotalIs
<1>8. PICK g : /\ Standing(ms, rs, n, g)
               /\ SizeReservationsAllow(ms, project, rs) <=> Own(ms, project, rs) \/ g[n] < Cardinality(Candidates(ms))
  BY AllowIs
<1>9. part[n] = S
  BY <1>2
<1> HIDE DEF part
<1>10. g[n] \in Nat /\ g[n] <= h[part[n]]
  BY <1>2, <1>3, <1>6, <1>7, <1>8, StandingBelow
<1>11. h[S] \in Int
  BY <1>2, <1>3, <1>7, SumOf
<1>12. Cardinality(Alive(Candidates(ms))) \in Nat /\ Cardinality(Candidates(ms)) \in Nat
       /\ Cardinality(Alive(Candidates(ms))) <= Cardinality(Candidates(ms))
  <2>1. Candidates(ms) \in SUBSET ms /\ Alive(Candidates(ms)) \in SUBSET Candidates(ms)
    BY DEF Candidates, Alive
  <2> QED BY <2>1, FS_Subset, FS_CardinalityType
<1>13. Cardinality(Alive(Candidates(ms))) - Total(w) > 0
  BY <1>1, <1>7, <1>11, <1>12 DEF NotNegative
<1> QED BY <1>7, <1>8, <1>9, <1>10, <1>11, <1>12, <1>13

-----------------------------------------------------------------------------
(* There are finitely many machines and reservations, and what is reserved *)
(* is counted.                                                             *)

\* Machines and reservations are finitely many, and a reservation has an amount.
Counted ==
    /\ IsFiniteSet(machines) /\ IsFiniteSet(Rows(table.reservation))
    /\ \A r \in Rows(table.reservation) : table.reservation[r].amount \in Int

\* They are in every scenario.
LEMMA InitCounted == Init => Counted
BY ScenarioAssumption DEF Init, Counted

\* A machine that replaces another one makes no more of them.
LEMMA ReplaceFinite ==
    ASSUME IsFiniteSet(machines), NEW m, NEW n, Replace(m, n)
    PROVE  IsFiniteSet(machines')
<1>1. machines' = (machines \ {m}) \cup {n}
  BY DEF Replace
<1>2. IsFiniteSet(machines \ {m})
  BY FS_RemoveElement
<1> QED BY <1>1, <1>2, FS_AddElement

\* A step registers, replaces or drops a machine, or leaves them alone.
LEMMA StepMachines ==
    ASSUME IsFiniteSet(machines), [Next]_vars
    PROVE  IsFiniteSet(machines')
<1>1. ASSUME NEW c \in Calls, Pick(c) PROVE \E m, n : Replace(m, n)
  BY <1>1 DEF Pick
<1>2. ASSUME NEW c \in Calls, Commit(c) PROVE \E m, n : Replace(m, n)
  BY <1>2 DEF Commit
<1>3. ASSUME Free \/ Die PROVE \E m, n : Replace(m, n)
  BY <1>3 DEF Free, Die
<1>4. ASSUME NEW c \in Calls, Registered(c) PROVE IsFiniteSet(machines')
  <2> DEFINE here == {m \in machines : m.id = call[c].who.id}
  <2>1. PICK n : machines' = (machines \ here) \cup {n}
    BY <1>4 DEF Registered
  <2>2. IsFiniteSet(machines \ here)
    BY FS_Difference
  <2> QED BY <2>1, <2>2, FS_AddElement
<1>5. ASSUME NEW c \in Calls, Ask(c) \/ Write(c) \/ Allocate(c) \/ Fail(c) \/ Register(c) \/ SetState(c) PROVE machines' = machines
  BY <1>5 DEF Ask, Write, Allocate, Fail, Register, SetState
<1>7. ASSUME NEW c \in Calls, Marked(c) PROVE \E m, n : Replace(m, n)
  BY <1>7 DEF Marked
<1>6. UNCHANGED vars => machines' = machines
  BY DEF vars
<1> QED BY <1>1, <1>2, <1>3, <1>4, <1>5, <1>6, <1>7, ReplaceFinite DEF Next

\* What is written of a reservation is counted (sizeReservationRepository.update).
LEMMA StepReservations ==
    ASSUME Inv, Counted, NEW c \in Calls, Write(c)
    PROVE  /\ IsFiniteSet(Rows(table'.reservation))
           /\ \A r \in Rows(table'.reservation) : table'.reservation[r].amount \in Int
<1>1. PICK rq : rq = call[c].rq
  OBVIOUS
<1>2. WriteOK(rq) /\ Rewritten(rq)
  BY <1>1, WriteTable DEF Inv
<1>3. rq.kind \in Kinds /\ rq.op \in Operations /\ "reservation" \in Kinds
  BY <1>2 DEF WriteOK, WellFormed, Kinds
<1> DEFINE O == table["reservation"]
           N == table'["reservation"]
<1>4. CASE rq.kind # "reservation"
  BY <1>2, <1>3, <1>4 DEF Rewritten, Counted
<1>5. CASE rq.kind = "reservation"
  <2>1. Rows(N) = Rows(O) \ {rq.id} \/ Rows(N) = Rows(O) \cup {rq.id}
    BY <1>2, <1>5 DEF Rewritten
  <2>2. IsFiniteSet(Rows(N))
    BY <2>1, FS_RemoveElement, FS_AddElement DEF Counted
  <2>3. ASSUME NEW i \in Rows(N) PROVE N[i].amount \in Int
    <3>1. CASE i # rq.id
      BY <1>2, <1>5, <2>1, <2>3, <3>1 DEF Rewritten, Counted
    <3>2. CASE i = rq.id
      <4>1. rq.op # "delete"
        BY <1>2, <1>5, <2>3, <3>2 DEF Rewritten
      <4>2. rq.row.amount \in Int \cup {None}
        BY <1>2, <1>5, <4>1 DEF WriteOK, WellFormed, Given
      <4>3. CASE rq.op = "create"
        <5>1. N[i] = ReservationCreated(rq.row)
          BY <1>2, <1>5, <3>2, <4>3, ReservationBecomes DEF Rewritten
        <5>2. rq.row.amount # None
          BY <1>2, <1>5, <4>3 DEF WriteOK
        <5> QED BY <4>2, <5>1, <5>2 DEF ReservationCreated
      <4>4. CASE rq.op = "update"
        <5>1. N[i] = ReservationUpdated(O[i], rq.row) /\ i \in Rows(O)
          BY <1>2, <1>5, <3>2, <4>4, ReservationBecomes DEF Rewritten
        <5>2. "amount" \in DOMAIN O[i] /\ O[i].amount \in Int
          <6>1. DOMAIN O[i] = Fields["reservation"]
            BY <5>1, <1>3 DEF Inv, Typed, TableTyped, Complete
          <6> QED BY <6>1, <5>1, KindFields DEF Counted
        <5>3. N[i].amount = OrElse(rq.row.amount, O[i].amount)
          BY <5>1, <5>2 DEF ReservationUpdated
        <5> QED BY <4>2, <5>2, <5>3 DEF OrElse
      <4> QED BY <1>3, <4>1, <4>3, <4>4 DEF Operations
    <3> QED BY <3>1, <3>2
  <2> QED BY <2>2, <2>3
<1> QED BY <1>4, <1>5

\* They stay finitely many with every step.
LEMMA StepCounted == Inv /\ Counted /\ [Next]_vars => Counted'
<1> SUFFICES ASSUME Inv, Counted, [Next]_vars PROVE Counted'
    OBVIOUS
<1>1. IsFiniteSet(machines')
  BY StepMachines DEF Counted
<1>2. ASSUME NEW c \in Calls, ~Write(c),
             \/ Ask(c) \/ Allocate(c) \/ Pick(c) \/ Commit(c) \/ Fail(c)
             \/ Register(c) \/ Registered(c) \/ SetState(c) \/ Marked(c)
      PROVE  table' = table
  BY <1>2 DEF Ask, Allocate, Pick, Commit, Fail, Register, Registered, SetState, Marked
<1>3. Free \/ Die \/ UNCHANGED vars => table' = table
  BY DEF Free, Die, vars
<1>4. table' = table \/ \E c \in Calls : Write(c)
  BY <1>2, <1>3 DEF Next
<1> QED BY <1>1, <1>4, StepReservations DEF Counted

\* They are so always, next to the invariant of the rows.
LEMMA CountedAlways == Spec => [](Inv /\ Counted)
<1> QED BY InitInv, NextInv, InitCounted, StepCounted, PTL DEF Spec

\* What a partition's capacity reports as free for a project, the project may allocate: both go by the same reservations
\* (metal.SizeReservations.Validate, partitionServiceServer.Capacity).
THEOREM FreeIsGiven == Spec => []FreeIsAllocatable
<1>1. Counted => FreeIsAllocatable
  <2> SUFFICES ASSUME Counted, NEW w \in Wants, NEW list \in ReservationLists(w),
                      Capacity(StockOf(w), w.project, list).free > 0
               PROVE  SizeReservationsAllow(StockOf(w), w.project, list)
      BY DEF FreeIsAllocatable
  <2> DEFINE R == ReservationsFor(w)
             n == Cardinality(R)
  <2>1. IsFiniteSet(R) /\ \A r \in R : table.reservation[r].amount \in Int
    <3>1. R \in SUBSET Rows(table.reservation)
      BY DEF ReservationsFor
    <3> QED BY <3>1, FS_Subset DEF Counted
  <2>2. IsFiniteSet(StockOf(w))
    <3>1. StockOf(w) \in SUBSET machines
      BY DEF StockOf
    <3> QED BY <3>1, FS_Subset DEF Counted
  <2> HIDE DEF R
  <2>3. /\ n \in Nat /\ DOMAIN list = 1..n /\ Len(list) = n
        /\ \E s \in [1..n -> R] : \A i \in 1..n : list[i] = table.reservation[s[i]]
    BY <2>1, ListIs DEF R
  <2>4. \A i \in DOMAIN list : list[i].amount \in Int
    BY <2>1, <2>3
  <2> HIDE DEF n
  <2> QED BY <2>2, <2>3, <2>4, FreeAllows
<1> QED BY <1>1, CountedAlways, PTL

-----------------------------------------------------------------------------
(* What others have reserved.                                              *)

\* The first n places of a list differ.
Distinct(s, n) == \A i, j \in 1..n : i # j => s[i] # s[j]

\* The first n places of a list have every reservation.
Exhaustive(s, n, R) == \A r \in R : \E i \in 1..n : s[i] = r

\* A list of the reservations has them all.
LEMMA ListHasAll ==
    ASSUME NEW R, IsFiniteSet(R), NEW n, n = Cardinality(R),
           NEW s \in [1..n -> R], Distinct(s, n)
    PROVE  Exhaustive(s, n, R)
<1>1. n \in Nat /\ IsFiniteSet(1..n) /\ Cardinality(1..n) = n
  BY FS_CardinalityType, FS_Interval
<1>2. s \in Injection(1..n, R)
  BY DEF Injection, IsInjective, Distinct
<1>3. s \in Surjection(1..n, R)
  BY <1>1, <1>2, FS_Injection
<1> QED BY <1>3 DEF Surjection, Exhaustive

\* The reservations of others at the first places of a list.
Before(s, S, i) == {x \in S : \E j \in 1..i : s[j] = x}

\* They grow by one place at a time.
LEMMA BeforeGrows ==
    ASSUME NEW n \in Nat, NEW s, Distinct(s, n), NEW S, NEW i \in 1..n
    PROVE  /\ Before(s, S, 0) = {} /\ Before(s, S, i) \in SUBSET S
           /\ s[i] \notin S => Before(s, S, i) = Before(s, S, i - 1)
           /\ s[i] \in S => s[i] \notin Before(s, S, i - 1) /\ Before(s, S, i) = Before(s, S, i - 1) \cup {s[i]}
<1>1. 1..0 = {} /\ i \notin 1..(i - 1) /\ 1..i = (1..(i - 1)) \cup {i} /\ 1..i \subseteq 1..n /\ 1..(i - 1) \subseteq 1..n
  OBVIOUS
<1>2. Before(s, S, 0) = {} /\ Before(s, S, i) \in SUBSET S
  BY <1>1 DEF Before
<1>3. Before(s, S, i) = Before(s, S, i - 1) \cup (S \cap {s[i]})
  BY <1>1 DEF Before
<1>4. s[i] \notin Before(s, S, i - 1)
  BY <1>1 DEF Before, Distinct
<1> QED BY <1>2, <1>3, <1>4

\* Who may allocate without a reservation of its own finds more machines than others were promised.
LEMMA PromiseKept ==
    ASSUME Counted, NEW spec, Orderly(spec), ~Entitled(spec), NEW list \in ReservationLists(spec),
           SizeReservationsAllow(StockOf(spec), spec.project, list)
    PROVE  Promised(spec) \in Int /\ Promised(spec) < Cardinality(Candidates(StockOf(spec)))
<1> DEFINE R == ReservationsFor(spec)
           n == Cardinality(R)
           ms == StockOf(spec)
           S == {q \in R : table.reservation[q].project # spec.project}
           w == [r \in S |-> table.reservation[r].amount - Used(spec, r)]
<1>0. IsFiniteSet(R) /\ \A r \in R : table.reservation[r].amount \in Int
  <2>1. R \in SUBSET Rows(table.reservation)
    BY DEF ReservationsFor
  <2> QED BY <2>1, FS_Subset DEF Counted
<1>1. IsFiniteSet(ms)
  <2>1. ms \in SUBSET machines
    BY DEF StockOf
  <2> QED BY <2>1, FS_Subset DEF Counted
<1>2. \A r \in R : /\ Used(spec, r) = Allocated(ms, table.reservation[r].project) /\ Used(spec, r) \in Nat
                   /\ Used(spec, r) <= table.reservation[r].amount
                   /\ table.reservation[r].project = spec.project => ~(Used(spec, r) < table.reservation[r].amount)
  BY <1>1, AllocatedCount DEF Used, Orderly, Entitled
<1>3. Promised(spec) = Total(w)
  BY DEF Promised
<1>4. IsFiniteSet(S) /\ DOMAIN w = S /\ S \in SUBSET R
  BY <1>0, FS_Subset
<1>5. \A r \in S : w[r] \in Int /\ w[r] = table.reservation[r].amount - Allocated(ms, table.reservation[r].project)
  BY <1>0, <1>2
<1>6. \A r \in R : r \notin S => table.reservation[r].amount - Allocated(ms, table.reservation[r].project) >= 0
  BY <1>0, <1>2
<1>7. \A r \in R : table.reservation[r].project = spec.project => ~(Allocated(ms, spec.project) < table.reservation[r].amount)
  BY <1>2
<1> HIDE DEF w, S, R
<1>8. n \in Nat /\ DOMAIN list = 1..n /\ Len(list) = n
  BY <1>0, ListIs DEF R
<1>9. PICK s \in [1..n -> R] :
         Distinct(s, n) /\ \A i \in 1..n : list[i] = table.reservation[s[i]]
  BY <1>0, ListIs DEF R, Distinct
<1>20. n = Cardinality(R)
  OBVIOUS
<1> HIDE DEF n
<1>10. \A r \in R : \E i \in 1..n : s[i] = r
  <2>1. IsFiniteSet(R) /\ s \in [1..n -> R] /\ Distinct(s, n)
    BY <1>0, <1>9
  <2>2. Exhaustive(s, n, R)
    BY <2>1, <1>20, ListHasAll
  <2> QED BY <2>2 DEF Exhaustive
<1>11. ~Own(ms, spec.project, list)
  BY <1>7, <1>8, <1>9 DEF Own
<1> DEFINE part == [i \in 0..n |-> Before(s, S, i)]
<1>12. Follows(ms, list, n, S, w, part)
  <2>1. part[0] = {} /\ \A i \in 0..n : part[i] \in SUBSET S
    BY <1>8 DEF Before
  <2>2. ASSUME NEW i \in 1..n
        PROVE  /\ list[i].amount \in Int
               /\ LET more == list[i].amount - Allocated(ms, list[i].project)
                  IN  \/ part[i] = part[i - 1] /\ more >= 0
                      \/ \E x \in S : x \notin part[i - 1] /\ part[i] = part[i - 1] \cup {x} /\ w[x] <= more
    <3>1. part[i] = Before(s, S, i) /\ part[i - 1] = Before(s, S, i - 1)
      BY <1>8
    <3>2. s[i] \in R /\ list[i] = table.reservation[s[i]] /\ list[i].amount \in Int
      BY <1>0, <1>9
    <3> HIDE DEF part
    <3>3. CASE s[i] \notin S
      <4>1. part[i] = part[i - 1]
        BY <1>8, <1>9, <3>1, <3>3, BeforeGrows
      <4>2. list[i].amount - Allocated(ms, list[i].project) >= 0
        BY <1>6, <3>2, <3>3
      <4> QED BY <3>2, <4>1, <4>2
    <3>4. CASE s[i] \in S
      <4>1. s[i] \notin part[i - 1] /\ part[i] = part[i - 1] \cup {s[i]}
        BY <1>8, <1>9, <3>1, <3>4, BeforeGrows
      <4>2. w[s[i]] \in Int /\ w[s[i]] = list[i].amount - Allocated(ms, list[i].project)
        BY <1>5, <3>2, <3>4
      <4>3. w[s[i]] <= list[i].amount - Allocated(ms, list[i].project)
        BY <4>2
      <4> QED BY <3>2, <3>4, <4>1, <4>2, <4>3
    <3> QED BY <3>3, <3>4
  <2> HIDE DEF part, ms
  <2> QED BY <2>1, <2>2 DEF Follows
<1>13. part[n] = S
  BY <1>4, <1>8, <1>10 DEF Before
<1> HIDE DEF part, ms
<1>14. PICK h : Sums(S, w, h) /\ Total(w) = h[S]
  BY <1>4, TotalIs
<1>15. PICK g : /\ Standing(ms, list, n, g)
                /\ SizeReservationsAllow(ms, spec.project, list) <=>
                      Own(ms, spec.project, list) \/ g[n] < Cardinality(Candidates(ms))
  BY <1>8, AllowIs
<1>16. g[n] \in Nat /\ g[n] >= h[part[n]]
  BY <1>1, <1>4, <1>5, <1>8, <1>12, <1>14, <1>15, StandingAbove
<1>17. Cardinality(Candidates(ms)) \in Nat
  <2>1. Candidates(ms) \in SUBSET ms
    BY DEF Candidates
  <2> QED BY <1>1, <2>1, FS_Subset, FS_CardinalityType
<1>18. h[S] \in Int
  BY <1>4, <1>5, <1>14, SumOf
<1>19. g[n] < Cardinality(Candidates(ms))
  BY <1>11, <1>15 DEF ms
<1> QED BY <1>3, <1>13, <1>14, <1>16, <1>17, <1>18, <1>19 DEF ms

\* The machine that is taken is one of the candidates (machineRepository.findWaitingMachine).
LEMMA PickTakes ==
    ASSUME Inv, Counted, NEW c \in Calls, Pick(c), NEW spec, spec = call[c].spec
    PROVE  /\ call'[c].spec = spec
           /\ Cardinality(Candidates(StockOf(spec)))' = Cardinality(Candidates(StockOf(spec))) - 1
           /\ Cardinality(Candidates(StockOf(spec))) \in Nat
           /\ \E list \in ReservationLists(spec) : SizeReservationsAllow(StockOf(spec), spec.project, list)
<1>1. PICK m \in Winners(spec) : Replace(m, [m EXCEPT !.pre = TRUE])
  BY DEF Pick
<1>2. call'[c].spec = spec
  <2>1. PICK l, image, content, machine :
          Become(c, [pc |-> "commit", spec |-> spec, image |-> image, layout |-> l, content |-> content, machine |-> machine])
    BY DEF Pick
  <2> QED BY <2>1 DEF Become, Inv, Typed, PendingTyped
<1> DEFINE n == [m EXCEPT !.pre = TRUE]
<1>3. m \in machines /\ m \in Candidates(StockOf(spec))
  BY DEF Winners, SpreadAcrossRacks, Alive, Candidates, StockOf
<1>4. n.pre = TRUE
  <2>1. m \in Machine
    BY <1>3 DEF Inv, Typed, Registrations
  <2> QED BY <2>1 DEF Machine
<1>5. machines' = (machines \ {m}) \cup {n}
  BY <1>1 DEF Replace
<1> HIDE DEF n
<1>6. Candidates(StockOf(spec))' = Candidates(StockOf(spec)) \ {m}
  BY <1>4, <1>5 DEF Candidates, StockOf
<1>7. IsFiniteSet(Candidates(StockOf(spec)))
  <2>1. Candidates(StockOf(spec)) \in SUBSET machines
    BY DEF Candidates, StockOf
  <2> QED BY <2>1, FS_Subset DEF Counted
<1>8. Cardinality(Candidates(StockOf(spec)))' = Cardinality(Candidates(StockOf(spec))) - 1
  BY <1>3, <1>6, <1>7, FS_RemoveElement
<1>9. \E list \in ReservationLists(spec) : SizeReservationsAllow(StockOf(spec), spec.project, list)
  BY DEF Pick
<1> QED BY <1>2, <1>7, <1>8, <1>9, FS_CardinalityType

\* No allocation without a reservation takes a machine that others were promised (metal.SizeReservations.Validate).
LEMMA StepReserved ==
    Inv /\ Counted /\ [Next]_vars => [\A c \in Calls : Picks(c) /\ Orderly(call[c].spec) /\ ~Entitled(call[c].spec)
        => Promised(call[c].spec) <= Cardinality(Candidates(StockOf(call[c].spec))')]_vars
<1> SUFFICES ASSUME Inv, Counted, Next, NEW c \in Calls, Picks(c), Orderly(call[c].spec), ~Entitled(call[c].spec)
             PROVE  Promised(call[c].spec) <= Cardinality(Candidates(StockOf(call[c].spec))')
    OBVIOUS
<1>1. call[c].pc = "pick" /\ call'[c].pc = "commit" /\ DOMAIN call = Calls
  BY DEF Picks, Inv, Typed, PendingTyped
<1>2. Pick(c)
  <2>1. ASSUME NEW d \in Calls, NEW state, Become(d, state), state.pc # "commit" \/ d # c PROVE FALSE
    BY <1>1, <2>1 DEF Become
  <2>2. ASSUME NEW d \in Calls, NEW state, Begin(d, state), state.pc # "commit" PROVE FALSE
    BY <2>1, <2>2 DEF Begin
  <2>3. ASSUME NEW d \in Calls, Write(d) \/ Commit(d) \/ Fail(d) \/ Registered(d) \/ Marked(d) PROVE FALSE
    BY <2>1, <2>3 DEF Write, Commit, Fail, Registered, Marked, Idle
  <2>4. ASSUME NEW d \in Calls, Ask(d) PROVE FALSE
    BY <2>2, <2>4 DEF Ask
  <2>5. ASSUME NEW d \in Calls, Allocate(d) \/ Register(d) \/ SetState(d) PROVE FALSE
    BY <2>2, <2>5 DEF Allocate, Register, SetState
  <2>6. ASSUME Free \/ Die PROVE FALSE
    BY <1>1, <2>6 DEF Free, Die
  <2>7. ASSUME NEW d \in Calls, Pick(d) PROVE d = c
    <3>1. PICK state : Become(d, state)
      BY <2>7 DEF Pick
    <3> QED BY <2>1, <3>1
  <2> QED BY <2>3, <2>4, <2>5, <2>6, <2>7 DEF Next
<1>3. PICK spec : spec = call[c].spec
  OBVIOUS
<1>4. /\ call'[c].spec = spec
      /\ Cardinality(Candidates(StockOf(spec)))' = Cardinality(Candidates(StockOf(spec))) - 1
      /\ Cardinality(Candidates(StockOf(spec))) \in Nat
      /\ \E list \in ReservationLists(spec) : SizeReservationsAllow(StockOf(spec), spec.project, list)
  BY <1>2, <1>3, PickTakes
<1>5. Promised(spec) \in Int /\ Promised(spec) < Cardinality(Candidates(StockOf(spec)))
  BY <1>3, <1>4, PromiseKept
<1>6. Cardinality(Candidates(StockOf(call[c].spec))') = Cardinality(Candidates(StockOf(spec)))'
  BY <1>4
<1> QED BY <1>3, <1>4, <1>5, <1>6

\* An allocation without a reservation of its own leaves as many machines as others have reserved and not used, and none
\* boots an image that its size does not allow (metal.SizeReservations.Validate, SizeImageConstraint.Matches).
THEOREM AllocationsQualified == Spec => AllocationAllowed
<1>1. Spec => ReservationsKept
  BY CountedAlways, StepReserved, PTL DEF Spec, ReservationsKept
<1> QED BY <1>1, ImagesQualified, PTL DEF AllocationAllowed

-----------------------------------------------------------------------------
(* Machines stay spread.  The machine of a pending allocation is in a rack *)
(* that was among the least occupied ones when it was picked, and still    *)
(* is: only an allocation of the same project could have changed that, and *)
(* machines that wait become fewer.                                        *)

\* Nothing happened yet that is excepted from the spreading (the mishaps of Balanced).
InOrder == mishap \cap {"restocked", "parallel", "stale"} = {}
\* The machines of the project, and those that wait.
PeersAmong(ms, w, role) ==
    {m \in ms : /\ m.partition = w.partition /\ m.size = w.size
                /\ m.alloc # None /\ m.alloc.project = w.project /\ m.alloc.role = role}
WaitingAmong(ms, w) ==
    {m \in ms : /\ m.partition = w.partition /\ m.size = w.size
                /\ m.alloc = None /\ ~m.pre /\ m.state = "available" /\ m.alive}
\* A rack with the fewest machines of the project among those of the machines that wait.
Lowest(ms, w, role, rack) ==
    \A m \in WaitingAmong(ms, w) : In(rack, PeersAmong(ms, w, role)) <= In(m.rack, PeersAmong(ms, w, role))

\* The machine of a pending allocation is marked and in such a rack.
Chosen(c, ms) ==
    LET spec == call[c].spec
    IN  \E m \in ms : /\ m.id = call[c].machine /\ m.pre
                      /\ m.partition = spec.partition /\ m.size = spec.size
                      /\ Lowest(ms, spec, spec.role, m.rack)
\* A call that has marked a machine and is about to write its allocation.
Committing(c) == call[c].pc = "commit"
\* Pending allocations take different machines, for different projects or in different partitions.
Unrelated(c, d) ==
    /\ call[c].machine # call[d].machine
    /\ call[c].spec.project # call[d].spec.project \/ call[c].spec.partition # call[d].spec.partition

\* The parts of the invariant.
Even(ms) == \A w \in Wants, role \in {"machine", "firewall"} : Spread(ms, w, role)
PlainRequests ==
    /\ \A spec \in ops.allocate : Plain(spec, machines)
    /\ \A c \in Calls : call[c].pc = "pick" => Plain(call[c].spec, machines)
ChosenOnes ==
    /\ \A c \in Calls : Committing(c) => Chosen(c, machines)
    /\ \A c, d \in Calls : c # d /\ Committing(c) /\ Committing(d) => Unrelated(c, d)
SpreadInv == InOrder => Even(machines) /\ PlainRequests /\ ChosenOnes

\* What the property says, in terms of the sets of the invariant.
LEMMA SpreadIs ==
    ASSUME NEW ms, NEW w, NEW role
    PROVE  Spread(ms, w, role) <=>
              \A m \in WaitingAmong(ms, w), n \in PeersAmong(ms, w, role) :
                  In(n.rack, PeersAmong(ms, w, role)) <= In(m.rack, PeersAmong(ms, w, role)) + 1
<1> DEFINE stock == {m \in ms : m.partition = w.partition /\ m.size = w.size}
           peers == {m \in MachinesOf(stock, w.project) : m.alloc.role = role}
<1>1. peers = PeersAmong(ms, w, role)
  BY DEF MachinesOf, PeersAmong
<1>2. Alive(Candidates(stock)) = WaitingAmong(ms, w)
  BY DEF Alive, Candidates, WaitingAmong
<1> HIDE DEF stock, peers
<1>3. Spread(ms, w, role) <=> \A m \in Alive(Candidates(stock)), n \in peers : In(n.rack, peers) <= In(m.rack, peers) + 1
  BY DEF Spread, stock, peers
<1> QED BY <1>1, <1>2, <1>3

\* How many peers are in a rack is a number.
LEMMA InCount ==
    ASSUME NEW ms, IsFiniteSet(ms), NEW rack
    PROVE  In(rack, ms) \in Nat
<1>1. {m \in ms : m.rack = rack} \in SUBSET ms
  OBVIOUS
<1> QED BY <1>1, FS_Subset, FS_CardinalityType DEF In

\* There are finitely many peers.
LEMMA PeersFinite ==
    ASSUME NEW ms, IsFiniteSet(ms), NEW w, NEW role
    PROVE  IsFiniteSet(PeersAmong(ms, w, role)) /\ \A rack : In(rack, PeersAmong(ms, w, role)) \in Nat
<1>1. PeersAmong(ms, w, role) \in SUBSET ms
  BY DEF PeersAmong
<1>2. IsFiniteSet(PeersAmong(ms, w, role))
  BY <1>1, FS_Subset
<1> QED BY <1>2, InCount

\* The winner of the spreading stands in a rack with the fewest machines of the project, if tags do not tell racks apart
\* (machineRepository.spreadAcrossRacks).
LEMMA WinnerLowest ==
    ASSUME NEW available, IsFiniteSet(available), NEW peers, IsFiniteSet(peers),
           NEW tags, \A x \in peers : x.tags \cap tags = {},
           NEW m \in SpreadAcrossRacks(available, peers, tags)
    PROVE  m \in available /\ \A a \in available : In(m.rack, peers) <= In(a.rack, peers)
<1> DEFINE racks == RacksOf(available)
           byTags == ElectRacks([r \in racks |-> TaggedIn(r, peers, tags)])
           byProject == ElectRacks([r \in racks |-> In(r, peers)])
           elected == IF byTags \cap byProject # {} THEN byTags \cap byProject ELSE byTags
<1>1. m \in available /\ m.rack \in elected
  BY DEF SpreadAcrossRacks
<1>2. \A r : TaggedIn(r, peers, tags) = 0
  <2> TAKE r
  <2>1. {x \in peers \X tags : x[1].rack = r /\ x[2] \in x[1].tags} = {}
    OBVIOUS
  <2> QED BY <2>1, FS_EmptySet DEF TaggedIn
<1>3. byTags = racks
  BY <1>2 DEF ElectRacks
<1>4. \A r \in byProject : r \in racks /\ \A s \in racks : In(r, peers) <= In(s, peers)
  BY DEF ElectRacks
<1>5. \A a \in available : a.rack \in racks
  BY DEF RacksOf
<1>6. byProject # {}
  <2> DEFINE f == [a \in available |-> 0 - In(a.rack, peers)]
  <2>1. \A a \in available : f[a] \in Int /\ f[a] = 0 - In(a.rack, peers) /\ In(a.rack, peers) \in Nat
    BY InCount
  <2> HIDE DEF f
  <2>2. PICK a \in available : \A b \in available : f[b] <= f[a]
    BY <1>1, <2>1, Greatest
  <2>3. \A b \in available : In(a.rack, peers) <= In(b.rack, peers)
    BY <2>1, <2>2
  <2>4. \A s \in racks : In(a.rack, peers) <= In(s, peers)
    BY <2>3 DEF RacksOf
  <2>5. a.rack \in byProject
    BY <1>5, <2>4 DEF ElectRacks
  <2> QED BY <2>5
<1> HIDE DEF racks, byTags, byProject
<1>7. m.rack \in byProject
  <2>1. byTags \cap byProject # {}
    BY <1>3, <1>4, <1>6
  <2> QED BY <1>1, <2>1
<1> QED BY <1>1, <1>4, <1>5, <1>7

\* A machine that is replaced by one that stands in the same place.
Placed(m, n) == n.id = m.id /\ n.rack = m.rack /\ n.partition = m.partition /\ n.size = m.size
\* Machines are registered once.
Unique(ms) == \A m, n \in ms : m.id = n.id => m = n

\* If it keeps its allocation, no rack has more or less of any project.
LEMMA SamePeers ==
    ASSUME NEW ms, IsFiniteSet(ms), Unique(ms), NEW m \in ms, NEW n, Placed(m, n), n.alloc = m.alloc,
           NEW ns, ns = (ms \ {m}) \cup {n}, NEW w, NEW role
    PROVE  /\ \A rack : In(rack, PeersAmong(ns, w, role)) = In(rack, PeersAmong(ms, w, role))
           /\ \A x \in PeersAmong(ns, w, role) : \E y \in PeersAmong(ms, w, role) : y.rack = x.rack
<1> DEFINE P == PeersAmong(ms, w, role)
           Q == PeersAmong(ns, w, role)
<1>1. m \in P <=> n \in Q
  BY DEF PeersAmong, Placed
<1>2. \A x : x # m /\ x # n => (x \in P <=> x \in Q)
  BY DEF PeersAmong
<1>3. n \in ms => n = m
  BY DEF Unique, Placed
<1>4. P \subseteq ms /\ Q \subseteq ns
  BY DEF PeersAmong
<1> HIDE DEF P, Q
<1>5. Q = IF m \in P THEN (P \ {m}) \cup {n} ELSE P
  BY <1>1, <1>2, <1>3, <1>4
<1>6. ASSUME NEW rack PROVE In(rack, Q) = In(rack, P)
  <2> DEFINE A == {x \in P : x.rack = rack}
             B == {x \in Q : x.rack = rack}
  <2>1. IsFiniteSet(A)
    <3>1. A \in SUBSET ms
      BY <1>4
    <3> QED BY <3>1, FS_Subset
  <2>2. CASE m \in A
    <3>1. B = (A \ {m}) \cup {n} /\ n \notin A \ {m}
      BY <1>3, <1>4, <1>5, <2>2 DEF Placed
    <3> HIDE DEF A, B
    <3>2. IsFiniteSet(A \ {m}) /\ Cardinality(A \ {m}) = Cardinality(A) - 1 /\ Cardinality(A) \in Nat
      BY <2>1, <2>2, FS_RemoveElement, FS_CardinalityType
    <3>3. Cardinality(B) = Cardinality(A \ {m}) + 1
      BY <3>1, <3>2, FS_AddElement
    <3>4. Cardinality(B) = Cardinality(A)
      BY <3>2, <3>3
    <3> QED BY <3>4 DEF In, A, B
  <2>3. CASE m \notin A
    <3>1. B = A
      BY <1>3, <1>4, <1>5, <2>3 DEF Placed
    <3> QED BY <3>1 DEF In
  <2> QED BY <2>2, <2>3
<1>7. ASSUME NEW x \in Q PROVE \E y \in P : y.rack = x.rack
  BY <1>5 DEF Placed
<1> QED BY <1>6, <1>7 DEF P, Q

\* A machine that does not wait.
Taken(n) == n.alloc # None \/ n.pre \/ ~n.alive \/ n.state # "available"

\* If it does not wait, machines stay spread.
LEMMA SpreadStays ==
    ASSUME NEW ms, IsFiniteSet(ms), Unique(ms), NEW m \in ms, NEW n, Placed(m, n), n.alloc = m.alloc, Taken(n),
           NEW ns, ns = (ms \ {m}) \cup {n}, NEW w, NEW role
    PROVE  /\ Spread(ms, w, role) => Spread(ns, w, role)
           /\ \A rack : Lowest(ms, w, role, rack) => Lowest(ns, w, role, rack)
<1>1. WaitingAmong(ns, w) \subseteq WaitingAmong(ms, w)
  BY DEF WaitingAmong, Taken
<1>2. /\ \A rack : In(rack, PeersAmong(ns, w, role)) = In(rack, PeersAmong(ms, w, role))
      /\ \A x \in PeersAmong(ns, w, role) : \E y \in PeersAmong(ms, w, role) : y.rack = x.rack
  BY SamePeers
<1>3. ASSUME NEW rack, Lowest(ms, w, role, rack) PROVE Lowest(ns, w, role, rack)
  BY <1>1, <1>2, <1>3 DEF Lowest
<1>4. ASSUME Spread(ms, w, role) PROVE Spread(ns, w, role)
  <2> SUFFICES ASSUME NEW a \in WaitingAmong(ns, w), NEW x \in PeersAmong(ns, w, role)
               PROVE  In(x.rack, PeersAmong(ns, w, role)) <= In(a.rack, PeersAmong(ns, w, role)) + 1
      BY SpreadIs
  <2>1. PICK y \in PeersAmong(ms, w, role) : y.rack = x.rack
    BY <1>2
  <2>2. In(y.rack, PeersAmong(ms, w, role)) <= In(a.rack, PeersAmong(ms, w, role)) + 1
    BY <1>1, <1>4, SpreadIs
  <2> QED BY <1>2, <2>1, <2>2
<1> QED BY <1>3, <1>4

\* A machine that is allocated in a rack with the fewest machines of its project does not tilt them.
LEMMA SpreadGrows ==
    ASSUME NEW ms, IsFiniteSet(ms), Unique(ms), NEW m \in ms, NEW n, Placed(m, n), m.alloc = None, n.alloc # None,
           NEW ns, ns = (ms \ {m}) \cup {n}, NEW w, NEW role,
           Spread(ms, w, role), n \in PeersAmong(ns, w, role) => Lowest(ms, w, role, m.rack)
    PROVE  Spread(ns, w, role)
<1> DEFINE P == PeersAmong(ms, w, role)
           Q == PeersAmong(ns, w, role)
<1>1. WaitingAmong(ns, w) \subseteq WaitingAmong(ms, w)
  BY DEF WaitingAmong
<1>2. n \notin P /\ m \notin P
  BY DEF PeersAmong, Unique, Placed
<1>3. Q = IF n \in Q THEN P \cup {n} ELSE P
  BY <1>2 DEF PeersAmong
<1>4. IsFiniteSet(P) /\ \A rack : In(rack, P) \in Nat
  BY PeersFinite
<1> SUFFICES ASSUME NEW a \in WaitingAmong(ns, w), NEW x \in Q
             PROVE  In(x.rack, Q) <= In(a.rack, Q) + 1
    BY SpreadIs
<1>5. a \in WaitingAmong(ms, w)
  BY <1>1
<1>6. CASE n \notin Q
  BY <1>3, <1>5, <1>6, SpreadIs
<1>7. CASE n \in Q
  <2> HIDE DEF P, Q
  <2>1. ASSUME NEW rack PROVE In(rack, Q) = IF rack = n.rack THEN In(rack, P) + 1 ELSE In(rack, P)
    <3> DEFINE A == {y \in P : y.rack = rack}
               B == {y \in Q : y.rack = rack}
    <3>1. IsFiniteSet(A)
      <4>1. A \in SUBSET P
        OBVIOUS
      <4> QED BY <1>4, <4>1, FS_Subset
    <3>2. CASE rack = n.rack
      <4>1. B = A \cup {n} /\ n \notin A
        BY <1>2, <1>3, <1>7, <3>2
      <4> HIDE DEF A, B
      <4>2. Cardinality(B) = Cardinality(A) + 1
        BY <3>1, <4>1, FS_AddElement
      <4> QED BY <3>2, <4>2 DEF In, A, B
    <3>3. CASE rack # n.rack
      <4>1. B = A
        BY <1>3, <1>7, <3>3
      <4> QED BY <3>3, <4>1 DEF In
    <3> QED BY <3>2, <3>3
  <2>2. In(n.rack, P) <= In(a.rack, P)
    BY <1>5, <1>7 DEF Lowest, Placed, P, Q
  <2>3. In(x.rack, P) \in Nat /\ In(a.rack, P) \in Nat
    BY <1>4
  <2>4. CASE x.rack = n.rack
    BY <2>1, <2>2, <2>3, <2>4
  <2>5. CASE x.rack # n.rack
    <3>1. x \in P
      BY <1>3, <1>7, <2>5
    <3>2. In(x.rack, P) <= In(a.rack, P) + 1
      BY <1>5, <3>1, SpreadIs DEF P
    <3> QED BY <2>1, <2>3, <2>5, <3>2
  <2> QED BY <2>4, <2>5
<1> QED BY <1>6, <1>7

\* Whoever else waits for its commit is not concerned by the machine of another project.
LEMMA LowestApart ==
    ASSUME NEW ms, NEW m \in ms, NEW n, n.alloc # None, m.alloc = None, NEW ns, ns = (ms \ {m}) \cup {n},
           NEW w, NEW role, NEW rack, Lowest(ms, w, role, rack), ~(n.partition = w.partition /\ n.alloc.project = w.project)
    PROVE  Lowest(ns, w, role, rack)
<1>1. PeersAmong(ns, w, role) = PeersAmong(ms, w, role)
  BY DEF PeersAmong
<1>2. WaitingAmong(ns, w) \subseteq WaitingAmong(ms, w)
  BY DEF WaitingAmong
<1> QED BY <1>1, <1>2 DEF Lowest

\* What is asked for stays plain, if no machine gets other tags than that of its rack.
LEMMA PlainStays ==
    ASSUME NEW spec, NEW ms, Plain(spec, ms), NEW m \in ms, NEW n, n.rack = m.rack, n.tags \subseteq m.tags \cup {m.rack},
           NEW ns, ns = (ms \ {m}) \cup {n}
    PROVE  Plain(spec, ns)
BY DEF Plain

\* Machines change, and calls, as the actions say.
LEMMA PlacedMachine ==
    ASSUME Inv, NEW m \in machines
    PROVE  /\ Placed(m, [m EXCEPT !.pre = TRUE]) /\ [m EXCEPT !.pre = TRUE].alloc = m.alloc
           /\ [m EXCEPT !.pre = TRUE].pre /\ [m EXCEPT !.pre = TRUE].tags = m.tags
           /\ Placed(m, [m EXCEPT !.alive = FALSE]) /\ [m EXCEPT !.alive = FALSE].alloc = m.alloc
           /\ ~[m EXCEPT !.alive = FALSE].alive /\ [m EXCEPT !.alive = FALSE].tags = m.tags
           /\ [m EXCEPT !.alive = FALSE].pre = m.pre
           /\ \A s \in States : LET n == [m EXCEPT !.state = s]
                               IN  Placed(m, n) /\ n.alloc = m.alloc /\ n.tags = m.tags /\ n.pre = m.pre /\ n.state = s
           /\ \A a : LET n == [m EXCEPT !.pre = FALSE, !.tags = {m.rack}, !.alloc = a]
                     IN  Placed(m, n) /\ n.alloc = a /\ n.tags = {m.rack}
<1>1. m \in Machine
  BY DEF Inv, Typed, Registrations
<1> QED BY <1>1 DEF Machine, Placed

\* They are, by the invariant of the rows.
LEMMA MachinesUnique == Inv => Unique(machines)
BY DEF Inv, Typed, Registrations, Unique

\* The machine of a pending call is still chosen, if another one is replaced, or itself by one that is as well picked.
LEMMA ChosenStays ==
    ASSUME Inv, NEW c \in Calls, Chosen(c, machines), NEW m \in machines, NEW n, Placed(m, n), NEW ns, Replace(m, n),
           ns = machines', m.id = call[c].machine => n.pre,
           \A rack : Lowest(machines, call[c].spec, call[c].spec.role, rack) => Lowest(ns, call[c].spec, call[c].spec.role, rack),
           call'[c] = call[c]
    PROVE  Chosen(c, ns) /\ (Chosen(c, machines))'
<1>1. PICK k \in machines : /\ k.id = call[c].machine /\ k.pre
                            /\ k.partition = call[c].spec.partition /\ k.size = call[c].spec.size
                            /\ Lowest(machines, call[c].spec, call[c].spec.role, k.rack)
  BY DEF Chosen
<1>2. ns = (machines \ {m}) \cup {n}
  BY DEF Replace
<1> DEFINE z == IF k = m THEN n ELSE k
<1>3. z \in ns /\ z.id = call[c].machine /\ z.pre /\ z.partition = k.partition /\ z.size = k.size /\ z.rack = k.rack
  BY <1>1, <1>2 DEF Placed
<1>4. Chosen(c, ns)
  BY <1>1, <1>3 DEF Chosen
<1> QED BY <1>4 DEF Chosen

\* As long as no machine changes, and no call commits that did not before, machines are spread as they were.
LEMMA SpreadQuiet ==
    ASSUME SpreadInv, InOrder' => InOrder, machines' = machines, PlainRequests => PlainRequests',
           \A c \in Calls : Committing(c)' => call'[c] = call[c]
    PROVE  SpreadInv'
<1> SUFFICES ASSUME InOrder' PROVE Even(machines)' /\ PlainRequests' /\ ChosenOnes'
    BY DEF SpreadInv
<1>1. InOrder /\ Even(machines) /\ PlainRequests /\ ChosenOnes
  BY DEF SpreadInv
<1>2. Even(machines)'
  BY <1>1 DEF Even
<1>3. \A c \in Calls : Committing(c)' => call'[c] = call[c] /\ Committing(c)
  BY DEF Committing
<1>4. ChosenOnes'
  <2>1. ASSUME NEW c \in Calls, Committing(c)' PROVE Chosen(c, machines)'
    BY <1>1, <1>3, <2>1 DEF ChosenOnes, Chosen
  <2>2. ASSUME NEW c \in Calls, NEW d \in Calls, c # d, Committing(c)', Committing(d)' PROVE Unrelated(c, d)'
    BY <1>1, <1>3, <2>2 DEF ChosenOnes, Unrelated
  <2> QED BY <2>1, <2>2 DEF ChosenOnes
<1> QED BY <1>1, <1>2, <1>4

\* A call that does not pick begins, or a call ends.
LEMMA SpreadBecome ==
    ASSUME Inv, SpreadInv, InOrder' => InOrder, machines' = machines, NEW c \in Calls, NEW state, Become(c, state),
           state.pc # "commit", state.pc = "pick" => state.spec \in ops.allocate, ops'.allocate = ops.allocate
    PROVE  SpreadInv'
<1>1. DOMAIN call = Calls
  BY DEF Inv, Typed, PendingTyped
<1>2. \A d \in Calls : call'[d] = IF d = c THEN state ELSE call[d]
  BY <1>1 DEF Become
<1>3. PlainRequests => PlainRequests'
  <2> SUFFICES ASSUME PlainRequests PROVE PlainRequests'
      OBVIOUS
  <2>1. \A spec \in ops'.allocate : Plain(spec, machines')
    BY DEF PlainRequests
  <2>2. ASSUME NEW d \in Calls, call'[d].pc = "pick" PROVE Plain(call'[d].spec, machines')
    BY <1>2, <2>2 DEF PlainRequests
  <2> QED BY <2>1, <2>2 DEF PlainRequests
<1>4. \A d \in Calls : Committing(d)' => call'[d] = call[d]
  BY <1>2 DEF Committing
<1> QED BY <1>3, <1>4, SpreadQuiet

\* Mishaps are not forgotten.
LEMMA OrderKept ==
    ASSUME NEW what, Note(what)
    PROVE  InOrder' => InOrder /\ what \cap {"restocked", "parallel", "stale"} = {}
BY DEF Note, InOrder

\* The pick marks a machine in a rack with the fewest of the project (machineRepository.findWaitingMachine).
LEMMA SpreadPick ==
    ASSUME Inv, Counted, SpreadInv, NEW c \in Calls, Pick(c)
    PROVE  SpreadInv'
<1> SUFFICES ASSUME InOrder' PROVE Even(machines)' /\ PlainRequests' /\ ChosenOnes'
    BY DEF SpreadInv
<1>1. PICK spec : spec = call[c].spec
  OBVIOUS
<1>2. call[c].pc = "pick" /\ ops' = ops
  BY DEF Pick
<1>3. InOrder /\ PickingFor(spec) = {}
  <2>1. PICK what : Note(what \cup If(PickingFor(spec) # {}, "parallel"))
    BY <1>1 DEF Pick
  <2> QED BY <2>1, OrderKept DEF If
<1>4. Even(machines) /\ PlainRequests /\ ChosenOnes
  BY <1>3 DEF SpreadInv
<1>5. PICK m \in Winners(spec) :
         /\ Replace(m, [m EXCEPT !.pre = TRUE])
         /\ \E l, image, content :
              Become(c, [pc |-> "commit", spec |-> spec, image |-> image, layout |-> l, content |-> content, machine |-> m.id])
  BY <1>1 DEF Pick
<1>6. DOMAIN call = Calls /\ call'[c].pc = "commit" /\ call'[c].spec = spec /\ call'[c].machine = m.id
      /\ \A d \in Calls \ {c} : call'[d] = call[d]
  BY <1>5 DEF Become, Inv, Typed, PendingTyped
<1> DEFINE P == PeersAmong(machines, spec, spec.role)
           W == WaitingAmong(machines, spec)
<1>7. Peers(spec) = P /\ Alive(Candidates(StockOf(spec))) = W
  BY DEF Peers, MachinesOf, StockOf, PeersAmong, Alive, Candidates, WaitingAmong
<1>8. m \in W /\ \A a \in W : In(m.rack, P) <= In(a.rack, P)
  <2>1. IsFiniteSet(W) /\ IsFiniteSet(P)
    <3>1. W \in SUBSET machines
      BY DEF WaitingAmong
    <3> QED BY <3>1, FS_Subset, PeersFinite DEF Counted
  <2>2. \A x \in P : x.tags \cap spec.tags = {}
    BY <1>1, <1>2, <1>4 DEF PlainRequests, Plain, PeersAmong
  <2>3. m \in SpreadAcrossRacks(W, P, spec.tags)
    BY <1>7 DEF Winners
  <2> HIDE DEF W, P
  <2> QED BY <2>1, <2>2, <2>3, WinnerLowest
<1>9. Lowest(machines, spec, spec.role, m.rack)
  BY <1>8 DEF Lowest
<1>10. m \in machines /\ m.partition = spec.partition /\ m.size = spec.size /\ ~m.pre
  BY <1>8 DEF WaitingAmong
<1> HIDE DEF P, W
<1>11. PICK n : n = [m EXCEPT !.pre = TRUE]
  OBVIOUS
<1>12. Placed(m, n) /\ n.alloc = m.alloc /\ n.pre /\ n.tags = m.tags /\ Replace(m, n)
  BY <1>5, <1>10, <1>11, PlacedMachine
<1>13. PICK ns : ns = machines' /\ ns = (machines \ {m}) \cup {n}
  BY <1>12 DEF Replace
<1>14. \A w, role : /\ Spread(machines, w, role) => Spread(ns, w, role)
                    /\ \A rack : Lowest(machines, w, role, rack) => Lowest(ns, w, role, rack)
  BY <1>10, <1>12, <1>13, SpreadStays, MachinesUnique DEF Counted, Taken
<1>15. Even(machines)'
  BY <1>4, <1>13, <1>14 DEF Even
<1>16. PlainRequests'
  <2>1. ASSUME NEW s, Plain(s, machines) PROVE Plain(s, ns)
    BY <1>10, <1>12, <1>13, <2>1, PlainStays DEF Placed
  <2>2. \A d \in Calls : call'[d].pc = "pick" => call'[d] = call[d]
    BY <1>6
  <2> QED BY <1>2, <1>4, <1>13, <2>1, <2>2 DEF PlainRequests
<1>17. ASSUME NEW d \in Calls, d # c, Committing(d)
       PROVE  Chosen(d, machines)' /\ m.id # call[d].machine
              /\ (call[d].spec.project # spec.project \/ call[d].spec.partition # spec.partition)
  <2>1. Chosen(d, machines) /\ call'[d] = call[d]
    BY <1>4, <1>6, <1>17 DEF ChosenOnes
  <2>2. Chosen(d, machines)'
    BY <1>10, <1>12, <1>13, <1>14, <2>1, ChosenStays
  <2>3. m.id # call[d].machine
    BY <1>10, <2>1, MachinesUnique DEF Chosen, Unique
  <2>4. d \notin PickingFor(spec)
    BY <1>3
  <2> QED BY <1>17, <2>2, <2>3, <2>4 DEF PickingFor, Committing
<1>18. Chosen(c, machines)'
  <2>1. n \in ns /\ n.id = m.id /\ n.partition = spec.partition /\ n.size = spec.size /\ n.rack = m.rack
    BY <1>10, <1>12, <1>13 DEF Placed
  <2>2. Lowest(ns, spec, spec.role, n.rack)
    BY <1>9, <1>14, <2>1
  <2> QED BY <1>6, <1>12, <1>13, <2>1, <2>2 DEF Chosen
<1>19. ChosenOnes'
  <2>1. \A d \in Calls : Committing(d)' => d = c \/ (Committing(d) /\ call'[d] = call[d])
    BY <1>6 DEF Committing
  <2>2. ASSUME NEW d \in Calls, Committing(d)' PROVE Chosen(d, machines)'
    BY <1>17, <1>18, <2>1, <2>2
  <2>3. ASSUME NEW d \in Calls, NEW e \in Calls, d # e, Committing(d)', Committing(e)' PROVE Unrelated(d, e)'
    <3>1. CASE d # c /\ e # c
      BY <1>4, <2>1, <2>3, <3>1 DEF ChosenOnes, Unrelated
    <3>2. CASE d = c
      BY <1>6, <1>17, <2>1, <2>3, <3>2 DEF Unrelated
    <3>3. CASE e = c
      BY <1>6, <1>17, <2>1, <2>3, <3>3 DEF Unrelated
    <3> QED BY <3>1, <3>2, <3>3
  <2> QED BY <2>2, <2>3 DEF ChosenOnes
<1> QED BY <1>15, <1>16, <1>19

\* The commit allocates the machine that was picked (machineRepository.create).
LEMMA SpreadCommit ==
    ASSUME Inv, Counted, SpreadInv, NEW c \in Calls, Commit(c)
    PROVE  SpreadInv'
<1> SUFFICES ASSUME InOrder' PROVE Even(machines)' /\ PlainRequests' /\ ChosenOnes'
    BY DEF SpreadInv
<1>1. PICK k : k = call[c]
  OBVIOUS
<1>2. k.pc = "commit" /\ ops' = ops /\ Become(c, Idle) /\ InOrder
  <2>1. PICK what : Note(what)
    BY DEF Commit
  <2> QED BY <1>1, <2>1, OrderKept DEF Commit
<1>3. DOMAIN call = Calls /\ call'[c] = Idle /\ \A d \in Calls \ {c} : call'[d] = call[d]
  BY <1>2 DEF Become, Inv, Typed, PendingTyped
<1>4. Even(machines) /\ PlainRequests /\ ChosenOnes
  BY <1>2 DEF SpreadInv
<1>5. PICK a : a = [project |-> k.spec.project, role |-> k.spec.role, image |-> k.image, layout |-> k.layout]
  OBVIOUS
<1>6. a # None /\ a.project = k.spec.project /\ a.role = k.spec.role
  <2>1. SpecOK(k.spec) /\ k.image \in Ids["image"] /\ k.layout \in Ids["layout"]
    BY <1>1, <1>2 DEF Inv, Typed, PendingTyped, CallOK
  <2>2. a \in [project : Projects, role : {"machine", "firewall"}, image : Ids["image"], layout : Ids["layout"]]
    BY <1>5, <2>1 DEF SpecOK
  <2> QED BY <1>5, <2>2, NoneAssumption
<1>7. PICK m \in machines : /\ m.id = k.machine /\ m.alloc = None
                            /\ Replace(m, [m EXCEPT !.pre = FALSE, !.tags = {m.rack}, !.alloc = a])
  BY <1>1, <1>5 DEF Commit
<1>8. PICK n : n = [m EXCEPT !.pre = FALSE, !.tags = {m.rack}, !.alloc = a]
  OBVIOUS
<1>9. Placed(m, n) /\ n.alloc = a /\ n.tags = {m.rack} /\ Replace(m, n)
  BY <1>7, <1>8, PlacedMachine
<1>10. PICK ns : ns = machines' /\ ns = (machines \ {m}) \cup {n}
  BY <1>9 DEF Replace
<1>11. m.partition = k.spec.partition /\ m.size = k.spec.size /\ Lowest(machines, k.spec, k.spec.role, m.rack)
  <2>1. Chosen(c, machines)
    BY <1>1, <1>2, <1>4 DEF ChosenOnes, Committing
  <2>2. PICK x \in machines : /\ x.id = k.machine /\ x.partition = k.spec.partition /\ x.size = k.spec.size
                              /\ Lowest(machines, k.spec, k.spec.role, x.rack)
    BY <1>1, <2>1 DEF Chosen
  <2>3. x = m
    BY <1>7, <2>2, MachinesUnique DEF Unique
  <2> QED BY <2>2, <2>3
<1>12. Even(machines)'
  <2> SUFFICES ASSUME NEW w \in Wants, NEW role \in {"machine", "firewall"} PROVE Spread(ns, w, role)
      BY <1>10 DEF Even
  <2>1. ASSUME n \in PeersAmong(ns, w, role) PROVE Lowest(machines, w, role, m.rack)
    <3>1. /\ w.partition = k.spec.partition /\ w.size = k.spec.size /\ w.project = k.spec.project /\ role = k.spec.role
      BY <1>6, <1>9, <1>11, <2>1 DEF PeersAmong, Placed
    <3>2. PeersAmong(machines, w, role) = PeersAmong(machines, k.spec, k.spec.role)
      BY <3>1 DEF PeersAmong
    <3>3. WaitingAmong(machines, w) = WaitingAmong(machines, k.spec)
      BY <3>1 DEF WaitingAmong
    <3> QED BY <1>11, <3>2, <3>3 DEF Lowest
  <2>2. Spread(machines, w, role)
    BY <1>4 DEF Even
  <2> QED BY <1>6, <1>7, <1>9, <1>10, <2>1, <2>2, SpreadGrows, MachinesUnique DEF Counted
<1>13. PlainRequests'
  <2>1. ASSUME NEW s, Plain(s, machines) PROVE Plain(s, ns)
    BY <1>7, <1>9, <1>10, <2>1, PlainStays DEF Placed
  <2>2. \A d \in Calls : call'[d].pc = "pick" => call'[d] = call[d]
    BY <1>3 DEF Idle
  <2> QED BY <1>2, <1>4, <1>10, <2>1, <2>2 DEF PlainRequests
<1>14. \A d \in Calls : Committing(d)' => d # c /\ Committing(d) /\ call'[d] = call[d]
  BY <1>3 DEF Committing, Idle
<1>15. ASSUME NEW d \in Calls, Committing(d)' PROVE Chosen(d, machines)'
  <2>1. Chosen(d, machines) /\ Unrelated(c, d) /\ call'[d] = call[d]
    BY <1>1, <1>2, <1>4, <1>14, <1>15 DEF ChosenOnes, Committing
  <2>2. m.id # call[d].machine
    BY <1>1, <1>7, <2>1 DEF Unrelated
  <2>3. ~(n.partition = call[d].spec.partition /\ n.alloc.project = call[d].spec.project)
    BY <1>1, <1>6, <1>9, <1>11, <2>1 DEF Unrelated, Placed
  <2>4. \A rack : Lowest(machines, call[d].spec, call[d].spec.role, rack) => Lowest(ns, call[d].spec, call[d].spec.role, rack)
    BY <1>6, <1>7, <1>9, <1>10, <2>3, LowestApart
  <2> QED BY <1>7, <1>9, <1>10, <2>1, <2>2, <2>4, ChosenStays
<1>16. ASSUME NEW d \in Calls, NEW e \in Calls, d # e, Committing(d)', Committing(e)' PROVE Unrelated(d, e)'
  BY <1>4, <1>14, <1>16 DEF ChosenOnes, Unrelated
<1> QED BY <1>12, <1>13, <1>15, <1>16 DEF ChosenOnes

\* A machine that dies waits no longer.
LEMMA SpreadDie ==
    ASSUME Inv, Counted, SpreadInv, Die
    PROVE  SpreadInv'
<1> SUFFICES ASSUME InOrder' PROVE Even(machines)' /\ PlainRequests' /\ ChosenOnes'
    BY DEF SpreadInv
<1>1. call' = call /\ ops'.allocate = ops.allocate /\ InOrder
  BY DEF Die, InOrder, Inv, Typed, AskedFor
<1>2. Even(machines) /\ PlainRequests /\ ChosenOnes
  BY <1>1 DEF SpreadInv
<1>3. PICK m \in machines : Replace(m, [m EXCEPT !.alive = FALSE])
  BY DEF Die
<1>4. PICK n : n = [m EXCEPT !.alive = FALSE]
  OBVIOUS
<1>5. Placed(m, n) /\ n.alloc = m.alloc /\ ~n.alive /\ n.tags = m.tags /\ n.pre = m.pre /\ Replace(m, n)
  BY <1>3, <1>4, PlacedMachine
<1>6. PICK ns : ns = machines' /\ ns = (machines \ {m}) \cup {n}
  BY <1>5 DEF Replace
<1>7. \A w, role : /\ Spread(machines, w, role) => Spread(ns, w, role)
                   /\ \A rack : Lowest(machines, w, role, rack) => Lowest(ns, w, role, rack)
  BY <1>5, <1>6, SpreadStays, MachinesUnique DEF Counted, Taken
<1>8. Even(machines)'
  BY <1>2, <1>6, <1>7 DEF Even
<1>9. PlainRequests'
  <2>1. ASSUME NEW s, Plain(s, machines) PROVE Plain(s, ns)
    BY <1>5, <1>6, <2>1, PlainStays DEF Placed
  <2> QED BY <1>1, <1>2, <1>6, <2>1 DEF PlainRequests
<1>10. ASSUME NEW d \in Calls, Committing(d)' PROVE Chosen(d, machines)'
  <2>1. Chosen(d, machines)
    BY <1>1, <1>2, <1>10 DEF ChosenOnes, Committing
  <2>2. m.id = call[d].machine => n.pre
    BY <1>5, <2>1, MachinesUnique DEF Chosen, Unique
  <2> QED BY <1>1, <1>5, <1>6, <1>7, <2>1, <2>2, ChosenStays
<1>11. ASSUME NEW d \in Calls, NEW e \in Calls, d # e, Committing(d)', Committing(e)' PROVE Unrelated(d, e)'
  BY <1>1, <1>2, <1>11 DEF ChosenOnes, Unrelated, Committing
<1> QED BY <1>8, <1>9, <1>10, <1>11 DEF ChosenOnes

\* A machine that is locked or tainted waits no longer.
LEMMA SpreadMarked ==
    ASSUME Inv, Counted, SpreadInv, NEW c \in Calls, Marked(c)
    PROVE  SpreadInv'
<1> SUFFICES ASSUME InOrder' PROVE Even(machines)' /\ PlainRequests' /\ ChosenOnes'
    BY DEF SpreadInv
<1>0. /\ Become(c, Idle) /\ ops' = ops /\ call[c].pc = "mark" /\ call[c].state \in States
      /\ mishap' = mishap \cup If(call[c].state = "available", "restocked")
  BY DEF Marked, Note, Inv, Typed, PendingTyped, CallOK
<1>1. InOrder /\ call[c].state # "available"
  BY <1>0 DEF InOrder, If
<1>12. \A d \in Calls : (call'[d].pc \in {"commit", "pick"} => call'[d] = call[d]) /\ (Committing(d)' => Committing(d))
  BY <1>0 DEF Become, Idle, Inv, Typed, PendingTyped, Committing
<1>2. Even(machines) /\ PlainRequests /\ ChosenOnes
  BY <1>1 DEF SpreadInv
<1>3. PICK m \in machines : Replace(m, [m EXCEPT !.state = call[c].state])
  BY DEF Marked
<1>4. PICK n : n = [m EXCEPT !.state = call[c].state]
  OBVIOUS
<1>5. Placed(m, n) /\ n.alloc = m.alloc /\ n.state # "available" /\ n.tags = m.tags /\ n.pre = m.pre /\ Replace(m, n)
  BY <1>0, <1>1, <1>3, <1>4, PlacedMachine
<1>6. PICK ns : ns = machines' /\ ns = (machines \ {m}) \cup {n}
  BY <1>5 DEF Replace
<1>7. \A w, role : /\ Spread(machines, w, role) => Spread(ns, w, role)
                   /\ \A rack : Lowest(machines, w, role, rack) => Lowest(ns, w, role, rack)
  BY <1>5, <1>6, SpreadStays, MachinesUnique DEF Counted, Taken
<1>8. Even(machines)'
  BY <1>2, <1>6, <1>7 DEF Even
<1>9. PlainRequests'
  <2>1. ASSUME NEW s, Plain(s, machines) PROVE Plain(s, ns)
    BY <1>5, <1>6, <2>1, PlainStays DEF Placed
  <2> QED BY <1>0, <1>12, <1>2, <1>6, <2>1 DEF PlainRequests
<1>10. ASSUME NEW d \in Calls, Committing(d)' PROVE Chosen(d, machines)'
  <2>1. Chosen(d, machines)
    BY <1>12, <1>2, <1>10 DEF ChosenOnes
  <2>2. m.id = call[d].machine => n.pre
    BY <1>5, <2>1, MachinesUnique DEF Chosen, Unique
  <2>3. call'[d] = call[d]
    BY <1>12, <1>10 DEF Committing
  <2>4. m.id = call[d].machine => n.pre
    BY <2>2
  <2> QED BY <1>5, <1>6, <1>7, <2>1, <2>3, <2>4, ChosenStays
<1>11. ASSUME NEW d \in Calls, NEW e \in Calls, d # e, Committing(d)', Committing(e)' PROVE Unrelated(d, e)'
  <2>1. call'[d] = call[d] /\ call'[e] = call[e] /\ Committing(d) /\ Committing(e)
    BY <1>12, <1>11 DEF Committing
  <2> QED BY <1>2, <1>11, <2>1 DEF ChosenOnes, Unrelated
<1> QED BY <1>8, <1>9, <1>10, <1>11 DEF ChosenOnes

\* Every step keeps machines spread.
LEMMA SpreadNext == Inv /\ Counted /\ SpreadInv /\ [Next]_vars => SpreadInv'
<1> SUFFICES ASSUME Inv, Counted, SpreadInv, [Next]_vars PROVE SpreadInv'
    OBVIOUS
<1>1. \A state : \A c \in Calls : Begin(c, state) => Become(c, state) /\ ops'.allocate = ops.allocate
  BY DEF Begin, Inv, Typed, AskedFor
<1>2. ASSUME NEW c \in Calls, Ask(c) PROVE SpreadInv'
  <2>1. PICK state : Begin(c, state) /\ state.pc = "write"
    BY <1>2 DEF Ask
  <2>2. machines' = machines /\ mishap' = mishap
    BY <1>2 DEF Ask
  <2> QED BY <1>1, <2>1, <2>2, SpreadBecome DEF InOrder
<1>3. ASSUME NEW c \in Calls, Allocate(c) PROVE SpreadInv'
  <2>1. PICK state : Begin(c, state) /\ state.pc = "pick" /\ state.spec \in ops.allocate
    BY <1>3 DEF Allocate
  <2>2. machines' = machines /\ mishap' = mishap
    BY <1>3 DEF Allocate
  <2> QED BY <1>1, <2>1, <2>2, SpreadBecome DEF InOrder
<1>4. ASSUME NEW c \in Calls, Register(c) PROVE SpreadInv'
  <2>1. PICK state : Begin(c, state) /\ state.pc = "register"
    BY <1>4 DEF Register
  <2>2. machines' = machines /\ mishap' = mishap
    BY <1>4 DEF Register
  <2> QED BY <1>1, <2>1, <2>2, SpreadBecome DEF InOrder
<1>9. ASSUME NEW c \in Calls, SetState(c) PROVE SpreadInv'
  <2>1. PICK state : Begin(c, state) /\ state.pc = "mark"
    BY <1>9 DEF SetState
  <2>2. machines' = machines /\ mishap' = mishap
    BY <1>9 DEF SetState
  <2> QED BY <1>1, <2>1, <2>2, SpreadBecome DEF InOrder
<1>5. ASSUME NEW c \in Calls, Write(c) \/ Fail(c) PROVE SpreadInv'
  <2>1. Become(c, Idle) /\ machines' = machines /\ ops' = ops /\ mishap \subseteq mishap'
    BY <1>5 DEF Write, Fail, Note
  <2>2. Idle.pc = "idle"
    BY DEF Idle
  <2> QED BY <2>1, <2>2, SpreadBecome DEF InOrder
<1>6. ASSUME NEW c \in Calls, Registered(c) PROVE SpreadInv'
  BY <1>6 DEF Registered, Note, SpreadInv, InOrder
<1>7. ASSUME Free PROVE SpreadInv'
  BY <1>7 DEF Free, Note, SpreadInv, InOrder
<1>8. ASSUME UNCHANGED vars PROVE SpreadInv'
  BY <1>8, SpreadQuiet DEF vars, InOrder, PlainRequests
<1> QED BY <1>2, <1>3, <1>4, <1>5, <1>6, <1>7, <1>8, <1>9, SpreadPick, SpreadCommit, SpreadDie, SpreadMarked DEF Next

\* Machines of a project that are spread stay spread, as long as allocations of a project in a partition follow each
\* other, nothing is given back, and requests are not placed by the system's own tags
\* (machineRepository.spreadAcrossRacks, machineRepository.findWaitingMachine).
THEOREM MachinesSpread ==
    ASSUME SpreadScenarios
    PROVE  Spec => []Balanced
<1>1. Init => SpreadInv
  <2> SUFFICES ASSUME Init PROVE SpreadInv
      OBVIOUS
  <2>1. PICK s \in Scenarios : machines = s.machines /\ ops = s.ops
    BY DEF Init
  <2>2. \A c \in Calls : call[c] = Idle
    BY DEF Init
  <2>3. Even(machines) /\ \A spec \in ops.allocate : Plain(spec, machines)
    BY <2>1 DEF SpreadScenarios, Even
  <2> QED BY <2>2, <2>3 DEF SpreadInv, PlainRequests, ChosenOnes, Committing, Idle
<1>2. SpreadInv => Balanced
  BY DEF SpreadInv, InOrder, Balanced, Even
<1> QED BY <1>1, <1>2, SpreadNext, CountedAlways, PTL DEF Spec

=============================================================================
