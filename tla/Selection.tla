------------------------------ MODULE Selection ------------------------------
(***************************************************************************)
(* What metal-apiserver computes from its catalog, without any state: the  *)
(* size of a machine, the latest image, the filesystem layout for a size   *)
(* and an image, the reservations that stand against an allocation, the    *)
(* capacity of a partition and the racks a machine is taken from           *)
(* (pkg/db/metal, pkg/repository).  Catalog keeps the rows and uses these. *)
(*                                                                         *)
(* A version is major * 100 + minor * 10 + patch, an image <<os, version>>. *)
(* Bytes are counted in units, names stand for themselves.                 *)
(***************************************************************************)
EXTENDS Integers, Sequences, FiniteSets, FiniteSetsExt

CONSTANTS
    Types,   \* the types of size constraints
    Globs,   \* the models that an identifier matches
    Unknown, \* the size of a machine that fits none, or several
    None

\* A table is a function on the ids of its rows.
Rows(table) == DOMAIN table
NotNegative(n) == IF n < 0 THEN 0 ELSE n
Total(amounts) == MapThenSumSet(LAMBDA x : amounts[x], DOMAIN amounts)

-----------------------------------------------------------------------------
(* Versions: a constraint without a patch compares minor versions, as      *)
(* semver does.  All versions have a minor one.                            *)

Patch(v) == v % 10
Minor(v) == v \div 10
Major(v) == v \div 100

\* A version without an operator has the one "bare".
Satisfies(v, c) ==
    LET whole == Patch(c.v) = 0
        same == v = c.v \/ (whole /\ Minor(v) = Minor(c.v))
    IN  \/ c.op = "*"
        \/ c.op \in {">=", "=>"} /\ v >= c.v
        \/ c.op = "<"  /\ v < c.v
        \/ c.op \in {"<=", "=<"} /\ (v <= c.v \/ same)
        \/ c.op = ">"  /\ v > c.v /\ ~same
        \/ c.op \in {"=", "bare"} /\ same
        \/ c.op = "!=" /\ ~same
        \/ c.op \in {"~", "~>"} /\ v >= c.v /\ Minor(v) = Minor(c.v)
        \/ c.op = "^"  /\ v >= c.v /\ Major(v) = Major(c.v)

\* Of the operators that are accepted.
ValidOps == {"*", "bare", "=", "!=", ">", ">=", "=>", "<", "<=", "=<", "~", "~>", "^"}
ConstraintInvalid(images) == "*" \in DOMAIN images \/ \E os \in DOMAIN images : images[os].op \notin ValidOps

\* Without a patch the most recent one of the minor version, else exactly this one.
Requested(request) == [op |-> IF Patch(request[2]) > 0 THEN "=" ELSE "~", v |-> request[2]]

MostRecent(S) == IF S = {} THEN None ELSE CHOOSE i \in S : \A j \in S : j[2] <= i[2]

MostRecentImageFor(request, classes, images) ==
    MostRecent({i \in Rows(images) : /\ i[1] = request[1]
                                     /\ images[i].class \in classes
                                     /\ Satisfies(i[2], Requested(request))})

\* The constraint of a size on an image; one without a patch is refused where there is a constraint at all.
ImageRefused(sics, size, image) ==
    /\ size \in Rows(sics)
    /\ image[1] \in DOMAIN sics[size].images
    /\ Patch(image[2]) = 0 \/ ~Satisfies(image[2], sics[size].images[image[1]])

-----------------------------------------------------------------------------
(* Sizes: hardware is, by type, a function from models to what they        *)
(* contribute.  No identifier means every model.                           *)

Covers(identifier, model) == identifier = "" \/ model \in Globs[identifier]
Covered(identifier, parts) == {x \in DOMAIN parts : Covers(identifier, x)}
CapacityOf(identifier, parts) ==
    IF Covered(identifier, parts) = {} THEN 0
    ELSE MapThenSumSet(LAMBDA x : parts[x], Covered(identifier, parts))

InRange(c, hardware) ==
    /\ c.min <= CapacityOf(c.identifier, hardware[c.type])
    /\ CapacityOf(c.identifier, hardware[c.type]) <= c.max

ExhaustiveMatch(constraints, type, hardware) ==
    \A x \in DOMAIN hardware[type] :
        \E c \in constraints : c.type = type /\ Covers(c.identifier, x) /\ InRange(c, hardware)

Fits(constraints, hardware) ==
    /\ \A c \in constraints : InRange(c, hardware)
    /\ \A type \in Types : ExhaustiveMatch(constraints, type, hardware)

FromHardware(sizes, hardware) ==
    LET fitting == {s \in Rows(sizes) : sizes[s].constraints # {} /\ Fits(sizes[s].constraints, hardware)}
    IN  IF Cardinality(fitting) = 1 THEN CHOOSE s \in fitting : TRUE ELSE Unknown

ConstraintsOverlap(c, d) ==
    /\ c.type = d.type
    /\ c.identifier = d.identifier
    /\ c.min <= d.max
    /\ d.min <= c.max

TypesOf(constraints) == {c.type : c \in constraints}

\* Mutant: a common type is enough to keep two sizes apart.
SizesOverlapInAll(cs, ds) == \A c \in cs, d \in ds : ConstraintsOverlap(c, d)

SizesOverlap(cs, ds) ==
    \/ cs = {} \/ ds = {}
    \/ /\ TypesOf(cs) = TypesOf(ds)
       /\ \A c \in cs, d \in ds : c.type = d.type => ConstraintsOverlap(c, d)

SizeConstraintInvalid(c) ==
    \/ c.max < c.min
    \/ c.type = "gpu" /\ c.identifier = ""
    \/ c.type = "memory" /\ c.identifier # ""

SizeConstraintsInvalid(cs) ==
    \/ \E c \in cs : SizeConstraintInvalid(c) \/ c.type \notin Types
    \/ \E c, d \in cs : c # d /\ c.type = d.type /\ c.type \in {"memory", "cores"}

-----------------------------------------------------------------------------
(* Filesystem layouts: devices are <<disk>>, <<disk, number>>, <<raid>> and*)
(* <<volume group, logical volume>>.                                       *)

\* Partitions are stored at their number; only the last place is looked at for the variable one.
DiskInvalid(d) ==
    LET n == Len(d.parts)
        last == {i \in 1..n : d.parts[i].number = n /\ d.parts[i].size # 0}
    IN  \/ \E i \in 1..n : d.parts[i].number > n
        \/ \E i, j \in 1..n : i # j /\ d.parts[i].number = d.parts[j].number
        \/ \E i \in 1..n : d.parts[i].size = 0 /\ last # {}

RaidsBefore(l, i) == {<<l.raids[j].name>> : j \in 1..i}

ProvidedByDisks(l) ==
    {<<d.device>> : d \in l.disks} \cup UNION {{<<d.device, d.parts[i].number>> : i \in DOMAIN d.parts} : d \in l.disks}

RaidInvalid(l, i) ==
    \/ ~(l.raids[i].devices \subseteq ProvidedByDisks(l) \cup RaidsBefore(l, i - 1))
    \/ l.raids[i].level \notin {0, 1}

VolumeGroupDevices(l) == ProvidedByDisks(l) \cup RaidsBefore(l, Len(l.raids))

\* The devices of the group of that name, of the last one if there are several.
GroupOf(l, name) ==
    LET is == {i \in DOMAIN l.vgs : l.vgs[i].name = name}
    IN  IF is = {} THEN None ELSE l.vgs[Max(is)].devices

LogicalVolumeInvalid(l, i) ==
    \/ l.lvs[i].size = 0 /\ i # Len(l.lvs)
    \/ GroupOf(l, l.lvs[i].vg) = None
    \/ l.lvs[i].type # "linear" /\ Cardinality(GroupOf(l, l.lvs[i].vg)) < 2

Provided(l) == VolumeGroupDevices(l) \cup {<<l.lvs[i].vg, l.lvs[i].name>> : i \in DOMAIN l.lvs}

FilesystemInvalid(l, fs) ==
    /\ fs.format # "tmpfs"
    /\ fs.device \notin Provided(l) \/ fs.format \notin {"vfat", "ext3", "ext4", "swap", "none"}

LayoutInvalid(l) ==
    \/ \E d \in l.disks : DiskInvalid(d)
    \/ \E i \in DOMAIN l.raids : RaidInvalid(l, i)
    \/ \E i \in DOMAIN l.vgs : ~(l.vgs[i].devices \subseteq VolumeGroupDevices(l))
    \/ \E i \in DOMAIN l.lvs : LogicalVolumeInvalid(l, i)
    \/ \E fs \in l.filesystems : FilesystemInvalid(l, fs)
    \/ ConstraintInvalid(l.constraints.images)

\* Mutant: one of the two has to accept nothing of the other.
CollisionEqual(c, d) == c.op = "*" \/ d.op = "*" \/ (c # d /\ c.v = d.v)
\* The constraints of two layouts for an operating system: a star collides with all, others when each accepts the
\* version of the other; equal ones are not compared.
Collision(c, d) ==
    \/ c.op = "*" \/ d.op = "*"
    \/ c # d /\ Satisfies(d.v, c) /\ Satisfies(c.v, d)

LayoutsCollide(l, k) ==
    /\ l.constraints.sizes \cap k.constraints.sizes # {}
    /\ \E os \in DOMAIN l.constraints.images \cap DOMAIN k.constraints.images :
          Collision(l.constraints.images[os], k.constraints.images[os])

LayoutsInvalid(layouts) == \E l, k \in Rows(layouts) : l # k /\ LayoutsCollide(layouts[l], layouts[k])

LayoutMatches(l, size, image) ==
    /\ size \in l.constraints.sizes
    /\ image[1] \in DOMAIN l.constraints.images
    /\ Satisfies(image[2], l.constraints.images[image[1]])

\* From takes the first one of the list, whose order is the database's.
LayoutsFor(layouts, size, image) == {l \in Rows(layouts) : LayoutMatches(layouts[l], size, image)}

\* Every disk exists and is big enough for its partitions.
LayoutFits(l, hardware) ==
    \A d \in l.disks :
        /\ d.device \in DOMAIN hardware.storage
        /\ MapThenSumSet(LAMBDA i : d.parts[i].size, DOMAIN d.parts) <= hardware.storage[d.device]

-----------------------------------------------------------------------------
(* Reservations and capacity, for the machines of one size and partition.  *)

\* Machines without an allocation wait; those that are locked or tainted are not taken.
Candidates(machines) == {m \in machines : m.alloc = None /\ ~m.pre /\ m.state = "available"}
Alive(machines) == {m \in machines : m.alive}
MachinesOf(machines, project) == {m \in machines : m.alloc # None /\ m.alloc.project = project}
Allocated(machines, project) == Cardinality(MachinesOf(machines, project))

\* Mutant: what is used up is not subtracted, whoever asks.
SizeReservationsAllowUnused(machines, project, reservations) ==
    \/ \E i \in DOMAIN reservations :
          /\ reservations[i].project = project
          /\ Allocated(machines, project) < reservations[i].amount
    \/ MapThenSumSet(LAMBDA i : reservations[i].amount, DOMAIN reservations) < Cardinality(Candidates(machines))

\* Mutant: whoever has a reservation may always allocate.
SizeReservationsAllowOwn(machines, project, reservations) ==
    \/ \E i \in DOMAIN reservations : reservations[i].project = project
    \/ MapThenSumSet(LAMBDA i : reservations[i].amount, DOMAIN reservations) < Cardinality(Candidates(machines))

\* The amounts are added up in the order of the list, and all machines of a project are subtracted after each of
\* its reservations.
SizeReservationsAllow(machines, project, reservations) ==
    LET amount[i \in 0..Len(reservations)] ==
            IF i = 0 THEN 0
            ELSE NotNegative(amount[i - 1] + reservations[i].amount - Allocated(machines, reservations[i].project))
    IN  \/ \E i \in DOMAIN reservations :
              /\ reservations[i].project = project
              /\ Allocated(machines, project) < reservations[i].amount
        \/ amount[Len(reservations)] < Cardinality(Candidates(machines))

Counts(machines) ==
    [total |-> Cardinality(machines),
     allocated |-> Cardinality({m \in machines : m.alloc # None}),
     allocatable |-> Cardinality(Alive(Candidates(machines)))]

\* What Capacity reports: the free machines are those that reservations of other projects leave.
Capacity(machines, project, reservations) ==
    LET amount == [i \in DOMAIN reservations |-> reservations[i].amount]
        used == [i \in DOMAIN amount |-> Min({Allocated(machines, reservations[i].project), amount[i]})]
        others == {i \in DOMAIN amount : reservations[i].project # project}
    IN  [counts |-> Counts(machines),
         reservations |-> Total(amount),
         usedReservations |-> Total(used),
         remainingReservations |-> Total(amount) - Total(used),
         free |-> NotNegative(Counts(machines).allocatable - Total([i \in others |-> amount[i] - used[i]]))]

-----------------------------------------------------------------------------
(* Rack spreading: the racks that are least occupied by the project's      *)
(* machines with the requested tags, of those the ones least occupied by   *)
(* the project, if there are any.                                          *)

RacksOf(machines) == {m.rack : m \in machines}

\* A machine counts once for every tag it shares with the request.
TaggedIn(rack, machines, tags) == Cardinality({x \in machines \X tags : x[1].rack = rack /\ x[2] \in x[1].tags})
In(rack, machines) == Cardinality({m \in machines : m.rack = rack})

\* Mutant: racks of which the project has no machine are not considered.
ElectRacksOccupied(occupied) ==
    {r \in DOMAIN occupied : /\ occupied[r] > 0 \/ \A s \in DOMAIN occupied : occupied[s] = 0
                             /\ \A s \in DOMAIN occupied : occupied[s] > 0 => occupied[r] <= occupied[s]}

ElectRacks(occupied) == {r \in DOMAIN occupied : \A s \in DOMAIN occupied : occupied[r] <= occupied[s]}

SpreadAcrossRacks(available, projectMachines, tags) ==
    LET racks == RacksOf(available)
        byTags == ElectRacks([r \in racks |-> TaggedIn(r, projectMachines, tags)])
        byProject == ElectRacks([r \in racks |-> In(r, projectMachines)])
        elected == IF byTags \cap byProject # {} THEN byTags \cap byProject ELSE byTags
    IN  {m \in available : m.rack \in elected}
=============================================================================
