----------------------------- MODULE MCCatalog -----------------------------
EXTENDS Catalog, TLC

MCIds == [size |-> {"s", "t"}, image |-> {<<"os", 121>>, <<"os", 122>>, <<"os", 131>>}, layout |-> {"l", "k"},
          sic |-> {"s", "t"}, reservation |-> {"r", "q"}, partition |-> {"p"}]
MCGlobs == [x \in {"sd*", "nv*"} |-> IF x = "sd*" THEN {"sda", "sdb"} ELSE {"nv"}]
Small == [cores |-> [xeon |-> 1], storage |-> [sda |-> 2]]
Big == [cores |-> [xeon |-> 4], storage |-> [sda |-> 2, sdb |-> 2]]
Fast == [cores |-> [xeon |-> 4], storage |-> [nv |-> 2]]
MCHardwares == {Small, Big, Fast}

Cores(a, b) == [type |-> "cores", identifier |-> "", min |-> a, max |-> b]
Disks(id, a, b) == [type |-> "storage", identifier |-> id, min |-> a, max |-> b]
Size(cs) == [constraints |-> cs]
Image(class) == [class |-> class, features |-> {"machine"}]
Constraint(op, v) == [op |-> op, v |-> v]
For(sizes, c) == [sizes |-> sizes, images |-> [os |-> c]]
Part(n, size) == [number |-> n, size |-> size]
Filesystem(device) == [device |-> device, format |-> "ext4"]
Layout(c) == [EmptyLayout EXCEPT !.disks = {[device |-> "sda", parts |-> <<Part(1, 1), Part(2, 0)>>]},
              !.filesystems = {Filesystem(<<"sda", 1>>)}, !.constraints = c]
\* Two mirrored partitions, and a striped volume on two disks.
Volumes == [Layout(For({"s"}, Constraint("<=", 122))) EXCEPT
    !.disks = {[device |-> d, parts |-> <<Part(1, 1), Part(2, 1)>>] : d \in {"sda", "sdb"}},
    !.raids = <<[name |-> "md", devices |-> {<<"sda", 1>>, <<"sdb", 1>>}, level |-> 1]>>,
    !.vgs = <<[name |-> "vg", devices |-> {<<"sda", 2>>, <<"sdb", 2>>}]>>,
    !.lvs = <<[vg |-> "vg", name |-> "lv", size |-> 0, type |-> "striped"]>>,
    !.filesystems = {Filesystem(<<"md">>), Filesystem(<<"vg", "lv">>)}]
NoLayout == [f \in DOMAIN EmptyLayout |-> None]

Request(op, id, row) == [op |-> op, id |-> id, row |-> row]
NoRequests == [k \in Kinds |-> {}]
Reservation(p, n) == [size |-> "s", partitions |-> {"p"}, project |-> p, amount |-> n]
NewAmount(n) == [size |-> None, partitions |-> None, project |-> None, amount |-> n]
M(id, rack) == [id |-> id, rack |-> rack, partition |-> "p", hw |-> Small, size |-> "s", alive |-> TRUE,
                state |-> "available", pre |-> FALSE, alloc |-> None, tags |-> {}]
With(m, p) == [m EXCEPT !.alloc = [project |-> p, role |-> "machine", image |-> <<"os", 121>>, layout |-> "l"], !.tags = {m.rack}]
Spec1(p, image) == [project |-> p, partition |-> "p", size |-> "s", role |-> "machine", image |-> image, layout |-> None, tags |-> {"web"}]

Images == [i \in {<<"os", 121>>, <<"os", 122>>} |-> Image(IF i = <<"os", 122>> THEN "preview" ELSE "supported")]
Table == [size |-> [s |-> Size({Cores(1, 2), Disks("sd*", 1, 4)})], image |-> Images,
          layout |-> [l |-> Layout(For({"s"}, Constraint(">=", 121)))],
          sic |-> [s |-> [images |-> [os |-> Constraint(">=", 121)]]], reservation |-> <<>>,
          partition |-> [p |-> [dns |-> 3, ntp |-> 0, mgmt |-> "a"]]]
Ops == [requests |-> NoRequests, allocate |-> {}, register |-> {}, free |-> {}, die |-> {}, mark |-> {}, networks |-> {}, left |-> 4]
Base == [table |-> Table, machines |-> {M("m1", "1")}, ops |-> Ops]
Whose == [id |-> "m2", partition |-> "p", rack |-> "2"]

Sizes ==
    {Request("create", "t", Size(cs)) : cs \in {{Cores(3, 4)}, {Cores(2, 4), Disks("sd*", 1, 4)},
        {Cores(1, 4), Disks("nv*", 1, 4)}, {Cores(3, 4), Disks("sd*", 3, 8)}, {Cores(3, 4), Disks("sd*", 3, 8), Disks("nv*", 1, 2)}}}
    \cup {Request("update", "s", Size({Cores(1, 4), Disks("sd*", 1, 8)})), Request("update", "s", Size(None)),
          Request("delete", "s", None), Request("delete", "t", None)}
Layouts ==
    {Request("create", "k", l) : l \in {Volumes, Layout(For({"s"}, Constraint("*", 0))), Layout(For({"s", "t"}, Constraint(">=", 131))),
        [Volumes EXCEPT !.raids = <<>>], [Volumes EXCEPT !.vgs[1].devices = {<<"sda", 2>>}],
        [Volumes EXCEPT !.disks = {[device |-> "sda", parts |-> <<Part(1, 0), Part(2, 1)>>]}]}}
    \cup {Request("update", i, [NoLayout EXCEPT !.constraints = For({"s"}, c)]) : i \in {"k"},
              c \in {Constraint("<=", 131), Constraint("<", 121), Constraint("bare", 121), Constraint("~>", 130),
                    Constraint("!=", 121), Constraint("^", 130), Constraint("=<", 121)}}
    \cup {Request("update", "k", [Volumes EXCEPT !.constraints = None]),
          Request("update", "k", [Volumes EXCEPT !.lvs = <<>>]),
          Request("update", "k", [NoLayout EXCEPT !.disks = {}]),
          Request("delete", "k", None), Request("delete", "l", None)}
ImagesAnd ==
    [NoRequests EXCEPT !.image =
    {Request("create", <<"os", 131>>, Image(None)), Request("create", <<"os", 131>>, [Image("supported") EXCEPT !.features = {}]),
     Request("update", <<"os", 122>>, [class |-> "supported", features |-> None]),
     Request("update", <<"os", 122>>, [class |-> None, features |-> {"firewall"}]), Request("delete", <<"os", 121>>, None)},
    !.sic = {Request("update", "s", [images |-> [os |-> Constraint("=", 122)]]), Request("delete", "s", None),
     Request("update", "s", [images |-> [os |-> Constraint(">", 120)]])}]
Unqualified == <<"os", 120>>

MCScenarios ==
    \* sizes are made and changed while machines register
    {[Base EXCEPT !.ops.requests.size = Sizes, !.ops.left = 3, !.machines = {}, !.ops.register = {Whose @@ [hw |-> h] : h \in {Small, Big}}],
     \* what belongs to a size and a partition comes and goes
     [Base EXCEPT !.machines = {}, !.ops.requests.reservation = {Request("create", "r", Reservation("a", n)) : n \in {0, 1}},
            !.ops.requests.size = {Request("delete", "s", None)}, !.ops.requests.sic = {Request("delete", "s", None)},
            !.ops.requests.partition = {Request("delete", "p", None), Request("create", "p", [dns |-> None, ntp |-> 5, mgmt |-> <<"a", "b">>]), Request("update", "p", [dns |-> None, ntp |-> 6, mgmt |-> <<>>]),
                  Request("update", "p", [dns |-> 1, ntp |-> None, mgmt |-> <<"b">>])},
            !.ops.register = {Whose @@ [hw |-> Small]}],
     \* a partition that has networks
     [Base EXCEPT !.machines = {}, !.ops.networks = {"p"}, !.ops.requests.partition = {Request("delete", "p", None)}, !.ops.left = 1],
     [Base EXCEPT !.ops.requests.layout = Layouts, !.ops.left = 3],
     \* a machine is allocated while its image, layout and constraint change
     [Base EXCEPT !.ops.requests = ImagesAnd, !.ops.allocate = {Spec1("a", i) : i \in {Unqualified, <<"os", 121>>, <<"os", 122>>}}, !.ops.left = 3],
     [Base EXCEPT !.ops.requests = [NoRequests EXCEPT !.layout = {Request("delete", "l", None)}, !.image = {Request("delete", <<"os", 121>>, None)}],
            !.ops.allocate = {Spec1("a", Unqualified)}, !.ops.free = {"m1"}, !.ops.left = 4],
     \* reservations, those who have one and those who have not
     [Base EXCEPT !.machines = {M("m1", "1"), M("m2", "1"), M("m3", "1"), M("m4", "1")}, !.table.reservation = [r |-> Reservation("a", 2)],
            !.ops.allocate = {Spec1(p, <<"os", 121>>) : p \in {"a", "b"}}, !.ops.free = {"m1"}, !.ops.die = {"m2"}],
     [Base EXCEPT !.machines = {M("m1", "1"), M("m2", "1"), With(M("m3", "1"), "b")},
            !.table.reservation = [r |-> Reservation("a", 1), q |-> Reservation("b", 1)],
            !.ops.requests.reservation = {Request("update", "r", NewAmount(2)), Request("create", "q", Reservation("b", 1)),
                              Request("delete", "q", None)},
            !.ops.allocate = {Spec1("b", <<"os", 121>>)}],
     \* racks
     [Base EXCEPT !.machines = {M("m1", "1"), M("m2", "1"), M("m3", "1"), M("m4", "2"), M("m5", "3")},
            !.ops.allocate = {Spec1("a", <<"os", 121>>)}, !.ops.left = 4],
     \* machines that are locked, tainted and made available again
     [Base EXCEPT !.machines = {M("m1", "1"), M("m2", "1"), [M("m3", "2") EXCEPT !.state = "tainted"]},
            !.table.reservation = [r |-> Reservation("b", 1)],
            !.ops.allocate = {Spec1(p, <<"os", 121>>) : p \in {"a", "b"}}, !.ops.mark = {"m2", "m3"}],
     [Base EXCEPT !.machines = {M("m1", "1"), M("m2", "2"), M("m3", "2"), With(M("m4", "2"), "a")},
            !.ops.allocate = {Spec1("a", <<"os", 121>>)}, !.ops.die = {"m1"}, !.ops.free = {"m4"}]}

\* The scenarios are such that their machines stay spread.
ASSUME SpreadAssumption == SpreadScenarios
=============================================================================
