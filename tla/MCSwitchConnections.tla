------------------------ MODULE MCSwitchConnections ------------------------
EXTENDS SwitchConnections, TLC
CONSTANTS s1, s2, s3, m1, m2, p, q, v1, v2

\* A switch reports all its ports; one may report fewer, and itself to be replaced.
Report(mode, ports) == [NewSwitch(ports) EXCEPT !.mode = mode]
MCReports == [s \in Switches |-> {Report("operational", Ports)} \cup (IF s = s1 THEN {Report("replace", {p})} ELSE {})]
Cables(x, y) == [m \in Machines |-> IF m = m1 THEN x ELSE y]
Pair(x) == {<<s1, x>>, <<s2, x>>}
No == [k \in Kinds |-> 0]
\* Machines boot at the same time, are moved, and the switches are updated.
Booting == [No EXCEPT !.boot = 3, !.replug = 1, !.report = 1]
\* A machine is installed, freed, and installed for the next project before or after the task is done.
Reinstalling == [No EXCEPT !.allocate = 2, !.installed = 2, !.free = 2, !.port = 1]
\* A machine is installed and freed while its switches report.
Beating == [No EXCEPT !.allocate = 2, !.installed = 2, !.free = 1, !.beat = 1, !.boot = 1]
\* A switch is replaced, by its twin or by migration, or deleted.
Replacing == [No EXCEPT !.allocate = 1, !.installed = 1, !.replace = 1, !.report = 2, !.boot = 1]
Moving == [No EXCEPT !.allocate = 1, !.installed = 1, !.migrate = 1, !.boot = 1, !.beat = 1]
\* The old switch of a migration gets another machine.
Reusing == [No EXCEPT !.allocate = 1, !.installed = 1, !.migrate = 1, !.replug = 1, !.boot = 1]
MovingAway == [No EXCEPT !.migrate = 1, !.boot = 1, !.beat = 1, !.port = 1, !.force = 1]
\* Two machines change places.
Swapping == [No EXCEPT !.boot = 2, !.replug = 2]
Deleting == [No EXCEPT !.delete = 1, !.force = 1, !.report = 1, !.boot = 2]
MCScenarios ==
    {[there |-> {s1, s2}, cable |-> Cables(Pair(p), Pair(q)), budget |-> Beating],
     [there |-> {s1, s2}, cable |-> Cables(Pair(p), {}), budget |-> Reinstalling],
     [there |-> {s1, s2}, cable |-> Cables(Pair(p), Pair(q)), budget |-> Replacing],
     [there |-> {s1, s2, s3}, cable |-> Cables(Pair(p), {}), budget |-> Booting],
     [there |-> {s1, s2, s3}, cable |-> Cables(Pair(p), {}), budget |-> Moving],
     [there |-> {s1, s2, s3}, cable |-> Cables(Pair(p), {}), budget |-> MovingAway],
     [there |-> {s1, s2, s3}, cable |-> Cables(Pair(p), {}), budget |-> Reusing],
     [there |-> {s1, s2, s3}, cable |-> Cables({}, {}), budget |-> [Deleting EXCEPT !.replug = 1]],
     [there |-> {s1, s2}, cable |-> Cables(Pair(p), {}), budget |-> Swapping],
     [there |-> {s1, s2}, cable |-> Cables(Pair(p), {}), budget |-> Deleting]}
Symmetry == Permutations(Calls) \cup Permutations(Vrfs)
=============================================================================
