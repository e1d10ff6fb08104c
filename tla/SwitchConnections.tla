------------------------- MODULE SwitchConnections -------------------------
(***************************************************************************)
(* Leaf switches and the machines connected to them                        *)
(* (pkg/repository/switch.go, switch-validation.go, db/metal/switch.go).   *)
(* Machines register with the ports they see, installed machines are put   *)
(* into the vrf of their project, and switches report, get replaced,       *)
(* migrated and deleted.  A row of the switch table is changed under       *)
(* optimistic locking: a write of an outdated copy is a conflict.  A       *)
(* machine has two switches, so most operations write several rows.        *)
(*                                                                         *)
(* One rack; ports are line numbers, for which the names of both vendors   *)
(* stand; a copy is outdated when the row differs.                         *)
(***************************************************************************)
EXTENDS Naturals, FiniteSets

CONSTANTS
    Switches, Machines, Ports,
    Calls,         \* api calls in progress at the same time
    Vrfs,          \* vrfs of projects
    None,
    Reports,       \* Reports[s]: what switch s may report when it registers, as a row
    Scenarios,     \* where behaviours start: rows, cables, and how often each kind of call is made (bound)
    MaxMishaps     \* after more kinds of mishaps than this nothing new begins (bound)

Kinds == {"boot", "installed", "free", "allocate", "report", "beat", "port", "replace", "migrate", "delete", "force", "replug"}
Mishaps == {"halfway", "moved", "mismatch", "late", "overtaken", "stale", "forced", "removed", "left"}

Plugs == Switches \X Ports
Hosts(nics) == {x[1] : x \in nics}

NicType == [vrf : Vrfs \cup {None}, desired : {None, "up", "down"}]
NicsType == UNION {[ports -> NicType] : ports \in SUBSET Ports}
RowType == [mode : {"operational", "replace"}, nics : NicsType, conns : SUBSET (Machines \X Ports)]
MachineType == [nics : SUBSET Plugs, vrf : Vrfs \cup {None}, up : BOOLEAN, stuck : SUBSET (Vrfs \cup {None})]

ASSUME NamesAssumption ==
    /\ None \notin Vrfs \cup RowType
    /\ IsFiniteSet(Switches) /\ IsFiniteSet(Ports)
    /\ Reports \in [Switches -> SUBSET RowType]

\* External: a switch reports its ports, but neither machines nor vrfs, which it learns from the api.
ASSUME ReportsAssumption ==
    \A s \in Switches : \A x \in Reports[s] : x.conns = {} /\ \A p \in DOMAIN x.nics : x.nics[p].vrf = None

\* At the start cables lead to the same ports of two switches, or nowhere.
ASSUME ScenarioAssumption ==
    \A s \in Scenarios :
      /\ s.there \subseteq Switches /\ s.cable \in [Machines -> SUBSET Plugs]
      /\ \A m, n \in Machines : m # n => s.cable[m] \cap s.cable[n] = {}
      /\ \A m \in Machines : \/ s.cable[m] = {}
                             \/ \E x, y \in s.there, ports \in SUBSET Ports : x # y /\ s.cable[m] = {x, y} \X ports

VARIABLES
    sw,       \* the switch table
    machine,  \* the machine table: neighbors of the nics, and the vrf of the allocation; and as history, whether the
              \* allocation is installed and the vrfs whose reset was given up
    cable,    \* which ports the cables of a machine lead to
    call,     \* the api calls
    budget,   \* calls that may still begin
    mishap    \* history: what went wrong so far, see Mishaps

rows == <<sw, machine>>
vars == <<sw, machine, cable, call, budget, mishap>>

Idle == [pc |-> "idle"]
Free == [vrf |-> None, desired |-> None]
NewSwitch(nics) == [mode |-> "operational", nics |-> [p \in nics |-> Free], conns |-> {}]

Init ==
    \E s \in Scenarios :
      /\ cable = s.cable
      /\ machine = [m \in Machines |-> [nics |-> s.cable[m], vrf |-> None, up |-> FALSE, stuck |-> {}]]
      /\ sw = [x \in Switches |-> IF x \in s.there THEN
                 [NewSwitch(Ports) EXCEPT !.conns = {c \in Machines \X Ports : <<x, c[2]>> \in s.cable[c[1]]}] ELSE None]
      /\ budget = s.budget
      /\ call = [c \in Calls |-> Idle]
      /\ mishap = {}

There == {s \in Switches : sw[s] # None}
PortsOf(x, m) == {p \in Ports : <<m, p>> \in x.conns}
Connected(m) == {s \in There : PortsOf(sw[s], m) # {}}

Spend(kind) ==
    /\ budget[kind] > 0
    /\ budget' = [budget EXCEPT ![kind] = @ - 1]
Begin(c, kind) ==
    /\ call[c] = Idle
    /\ Cardinality(mishap \ {"overtaken"}) <= MaxMishaps
    /\ Spend(kind)
Go(c, rec) == call' = [call EXCEPT ![c] = rec]
Finish(c) == Go(c, Idle)
Outdated(rec, s) == IF "held" \in DOMAIN rec THEN [rec EXCEPT !.held = @ \ {s}] ELSE rec
\* A write outdates the copies of all others; held are the switches whose copy is up to date.
Put(c, s, row, rec) ==
    /\ sw' = [sw EXCEPT ![s] = row]
    /\ call' = [d \in Calls |-> IF d = c THEN rec ELSE Outdated(call[d], s)]
PutAtOnce(s, row) ==
    /\ sw' = [sw EXCEPT ![s] = row]
    /\ call' = [d \in Calls |-> Outdated(call[d], s)]

Registering == {"neighbors", "disconnect", "connect", "first", "second"}
Migrating == {"neigh", "migrateOld", "migrateNew"}
Setting == {"bmc", "list", "set"}
Someone(pcs) == \E d \in Calls : call[d].pc \in pcs
Happened(kind, yes) == mishap' = IF yes THEN mishap \cup {kind} ELSE mishap

-----------------------------------------------------------------------------
(* A machine registers *)

\* Register stores the hardware before it connects.
RegisterMachine(c, m) ==
    /\ Begin(c, "boot")
    /\ machine' = [machine EXCEPT ![m].nics = cable[m]]
    /\ Go(c, [pc |-> "neighbors", machine |-> m, nics |-> cable[m], half |-> FALSE])
    /\ Happened("moved", Someone(Migrating) \/ Hosts(machine[m].nics) \notin {{}, Hosts(cable[m])})
    /\ UNCHANGED <<sw, cable>>

\* The switches the machine had before, according to the stored hardware.
FormerSwitches(c) ==
    /\ call[c].pc = "neighbors"
    /\ \/ /\ Cardinality(Hosts(call[c].nics)) # 2
          /\ Finish(c)
       \/ /\ Cardinality(Hosts(call[c].nics)) = 2
          /\ Go(c, [pc |-> "disconnect", machine |-> call[c].machine, nics |-> call[c].nics, half |-> call[c].half,
                    prev |-> Hosts(machine[call[c].machine].nics) \ Hosts(call[c].nics)])
    /\ UNCHANGED <<rows, cable, budget, mishap>>

Disconnect(c) ==
    /\ call[c].pc = "disconnect"
    /\ \/ /\ call[c].prev = {}
          /\ Go(c, [call[c] EXCEPT !.pc = "connect"])
          /\ UNCHANGED <<sw, mishap>>
       \/ \E s \in call[c].prev :
            \/ /\ sw[s] = None
               /\ Finish(c) /\ Happened("halfway", call[c].half)
               /\ UNCHANGED sw
            \/ /\ sw[s] # None
               /\ Put(c, s, [sw[s] EXCEPT !.conns = {x \in @ : x[1] # call[c].machine}], [call[c] EXCEPT !.prev = @ \ {s}, !.half = TRUE])
               /\ UNCHANGED mishap
    /\ UNCHANGED <<machine, cable, budget>>

\* getPhysicalMachineConnections: neighbors that are nics of the switch.
Physical(s, x, nics) == {p \in DOMAIN x.nics : <<s, p>> \in nics}

Connect(x, m, ports) == [x EXCEPT !.conns = IF ports = {} THEN @ ELSE {y \in @ : y[1] # m} \cup ({m} \X ports)]

\* Mutant: the duplicate is overwritten in the map.
NoDoublePortUnnoticed(x) == TRUE

\* ByNicName fails when a port leads to two machines.
NoDoublePort(x) == \A a, b \in x.conns : a[2] = b[2] => a[1] = b[1]

\* Mutant: any port of the second switch will do.
MayConnectAnyPort(m, x, y, s1, s2, nics) ==
    LET p1 == Physical(s1, x, nics)
        p2 == Physical(s2, y, nics)
    IN  /\ p1 = {} => PortsOf(x, m) = {}
        /\ p2 = {} => PortsOf(y, m) = {}
        /\ Cardinality(p1) = Cardinality(p2)
        /\ NoDoublePort(Connect(y, m, p2))

\* Equally many ports, free on the second switch, and the ports of the first are among those of the second.
MayConnect(m, x, y, s1, s2, nics) ==
    LET p1 == Physical(s1, x, nics)
        p2 == Physical(s2, y, nics)
        y2 == Connect(y, m, p2)
    IN  /\ p1 = {} => PortsOf(x, m) = {}
        /\ p2 = {} => PortsOf(y, m) = {}
        /\ Cardinality(p1) = Cardinality(p2)
        /\ NoDoublePort(y2)
        /\ p1 \subseteq {z[2] : z \in y2.conns}

\* The ports of the first switch are not looked at: another machine may have one of them, here or on the second.
Overlooked(m, x, y, s1, s2, nics) ==
    \E q \in Physical(s1, x, nics), n \in Machines \ {m} :
      \/ q \in PortsOf(x, n) \ PortsOf(y, n)
      \/ q \in PortsOf(y, n) \ Physical(s2, y, nics)

\* Both switches are read and checked before the first is written.
ReadSwitches(c) ==
    /\ call[c].pc = "connect"
    /\ \E s1, s2 \in Hosts(call[c].nics) :
         /\ s1 # s2
         /\ LET m == call[c].machine
                nics == call[c].nics
                ok == {s1, s2} \subseteq There /\ MayConnect(m, sw[s1], sw[s2], s1, s2, nics)
            IN  \/ /\ ok
                   /\ Go(c, [pc |-> "first", machine |-> m, nics |-> nics, half |-> call[c].half,
                             s1 |-> s1, s2 |-> s2, held |-> {s1, s2}])
                   /\ Happened("mismatch", Overlooked(m, sw[s1], sw[s2], s1, s2, nics))
                \/ /\ ~ok
                   /\ Finish(c)
                   /\ Happened("halfway", call[c].half)
    /\ UNCHANGED <<rows, cable, budget>>

\* Register tries again after a conflict, and gives up in the end.
Conflict(c) ==
    \/ Go(c, [pc |-> "neighbors", machine |-> call[c].machine, nics |-> call[c].nics, half |-> call[c].half]) /\ UNCHANGED mishap
    \/ Finish(c) /\ Happened("halfway", call[c].half)

SettingVrf(m) == \E d \in Calls : call[d].pc \in Setting /\ call[d].machine = m
Resetting(m) == \E d \in Calls : call[d].pc \in Setting /\ call[d].machine = m /\ call[d].vrf = None
Installing(m) == \E d \in Calls : call[d].pc \in Setting /\ call[d].machine = m /\ call[d].vrf # None

\* A switch whose machines migrated keeps the vrfs of its ports.
LeftOver(x, ports) == \E p \in ports : x.nics[p].vrf # None

\* The vrf does not follow when a machine changes its ports.
Write(c, s, rec) ==
    LET m == call[c].machine
        row == Connect(sw[s], m, Physical(s, sw[s], call[c].nics))
        late == /\ PortsOf(row, m) # PortsOf(sw[s], m)
                /\ machine[m].vrf # None \/ SettingVrf(m) \/ LeftOver(sw[s], PortsOf(sw[s], m) \cap DOMAIN sw[s].nics)
        left == sw[s].conns = {} /\ row.conns # {} /\ LeftOver(sw[s], DOMAIN sw[s].nics)
    IN  /\ Put(c, s, row, rec)
        /\ mishap' = mishap \cup (IF late THEN {"late"} ELSE {}) \cup (IF left THEN {"left"} ELSE {})

WriteFirst(c) ==
    /\ call[c].pc = "first"
    /\ \/ /\ call[c].s1 \in call[c].held
          /\ Write(c, call[c].s1, [call[c] EXCEPT !.pc = "second", !.half = TRUE])
       \/ /\ call[c].s1 \notin call[c].held
          /\ Conflict(c)
          /\ UNCHANGED sw
    /\ UNCHANGED <<machine, cable, budget>>

WriteSecond(c) ==
    /\ call[c].pc = "second"
    /\ \/ /\ call[c].s2 \in call[c].held
          /\ Write(c, call[c].s2, Idle)
       \/ /\ call[c].s2 \notin call[c].held
          /\ Conflict(c)
          /\ UNCHANGED sw
    /\ UNCHANGED <<machine, cable, budget>>

\* Somebody moves the cables of a machine to other free ports.
Replug(m, to) ==
    /\ budget.replug > 0
    /\ to # cable[m]
    /\ \A n \in Machines \ {m} : cable[n] \cap to = {}
    /\ cable' = [cable EXCEPT ![m] = to]
    /\ budget' = [budget EXCEPT !.replug = @ - 1]
    /\ UNCHANGED <<rows, call, mishap>>

-----------------------------------------------------------------------------
(* The vrf of a machine *)

Allocate(m, v) ==
    /\ budget.allocate > 0
    /\ machine[m].vrf = None
    /\ machine' = [machine EXCEPT ![m].vrf = v]
    /\ budget' = [budget EXCEPT !.allocate = @ - 1]
    /\ mishap' = mishap \cup (IF Resetting(m) THEN {"overtaken"} ELSE {}) \cup (IF Installing(m) THEN {"late"} ELSE {})
    /\ UNCHANGED <<sw, cable, call>>

InstallationSucceeded(c, m) ==
    /\ Begin(c, "installed")
    /\ machine[m].vrf # None
    /\ Go(c, [pc |-> "list", machine |-> m, vrf |-> machine[m].vrf, was |-> None])
    /\ UNCHANGED <<rows, cable, mishap>>

\* The delete task releases the allocation, and then has to wait for the bmc.
ReleaseAllocation(c, m) ==
    /\ Begin(c, "free")
    /\ machine[m].vrf # None
    /\ machine' = [machine EXCEPT ![m].vrf = None, ![m].up = FALSE]
    /\ Happened("late", Installing(m))
    /\ Go(c, [pc |-> "bmc", machine |-> m, vrf |-> None, was |-> machine[m].vrf])
    /\ UNCHANGED <<sw, cable>>

WatchForTaskCompletion(c) ==
    /\ call[c].pc = "bmc"
    /\ Go(c, [call[c] EXCEPT !.pc = "list"])
    /\ UNCHANGED <<rows, cable, budget, mishap>>

SearchSwitches(c) ==
    /\ call[c].pc = "list"
    /\ Go(c, [pc |-> "set", machine |-> call[c].machine, vrf |-> call[c].vrf, was |-> call[c].was,
              todo |-> Connected(call[c].machine), held |-> Connected(call[c].machine)])
    /\ Happened("stale", Someone({"migrateNew"}))
    /\ UNCHANGED <<rows, cable, budget>>

SetVrf(x, m, vrf) ==
    [x EXCEPT !.nics = [p \in DOMAIN @ |-> IF p \in PortsOf(x, m) THEN [@[p] EXCEPT !.vrf = vrf] ELSE @[p]]]

\* A task that is retried finds nothing to release and sends the bmc command again, an installation sets the vrf again.
Again(rec) == [pc |-> IF rec.vrf = None THEN "bmc" ELSE "list", machine |-> rec.machine, vrf |-> rec.vrf, was |-> rec.was]

\* Mutant: the switches that were changed meanwhile are skipped.
SetVrfWithoutConflicts(c) ==
    /\ call[c].pc = "set"
    /\ LET m == call[c].machine
           vrf == call[c].vrf
       IN  \/ /\ call[c].todo \cap call[c].held = {}
              /\ machine' = [machine EXCEPT ![m].up = @ \/ (vrf # None /\ machine[m].vrf = vrf)]
              /\ Finish(c)
              /\ UNCHANGED sw
           \/ \E x \in call[c].todo \cap call[c].held :
                /\ Put(c, x, SetVrf(sw[x], m, vrf), [call[c] EXCEPT !.todo = @ \ {x}])
                /\ UNCHANGED machine
    /\ UNCHANGED <<cable, budget, mishap>>

\* On a conflict all switches are read again: by a retry of the call or of the task.
SetVrfAtSwitches(c) ==
    /\ call[c].pc = "set"
    /\ LET m == call[c].machine
           vrf == call[c].vrf
       IN  \/ /\ call[c].todo = {}
              /\ machine' = [machine EXCEPT ![m].up = @ \/ (vrf # None /\ machine[m].vrf = vrf)]
              /\ Finish(c)
              /\ UNCHANGED sw
           \/ \E x \in call[c].todo :
                /\ x \in call[c].held
                /\ Put(c, x, SetVrf(sw[x], m, vrf), [call[c] EXCEPT !.todo = @ \ {x}])
                /\ UNCHANGED machine
           \/ \E x \in call[c].todo :
                /\ x \notin call[c].held
                /\ Go(c, Again(call[c]))
                /\ UNCHANGED rows
    /\ UNCHANGED <<cable, budget, mishap>>

\* The bmc command or the store fails. A task is tried again and archived in the end: nobody resets the vrf then.
SetVrfFails(c) ==
    /\ call[c].pc \in Setting
    /\ \/ /\ call[c].vrf = None
          /\ Go(c, Again(call[c]))
          /\ UNCHANGED machine
       \/ /\ call[c].vrf = None
          /\ Finish(c)
          /\ machine' = [machine EXCEPT ![call[c].machine].stuck = @ \cup {call[c].was}]
       \/ /\ call[c].vrf # None
          /\ Finish(c)
          /\ UNCHANGED machine
    /\ UNCHANGED <<sw, cable, budget, mishap>>

-----------------------------------------------------------------------------
(* A switch registers: it is created, updated, or takes over from its twin *)

CreateSwitch(c, s, report) ==
    /\ Begin(c, "report")
    /\ sw[s] = None
    /\ Put(c, s, report, Idle)
    /\ UNCHANGED <<machine, cable, mishap>>

\* validateConnectedNics: a nic with a machine must not disappear.
KeepsConnected(x, nics) == \A y \in x.conns : y[2] \in nics

\* What is known of a port stays (updateNicNames); a report may leave the mode alone.
UpdateSwitch(c, s, report) ==
    /\ Begin(c, "report")
    /\ sw[s] # None /\ sw[s].mode = "operational"
    /\ KeepsConnected(sw[s], DOMAIN report.nics)
    /\ \E mode \in {sw[s].mode, report.mode} :
         Put(c, s, [mode |-> mode, conns |-> sw[s].conns,
                    nics |-> [p \in DOMAIN report.nics |-> IF p \in DOMAIN sw[s].nics THEN sw[s].nics[p] ELSE report.nics[p]]], Idle)
    /\ UNCHANGED <<machine, cable, mishap>>

Twins(s) == {t \in There \ {s} : sw[t].mode = "operational" /\ sw[t].conns # {}}

\* adoptConfiguration: vrfs by port, and all connections; every port of the other switch is needed.
Adopt(from, nics) ==
    [mode |-> "operational", conns |-> from.conns,
     nics |-> [p \in DOMAIN nics |-> IF p \in DOMAIN from.nics THEN [nics[p] EXCEPT !.vrf = from.nics[p].vrf] ELSE nics[p]]]

\* Fails without a single twin, and when ports are missing.
Replace(c, s, report) ==
    /\ Begin(c, "report")
    /\ sw[s] # None /\ sw[s].mode = "replace"
    /\ \E t \in Twins(s) :
         /\ Twins(s) = {t}
         /\ DOMAIN sw[t].nics \subseteq DOMAIN report.nics
         /\ KeepsConnected(sw[s], DOMAIN report.nics)
         /\ Go(c, [pc |-> "replace", switch |-> s, held |-> {s, t}, new |-> Adopt(sw[t], report.nics), twin |-> t])
    /\ Happened("stale", Someone({"set"}))
    /\ UNCHANGED <<rows, cable>>

\* The row of the switch is protected by its version, what was read of the twin is not.
ReplaceWrite(c) ==
    /\ call[c].pc = "replace"
    /\ \/ /\ call[c].switch \in call[c].held
          /\ Put(c, call[c].switch, call[c].new, Idle)
          /\ mishap' = mishap \cup (IF call[c].new.conns = sw[call[c].switch].conns THEN {} ELSE {"moved"})
                              \cup (IF call[c].twin \in call[c].held THEN {} ELSE {"stale"})
       \/ /\ call[c].switch \notin call[c].held
          /\ Finish(c)
          /\ UNCHANGED <<sw, mishap>>
    /\ UNCHANGED <<machine, cable, budget>>

-----------------------------------------------------------------------------
(* Operators and switches change ports *)

SetReplaceMode(c, s, mode) ==
    /\ Begin(c, "replace")
    /\ sw[s] # None
    /\ Put(c, s, [sw[s] EXCEPT !.mode = mode], Idle)
    /\ UNCHANGED <<machine, cable, mishap>>

Port(c, s, p, status) ==
    /\ Begin(c, "port")
    /\ sw[s] # None /\ p \in DOMAIN sw[s].nics
    /\ Put(c, s, [sw[s] EXCEPT !.nics[p].desired = status], Idle)
    /\ UNCHANGED <<machine, cable, mishap>>

\* The desired state is reached when the report says so.
NewNicState(nic, actual) == [nic EXCEPT !.desired = IF @ = actual THEN None ELSE @]

\* The switch is read, and all its nics are computed from this copy; actual is the reported state of each port.
Heartbeat(c, s, actual) ==
    /\ Begin(c, "beat")
    /\ sw[s] # None
    /\ Go(c, [pc |-> "beat", switch |-> s, read |-> sw[s].nics,
              next |-> [p \in DOMAIN sw[s].nics |-> NewNicState(sw[s].nics[p], actual[p])]])
    /\ UNCHANGED <<rows, cable, mishap>>

\* The update locks with the row it reads itself: what changed since the first read is overwritten.
HeartbeatWrite(c) ==
    /\ call[c].pc = "beat"
    /\ LET s == call[c].switch
           ok == s \in There /\ KeepsConnected(sw[s], DOMAIN call[c].next)
       IN  \/ /\ ~ok
              /\ Finish(c)
              /\ UNCHANGED <<sw, mishap>>
           \/ /\ ok
              /\ Put(c, s, [sw[s] EXCEPT !.nics = call[c].next], Idle)
              /\ Happened("stale", sw[s].nics # call[c].read)
    /\ UNCHANGED <<machine, cable, budget>>

-----------------------------------------------------------------------------
(* Migrate the machines of a switch to another one *)

Migrate(c, old, new) ==
    /\ Begin(c, "migrate")
    /\ old # new /\ sw[old] # None /\ sw[new] # None
    /\ sw[new].conns = {}
    /\ DOMAIN sw[old].nics \subseteq DOMAIN sw[new].nics
    /\ Go(c, [pc |-> "neigh", old |-> old, oldRow |-> sw[old], new |-> new, held |-> {old, new},
              todo |-> {x[1] : x \in sw[old].conns}])
    /\ Happened("moved", \/ Someone(Registering \cup Migrating)
                         \/ \E m \in Machines : PortsOf(sw[old], m) \notin {{}, {x[2] : x \in {y \in machine[m].nics : y[1] = old}}})
    /\ UNCHANGED <<rows, cable>>

\* The machines get the ports of the new switch as neighbors.
MigrateMachine(c) ==
    /\ call[c].pc = "neigh"
    /\ \/ /\ call[c].todo = {}
          /\ Go(c, [call[c] EXCEPT !.pc = "migrateOld"])
          /\ UNCHANGED machine
       \/ \E m \in call[c].todo :
            /\ machine' = [machine EXCEPT ![m].nics =
                  {IF x[1] = call[c].old /\ x[2] \in PortsOf(call[c].oldRow, m) THEN <<call[c].new, x[2]>> ELSE x : x \in @}]
            /\ Go(c, [call[c] EXCEPT !.todo = @ \ {m}])
    /\ UNCHANGED <<sw, cable, budget, mishap>>

MigrateOld(c) ==
    /\ call[c].pc = "migrateOld"
    /\ \/ /\ call[c].old \in call[c].held
          /\ Put(c, call[c].old, [sw[call[c].old] EXCEPT !.conns = {}], [call[c] EXCEPT !.pc = "migrateNew"])
          /\ UNCHANGED mishap
       \/ /\ call[c].old \notin call[c].held
          /\ Finish(c) /\ Happened("halfway", TRUE)
          /\ UNCHANGED sw
    /\ UNCHANGED <<machine, cable, budget>>

MigrateNew(c) ==
    /\ call[c].pc = "migrateNew"
    /\ \/ /\ call[c].new \in call[c].held
          /\ LET nics == sw[call[c].new].nics
             IN  /\ Put(c, call[c].new, Adopt(call[c].oldRow, nics), Idle)
                 /\ Happened("left", call[c].oldRow.conns # {}
                                     /\ LeftOver(sw[call[c].new], DOMAIN nics \ DOMAIN call[c].oldRow.nics))
       \/ /\ call[c].new \notin call[c].held
          /\ Finish(c) /\ Happened("halfway", TRUE)
          /\ UNCHANGED sw
    /\ UNCHANGED <<machine, cable, budget>>

-----------------------------------------------------------------------------
(* Delete a switch *)

Delete(c, s) ==
    /\ Begin(c, "delete")
    /\ sw[s] # None /\ sw[s].conns = {}
    /\ Go(c, [pc |-> "delete", switch |-> s])
    /\ UNCHANGED <<rows, cable, mishap>>

\* The delete names the id only, a machine that was connected meanwhile goes with it.
DeleteWrite(c) ==
    /\ call[c].pc = "delete"
    /\ Happened("removed", call[c].switch \in There /\ sw[call[c].switch].conns # {})
    /\ Put(c, call[c].switch, None, Idle)
    /\ UNCHANGED <<machine, cable, budget>>

ForceDelete(s) ==
    /\ Spend("force")
    /\ sw[s] # None
    /\ PutAtOnce(s, None)
    /\ mishap' = mishap \cup {"forced"}
    /\ UNCHANGED <<machine, cable>>

-----------------------------------------------------------------------------

Next ==
    \/ \E c \in Calls, m \in Machines : RegisterMachine(c, m) \/ InstallationSucceeded(c, m) \/ ReleaseAllocation(c, m)
    \/ \E c \in Calls : \/ FormerSwitches(c) \/ Disconnect(c) \/ ReadSwitches(c) \/ WriteFirst(c) \/ WriteSecond(c)
                        \/ WatchForTaskCompletion(c) \/ SearchSwitches(c) \/ SetVrfAtSwitches(c) \/ SetVrfFails(c)
                        \/ ReplaceWrite(c) \/ HeartbeatWrite(c) \/ DeleteWrite(c)
                        \/ MigrateMachine(c) \/ MigrateOld(c) \/ MigrateNew(c)
    \/ \E c \in Calls, s \in Switches : \E report \in Reports[s] :
         CreateSwitch(c, s, report) \/ UpdateSwitch(c, s, report) \/ Replace(c, s, report)
    \/ \E c \in Calls, s \in Switches, mode \in {"operational", "replace"} : SetReplaceMode(c, s, mode)
    \/ \E c \in Calls, s \in Switches : Delete(c, s)
    \/ \E s \in Switches : ForceDelete(s)
    \/ \E c \in Calls, s \in Switches, actual \in [Ports -> {"up", "down"}] : Heartbeat(c, s, actual)
    \/ \E c \in Calls, s \in Switches, p \in Ports, status \in {"up", "down"} : Port(c, s, p, status)
    \/ \E c \in Calls, old, new \in Switches : Migrate(c, old, new)
    \/ \E m \in Machines, v \in Vrfs : Allocate(m, v)
    \/ \E m \in Machines : \E x, y \in Plugs : x # y /\ Replug(m, {x, y})

Spec == Init /\ [][Next]_vars
-----------------------------------------------------------------------------
(* Properties *)

Unless(kinds) == mishap \cap kinds = {}
\* No call works with the machine or with one of its switches.
Settled(m) ==
    \A c \in Calls : /\ call[c].pc \in Registering \cup Setting => call[c].machine # m
                     /\ call[c].pc \notin Migrating

\* The rows of the switch and machine tables are well formed (metal.Switch, metal.Machine).
TypeOK ==
    /\ sw \in [Switches -> RowType \cup {None}]
    /\ machine \in [Machines -> MachineType]
    /\ mishap \subseteq Mishaps

\* Whatever a switch reports, gets replaced by or is told by another process, a port with a machine stays
\* one of its nics (switch-validation.go validateConnectedNics, adoptNics).
ConnectedPortExists == \A s \in There : \A x \in sw[s].conns : x[2] \in DOMAIN sw[s].nics

\* No port of a switch leads to two machines, also when two machines register at the same time and one was
\* plugged into a port of the other (ConnectMachineWithSwitches, ByNicName).
PortExclusive == Unless({"mismatch"}) =>
    \A s \in There : \A m, n \in Machines : m # n => PortsOf(sw[s], m) \cap PortsOf(sw[s], n) = {}

\* A machine is connected to the same ports of two switches, or to none: after concurrent registrations, a
\* replacement by the twin and a migration, which write several rows (ConnectMachineWithSwitches, Migrate).
TwoSwitches ==
    Unless({"halfway", "moved", "mismatch", "forced", "removed"}) =>
      \A m \in Machines : Settled(m) =>
        /\ Cardinality(Connected(m)) \in {0, 2}
        /\ \A s, t \in Connected(m) : PortsOf(sw[s], m) = PortsOf(sw[t], m)

\* A port is in the vrf of a project only while its machine is allocated to it: however the reset by a delete task,
\* its retries, and the installation of the next allocation overlap; but the vrf stays when the task is archived
\* before its reset (MachineDeleteHandleFn, SetVrfAtSwitches).
VrfOfAllocation ==
    Unless(Mishaps \ {"overtaken"}) =>
      \A m \in Machines : Settled(m) => \A s \in Connected(m) : \A p \in PortsOf(sw[s], m) :
        sw[s].nics[p].vrf \in {None, machine[m].vrf} \cup machine[m].stuck

\* An installed machine reaches its project network on both switches, also after one was replaced or its
\* machines were migrated, and whatever an archived task left (InstallationSucceeded, adoptFromTwin, Migrate).
InstalledInVrf ==
    Unless(Mishaps) =>
      \A m \in Machines : Settled(m) /\ machine[m].up => \A s \in Connected(m) : \A p \in PortsOf(sw[s], m) :
        sw[s].nics[p].vrf = machine[m].vrf

\* A port without a machine is in no vrf, so a machine that is plugged in there does not start in the network of
\* another project (Migrate leaves the vrfs of the old switch, SetVrfAtSwitches).
VacantInNoVrf ==
    Unless(Mishaps \ {"overtaken"}) =>
      \A s \in There : \A p \in DOMAIN sw[s].nics :
        sw[s].conns # {} /\ (\A m \in Machines : p \notin PortsOf(sw[s], m)) => sw[s].nics[p].vrf = None

\* Every port that a machine is connected to is there, and its alone.
PortsSound == TypeOK /\ ConnectedPortExists /\ PortExclusive

\* Both switches of a machine have its ports in the vrf of its allocation, and in no other (SetVrfAtSwitches).
VrfsAgree == VrfOfAllocation /\ InstalledInVrf /\ VacantInNoVrf
=============================================================================
