------------------------- MODULE MachineAllocation -------------------------
(* Allocating and freeing machines: pkg/repository/machine-create.go, asn.go *)
(* and the decommissioning and delete task of machine.go. Every database    *)
(* access of a request or a task is a step of its own; the row of a machine *)
(* or of a static ip is written only by a process whose copy is still       *)
(* current (Update of Storage). A request makes one allocation, so the       *)
(* request stands for the uuid of its allocation, and it attaches one ip:    *)
(* the static ip it names or an ephemeral one created for it.               *)
EXTENDS Integers

CONSTANTS
    Machines, Requests, Deletes,   \* Deletes: calls of Decommission
    StaticIps, PoolIps,            \* addresses of existing static ips, and free ones
    UuidOf,       \* UuidOf[r]: the machine the request names, or Nobody
    StaticOf,     \* StaticOf[r]: the static ip the request names, or Nobody
    AsnBase,      \* asn = AsnBase + the integer of the pool
    AsnCount,     \* the pool holds 1..AsnCount
    MayFail,      \* the steps that may fail
    MaxTries,     \* how often a delete task is tried
    Nobody

Steps == {"lockexpiry", "crash", "networks", "commit", "push", "ipwait", "bmc"}
Procs == Requests \cup Deletes
Addresses == StaticIps \cup PoolIps
Pool == 1..AsnCount

ASSUME AllocationAssumption ==
    /\ UuidOf \in [Requests -> Machines \cup {Nobody}]
    /\ StaticOf \in [Requests -> StaticIps \cup {Nobody}]
    /\ AsnBase \in Nat \ {0} /\ AsnCount \in Nat /\ MaxTries \in Nat
    /\ MayFail \subseteq Steps
    /\ Nobody \notin Machines \cup Procs \cup Addresses
    /\ StaticIps \cap PoolIps = {} /\ Requests \cap Deletes = {}
    /\ Machines \cap Addresses = {} /\ Requests \cap Addresses = {}

VARIABLES
    row,      \* row[m]: the row of machine m
    ip,       \* ip[a]: uuid (Nobody: free) and machine tags of address a
    pool,     \* the free integers of the asn pool
    lock,     \* who holds the lock of the partition
    copies,   \* <<p, x>>: the copy p read of row x is still the current one
    pc,       \* where request r is
    target,   \* the machine request r works on
    asn,      \* the asn request r acquired, 0 before
    addr,     \* the address of the ip of request r
    seen,     \* the allocation the rollback of r found
    job,      \* job[d]: the decommissioning d and its delete task
    ipTasks,  \* uuids of ips with a delete task in the queue
    hw        \* hw[m]: the allocation machine m was installed for

requestVars == <<pc, target, asn, addr, seen>>
vars == <<row, ip, pool, lock, copies, requestVars, job, ipTasks, hw>>

----------------------------------------------------------------------------
(* Rows and their copies                                                    *)

Allocated(m) == row[m].alloc # Nobody
Current(p, x) == <<p, x>> \in copies

(* p reads row x.                                                           *)
Copy(p, x) == copies' = copies \cup {<<p, x>>}

(* Row x is written: nobody's copy is current any more.                     *)
Written(x) == {c \in copies : c[2] # x}

(* Mutant: an Update that does not compare the changed timestamp.           *)
WriteMachineBlind(p, m, r) ==
    /\ row' = [row EXCEPT ![m] = r]
    /\ copies' = Written(m)

(* ds.Machine().Update by a process whose copy is current; the others get   *)
(* an error (Stale).                                                        *)
WriteMachine(p, m, r) ==
    /\ Current(p, m)
    /\ row' = [row EXCEPT ![m] = r]
    /\ copies' = Written(m)

Stale(p, x) == ~Current(p, x) /\ UNCHANGED copies

Cleared(m) == [row[m] EXCEPT !.alloc = Nobody, !.pre = "no"]

----------------------------------------------------------------------------
(* Creating a machine                                                       *)

Goto(r, from, to) == pc[r] = from /\ pc' = [pc EXCEPT ![r] = to]

(* validateCreate: a machine that is named must be unallocated and waiting, *)
(* a static ip that is named must not be attached to a machine.             *)
Valid(r) ==
    /\ UuidOf[r] = Nobody \/ (~Allocated(UuidOf[r]) /\ row[UuidOf[r]].waiting = "yes")
    /\ StaticOf[r] = Nobody \/ ip[StaticOf[r]].tags = {}

Validate(r) ==
    /\ Goto(r, "validate", IF ~Valid(r) THEN "rejected"
                           ELSE IF UuidOf[r] = Nobody THEN "lock" ELSE "convert")
    /\ target' = [target EXCEPT ![r] = UuidOf[r]]
    /\ UNCHANGED <<row, ip, pool, lock, copies, asn, addr, seen, job, ipTasks, hw>>

(* findWaitingMachine: the lock is not to be had in time.                   *)
LockTimeout(r) ==
    /\ lock # Nobody
    /\ Goto(r, "lock", "failed")
    /\ UNCHANGED <<row, ip, pool, lock, copies, target, asn, addr, seen, job, ipTasks, hw>>

Lock(r) ==
    /\ lock = Nobody
    /\ Goto(r, "lock", "list")
    /\ lock' = r
    /\ UNCHANGED <<row, ip, pool, copies, target, asn, addr, seen, job, ipTasks, hw>>

(* The lock is held for longer than its expiration of ten seconds.          *)
LockExpires ==
    /\ "lockexpiry" \in MayFail
    /\ lock # Nobody
    /\ lock' = Nobody
    /\ UNCHANGED <<row, ip, pool, copies, requestVars, job, ipTasks, hw>>

(* Mutant: machines another request has preallocated are candidates.        *)
CandidatesPreallocated == {m \in Machines : ~Allocated(m) /\ row[m].waiting = "yes"}

Candidates ==
    {m \in Machines : ~Allocated(m) /\ row[m].waiting = "yes" /\ row[m].pre = "no"}

(* The candidates are listed and one of them is selected.                   *)
SelectCandidate(r) ==
    \E m \in Candidates :
        /\ Goto(r, "list", "reserve")
        /\ target' = [target EXCEPT ![r] = m]
        /\ Copy(r, m)
        /\ UNCHANGED <<row, ip, pool, lock, asn, addr, seen, job, ipTasks, hw>>

NoCandidate(r) ==
    /\ Candidates = {}
    /\ Goto(r, "list", "failed")
    /\ lock' = Nobody
    /\ UNCHANGED <<row, ip, pool, copies, target, asn, addr, seen, job, ipTasks, hw>>

(* The selected machine is marked as preallocated and the lock released. If *)
(* the row changed the request fails without a rollback of the machine.     *)
Reserve(r) ==
    /\ \/ /\ Goto(r, "reserve", "convert")
          /\ WriteMachine(r, target[r], [row[target[r]] EXCEPT !.pre = "yes"])
       \/ Goto(r, "reserve", "failed") /\ Stale(r, target[r]) /\ UNCHANGED row
    /\ lock' = Nobody
    /\ UNCHANGED <<ip, pool, target, asn, addr, seen, job, ipTasks, hw>>

(* convertToMetalAllocationNetworks reads the ips that are named.           *)
ConvertNetworks(r) ==
    /\ Goto(r, "convert", "asn")
    /\ IF StaticOf[r] = Nobody THEN UNCHANGED copies ELSE Copy(r, StaticOf[r])
    /\ UNCHANGED <<row, ip, pool, lock, target, asn, addr, seen, job, ipTasks, hw>>

(* Mutant: acquireASN reads an integer without taking it.                   *)
AcquireASNReading(r) ==
    /\ Goto(r, "asn", "ip")
    /\ \E v \in pool : asn' = [asn EXCEPT ![r] = AsnBase + v]
    /\ UNCHANGED <<row, ip, pool, lock, copies, target, addr, seen, job, ipTasks, hw>>

AcquireASN(r) ==
    /\ Goto(r, "asn", "ip")
    /\ \E v \in pool : pool' = pool \ {v} /\ asn' = [asn EXCEPT ![r] = AsnBase + v]
    /\ UNCHANGED <<row, ip, lock, copies, target, addr, seen, job, ipTasks, hw>>

(* makeMachineNetwork creates an ephemeral ip if none is named.             *)
CreateIP(r) ==
    /\ Goto(r, "ip", "tag")
    /\ IF StaticOf[r] # Nobody
       THEN UNCHANGED ip /\ addr' = [addr EXCEPT ![r] = StaticOf[r]]
       ELSE \E a \in PoolIps :
               /\ ip[a].uuid = Nobody
               /\ ip' = [ip EXCEPT ![a].uuid = r]
               /\ addr' = [addr EXCEPT ![r] = a]
    /\ UNCHANGED <<row, pool, lock, copies, target, asn, seen, job, ipTasks, hw>>

(* ... and attaches the ip to the machine.                                  *)
TagIP(r) ==
    /\ Goto(r, "tag", "refetch")
    /\ StaticOf[r] = Nobody \/ Current(r, addr[r])
    /\ ip' = [ip EXCEPT ![addr[r]].tags = @ \cup {target[r]}]
    /\ copies' = Written(addr[r])
    /\ UNCHANGED <<row, pool, lock, target, asn, addr, seen, job, ipTasks, hw>>

(* convertToMetalAllocationNetworks or makeNetworks fails: the pool or the  *)
(* network has nothing left, the static ip was written by somebody else, or *)
(* the database or the ipam answered with an error. The rollback then knows *)
(* the machine but not the ips.                                             *)
NetworksFail(r) ==
    /\ pc[r] \in {"convert", "asn", "ip", "tag"}
    /\ \/ "networks" \in MayFail
       \/ pc[r] = "asn" /\ pool = {}
       \/ pc[r] = "ip" /\ StaticOf[r] = Nobody /\ \A a \in PoolIps : ip[a].uuid # Nobody
       \/ pc[r] = "tag" /\ StaticOf[r] # Nobody /\ ~Current(r, addr[r])
    /\ pc' = [pc EXCEPT ![r] = "rollback"]
    /\ UNCHANGED <<row, ip, pool, lock, copies, target, asn, addr, seen, job, ipTasks, hw>>

(* The machine is fetched again; it must still be unallocated.              *)
Refetch(r) ==
    /\ Goto(r, "refetch", IF Allocated(target[r]) THEN "rollbackip" ELSE "commit")
    /\ Copy(r, target[r])
    /\ UNCHANGED <<row, ip, pool, lock, target, asn, addr, seen, job, ipTasks, hw>>

(* The allocation is written. The answer to a write may get lost, which is  *)
(* an error like any other.                                                 *)
Commit(r) ==
    /\ \/ /\ \/ Goto(r, "commit", "push")
             \/ "commit" \in MayFail /\ Goto(r, "commit", "rollbackip")
          /\ WriteMachine(r, target[r], [row[target[r]] EXCEPT !.alloc = r, !.pre = "no"])
       \/ Goto(r, "commit", "rollbackip") /\ Stale(r, target[r]) /\ UNCHANGED row
    /\ UNCHANGED <<ip, pool, lock, target, asn, addr, seen, job, ipTasks, hw>>

(* The machine is told; a failure is reported to the caller without more.   *)
PushMachineAllocation(r) ==
    /\ \/ Goto(r, "push", "done")
       \/ "push" \in MayFail /\ Goto(r, "push", "failed")
    /\ UNCHANGED <<row, ip, pool, lock, copies, target, asn, addr, seen, job, ipTasks, hw>>

(* The server dies in the middle of a request.                              *)
Crash(r) ==
    /\ "crash" \in MayFail
    /\ pc[r] \notin {"rejected", "failed", "done", "crashed"}
    /\ pc' = [pc EXCEPT ![r] = "crashed"]
    /\ UNCHANGED <<row, ip, pool, lock, copies, target, asn, addr, seen, job, ipTasks, hw>>

----------------------------------------------------------------------------
(* Rolling back                                                             *)

(* An ephemeral ip is handed to a delete task, a static one detached.       *)
RollbackIP(r) ==
    /\ Goto(r, "rollbackip", "rollback")
    /\ IF StaticOf[r] = Nobody
       THEN ipTasks' = ipTasks \cup {r} /\ UNCHANGED <<ip, copies>>
       ELSE /\ ip' = [ip EXCEPT ![addr[r]].tags = @ \ {target[r]}]
            /\ copies' = Written(addr[r])
            /\ UNCHANGED ipTasks
    /\ UNCHANGED <<row, pool, lock, target, asn, addr, seen, job, hw>>

(* The machine is read; without an allocation the rollback is over.         *)
RollbackGet(r) ==
    /\ Goto(r, "rollback", IF Allocated(target[r]) THEN "rollbackasn" ELSE "failed")
    /\ seen' = [seen EXCEPT ![r] = row[target[r]].alloc]
    /\ Copy(r, target[r])
    /\ UNCHANGED <<row, ip, pool, lock, target, asn, addr, job, ipTasks, hw>>

(* The asn of the allocation that was found is released ...                 *)
RollbackASN(r) ==
    /\ Goto(r, "rollbackasn", "rollbackclear")
    /\ pool' = pool \cup {asn[seen[r]] - AsnBase}
    /\ UNCHANGED <<row, ip, lock, copies, target, asn, addr, seen, job, ipTasks, hw>>

(* ... and the allocation removed, unless the row was written meanwhile.    *)
RollbackClear(r) ==
    /\ Goto(r, "rollbackclear", "failed")
    /\ \/ WriteMachine(r, target[r], Cleared(target[r]))
       \/ Stale(r, target[r]) /\ UNCHANGED row
    /\ UNCHANGED <<ip, pool, lock, target, asn, addr, seen, job, ipTasks, hw>>

----------------------------------------------------------------------------
(* Freeing a machine                                                        *)

JobGoto(d, from, to) == job[d].st = from /\ job' = [job EXCEPT ![d].st = to]

(* Decommission reads the machine ...                                       *)
Decommission(d) ==
    /\ job[d].st = "none"
    /\ \E m \in Machines :
          /\ Allocated(m)
          /\ job' = [job EXCEPT ![d].st = "ips", ![d].alloc = row[m].alloc, ![d].machine = m]
    /\ UNCHANGED <<row, ip, pool, lock, copies, requestVars, ipTasks, hw>>

(* ... then the ips with the addresses in the allocation, whose uuids it    *)
(* puts into the payload of the delete task.                                *)
DecommissionIPs(d) ==
    /\ job[d].st = "ips"
    /\ job' = [job EXCEPT ![d].st = "asn",
                          ![d].ips = {ip[addr[job[d].alloc]].uuid} \ {Nobody}]
    /\ UNCHANGED <<row, ip, pool, lock, copies, requestVars, ipTasks, hw>>

(* releaseAsnTask, the loop over the networks: it compares the asn found so *)
(* far, 0 at first, with AsnBase before it takes the asn of the network.    *)
AsnFound(q) == LET found == 0 IN IF found >= AsnBase THEN asn[q] ELSE found

UsedElsewhere(a, q) ==
    \E m \in Machines : Allocated(m) /\ row[m].alloc # q /\ asn[row[m].alloc] = a

(* releaseAsnTask: the asn of the allocation, if the machine still has it   *)
(* and no other allocation uses the asn.                                    *)
ReleaseAsn(d) ==
    /\ job[d].st = "asn"
    /\ job' = [job EXCEPT ![d].st = "release", ![d].allocation = "find", ![d].ip = "find"]
    /\ LET q == job[d].alloc
           a == AsnFound(q)
       IN  pool' = IF (\E m \in Machines : row[m].alloc = q) /\ a # 0 /\ ~UsedElsewhere(a, q)
                   THEN pool \cup {a - AsnBase} ELSE pool
    /\ UNCHANGED <<row, ip, lock, copies, requestVars, ipTasks, hw>>

(* Mutant: the machine is fetched by its own id.                            *)
ReleaseAllocationFindById(d) ==
    /\ job[d].st = "release" /\ job[d].allocation = "find"
    /\ job' = [job EXCEPT ![d].allocation = "update"]
    /\ Copy(d, job[d].machine)
    /\ UNCHANGED <<row, ip, pool, lock, requestVars, ipTasks, hw>>

(* releaseAllocationTask: the machine is found by the uuid of the           *)
(* allocation, which may be gone already ...                                *)
ReleaseAllocationFind(d) ==
    /\ job[d].st = "release" /\ job[d].allocation = "find"
    /\ IF \E m \in Machines : row[m].alloc = job[d].alloc
       THEN job' = [job EXCEPT ![d].allocation = "update"] /\ Copy(d, job[d].machine)
       ELSE job' = [job EXCEPT ![d].allocation = "ok"] /\ UNCHANGED copies
    /\ UNCHANGED <<row, ip, pool, lock, requestVars, ipTasks, hw>>

(* ... and the allocation is removed from it.                               *)
ReleaseAllocationUpdate(d) ==
    /\ job[d].st = "release" /\ job[d].allocation = "update"
    /\ LET m == job[d].machine IN
          \/ /\ WriteMachine(d, m, Cleared(m))
             /\ job' = [job EXCEPT ![d].allocation = "ok"]
          \/ /\ Stale(d, m) /\ UNCHANGED row
             /\ job' = [job EXCEPT ![d].allocation = "error"]
    /\ UNCHANGED <<ip, pool, lock, requestVars, ipTasks, hw>>

(* Mutant: the ips are found by their address instead of their uuid.        *)
ReleaseMachineIPByAddress(d) ==
    /\ job[d].st = "release" /\ job[d].ip = "find"
    /\ LET found == {a \in Addresses : a = addr[job[d].alloc] /\ ip[a].uuid # Nobody} IN
          /\ ip' = [a \in Addresses |->
                      IF a \in found \cap StaticIps
                      THEN [ip[a] EXCEPT !.tags = @ \ {job[d].machine}] ELSE ip[a]]
          /\ copies' = {c \in copies : c[2] \notin found \cap StaticIps}
          /\ ipTasks' = ipTasks \cup {ip[a].uuid : a \in found \cap PoolIps}
    /\ job' = [job EXCEPT ![d].ip = "wait"]
    /\ UNCHANGED <<row, pool, lock, requestVars, hw>>

(* releaseMachineIPsTask, concurrently: a static ip is detached if it is    *)
(* attached to this machine, an ephemeral one handed to a delete task which *)
(* is waited for.                                                           *)
ReleaseMachineIP(d) ==
    /\ job[d].st = "release" /\ job[d].ip = "find"
    /\ LET found == {a \in Addresses : ip[a].uuid \in job[d].ips} IN
          /\ ip' = [a \in Addresses |->
                      IF a \in found \cap StaticIps
                      THEN [ip[a] EXCEPT !.tags = @ \ {job[d].machine}] ELSE ip[a]]
          /\ copies' = {c \in copies : c[2] \notin found \cap StaticIps}
          /\ ipTasks' = ipTasks \cup {ip[a].uuid : a \in found \cap PoolIps}
    /\ job' = [job EXCEPT ![d].ip = "wait"]
    /\ UNCHANGED <<row, pool, lock, requestVars, hw>>

(* The watch ends when the tasks have, or after three seconds.              *)
ReleaseMachineIPWait(d) ==
    /\ job[d].st = "release" /\ job[d].ip = "wait"
    /\ \/ job[d].ips \cap ipTasks = {} /\ job' = [job EXCEPT ![d].ip = "ok"]
       \/ "ipwait" \in MayFail /\ job[d].ips \cap ipTasks # {} /\ job' = [job EXCEPT ![d].ip = "error"]
    /\ UNCHANGED <<row, ip, pool, lock, copies, requestVars, ipTasks, hw>>

(* Mutant: a task that failed is tried again without a limit.               *)
RetriedForever(d) == [job EXCEPT ![d].st = "asn"]

(* A task that failed is tried again from the start, up to its limit.       *)
Retried(d) ==
    IF job[d].tries < MaxTries
    THEN [job EXCEPT ![d].st = "asn", ![d].tries = @ + 1]
    ELSE [job EXCEPT ![d].st = "archived"]

(* errgroup.Wait: both must have ended, and without an error.               *)
ReleaseJoin(d) ==
    /\ job[d].st = "release"
    /\ {job[d].allocation, job[d].ip} \subseteq {"ok", "error"}
    /\ job' = IF "error" \in {job[d].allocation, job[d].ip} THEN Retried(d)
              ELSE [job EXCEPT ![d].st = "bmc"]
    /\ UNCHANGED <<row, ip, pool, lock, copies, requestVars, ipTasks, hw>>

(* The MACHINE_DELETED command resets the machine. The task waits ten       *)
(* seconds for the bmc's answer and otherwise fails.                        *)
MachineBMCCommand(d) ==
    /\ \/ JobGoto(d, "bmc", "vrf")
       \/ "bmc" \in MayFail /\ job[d].st = "bmc" /\ job' = Retried(d)
    /\ hw' = [hw EXCEPT ![job[d].machine] = Nobody]
    /\ UNCHANGED <<row, ip, pool, lock, copies, requestVars, ipTasks>>

(* SetVrfAtSwitches puts the ports of the machine back into the pxe vrf,    *)
(* which is all that the model keeps of the switches.                       *)
ResetVrf(d) ==
    /\ JobGoto(d, "vrf", "done")
    /\ UNCHANGED <<row, ip, pool, lock, copies, requestVars, ipTasks, hw>>

(* IpDeleteHandleFn                                                         *)
DeleteIP(u) ==
    /\ u \in ipTasks
    /\ ip' = [a \in Addresses |->
                IF ip[a].uuid = u THEN [uuid |-> Nobody, tags |-> {}] ELSE ip[a]]
    /\ ipTasks' = ipTasks \ {u}
    /\ UNCHANGED <<row, pool, lock, copies, requestVars, job, hw>>

----------------------------------------------------------------------------
(* The machine                                                              *)

(* Wait: a machine without an installed system says that it is waiting; the *)
(* flag is removed when the stream ends, if that write succeeds.            *)
SetWaitingFlag(m, flag) ==
    /\ hw[m] = Nobody \/ flag = "no"
    /\ row[m].waiting # flag
    /\ row' = [row EXCEPT ![m].waiting = flag]
    /\ copies' = Written(m)
    /\ UNCHANGED <<ip, pool, lock, requestVars, job, ipTasks, hw>>

(* Wait sends the allocation, and the machine installs itself.              *)
Install(m) ==
    /\ hw[m] = Nobody
    /\ Allocated(m)
    /\ hw' = [hw EXCEPT ![m] = row[m].alloc]
    /\ UNCHANGED <<row, ip, pool, lock, copies, requestVars, job, ipTasks>>

(* InstallationSucceeded stores the console password in the allocation (and *)
(* puts the ports of the machine into the vrf of the allocation).           *)
InstallationSucceeded(m) ==
    /\ hw[m] # Nobody
    /\ Allocated(m)
    /\ copies' = Written(m)
    /\ UNCHANGED <<row, ip, pool, lock, requestVars, job, ipTasks, hw>>

----------------------------------------------------------------------------

NoJob == [st |-> "none", alloc |-> Nobody, machine |-> Nobody, ips |-> {},
          allocation |-> "find", ip |-> "find", tries |-> 1]

Init ==
    /\ row = [m \in Machines |-> [alloc |-> Nobody, pre |-> "no", waiting |-> "yes"]]
    /\ ip = [a \in Addresses |-> [uuid |-> IF a \in StaticIps THEN a ELSE Nobody, tags |-> {}]]
    /\ pool = Pool
    /\ lock = Nobody
    /\ copies = {}
    /\ pc = [r \in Requests |-> "validate"]
    /\ target = [r \in Requests |-> Nobody]
    /\ asn = [r \in Requests |-> 0]
    /\ addr = [r \in Requests |-> Nobody]
    /\ seen = [r \in Requests |-> Nobody]
    /\ job = [d \in Deletes |-> NoJob]
    /\ ipTasks = {}
    /\ hw = [m \in Machines |-> Nobody]

RequestStep(r) ==
    \/ Validate(r) \/ Lock(r) \/ LockTimeout(r) \/ SelectCandidate(r) \/ NoCandidate(r)
    \/ Reserve(r) \/ ConvertNetworks(r) \/ AcquireASN(r) \/ CreateIP(r) \/ TagIP(r)
    \/ NetworksFail(r) \/ Refetch(r) \/ Commit(r) \/ PushMachineAllocation(r)
    \/ RollbackIP(r) \/ RollbackGet(r) \/ RollbackASN(r) \/ RollbackClear(r)

TaskStep(d) ==
    \/ DecommissionIPs(d) \/ ReleaseAsn(d)
    \/ ReleaseAllocationFind(d) \/ ReleaseAllocationUpdate(d)
    \/ ReleaseMachineIP(d) \/ ReleaseMachineIPWait(d) \/ ReleaseJoin(d)
    \/ MachineBMCCommand(d) \/ ResetVrf(d)

MachineStep(m) ==
    \/ SetWaitingFlag(m, "yes") \/ SetWaitingFlag(m, "no")
    \/ Install(m) \/ InstallationSucceeded(m)

Next ==
    \/ \E r \in Requests : RequestStep(r) \/ Crash(r)
    \/ LockExpires
    \/ \E d \in Deletes : Decommission(d) \/ TaskStep(d)
    \/ \E u \in Requests : DeleteIP(u)
    \/ \E m \in Machines : MachineStep(m)

Spec == Init /\ [][Next]_vars

(* Handlers run to their end, and asynq runs every task it was given.       *)
Fairness ==
    /\ \A r \in Requests : WF_vars(RequestStep(r))
    /\ \A d \in Deletes : WF_vars(TaskStep(d))
    /\ \A u \in Requests : WF_vars(DeleteIP(u))

FairSpec == Spec /\ Fairness

----------------------------------------------------------------------------
(* Properties                                                               *)

RequestStates ==
    {"validate", "lock", "list", "reserve", "convert", "asn", "ip", "tag", "refetch",
     "commit", "push", "rollbackip", "rollback", "rollbackasn", "rollbackclear",
     "rejected", "failed", "done", "crashed"}

MachineRows ==
    [alloc : Requests \cup {Nobody}, pre : {"yes", "no"}, waiting : {"yes", "no"}]

IpRows == [uuid : Requests \cup StaticIps \cup {Nobody}, tags : SUBSET Machines]

Asns == {AsnBase + v : v \in Pool}

Jobs == [st : {"none", "ips", "asn", "release", "bmc", "vrf", "done", "archived"},
         alloc : Requests \cup {Nobody}, machine : Machines \cup {Nobody},
         ips : SUBSET (Requests \cup StaticIps),
         allocation : {"find", "update", "ok", "error"},
         ip : {"find", "wait", "ok", "error"}, tries : 1..(MaxTries + 1)]

(* The type of the state: in particular only integers of the pool are given *)
(* back to it (releaseASN subtracts what acquireASN added).                 *)
TypeOK ==
    /\ row \in [Machines -> MachineRows]
    /\ ip \in [Addresses -> IpRows]
    /\ pool \subseteq Pool
    /\ lock \in Requests \cup {Nobody}
    /\ copies \subseteq Procs \X (Machines \cup Addresses)
    /\ pc \in [Requests -> RequestStates]
    /\ target \in [Requests -> Machines \cup {Nobody}]
    /\ asn \in [Requests -> Asns \cup {0}]
    /\ addr \in [Requests -> Addresses \cup {Nobody}]
    /\ seen \in [Requests -> Requests \cup {Nobody}]
    /\ job \in [Deletes -> Jobs]
    /\ ipTasks \subseteq Requests
    /\ hw \in [Machines -> Requests \cup {Nobody}]

Ended(r) == pc[r] \in {"rejected", "failed", "done", "crashed"}
Freed(q) == \E d \in Deletes : job[d].alloc = q

(* An allocation is never overwritten by another one: the refetch and the   *)
(* optimistic lock of allocateMachine, not the lock of the partition, keep  *)
(* two requests from getting the same machine.                              *)
AllocationNeverReplaced ==
    [][\A m \in Machines : Allocated(m) => row'[m].alloc \in {row[m].alloc, Nobody}]_vars

(* An allocation is removed only by the delete task for it or by the        *)
(* rollback of the request that made it.                                    *)
OnlyOwnerRemoves ==
    [][\A m \in Machines : Allocated(m) /\ row'[m].alloc = Nobody =>
          \/ Freed(row[m].alloc)
          \/ pc[row[m].alloc] = "rollbackclear"]_vars

(* The machine was allocated and its request knows it.                      *)
Given(m) == Allocated(m) /\ pc[row[m].alloc] \in {"push", "done"}

(* Two machines that were given out never have the same asn (makeNetworks:  *)
(* "the same unique ASN on all networks of this machine"), and their asns   *)
(* are not free to be acquired again. (An allocation whose write was not    *)
(* answered may keep an asn that its rollback has released.)                *)
AsnUnique ==
    \A m \in Machines : Given(m) =>
        /\ \A n \in Machines : m # n /\ Given(n) => asn[row[m].alloc] # asn[row[n].alloc]
        /\ asn[row[m].alloc] - AsnBase \notin pool

(* No allocation is decommissioned twice. The second call reads the ips     *)
(* that have the addresses of the allocation now, whoever they belong to.   *)
FreedOnce == \A d, e \in Deletes : job[d].alloc = job[e].alloc /\ job[d].alloc # Nobody => d = e

(* The machine was freed before with the same static ip. A retried task     *)
(* detaches that ip from the machine again.                                 *)
AttachedAgain(m, q) ==
    /\ StaticOf[q] # Nobody
    /\ \E d \in Deletes : job[d].machine = m /\ StaticOf[job[d].alloc] = StaticOf[q]

(* As long as nobody asked to free it, an allocated machine keeps its ip:   *)
(* the ip is the one made for the allocation and is attached to it, except  *)
(* in the two cases above.                                                  *)
IpKept ==
    FreedOnce =>
    \A m \in Machines :
        LET q == row[m].alloc IN
        Given(m) /\ ~Freed(q) /\ ~AttachedAgain(m, q) =>
            /\ ip[addr[q]].uuid = (IF StaticOf[q] = Nobody THEN q ELSE StaticOf[q])
            /\ m \in ip[addr[q]].tags

(* A delete task that got past its release steps has removed the            *)
(* allocation for good.                                                     *)
DeletedForGood ==
    \A d \in Deletes : job[d].st \in {"bmc", "vrf", "done"} =>
        \A m \in Machines : row[m].alloc # job[d].alloc

(* Every request comes to an end, whatever fails.                           *)
RequestsEnd == \A r \in Requests : <>[]Ended(r)

(* Every decommissioning that was begun comes to an end.                    *)
DeletesEnd == \A d \in Deletes : [](job[d].st # "none" => <>(job[d].st \in {"done", "archived"}))

(* Machines, their asns and their ips belong together, whatever requests    *)
(* race for them or fail halfway.                                           *)
Consistent == TypeOK /\ AsnUnique /\ IpKept

(* What nobody asked to free is kept, and what was freed is not kept: a     *)
(* retried task hits neither the next allocation nor its ip.                *)
KeptUntilFreed == IpKept /\ DeletedForGood

(* Requests and decommissionings both end, although each may wait for what  *)
(* the other holds: the lock of the partition, a machine, a task.           *)
CallsEnd == RequestsEnd /\ DeletesEnd
=============================================================================
