---------------------- MODULE MachineAllocationProofs ----------------------
(* Proofs about MachineAllocation, for any machines, requests and tasks.    *)
EXTENDS MachineAllocation, TLAPS

(***************************************************************************)
(* What holds in every instance: types, and what a request or a delete     *)
(* task knows of its allocation.                                           *)
(***************************************************************************)

(* A request about to write an allocation, whose copy of the machine is     *)
(* current, works on a machine without one: it was checked when the copy    *)
(* was made, and every write of the row since would have made it stale.     *)
CommitsUnallocated ==
    \A r \in Requests, m \in Machines :
        pc[r] = "commit" /\ target[r] = m /\ Current(r, m) => ~Allocated(m)

(* What the rollback and the delete task write is a row without allocation. *)
LEMMA ClearedRow ==
    ASSUME row \in [Machines -> MachineRows], NEW m \in Machines
    PROVE  Cleared(m) \in MachineRows /\ Cleared(m).alloc = Nobody
BY DEF Cleared, MachineRows

(* States in which a request has not chosen a machine, or has given up.     *)
Unplaced == {"validate", "lock", "list", "rejected", "failed", "crashed"}
(* States a request gets to only after the write of its allocation, or      *)
(* by giving up.                                                            *)
PastCommit == {"push", "done", "failed", "crashed", "rollbackip", "rollback", "rollbackasn",
               "rollbackclear"}

(* A request has what its next step needs: the machine, the asn, the ip,    *)
(* the allocation to roll back.                                             *)
Prepared ==
    \A r \in Requests :
        /\ pc[r] \notin Unplaced => target[r] \in Machines
        /\ pc[r] \in {"ip", "tag", "refetch", "commit"} => asn[r] # 0
        /\ pc[r] \in {"tag", "refetch", "commit", "rollbackip", "push", "done"} => addr[r] \in Addresses
        /\ pc[r] \in {"rollbackasn", "rollbackclear"} => seen[r] \in Requests /\ asn[seen[r]] # 0

(* The row of a machine names a request that is done with it: nothing of    *)
(* the allocation changes any more.                                         *)
RowsKnown ==
    \A m \in Machines : Allocated(m) =>
        LET q == row[m].alloc IN
        target[q] = m /\ pc[q] \in PastCommit /\ asn[q] # 0 /\ addr[q] \in Addresses

(* So does the payload of a delete task.                                    *)
JobsKnown ==
    \A d \in Deletes : job[d].st # "none" =>
        LET q == job[d].alloc IN
        /\ q \in Requests /\ pc[q] \in PastCommit
        /\ job[d].machine = target[q] /\ target[q] \in Machines /\ addr[q] \in Addresses

(* A delete task with a current copy of the machine found its own           *)
(* allocation in it, and one that is done with it left none behind.         *)
JobsCurrent ==
    \A d \in Deletes :
        job[d].st = "release" /\ job[d].allocation = "update" /\ Current(d, job[d].machine)
            => row[job[d].machine].alloc = job[d].alloc

Removed(d) == job[d].st \in {"bmc", "vrf", "done"} \/ (job[d].st = "release" /\ job[d].allocation = "ok")
JobsDone == \A d \in Deletes : Removed(d) => \A m \in Machines : row[m].alloc # job[d].alloc

(* Static ips keep their uuid, and an ephemeral ip has the uuid of the       *)
(* request that made it, and that has not forgotten its address.            *)
Uuids ==
    /\ \A a \in StaticIps : ip[a].uuid = a
    /\ \A a \in PoolIps : ip[a].uuid # Nobody =>
          LET q == ip[a].uuid IN
          /\ q \in Requests /\ addr[q] = a /\ StaticOf[q] = Nobody
          /\ pc[q] \notin {"validate", "lock", "list", "reserve", "convert", "asn", "ip"}

Known == Prepared /\ RowsKnown /\ JobsKnown /\ Uuids

(* A copy that a process makes of a row is typed.                           *)
LEMMA CopyTyped ==
    ASSUME copies \subseteq Procs \X (Machines \cup Addresses),
           NEW p \in Procs, NEW x \in Machines \cup Addresses, Copy(p, x)
    PROVE  copies' \subseteq Procs \X (Machines \cup Addresses)
BY DEF Copy

(* What a step does to a delete task: the other tasks stay as they are, and *)
(* the task keeps its payload.                                              *)
JobStays(d) ==
    /\ job' \in [Deletes -> Jobs]
    /\ \A e \in Deletes : e # d => job'[e] = job[e]

JobMoves(d, st, allocation, i) ==
    /\ JobStays(d)
    /\ job'[d].alloc = job[d].alloc /\ job'[d].machine = job[d].machine
    /\ job'[d].st = st /\ job'[d].allocation = allocation /\ job'[d].ip = i

(* The tasks change as the actions say, field by field.                     *)
LEMMA DecommissionEffect ==
    ASSUME row \in [Machines -> MachineRows], job \in [Deletes -> Jobs],
           NEW d \in Deletes, Decommission(d)
    PROVE  /\ JobStays(d)
           /\ job'[d].st = "ips" /\ job'[d].allocation = job[d].allocation
           /\ job'[d].ip = job[d].ip /\ job'[d].ips = job[d].ips
           /\ \E m \in Machines :
                 Allocated(m) /\ job'[d].alloc = row[m].alloc /\ job'[d].machine = m
<1>1. PICK m \in Machines :
        Allocated(m) /\ job' = [job EXCEPT ![d].st = "ips", ![d].alloc = row[m].alloc, ![d].machine = m]
  BY DEF Decommission
<1>2. row[m].alloc \in Requests \cup {Nobody}
  BY DEF MachineRows
<1>3. job' = [job EXCEPT ![d] = [job[d] EXCEPT !.st = "ips", !.alloc = row[m].alloc, !.machine = m]]
  BY <1>1
<1>4. [job[d] EXCEPT !.st = "ips", !.alloc = row[m].alloc, !.machine = m] \in Jobs
  BY <1>2 DEF Jobs
<1>5. job[d] \in Jobs
  OBVIOUS
<1>6. QED
  BY <1>1, <1>3, <1>4, <1>5 DEF Jobs, JobStays

LEMMA DecommissionIPsEffect ==
    ASSUME job \in [Deletes -> Jobs], ip \in [Addresses -> IpRows],
           NEW d \in Deletes, DecommissionIPs(d), addr[job[d].alloc] \in Addresses
    PROVE  /\ JobMoves(d, "asn", job[d].allocation, job[d].ip)
           /\ job'[d].ips = {ip[addr[job[d].alloc]].uuid} \ {Nobody}
<1> DEFINE I == {ip[addr[job[d].alloc]].uuid} \ {Nobody}
<1>1. I \subseteq Requests \cup StaticIps
  BY DEF IpRows
<1>2. job' = [job EXCEPT ![d] = [job[d] EXCEPT !.st = "asn", !.ips = I]]
  BY DEF DecommissionIPs
<1> HIDE DEF I
<1>3. [job[d] EXCEPT !.st = "asn", !.ips = I] \in Jobs
  BY <1>1 DEF Jobs
<1>4. job[d] \in Jobs
  OBVIOUS
<1>5. JobMoves(d, "asn", job[d].allocation, job[d].ip) /\ job'[d].ips = I
  BY <1>2, <1>3, <1>4 DEF Jobs, JobStays, JobMoves
<1>6. QED
  BY <1>5 DEF I

LEMMA ReleaseEffect ==
    ASSUME job \in [Deletes -> Jobs], NEW d \in Deletes
    PROVE  /\ ReleaseAsn(d) =>
                JobMoves(d, "release", "find", "find") /\ job'[d].ips = job[d].ips
           /\ ReleaseAllocationFind(d) \/ ReleaseAllocationUpdate(d) =>
                /\ job'[d].ips = job[d].ips
                /\ \E a \in {"update", "ok", "error"} :
                      /\ JobMoves(d, "release", a, job[d].ip)
                      /\ ReleaseAllocationFind(d) =>
                            a # "error" /\ (a = "update" <=> \E m \in Machines : row[m].alloc = job[d].alloc)
                      /\ ReleaseAllocationUpdate(d) =>
                            a \in {"ok", "error"} /\ (a = "error" => UNCHANGED <<row, copies>>)
           /\ ReleaseMachineIP(d) \/ ReleaseMachineIPWait(d) =>
                /\ job'[d].ips = job[d].ips
                /\ \E i \in {"wait", "ok", "error"} : JobMoves(d, "release", job[d].allocation, i)
           /\ ReleaseJoin(d) \/ MachineBMCCommand(d) \/ ResetVrf(d) =>
                /\ job'[d].ips = job[d].ips
                /\ \E st \in {"bmc", "vrf", "done", "asn", "archived"} :
                      /\ JobMoves(d, st, job[d].allocation, job[d].ip)
                      /\ st \notin {"asn", "archived"} => Removed(d)
<1>1. job[d] \in Jobs /\ MaxTries \in Nat
  BY AllocationAssumption
<1>2. ASSUME NEW k \in Jobs, job' = [job EXCEPT ![d] = k],
             k.alloc = job[d].alloc, k.machine = job[d].machine
      PROVE  JobMoves(d, k.st, k.allocation, k.ip) /\ job'[d] = k
  BY <1>2 DEF JobMoves, JobStays
<1>3. ASSUME ReleaseAsn(d)
      PROVE  JobMoves(d, "release", "find", "find") /\ job'[d].ips = job[d].ips
  <2> DEFINE k == [job[d] EXCEPT !.st = "release", !.allocation = "find", !.ip = "find"]
  <2>1. job' = [job EXCEPT ![d] = k]
    BY <1>3 DEF ReleaseAsn
  <2>2. /\ k \in Jobs /\ k.alloc = job[d].alloc /\ k.machine = job[d].machine
        /\ k.st = "release" /\ k.allocation = "find" /\ k.ip = "find" /\ k.ips = job[d].ips
    BY <1>1 DEF Jobs
  <2> HIDE DEF k
  <2>3. QED
    BY <1>2, <2>1, <2>2
<1>4. ASSUME NEW a \in {"find", "update", "ok", "error"}, job[d].st = "release",
             job' = [job EXCEPT ![d].allocation = a]
      PROVE  JobMoves(d, "release", a, job[d].ip) /\ job'[d].ips = job[d].ips
  <2> DEFINE k == [job[d] EXCEPT !.allocation = a]
  <2>1. job' = [job EXCEPT ![d] = k]
    BY <1>4
  <2>2. /\ k \in Jobs /\ k.alloc = job[d].alloc /\ k.machine = job[d].machine
        /\ k.st = "release" /\ k.allocation = a /\ k.ip = job[d].ip /\ k.ips = job[d].ips
    BY <1>1, <1>4 DEF Jobs
  <2> HIDE DEF k
  <2>3. QED
    BY <1>2, <2>1, <2>2
<1>5. ASSUME NEW i \in {"find", "wait", "ok", "error"}, job[d].st = "release",
             job' = [job EXCEPT ![d].ip = i]
      PROVE  JobMoves(d, "release", job[d].allocation, i) /\ job'[d].ips = job[d].ips
  <2> DEFINE k == [job[d] EXCEPT !.ip = i]
  <2>1. job' = [job EXCEPT ![d] = k]
    BY <1>5
  <2>2. /\ k \in Jobs /\ k.alloc = job[d].alloc /\ k.machine = job[d].machine
        /\ k.st = "release" /\ k.allocation = job[d].allocation /\ k.ip = i /\ k.ips = job[d].ips
    BY <1>1, <1>5 DEF Jobs
  <2> HIDE DEF k
  <2>3. QED
    BY <1>2, <2>1, <2>2
<1>6. ASSUME NEW st \in {"bmc", "vrf", "done", "asn", "archived"},
             NEW n \in 1..(MaxTries + 1), job' = [job EXCEPT ![d].st = st, ![d].tries = n]
      PROVE  JobMoves(d, st, job[d].allocation, job[d].ip) /\ job'[d].ips = job[d].ips
  <2> DEFINE k == [job[d] EXCEPT !.st = st, !.tries = n]
  <2>1. job' = [job EXCEPT ![d] = k]
    BY <1>6
  <2>2. /\ k \in Jobs /\ k.alloc = job[d].alloc /\ k.machine = job[d].machine
        /\ k.st = st /\ k.allocation = job[d].allocation /\ k.ip = job[d].ip /\ k.ips = job[d].ips
    BY <1>1 DEF Jobs
  <2> HIDE DEF k
  <2>3. QED
    BY <1>2, <2>1, <2>2
<1>7. ASSUME NEW st \in {"bmc", "vrf", "done", "asn", "archived"}, job' = [job EXCEPT ![d].st = st]
      PROVE  JobMoves(d, st, job[d].allocation, job[d].ip) /\ job'[d].ips = job[d].ips
  <2> DEFINE k == [job[d] EXCEPT !.st = st]
  <2>1. job' = [job EXCEPT ![d] = k]
    BY <1>7
  <2>2. /\ k \in Jobs /\ k.alloc = job[d].alloc /\ k.machine = job[d].machine
        /\ k.st = st /\ k.allocation = job[d].allocation /\ k.ip = job[d].ip /\ k.ips = job[d].ips
    BY <1>1 DEF Jobs
  <2> HIDE DEF k
  <2>3. QED
    BY <1>2, <2>1, <2>2
<1>8. ASSUME job' = Retried(d)
      PROVE  /\ job'[d].ips = job[d].ips
             /\ \E st \in {"asn", "archived"} : JobMoves(d, st, job[d].allocation, job[d].ip)
  <2>1. CASE job[d].tries < MaxTries
    <3>1. job[d].tries + 1 \in 1..(MaxTries + 1)
      BY <1>1, <2>1 DEF Jobs
    <3>2. job' = [job EXCEPT ![d].st = "asn", ![d].tries = job[d].tries + 1]
      BY <1>8, <2>1 DEF Retried
    <3>3. QED
      BY <1>6, <3>1, <3>2
  <2>2. CASE ~(job[d].tries < MaxTries)
    BY <1>7, <1>8, <2>2 DEF Retried
  <2>3. QED
    BY <2>1, <2>2
<1>9. ASSUME ReleaseAllocationFind(d)
      PROVE  /\ job'[d].ips = job[d].ips
             /\ IF \E m \in Machines : row[m].alloc = job[d].alloc
                THEN JobMoves(d, "release", "update", job[d].ip)
                ELSE JobMoves(d, "release", "ok", job[d].ip)
  BY <1>4, <1>9 DEF ReleaseAllocationFind
<1>10. ASSUME ReleaseAllocationUpdate(d)
       PROVE  /\ job'[d].ips = job[d].ips
              /\ \/ JobMoves(d, "release", "ok", job[d].ip)
                 \/ JobMoves(d, "release", "error", job[d].ip) /\ UNCHANGED <<row, copies>>
  BY <1>4, <1>10 DEF ReleaseAllocationUpdate, Stale
<1>11. ASSUME ReleaseMachineIP(d) \/ ReleaseMachineIPWait(d)
       PROVE  /\ job'[d].ips = job[d].ips
              /\ \E i \in {"wait", "ok", "error"} : JobMoves(d, "release", job[d].allocation, i)
  BY <1>5, <1>11 DEF ReleaseMachineIP, ReleaseMachineIPWait
<1>12. ASSUME ReleaseJoin(d)
       PROVE  /\ job'[d].ips = job[d].ips
              /\ \E st \in {"bmc", "asn", "archived"} :
                    /\ JobMoves(d, st, job[d].allocation, job[d].ip)
                    /\ st = "bmc" => job[d].st = "release" /\ job[d].allocation = "ok"
  <2>1. CASE "error" \in {job[d].allocation, job[d].ip}
    BY <1>8, <1>12, <2>1 DEF ReleaseJoin
  <2>2. CASE "error" \notin {job[d].allocation, job[d].ip}
    BY <1>7, <1>12, <2>2 DEF ReleaseJoin
  <2>3. QED
    BY <2>1, <2>2
<1>13. ASSUME MachineBMCCommand(d) \/ ResetVrf(d)
       PROVE  /\ job'[d].ips = job[d].ips /\ job[d].st \in {"bmc", "vrf"}
              /\ \E st \in {"vrf", "done", "asn", "archived"} :
                    JobMoves(d, st, job[d].allocation, job[d].ip)
  <2>1. CASE job' = Retried(d) /\ job[d].st = "bmc"
    BY <1>8, <2>1
  <2>2. CASE JobGoto(d, "bmc", "vrf") \/ JobGoto(d, "vrf", "done")
    BY <1>7, <2>2 DEF JobGoto
  <2>3. QED
    BY <1>13, <2>1, <2>2 DEF MachineBMCCommand, ResetVrf
<1>14. ReleaseAllocationFind(d) => ~ReleaseAllocationUpdate(d)
  BY DEF ReleaseAllocationFind, ReleaseAllocationUpdate
<1>15. ReleaseAllocationFind(d) \/ ReleaseAllocationUpdate(d) =>
        /\ job'[d].ips = job[d].ips
        /\ \E a \in {"update", "ok", "error"} :
              /\ JobMoves(d, "release", a, job[d].ip)
              /\ ReleaseAllocationFind(d) =>
                    a # "error" /\ (a = "update" <=> \E m \in Machines : row[m].alloc = job[d].alloc)
              /\ ReleaseAllocationUpdate(d) =>
                    a \in {"ok", "error"} /\ (a = "error" => UNCHANGED <<row, copies>>)
  BY <1>9, <1>10, <1>14
<1>16. ReleaseJoin(d) \/ MachineBMCCommand(d) \/ ResetVrf(d) =>
        /\ job'[d].ips = job[d].ips
        /\ \E st \in {"bmc", "vrf", "done", "asn", "archived"} :
              /\ JobMoves(d, st, job[d].allocation, job[d].ip)
              /\ st \notin {"asn", "archived"} => Removed(d)
  BY <1>12, <1>13 DEF Removed
<1>17. QED
  BY <1>3, <1>11, <1>15, <1>16

(* Every step keeps the types, given what requests and tasks know.          *)
LEMMA TypeStep == TypeOK /\ Known /\ [Next]_vars => TypeOK'
<1> SUFFICES ASSUME TypeOK, Known, [Next]_vars PROVE TypeOK'
  OBVIOUS
<1> USE AllocationAssumption
<1>1. ASSUME NEW r \in Requests, RequestStep(r) PROVE TypeOK'
  <2>1. CASE Validate(r)
    BY <2>1 DEF TypeOK, RequestStates, Validate, Goto
  <2>2. CASE Lock(r)
    BY <2>2 DEF TypeOK, RequestStates, Lock, Goto
  <2>3. CASE LockTimeout(r)
    BY <2>3 DEF TypeOK, RequestStates, LockTimeout, Goto
  <2>4. CASE SelectCandidate(r)
    BY <2>4 DEF TypeOK, RequestStates, SelectCandidate, Goto, Candidates, Copy, Procs
  <2>5. CASE NoCandidate(r)
    BY <2>5 DEF TypeOK, RequestStates, NoCandidate, Goto
  <2>6. CASE Reserve(r)
    <3>1. target[r] \in Machines
      BY <2>6 DEF Known, Prepared, Unplaced, Reserve, Goto
    <3>2. [row[target[r]] EXCEPT !.pre = "yes"] \in MachineRows
      BY <3>1 DEF TypeOK, MachineRows
    <3>3. row' \in [Machines -> MachineRows] /\ copies' \subseteq copies
      BY <2>6, <3>2 DEF TypeOK, Reserve, WriteMachine, Written, Stale
    <3>4. QED
      BY <2>6, <3>3 DEF TypeOK, RequestStates, Reserve, Goto
  <2>7. CASE ConvertNetworks(r)
    <3>1. copies' \subseteq Procs \X (Machines \cup Addresses)
      BY <2>7, CopyTyped DEF TypeOK, ConvertNetworks, Addresses, Procs
    <3>2. QED
      BY <2>7, <3>1 DEF TypeOK, RequestStates, ConvertNetworks, Goto
  <2>8. CASE AcquireASN(r)
    BY <2>8 DEF TypeOK, RequestStates, AcquireASN, Goto, Asns
  <2>9. CASE CreateIP(r)
    <3>1. \A a \in Addresses : [ip[a] EXCEPT !.uuid = r] \in IpRows
      BY DEF TypeOK, IpRows
    <3>2. ip' \in [Addresses -> IpRows]
      BY <2>9, <3>1 DEF TypeOK, CreateIP
    <3>3. addr' \in [Requests -> Addresses \cup {Nobody}]
      BY <2>9 DEF TypeOK, CreateIP, Addresses
    <3>4. QED
      BY <2>9, <3>2, <3>3 DEF TypeOK, RequestStates, CreateIP, Goto
  <2>10. CASE TagIP(r)
    <3>1. target[r] \in Machines /\ addr[r] \in Addresses
      BY <2>10 DEF Known, Prepared, Unplaced, TagIP, Goto
    <3>2. [ip[addr[r]] EXCEPT !.tags = @ \cup {target[r]}] \in IpRows
      BY <3>1 DEF TypeOK, IpRows
    <3>3. ip' \in [Addresses -> IpRows]
      BY <2>10, <3>2 DEF TypeOK, TagIP
    <3>4. QED
      BY <2>10, <3>3 DEF TypeOK, RequestStates, TagIP, Goto, Written
  <2>11. CASE NetworksFail(r)
    BY <2>11 DEF TypeOK, RequestStates, NetworksFail
  <2>12. CASE Refetch(r)
    <3>1. target[r] \in Machines
      BY <2>12 DEF Known, Prepared, Unplaced, Refetch, Goto
    <3>2. copies' \subseteq Procs \X (Machines \cup Addresses)
      BY <2>12, <3>1, CopyTyped DEF TypeOK, Refetch, Procs
    <3>3. QED
      BY <2>12, <3>2 DEF TypeOK, RequestStates, Refetch, Goto
  <2>13. CASE Commit(r)
    <3>1. [row[target[r]] EXCEPT !.alloc = r, !.pre = "no"] \in MachineRows
      <4>1. target[r] \in Machines
        BY <2>13 DEF Known, Prepared, Unplaced, Commit, Goto
      <4>2. row[target[r]] \in MachineRows
        BY <4>1 DEF TypeOK
      <4>3. QED
        BY <4>2 DEF MachineRows
    <3>2. row' \in [Machines -> MachineRows] /\ copies' \subseteq copies
      BY <2>13, <3>1 DEF TypeOK, Commit, WriteMachine, Written, Stale
    <3>3. QED
      BY <2>13, <3>2 DEF TypeOK, RequestStates, Commit, Goto
  <2>14. CASE PushMachineAllocation(r)
    BY <2>14 DEF TypeOK, RequestStates, PushMachineAllocation, Goto
  <2>15. CASE RollbackIP(r)
    <3>1. addr[r] \in Addresses
      BY <2>15 DEF Known, Prepared, RollbackIP, Goto
    <3>2. [ip[addr[r]] EXCEPT !.tags = @ \ {target[r]}] \in IpRows
      BY <3>1 DEF TypeOK, IpRows
    <3>3. ip' \in [Addresses -> IpRows]
      BY <2>15, <3>2 DEF TypeOK, RollbackIP
    <3>4. copies' \subseteq copies /\ ipTasks' \subseteq Requests
      BY <2>15 DEF TypeOK, RollbackIP, Written
    <3>5. QED
      BY <2>15, <3>3, <3>4 DEF TypeOK, RequestStates, RollbackIP, Goto
  <2>16. CASE RollbackGet(r)
    <3>1. target[r] \in Machines
      BY <2>16 DEF Known, Prepared, Unplaced, RollbackGet, Goto
    <3>2. copies' \subseteq Procs \X (Machines \cup Addresses)
      BY <2>16, <3>1, CopyTyped DEF TypeOK, RollbackGet, Procs
    <3>3. row[target[r]].alloc \in Requests \cup {Nobody}
      BY <3>1 DEF TypeOK, MachineRows
    <3>4. QED
      BY <2>16, <3>2, <3>3 DEF TypeOK, RequestStates, RollbackGet, Goto
  <2>17. CASE RollbackASN(r)
    <3>1. seen[r] \in Requests /\ asn[seen[r]] # 0
      BY <2>17 DEF Known, Prepared, RollbackASN, Goto
    <3>2. asn[seen[r]] - AsnBase \in Pool
      BY <3>1 DEF TypeOK, Asns, Pool
    <3>3. QED
      BY <2>17, <3>2 DEF TypeOK, RequestStates, RollbackASN, Goto
  <2>18. CASE RollbackClear(r)
    <3>1. Cleared(target[r]) \in MachineRows
      BY <2>18, ClearedRow DEF TypeOK, Known, Prepared, Unplaced, RollbackClear, Goto
    <3>2. row' \in [Machines -> MachineRows] /\ copies' \subseteq copies
      BY <2>18, <3>1 DEF TypeOK, RollbackClear, WriteMachine, Written, Stale
    <3>3. QED
      BY <2>18, <3>2 DEF TypeOK, RequestStates, RollbackClear, Goto
  <2>19. QED
    BY <1>1, <2>1, <2>2, <2>3, <2>4, <2>5, <2>6, <2>7, <2>8, <2>9, <2>10, <2>11, <2>12,
       <2>13, <2>14, <2>15, <2>16, <2>17, <2>18 DEF RequestStep
<1>2. ASSUME NEW d \in Deletes, Decommission(d) PROVE TypeOK'
  <2>1. job' \in [Deletes -> Jobs]
    BY <1>2, DecommissionEffect DEF TypeOK, JobStays
  <2>2. QED
    BY <1>2, <2>1 DEF TypeOK, Decommission, requestVars
<1>3. ASSUME NEW d \in Deletes, TaskStep(d) PROVE TypeOK'
  <2> DEFINE q == job[d].alloc
             m == job[d].machine
  <2>1. q \in Requests /\ m \in Machines /\ addr[q] \in Addresses
    BY <1>3 DEF Known, JobsKnown, TaskStep, DecommissionIPs, ReleaseAsn, ReleaseAllocationFind,
       ReleaseAllocationUpdate, ReleaseMachineIP, ReleaseMachineIPWait, ReleaseJoin,
       MachineBMCCommand, ResetVrf, JobGoto
  <2> HIDE DEF q, m
  <2>2. job' \in [Deletes -> Jobs]
    BY <1>3, <2>1, DecommissionIPsEffect, ReleaseEffect DEF TypeOK, TaskStep, JobMoves, JobStays, q
  <2>3. CASE DecommissionIPs(d) \/ ReleaseMachineIPWait(d) \/ ReleaseJoin(d) \/ ResetVrf(d)
    BY <2>2, <2>3 DEF TypeOK, DecommissionIPs, ReleaseMachineIPWait, ReleaseJoin, ResetVrf,
       requestVars
  <2>4. CASE ReleaseAsn(d)
    <3>1. AsnFound(q) # 0 => AsnFound(q) - AsnBase \in Pool
      BY <2>1 DEF TypeOK, AsnFound, Asns, Pool
    <3>2. pool' \subseteq Pool
      BY <2>4, <3>1 DEF TypeOK, ReleaseAsn, q
    <3>3. QED
      BY <2>2, <2>4, <3>2 DEF TypeOK, ReleaseAsn, requestVars
  <2>5. CASE ReleaseAllocationFind(d)
    <3>1. copies' \subseteq Procs \X (Machines \cup Addresses)
      BY <2>1, <2>5, CopyTyped DEF TypeOK, ReleaseAllocationFind, Procs, m
    <3>2. QED
      BY <2>2, <2>5, <3>1 DEF TypeOK, ReleaseAllocationFind, requestVars
  <2>6. CASE ReleaseAllocationUpdate(d)
    <3>1. Cleared(m) \in MachineRows
      BY <2>1, ClearedRow DEF TypeOK
    <3>2. row' \in [Machines -> MachineRows] /\ copies' \subseteq copies
      BY <2>6, <3>1 DEF TypeOK, ReleaseAllocationUpdate, WriteMachine, Written, Stale, m
    <3>3. QED
      BY <2>2, <2>6, <3>2 DEF TypeOK, ReleaseAllocationUpdate, requestVars
  <2>7. CASE ReleaseMachineIP(d)
    <3>1. \A a \in Addresses : [ip[a] EXCEPT !.tags = @ \ {m}] \in IpRows
      BY DEF TypeOK, IpRows
    <3>2. ip' \in [Addresses -> IpRows] /\ copies' \subseteq copies
      BY <2>7, <3>1 DEF TypeOK, ReleaseMachineIP, m
    <3>3. \A a \in PoolIps : ip[a].uuid \in job[d].ips => ip[a].uuid \in Requests
      <4>1. job[d].ips \subseteq Requests \cup StaticIps
        BY DEF TypeOK, Jobs
      <4>2. QED
        BY <4>1 DEF Known, Uuids, Procs, Addresses
    <3>4. ipTasks' \subseteq Requests
      BY <2>7, <3>3 DEF TypeOK, ReleaseMachineIP
    <3>5. QED
      BY <2>2, <2>7, <3>2, <3>4 DEF TypeOK, ReleaseMachineIP, requestVars
  <2>8. CASE MachineBMCCommand(d)
    BY <2>2, <2>8 DEF TypeOK, MachineBMCCommand, requestVars
  <2>9. QED
    BY <1>3, <2>3, <2>4, <2>5, <2>6, <2>7, <2>8 DEF TaskStep
<1>4. ASSUME NEW u \in Requests, DeleteIP(u) PROVE TypeOK'
  <2>1. [uuid |-> Nobody, tags |-> {}] \in IpRows
    BY DEF IpRows
  <2>2. ip' \in [Addresses -> IpRows]
    BY <1>4, <2>1 DEF TypeOK, DeleteIP
  <2>3. QED
    BY <1>4, <2>2 DEF TypeOK, DeleteIP, requestVars
<1>5. ASSUME NEW m \in Machines, MachineStep(m) PROVE TypeOK'
  <2>1. CASE Install(m) \/ InstallationSucceeded(m)
    <3>1. row[m].alloc \in Requests \cup {Nobody}
      BY DEF TypeOK, MachineRows
    <3>2. QED
      BY <2>1, <3>1 DEF TypeOK, Install, InstallationSucceeded, requestVars, Written
  <2>2. ASSUME NEW f \in {"yes", "no"}, SetWaitingFlag(m, f) PROVE TypeOK'
    <3>1. [row[m] EXCEPT !.waiting = f] \in MachineRows
      BY DEF TypeOK, MachineRows
    <3>2. row' \in [Machines -> MachineRows] /\ copies' \subseteq copies
      BY <2>2, <3>1 DEF TypeOK, SetWaitingFlag, Written
    <3>3. QED
      BY <2>2, <3>2 DEF TypeOK, SetWaitingFlag, requestVars
  <2>3. QED
    BY <1>5, <2>1, <2>2 DEF MachineStep
<1>6. ASSUME NEW r \in Requests, Crash(r) PROVE TypeOK'
  BY <1>6 DEF TypeOK, RequestStates, Crash
<1>7. CASE LockExpires \/ UNCHANGED vars
  BY <1>7 DEF TypeOK, LockExpires, vars, requestVars
<1>8. QED
  BY <1>1, <1>2, <1>3, <1>4, <1>5, <1>6, <1>7 DEF Next

(* What a step may do to a machine: three writes change its allocation or   *)
(* its preallocation, and each of them leaves nobody with a current copy.   *)
Reserved(r, m) ==
    /\ Reserve(r) /\ target[r] = m /\ Current(r, m) /\ pc'[r] = "convert"
    /\ row'[m].alloc = row[m].alloc /\ row'[m].pre = "yes"

Committed(r, m) ==
    /\ Commit(r) /\ target[r] = m /\ Current(r, m)
    /\ row'[m].alloc = r /\ row'[m].pre = "no"

Removes(m) ==
    /\ \/ \E r \in Requests : RollbackClear(r) /\ target[r] = m /\ Current(r, m)
       \/ \E d \in Deletes : ReleaseAllocationUpdate(d) /\ job[d].machine = m /\ Current(d, m)
    /\ row'[m].alloc = Nobody /\ row'[m].pre = "no"

Kept(m) == row'[m].alloc = row[m].alloc /\ row'[m].pre = row[m].pre

RowChanges ==
    \A m \in Machines :
        \/ Kept(m)
        \/ /\ \A p \in Procs : <<p, m>> \notin copies'
           /\ (\E r \in Requests : Reserved(r, m) \/ Committed(r, m)) \/ Removes(m)

LEMMA RowChange == TypeOK /\ Known /\ [Next]_vars => RowChanges
<1> SUFFICES ASSUME TypeOK, Known, [Next]_vars, NEW m \in Machines
             PROVE  \/ Kept(m)
                    \/ /\ \A p \in Procs : <<p, m>> \notin copies'
                       /\ (\E r \in Requests : Reserved(r, m) \/ Committed(r, m)) \/ Removes(m)
  BY DEF RowChanges
<1>1. row \in [Machines -> MachineRows] /\ row[m] \in MachineRows
  BY DEF TypeOK
<1>2. ASSUME NEW p, NEW n, NEW x, WriteMachine(p, n, x)
      PROVE  /\ n # m => Kept(m)
             /\ n = m => row'[m] = x /\ Current(p, m) /\ \A q \in Procs : <<q, m>> \notin copies'
  BY <1>1, <1>2 DEF WriteMachine, Written, Kept
<1>3. ASSUME UNCHANGED row PROVE Kept(m)
  BY <1>3 DEF Kept
<1>4. Cleared(m).alloc = Nobody /\ Cleared(m).pre = "no"
  BY <1>1 DEF Cleared, MachineRows
<1>5. ASSUME NEW r \in Requests, Reserve(r), ~Kept(m)
      PROVE  Reserved(r, m) /\ \A p \in Procs : <<p, m>> \notin copies'
  <2>1. WriteMachine(r, target[r], [row[target[r]] EXCEPT !.pre = "yes"]) /\ pc'[r] = "convert"
    BY <1>3, <1>5 DEF Reserve, Goto, TypeOK
  <2>2. target[r] = m
    BY <1>2, <1>5, <2>1
  <2>3. [row[m] EXCEPT !.pre = "yes"].alloc = row[m].alloc /\ [row[m] EXCEPT !.pre = "yes"].pre = "yes"
    BY <1>1 DEF MachineRows
  <2>4. QED
    BY <1>2, <1>5, <2>1, <2>2, <2>3 DEF Reserved
<1>6. ASSUME NEW r \in Requests, Commit(r), ~Kept(m)
      PROVE  Committed(r, m) /\ \A p \in Procs : <<p, m>> \notin copies'
  <2>1. WriteMachine(r, target[r], [row[target[r]] EXCEPT !.alloc = r, !.pre = "no"])
    BY <1>3, <1>6 DEF Commit
  <2>2. target[r] = m
    BY <1>2, <1>6, <2>1
  <2>3. /\ [row[m] EXCEPT !.alloc = r, !.pre = "no"].alloc = r
        /\ [row[m] EXCEPT !.alloc = r, !.pre = "no"].pre = "no"
    BY <1>1 DEF MachineRows
  <2>4. QED
    BY <1>2, <1>6, <2>1, <2>2, <2>3 DEF Committed
<1>7. ASSUME NEW r \in Requests, RollbackClear(r), ~Kept(m)
      PROVE  Removes(m) /\ \A p \in Procs : <<p, m>> \notin copies'
  <2>1. WriteMachine(r, target[r], Cleared(target[r]))
    BY <1>3, <1>7 DEF RollbackClear
  <2>2. target[r] = m
    BY <1>2, <1>7, <2>1
  <2>3. QED
    BY <1>2, <1>4, <1>7, <2>1, <2>2 DEF Removes
<1>8. ASSUME NEW d \in Deletes, ReleaseAllocationUpdate(d), ~Kept(m)
      PROVE  Removes(m) /\ \A p \in Procs : <<p, m>> \notin copies'
  <2>1. WriteMachine(d, job[d].machine, Cleared(job[d].machine))
    BY <1>3, <1>8 DEF ReleaseAllocationUpdate
  <2>2. job[d].machine = m
    BY <1>2, <1>8, <2>1
  <2>3. QED
    BY <1>2, <1>4, <1>8, <2>1, <2>2 DEF Removes
<1>9. ASSUME NEW n \in Machines, NEW f \in {"yes", "no"}, SetWaitingFlag(n, f)
      PROVE  Kept(m)
  <2>1. row' = [row EXCEPT ![n] = [row[n] EXCEPT !.waiting = f]]
    BY <1>9 DEF SetWaitingFlag
  <2>2. [row[m] EXCEPT !.waiting = f].alloc = row[m].alloc /\ [row[m] EXCEPT !.waiting = f].pre = row[m].pre
    BY <1>1 DEF MachineRows
  <2>3. QED
    BY <1>1, <2>1, <2>2 DEF Kept
<1>10. ASSUME NEW r \in Requests, RequestStep(r), ~Reserve(r), ~Commit(r), ~RollbackClear(r)
       PROVE  UNCHANGED row
  BY <1>10 DEF RequestStep, Validate, Lock, LockTimeout, SelectCandidate, NoCandidate,
     ConvertNetworks, AcquireASN, CreateIP, TagIP, NetworksFail, Refetch,
     PushMachineAllocation, RollbackIP, RollbackGet, RollbackASN
<1>11. ASSUME NEW d \in Deletes, Decommission(d) \/ TaskStep(d), ~ReleaseAllocationUpdate(d)
       PROVE  UNCHANGED row
  BY <1>11 DEF Decommission, TaskStep, DecommissionIPs, ReleaseAsn, ReleaseAllocationFind,
     ReleaseMachineIP, ReleaseMachineIPWait, ReleaseJoin, MachineBMCCommand, ResetVrf
<1>12. ASSUME NEW r \in Requests, RequestStep(r), ~Kept(m)
       PROVE  /\ \A p \in Procs : <<p, m>> \notin copies'
              /\ (\E s \in Requests : Reserved(s, m) \/ Committed(s, m)) \/ Removes(m)
  BY <1>3, <1>5, <1>6, <1>7, <1>10, <1>12
<1>13. ASSUME NEW d \in Deletes, Decommission(d) \/ TaskStep(d), ~Kept(m)
       PROVE  Removes(m) /\ \A p \in Procs : <<p, m>> \notin copies'
  BY <1>3, <1>8, <1>11, <1>13
<1>14. ASSUME NEW n \in Machines, MachineStep(n) PROVE Kept(m)
  BY <1>3, <1>9, <1>14 DEF MachineStep, Install, InstallationSucceeded
<1>15. QED
  BY <1>3, <1>12, <1>13, <1>14 DEF Next, Crash, LockExpires, DeleteIP, vars

(* What a request knows does not change any more once it is done with its   *)
(* allocation, and a delete task keeps its payload.                         *)
LEMMA Settled ==
    ASSUME TypeOK, [Next]_vars, NEW q \in Requests, pc[q] \in PastCommit
    PROVE  /\ pc'[q] \in PastCommit
           /\ target'[q] = target[q] /\ asn'[q] = asn[q] /\ addr'[q] = addr[q]
<1>1. ASSUME NEW r \in Requests, RequestStep(r)
      PROVE  /\ pc'[q] \in PastCommit
             /\ target'[q] = target[q] /\ asn'[q] = asn[q] /\ addr'[q] = addr[q]
  BY <1>1 DEF TypeOK, PastCommit, RequestStep, Validate, Lock, LockTimeout, SelectCandidate,
     NoCandidate, Reserve, ConvertNetworks, AcquireASN, CreateIP, TagIP, NetworksFail, Refetch,
     Commit, PushMachineAllocation, RollbackIP, RollbackGet, RollbackASN, RollbackClear, Goto
<1>2. ASSUME NEW d \in Deletes, Decommission(d) \/ TaskStep(d)
      PROVE  UNCHANGED requestVars
  BY <1>2 DEF Decommission, TaskStep, DecommissionIPs, ReleaseAsn, ReleaseAllocationFind,
     ReleaseAllocationUpdate, ReleaseMachineIP, ReleaseMachineIPWait, ReleaseJoin,
     MachineBMCCommand, ResetVrf
<1>3. ASSUME NEW m \in Machines, MachineStep(m)
      PROVE  UNCHANGED requestVars
  BY <1>3 DEF MachineStep, SetWaitingFlag, Install, InstallationSucceeded
<1>4. ASSUME NEW r \in Requests, Crash(r)
      PROVE  pc'[q] \in PastCommit /\ UNCHANGED <<target, asn, addr>>
  BY <1>4 DEF TypeOK, PastCommit, Crash
<1>5. QED
  BY <1>1, <1>2, <1>3, <1>4 DEF Next, LockExpires, DeleteIP, vars, requestVars

(* The reads that make a copy of a machine.                                 *)
ReadBy(p, m) ==
    /\ UNCHANGED row
    /\ \/ /\ p \in Requests /\ target'[p] = m
          /\ SelectCandidate(p) \/ Refetch(p) \/ RollbackGet(p)
       \/ p \in Deletes /\ ReleaseAllocationFind(p) /\ job[p].machine = m

CopyChanges ==
    \A p \in Procs, m \in Machines :
        <<p, m>> \in copies' => <<p, m>> \in copies \/ ReadBy(p, m)

LEMMA CopyChange == TypeOK /\ [Next]_vars => CopyChanges
<1> SUFFICES ASSUME TypeOK, [Next]_vars, NEW p \in Procs, NEW m \in Machines,
                    <<p, m>> \in copies', <<p, m>> \notin copies
             PROVE  ReadBy(p, m)
  BY DEF CopyChanges
<1>1. ASSUME NEW r \in Requests, RequestStep(r) PROVE ReadBy(p, m)
  <2>1. SelectCandidate(r) \/ Refetch(r) \/ RollbackGet(r)
    BY <1>1, AllocationAssumption DEF RequestStep, Validate, Lock, LockTimeout, NoCandidate,
       Reserve, ConvertNetworks, AcquireASN, CreateIP, TagIP, NetworksFail, Commit,
       PushMachineAllocation, RollbackIP, RollbackASN, RollbackClear, WriteMachine, Stale,
       Written, Copy, Addresses
  <2>2. p = r /\ target'[r] = m /\ UNCHANGED row
    BY <2>1 DEF TypeOK, SelectCandidate, Refetch, RollbackGet, Copy, Candidates
  <2>3. QED
    BY <2>1, <2>2 DEF ReadBy
<1>2. ASSUME NEW d \in Deletes, Decommission(d) \/ TaskStep(d) PROVE ReadBy(p, m)
  <2>1. ReleaseAllocationFind(d)
    BY <1>2 DEF Decommission, TaskStep, DecommissionIPs, ReleaseAsn, ReleaseAllocationUpdate,
       ReleaseMachineIP, ReleaseMachineIPWait, ReleaseJoin, MachineBMCCommand, ResetVrf,
       WriteMachine, Stale, Written
  <2>2. p = d /\ job[d].machine = m /\ UNCHANGED row
    BY <2>1 DEF ReleaseAllocationFind, Copy
  <2>3. QED
    BY <2>1, <2>2 DEF ReadBy
<1>3. ASSUME NEW n \in Machines, MachineStep(n) PROVE FALSE
  BY <1>3 DEF MachineStep, SetWaitingFlag, Install, InstallationSucceeded, Written
<1>4. QED
  BY <1>1, <1>2, <1>3 DEF Next, Crash, LockExpires, DeleteIP, vars

(* A request changes only by its own steps.                                 *)
Still(r) ==
    /\ pc'[r] = pc[r] /\ target'[r] = target[r] /\ asn'[r] = asn[r]
    /\ addr'[r] = addr[r] /\ seen'[r] = seen[r]

LEMMA RequestChange ==
    ASSUME TypeOK, [Next]_vars, NEW r \in Requests
    PROVE  Still(r) \/ RequestStep(r) \/ Crash(r)
<1>1. ASSUME NEW s \in Requests, RequestStep(s), s # r PROVE Still(r)
  BY <1>1 DEF TypeOK, Still, RequestStep, Validate, Lock, LockTimeout, SelectCandidate,
     NoCandidate, Reserve, ConvertNetworks, AcquireASN, CreateIP, TagIP, NetworksFail, Refetch,
     Commit, PushMachineAllocation, RollbackIP, RollbackGet, RollbackASN, RollbackClear, Goto
<1>2. ASSUME NEW s \in Requests, Crash(s), s # r PROVE Still(r)
  BY <1>2 DEF TypeOK, Still, Crash
<1>3. ASSUME NEW d \in Deletes, Decommission(d) \/ TaskStep(d)
      PROVE  Still(r)
  BY <1>3 DEF Still, requestVars, Decommission, TaskStep, DecommissionIPs, ReleaseAsn,
     ReleaseAllocationFind, ReleaseAllocationUpdate, ReleaseMachineIP, ReleaseMachineIPWait,
     ReleaseJoin, MachineBMCCommand, ResetVrf
<1>4. ASSUME NEW m \in Machines, MachineStep(m)
      PROVE  Still(r)
  BY <1>4 DEF Still, requestVars, MachineStep, SetWaitingFlag, Install, InstallationSucceeded
<1>5. QED
  BY <1>1, <1>2, <1>3, <1>4 DEF Next, LockExpires, DeleteIP, vars, requestVars, Still

LEMMA CommitsStep ==
    TypeOK /\ Known /\ CommitsUnallocated /\ [Next]_vars => CommitsUnallocated'
<1> SUFFICES ASSUME TypeOK, Known, CommitsUnallocated, [Next]_vars,
                    NEW r \in Requests, NEW m \in Machines,
                    pc'[r] = "commit", target'[r] = m, <<r, m>> \in copies'
             PROVE  row'[m].alloc = Nobody
  BY DEF CommitsUnallocated, Current, Allocated
<1>1. CASE Refetch(r)
  BY <1>1 DEF TypeOK, Refetch, Goto, Allocated
<1>2. CASE pc[r] = "commit" /\ target[r] = m /\ ~Refetch(r)
  <2>1. ~ReadBy(r, m)
    BY <1>2, AllocationAssumption DEF ReadBy, SelectCandidate, RollbackGet, Goto
  <2>2. Current(r, m)
    BY <2>1, CopyChange DEF CopyChanges, Current, Procs
  <2>3. Kept(m)
    BY RowChange DEF RowChanges, Procs
  <2>4. QED
    BY <1>2, <2>2, <2>3 DEF CommitsUnallocated, Kept, Allocated
<1>3. CASE (RequestStep(r) \/ Crash(r)) /\ ~Refetch(r)
  BY <1>3 DEF TypeOK, RequestStep, Validate, Lock, LockTimeout, SelectCandidate, NoCandidate,
     Reserve, ConvertNetworks, AcquireASN, CreateIP, TagIP, NetworksFail, Commit,
     PushMachineAllocation, RollbackIP, RollbackGet, RollbackASN, RollbackClear, Goto, Crash
<1>4. QED
  BY <1>1, <1>2, <1>3, RequestChange DEF Still

LEMMA PreparedStep == TypeOK /\ Known /\ [Next]_vars => Prepared'
<1> SUFFICES ASSUME TypeOK, Known, [Next]_vars PROVE Prepared'
  OBVIOUS
<1> USE AllocationAssumption DEF Prepared, Unplaced
<1>1. ASSUME NEW r \in Requests, RequestStep(r) PROVE Prepared'
  <2>1. CASE \/ Validate(r) \/ Lock(r) \/ LockTimeout(r) \/ SelectCandidate(r)
             \/ NoCandidate(r) \/ Reserve(r) \/ ConvertNetworks(r)
    BY <2>1 DEF TypeOK, Known, Validate, Lock, LockTimeout, SelectCandidate, NoCandidate,
       Reserve, ConvertNetworks, Candidates, Goto
  <2>2. CASE AcquireASN(r)
    <3>1. asn'[r] # 0
      BY <2>2 DEF TypeOK, AcquireASN, Pool
    <3>2. QED
      BY <2>2, <3>1 DEF TypeOK, Known, AcquireASN, Goto
  <2>3. CASE CreateIP(r)
    <3>1. addr'[r] \in Addresses
      BY <2>3 DEF TypeOK, CreateIP, Addresses
    <3>2. QED
      BY <2>3, <3>1 DEF TypeOK, Known, CreateIP, Goto
  <2>4. CASE \/ TagIP(r) \/ NetworksFail(r) \/ Refetch(r) \/ Commit(r)
             \/ PushMachineAllocation(r) \/ RollbackIP(r) \/ RollbackASN(r) \/ RollbackClear(r)
    BY <2>4 DEF TypeOK, Known, TagIP, NetworksFail, Refetch, Commit, PushMachineAllocation,
       RollbackIP, RollbackASN, RollbackClear, Goto
  <2>5. CASE RollbackGet(r)
    <3>1. Allocated(target[r]) => row[target[r]].alloc \in Requests /\ asn[row[target[r]].alloc] # 0
      BY <2>5 DEF TypeOK, Known, RowsKnown, RollbackGet, Goto, MachineRows, Allocated
    <3>2. QED
      BY <2>5, <3>1 DEF TypeOK, Known, RollbackGet, Goto
  <2>6. QED
    BY <1>1, <2>1, <2>2, <2>3, <2>4, <2>5 DEF RequestStep
<1>2. ASSUME NEW r \in Requests, Crash(r) PROVE Prepared'
  BY <1>2 DEF TypeOK, Known, Crash
<1>3. ASSUME UNCHANGED requestVars PROVE Prepared'
  BY <1>3 DEF Known, requestVars
<1>4. ASSUME NEW d \in Deletes, Decommission(d) \/ TaskStep(d)
      PROVE  UNCHANGED requestVars
  BY <1>4 DEF Decommission, TaskStep, DecommissionIPs, ReleaseAsn, ReleaseAllocationFind,
     ReleaseAllocationUpdate, ReleaseMachineIP, ReleaseMachineIPWait, ReleaseJoin,
     MachineBMCCommand, ResetVrf
<1>5. ASSUME NEW m \in Machines, MachineStep(m)
      PROVE  UNCHANGED requestVars
  BY <1>5 DEF MachineStep, SetWaitingFlag, Install, InstallationSucceeded
<1>6. QED
  BY <1>1, <1>2, <1>3, <1>4, <1>5 DEF Next, LockExpires, DeleteIP, vars, requestVars

LEMMA RowsKnownStep == TypeOK /\ Known /\ [Next]_vars => RowsKnown'
<1> SUFFICES ASSUME TypeOK, Known, [Next]_vars, NEW m \in Machines, row'[m].alloc # Nobody
             PROVE  LET q == row'[m].alloc IN
                    target'[q] = m /\ pc'[q] \in PastCommit /\ asn'[q] # 0 /\ addr'[q] \in Addresses
  BY DEF RowsKnown, Allocated
<1> DEFINE q == row'[m].alloc
<1>1. CASE q = row[m].alloc
  <2>1. row[m].alloc \in Requests
    BY <1>1 DEF TypeOK, MachineRows
  <2>2. target[q] = m /\ pc[q] \in PastCommit /\ asn[q] # 0 /\ addr[q] \in Addresses
    BY <1>1 DEF Known, RowsKnown, Allocated
  <2>3. QED
    BY <1>1, <2>1, <2>2, Settled
<1>2. CASE q # row[m].alloc
  <2>1. PICK r \in Requests : Committed(r, m)
    BY <1>2, RowChange DEF RowChanges, Kept, Removes, Reserved
  <2>2. q = r /\ pc[r] = "commit" /\ target[r] = m /\ pc'[r] \in PastCommit
    BY <2>1 DEF TypeOK, Committed, Commit, Goto, PastCommit
  <2>3. UNCHANGED <<target, asn, addr>>
    BY <2>1 DEF Committed, Commit
  <2>4. QED
    BY <2>2, <2>3 DEF Known, Prepared
<1>3. QED
  BY <1>1, <1>2

LEMMA JobChange ==
    ASSUME TypeOK, Known, [Next]_vars, NEW d \in Deletes
    PROVE  \/ job'[d] = job[d]
           \/ Decommission(d)
           \/ /\ TaskStep(d)
              /\ job'[d].alloc = job[d].alloc /\ job'[d].machine = job[d].machine
              /\ job'[d].st # "none" /\ job[d].st # "none"
<1>1. ASSUME NEW r \in Requests, RequestStep(r) PROVE UNCHANGED job
  BY <1>1 DEF RequestStep, Validate, Lock, LockTimeout, SelectCandidate,
     NoCandidate, Reserve, ConvertNetworks, AcquireASN, CreateIP, TagIP, NetworksFail, Refetch,
     Commit, PushMachineAllocation, RollbackIP, RollbackGet, RollbackASN, RollbackClear
<1>2. ASSUME NEW e \in Deletes, Decommission(e)
      PROVE  job'[d] = job[d] \/ Decommission(d)
  BY <1>2, DecommissionEffect DEF TypeOK, JobStays
<1>3. ASSUME NEW e \in Deletes, TaskStep(e)
      PROVE  \/ job'[d] = job[d]
             \/ /\ TaskStep(d)
                /\ job'[d].alloc = job[d].alloc /\ job'[d].machine = job[d].machine
                /\ job'[d].st # "none" /\ job[d].st # "none"
  <2>1. job[e].st # "none"
    BY <1>3 DEF TaskStep, DecommissionIPs, ReleaseAsn, ReleaseAllocationFind,
       ReleaseAllocationUpdate, ReleaseMachineIP, ReleaseMachineIPWait, ReleaseJoin,
       MachineBMCCommand, ResetVrf, JobGoto
  <2>2. addr[job[e].alloc] \in Addresses
    BY <2>1 DEF Known, JobsKnown
  <2>3. \E st \in {"bmc", "vrf", "done", "asn", "archived", "release"} : \E a, i : JobMoves(e, st, a, i)
    BY <1>3, <2>2, DecommissionIPsEffect, ReleaseEffect DEF TypeOK, TaskStep
  <2>4. QED
    BY <1>3, <2>1, <2>3 DEF JobMoves, JobStays
<1>4. ASSUME NEW m \in Machines, MachineStep(m) PROVE UNCHANGED job
  BY <1>4 DEF MachineStep, SetWaitingFlag, Install, InstallationSucceeded
<1>5. QED
  BY <1>1, <1>2, <1>3, <1>4 DEF Next, Crash, LockExpires, DeleteIP, vars

LEMMA JobsKnownStep == TypeOK /\ Known /\ [Next]_vars => JobsKnown'
<1> SUFFICES ASSUME TypeOK, Known, [Next]_vars, NEW d \in Deletes, job'[d].st # "none"
             PROVE  LET q == job'[d].alloc IN
                    /\ q \in Requests /\ pc'[q] \in PastCommit
                    /\ job'[d].machine = target'[q] /\ target'[q] \in Machines /\ addr'[q] \in Addresses
  BY DEF JobsKnown
<1>1. CASE job'[d].alloc = job[d].alloc /\ job'[d].machine = job[d].machine /\ job[d].st # "none"
  BY <1>1, Settled DEF Known, JobsKnown
<1>2. CASE Decommission(d)
  <2>1. PICK m \in Machines : Allocated(m) /\ job'[d].alloc = row[m].alloc /\ job'[d].machine = m
    BY <1>2, DecommissionEffect DEF TypeOK
  <2>2. row[m].alloc \in Requests
    BY <2>1 DEF TypeOK, MachineRows, Allocated
  <2>3. QED
    BY <2>1, <2>2, Settled DEF Known, RowsKnown
<1>3. QED
  BY <1>1, <1>2, JobChange

(* What a step may do to an ip: it is made for a request that names none,   *)
(* deleted by the task for its uuid, or machines are attached and detached. *)
Created(r, a) ==
    /\ CreateIP(r) /\ StaticOf[r] = Nobody /\ a \in PoolIps
    /\ ip[a].uuid = Nobody /\ ip'[a].uuid = r /\ addr'[r] = a

DeletedIp(a) ==
    /\ ip[a].uuid \in Requests /\ DeleteIP(ip[a].uuid) /\ ip'[a].uuid = Nobody

Detaches(m, a) ==
    \/ \E r \in Requests :
          RollbackIP(r) /\ StaticOf[r] # Nobody /\ addr[r] = a /\ target[r] = m
    \/ \E d \in Deletes :
          ReleaseMachineIP(d) /\ a \in StaticIps /\ ip[a].uuid \in job[d].ips /\ job[d].machine = m

IpChanges ==
    \A a \in Addresses :
        /\ ip'[a].uuid = ip[a].uuid \/ DeletedIp(a) \/ \E r \in Requests : Created(r, a)
        /\ \A m \in ip[a].tags : m \in ip'[a].tags \/ DeletedIp(a) \/ Detaches(m, a)

LEMMA IpChange == TypeOK /\ [Next]_vars => IpChanges
<1> SUFFICES ASSUME TypeOK, [Next]_vars, NEW a \in Addresses
             PROVE  /\ \/ ip'[a].uuid = ip[a].uuid
                       \/ DeletedIp(a)
                       \/ \E r \in Requests : Created(r, a)
                    /\ \A m \in ip[a].tags : m \in ip'[a].tags \/ DeletedIp(a) \/ Detaches(m, a)
  BY DEF IpChanges
<1> DEFINE Goal == /\ \/ ip'[a].uuid = ip[a].uuid
                      \/ DeletedIp(a)
                      \/ \E r \in Requests : Created(r, a)
                   /\ \A m \in ip[a].tags : m \in ip'[a].tags \/ DeletedIp(a) \/ Detaches(m, a)
<1>1. ip \in [Addresses -> IpRows] /\ ip[a] \in IpRows
  BY DEF TypeOK
<1>2. ASSUME NEW r \in Requests, CreateIP(r) PROVE Goal
  <2>1. CASE StaticOf[r] # Nobody
    BY <1>2, <2>1 DEF CreateIP
  <2>2. CASE StaticOf[r] = Nobody
    <3>1. PICK b \in PoolIps : ip[b].uuid = Nobody /\ ip' = [ip EXCEPT ![b].uuid = r]
                               /\ addr' = [addr EXCEPT ![r] = b]
      BY <1>2, <2>2 DEF CreateIP
    <3>2. ip'[a] = IF a = b THEN [ip[a] EXCEPT !.uuid = r] ELSE ip[a]
      BY <1>1, <3>1
    <3>3. [ip[a] EXCEPT !.uuid = r].uuid = r /\ [ip[a] EXCEPT !.uuid = r].tags = ip[a].tags
      BY <1>1 DEF IpRows
    <3>4. addr'[r] = b
      BY <3>1 DEF TypeOK
    <3>5. QED
      BY <1>2, <2>2, <3>1, <3>2, <3>3, <3>4 DEF Created
  <2>3. QED
    BY <2>1, <2>2
<1>3. ASSUME NEW r \in Requests, TagIP(r) PROVE Goal
  <2>1. ip'[a] = IF a = addr[r] THEN [ip[a] EXCEPT !.tags = @ \cup {target[r]}] ELSE ip[a]
    BY <1>1, <1>3 DEF TagIP
  <2>2. /\ [ip[a] EXCEPT !.tags = @ \cup {target[r]}].uuid = ip[a].uuid
        /\ [ip[a] EXCEPT !.tags = @ \cup {target[r]}].tags = ip[a].tags \cup {target[r]}
    BY <1>1 DEF IpRows
  <2>3. QED
    BY <2>1, <2>2
<1>4. ASSUME NEW r \in Requests, RollbackIP(r) PROVE Goal
  <2>1. CASE StaticOf[r] = Nobody
    BY <1>4, <2>1 DEF RollbackIP
  <2>2. CASE StaticOf[r] # Nobody
    <3>1. ip'[a] = IF a = addr[r] THEN [ip[a] EXCEPT !.tags = @ \ {target[r]}] ELSE ip[a]
      BY <1>1, <1>4, <2>2 DEF RollbackIP
    <3>2. /\ [ip[a] EXCEPT !.tags = @ \ {target[r]}].uuid = ip[a].uuid
          /\ [ip[a] EXCEPT !.tags = @ \ {target[r]}].tags = ip[a].tags \ {target[r]}
      BY <1>1 DEF IpRows
    <3>3. QED
      BY <1>4, <2>2, <3>1, <3>2 DEF Detaches
  <2>3. QED
    BY <2>1, <2>2
<1>5. ASSUME NEW d \in Deletes, ReleaseMachineIP(d) PROVE Goal
  <2>1. ip'[a] = IF ip[a].uuid \in job[d].ips /\ a \in StaticIps
                 THEN [ip[a] EXCEPT !.tags = @ \ {job[d].machine}] ELSE ip[a]
    BY <1>5 DEF ReleaseMachineIP
  <2>2. /\ [ip[a] EXCEPT !.tags = @ \ {job[d].machine}].uuid = ip[a].uuid
        /\ [ip[a] EXCEPT !.tags = @ \ {job[d].machine}].tags = ip[a].tags \ {job[d].machine}
    BY <1>1 DEF IpRows
  <2>3. QED
    BY <1>5, <2>1, <2>2 DEF Detaches
<1>6. ASSUME NEW u \in Requests, DeleteIP(u) PROVE Goal
  <2>1. ip'[a] = IF ip[a].uuid = u THEN [uuid |-> Nobody, tags |-> {}] ELSE ip[a]
    BY <1>6 DEF DeleteIP
  <2>2. QED
    BY <1>6, <2>1 DEF DeletedIp
<1>7. ASSUME NEW r \in Requests, RequestStep(r) PROVE Goal
  <2>1. CreateIP(r) \/ TagIP(r) \/ RollbackIP(r) \/ UNCHANGED ip
    BY <1>7 DEF RequestStep, Validate, Lock, LockTimeout, SelectCandidate, NoCandidate, Reserve,
       ConvertNetworks, AcquireASN, NetworksFail, Refetch, Commit, PushMachineAllocation,
       RollbackGet, RollbackASN, RollbackClear
  <2>2. QED
    BY <1>2, <1>3, <1>4, <2>1
<1>8. ASSUME NEW d \in Deletes, Decommission(d) \/ TaskStep(d) PROVE Goal
  <2>1. ReleaseMachineIP(d) \/ UNCHANGED ip
    BY <1>8 DEF Decommission, TaskStep, DecommissionIPs, ReleaseAsn, ReleaseAllocationFind,
       ReleaseAllocationUpdate, ReleaseMachineIPWait, ReleaseJoin, MachineBMCCommand, ResetVrf
  <2>2. QED
    BY <1>5, <2>1
<1>9. ASSUME NEW m \in Machines, MachineStep(m) PROVE UNCHANGED ip
  BY <1>9 DEF MachineStep, SetWaitingFlag, Install, InstallationSucceeded
<1>10. QED
  BY <1>6, <1>7, <1>8, <1>9 DEF Next, Crash, LockExpires, vars

(* A request that has passed the creation of its ip keeps the address.      *)
HasAddress == RequestStates \ {"validate", "lock", "list", "reserve", "convert", "asn", "ip"}

LEMMA AddressKept ==
    ASSUME TypeOK, [Next]_vars, NEW q \in Requests, pc[q] \in HasAddress
    PROVE  pc'[q] \in HasAddress /\ addr'[q] = addr[q]
<1>1. ASSUME NEW r \in Requests, RequestStep(r)
      PROVE  pc'[q] \in HasAddress /\ addr'[q] = addr[q]
  BY <1>1 DEF TypeOK, RequestStates, HasAddress, RequestStep, Validate, Lock, LockTimeout,
     SelectCandidate, NoCandidate, Reserve, ConvertNetworks, AcquireASN, CreateIP, TagIP,
     NetworksFail, Refetch, Commit, PushMachineAllocation, RollbackIP, RollbackGet, RollbackASN,
     RollbackClear, Goto
<1>2. ASSUME NEW d \in Deletes, Decommission(d) \/ TaskStep(d)
      PROVE  UNCHANGED requestVars
  BY <1>2 DEF Decommission, TaskStep, DecommissionIPs, ReleaseAsn, ReleaseAllocationFind,
     ReleaseAllocationUpdate, ReleaseMachineIP, ReleaseMachineIPWait, ReleaseJoin,
     MachineBMCCommand, ResetVrf
<1>3. ASSUME NEW m \in Machines, MachineStep(m)
      PROVE  UNCHANGED requestVars
  BY <1>3 DEF MachineStep, SetWaitingFlag, Install, InstallationSucceeded
<1>4. ASSUME NEW r \in Requests, Crash(r)
      PROVE  pc'[q] \in HasAddress /\ UNCHANGED addr
  BY <1>4 DEF TypeOK, RequestStates, HasAddress, Crash
<1>5. QED
  BY <1>1, <1>2, <1>3, <1>4 DEF Next, LockExpires, DeleteIP, vars, requestVars

LEMMA UuidsStep == TypeOK /\ Known /\ [Next]_vars => Uuids'
<1> SUFFICES ASSUME TypeOK, Known, [Next]_vars PROVE Uuids'
  OBVIOUS
<1>1. ASSUME NEW a \in StaticIps PROVE ip'[a].uuid = a
  <2>1. ip[a].uuid = a /\ a \in Addresses /\ a \notin Requests /\ a \notin PoolIps
    BY AllocationAssumption DEF Known, Uuids, Addresses
  <2>2. QED
    BY <2>1, IpChange DEF IpChanges, DeletedIp, Created
<1>2. ASSUME NEW a \in PoolIps, ip'[a].uuid # Nobody
      PROVE  LET q == ip'[a].uuid IN
             /\ q \in Requests /\ addr'[q] = a /\ StaticOf[q] = Nobody
             /\ pc'[q] \in HasAddress
  <2>1. CASE ip'[a].uuid = ip[a].uuid
    <3> DEFINE q == ip[a].uuid
    <3>1. /\ q \in Requests /\ addr[q] = a /\ StaticOf[q] = Nobody
          /\ pc[q] \in HasAddress
      BY <1>2, <2>1 DEF TypeOK, Known, Uuids, HasAddress
    <3>2. QED
      BY <2>1, <3>1, AddressKept
  <2>2. CASE \E r \in Requests : Created(r, a)
    BY <2>2 DEF TypeOK, Created, CreateIP, Goto, HasAddress, RequestStates
  <2>3. QED
    BY <1>2, <2>1, <2>2, IpChange DEF IpChanges, DeletedIp, Addresses
<1>3. QED
  BY <1>1, <1>2 DEF Uuids, HasAddress

LEMMA JobsCurrentStep == TypeOK /\ Known /\ JobsCurrent /\ [Next]_vars => JobsCurrent'
<1> SUFFICES ASSUME TypeOK, Known, JobsCurrent, [Next]_vars, NEW d \in Deletes,
                    job'[d].st = "release", job'[d].allocation = "update",
                    <<d, job'[d].machine>> \in copies'
             PROVE  row'[job'[d].machine].alloc = job'[d].alloc
  BY DEF JobsCurrent, Current
<1> DEFINE m == job[d].machine
<1>1. /\ TaskStep(d) \/ job'[d] = job[d]
      /\ job'[d].alloc = job[d].alloc /\ job'[d].machine = m /\ job[d].st # "none"
  BY JobChange, DecommissionEffect DEF TypeOK
<1>2. m \in Machines /\ d \in Procs /\ m = target[job[d].alloc]
  BY <1>1 DEF Known, JobsKnown, Procs
<1>3. CASE ReadBy(d, m)
  <2>1. ReleaseAllocationFind(d) /\ UNCHANGED row
    BY <1>3, AllocationAssumption DEF ReadBy
  <2>2. \E n \in Machines : row[n].alloc = job[d].alloc
    BY <2>1, ReleaseEffect DEF TypeOK, JobMoves
  <2>3. row[m].alloc = job[d].alloc
    BY <1>1, <1>2, <2>2, AllocationAssumption DEF Known, RowsKnown, JobsKnown, Allocated, Procs
  <2>4. QED
    BY <1>1, <2>1, <2>3
<1>4. CASE <<d, m>> \in copies /\ ~ReadBy(d, m)
  <2>1. job[d].st = "release" /\ job[d].allocation = "update"
    <3>1. ASSUME ReleaseAllocationFind(d) PROVE ReadBy(d, m)
      <4>1. job'[d].allocation # "ok"
        OBVIOUS
      <4>2. \E n \in Machines : row[n].alloc = job[d].alloc
        BY <3>1, ReleaseEffect DEF TypeOK, JobMoves
      <4>3. QED
        BY <3>1 DEF ReleaseAllocationFind, ReadBy
    <3>2. ASSUME TaskStep(d), ~ReleaseAllocationFind(d) PROVE job[d].allocation = "update" /\ job[d].st = "release"
      BY <1>1, <1>2, <3>2, ReleaseEffect, DecommissionIPsEffect
         DEF TypeOK, Known, JobsKnown, TaskStep, JobMoves, ReleaseMachineIP, ReleaseMachineIPWait
    <3>3. QED
      BY <1>1, <1>4, <3>1, <3>2
  <2>2. row[m].alloc = job[d].alloc
    BY <1>4, <2>1 DEF JobsCurrent, Current
  <2>3. Kept(m)
    BY <1>1, <1>2, RowChange DEF RowChanges
  <2>4. QED
    BY <1>1, <2>2, <2>3 DEF Kept
<1>5. QED
  BY <1>1, <1>2, <1>3, <1>4, CopyChange DEF CopyChanges

LEMMA ErrorIfStale ==
    ASSUME job \in [Deletes -> Jobs], NEW d \in Deletes, ReleaseAllocationUpdate(d),
           job'[d].allocation # "error"
    PROVE  WriteMachine(d, job[d].machine, Cleared(job[d].machine))
<1>1. job' = [job EXCEPT ![d].allocation = "error"] => job'[d].allocation = "error"
  <2>1. job[d] \in Jobs
    OBVIOUS
  <2>2. QED
    BY <2>1 DEF Jobs
<1>2. QED
  BY <1>1 DEF ReleaseAllocationUpdate

LEMMA JobsDoneStep == TypeOK /\ Known /\ JobsCurrent /\ JobsDone /\ [Next]_vars => JobsDone'
<1> SUFFICES ASSUME TypeOK, Known, JobsCurrent, JobsDone, [Next]_vars, NEW d \in Deletes,
                    Removed(d)', NEW m \in Machines
             PROVE  row'[m].alloc # job'[d].alloc
  BY DEF JobsDone
<1>1. /\ TaskStep(d) \/ job'[d] = job[d]
      /\ job'[d].alloc = job[d].alloc /\ job[d].st # "none"
  BY JobChange, DecommissionEffect DEF TypeOK, Removed
<1> DEFINE q == job[d].alloc
<1>2. q \in Requests /\ pc[q] \in PastCommit /\ job[d].machine = target[q]
  BY <1>1 DEF Known, JobsKnown
<1>3. row[m].alloc # q => row'[m].alloc # q
  <2>1. ASSUME NEW r \in Requests, Committed(r, m) PROVE r # q
    BY <1>2, <2>1 DEF Committed, Commit, Goto, PastCommit
  <2>2. Nobody # q
    BY <1>2, AllocationAssumption DEF Procs
  <2>3. QED
    BY <2>1, <2>2, RowChange DEF RowChanges, Kept, Reserved, Committed, Removes
<1>4. CASE Removed(d)
  BY <1>1, <1>3, <1>4 DEF JobsDone
<1>5. CASE ~Removed(d)
  <2>1. TaskStep(d)
    BY <1>1, <1>5 DEF Removed
  <2>2. ReleaseAllocationFind(d) \/ ReleaseAllocationUpdate(d)
    <3>1. addr[q] \in Addresses
      BY <1>1 DEF Known, JobsKnown
    <3>2. ~DecommissionIPs(d) /\ ~ReleaseAsn(d)
      BY <3>1, ReleaseEffect, DecommissionIPsEffect DEF TypeOK, JobMoves, Removed
    <3>3. ~ReleaseMachineIP(d) /\ ~ReleaseMachineIPWait(d)
      BY <1>5, ReleaseEffect DEF TypeOK, JobMoves, Removed, ReleaseMachineIP, ReleaseMachineIPWait
    <3>4. ~ReleaseJoin(d) /\ ~MachineBMCCommand(d) /\ ~ResetVrf(d)
      BY <1>5, ReleaseEffect DEF TypeOK, JobMoves, Removed
    <3>5. QED
      BY <2>1, <3>2, <3>3, <3>4 DEF TaskStep
  <2>3. CASE ReleaseAllocationFind(d)
    BY <1>1, <1>3, <2>3, ReleaseEffect DEF TypeOK, JobMoves, Removed
  <2>4. CASE ReleaseAllocationUpdate(d)
    <3>1. job'[d].allocation # "error"
      BY <1>1, <2>4, ReleaseEffect DEF TypeOK, JobMoves, Removed
    <3>2. row'[target[q]].alloc # q
      <4>1. target[q] \in Machines /\ q # Nobody
        BY <1>1, <1>2, AllocationAssumption DEF Known, JobsKnown, Procs
      <4>2. WriteMachine(d, target[q], Cleared(target[q]))
        BY <1>2, <2>4, <3>1, ErrorIfStale DEF TypeOK
      <4>3. QED
        BY <4>1, <4>2, ClearedRow DEF TypeOK, WriteMachine
    <3>3. row[m].alloc = q => m = target[q]
      BY <1>2, AllocationAssumption DEF Known, RowsKnown, Allocated, Procs
    <3>4. QED
      BY <1>1, <1>3, <3>2, <3>3
  <2>5. QED
    BY <2>2, <2>3, <2>4
<1>6. QED
  BY <1>4, <1>5

(***************************************************************************)
(* Three theorems for every instance.                                      *)
(***************************************************************************)

Sound == TypeOK /\ Known /\ CommitsUnallocated /\ JobsCurrent /\ JobsDone

LEMMA SoundInit == Init => Sound
<1>1. Init => TypeOK
  BY AllocationAssumption DEF Init, TypeOK, RequestStates, MachineRows, IpRows, Asns, Jobs, NoJob,
     Addresses, Pool
<1>2. Init => Known /\ CommitsUnallocated /\ JobsCurrent /\ JobsDone
  BY AllocationAssumption DEF Init, Known, Prepared, Unplaced, RowsKnown, JobsKnown, Uuids,
     CommitsUnallocated, JobsCurrent, JobsDone, Removed, Allocated, NoJob, Addresses
<1>3. QED
  BY <1>1, <1>2 DEF Sound

LEMMA SoundStep == Sound /\ [Next]_vars => Sound'
BY TypeStep, PreparedStep, RowsKnownStep, JobsKnownStep, UuidsStep, CommitsStep, JobsCurrentStep,
   JobsDoneStep DEF Sound, Known

LEMMA AlwaysSound == Spec => []Sound
BY SoundInit, SoundStep, PTL DEF Spec

(* AllocationNeverReplaced: a request writes an allocation only into a row  *)
(* it knows to have none (optimistic commit of allocateMachine).            *)
THEOREM NeverReplaced == Spec => AllocationNeverReplaced
<1>1. Sound /\ [Next]_vars =>
        \A m \in Machines : Allocated(m) => row'[m].alloc \in {row[m].alloc, Nobody}
  <2>1. ASSUME Sound, NEW m \in Machines, NEW r \in Requests, Committed(r, m) PROVE ~Allocated(m)
    BY <2>1 DEF Sound, CommitsUnallocated, Committed, Commit, Goto
  <2>2. QED
    BY <2>1, RowChange DEF Sound, RowChanges, Kept, Reserved, Removes
<1>2. QED
  BY <1>1, AlwaysSound, PTL DEF Spec, AllocationNeverReplaced

(* TypeOK: whatever fails, only what was taken from the asn pool is given   *)
(* back to it (releaseASN), and every handler works on what the earlier     *)
(* steps have left it.                                                      *)
THEOREM TypeCorrect == Spec => []TypeOK
<1>1. Sound => TypeOK
  BY DEF Sound
<1>2. QED
  BY <1>1, AlwaysSound, PTL

(* DeletedForGood: once a delete task got past its release steps no machine *)
(* has the allocation, although a request may have preallocated the machine *)
(* again meanwhile (releaseAllocationTask).                                 *)
THEOREM GoneForGood == Spec => []DeletedForGood
<1>1. Sound => DeletedForGood
  BY DEF Sound, JobsDone, Removed, DeletedForGood
<1>2. QED
  BY <1>1, AlwaysSound, PTL

(***************************************************************************)
(* What holds if requests do not name machines and the answer to the write *)
(* of an allocation is not lost where machines are also freed.             *)
(***************************************************************************)

(* Two requests that name the same machine both get past the validation,    *)
(* and the rollback of the one removes the allocation of the other.         *)
Unnamed == \A r \in Requests : UuidOf[r] = Nobody

(* A request that got no answer rolls back an allocation that was made, and *)
(* that somebody may be freeing.                                            *)
AnswersArrive == "commit" \notin MayFail \/ Deletes = {}

Holding == {"convert", "asn", "ip", "tag", "refetch", "commit"}
RollingBack == {"rollbackip", "rollback", "rollbackasn", "rollbackclear"}

Unallocated(m) == ~Allocated(m) /\ row[m].pre = "yes"
OwnAlone(r) == row[target[r]].alloc = r /\ Deletes = {}

(* The copy with which a machine is reserved is that of a candidate.        *)
Listed ==
    \A r \in Requests :
        pc[r] = "reserve" /\ Current(r, target[r])
            => ~Allocated(target[r]) /\ row[target[r]].pre = "no"

(* The machine of a request stays preallocated for it, and what it rolls    *)
(* back is its own allocation.                                              *)
Exclusive ==
    \A r \in Requests :
        /\ pc[r] \in Holding => Unallocated(target[r])
        /\ pc[r] \in {"rollbackip", "rollback"} => Unallocated(target[r]) \/ OwnAlone(r)
        /\ pc[r] \in {"rollbackasn", "rollbackclear"} => OwnAlone(r) /\ seen[r] = r

Alone ==
    \A r, s \in Requests :
        /\ pc[r] \in Holding \cup RollingBack /\ pc[s] \in Holding \cup RollingBack
        /\ target[r] = target[s]
        => r = s

(* The asns of requests that have not given theirs back.                    *)
Holder(r) == asn[r] # 0 /\ pc[r] \notin {"rollbackclear", "failed", "crashed"}

AsnsHeld ==
    \A r \in Requests : Holder(r) =>
        /\ asn[r] - AsnBase \notin pool
        /\ \A s \in Requests : Holder(s) /\ asn[s] = asn[r] => s = r

Owned == Listed /\ Exclusive /\ Alone

(* A task that was not begun has no payload.                                *)
NotBegun ==
    \A d \in Deletes : job[d].st = "none" =>
        job[d].alloc = Nobody /\ job[d].machine = Nobody /\ job[d].ips = {}

(* The address is that of the static ip, or one of a pool.                  *)
Addressed ==
    \A r \in Requests : addr[r] # Nobody =>
        IF StaticOf[r] = Nobody THEN addr[r] \in PoolIps ELSE addr[r] = StaticOf[r]

(* Only ips of requests that made one are deleted.                          *)
TasksKnown == \A q \in ipTasks : pc[q] \in HasAddress

(* An allocation that is being freed for the first time is still there when *)
(* its ips are read.                                                        *)
StillThere == \A d \in Deletes : job[d].st = "ips" => row[job[d].machine].alloc = job[d].alloc

OwnIp(q) == IF StaticOf[q] = Nobody THEN q ELSE StaticOf[q]

(* The payload names only ips of the allocation.                            *)
PayloadOwn ==
    \A d \in Deletes : job[d].st = "none" \/ job[d].ips \subseteq {OwnIp(job[d].alloc)}

(* Requests with an ip to keep: their delete task has not read it.          *)
Live(q) ==
    /\ \/ pc[q] \in {"tag", "refetch", "commit", "push", "done"}
       \/ Deletes # {} /\ \E m \in Machines : row[m].alloc = q
    /\ \A d \in Deletes : job[d].alloc = q => job[d].st = "ips"

IpsLive ==
    \A q \in Requests : Live(q) /\ StaticOf[q] = Nobody => ip[addr[q]].uuid = q /\ q \notin ipTasks

TagsLive ==
    \A q \in Requests :
        /\ \/ pc[q] \in {"refetch", "commit"}
           \/ pc[q] \in {"push", "done"} /\ row[target[q]].alloc = q
        /\ ~Freed(q) /\ ~AttachedAgain(target[q], q)
        => target[q] \in ip[addr[q]].tags

IpsSound == FreedOnce => StillThere /\ PayloadOwn /\ IpsLive /\ TagsLive

Payloads == NotBegun /\ Addressed /\ TasksKnown

(* A request gets hold of a machine only by reserving it.                   *)
LEMMA Entering ==
    ASSUME TypeOK, Unnamed, NEW r \in Requests, RequestStep(r) \/ Crash(r),
           pc'[r] \in Holding \cup RollingBack
    PROVE  /\ target'[r] = target[r]
           /\ \/ pc[r] \in Holding \cup RollingBack
              \/ /\ Reserve(r) /\ pc[r] = "reserve" /\ pc'[r] = "convert"
                 /\ WriteMachine(r, target[r], [row[target[r]] EXCEPT !.pre = "yes"])
BY DEF TypeOK, Unnamed, Holding, RollingBack, RequestStep, Validate, Lock, LockTimeout,
   SelectCandidate, NoCandidate, Reserve, ConvertNetworks, AcquireASN, CreateIP, TagIP,
   NetworksFail, Refetch, Commit, PushMachineAllocation, RollbackIP, RollbackGet, RollbackASN,
   RollbackClear, Goto, Crash

LEMMA ListedStep == TypeOK /\ Known /\ Listed /\ [Next]_vars => Listed'
<1> SUFFICES ASSUME TypeOK, Known, Listed, [Next]_vars, NEW r \in Requests,
                    pc'[r] = "reserve", <<r, target'[r]>> \in copies'
             PROVE  row'[target'[r]].alloc = Nobody /\ row'[target'[r]].pre = "no"
  BY DEF Listed, Current, Allocated
<1>1. CASE Still(r)
  <2> DEFINE m == target[r]
  <2>1. m \in Machines /\ r \in Procs /\ pc[r] = "reserve" /\ target'[r] = m
    BY <1>1 DEF Known, Prepared, Unplaced, Still, Procs
  <2>2. ~ReadBy(r, m)
    BY <2>1, AllocationAssumption DEF ReadBy, SelectCandidate, Refetch, RollbackGet, Goto
  <2>3. Current(r, m)
    BY <2>1, <2>2, CopyChange DEF CopyChanges, Current
  <2>4. Kept(m)
    BY <2>1, RowChange DEF RowChanges
  <2>5. QED
    BY <2>1, <2>3, <2>4 DEF Listed, Kept, Allocated
<1>2. CASE RequestStep(r) \/ Crash(r)
  <2>1. SelectCandidate(r)
    BY <1>2 DEF TypeOK, RequestStep, Validate, Lock, LockTimeout, NoCandidate, Reserve,
       ConvertNetworks, AcquireASN, CreateIP, TagIP, NetworksFail, Refetch, Commit,
       PushMachineAllocation, RollbackIP, RollbackGet, RollbackASN, RollbackClear, Goto, Crash
  <2>2. QED
    BY <2>1 DEF TypeOK, SelectCandidate, Candidates, Allocated
<1>3. QED
  BY <1>1, <1>2, RequestChange

LEMMA AloneStep ==
    TypeOK /\ Known /\ Unnamed /\ Owned /\ [Next]_vars => Alone'
<1> SUFFICES ASSUME TypeOK, Known, Unnamed, Owned, [Next]_vars,
                    NEW r \in Requests, NEW s \in Requests,
                    pc'[r] \in Holding \cup RollingBack, pc'[s] \in Holding \cup RollingBack,
                    target'[r] = target'[s], r # s
             PROVE  FALSE
  BY DEF Alone
<1>1. ASSUME NEW p \in Requests, NEW q \in Requests, p # q, target[p] = target[q],
             pc[p] = "reserve", Current(p, target[p]), pc[q] \in Holding \cup RollingBack
      PROVE  FALSE
  BY <1>1, AllocationAssumption
     DEF Owned, Listed, Exclusive, Unallocated, OwnAlone, Allocated, Procs, Holding, RollingBack
<1>2. ASSUME NEW p \in Requests, NEW q \in Requests, RequestStep(p) \/ Crash(p), p # q
      PROVE  Still(q)
  BY <1>2 DEF TypeOK, Still, RequestStep, Validate, Lock, LockTimeout, SelectCandidate,
     NoCandidate, Reserve, ConvertNetworks, AcquireASN, CreateIP, TagIP, NetworksFail, Refetch,
     Commit, PushMachineAllocation, RollbackIP, RollbackGet, RollbackASN, RollbackClear, Goto,
     Crash
<1>3. CASE Still(r) /\ Still(s)
  BY <1>3 DEF Owned, Alone, Still
<1>4. ASSUME NEW p \in Requests, NEW q \in Requests, p # q, RequestStep(p) \/ Crash(p),
             pc'[p] \in Holding \cup RollingBack, pc'[q] \in Holding \cup RollingBack,
             target'[p] = target'[q]
      PROVE  FALSE
  <2>1. target'[q] = target[q] /\ pc'[q] = pc[q]
    BY <1>2, <1>4 DEF Still
  <2>2. CASE pc[p] \in Holding \cup RollingBack
    BY <1>4, <2>1, <2>2, Entering DEF Owned, Alone
  <2>3. CASE ~(pc[p] \in Holding \cup RollingBack)
    BY <1>1, <1>4, <2>1, <2>3, Entering DEF WriteMachine
  <2>4. QED
    BY <2>2, <2>3
<1>5. QED
  BY <1>3, <1>4, RequestChange

(* The machine of a request that holds it is changed by nobody else.        *)
LEMMA Undisturbed ==
    ASSUME TypeOK, Known, JobsCurrent, Owned, CommitsUnallocated, [Next]_vars,
           NEW r \in Requests, Still(r), pc[r] \in Holding \cup RollingBack
    PROVE  Kept(target[r])
<1> DEFINE m == target[r]
<1>1. m \in Machines
  BY DEF Known, Prepared, Unplaced, Holding, RollingBack
<1>2. Unallocated(m) \/ OwnAlone(r)
  BY DEF Owned, Exclusive, Holding, RollingBack
<1>3. \A s \in Requests : s # r /\ pc[s] \in Holding \cup RollingBack => target[s] # m
  BY DEF Owned, Alone
<1>4. \A s \in Requests : ~Reserved(s, m)
  <2>1. SUFFICES ASSUME NEW s \in Requests, Reserved(s, m) PROVE FALSE
    OBVIOUS
  <2>2. ~Allocated(m) /\ row[m].pre = "no"
    BY <2>1 DEF Owned, Listed, Reserved, Reserve, Goto, WriteMachine, Stale
  <2>3. QED
    BY <1>2, <2>2, AllocationAssumption DEF Unallocated, OwnAlone, Allocated, Procs
<1>5. \A s \in Requests : ~Committed(s, m)
  BY <1>3 DEF Committed, Commit, Goto, Still, Holding, TypeOK
<1>6. ~Removes(m)
  <2>1. SUFFICES ASSUME Removes(m) PROVE FALSE
    OBVIOUS
  <2>2. CASE \E s \in Requests : RollbackClear(s) /\ target[s] = m
    BY <1>3, <2>2 DEF RollbackClear, Goto, Still, RollingBack, TypeOK
  <2>3. CASE \E d \in Deletes : ReleaseAllocationUpdate(d) /\ job[d].machine = m /\ Current(d, m)
    <3>1. PICK d \in Deletes : ReleaseAllocationUpdate(d) /\ job[d].machine = m /\ Current(d, m)
      BY <2>3
    <3>2. row[m].alloc = job[d].alloc /\ job[d].alloc \in Requests
      BY <3>1 DEF JobsCurrent, ReleaseAllocationUpdate, Known, JobsKnown
    <3>3. QED
      BY <1>2, <3>2, AllocationAssumption DEF Unallocated, OwnAlone, Allocated, Procs
  <2>4. QED
    BY <2>1, <2>2, <2>3 DEF Removes
<1>7. QED
  BY <1>1, <1>4, <1>5, <1>6, RowChange DEF RowChanges

LEMMA ExclusiveStep ==
    TypeOK /\ Known /\ JobsCurrent /\ CommitsUnallocated /\ Unnamed /\ AnswersArrive /\ Owned
    /\ [Next]_vars => Exclusive'
<1> SUFFICES ASSUME TypeOK, Known, JobsCurrent, CommitsUnallocated, Unnamed, AnswersArrive, Owned,
                    [Next]_vars, NEW r \in Requests
             PROVE  /\ pc'[r] \in Holding => Unallocated(target[r])'
                    /\ pc'[r] \in {"rollbackip", "rollback"} =>
                          Unallocated(target[r])' \/ OwnAlone(r)'
                    /\ pc'[r] \in {"rollbackasn", "rollbackclear"} => OwnAlone(r)' /\ seen'[r] = r
  BY DEF Exclusive
<1> DEFINE m == target[r]
<1>1. CASE Still(r) /\ pc[r] \in Holding \cup RollingBack
  BY <1>1, Undisturbed DEF Owned, Exclusive, Still, Kept, Unallocated, OwnAlone, Allocated
<1>2. CASE RequestStep(r) \/ Crash(r)
  <2>1. CASE ~(pc'[r] \in Holding \cup RollingBack)
    BY <2>1 DEF Holding, RollingBack
  <2>2. CASE pc'[r] \in Holding \cup RollingBack /\ pc[r] = "reserve"
    <3>1. /\ WriteMachine(r, m, [row[m] EXCEPT !.pre = "yes"])
          /\ target'[r] = m /\ pc'[r] = "convert"
      BY <1>2, <2>2, Entering DEF Holding, RollingBack
    <3>2. row[m].alloc = Nobody /\ m \in Machines
      BY <2>2, <3>1 DEF Owned, Listed, WriteMachine, Allocated, Known, Prepared, Unplaced
    <3>3. row'[m] = [row[m] EXCEPT !.pre = "yes"] /\ row[m] \in MachineRows
      BY <3>1, <3>2 DEF WriteMachine, TypeOK
    <3>4. row'[m].alloc = Nobody /\ row'[m].pre = "yes"
      BY <3>2, <3>3 DEF MachineRows
    <3>5. QED
      BY <3>1, <3>4 DEF Unallocated, Allocated
  <2>3. CASE pc'[r] \in Holding \cup RollingBack /\ pc[r] = "commit"
    <3>1. Commit(r) \/ Crash(r)
      BY <1>2, <2>3 DEF RequestStep, Validate, Lock, LockTimeout, SelectCandidate, NoCandidate,
         Reserve, ConvertNetworks, AcquireASN, CreateIP, TagIP, NetworksFail, Refetch,
         PushMachineAllocation, RollbackIP, RollbackGet, RollbackASN, RollbackClear, Goto
    <3>2. Commit(r) /\ pc'[r] = "rollbackip" /\ target'[r] = m
      BY <2>3, <3>1 DEF TypeOK, Commit, Goto, Crash, Holding, RollingBack
    <3>3. CASE UNCHANGED row
      BY <2>3, <3>2, <3>3 DEF Owned, Exclusive, Holding, Unallocated, Allocated
    <3>4. CASE WriteMachine(r, m, [row[m] EXCEPT !.alloc = r, !.pre = "no"])
      <4>1. Deletes = {}
        BY <2>3, <3>2, <3>4 DEF TypeOK, AnswersArrive, Commit, Goto, Stale, WriteMachine
      <4>2. row'[m] = [row[m] EXCEPT !.alloc = r, !.pre = "no"] /\ row[m] \in MachineRows
        BY <2>3, <3>4 DEF WriteMachine, TypeOK, Known, Prepared, Unplaced
      <4>3. row'[m].alloc = r
        BY <4>2 DEF MachineRows
      <4>4. QED
        BY <3>2, <4>1, <4>3 DEF OwnAlone, Holding
    <3>5. QED
      BY <3>2, <3>3, <3>4 DEF Commit
  <2>4. CASE pc'[r] \in Holding \cup RollingBack /\ pc[r] \in Holding \cup RollingBack /\ pc[r] # "commit"
    <3>1. UNCHANGED row /\ target'[r] = m
      BY <1>2, <2>4 DEF TypeOK, RequestStep, Validate, Lock, LockTimeout, SelectCandidate, NoCandidate,
         Reserve, ConvertNetworks, AcquireASN, CreateIP, TagIP, NetworksFail, Refetch, Commit,
         PushMachineAllocation, RollbackIP, RollbackGet, RollbackASN, RollbackClear, Goto, Crash,
         Holding, RollingBack
    <3>2. CASE RollbackGet(r)
      BY <3>1, <3>2, AllocationAssumption DEF TypeOK, RollbackGet, Goto, Owned, Exclusive,
         Unallocated, OwnAlone, Allocated, Holding, RollingBack, Procs
    <3>3. CASE ~RollbackGet(r)
      <4>1. /\ pc'[r] \in Holding => pc[r] \in Holding
            /\ pc'[r] \in {"rollbackip", "rollback"} => pc[r] \in Holding \cup {"rollbackip", "rollback"}
            /\ pc'[r] \in {"rollbackasn", "rollbackclear"} =>
                  pc[r] \in {"rollbackasn", "rollbackclear"} /\ seen'[r] = seen[r]
        BY <1>2, <2>4, <3>3 DEF TypeOK, RequestStep, Validate, Lock, LockTimeout, SelectCandidate,
           NoCandidate, Reserve, ConvertNetworks, AcquireASN, CreateIP, TagIP, NetworksFail,
           Refetch, Commit, PushMachineAllocation, RollbackIP, RollbackASN, RollbackClear, Goto,
           Crash, Holding, RollingBack
      <4>2. QED
        BY <3>1, <4>1 DEF Owned, Exclusive, Unallocated, OwnAlone, Allocated
    <3>4. QED
      BY <3>2, <3>3
  <2>5. QED
    BY <1>2, <2>1, <2>2, <2>3, <2>4, Entering
<1>3. QED
  BY <1>1, <1>2, RequestChange DEF Still, Holding, RollingBack

LEMMA OwnedStep ==
    TypeOK /\ Known /\ JobsCurrent /\ CommitsUnallocated /\ Unnamed /\ AnswersArrive /\ Owned
    /\ [Next]_vars => Owned'
BY ListedStep, ExclusiveStep, AloneStep DEF Owned

(* Who takes an asn from the pool and who gives one back. The delete task   *)
(* gives none back: releaseAsnTask finds no asn above AsnBase.              *)
LEMMA PoolChange ==
    ASSUME TypeOK, [Next]_vars
    PROVE  UNCHANGED <<pool, asn>> \/ \E r \in Requests : AcquireASN(r) \/ RollbackASN(r)
<1>1. ASSUME NEW d \in Deletes, ReleaseAsn(d) PROVE UNCHANGED <<pool, asn>>
  <2>1. AsnFound(job[d].alloc) = 0
    BY AllocationAssumption DEF AsnFound
  <2>2. QED
    BY <1>1, <2>1 DEF ReleaseAsn, requestVars
<1>2. ASSUME NEW d \in Deletes, Decommission(d) \/ TaskStep(d) PROVE UNCHANGED <<pool, asn>>
  BY <1>1, <1>2 DEF requestVars, Decommission, TaskStep, DecommissionIPs, ReleaseAllocationFind,
     ReleaseAllocationUpdate, ReleaseMachineIP, ReleaseMachineIPWait, ReleaseJoin,
     MachineBMCCommand, ResetVrf
<1>3. ASSUME NEW r \in Requests, RequestStep(r), ~AcquireASN(r), ~RollbackASN(r)
      PROVE  UNCHANGED <<pool, asn>>
  BY <1>3 DEF RequestStep, Validate, Lock, LockTimeout, SelectCandidate, NoCandidate, Reserve,
     ConvertNetworks, CreateIP, TagIP, NetworksFail, Refetch, Commit, PushMachineAllocation,
     RollbackIP, RollbackGet, RollbackClear
<1>4. ASSUME NEW m \in Machines, MachineStep(m) PROVE UNCHANGED <<pool, asn>>
  BY <1>4 DEF requestVars, MachineStep, SetWaitingFlag, Install, InstallationSucceeded
<1>5. QED
  BY <1>2, <1>3, <1>4 DEF Next, Crash, LockExpires, DeleteIP, vars, requestVars

LEMMA AsnsHeldStep ==
    TypeOK /\ Known /\ Owned /\ AsnsHeld /\ [Next]_vars => AsnsHeld'
<1> SUFFICES ASSUME TypeOK, Known, Owned, AsnsHeld, [Next]_vars PROVE AsnsHeld'
  OBVIOUS
<1> USE AllocationAssumption
<1>1. asn \in [Requests -> Int] /\ AsnBase \in Int /\ pool \subseteq Int
  BY DEF TypeOK, Asns, Pool
<1>2. ASSUME NEW r \in Requests, Holder(r)' PROVE Holder(r) \/ AcquireASN(r)
  <2>1. CASE RequestStep(r) \/ Crash(r)
    BY <1>2, <2>1 DEF TypeOK, Holder, RequestStep, Validate, Lock, LockTimeout, SelectCandidate,
       NoCandidate, Reserve, ConvertNetworks, CreateIP, TagIP, NetworksFail, Refetch, Commit,
       PushMachineAllocation, RollbackIP, RollbackGet, RollbackASN, RollbackClear, Goto, Crash
  <2>2. QED
    BY <1>2, <2>1, RequestChange DEF Still, Holder
<1>3. CASE UNCHANGED <<pool, asn>>
  <2>1. \A r \in Requests : ~AcquireASN(r)
    BY <1>3 DEF AcquireASN, TypeOK
  <2>2. QED
    BY <1>2, <1>3, <2>1 DEF AsnsHeld
<1>4. ASSUME NEW p \in Requests, AcquireASN(p) PROVE AsnsHeld'
  <2>1. PICK v \in pool : pool' = pool \ {v} /\ asn' = [asn EXCEPT ![p] = AsnBase + v]
    BY <1>4 DEF AcquireASN
  <2>2. /\ asn'[p] = AsnBase + v /\ asn'[p] - AsnBase = v
        /\ \A r \in Requests : r # p => asn'[r] = asn[r]
    BY <1>1, <2>1
  <2>3. \A r \in Requests : Holder(r)' /\ r # p => Holder(r)
    BY <1>2, <1>4 DEF TypeOK, AcquireASN, Goto, Holder
  <2>4. \A r \in Requests : Holder(r)' /\ r # p => asn[r] # AsnBase + v
    BY <1>1, <2>1, <2>3 DEF AsnsHeld
  <2>5. QED
    BY <2>1, <2>2, <2>3, <2>4 DEF AsnsHeld
<1>5. ASSUME NEW p \in Requests, RollbackASN(p) PROVE AsnsHeld'
  <2>1. seen[p] = p /\ asn[p] # 0 /\ pc[p] = "rollbackasn" /\ pc'[p] = "rollbackclear"
    BY <1>5 DEF TypeOK, RollbackASN, Goto, Owned, Exclusive, Known, Prepared
  <2>2. pool' = pool \cup {asn[p] - AsnBase} /\ asn' = asn
    BY <1>5, <2>1 DEF RollbackASN
  <2>3. Holder(p) /\ ~Holder(p)'
    BY <2>1 DEF Holder
  <2>4. \A r \in Requests : Holder(r)' => Holder(r) /\ r # p
    BY <1>2, <1>5, <2>3 DEF RollbackASN, AcquireASN, Goto, TypeOK, Holder
  <2>5. \A r \in Requests : Holder(r)' => asn[r] - AsnBase # asn[p] - AsnBase
    BY <1>1, <2>3, <2>4 DEF AsnsHeld
  <2>6. QED
    BY <2>2, <2>4, <2>5 DEF AsnsHeld
<1>6. QED
  BY <1>3, <1>4, <1>5, PoolChange

LEMMA UniqueAsns == TypeOK /\ Known /\ AsnsHeld => AsnUnique
<1> SUFFICES ASSUME TypeOK, Known, AsnsHeld, NEW m \in Machines, Given(m)
             PROVE  /\ \A n \in Machines : m # n /\ Given(n) => asn[row[m].alloc] # asn[row[n].alloc]
                    /\ asn[row[m].alloc] - AsnBase \notin pool
  BY DEF AsnUnique
<1>1. ASSUME NEW n \in Machines, Given(n)
      PROVE  row[n].alloc \in Requests /\ Holder(row[n].alloc) /\ target[row[n].alloc] = n
  BY <1>1 DEF TypeOK, MachineRows, Given, Allocated, Known, RowsKnown, Holder
<1>2. QED
  BY <1>1 DEF AsnsHeld

(* A task that was begun keeps its payload, so what was freed stays freed.  *)
LEMMA JobPersists ==
    ASSUME TypeOK, Known, NotBegun, [Next]_vars, NEW d \in Deletes,
           job[d].alloc # Nobody \/ job[d].machine # Nobody
    PROVE  /\ job[d].st # "none" /\ job'[d].st # "none"
           /\ job'[d].alloc = job[d].alloc /\ job'[d].machine = job[d].machine
BY JobChange DEF NotBegun, Decommission

LEMMA Monotone ==
    ASSUME TypeOK, Known, NotBegun, [Next]_vars
    PROVE  /\ FreedOnce' => FreedOnce
           /\ \A q \in Requests : Freed(q) => Freed(q)'
           /\ \A q \in Requests, m \in Machines : AttachedAgain(m, q) => AttachedAgain(m, q)'
<1> USE AllocationAssumption DEF Procs
<1>1. FreedOnce' => FreedOnce
  BY JobPersists DEF FreedOnce
<1>2. \A q \in Requests : Freed(q) => Freed(q)'
  BY JobPersists DEF Freed
<1>3. \A q \in Requests, m \in Machines : AttachedAgain(m, q) => AttachedAgain(m, q)'
  BY JobPersists DEF AttachedAgain
<1>4. QED
  BY <1>1, <1>2, <1>3

(* Only Decommission leads to the state in which the ips are read.          *)
LEMMA IpsOnce ==
    ASSUME TypeOK, Known, [Next]_vars, NEW d \in Deletes, job'[d].st = "ips"
    PROVE  Decommission(d) \/ job'[d] = job[d]
<1>1. ASSUME TaskStep(d), job[d].st # "none" PROVE job'[d].st # "ips"
  <2>1. addr[job[d].alloc] \in Addresses
    BY <1>1 DEF Known, JobsKnown
  <2>2. QED
    BY <1>1, <2>1, ReleaseEffect, DecommissionIPsEffect DEF TypeOK, TaskStep, JobMoves
<1>2. QED
  BY <1>1, JobChange

LEMMA AddressedStep == TypeOK /\ Known /\ Addressed /\ [Next]_vars => Addressed'
<1> SUFFICES ASSUME TypeOK, Known, Addressed, [Next]_vars, NEW r \in Requests, addr'[r] # Nobody
             PROVE  IF StaticOf[r] = Nobody THEN addr'[r] \in PoolIps ELSE addr'[r] = StaticOf[r]
  BY DEF Addressed
<1>1. CASE addr'[r] = addr[r]
  BY <1>1 DEF Addressed
<1>2. CASE (RequestStep(r) /\ ~CreateIP(r)) \/ Crash(r)
  BY <1>2 DEF Addressed, RequestStep, Validate, Lock, LockTimeout, SelectCandidate, NoCandidate,
     Reserve, ConvertNetworks, AcquireASN, TagIP, NetworksFail, Refetch, Commit,
     PushMachineAllocation, RollbackIP, RollbackGet, RollbackASN, RollbackClear, Crash
<1>3. CASE CreateIP(r)
  BY <1>3 DEF TypeOK, CreateIP
<1>4. QED
  BY <1>1, <1>2, <1>3, RequestChange DEF Still

(* Who hands an ip to the task that deletes it.                             *)
LEMMA TaskChange ==
    ASSUME TypeOK, [Next]_vars, NEW q \in ipTasks', q \notin ipTasks
    PROVE  \/ q \in Requests /\ RollbackIP(q) /\ StaticOf[q] = Nobody
           \/ \E d \in Deletes, a \in PoolIps :
                 ReleaseMachineIP(d) /\ q \in job[d].ips /\ ip[a].uuid = q
<1>1. ASSUME NEW r \in Requests, RequestStep(r)
      PROVE  q = r /\ RollbackIP(q) /\ StaticOf[q] = Nobody
  BY <1>1 DEF RequestStep, Validate, Lock, LockTimeout, SelectCandidate, NoCandidate, Reserve,
     ConvertNetworks, AcquireASN, CreateIP, TagIP, NetworksFail, Refetch, Commit,
     PushMachineAllocation, RollbackIP, RollbackGet, RollbackASN, RollbackClear
<1>2. ASSUME NEW d \in Deletes, Decommission(d) \/ TaskStep(d)
      PROVE  /\ ReleaseMachineIP(d)
             /\ \E a \in PoolIps : q \in job[d].ips /\ ip[a].uuid = q
  <2>1. ReleaseMachineIP(d)
    BY <1>2 DEF Decommission, TaskStep, DecommissionIPs, ReleaseAsn, ReleaseAllocationFind,
       ReleaseAllocationUpdate, ReleaseMachineIPWait, ReleaseJoin, MachineBMCCommand, ResetVrf
  <2>2. ipTasks' = ipTasks \cup {ip[a].uuid : a \in {b \in Addresses : ip[b].uuid \in job[d].ips} \cap PoolIps}
    BY <2>1 DEF ReleaseMachineIP
  <2>3. QED
    BY <2>1, <2>2
<1>3. ASSUME NEW m \in Machines, MachineStep(m) PROVE FALSE
  BY <1>3 DEF MachineStep, SetWaitingFlag, Install, InstallationSucceeded
<1>4. QED
  BY <1>1, <1>2, <1>3 DEF Next, Crash, LockExpires, DeleteIP, vars

LEMMA PayloadsStep == TypeOK /\ Known /\ Payloads /\ [Next]_vars => Payloads'
<1> SUFFICES ASSUME TypeOK, Known, Payloads, [Next]_vars PROVE Payloads'
  OBVIOUS
<1>1. NotBegun'
  <2>1. SUFFICES ASSUME NEW d \in Deletes, job'[d].st = "none" PROVE job'[d] = job[d]
    BY DEF Payloads, NotBegun
  <2>2. ~Decommission(d)
    BY <2>1, DecommissionEffect DEF TypeOK
  <2>3. QED
    BY <2>1, <2>2, JobChange
<1>2. TasksKnown'
  <2>1. SUFFICES ASSUME NEW q \in ipTasks' PROVE pc'[q] \in HasAddress
    BY DEF TasksKnown
  <2>2. CASE q \in ipTasks
    BY <2>2, AddressKept DEF TypeOK, Payloads, TasksKnown
  <2>3. CASE q \in Requests /\ RollbackIP(q)
    BY <2>3 DEF TypeOK, RollbackIP, Goto, HasAddress, RequestStates
  <2>4. CASE \E d \in Deletes, a \in PoolIps : ReleaseMachineIP(d) /\ q \in job[d].ips /\ ip[a].uuid = q
    <3>1. PICK d \in Deletes, a \in PoolIps : q \in job[d].ips /\ ip[a].uuid = q
      BY <2>4
    <3>2. q # Nobody
      BY <3>1, AllocationAssumption DEF TypeOK, Jobs, Procs, Addresses
    <3>3. pc[q] \in HasAddress /\ q \in Requests
      BY <3>1, <3>2 DEF TypeOK, Known, Uuids, HasAddress
    <3>4. QED
      BY <3>3, AddressKept
  <2>5. QED
    BY <2>2, <2>3, <2>4, TaskChange
<1>3. QED
  BY <1>1, <1>2, AddressedStep DEF Payloads

LEMMA StillThereStep ==
    ASSUME TypeOK, Known, JobsCurrent, CommitsUnallocated, Owned, FreedOnce, StillThere,
           [Next]_vars
    PROVE  StillThere'
<1> SUFFICES ASSUME NEW d \in Deletes, job'[d].st = "ips"
             PROVE  row'[job'[d].machine].alloc = job'[d].alloc
  BY DEF StillThere
<1>1. CASE Decommission(d)
  BY <1>1, DecommissionEffect DEF TypeOK, Decommission
<1>2. CASE job'[d] = job[d]
  <2> DEFINE m == job[d].machine
             q == job[d].alloc
  <2>1. m \in Machines /\ q \in Requests /\ row[m].alloc = q
    BY <1>2 DEF Known, JobsKnown, StillThere
  <2>2. q # Nobody
    BY <2>1, AllocationAssumption DEF Procs
  <2>3. \A r \in Requests : ~Committed(r, m)
    BY <2>1, <2>2 DEF Committed, Commit, Goto, CommitsUnallocated, Allocated
  <2>4. ~Removes(m)
    <3>1. \A r \in Requests : ~RollbackClear(r)
      BY DEF RollbackClear, Goto, Owned, Exclusive, OwnAlone
    <3>2. ASSUME NEW e \in Deletes, ReleaseAllocationUpdate(e), job[e].machine = m, Current(e, m)
          PROVE  FALSE
      <4>1. row[m].alloc = job[e].alloc /\ job[e].st = "release"
        BY <3>2 DEF JobsCurrent, ReleaseAllocationUpdate
      <4>2. QED
        BY <1>2, <2>1, <2>2, <4>1 DEF FreedOnce
    <3>3. QED
      BY <3>1, <3>2 DEF Removes
  <2>5. row'[m].alloc = row[m].alloc
    BY <2>1, <2>3, <2>4, RowChange DEF RowChanges, Kept, Reserved
  <2>6. QED
    BY <1>2, <2>1, <2>5
<1>3. QED
  BY <1>1, <1>2, IpsOnce

LEMMA PayloadOwnStep ==
    ASSUME TypeOK, Known, Payloads, FreedOnce, StillThere, IpsLive, PayloadOwn, [Next]_vars
    PROVE  PayloadOwn'
<1> SUFFICES ASSUME NEW d \in Deletes, job'[d].st # "none"
             PROVE  job'[d].ips \subseteq {OwnIp(job'[d].alloc)}
  BY DEF PayloadOwn
<1>1. CASE job'[d] = job[d]
  BY <1>1 DEF PayloadOwn
<1>2. CASE Decommission(d)
  <2>1. job'[d].ips = job[d].ips /\ job[d].st = "none"
    BY <1>2, DecommissionEffect DEF TypeOK, Decommission
  <2>2. QED
    BY <2>1 DEF Payloads, NotBegun
<1>3. CASE DecommissionIPs(d)
  <2> DEFINE q == job[d].alloc
  <2>1. job[d].st = "ips" /\ q \in Requests /\ addr[q] \in Addresses /\ job[d].machine \in Machines
    BY <1>3 DEF DecommissionIPs, Known, JobsKnown
  <2>2. job'[d].ips = {ip[addr[q]].uuid} \ {Nobody} /\ job'[d].alloc = q
    BY <1>3, <2>1, DecommissionIPsEffect DEF TypeOK, JobMoves
  <2>3. addr[q] # Nobody /\ q # Nobody
    BY <2>1, AllocationAssumption DEF Procs
  <2>4. CASE StaticOf[q] = Nobody
    <3>1. Live(q)
      BY <2>1, <2>3 DEF Live, StillThere, FreedOnce
    <3>2. QED
      BY <2>1, <2>2, <2>4, <3>1 DEF IpsLive, OwnIp
  <2>5. CASE StaticOf[q] # Nobody
    <3>1. addr[q] = StaticOf[q] /\ addr[q] \in StaticIps
      BY <2>1, <2>3, <2>5, AllocationAssumption DEF Payloads, Addressed
    <3>2. QED
      BY <2>2, <2>5, <3>1 DEF Known, Uuids, OwnIp
  <2>6. QED
    BY <2>4, <2>5
<1>4. CASE TaskStep(d) /\ ~DecommissionIPs(d) /\ job[d].st # "none"
  <2>1. job'[d].ips = job[d].ips /\ job'[d].alloc = job[d].alloc
    BY <1>4, ReleaseEffect DEF TypeOK, TaskStep, JobMoves
  <2>2. QED
    BY <1>4, <2>1 DEF PayloadOwn
<1>5. QED
  BY <1>1, <1>2, <1>3, <1>4, JobChange

(* A task that releases ips does so for its own allocation.                 *)
LEMMA ReleasesOwn ==
    ASSUME TypeOK, Known, PayloadOwn, NEW d \in Deletes, ReleaseMachineIP(d), NEW u \in job[d].ips
    PROVE  u = OwnIp(job[d].alloc) /\ job[d].alloc \in Requests /\ job[d].st = "release"
BY DEF ReleaseMachineIP, PayloadOwn, Known, JobsKnown

(* A request that has an ip to keep had it before, or makes it now.         *)
LEMMA LiveBefore ==
    ASSUME TypeOK, Known, Payloads, [Next]_vars, NEW q \in Requests, Live(q)'
    PROVE  Live(q) \/ CreateIP(q)
<1>1. \A d \in Deletes : job[d].alloc = q => job[d].st = "ips"
  <2>1. SUFFICES ASSUME NEW d \in Deletes, job[d].alloc = q PROVE job[d].st = "ips"
    OBVIOUS
  <2>2. job[d].st # "none" /\ job'[d].alloc = q
    BY <2>1, JobPersists, AllocationAssumption DEF Payloads, Procs
  <2>3. job'[d].st = "ips"
    BY <2>2 DEF Live
  <2>4. QED
    BY <2>2, <2>3, IpsOnce DEF Decommission
<1>2. CASE pc'[q] \in {"tag", "refetch", "commit", "push", "done"}
  <2>1. CASE Still(q)
    BY <1>1, <1>2, <2>1 DEF Still, Live
  <2>2. CASE RequestStep(q) \/ Crash(q)
    BY <1>1, <1>2, <2>2 DEF TypeOK, Live, RequestStep, Validate, Lock, LockTimeout,
       SelectCandidate, NoCandidate, Reserve, ConvertNetworks, AcquireASN, TagIP, NetworksFail,
       Refetch, Commit, PushMachineAllocation, RollbackIP, RollbackGet, RollbackASN,
       RollbackClear, Goto, Crash
  <2>3. QED
    BY <2>1, <2>2, RequestChange
<1>3. CASE Deletes # {} /\ \E m \in Machines : row'[m].alloc = q
  <2>1. PICK m \in Machines : row'[m].alloc = q
    BY <1>3
  <2>2. CASE row[m].alloc = q
    BY <1>1, <1>3, <2>2 DEF Live
  <2>3. CASE row[m].alloc # q
    <3>1. Committed(q, m)
      BY <2>1, <2>3, RowChange, AllocationAssumption
         DEF RowChanges, Kept, Reserved, Committed, Removes, Procs
    <3>2. QED
      BY <1>1, <3>1 DEF Live, Committed, Commit, Goto
  <2>4. QED
    BY <2>2, <2>3
<1>4. QED
  BY <1>2, <1>3 DEF Live

LEMMA IpsLiveStep ==
    ASSUME TypeOK, Known, JobsCurrent, Payloads, Owned, PayloadOwn, IpsLive, [Next]_vars
    PROVE  IpsLive'
<1> SUFFICES ASSUME NEW q \in Requests, Live(q)', StaticOf[q] = Nobody
             PROVE  ip'[addr'[q]].uuid = q /\ q \notin ipTasks'
  BY DEF IpsLive
<1>1. CASE CreateIP(q)
  <2>1. PICK a \in PoolIps : ip' = [ip EXCEPT ![a].uuid = q] /\ addr' = [addr EXCEPT ![q] = a]
    BY <1>1 DEF CreateIP
  <2>2. addr'[q] = a /\ ip'[a] = [ip[a] EXCEPT !.uuid = q] /\ ip[a] \in IpRows
    BY <2>1 DEF TypeOK, Addresses
  <2>3. ip'[addr'[q]].uuid = q
    BY <2>2 DEF IpRows
  <2>4. q \notin ipTasks /\ UNCHANGED ipTasks
    BY <1>1 DEF CreateIP, Goto, Payloads, TasksKnown, HasAddress
  <2>5. QED
    BY <2>3, <2>4
<1>2. CASE Live(q) /\ ~CreateIP(q)
  <2> DEFINE a == addr[q]
  <2>1. ip[a].uuid = q /\ q \notin ipTasks
    BY <1>2 DEF IpsLive
  <2>2. pc[q] \in HasAddress
    <3>1. (\E m \in Machines : row[m].alloc = q) => pc[q] \in PastCommit
      BY AllocationAssumption DEF Known, RowsKnown, Allocated, Procs
    <3>2. QED
      BY <1>2, <3>1 DEF Live, HasAddress, RequestStates, PastCommit
  <2>3. a \in Addresses
    <3>1. (\E m \in Machines : row[m].alloc = q) => a \in Addresses
      BY AllocationAssumption DEF Known, RowsKnown, Allocated, Procs
    <3>2. pc[q] \in {"tag", "refetch", "commit", "push", "done"} => a \in Addresses
      BY DEF Known, Prepared
    <3>3. QED
      BY <1>2, <3>1, <3>2 DEF Live
  <2>4. addr'[q] = a
    BY <2>2, AddressKept
  <2>5. ip'[a].uuid = q
    <3>1. ~DeletedIp(a)
      BY <2>1 DEF DeletedIp, DeleteIP
    <3>2. \A r \in Requests : ~Created(r, a)
      BY <2>1, AllocationAssumption DEF Created, Procs
    <3>3. QED
      BY <2>1, <2>3, <3>1, <3>2, IpChange DEF IpChanges
  <2>6. q \notin ipTasks'
    <3>1. ~RollbackIP(q)
      <4>1. SUFFICES ASSUME RollbackIP(q) PROVE FALSE
        OBVIOUS
      <4>2. pc[q] = "rollbackip" /\ pc'[q] = "rollback"
        BY <4>1 DEF TypeOK, RollbackIP, Goto
      <4>3. Deletes # {} /\ \E m \in Machines : row[m].alloc = q
        BY <1>2, <4>2 DEF Live
      <4>4. row[target[q]].alloc = q /\ q # Nobody
        BY <4>3, AllocationAssumption DEF Known, RowsKnown, Allocated, Procs
      <4>5. QED
        BY <4>2, <4>3, <4>4 DEF Owned, Exclusive, Unallocated, OwnAlone, Allocated
    <3>2. ASSUME NEW d \in Deletes, ReleaseMachineIP(d), q \in job[d].ips PROVE FALSE
      <4>1. q = OwnIp(job[d].alloc) /\ job[d].alloc \in Requests /\ job[d].st = "release"
        BY <3>2, ReleasesOwn
      <4>2. q = job[d].alloc
        BY <4>1, AllocationAssumption DEF OwnIp, Addresses
      <4>3. QED
        BY <1>2, <4>1, <4>2 DEF Live
    <3>3. QED
      BY <2>1, <3>1, <3>2, TaskChange
  <2>7. QED
    BY <2>4, <2>5, <2>6
<1>3. QED
  BY <1>1, <1>2, LiveBefore

(* What a request that was attached to its ip was before the step.          *)
Attached(q) ==
    \/ pc[q] \in {"refetch", "commit"}
    \/ pc[q] \in {"push", "done"} /\ row[target[q]].alloc = q

LEMMA AttachedBefore ==
    ASSUME TypeOK, Known, [Next]_vars, NEW q \in Requests, Attached(q)'
    PROVE  Attached(q) \/ TagIP(q)
<1>1. CASE Still(q)
  <2>1. CASE pc[q] \in {"push", "done"}
    <3>1. row'[target[q]].alloc = q
      BY <1>1, <2>1 DEF Attached, Still
    <3>2. target[q] \in Machines
      BY <2>1 DEF Known, Prepared, Unplaced
    <3>3. \A r \in Requests : Committed(r, target[q]) => r # q
      BY <2>1 DEF Committed, Commit, Goto
    <3>4. row[target[q]].alloc = q
      BY <3>1, <3>2, <3>3, RowChange, AllocationAssumption
         DEF RowChanges, Kept, Reserved, Committed, Removes, Procs
    <3>5. QED
      BY <2>1, <3>4 DEF Attached
  <2>2. CASE pc[q] \notin {"push", "done"}
    BY <1>1, <2>2 DEF Attached, Still
  <2>3. QED
    BY <2>1, <2>2
<1>2. CASE RequestStep(q) \/ Crash(q)
  BY <1>2 DEF TypeOK, Attached, RequestStep, Validate, Lock, LockTimeout, SelectCandidate,
     NoCandidate, Reserve, ConvertNetworks, AcquireASN, CreateIP, NetworksFail, Refetch, Commit,
     PushMachineAllocation, RollbackIP, RollbackGet, RollbackASN, RollbackClear, Goto, Crash
<1>3. QED
  BY <1>1, <1>2, RequestChange

LEMMA TagsLiveStep ==
    ASSUME TypeOK, Known, Payloads, Owned, PayloadOwn, IpsLive, TagsLive, [Next]_vars
    PROVE  TagsLive'
<1> SUFFICES ASSUME NEW q \in Requests, Attached(q)', ~Freed(q)', ~AttachedAgain(target[q], q)'
             PROVE  target'[q] \in ip'[addr'[q]].tags
  BY DEF TagsLive, Attached
<1> DEFINE a == addr[q]
           m == target[q]
<1>1. CASE TagIP(q)
  <2>1. a \in Addresses /\ a = addr'[q] /\ m = target'[q]
    BY <1>1 DEF TagIP, Goto, Known, Prepared
  <2>2. ip'[a] = [ip[a] EXCEPT !.tags = @ \cup {m}] /\ ip[a] \in IpRows
    BY <1>1, <2>1 DEF TypeOK, TagIP
  <2>3. QED
    BY <2>1, <2>2 DEF IpRows
<1>2. CASE Attached(q) /\ ~TagIP(q)
  <2>1. /\ pc[q] \in {"refetch", "commit", "push", "done"} /\ pc[q] \in HasAddress
        /\ a \in Addresses /\ a # Nobody /\ m \in Machines
    BY <1>2, AllocationAssumption
       DEF Attached, HasAddress, RequestStates, Known, Prepared, Unplaced, Procs
  <2>2. addr'[q] = a /\ target'[q] = m
    <3>1. CASE RequestStep(q) \/ Crash(q)
      BY <2>1, <3>1 DEF TypeOK, RequestStep, Validate, Lock, LockTimeout, SelectCandidate,
         NoCandidate, Reserve, ConvertNetworks, AcquireASN, CreateIP, TagIP, NetworksFail, Refetch,
         Commit, PushMachineAllocation, RollbackIP, RollbackGet, RollbackASN, RollbackClear, Goto,
         Crash
    <3>2. QED
      BY <3>1, RequestChange DEF Still
  <2>3. ~Freed(q) /\ ~AttachedAgain(m, q)
    BY <2>1, <2>2, Monotone DEF Payloads
  <2>4. m \in ip[a].tags
    BY <1>2, <2>3 DEF TagsLive, Attached
  <2>5. ~DeletedIp(a)
    <3>1. CASE StaticOf[q] = Nobody
      <4>1. Live(q)
        BY <2>1, <2>3 DEF Live, Freed
      <4>2. QED
        BY <3>1, <4>1 DEF IpsLive, DeletedIp, DeleteIP
    <3>2. CASE StaticOf[q] # Nobody
      <4>1. a = StaticOf[q] /\ a \in StaticIps
        BY <2>1, <3>2, AllocationAssumption DEF Payloads, Addressed
      <4>2. QED
        BY <4>1, AllocationAssumption DEF Known, Uuids, DeletedIp, Addresses
    <3>3. QED
      BY <3>1, <3>2
  <2>6. ASSUME NEW r \in Requests, RollbackIP(r), target[r] = m PROVE FALSE
    <3>1. pc[r] = "rollbackip" /\ r # q
      BY <2>1, <2>6 DEF RollbackIP, Goto
    <3>2. CASE pc[q] \in {"refetch", "commit"}
      BY <2>6, <3>1, <3>2 DEF Owned, Alone, Holding, RollingBack
    <3>3. CASE row[m].alloc = q
      BY <2>6, <3>1, <3>3, AllocationAssumption
         DEF Owned, Exclusive, Unallocated, OwnAlone, Allocated, Procs
    <3>4. QED
      BY <1>2, <3>2, <3>3 DEF Attached
  <2>7. ASSUME NEW d \in Deletes, ReleaseMachineIP(d), a \in StaticIps,
               ip[a].uuid \in job[d].ips, job[d].machine = m
        PROVE  FALSE
    <3>1. a = OwnIp(job[d].alloc) /\ job[d].alloc \in Requests
      BY <2>7, ReleasesOwn DEF Known, Uuids
    <3>2. StaticOf[job[d].alloc] = a
      BY <2>7, <3>1, AllocationAssumption DEF OwnIp, Addresses
    <3>3. StaticOf[q] = a
      BY <2>1, <2>7, AllocationAssumption DEF Payloads, Addressed
    <3>4. QED
      BY <2>1, <2>3, <2>7, <3>2, <3>3 DEF AttachedAgain
  <2>8. ~Detaches(m, a)
    BY <2>6, <2>7 DEF Detaches
  <2>9. QED
    BY <2>1, <2>2, <2>4, <2>5, <2>8, IpChange DEF IpChanges
<1>3. QED
  BY <1>1, <1>2, AttachedBefore

(* An allocated machine has its ip.                                         *)
LEMMA KeepsIp == TypeOK /\ Known /\ Payloads /\ IpsSound => IpKept
<1> SUFFICES ASSUME TypeOK, Known, Payloads, IpsSound, FreedOnce, NEW m \in Machines, Given(m),
                    ~Freed(row[m].alloc), ~AttachedAgain(m, row[m].alloc)
             PROVE  LET q == row[m].alloc IN
                    /\ ip[addr[q]].uuid = (IF StaticOf[q] = Nobody THEN q ELSE StaticOf[q])
                    /\ m \in ip[addr[q]].tags
  BY DEF IpKept
<1> DEFINE q == row[m].alloc
<1>1. q \in Requests /\ pc[q] \in {"push", "done"} /\ target[q] = m /\ addr[q] \in Addresses
  BY DEF TypeOK, MachineRows, Given, Allocated, Known, RowsKnown
<1>2. m \in ip[addr[q]].tags
  BY <1>1 DEF IpsSound, TagsLive
<1>3. CASE StaticOf[q] = Nobody
  <2>1. Live(q)
    BY <1>1 DEF Live, Freed
  <2>2. QED
    BY <1>1, <1>2, <1>3, <2>1 DEF IpsSound, IpsLive
<1>4. CASE StaticOf[q] # Nobody
  <2>1. addr[q] = StaticOf[q] /\ addr[q] \in StaticIps
    BY <1>1, <1>4, AllocationAssumption DEF Payloads, Addressed, Procs
  <2>2. QED
    BY <1>2, <1>4, <2>1 DEF Known, Uuids
<1>5. QED
  BY <1>3, <1>4

(* The invariant behind the last three theorems.                            *)
Orderly == Sound /\ Owned /\ AsnsHeld /\ Payloads /\ IpsSound

LEMMA IpsSoundStep ==
    ASSUME Orderly, [Next]_vars
    PROVE  IpsSound'
<1>1. FreedOnce' => FreedOnce
  BY Monotone DEF Orderly, Sound, Payloads
<1>2. ASSUME FreedOnce PROVE (StillThere /\ PayloadOwn /\ IpsLive /\ TagsLive)'
  BY <1>2, StillThereStep, PayloadOwnStep, IpsLiveStep, TagsLiveStep DEF Orderly, Sound, IpsSound
<1>3. QED
  BY <1>1, <1>2 DEF IpsSound

LEMMA OrderlyInit == Init => Orderly
<1>1. Init => Owned /\ AsnsHeld
  BY DEF Init, Owned, Listed, Exclusive, Alone, Holding, RollingBack, AsnsHeld, Holder
<1>2. Init => Payloads
  BY DEF Init, Payloads, NotBegun, Addressed, TasksKnown, NoJob
<1>3. Init => IpsSound
  BY AllocationAssumption DEF Init, IpsSound, StillThere, PayloadOwn, IpsLive, Live, TagsLive, NoJob, Procs
<1>4. QED
  BY <1>1, <1>2, <1>3, SoundInit DEF Orderly

LEMMA AlwaysOrderly ==
    ASSUME Unnamed, AnswersArrive
    PROVE  Spec => []Orderly
<1>1. Orderly /\ [Next]_vars => Orderly'
  <2>1. SUFFICES ASSUME Orderly, [Next]_vars PROVE Orderly'
    OBVIOUS
  <2>2. Sound' /\ Owned' /\ AsnsHeld' /\ Payloads'
    BY <2>1, SoundStep, OwnedStep, AsnsHeldStep, PayloadsStep DEF Orderly, Sound
  <2>3. QED
    BY <2>1, <2>2, IpsSoundStep DEF Orderly
<1>2. QED
  BY <1>1, OrderlyInit, PTL DEF Spec

(* OnlyOwnerRemoves: an allocation disappears only by the delete task for   *)
(* it or by the rollback of the request that made it (rollbackOnError,      *)
(* releaseAllocationTask).                                                  *)
THEOREM OwnersRemove ==
    ASSUME Unnamed, AnswersArrive
    PROVE  Spec => OnlyOwnerRemoves
<1>1. Orderly /\ [Next]_vars =>
        \A m \in Machines : Allocated(m) /\ row'[m].alloc = Nobody =>
            \/ Freed(row[m].alloc)
            \/ pc[row[m].alloc] = "rollbackclear"
  <2>1. SUFFICES ASSUME Orderly, [Next]_vars, NEW m \in Machines, Allocated(m), row'[m].alloc = Nobody
                 PROVE  Freed(row[m].alloc) \/ pc[row[m].alloc] = "rollbackclear"
    OBVIOUS
  <2>2. Removes(m)
    BY <2>1, RowChange, AllocationAssumption
       DEF Orderly, Sound, RowChanges, Kept, Reserved, Committed, Allocated, Procs
  <2>3. ASSUME NEW r \in Requests, RollbackClear(r), target[r] = m
        PROVE  pc[row[m].alloc] = "rollbackclear"
    BY <2>1, <2>3 DEF RollbackClear, Goto, Orderly, Owned, Exclusive, OwnAlone
  <2>4. ASSUME NEW d \in Deletes, ReleaseAllocationUpdate(d), job[d].machine = m, Current(d, m)
        PROVE  Freed(row[m].alloc)
    BY <2>1, <2>4 DEF ReleaseAllocationUpdate, Orderly, Sound, JobsCurrent, Freed
  <2>5. QED
    BY <2>2, <2>3, <2>4 DEF Removes
<1>2. QED
  BY <1>1, AlwaysOrderly, PTL DEF Spec, OnlyOwnerRemoves

(* Consistent: machines, their asns and their ips belong together, however  *)
(* the steps of the requests interleave and wherever they fail              *)
(* (allocateMachine, makeNetworks, acquireASN, releaseASN).                 *)
THEOREM AlwaysConsistent ==
    ASSUME Unnamed, AnswersArrive
    PROVE  Spec => []Consistent
<1>1. Orderly => Consistent
  BY UniqueAsns, KeepsIp DEF Orderly, Sound, Consistent
<1>2. QED
  BY <1>1, AlwaysOrderly, PTL

(* KeptUntilFreed: a delete task, however often it is tried, takes neither  *)
(* the next allocation of the machine nor its ip, and leaves nothing of the *)
(* one it was made for (machineDeleteHandleFn).                             *)
THEOREM AlwaysKept ==
    ASSUME Unnamed, AnswersArrive
    PROVE  Spec => []KeptUntilFreed
<1>1. Orderly => KeptUntilFreed
  BY KeepsIp DEF Orderly, Sound, JobsDone, Removed, DeletedForGood, KeptUntilFreed
<1>2. QED
  BY <1>1, AlwaysOrderly, PTL

=============================================================================
