# Verification of metal-apiserver

TLA+ models of metal-apiserver, the API server that manages the machines,
networks, ips and switches of a metal-stack installation, and the tenants,
projects and tokens of those who use it. TLC checks the models on small
instances, TLAPS proves all but the liveness properties for every instance.
`PROJECT.json` maps every definition to the lines it models and lists the
components, the runs, the hazards, the theorems and, for every property, an
error in the code that would break it.

    tlc -config MCAllocRace.cfg MCMachineAllocation     # one run
    tlapm MachineAllocationProofs.tla                   # one proof module

## 1. Inventory

Several replicas of the server work on the same stores: RethinkDB (entities,
integer pools, locks, schema version), go-ipam (prefixes and addresses, a
service of its own), a tenant service (tenants, projects, members), valkey (asynq
tasks, allocation and command queues, tokens, invites, certificates, rate
limits) and headscale (vpn). RethinkDB has no transactions: every operation below
is a sequence of single atomic database operations, and any two sequences
interleave, within a replica and between replicas.

| component | state | operations | hard part | correct if | module |
|---|---|---|---|---|---|
| generic storage `pkg/db/generic/storage.go`, `pkg/repository/store.go` | one row per entity with created, changed, generation | Create, Get, Find, List, Update, Upsert, Delete | read and write are two operations; the changed timestamp is the version | an acknowledged update is never overwritten by a writer that did not see it | `Storage` |
| integer pools `integer_pool.go` | free integers, marker | initialize, acquire, release | init restarts, exhaustion, lost answers | no integer is handed out twice, none gets lost | `IntegerPool` |
| shared mutex `shared_mutex.go` | lock documents with expiry | Lock, Unlock, expiration checker | holder outlives its lock, checker on every replica | at most one holder as long as nobody overruns | `SharedMutex` |
| machine allocation `machine-create.go`, `asn.go` | machine rows, asn pool, ips | create, rollback | eight steps over four stores, concurrent requests, rollback of half-made allocations | a machine has one owner, its asn and ips are its own | `MachineAllocation` |
| machine deletion `machine.go` | delete tasks | Decommission, delete task | asynq retries the task at any time, concurrently with new allocations | only what belongs to the deleted allocation is released | `MachineAllocation` |
| provisioning events `pkg/fsm` | event container per machine | SendEvent, container of Register | events repeat, come late or out of order | crash loops are recognised, expected sequences are not crash loops | `ProvisioningEvents` |
| networks `network.go`, `network-validation.go` | network rows, vrf pool, ipam | create, update, delete task | vrf inheritance, retried deletes, check-then-act validations | a vrf has one owner, prefixes do not overlap | `NetworkLifecycle` |
| ips `ip.go`, `ip-validation.go` | ip rows and ipam | create, update, delete task | two stores without a transaction | an address has one owner; both stores agree | `NetworkLifecycle`, `MachineAllocation` |
| switches `switch.go`, `switch-validation.go` | switch rows, status | register, heartbeat, replace, migrate, connect machines, port state, delete | machine connections are spread over two switches | connections stay symmetric, a machine is in the vrf of its allocation and no other | `SwitchConnections` |
| projects, tenants, members `tenant*.go`, `project*.go` | rows of the tenant service | create, delete, membership, login, start of a replica | check-then-act on owners, creations of two writes | a tenant keeps an owner, roles agree wherever they are computed | `Membership` |
| invites `pkg/invite` | two keys in valkey | invite, accept, delete, expiry | stale or doubly used secrets | an invite is used once, by whom its owners see | `Membership` |
| tokens, authorization `token*.go`, `pkg/token`, `pkg/request`, `pkg/auth` | tokens in valkey | create, update, refresh, revoke, authorize | rights are checked at creation and computed again at use, memberships change in between | a token never gives more than its creator has | `Tokens` |
| certificates `pkg/certs` | signing key, public keys, caches | renew, verify | rotation and caches against the life of tokens | a token can be verified as long as it lives | `Tokens` |
| sizes, images, filesystem layouts, size image constraints | rows | CRUD, matching, choice of the newest image | selection among candidates whose catalog changes | the selection is unique and what is in use stays | `Selection`, `Catalog` |
| size reservations, capacity, rack spreading, partitions | reservations, partitions | CRUD, check during allocation, capacity, candidates | in-flight allocations are not counted | reserved machines stay available, machines are spread | `Selection`, `Catalog` |
| machine registration and listing `machine.go` | machine rows | Register, bmc reports, lists | boots of the same machine overlap with allocations | see the modules that own the rows | parts in `ProvisioningEvents`, `SwitchConnections`, `Catalog` |
| queues and bmc commands `pkg/async/queue`, `machine.go` | lists in valkey | Push, Wait | lost receivers, timeouts, late answers | a machine gets its allocation, a command its own answer | |
| rate limiter `pkg/rate-limiter` | counters in valkey | limit | windows, concurrency | never more than the limit per window | |
| schema migration `migrate.go` | version table | Migrate | crash between migration and version | every migration is applied in order | |
| issues `pkg/issues` | none (computed) | evaluation over machines | severity and dependence of issues | | |
| vpn `vpn.go`, headscale | users, keys, nodes in headscale | create key, delete node | node reuse | | |
| audit, health, components, method services, grpc plumbing, cli | none of their own | | | | |

How they interact: the api services call repositories, which validate against
rows and write later through the generic storage; machine allocation takes asns
from an integer pool, addresses from the ips, the partition lock from the shared
mutex and the image, layout and rack from the catalog; the machine's delete task
releases ips (a task of their own) and resets the ports that `SwitchConnections`
describes; the rights of a token are computed from the memberships at the
moment of the request.

## 2. Modules

| module | models | kind |
|---|---|---|
| `EntityTable` | the table of atomic updates that optimistic locking promises | abstract specification |
| `Storage` | generic storage and the get/validate/update cycle of the repository | component |
| `IntegerPool` | integer pools (asn, vrf) | component |
| `SharedMutex` | the lock in the database | component |
| `GenericProofs` | invariants of `Storage`, `IntegerPool` and `SharedMutex`, and that `Storage` implements `EntityTable` | proofs |
| `MachineAllocation`, `MachineAllocationProofs` | creating, rolling back, freeing and re-allocating machines | component that composes row updates, a pool and the lock; proofs |
| `ProvisioningEvents`, `ProvisioningEventsProofs` | the event state machine, SendEvent, the event container of Register, and a machine that sends the events | component, proofs |
| `NetworkLifecycle`, `NetworkLifecycleProofs` | networks and ips over three stores: rows, ipam, vrf pool | component, proofs |
| `SwitchConnections`, `SwitchConnectionsProofs` | leaf switches, their ports and the machines connected to them | component, proofs |
| `Membership`, `MembershipProofs` | tenants, projects, members, invites | component, proofs |
| `Tokens`, `TokensProofs` | tokens, what they permit, the keys that sign them | component, proofs |
| `Selection` | what is computed from the catalog, without any state | operators |
| `Catalog`, `CatalogProofs` | sizes, images, layouts, constraints, reservations, partitions, and the machines that use them | component on top of `Selection`, proofs |
| `MC*` | instances for TLC | |

`MachineAllocation` does not instantiate the three component modules: it uses
what they show (an update succeeds only on a current copy; acquiring from a pool
is atomic; the lock may be lost while its holder works) as single steps.

Definitions whose comment begins with "Mutant" are not part of the
specifications: each is a plausible error in the definition that follows it, and
is used to see that a property notices the error.

The later modules have some conventions in common. A variable `call` or `req` holds the
api calls in progress, a record with the step it is about to make and what it has
read; `Idle` is no call. A scenario of `MC*` says what the stores hold at the start
and which calls the behaviour makes (`ops`, `budget`, `script`: kinds, callers, subjects and
how many), so that a few calls meet in every order. Code without transactions is wrong in
some orders. `mishap` is a history variable: an action adds to it a word for what
has just happened that the code does not handle, at the moment it happens, and a
property that does not survive it says `Unless({...})` with the words it excludes.
So each property says under which races it holds, and section 4 describes what the
words stand for. `MaxMishaps` only stops new calls once more went wrong than that; calls in
progress go on.

### Storage

`table` holds the rows, `clock` the time a replica reads, a request's record the
copy it works with. `Update` compares the stamp of the copy with the one of the
row and writes in one database operation; `SetUpdateMeta` chooses between the
client's and the server's stamp, as the locking strategy of the request says.
`UpsertIds` are the entities written by Upsert, which compares nothing.
`DistinctStamps` says that two writes of a row never carry the same stamp. The
database keeps milliseconds, so this is an assumption about the speed of clients
and not a fact of the code: with two writes in one millisecond a lost update is
possible. What is proved about versions has this assumption in its statement.

### IntegerPool

`pool` is the table of free integers, `info` the marker table. Acquiring deletes
a document, releasing inserts it, so both are atomic. The job that fills the pool
(`init`) may die after each step and be run again. `fills` remembers whether the
range was inserted more than once, which happens when the job dies before it has
written the marker: in that case the code does hand out integers twice, and
`Unique` says so by excluding it.

### SharedMutex

`doc` is the lock document, `ttl` the time until it expires, `timer` the acquire
timeout of a waiting caller, all counted down by `Tick`. `Overrun` lets a holder
keep working after its lock expired.

### MachineAllocation

A request makes one allocation, so its name stands for the allocation uuid. The
program counter `pc[r]` names the next database access of the request. Rows have
no version numbers: `copies` is the set of pairs of a process and a row it read
that nobody has written since, which is exactly what the comparison of the changed
timestamp in `Update` tells apart (see `Storage`). `job[d]` is a decommissioning
and its delete task; the two goroutines of the release phase have a state each.
`hw[m]` is the allocation machine m was last installed for; the bmc command of
the delete task and the push to a new owner act on it. `MayFail` lists the steps
that may fail in an instance: expiry of the partition lock, server crash, an error
while networks are made, a lost answer to the allocating write, a failed push to
the machine, a watch that gives up on the ip or the bmc task.
`AsnFound` is the loop of `releaseAsnTask` as it is written.
Coarser than the code: creating an ip in the ipam and in the database is one step,
and so is the handler of an ip delete task; detaching a static ip reads and writes
in one step. The switch configuration (vrf of the switch port), the vpn node of
firewalls, labels and the ranking of candidates are left out.

### ProvisioningEvents

One machine is enough, for containers of different machines share nothing.
`container` is the stored row; `call[c]` is a call of SendEvent or Register
between two database accesses, with the event and the container it read.
`HandleProvisioningEvent` is the state machine: `Sources` and `SelfSources` are the
table of events, one operator per state does what its `OnTransition` does.
The machine is a second actor: `phase` is the phase of its boot, `Restart`,
`Crash`, `Announce` and `Proceed` move it, `Report`, `SignOfLife` and
`DeliverDelayed` make it send events. `fault` and `irregular` are history:
`fault` says that the machine restarted unannounced or crashed and has not come
up since; `irregular` is not 0 once an event was lost, overwritten by a
concurrent call or entered the history when nobody could know where it was from.
Messages, the last error event and the liveliness are left out (nothing in the
repository ever sets the liveliness to another value than alive). Register looks
for the machine and creates it in one step.

### NetworkLifecycle

`rows` and `ips` are the tables, `prefixes` and `acquired` what the ipam knows, by
namespace, `vrfs` the free vrfs. A `req` goes through validation, vrf, prefix and
row one after the other, as `network.go` and `ip.go` do; any of these steps may
fail, and nothing is undone (`"halfway"`). A `task` is a delivery of a delete task: it
reads the row, releases vrf and prefixes or the address, and deletes the row last; a
worker may die after each step and the task is delivered again (`"again"` when
a second attempt releases what another attempt has begun to release: it may meanwhile
belong to somebody else). An id is
given to one entity only, as uuids are. `"shared"` is the deletion of a network whose vrf a
relative uses, `"reused"` the acquisition of a prefix that a row or a deletion still
carries, `"midway"` a call that makes, changes or takes from a network while it is
deleted or while another call changes it, `"orphaned"` an update of a super network that gives a prefix
away of which children in namespaces have a part. A child names its parent or is made below the super
network of the partition (`Parents`, read twice: validation looks at networks without a project only), asks
for a length per address family or takes the default lengths of the parent (`Wanted`), not shorter than the parent's
`min`, and for one family or for all. Prefixes are nested or disjoint, nothing else is assumed of their lengths.
Below a namespaced super network a child lives in the namespace of its project, where the prefixes of the
parent are made first, one address family after the other; the call fails with the first one the ipam refuses (`ChildPrefix`).
Looking for a free child prefix and taking it are one step, as they are in the ipam. A
behaviour starts with the networks of a scenario, each with an id, a vrf and prefixes of its own,
and with what namespaces still know of networks that are gone (`known`).
Left out: updates of the lengths, the question whether machine allocations use a network that is deleted,
names, labels, nat, announced cidrs and other fields that no prefix, vrf or owner depends on.

### SwitchConnections

`sw[s]` is the row of a switch: its mode, its nics with the vrf and the desired
state of each, and the connections, pairs of a machine and a port. `machine[m]`
are the neighbours the machine has reported and the vrf of its allocation, and two things no row says:
`up`, that this allocation is installed, and `stuck`, the vrfs whose reset was given up. `cable` is
where the machine's cables really lead. A copy is up to date as long as the call still
holds it (`held`; `Put` takes it from all others), which is what the comparison of the
changed timestamp tells. A heartbeat computes nics from one read and writes them with the
version of a second read (`"stale"` when they differ). Registration disconnects the machine from former
switches and writes both new ones; `Migrate` writes the machines and both switches.
A switch reports itself as a whole row (`Reports`): mode and ports; a heartbeat has a state for each port, and an operator
sets the mode to replace and back. The delete task of a machine releases the allocation, sends a bmc
command and waits for it (`WatchForTaskCompletion`), and resets the vrf of the ports; from any of these steps it may
be tried again, or be archived by asynq, and nobody resets the vrf then (`SetVrfFails`). The
installation gives up after some tries too.
`"moved"`: the machine was plugged into other switches, or a registration or a second migration
met a migration, or the hardware stored for a machine is not where it is connected;
`"removed"`: a switch got a machine after its deletion was validated; `"late"`: a machine is
allocated or released while its installation sets the vrf, or a port changes its machine that is or was in a vrf;
`"overtaken"`: a machine is allocated again while the task that freed it has its reset still to do; `"mismatch"`: a registration takes
over a port of another machine, which is looked for on the second switch only;
`"forced"`: an operator deleted a switch with machines; `"left"`: a switch whose ports kept their vrfs
when its machines migrated away gets machines again. Ports are line numbers, to which both
vendors' names are translated before they are compared. Left out: bgp filters, sync
reports, the conversion of nics for the api.

### Membership

The rows of the tenant service (`tenants`, `projects`, `members`), the label of the
provider tenant, and the two keys of an invite in valkey: `acceptable` by secret and
`listed` by group. `RolesOf`, `RoleShown` and `ProjectRole` compute the role of a member as the
member list of a project and the authorization do, in two different pieces of
code. `Owners` is what `checkIfMemberIsLastOwner` looks at. A login and the start of
a replica create a tenant and then its owner (`Join`). `joined` remembers who used
an invite. `"demoted"`: a login or a start of a replica finds a membership of the user in its own tenant
that is not the owner's, and leaves it. That the tenant service refuses a membership of, or in, what does not
exist is taken from it (`CreateRow`): accepting an invite to a tenant does not look.

### Tokens

`store` is a partial function: the rows valkey holds, which go when they expire
(`Tick`) or are revoked. `Permissions` and its helpers are `pkg/request`: method by method
the subjects a token permits, from the roles and permissions in the row and from
`pats`, the memberships of its user at this moment. `ChangeRoles` changes those at
any time. `Create`, `Update`, `Refresh`, `Revoke` and the login validate against the session,
whose rights are computed from its own token, and write later. `Existing` are the projects and tenants an
admin may name. `private`, `until` and `cache` are the
certificates: a key is renewed `RenewBefore` ticks ahead, its public part lives
`CertLife`, and a replica reads public keys again after `CacheLife`. A call asks for the latest key (`Sign`, `Renew`), makes the
token (`Jwt`) and stores it (`Store`), and the clock may go on in between. `raced` marks tokens
that expired or were revoked while they were updated, or expired before they were stored.

### Selection and Catalog

`Selection` has no state: versions and constraints, the most recent image for a
request, the size that fits a hardware and the overlap of sizes, structure and choice
of filesystem layouts, the check of size reservations, capacity, and the racks a machine
is taken from. Loops over a database result are folds over `ReservationLists`, all
orders the database may return. A version is major * 100 + minor * 10 + patch, and a constraint has any of the operators the
code's library knows, or none; hardware is a function from types
and models to amounts. `Catalog` keeps the rows (`table`) and the machines; a call validates
(`Ask`) and writes (`Write`); a table is a function on the ids of its rows. A machine may also be reserved or locked
(`SetState`), and is then not picked. Which partitions have networks is fixed in a scenario (`ops.networks`). An allocation validates the image's feature against the role of the machine, picks a machine under the partition lock and
commits, a registration computes the size first and stores it then. `"stale"`: the write would have been
refused by then; `"unqualified"`: another image was allocated than the one
validated; `"partial"`: a layout update that gives some parts of the row and not others;
`"unchecked"`: a layout created beside one it collides with; `"parallel"`: allocations of the same
size that overlap; `"restocked"`: a machine registered, died, was given back or became available again.

## 3. Runs

Every run passes: TLC explores its instance completely.

| run | bounds | shows |
|---|---|---|
| `storage` | 2 requests, 2 entities (one written by upserts), 3 stamps | optimistic locking makes updates atomic (`NoLostUpdate`, `UpdatesAreBasedOnCurrentRow`), blind upserts stay confined to the upserted entity; refinement of `EntityTable` |
| `mutex` | 3 callers, expiry and timeout 2 ticks | exclusion without overrun; a waiting caller gets the lock or a timeout; a forgotten lock is released |
| `pool` | 2 callers, 3 integers and one outside | uniqueness and conservation, across restarts of the init |
| `alloc_race` | 3 requests (one with a static ip), 2 machines, 2 asns, 1 ephemeral address | no machine is given away twice; no asn and no address is shared (`Consistent`), although the partition lock may expire and the answer of the allocating write may get lost |
| `alloc_delete` | 1 machine, 2 requests, 1 delete task of 2 tries, 1 address | a retried task removes only its own allocation and ips (`OnlyOwnerRemoves`), an ip stays until freed and what is deleted stays deleted (`KeptUntilFreed`); requests and tasks end (`CallsEnd`) |
| `events` | 1 call, 3 clock values, 2 events kept, 4 calls after an irregularity | failed reclaims are seen; alive events do not pile up |
| `events_race` | 2 calls, 2 clock values, 2 events kept, up to the first irregularity | the history stays ordered; the crash loop flag is neither set without a fault nor missing after one |
| `networks` | 2 calls, 2 tasks of 2 tries (one task where lengths are mixed or a namespaced super network is updated), 2 root and 2 child networks, 1 ip, one prefix with halves and a quarter and a foreign one, children of the default and of another length, below a named parent or one found by partition, 1 vrf, 8 scenarios | prefixes, vrfs and addresses have one owner (`NetworksDisjoint`, `VrfExclusive`), rows agree with the ipam (`IpsBacked`), nothing is lost |
| `switches` | 3 switches, 2 machines, 2 ports, 2 calls, 2 vrfs, 10 scenarios with a budget per kind of call | a port has one machine (`PortsSound`), a machine the same ports on two switches or none (`TwoSwitches`), ports are in the vrf of the allocation and vacant ones in none (`VrfsAgree`) |
| `membership` | 3 users, the provider, one other tenant, 2 projects, 1 secret, 2 calls, 4 calls in each of 10 scenarios, up to 7 rows | groups have owners (`HasOwner`), rows and roles agree (`MembersAgree`), invites are used once by whom owners see (`InvitesAgree`), nobody is locked out of its own tenant (`OwnTenantKept`) |
| `tokens` | 2 users, 10 methods, 3 tokens, 3 keys, clock up to 6, lives of 1..3, certificates of 4, renewal 2 ahead, cache of 1, 1 replica, 2 calls, 2 to 4 requests in each of 12 scenarios | tokens stay within the memberships of their users (`TokensSound`) and requests within their session (`RightsBounded`); what was revoked or expired is gone (`Forgotten`); what lives can be verified (`Verifiable`) |
| `catalog` | 2 sizes, 3 image versions, 2 layouts, 2 constraints, 2 reservations, 1 partition, 5 machines of 3 hardwares, 2 calls, 3 or 4 calls in each of 11 scenarios | what is in use stays (`RowsSound`), sizes and layouts are told apart (`OneSize`, `LayoutsSound`), reservations are kept and only allowed images boot (`AllocationAllowed`), reported capacity can be used (`FreeIsAllocatable`), machines are spread (`Balanced`) |

Where a property is a conjunction of named parts, its parts are defined before it with a
comment each. The type invariants of `Storage`, `SharedMutex`, `IntegerPool` and
`ProvisioningEvents` are proved (section 5) and not run separately; those of the other modules
are a part of the first property of their run.

Why the bounds are enough. Two requests and one machine are enough for every race over
one row; three requests for two machines add the case that a freed or shared resource
reaches a third party. Pools are one smaller than what the requests ask for, so that
exhaustion happens. An event is judged by the last stored event and the last event
time alone, so a container of two events shows the state and what trimming does;
two clock values tell "at once" from "after the threshold", three are needed for
two such waits in a row. `events_race` leaves out the waiting phase, as reinstalls
do, and announces restarts by reclaims only, to keep the instance small; `events`
has both. One vrf and one address are exhausted by the first owner, so that every
second acquisition is of something that was released. Three switches are a pair and the one that
machines move or switches migrate to. Three tokens are a session, one made
from it and one made from that; three keys are the one in use, its successor and the next;
tokens may live longer than keys are renewed ahead, as in the code. Five machines in three racks
make ties of racks that are full, half full and empty. Two
concurrent calls are the bound everywhere: each check-then-act in the code is broken by one
other call, and the calls that follow one another in a scenario give the longer histories.

Symmetry is used where the names are interchangeable: requests and tasks (`networks`), calls
(`membership`, `tokens`, `events_race`), calls and vrfs (`switches`), requests that name no ip and
machines (`alloc_race`). None of these runs checks liveness.

Fairness: handlers run to their end and asynq runs every task (weak fairness of
the steps of a request, of a task and of an ip task). Nothing is assumed of
clients, of the machines, of crashes or of failures. In `SharedMutex` the clock
ticks, the acquire timeout fires and the expiration checker runs.
Only `mutex` and `alloc_delete` check liveness. In the later modules every call is a finite
sequence of steps that waits for nobody, so their ending is not worth a property.

Runs that do not look for deadlock say so: the models of requests end when every
request has ended or the scenario's calls are used up, and `ProvisioningEvents`
stops at its bounds.

## 4. Where the code departs from what it says

The properties say what holds and name what they exclude. What they exclude the
models reach, and the code does too; these are the places.

Allocation and locks

- `shared_mutex.go:176`: unlock deletes the document of the key whoever inserted it, so a
  holder that outlives its lock removes that of its successor (`Overrun`).
- `asn.go:74`: `releaseAsnTask` never finds an asn, so none returns to the pool.
- `machine-create.go:305`: the rollback returns early when the machine has no allocation
  yet, and the machine stays preallocated; the ips and the asn of a failed `makeNetworks`
  (`:226`) stay acquired.
- `machine-create.go:317`: of two requests that name the same machine, the second clears the
  allocation of the first in its rollback.
- `machine.go:652`: a second Decommission of an allocation whose ips are released already reads the
  ips by address and releases one that has a new owner by now.
- `machine.go:1818`: a delete task that is retried detaches a static ip from the next
  allocation of the same machine.
- `machine.go:1662`: the bmc command of a delete task that is retried reaches a machine that has been
  allocated again, and so does its vrf reset (see switches).

Networks and ips

- `network.go:268`: when a later store fails, what the earlier ones did is not undone.
- `network-validation.go:396`: two root networks with one prefix are both validated when
  neither has a row yet; the ipam refuses the second, which has taken its vrf by then (`"halfway"`).
- `network.go:268`: of two updates of a network at once the second finds the conflict when it has
  changed the ipam already; a creation or an update while the network is being deleted
  registers prefixes that the task no longer sees, and an ip that is made from an older copy of a
  row outlives its network (`"midway"`).
- Taking a prefix from a super network asks whether ips use it, not whether children in namespaces have a
  part of it; a child of another super network that gets the prefix later overlaps with those children (`"orphaned"`).
- `network.go:661`: a namespace keeps the prefixes that were made in it. Where it knows a part of a new prefix of the parent,
  that prefix can never be made there, and every later request of the project for a child of this parent fails.
- `network.go:89`, `ip.go:389`: a repeated delete task releases the vrf or the address that
  meanwhile has another owner.
- `ip.go:402`: an address in a namespace is released under a name the ipam does not know; "not
  found" is ignored, so it stays acquired (`NothingLost` is about addresses without a namespace).

Switches

- `switch-service.go:115`: a heartbeat writes nics it computed from an older read (`"stale"`).
- Register stores the hardware of a machine before `ConnectMachineWithSwitches` computes its former
  switches, so these stay connected (`"moved"`).
- `switch.go:386`: two machines on one port are looked for on the second switch only, so a machine
  is accepted on a port of the first one that belongs to another machine (`"mismatch"`).
- A machine that changes its ports while it is allocated leaves its vrf on the old ports and has none on
  the new ones (`"late"`).
- `machine.go:1662`: the delete task releases the allocation before it waits for the bmc and resets the vrf. When the command
  fails until asynq archives the task, the machine is free and its ports stay in the vrf of the last
  project (`stuck`), until a later allocation is installed or freed.
- `machine.go:1672`: the reset does not ask whose the machine is by then: when the machine was allocated and installed again
  meanwhile, it takes the ports of the new owner out of their vrf (`"overtaken"`). It never puts a port
  into a wrong vrf.
- `switch.go:592`: the first registration of a switch stores the connections and vrfs its request names, unchecked. Switches
  do not send any, so the models leave them out (`ReportsAssumption`).
- A migration takes the machines of a switch from its connections and changes their stored
  hardware; where both differ, the machine is then known on three switches (`"moved"`).
- `Migrate` writes several rows without undoing any (`"halfway"`), a registration at that
  time connects to the old switch (`"moved"`), and the replacement copies vrfs from a twin read
  outside its own version (`"stale"`).
- `switch.go:1508`: a migration clears the connections of the old switch and leaves the vrfs of its ports; a machine
  that is later plugged in there is in the network of another project until something resets it (`"left"`).
- Deletion is by id after a validation (`"removed"`); the vrf of an allocation is set
  after the allocation has changed (`"late"`).

Tenants, projects and invites

- Two first logins of a user, or two replicas that start, both create the owner's membership, and
  every later look-up fails with "found multiple membership associations" (`"overlap"`).
- `tenant-validation.go:22`: only the caller's own tenant is protected from deletion, not
  that of another user (`"evicted"`).
- Two owners who remove each other both pass the last-owner check (`"raced"`).
- `auth-service.go:405`, `tenant.go:418`, `tenant-service.go:72`: the look-up of an owner is satisfied by any
  membership, so a user who is a viewer of its own tenant never becomes its owner (`"demoted"`).
- Two users who accept an invite at the same time both join (`"overlap"`); a crash between the
  deletion of the invite and the membership loses it, and a crash between a project and its owner's
  membership leaves a project without owner (`"halfway"`).
- InviteDelete in the name of another group deletes one of the two keys (`"strayed"`).
- A project or tenant is deleted while something is created in it (`"stale"`).

Tokens

- Keys are renewed 90 days ahead and tokens may live 365: a token older than that outlives its public
  key, though `RBAC.md:295` says old certificates keep verifying. `Verifiable` is stated for tokens whose life, with the time their
  call took after it had chosen the key (`Span`), is no longer than the renewal time.
- `token-store.go:53`: rows are written without optimistic locking, so an update in flight brings
  back a revoked token, or keeps one beyond its expiry without a time to live; a token that expires during the
  call that makes it is kept in the same way (`raced`).
- `token.go:365`: Refresh compares a token with the memberships of its user and with the permissions of the
  session; a session that names every method of an admin viewer lets a token keep an admin role that
  its user has lost.
- A refreshed user token is an API token without the roles of the user, where `RBAC.md` 8.3 says
  the permissions stay the same.
- The subject "*" is reduced to the memberships of the user only for methods of projects and tenants,
  and only without an admin role: `WithinMembership` and `NoElevation` leave such tokens aside.
- A renewed key is unknown to a replica until its cache expires: its tokens are refused for that time
  (`AcceptedOnceCached`).

Catalog

- Sizes with different identifiers, or with several constraints of a type, count as not
  overlapping although hardware may fit both (`Comparable`).
- `filesystem.go:339`: layouts bounded in the same direction are not compared, a created
  layout is compared with no other, and an update is validated alone and not together with the rest
  of its row (`Opposed`, `"unchecked"`, `"partial"`).
- `filesystem.go:378`: two constraints collide when each accepts the version of the other; "<= 1.2" and
  ">= 1.2.5" both match 1.2.5, but 1.2.5 is the only one of the two versions that either accepts, so such layouts
  are not told apart. It is the same with "!=" and "^": ">= 1.2.1" and "!= 1.2.1" are never told apart
  (`Bounds` leaves all these out).
- The image that is validated may have any classification, the one allocated is the newest supported
  one: the constraint of a size (`sizeimageconstraint.go:17`) was then checked on another image (`"unqualified"`).
- Expiration dates of images are never read (`image.go:20`); placement labels never reach the tags of a machine, so
  that spreading by them has no effect.
- `size-reservation.go:235`: what one project has above its reservation is taken from the
  others', several reservations of a project are not added up, machines being allocated do not
  count, dead ones do (`Orderly`).
- Neither the size of a new image constraint nor the partition of a registering machine is
  looked up.

## 5. Proofs

| theorem | assumption | argument |
|---|---|---|
| `GenericProofs!TypeCorrect`, `StampIsVersion`, `UpdatesNotLost`, `BasedOnCurrentRow`, `Refinement` | distinct stamps, where versions matter | a stamp in a copy that equals the stamp of the row identifies the row's content; then a successful Update is an atomic read-modify-write of `EntityTable`, and every other step maps to an atomic step or to a stutter |
| `GenericProofs!PoolTypeCorrect`, `Uniqueness`, `NoGaps` | none | free, held and lost integers make up the range, and are disjoint as long as the range was inserted once; before it was, nobody holds anything |
| `GenericProofs!LockTypeCorrect`, `Exclusion` | no overrun | the holder in the document is the only caller past Lock |
| `MachineAllocationProofs!TypeCorrect`, `NeverReplaced`, `GoneForGood` | disjoint names | a request in its commit step whose copy is current works on a row without an allocation: the copy was checked when it was made, and any later write would have made it stale |
| `MachineAllocationProofs!OwnersRemove`, `AlwaysConsistent`, `AlwaysKept` | no request names its machine (`Unnamed`), and the answer of the allocating write arrives (`AnswersArrive`) or nothing is deleted | `Orderly`: who has a machine, what a request has acquired and what a task has still to release are told from the program counters, and an ip leaves its machine by its own request's rollback or by a task for that very allocation |
| `ProvisioningEventsProofs!TypeCorrect`, `HistoryOrdered`, `AliveStaysFirst` | none | a call validates a copy that may be outdated, comparing neighbours only; so the invariant says that every container that some call has read is ordered too, and then one comparison with the newest event orders the whole |
| `ProvisioningEventsProofs!NoFalseAlarm`, `CrashLoopsSeen`, `FailedReclaimsSeen` | none | `Regular`: as long as nothing was lost or stored out of order, the state of the container is the announced one, or the one of the phase the machine reported, or one the next phase can come from; then the flag is set exactly for a fault whose first event was stored, and what repeats or comes late leaves it alone |
| `NetworkLifecycleProofs!TypeCorrect`, `AddressesBacked`, `NoneLost`, `VrfsExclusive` | ids, vrfs and prefixes at the start are each network's own; prefixes are nested or disjoint | what a call or a task carries between two stores is counted as belonging to it: a vrf is in the pool, of a row, of a call or about to be given back by one task |
| `NetworkLifecycleProofs!IpsAreBacked` | the same | `Calm`: as long as no word excludes it, the changes and deletions of one network do not overlap and work on current copies; with it the prefix of an address stays in the ipam while a row, an ip or a call needs it |
| `NetworkLifecycleProofs!PrefixesDisjoint` | the same | `Owning`: every prefix in the ipam has one owner: a network, what is left of a change or a deletion of it, or the call that makes a child; what overlaps with a root's prefix is its child's, or its parent is being released; children of one parent lie within its prefixes and apart from each other, whatever length a request asks for, since the ipam gives only what is apart from all it knows |
| `SwitchConnectionsProofs!TypeCorrect`, `PortsAreSound` | finitely many switches and ports; cables at the start lead to the same ports of two switches; switches report neither machines nor vrfs (`ReportsAssumption`) | `PortInv`: the copies that calls hold are as sound as the rows, and the ports a registration found vacant stay so while its copy is up to date |
| `SwitchConnectionsProofs!SamePortsOnTwoSwitches` | the same | `LinkInv`: a machine is linked to two switches or none unless one registration of it is half done; two registrations that cross cannot both finish; the machines of a migration are on one other switch and their stored neighbours are already moved |
| `SwitchConnectionsProofs!VrfsOfSwitches` | the same | `VrfInv`: every row, and the row a migration carries to the new switch, has the ports of a machine in the vrf of its allocation or in none, or a call is about to reset them; a call that sets a vrf and whose copies are current has written every row it has no longer to do, so that the last of them may declare the machine installed; a vrf whose reset was given up is in `stuck` of the machine, and a reset that finds a new allocation (`"overtaken"`) only takes ports out of vrfs; a replacement whose copy of the twin is current repeats the vrfs of the twin |
| `MembershipProofs!InvitesUsedOnce` | ids of projects are not ids of tenants, no secret is the absent one | both keys agree for every secret; a pending acceptance was for the group its invite was made for; a secret that can be accepted was used by nobody, and one that cannot was used once unless two calls held it |
| `MembershipProofs!UsersKeepTheirTenant` | initial membership rows have distinct ids | a pending removal or update knows its row: ids are not given again while a call names one, so the row is the one the validation allowed, which is not the owner of its own tenant, or stays owner |
| `MembershipProofs!EveryGroupOwned`, `MembersSound` | groups have owners at the start | an owner that a pending removal has seen is still there, or another removal of the same group is pending (`raced`); a group without owner has a call that makes it one |
| `TokensProofs!TokensForgotten` | requests ask for positive lives, initial tokens were just made | a pending write is of an id nobody used and has not expired, or keeps the lifetime of a row that is still stored, or its id is in `raced`; so a row that is not in `raced` is stored until it expires and no longer |
| `TokensProofs!TokensAreSound`, `RequestsBounded` | methods are of the kind their tables say, subjects at the start are no wildcards of memberships | subject by subject and method by method, what `Permissions` computes for a validated request is contained in what it computes for the session, and any row's is contained in the memberships |
| `TokensProofs!TokensVerifiable` | keys are renewed within their life (`KeyAssumption`) | a key that signed a token lives `RenewBefore` longer than any moment at which it was chosen; a cache that is older than `CacheLife` was read again |
| `CatalogProofs!SizeUnique` | hardware has parts, amounts are natural numbers | the types of a size that fits are the types the hardware has; two sizes with the same types that do not overlap have disjoint ranges in one of them, and one amount is in one range only |
| `CatalogProofs!RowsStay` | the catalog at the start was accepted, requests are well formed, images and fields are told apart from `None` | a pending call keeps what its validation saw of the request alone (`WriteOK`, `CallOK`); what it saw of the rows is asked again when it writes, and `"stale"` otherwise; the most recent of finitely many images is one of them |
| `CatalogProofs!SizesDistinguish` | the same | the rows of sizes do not overlap pairwise, as long as no write happened that would be refused by then; with `SizeUnique` no hardware fits two of them |
| `CatalogProofs!LayoutsSelect` | the same | an update that leaves out the constraints keeps those of the row, one that leaves out all parts keeps these; bounds from opposite sides that meet accept each other's version; the first raid that could not be built would have been refused |
| `CatalogProofs!ImagesQualified` | the same | the size of a machine that was picked only changes when it registers again |
| `CatalogProofs!FreeIsGiven` | the same; machines and reservations at the start are finitely many | `Counted`: they stay so. What stands against an allocation is added up one reservation after the other in some order (`Standing`) and is at most the sum the capacity subtracts, since every reservation counts there for no less than here |
| `CatalogProofs!AllocationsQualified` | the same | what stands against an allocation without a reservation of its own is at least what others have reserved and not used, each of them being somewhere in the list; so more machines wait than that, and the pick takes one |
| `CatalogProofs!MachinesSpread` | the same and `SpreadScenarios` | `SpreadInv`: machines are spread, and the machine of a pending allocation is in a rack that has the fewest machines of the project among those with a waiting machine. The pick makes this true by its election of racks; it stays true because a pending allocation of another project or partition does not count for it and waiting machines only become fewer; so the commit raises a rack that was lowest by one |

The invariants that are proved are inductive after a strengthening, which each
proof module states before the theorem it is for; a lemma for each action says what it
may change (`...Effect`), so that the later proofs need not open it again. The assumptions on constants
are ASSUMEs of the modules, which TLC evaluates for each instance, except `Unnamed`,
`AnswersArrive`, `DistinctStamps` and the absence of overruns, which are hypotheses of the theorems
that need them. The first two are there because the code is wrong otherwise (section 4,
`machine-create.go:317` and `:305`): the runs of `MachineAllocation` use
them, or a bound, in the same way.

The hypothesis of `MachinesSpread` is `SpreadScenarios`, which TLC evaluates for the run (`MCCatalog!SpreadAssumption`):
machines at the start are spread, and no request carries a tag that the system gives to machines
itself (the rack). With such a tag a request would be placed by tags first (`spreadAcrossRacks`), and
racks would not decide.

Only model-checked is liveness (`CallsEnd`, `LockReturns`, `LockIsReleased`), which is out of reach of the
provers. That some disjuncts of a property are needed (the mishaps it names) is not proved either: section 4 says
where the code meets them.

Where a proof needs the greatest or the first of finitely many things (`CatalogProofs!Greatest`,
`Least`), it takes it from the well-foundedness of strict inclusion, which the library states without
a predicate as parameter. Sums over a set and along a list are handled in the same way: `Counting` is induction over
the natural numbers for a set instead of a predicate, from the well-foundedness of their order, and with it
`SumExists` and `StandingExists` show that the recursive functions by which the community modules define a
sum and a fold have the equation they are written with. `SumOf` says that adding one element adds its value,
whichever the definition chose to begin with.


## 6. Not modelled

`PROJECT.json` lists every component with its status and what is left out of it. Not
modelled are

- the command queue and the wait of a machine for its allocation, schema migration, the rate
  limiter: state machines that are left for later (section 7);
- machine registration besides what it does to event container, switches and size, bmc
  reports and the lists: single reads and writes;
- issues, audit, health, liveness reports, vpn: they report, or pass on to another
  service, and keep no state of their own;
- grpc plumbing, generated code, cli, configuration and wiring of the server, logins with
  identity providers: no state besides what they pass to the modelled parts;
- the library asynq, go-ipam, valkey, RethinkDB and the tenant service themselves: they are modelled as far
  as this code relies on them (delivery at least once, atomic single operations).

The bgp filters of a switch, the sync reports of switches and the cache of the method service
(10 s) are left out too.

Two hazards of modelled components have no property: equal timestamps of two writes
(`storage.go:199`, see `DistinctStamps`), and two requests that name the same static ip, which do
both attach it (`machine-validation.go:203`).

## 7. Plan

1. `CommandQueue`: the redis lists, the wait of a machine for its allocation, bmc
   commands with deterministic ids, timeouts and late answers. Composes with
   `ProvisioningEvents` for the registration of a machine.
2. Schema migration, rate limits.
3. The bgp filters of the switches, whose input are networks and ips.
