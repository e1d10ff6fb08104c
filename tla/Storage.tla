------------------------------ MODULE Storage ------------------------------
(* The generic RethinkDB storage of pkg/db/generic/storage.go together with  *)
(* the read-modify-write cycle that pkg/repository/store.go runs on top of   *)
(* it. RethinkDB executes one document operation atomically; everything      *)
(* between two of them is a window in which other requests, on this or on    *)
(* another replica, may write. The timestamp `changed' is the version of a   *)
(* row. Every write stamps the row with the wall clock of the replica, which *)
(* RethinkDB keeps with millisecond precision.                               *)
EXTENDS Naturals

CONSTANTS
    Ids,             \* primary keys of the table
    UpsertIds,       \* keys written with Upsert (event containers, switch status)
    Requests,        \* API calls running concurrently
    Patches,         \* changes a request can make to an entity
    Stamps,          \* the (finitely many) wall-clock readings
    DistinctStamps,  \* TRUE: no two writes of a row read the same millisecond
    MaxGeneration,   \* bound on the generation of a row
    Null             \* no row, no request, nothing seen

Row == [changed : Stamps, generation : Nat, content : SUBSET Patches]

(* What a request keeps in memory between its read and its write: the entity *)
(* it fetched and changed, the stamp the write will be compared on, and (as  *)
(* history) the contents its caller decided on.                              *)
InFlight == [op : {"update", "upsert", "delete"}, id : Ids,
             changed : Stamps \cup {Null}, generation : Nat,
             content : SUBSET Patches, patch : Patches \cup {Null},
             basis : SUBSET Patches]

ASSUME StorageAssumption ==
    /\ UpsertIds \subseteq Ids
    /\ DistinctStamps \in BOOLEAN
    /\ MaxGeneration \in Nat
    /\ Null \notin Row
    /\ Null \notin [generation : Nat, content : SUBSET Patches]
    /\ Null \notin InFlight
    /\ Null \notin Stamps

VARIABLES
    table,   \* table[id]: the stored document, or Null
    used,    \* used[id]: the stamps the row has carried so far (history)
    acked,   \* acked[id]: changes acknowledged to their writers (history)
    seen,    \* seen[r][id]: the row as the client of r was last shown it
    req      \* req[r]: the request between its read and its write, or Null

vars == <<table, used, acked, seen, req>>

TypeOK ==
    /\ table \in [Ids -> Row \cup {Null}]
    /\ used \in [Ids -> SUBSET Stamps]
    /\ acked \in [Ids -> SUBSET Patches]
    /\ seen \in [Requests -> [Ids -> Row \cup {Null}]]
    /\ req \in [Requests -> InFlight \cup {Null}]

Init ==
    /\ table = [id \in Ids |-> Null]
    /\ used = [id \in Ids |-> {}]
    /\ acked = [id \in Ids |-> {}]
    /\ seen = [r \in Requests |-> [id \in Ids |-> Null]]
    /\ req = [r \in Requests |-> Null]

(* time.Now() at the moment of a write, as RethinkDB stores it.              *)
Now(id, s) == DistinctStamps => s \notin used[id]

WriteRow(id, row) ==
    /\ table' = [table EXCEPT ![id] = row]
    /\ used' = [used EXCEPT ![id] = @ \cup {row.changed}]

(* storage.Create: generation 0, created = changed = now, an insert that     *)
(* fails (and changes nothing) when the id exists.                           *)
Create(id, p, s) ==
    /\ table[id] = Null
    /\ Now(id, s)
    /\ WriteRow(id, [changed |-> s, generation |-> 0, content |-> {p}])
    /\ acked' = [acked EXCEPT ![id] = {p}]
    /\ UNCHANGED <<seen, req>>

(* store.Get as its API client sees it: the client learns the row and the    *)
(* updated_at it may later send back (upserted entities have no such API).   *)
Get(r, id) ==
    /\ req[r] = Null
    /\ id \notin UpsertIds
    /\ table[id] # Null
    /\ seen' = [seen EXCEPT ![r][id] = table[id]]
    /\ UNCHANGED <<table, used, acked, req>>

(* store.Get of a row that does not exist (any more).                        *)
GetNotFound(r, id) ==
    /\ req[r] = Null
    /\ id \notin UpsertIds
    /\ table[id] = Null
    /\ seen' = [seen EXCEPT ![r][id] = Null]
    /\ UNCHANGED <<table, used, acked, req>>

(* Mutant: setUpdateMeta that ignores the stamp the client sent.             *)
SetUpdateMetaFromServer(r, id, strategy) == table[id].changed

(* setUpdateMeta: with the client's locking strategy the write is compared   *)
(* on the stamp the client sent, otherwise on the stamp just fetched.        *)
SetUpdateMeta(r, id, strategy) ==
    IF strategy = "client" THEN seen[r][id].changed ELSE table[id].changed

(* store.Update up to the write: get, scope, validation, setUpdateMeta and   *)
(* the repository's change of the entity in memory.                          *)
UpdateGet(r, id, p, strategy) ==
    /\ req[r] = Null
    /\ id \notin UpsertIds
    /\ table[id] # Null
    /\ strategy = "client" => seen[r][id] # Null
    /\ req' = [req EXCEPT ![r] =
                 [op         |-> "update",
                  id         |-> id,
                  changed    |-> SetUpdateMeta(r, id, strategy),
                  generation |-> table[id].generation,
                  content    |-> table[id].content \cup {p},
                  patch      |-> p,
                  basis      |-> IF strategy = "client" THEN seen[r][id].content
                                 ELSE table[id].content]]
    /\ UNCHANGED <<table, used, acked, seen>>

(* Mutant: a Replace without the comparison of the timestamps.               *)
RowExists(r) == table[req[r].id] # Null

(* The branch of the Replace in storage.Update.                              *)
RowUnmodified(r) ==
    /\ table[req[r].id] # Null
    /\ table[req[r].id].changed = req[r].changed

(* The entity in memory is written with the generation it had plus one.      *)
WriteEntity(r, s) ==
    /\ Now(req[r].id, s)
    /\ req[r].generation < MaxGeneration
    /\ WriteRow(req[r].id, [changed    |-> s,
                            generation |-> req[r].generation + 1,
                            content    |-> req[r].content])
    /\ acked' = [acked EXCEPT ![req[r].id] = @ \cup {req[r].patch}]
    /\ req' = [req EXCEPT ![r] = Null]
    /\ UNCHANGED seen

(* storage.Update: an atomic Replace that only takes place if the row still  *)
(* carries the expected stamp.                                               *)
UpdateReplace(r, s) ==
    /\ req[r] # Null
    /\ req[r].op = "update"
    /\ RowUnmodified(r)
    /\ WriteEntity(r, s)

(* The error of storage.Update: the row is gone or was already modified.     *)
UpdateAborted(r) ==
    /\ req[r] # Null
    /\ req[r].op = "update"
    /\ ~ RowUnmodified(r)
    /\ req' = [req EXCEPT ![r] = Null]
    /\ UNCHANGED <<table, used, acked, seen>>

(* Mutant: Upsert used for an entity that needs optimistic locking.          *)
UpsertFindAnywhere(r, id, p) ==
    /\ req[r] = Null
    /\ table[id] # Null
    /\ req' = [req EXCEPT ![r] =
                 [op         |-> "upsert",
                  id         |-> id,
                  changed    |-> table[id].changed,
                  generation |-> table[id].generation,
                  content    |-> table[id].content \cup {p},
                  patch      |-> p,
                  basis      |-> table[id].content]]
    /\ UNCHANGED <<table, used, acked, seen>>

(* The read before an Upsert: the entity is made up in memory if absent.     *)
UpsertFind(r, id, p) ==
    /\ req[r] = Null
    /\ id \in UpsertIds
    /\ req' = [req EXCEPT ![r] =
                 IF table[id] = Null
                 THEN [op |-> "upsert", id |-> id, changed |-> Null,
                       generation |-> 0, content |-> {p}, patch |-> p,
                       basis |-> {}]
                 ELSE [op         |-> "upsert",
                       id         |-> id,
                       changed    |-> table[id].changed,
                       generation |-> table[id].generation,
                       content    |-> table[id].content \cup {p},
                       patch      |-> p,
                       basis      |-> table[id].content]]
    /\ UNCHANGED <<table, used, acked, seen>>

(* storage.Upsert: replaces whatever is there.                               *)
Upsert(r, s) ==
    /\ req[r] # Null
    /\ req[r].op = "upsert"
    /\ WriteEntity(r, s)

(* store.Delete up to the write: get, scope, validateDelete.                 *)
DeleteGet(r, id) ==
    /\ req[r] = Null
    /\ id \notin UpsertIds
    /\ table[id] # Null
    /\ req' = [req EXCEPT ![r] =
                 [op         |-> "delete",
                  id         |-> id,
                  changed    |-> table[id].changed,
                  generation |-> table[id].generation,
                  content    |-> table[id].content,
                  patch      |-> Null,
                  basis      |-> table[id].content]]
    /\ UNCHANGED <<table, used, acked, seen>>

(* storage.Delete: by primary key, whatever the row's stamp is by now.       *)
Delete(r) ==
    /\ req[r] # Null
    /\ req[r].op = "delete"
    /\ table' = [table EXCEPT ![req[r].id] = Null]
    /\ acked' = [acked EXCEPT ![req[r].id] = {}]
    /\ req' = [req EXCEPT ![r] = Null]
    /\ UNCHANGED <<used, seen>>

(* The caller's context ends, or its replica dies, between the two database  *)
(* operations of a request.                                                  *)
Cancel(r) ==
    /\ req[r] # Null
    /\ req' = [req EXCEPT ![r] = Null]
    /\ UNCHANGED <<table, used, acked, seen>>

Next ==
    \/ \E id \in Ids, p \in Patches, s \in Stamps : Create(id, p, s)
    \/ \E r \in Requests, id \in Ids :
         \/ Get(r, id)
         \/ GetNotFound(r, id)
         \/ DeleteGet(r, id)
         \/ \E p \in Patches :
              \/ UpsertFind(r, id, p)
              \/ \E st \in {"client", "server"} : UpdateGet(r, id, p, st)
    \/ \E r \in Requests, s \in Stamps : UpdateReplace(r, s) \/ Upsert(r, s)
    \/ \E r \in Requests : UpdateAborted(r) \/ Delete(r) \/ Cancel(r)

Spec == Init /\ [][Next]_vars

-----------------------------------------------------------------------------
(* The stamp is a version: when a row still carries the stamp that a pending *)
(* update will compare on, the row is exactly the one the request fetched    *)
(* (and, with the client strategy, the one the client was shown), whatever   *)
(* was written, deleted or recreated in between.                             *)
StampIdentifiesRow ==
    \A r \in Requests :
        req[r] # Null /\ req[r].op = "update" =>
            /\ req[r].id \in Ids \ UpsertIds
            /\ req[r].patch \in Patches
            /\ RowUnmodified(r) =>
                 /\ req[r].generation = table[req[r].id].generation
                 /\ req[r].content = table[req[r].id].content \cup {req[r].patch}
                 /\ req[r].basis = table[req[r].id].content

(* Optimistic locking loses no acknowledged change: storage.Update promises  *)
(* that an entity "already modified by some other process" is refused, so a  *)
(* row holds every change that was acknowledged since it was created.        *)
NoLostUpdate ==
    \A id \in Ids \ UpsertIds :
        table[id] # Null => acked[id] \subseteq table[id].content

(* An update only goes through on top of exactly the contents its caller     *)
(* decided on: what the client had been shown (client strategy) or what the  *)
(* validation of this request looked at (server strategy). The two reads and *)
(* the write involved are separate database operations.                      *)
UpdatesAreBasedOnCurrentRow ==
    [][\A r \in Requests, s \in Stamps :
         UpdateReplace(r, s) => table[req[r].id].content = req[r].basis]_vars

(* The table as its users may think of it: atomic read-modify-write updates  *)
(* of rows that have no stamps.                                              *)
View == [id \in Ids |-> IF table[id] = Null THEN Null
                        ELSE [generation |-> table[id].generation,
                              content    |-> table[id].content]]

Abstract == INSTANCE EntityTable WITH rows <- View

(* The storage implements the abstract table: each successful Update is one  *)
(* atomic modification of the current row that bumps its generation by one.  *)
ImplementsEntityTable == Abstract!Spec
=============================================================================
