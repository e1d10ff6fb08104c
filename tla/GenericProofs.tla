---------------------------- MODULE GenericProofs ---------------------------
(* Proofs about the three building blocks of pkg/db/generic: the storage,    *)
(* for every set of ids, requests, patches and stamps, the integer pool and  *)
(* the shared mutex.                                                         *)
(* The inductive invariant of the storage says that a stamp, once used for a *)
(* row, pins the contents of that row for everybody who remembers the stamp. *)
EXTENDS Storage, IntegerPool, SharedMutex, TLAPS

(* Every stamp somebody holds has been recorded as used.                     *)
StampsRecorded ==
    /\ \A id \in Ids : table[id] # Null => table[id].changed \in used[id]
    /\ \A r \in Requests, id \in Ids :
           seen[r][id] # Null => seen[r][id].changed \in used[id]
    /\ \A r \in Requests :
           req[r] # Null /\ req[r].op = "update" => req[r].changed \in used[req[r].id]

(* A client that was shown the current stamp was shown the current row.      *)
SeenIsCurrent ==
    \A r \in Requests, id \in Ids :
        /\ seen[r][id] # Null
        /\ table[id] # Null
        /\ table[id].changed = seen[r][id].changed
        => seen[r][id] = table[id]

(* An upsert or update in flight carries a change of the model,              *)
(* and upserts are confined to the entities that are always upserted.        *)
WritersHavePatch ==
    \A r \in Requests :
        /\ req[r] # Null /\ req[r].op \in {"update", "upsert"} => req[r].patch \in Patches
        /\ req[r] # Null /\ req[r].op = "upsert" => req[r].id \in UpsertIds

IInv == TypeOK /\ StampsRecorded /\ SeenIsCurrent /\ WritersHavePatch
               /\ StampIdentifiesRow /\ NoLostUpdate

LEMMA InitIInv == Init => IInv
BY StorageAssumption DEF Init, IInv, TypeOK, StampsRecorded, SeenIsCurrent,
   WritersHavePatch, StampIdentifiesRow, NoLostUpdate

(* Type correctness is inductive, given the patch that a write in flight     *)
(* carries.                                                                  *)
LEMMA TypeStep == TypeOK /\ WritersHavePatch /\ [Next]_vars => TypeOK'
<1> SUFFICES ASSUME TypeOK, WritersHavePatch, [Next]_vars PROVE TypeOK'
    OBVIOUS
<1>1. ASSUME NEW id \in Ids, NEW p \in Patches, NEW s \in Stamps,
             Create(id, p, s)
      PROVE  TypeOK'
  BY <1>1, StorageAssumption DEF TypeOK, WritersHavePatch, Row, InFlight, Create, WriteRow
<1>2. ASSUME NEW r \in Requests, NEW id \in Ids,
             Get(r, id)
      PROVE  TypeOK'
  BY <1>2, StorageAssumption DEF TypeOK, WritersHavePatch, Row, InFlight, Get
<1>3. ASSUME NEW r \in Requests, NEW id \in Ids,
             GetNotFound(r, id)
      PROVE  TypeOK'
  BY <1>3, StorageAssumption DEF TypeOK, WritersHavePatch, Row, InFlight, GetNotFound
<1>4. ASSUME NEW r \in Requests, NEW id \in Ids,
             DeleteGet(r, id)
      PROVE  TypeOK'
  BY <1>4, StorageAssumption DEF TypeOK, WritersHavePatch, Row, InFlight, DeleteGet
<1>5. ASSUME NEW r \in Requests, NEW id \in Ids, NEW p \in Patches,
             UpsertFind(r, id, p)
      PROVE  TypeOK'
  BY <1>5, StorageAssumption DEF TypeOK, WritersHavePatch, Row, InFlight, UpsertFind
<1>6. ASSUME NEW r \in Requests, NEW id \in Ids, NEW p \in Patches,
             NEW st \in {"client", "server"}, UpdateGet(r, id, p, st)
      PROVE  TypeOK'
  BY <1>6, StorageAssumption DEF TypeOK, WritersHavePatch, Row, InFlight, UpdateGet, SetUpdateMeta
<1>7. ASSUME NEW r \in Requests, NEW s \in Stamps, UpdateReplace(r, s)
      PROVE  TypeOK'
  BY <1>7, StorageAssumption DEF TypeOK, WritersHavePatch, Row, InFlight, UpdateReplace, WriteEntity, WriteRow, RowUnmodified
<1>8. ASSUME NEW r \in Requests, NEW s \in Stamps, Upsert(r, s)
      PROVE  TypeOK'
  BY <1>8, StorageAssumption DEF TypeOK, WritersHavePatch, Row, InFlight, Upsert, WriteEntity, WriteRow
<1>9. ASSUME NEW r \in Requests, UpdateAborted(r) \/ Cancel(r)
      PROVE  TypeOK'
  BY <1>9, StorageAssumption DEF TypeOK, WritersHavePatch, Row, InFlight, UpdateAborted, Cancel
<1>10. ASSUME NEW r \in Requests, Delete(r)
      PROVE  TypeOK'
  BY <1>10, StorageAssumption DEF TypeOK, WritersHavePatch, Row, InFlight, Delete
<1>11. CASE UNCHANGED vars
  BY <1>11, StorageAssumption DEF TypeOK, WritersHavePatch, Row, InFlight, vars
<1> QED BY <1>1, <1>2, <1>3, <1>4, <1>5, <1>6, <1>7, <1>8, <1>9, <1>10, <1>11 DEF Next

LEMMA PatchStep == TypeOK /\ WritersHavePatch /\ [Next]_vars => WritersHavePatch'
<1> SUFFICES ASSUME TypeOK, WritersHavePatch, [Next]_vars PROVE WritersHavePatch'
    OBVIOUS
<1>1. ASSUME NEW id \in Ids, NEW p \in Patches, NEW s \in Stamps,
             Create(id, p, s)
      PROVE  WritersHavePatch'
  BY <1>1, StorageAssumption DEF TypeOK, WritersHavePatch, Create, WriteRow
<1>2. ASSUME NEW r \in Requests, NEW id \in Ids,
             Get(r, id)
      PROVE  WritersHavePatch'
  BY <1>2, StorageAssumption DEF TypeOK, WritersHavePatch, Get
<1>3. ASSUME NEW r \in Requests, NEW id \in Ids,
             GetNotFound(r, id)
      PROVE  WritersHavePatch'
  BY <1>3, StorageAssumption DEF TypeOK, WritersHavePatch, GetNotFound
<1>4. ASSUME NEW r \in Requests, NEW id \in Ids,
             DeleteGet(r, id)
      PROVE  WritersHavePatch'
  BY <1>4, StorageAssumption DEF TypeOK, WritersHavePatch, DeleteGet
<1>5. ASSUME NEW r \in Requests, NEW id \in Ids, NEW p \in Patches,
             UpsertFind(r, id, p)
      PROVE  WritersHavePatch'
  BY <1>5, StorageAssumption DEF TypeOK, WritersHavePatch, UpsertFind
<1>6. ASSUME NEW r \in Requests, NEW id \in Ids, NEW p \in Patches,
             NEW st \in {"client", "server"}, UpdateGet(r, id, p, st)
      PROVE  WritersHavePatch'
  BY <1>6, StorageAssumption DEF TypeOK, WritersHavePatch, UpdateGet, SetUpdateMeta
<1>7. ASSUME NEW r \in Requests, NEW s \in Stamps, UpdateReplace(r, s)
      PROVE  WritersHavePatch'
  BY <1>7, StorageAssumption DEF TypeOK, WritersHavePatch, UpdateReplace, WriteEntity, WriteRow, RowUnmodified
<1>8. ASSUME NEW r \in Requests, NEW s \in Stamps, Upsert(r, s)
      PROVE  WritersHavePatch'
  BY <1>8, StorageAssumption DEF TypeOK, WritersHavePatch, Upsert, WriteEntity, WriteRow
<1>9. ASSUME NEW r \in Requests, UpdateAborted(r) \/ Cancel(r)
      PROVE  WritersHavePatch'
  BY <1>9, StorageAssumption DEF TypeOK, WritersHavePatch, UpdateAborted, Cancel
<1>10. ASSUME NEW r \in Requests, Delete(r)
      PROVE  WritersHavePatch'
  BY <1>10, StorageAssumption DEF TypeOK, WritersHavePatch, Delete
<1>11. CASE UNCHANGED vars
  BY <1>11, StorageAssumption DEF TypeOK, WritersHavePatch, vars
<1> QED BY <1>1, <1>2, <1>3, <1>4, <1>5, <1>6, <1>7, <1>8, <1>9, <1>10, <1>11 DEF Next

(* A stamp that somebody holds stays recorded: used[id] only grows.          *)
LEMMA RecordedStep == TypeOK /\ StampsRecorded /\ [Next]_vars => StampsRecorded'
<1> SUFFICES ASSUME TypeOK, StampsRecorded, [Next]_vars PROVE StampsRecorded'
    OBVIOUS
<1>1. ASSUME NEW id \in Ids, NEW p \in Patches, NEW s \in Stamps,
             Create(id, p, s)
      PROVE  StampsRecorded'
  BY <1>1, StorageAssumption DEF TypeOK, StampsRecorded, Row, InFlight, Create, WriteRow
<1>2. ASSUME NEW r \in Requests, NEW id \in Ids,
             Get(r, id)
      PROVE  StampsRecorded'
  BY <1>2, StorageAssumption DEF TypeOK, StampsRecorded, Row, InFlight, Get
<1>3. ASSUME NEW r \in Requests, NEW id \in Ids,
             GetNotFound(r, id)
      PROVE  StampsRecorded'
  BY <1>3, StorageAssumption DEF TypeOK, StampsRecorded, Row, InFlight, GetNotFound
<1>4. ASSUME NEW r \in Requests, NEW id \in Ids,
             DeleteGet(r, id)
      PROVE  StampsRecorded'
  BY <1>4, StorageAssumption DEF TypeOK, StampsRecorded, Row, InFlight, DeleteGet
<1>5. ASSUME NEW r \in Requests, NEW id \in Ids, NEW p \in Patches,
             UpsertFind(r, id, p)
      PROVE  StampsRecorded'
  BY <1>5, StorageAssumption DEF TypeOK, StampsRecorded, Row, InFlight, UpsertFind
<1>6. ASSUME NEW r \in Requests, NEW id \in Ids, NEW p \in Patches,
             NEW st \in {"client", "server"}, UpdateGet(r, id, p, st)
      PROVE  StampsRecorded'
  BY <1>6, StorageAssumption DEF TypeOK, StampsRecorded, Row, InFlight, UpdateGet, SetUpdateMeta
<1>7. ASSUME NEW r \in Requests, NEW s \in Stamps, UpdateReplace(r, s)
      PROVE  StampsRecorded'
  BY <1>7, StorageAssumption DEF TypeOK, StampsRecorded, Row, InFlight, UpdateReplace, WriteEntity, WriteRow, RowUnmodified
<1>8. ASSUME NEW r \in Requests, NEW s \in Stamps, Upsert(r, s)
      PROVE  StampsRecorded'
  BY <1>8, StorageAssumption DEF TypeOK, StampsRecorded, Row, InFlight, Upsert, WriteEntity, WriteRow
<1>9. ASSUME NEW r \in Requests, UpdateAborted(r) \/ Cancel(r)
      PROVE  StampsRecorded'
  BY <1>9, StorageAssumption DEF TypeOK, StampsRecorded, Row, InFlight, UpdateAborted, Cancel
<1>10. ASSUME NEW r \in Requests, Delete(r)
      PROVE  StampsRecorded'
  BY <1>10, StorageAssumption DEF TypeOK, StampsRecorded, Row, InFlight, Delete
<1>11. CASE UNCHANGED vars
  BY <1>11, StorageAssumption DEF TypeOK, StampsRecorded, Row, InFlight, vars
<1> QED BY <1>1, <1>2, <1>3, <1>4, <1>5, <1>6, <1>7, <1>8, <1>9, <1>10, <1>11 DEF Next

LEMMA SeenStep == DistinctStamps /\ TypeOK /\ StampsRecorded /\ SeenIsCurrent /\ [Next]_vars => SeenIsCurrent'
<1> SUFFICES ASSUME DistinctStamps, TypeOK, StampsRecorded, SeenIsCurrent, [Next]_vars PROVE SeenIsCurrent'
    OBVIOUS
<1>1. ASSUME NEW id \in Ids, NEW p \in Patches, NEW s \in Stamps,
             Create(id, p, s)
      PROVE  SeenIsCurrent'
  BY <1>1, StorageAssumption DEF TypeOK, StampsRecorded, SeenIsCurrent, Row, InFlight, Now, Create, WriteRow
<1>2. ASSUME NEW r \in Requests, NEW id \in Ids,
             Get(r, id)
      PROVE  SeenIsCurrent'
  BY <1>2, StorageAssumption DEF TypeOK, StampsRecorded, SeenIsCurrent, Row, InFlight, Now, Get
<1>3. ASSUME NEW r \in Requests, NEW id \in Ids,
             GetNotFound(r, id)
      PROVE  SeenIsCurrent'
  BY <1>3, StorageAssumption DEF TypeOK, StampsRecorded, SeenIsCurrent, Row, InFlight, Now, GetNotFound
<1>4. ASSUME NEW r \in Requests, NEW id \in Ids,
             DeleteGet(r, id)
      PROVE  SeenIsCurrent'
  BY <1>4, StorageAssumption DEF TypeOK, StampsRecorded, SeenIsCurrent, Row, InFlight, Now, DeleteGet
<1>5. ASSUME NEW r \in Requests, NEW id \in Ids, NEW p \in Patches,
             UpsertFind(r, id, p)
      PROVE  SeenIsCurrent'
  BY <1>5, StorageAssumption DEF TypeOK, StampsRecorded, SeenIsCurrent, Row, InFlight, Now, UpsertFind
<1>6. ASSUME NEW r \in Requests, NEW id \in Ids, NEW p \in Patches,
             NEW st \in {"client", "server"}, UpdateGet(r, id, p, st)
      PROVE  SeenIsCurrent'
  BY <1>6, StorageAssumption DEF TypeOK, StampsRecorded, SeenIsCurrent, Row, InFlight, Now, UpdateGet, SetUpdateMeta
<1>7. ASSUME NEW r \in Requests, NEW s \in Stamps, UpdateReplace(r, s)
      PROVE  SeenIsCurrent'
  BY <1>7, StorageAssumption DEF TypeOK, StampsRecorded, SeenIsCurrent, Row, InFlight, Now, UpdateReplace, WriteEntity, WriteRow, RowUnmodified
<1>8. ASSUME NEW r \in Requests, NEW s \in Stamps, Upsert(r, s)
      PROVE  SeenIsCurrent'
  BY <1>8, StorageAssumption DEF TypeOK, StampsRecorded, SeenIsCurrent, Row, InFlight, Now, Upsert, WriteEntity, WriteRow
<1>9. ASSUME NEW r \in Requests, UpdateAborted(r) \/ Cancel(r)
      PROVE  SeenIsCurrent'
  BY <1>9, StorageAssumption DEF TypeOK, StampsRecorded, SeenIsCurrent, Row, InFlight, Now, UpdateAborted, Cancel
<1>10. ASSUME NEW r \in Requests, Delete(r)
      PROVE  SeenIsCurrent'
  BY <1>10, StorageAssumption DEF TypeOK, StampsRecorded, SeenIsCurrent, Row, InFlight, Now, Delete
<1>11. CASE UNCHANGED vars
  BY <1>11, StorageAssumption DEF TypeOK, StampsRecorded, SeenIsCurrent, Row, InFlight, Now, vars
<1> QED BY <1>1, <1>2, <1>3, <1>4, <1>5, <1>6, <1>7, <1>8, <1>9, <1>10, <1>11 DEF Next

(* A row that changes gets a stamp nobody holds, so a pending update that    *)
(* holds the current stamp has seen the current row.                         *)
LEMMA PinStep == DistinctStamps /\ TypeOK /\ StampsRecorded /\ SeenIsCurrent /\ StampIdentifiesRow /\ [Next]_vars => StampIdentifiesRow'
<1> SUFFICES ASSUME DistinctStamps, TypeOK, StampsRecorded, SeenIsCurrent,
                 StampIdentifiesRow, [Next]_vars PROVE StampIdentifiesRow'
    OBVIOUS
<1>1. ASSUME NEW id \in Ids, NEW p \in Patches, NEW s \in Stamps,
             Create(id, p, s)
      PROVE  StampIdentifiesRow'
  <2> SUFFICES ASSUME NEW q \in Requests, req'[q] # Null, req'[q].op = "update"
               PROVE  /\ req'[q].id \in Ids \ UpsertIds
                      /\ req'[q].patch \in Patches
                      /\ RowUnmodified(q)' =>
                           /\ req'[q].generation = table'[req'[q].id].generation
                           /\ req'[q].content = table'[req'[q].id].content \cup {req'[q].patch}
                           /\ req'[q].basis = table'[req'[q].id].content
      BY DEF StampIdentifiesRow
  <2>1. req' = req /\ req[q].id \in Ids \ UpsertIds /\ req[q].patch \in Patches
    BY <1>1 DEF Create, StampIdentifiesRow
  <2>2. CASE req[q].id = id
    <3>1. table'[id].changed = s /\ s \notin used[id] /\ s # Null
      BY <1>1, StorageAssumption DEF Create, WriteRow, Now, TypeOK
    <3>2. req[q].changed \in used[id]
      BY <2>1, <2>2 DEF StampsRecorded
    <3>3. ~ RowUnmodified(q)'
      BY <2>1, <2>2, <3>1, <3>2 DEF RowUnmodified
    <3> QED BY <2>1, <3>3
  <2>3. CASE req[q].id # id
    <3>1. table'[req[q].id] = table[req[q].id]
      BY <1>1, <2>1, <2>3 DEF Create, WriteRow, TypeOK
    <3> QED BY <2>1, <3>1 DEF StampIdentifiesRow, RowUnmodified
  <2> QED BY <2>2, <2>3
<1>2. ASSUME NEW r \in Requests, NEW id \in Ids,
             Get(r, id)
      PROVE  StampIdentifiesRow'
  BY <1>2, StorageAssumption DEF TypeOK, StampsRecorded, SeenIsCurrent,
     StampIdentifiesRow, RowUnmodified, Row, InFlight, Now, Get
<1>3. ASSUME NEW r \in Requests, NEW id \in Ids,
             GetNotFound(r, id)
      PROVE  StampIdentifiesRow'
  BY <1>3, StorageAssumption DEF TypeOK, StampsRecorded, SeenIsCurrent,
     StampIdentifiesRow, RowUnmodified, Row, InFlight, Now, GetNotFound
<1>4. ASSUME NEW r \in Requests, NEW id \in Ids,
             DeleteGet(r, id)
      PROVE  StampIdentifiesRow'
  BY <1>4, StorageAssumption DEF TypeOK, StampsRecorded, SeenIsCurrent,
     StampIdentifiesRow, RowUnmodified, Row, InFlight, Now, DeleteGet
<1>5. ASSUME NEW r \in Requests, NEW id \in Ids, NEW p \in Patches,
             UpsertFind(r, id, p)
      PROVE  StampIdentifiesRow'
  BY <1>5, StorageAssumption DEF TypeOK, StampsRecorded, SeenIsCurrent,
     StampIdentifiesRow, RowUnmodified, Row, InFlight, Now, UpsertFind
<1>6. ASSUME NEW r \in Requests, NEW id \in Ids, NEW p \in Patches,
             NEW st \in {"client", "server"}, UpdateGet(r, id, p, st)
      PROVE  StampIdentifiesRow'
  <2>1. /\ req[r] = Null /\ id \in Ids \ UpsertIds /\ table[id] # Null
        /\ table' = table
        /\ \A q \in Requests : q # r => req'[q] = req[q]
    BY <1>6 DEF UpdateGet, TypeOK
  <2>2. /\ req'[r].id = id /\ req'[r].patch = p
        /\ req'[r].generation = table[id].generation
        /\ req'[r].content = table[id].content \cup {p}
        /\ req'[r].changed = SetUpdateMeta(r, id, st)
        /\ req'[r].basis = IF st = "client" THEN seen[r][id].content
                           ELSE table[id].content
    BY <1>6 DEF UpdateGet, TypeOK
  <2>3. RowUnmodified(r)' => req'[r].basis = table[id].content
    BY <1>6, <2>1, <2>2 DEF UpdateGet, SetUpdateMeta, RowUnmodified, SeenIsCurrent
  <2> QED BY <2>1, <2>2, <2>3 DEF StampIdentifiesRow, RowUnmodified
<1>7. ASSUME NEW r \in Requests, NEW s \in Stamps, UpdateReplace(r, s)
      PROVE  StampIdentifiesRow'
  BY <1>7, StorageAssumption DEF TypeOK, StampsRecorded, SeenIsCurrent,
     StampIdentifiesRow, RowUnmodified, Row, InFlight, Now, UpdateReplace, WriteEntity, WriteRow, RowUnmodified
<1>8. ASSUME NEW r \in Requests, NEW s \in Stamps, Upsert(r, s)
      PROVE  StampIdentifiesRow'
  BY <1>8, StorageAssumption DEF TypeOK, StampsRecorded, SeenIsCurrent,
     StampIdentifiesRow, RowUnmodified, Row, InFlight, Now, Upsert, WriteEntity, WriteRow
<1>9. ASSUME NEW r \in Requests, UpdateAborted(r) \/ Cancel(r)
      PROVE  StampIdentifiesRow'
  BY <1>9, StorageAssumption DEF TypeOK, StampsRecorded, SeenIsCurrent,
     StampIdentifiesRow, RowUnmodified, Row, InFlight, Now, UpdateAborted, Cancel
<1>10. ASSUME NEW r \in Requests, Delete(r)
      PROVE  StampIdentifiesRow'
  BY <1>10, StorageAssumption DEF TypeOK, StampsRecorded, SeenIsCurrent,
     StampIdentifiesRow, RowUnmodified, Row, InFlight, Now, Delete
<1>11. CASE UNCHANGED vars
  BY <1>11, StorageAssumption DEF TypeOK, StampsRecorded, SeenIsCurrent,
     StampIdentifiesRow, RowUnmodified, Row, InFlight, Now, vars
<1> QED BY <1>1, <1>2, <1>3, <1>4, <1>5, <1>6, <1>7, <1>8, <1>9, <1>10, <1>11 DEF Next

LEMMA KeptStep == TypeOK /\ WritersHavePatch /\ StampIdentifiesRow /\ NoLostUpdate /\ [Next]_vars => NoLostUpdate'
<1> SUFFICES ASSUME TypeOK, WritersHavePatch, StampIdentifiesRow,
                 NoLostUpdate, [Next]_vars PROVE NoLostUpdate'
    OBVIOUS
<1>1. ASSUME NEW id \in Ids, NEW p \in Patches, NEW s \in Stamps,
             Create(id, p, s)
      PROVE  NoLostUpdate'
  BY <1>1, StorageAssumption DEF TypeOK, WritersHavePatch,
      StampIdentifiesRow, NoLostUpdate, RowUnmodified,
     Row, InFlight, Create, WriteRow
<1>2. ASSUME NEW r \in Requests, NEW id \in Ids,
             Get(r, id)
      PROVE  NoLostUpdate'
  BY <1>2, StorageAssumption DEF TypeOK, WritersHavePatch,
      StampIdentifiesRow, NoLostUpdate, RowUnmodified,
     Row, InFlight, Get
<1>3. ASSUME NEW r \in Requests, NEW id \in Ids,
             GetNotFound(r, id)
      PROVE  NoLostUpdate'
  BY <1>3, StorageAssumption DEF TypeOK, WritersHavePatch,
      StampIdentifiesRow, NoLostUpdate, RowUnmodified,
     Row, InFlight, GetNotFound
<1>4. ASSUME NEW r \in Requests, NEW id \in Ids,
             DeleteGet(r, id)
      PROVE  NoLostUpdate'
  BY <1>4, StorageAssumption DEF TypeOK, WritersHavePatch,
      StampIdentifiesRow, NoLostUpdate, RowUnmodified,
     Row, InFlight, DeleteGet
<1>5. ASSUME NEW r \in Requests, NEW id \in Ids, NEW p \in Patches,
             UpsertFind(r, id, p)
      PROVE  NoLostUpdate'
  BY <1>5, StorageAssumption DEF TypeOK, WritersHavePatch,
      StampIdentifiesRow, NoLostUpdate, RowUnmodified,
     Row, InFlight, UpsertFind
<1>6. ASSUME NEW r \in Requests, NEW id \in Ids, NEW p \in Patches,
             NEW st \in {"client", "server"}, UpdateGet(r, id, p, st)
      PROVE  NoLostUpdate'
  BY <1>6, StorageAssumption DEF TypeOK, WritersHavePatch,
      StampIdentifiesRow, NoLostUpdate, RowUnmodified,
     Row, InFlight, UpdateGet, SetUpdateMeta
<1>7. ASSUME NEW r \in Requests, NEW s \in Stamps, UpdateReplace(r, s)
      PROVE  NoLostUpdate'
  BY <1>7, StorageAssumption DEF TypeOK, WritersHavePatch,
      StampIdentifiesRow, NoLostUpdate, RowUnmodified,
     Row, InFlight, UpdateReplace, WriteEntity, WriteRow, RowUnmodified
<1>8. ASSUME NEW r \in Requests, NEW s \in Stamps, Upsert(r, s)
      PROVE  NoLostUpdate'
  BY <1>8, StorageAssumption DEF TypeOK, WritersHavePatch,
      StampIdentifiesRow, NoLostUpdate, RowUnmodified,
     Row, InFlight, Upsert, WriteEntity, WriteRow
<1>9. ASSUME NEW r \in Requests, UpdateAborted(r) \/ Cancel(r)
      PROVE  NoLostUpdate'
  BY <1>9, StorageAssumption DEF TypeOK, WritersHavePatch,
      StampIdentifiesRow, NoLostUpdate, RowUnmodified,
     Row, InFlight, UpdateAborted, Cancel
<1>10. ASSUME NEW r \in Requests, Delete(r)
      PROVE  NoLostUpdate'
  BY <1>10, StorageAssumption DEF TypeOK, WritersHavePatch,
      StampIdentifiesRow, NoLostUpdate, RowUnmodified,
     Row, InFlight, Delete
<1>11. CASE UNCHANGED vars
  BY <1>11, StorageAssumption DEF TypeOK, WritersHavePatch,
      StampIdentifiesRow, NoLostUpdate, RowUnmodified,
     Row, InFlight, vars
<1> QED BY <1>1, <1>2, <1>3, <1>4, <1>5, <1>6, <1>7, <1>8, <1>9, <1>10, <1>11 DEF Next

(* Type correctness of the storage, with or without distinct stamps: no row, *)
(* no answer and no request in flight ever loses its shape, in particular no *)
(* stored row is without the timestamp that storage.Update needs.            *)
THEOREM TypeCorrect == Spec => []TypeOK
<1>1. Init => TypeOK /\ WritersHavePatch
  BY InitIInv DEF IInv
<1>2. (TypeOK /\ WritersHavePatch) /\ [Next]_vars => (TypeOK /\ WritersHavePatch)'
  BY TypeStep, PatchStep
<1> QED BY <1>1, <1>2, PTL DEF Spec

(* The invariant is inductive when no two writes of a row share a stamp.     *)
LEMMA Inductive == ASSUME DistinctStamps PROVE Spec => []IInv
<1>1. IInv /\ [Next]_vars => IInv'
  BY TypeStep, PatchStep, RecordedStep, SeenStep, PinStep, KeptStep DEF IInv
<1> QED BY InitIInv, <1>1, PTL DEF Spec

(* No acknowledged change of an entity under optimistic locking is ever lost *)
(* by another request's storage.Update, as long as the millisecond stamps of *)
(* one row differ.                                                           *)
THEOREM UpdatesNotLost == ASSUME DistinctStamps PROVE Spec => []NoLostUpdate
<1>1. IInv => NoLostUpdate
  BY DEF IInv
<1> QED BY Inductive, <1>1, PTL

(* A row with the expected stamp is the row the request fetched.             *)
THEOREM StampIsVersion == ASSUME DistinctStamps PROVE Spec => []StampIdentifiesRow
<1>1. IInv => StampIdentifiesRow
  BY DEF IInv
<1> QED BY Inductive, <1>1, PTL

(* Both locking strategies of store.Update write on top of exactly the       *)
(* contents their caller decided on.                                         *)
THEOREM BasedOnCurrentRow ==
  ASSUME DistinctStamps PROVE Spec => UpdatesAreBasedOnCurrentRow
<1> DEFINE Good == \A r \in Requests, s \in Stamps :
                     UpdateReplace(r, s) => table[req[r].id].content = req[r].basis
<1>1. IInv /\ [Next]_vars => [Good]_vars
  <2>1. IInv => Good
    BY DEF IInv, StampIdentifiesRow, UpdateReplace
  <2> QED BY <2>1
<1> HIDE DEF Good
<1>2. Spec => [][Good]_vars
  BY Inductive, <1>1, PTL DEF Spec
<1> QED BY <1>2 DEF Good, UpdatesAreBasedOnCurrentRow

-----------------------------------------------------------------------------
LEMMA InitRefines == Init => Abstract!Init
BY DEF Init, Abstract!Init, View

(* Writing one row changes the view of that row only.                        *)
LEMMA ViewOfRow ==
  ASSUME NEW id \in Ids, table[id] # Null
  PROVE  View[id] = [generation |-> table[id].generation,
                     content    |-> table[id].content]
BY DEF View

LEMMA ViewOfWrite ==
  ASSUME TypeOK, NEW id \in Ids, NEW row \in Row,
         table' = [table EXCEPT ![id] = row]
  PROVE  View' = [View EXCEPT ![id] = [generation |-> row.generation,
                                       content    |-> row.content]]
<1> DEFINE New == [generation |-> row.generation, content |-> row.content]
<1>1. row # Null
  BY StorageAssumption
<1>2. \A i \in Ids : table'[i] = IF i = id THEN row ELSE table[i]
  BY DEF TypeOK
<1>3. \A i \in Ids : View'[i] = IF i = id THEN New ELSE View[i]
  BY <1>1, <1>2 DEF View
<1> HIDE DEF New
<1>4. View = [i \in Ids |-> View[i]] /\ View' = [i \in Ids |-> View'[i]]
  BY DEF View
<1>5. View' = [View EXCEPT ![id] = New]
  BY <1>3, <1>4
<1> QED BY <1>5 DEF New

LEMMA ViewOfDelete ==
  ASSUME TypeOK, NEW id \in Ids, table' = [table EXCEPT ![id] = Null]
  PROVE  View' = [View EXCEPT ![id] = Null]
<1>1. \A i \in Ids : table'[i] = IF i = id THEN Null ELSE table[i]
  BY DEF TypeOK
<1>2. \A i \in Ids : View'[i] = IF i = id THEN Null ELSE View[i]
  BY <1>1 DEF View
<1>3. View = [i \in Ids |-> View[i]] /\ View' = [i \in Ids |-> View'[i]]
  BY DEF View
<1> QED BY <1>2, <1>3

(* Every step of the storage is a step of the atomic table or leaves its     *)
(* view alone; only for the write of an update the invariant is needed.      *)
LEMMA StepRefines == IInv /\ [Next]_vars => [Abstract!Next]_View
<1> SUFFICES ASSUME IInv, [Next]_vars PROVE [Abstract!Next]_View
    OBVIOUS
<1> USE DEF IInv
<1>1. ASSUME NEW id \in Ids, NEW p \in Patches, NEW s \in Stamps,
             Create(id, p, s)
      PROVE  Abstract!Next
  <2> DEFINE row == [changed |-> s, generation |-> 0, content |-> {p}]
  <2>1. row \in Row /\ table[id] = Null /\ table' = [table EXCEPT ![id] = row]
    BY <1>1 DEF Create, WriteRow, Row
  <2>2. View' = [View EXCEPT ![id] = [generation |-> 0, content |-> {p}]]
    BY <2>1, ViewOfWrite
  <2>3. View[id] = Null
    BY <2>1 DEF View
  <2>4. Abstract!Insert(id, p)
    BY <2>2, <2>3 DEF Abstract!Insert
  <2> QED BY <2>4 DEF Abstract!Next
<1>2. ASSUME NEW r \in Requests, NEW s \in Stamps, UpdateReplace(r, s)
      PROVE  Abstract!Next
  <2> DEFINE id  == req[r].id
             p   == req[r].patch
             row == [changed |-> s, generation |-> table[id].generation + 1,
                     content |-> table[id].content \cup {p}]
  <2>1. id \in Ids /\ p \in Patches /\ table[id] # Null
        /\ req[r].generation = table[id].generation
        /\ req[r].content = table[id].content \cup {p}
    BY <1>2 DEF UpdateReplace, StampIdentifiesRow, RowUnmodified
  <2>2. row \in Row
    BY <2>1 DEF TypeOK, Row
  <2>3. table' = [table EXCEPT ![id] = row]
    BY <1>2, <2>1 DEF UpdateReplace, WriteEntity, WriteRow
  <2>4. View' = [View EXCEPT ![id] = [generation |-> row.generation,
                                      content    |-> row.content]]
    <3> HIDE DEF id, p, row
    <3> QED BY <2>1, <2>2, <2>3, ViewOfWrite
  <2>5. View[id] = [generation |-> table[id].generation,
                    content    |-> table[id].content]
    BY <2>1, ViewOfRow
  <2>6. View[id] # Null
    BY <2>1, <2>5, StorageAssumption DEF TypeOK, Row
  <2>7. Abstract!Modify(id, p)
    <3> HIDE DEF id, p
    <3> QED BY <2>4, <2>5, <2>6 DEF Abstract!Modify
  <2> QED BY <2>1, <2>7 DEF Abstract!Next
<1>3. ASSUME NEW r \in Requests, NEW s \in Stamps, Upsert(r, s)
      PROVE  Abstract!Next
  <2> DEFINE id  == req[r].id
             new == [generation |-> req[r].generation + 1, content |-> req[r].content]
             row == [changed |-> s, generation |-> req[r].generation + 1,
                     content |-> req[r].content]
  <2>1. id \in UpsertIds /\ id \in Ids /\ row \in Row
        /\ new \in [generation : Nat, content : SUBSET Patches]
    BY <1>3, StorageAssumption DEF Upsert, WritersHavePatch, InFlight, TypeOK, Row
  <2>2. table' = [table EXCEPT ![id] = row]
    BY <1>3 DEF Upsert, WriteEntity, WriteRow
  <2>3. View' = [View EXCEPT ![id] = new]
    <3> HIDE DEF id, row
    <3>1. View' = [View EXCEPT ![id] = [generation |-> row.generation,
                                        content    |-> row.content]]
      BY <2>1, <2>2, ViewOfWrite
    <3> QED BY <3>1 DEF row
  <2>4. View'[id] = new
    BY <2>1, <2>3 DEF View
  <2>5. Abstract!Overwrite(id)
    <3> HIDE DEF id, new
    <3> QED BY <2>1, <2>3, <2>4 DEF Abstract!Overwrite
  <2> QED BY <2>1, <2>5 DEF Abstract!Next
<1>4. ASSUME NEW r \in Requests, Delete(r)
      PROVE  [Abstract!Next]_View
  <2> DEFINE id == req[r].id
  <2>1. id \in Ids /\ table' = [table EXCEPT ![id] = Null]
    BY <1>4 DEF Delete, InFlight, TypeOK
  <2> HIDE DEF id
  <2>2. View' = [View EXCEPT ![id] = Null]
    BY <2>1, ViewOfDelete
  <2>3. CASE View[id] = Null
    <3>1. View = [i \in Ids |-> View[i]]
      BY DEF View
    <3> QED BY <2>1, <2>2, <2>3, <3>1
  <2>4. CASE View[id] # Null
    <3>1. Abstract!Remove(id)
      BY <2>2, <2>4 DEF Abstract!Remove
    <3> QED BY <2>1, <3>1 DEF Abstract!Next
  <2> QED BY <2>3, <2>4
<1>5. ASSUME UNCHANGED table
      PROVE  UNCHANGED View
  BY <1>5 DEF View
<1>6. ASSUME NEW r \in Requests, NEW id \in Ids,
             \/ Get(r, id) \/ GetNotFound(r, id) \/ DeleteGet(r, id)
             \/ \E p \in Patches :
                  \/ UpsertFind(r, id, p)
                  \/ \E st \in {"client", "server"} : UpdateGet(r, id, p, st)
      PROVE  UNCHANGED table
  BY <1>6 DEF Get, GetNotFound, DeleteGet, UpsertFind, UpdateGet
<1>7. ASSUME NEW r \in Requests, UpdateAborted(r) \/ Cancel(r)
      PROVE  UNCHANGED table
  BY <1>7 DEF UpdateAborted, Cancel
<1>8. CASE UNCHANGED vars
  BY <1>5, <1>8 DEF vars
<1> QED BY <1>1, <1>2, <1>3, <1>4, <1>5, <1>6, <1>7, <1>8 DEF Next

(* The storage implements the table of atomic updates.                       *)
THEOREM Refinement == ASSUME DistinctStamps PROVE Spec => ImplementsEntityTable
<1> QED BY Inductive, InitRefines, StepRefines, PTL
        DEF Spec, ImplementsEntityTable, Abstract!Spec
-----------------------------------------------------------------------------
(* The integer pool of the same package, for any range and any callers. The  *)
(* invariant adds what makes the one-time fill harmless: as long as the      *)
(* marker is missing and the fill is still to come, nothing has been handed  *)
(* out.                                                                      *)

(* An init only fills the pool while the marker is absent.                   *)
FillsUnmarked == init \in {"insert", "mark"} => info = "absent"

(* Before the first fill there is nothing to acquire, so nobody holds        *)
(* anything and nothing was lost.                                            *)
NothingBeforeFill ==
    fills = "none" =>
        /\ info = "absent" /\ init # "mark"
        /\ pool = {} /\ lost = {}
        /\ \A c \in Callers : held[c] = {}

(* Once filled, every integer is accounted for.                              *)
Accounted ==
    info = "initialized" \/ init = "mark" =>
        \A v \in Values : v \in pool \/ v \in lost \/ \E c \in Callers : v \in held[c]

PoolInv == PoolTypeOK /\ FillsUnmarked /\ NothingBeforeFill /\ Accounted /\ Unique

(* Type correctness: only integers of the configured range ever enter the    *)
(* pool, whatever is acquired, released or re-initialized.                   *)
THEOREM PoolTypeCorrect == PoolSpec => []PoolTypeOK
<1>1. PoolInit => PoolTypeOK
  BY DEF PoolInit, PoolTypeOK
<1>2. PoolTypeOK /\ [PoolNext]_poolVars => PoolTypeOK'
  BY DEF PoolTypeOK, PoolNext, poolVars, InitReadInfo, InitInsertRange, InitInsertMarker,
     InitCrash, AcquireRandomUniqueInteger, AcquireUniqueInteger, GenericAcquire,
     AcquireAnswerLost, ReleaseUniqueInteger, MayRelease, VerifyRange
<1> QED BY <1>1, <1>2, PTL DEF PoolSpec

LEMMA PoolInvInit == PoolInit => PoolInv
BY DEF PoolInit, PoolInv, PoolTypeOK, FillsUnmarked, NothingBeforeFill, Accounted, Unique

LEMMA PoolInvStep == PoolTypeOK' /\ PoolInv /\ [PoolNext]_poolVars => PoolInv'
<1> SUFFICES ASSUME PoolTypeOK', PoolInv, [PoolNext]_poolVars PROVE PoolInv'
    OBVIOUS
<1> USE DEF PoolInv, PoolTypeOK, FillsUnmarked, NothingBeforeFill, Accounted, Unique
<1>1. CASE InitReadInfo
  BY <1>1 DEF InitReadInfo
<1>2. CASE InitInsertRange
  BY <1>2 DEF InitInsertRange
<1>3. CASE InitInsertMarker
  BY <1>3 DEF InitInsertMarker
<1>4. ASSUME NEW c \in Callers, NEW v \in Values, GenericAcquire(c, v) PROVE PoolInv'
  BY <1>4 DEF GenericAcquire
<1>5. ASSUME NEW v \in Values, AcquireAnswerLost(v) PROVE PoolInv'
  BY <1>5 DEF AcquireAnswerLost
<1>6. ASSUME NEW c \in Callers, NEW v \in Values \cup Outside,
             ReleaseUniqueInteger(c, v) PROVE PoolInv'
  BY <1>6, PoolAssumption DEF ReleaseUniqueInteger, MayRelease, VerifyRange
<1>7. CASE UNCHANGED poolVars
  BY <1>7 DEF poolVars
<1>8. CASE InitCrash
  BY <1>8 DEF InitCrash
<1> QED BY <1>1, <1>2, <1>3, <1>4, <1>5, <1>6, <1>7, <1>8
        DEF PoolNext, AcquireRandomUniqueInteger, AcquireUniqueInteger, VerifyRange

(* No integer is handed out twice or while it is free, for any range and any *)
(* number of callers, as long as the range was not inserted a second time.   *)
THEOREM Uniqueness == PoolSpec => []Unique
<1>1. PoolInv => Unique
  BY DEF PoolInv
<1> QED BY PoolTypeCorrect, PoolInvInit, PoolInvStep, <1>1, PTL DEF PoolSpec

(* The pool has no gaps other than acquisitions whose answer was lost, even  *)
(* if the init dies at any point and is run again.                           *)
THEOREM NoGaps == PoolSpec => []Conservation
<1>1. PoolInv => Conservation
  BY DEF PoolInv, PoolTypeOK, Accounted, Conservation
<1> QED BY PoolTypeCorrect, PoolInvInit, PoolInvStep, <1>1, PTL DEF PoolSpec

-----------------------------------------------------------------------------
(* The shared mutex of the same package, for any number of callers and any   *)
(* expiration, as long as no critical section outlives its lock. The         *)
(* invariant ties the holder to the document: while somebody is in the       *)
(* critical section the document exists, it is the one that holder inserted  *)
(* (the remaining times agree), and there is no other holder.                *)
HolderOwnsDoc ==
    \A p \in Procs :
        pc[p] = "critical" => Locked /\ left[p] = ttl /\ left[p] >= 0

OneHolder ==
    \A p, q \in Procs : pc[p] = "critical" /\ pc[q] = "critical" => p = q

LockInv == MutexTypeOK /\ HolderOwnsDoc /\ OneHolder

(* Type correctness of the mutex: timers never leave their range, whatever   *)
(* the order of locks, expiries and time-outs.                               *)
THEOREM LockTypeCorrect == MutexSpec => []MutexTypeOK
<1> USE MutexAssumption
<1>1. MutexInit => MutexTypeOK
  BY DEF MutexInit, MutexTypeOK
<1>2. MutexTypeOK /\ [MutexNext]_mutexVars => MutexTypeOK'
  <2> SUFFICES ASSUME MutexTypeOK, [MutexNext]_mutexVars PROVE MutexTypeOK'
      OBVIOUS
  <2> USE DEF MutexTypeOK, Waiting, Locked
  <2>1. ASSUME NEW p \in Procs, Lock(p) PROVE MutexTypeOK'
    BY <2>1 DEF Lock
  <2>2. ASSUME NEW p \in Procs, Insert(p) PROVE MutexTypeOK'
    BY <2>2 DEF Insert, Acquire
  <2>3. ASSUME NEW p \in Procs, Subscribe(p) \/ Change(p) PROVE MutexTypeOK'
    BY <2>3 DEF Subscribe, Change
  <2>4. ASSUME NEW p \in Procs, InsertAgain(p) PROVE MutexTypeOK'
    BY <2>4 DEF InsertAgain, Acquire
  <2>5. ASSUME NEW p \in Procs, Timeout(p) \/ GiveUp(p) PROVE MutexTypeOK'
    BY <2>5 DEF Timeout, GiveUp, LockFails
  <2>6. ASSUME NEW p \in Procs, Unlock(p) PROVE MutexTypeOK'
    BY <2>6 DEF Unlock, DeleteDoc
  <2>7. ASSUME NEW p \in Procs, UnlockFails(p) PROVE MutexTypeOK'
    BY <2>7 DEF UnlockFails
  <2>8. CASE Expire
    BY <2>8 DEF Expire, DeleteDoc
  <2>9. CASE Tick
    BY <2>9 DEF Tick
  <2>10. CASE UNCHANGED mutexVars
    BY <2>10 DEF mutexVars
  <2> QED BY <2>1, <2>2, <2>3, <2>4, <2>5, <2>6, <2>7, <2>8, <2>9, <2>10
          DEF MutexNext, Step
<1> QED BY <1>1, <1>2, PTL DEF MutexSpec

LEMMA LockInvInit == MutexInit => LockInv
BY MutexAssumption DEF MutexInit, LockInv, MutexTypeOK, HolderOwnsDoc, OneHolder

(* Every step keeps the holder tied to the document: an insert needs its     *)
(* absence, so nobody holds; an expiry needs an expired document, so nobody  *)
(* holds either; an unlock is done by the only holder.                       *)
LEMMA OwnershipStep ==
  ASSUME ~ Overrun
  PROVE  LockInv /\ [MutexNext]_mutexVars => HolderOwnsDoc' /\ OneHolder'
<1> SUFFICES ASSUME LockInv, [MutexNext]_mutexVars PROVE HolderOwnsDoc' /\ OneHolder'
    OBVIOUS
<1> USE MutexAssumption DEF LockInv, MutexTypeOK, Waiting, Locked, HolderOwnsDoc, OneHolder
<1>1. ASSUME NEW p \in Procs, Lock(p) PROVE HolderOwnsDoc' /\ OneHolder'
  BY <1>1 DEF Lock
<1>2. ASSUME NEW p \in Procs, Insert(p) PROVE HolderOwnsDoc' /\ OneHolder'
  BY <1>2 DEF Insert, Acquire
<1>3. ASSUME NEW p \in Procs, Subscribe(p) \/ Change(p)
      PROVE  HolderOwnsDoc' /\ OneHolder'
  BY <1>3 DEF Subscribe, Change
<1>4. ASSUME NEW p \in Procs, InsertAgain(p) PROVE HolderOwnsDoc' /\ OneHolder'
  BY <1>4 DEF InsertAgain, Acquire
<1>5. ASSUME NEW p \in Procs, Timeout(p) \/ GiveUp(p)
      PROVE  HolderOwnsDoc' /\ OneHolder'
  BY <1>5 DEF Timeout, GiveUp, LockFails
<1>6. ASSUME NEW p \in Procs, Unlock(p) PROVE HolderOwnsDoc' /\ OneHolder'
  BY <1>6 DEF Unlock, DeleteDoc
<1>7. ASSUME NEW p \in Procs, UnlockFails(p) PROVE HolderOwnsDoc' /\ OneHolder'
  BY <1>7 DEF UnlockFails
<1>8. CASE Expire
  BY <1>8 DEF Expire, IsExpired, DeleteDoc
<1>9. CASE Tick
  BY <1>9 DEF Tick
<1>10. CASE UNCHANGED mutexVars
  BY <1>10 DEF mutexVars
<1> QED BY <1>1, <1>2, <1>3, <1>4, <1>5, <1>6, <1>7, <1>8, <1>9, <1>10
        DEF MutexNext, Step

(* The mutex excludes: no two callers are in their critical sections under   *)
(* unexpired locks, for any number of callers and any timeouts, provided     *)
(* that a caller finishes before its lock expires.                           *)
THEOREM Exclusion ==
  ASSUME ~ Overrun PROVE MutexSpec => []MutualExclusion
<1>1. LockInv => MutualExclusion
  BY DEF LockInv, OneHolder, MutualExclusion
<1>2. MutexTypeOK /\ (HolderOwnsDoc /\ OneHolder) /\ [MutexNext]_mutexVars
        => (HolderOwnsDoc /\ OneHolder)'
  BY OwnershipStep DEF LockInv
<1>3. MutexInit => HolderOwnsDoc /\ OneHolder
  BY LockInvInit DEF LockInv
<1> QED BY LockTypeCorrect, <1>1, <1>2, <1>3, PTL DEF MutexSpec, LockInv
=============================================================================
