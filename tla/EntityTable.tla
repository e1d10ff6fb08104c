---------------------------- MODULE EntityTable ----------------------------
(* What a table of pkg/db/generic promises to the repositories above it,    *)
(* with no timestamps, no requests in flight and no window between the read *)
(* of an entity and its write: an entity is inserted once, an update adds    *)
(* its changes to the CURRENT contents and bumps the generation by one, and  *)
(* only the entities that are written with Upsert may be overwritten blindly.*)
EXTENDS Naturals

CONSTANTS
    Ids,        \* the primary keys of the table
    UpsertIds,  \* the keys whose writers use Upsert instead of Update
    Patches,    \* the changes a writer can make to an entity
    Null        \* no such row

VARIABLE rows   \* rows[id]: Null or the generation and contents of the row

Init == rows = [id \in Ids |-> Null]

Insert(id, p) ==
    /\ rows[id] = Null
    /\ rows' = [rows EXCEPT ![id] = [generation |-> 0, content |-> {p}]]

Modify(id, p) ==
    /\ rows[id] # Null
    /\ rows' = [rows EXCEPT ![id] =
                  [generation |-> rows[id].generation + 1,
                   content    |-> rows[id].content \cup {p}]]

Overwrite(id) ==
    /\ id \in UpsertIds
    /\ rows'[id] \in [generation : Nat, content : SUBSET Patches]
    /\ rows' = [rows EXCEPT ![id] = rows'[id]]

Remove(id) ==
    /\ rows[id] # Null
    /\ rows' = [rows EXCEPT ![id] = Null]

Next ==
    \E id \in Ids :
        \/ \E p \in Patches : Insert(id, p) \/ Modify(id, p)
        \/ Overwrite(id)
        \/ Remove(id)

Spec == Init /\ [][Next]_rows
============================================================================
