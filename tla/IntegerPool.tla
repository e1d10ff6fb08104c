---------------------------- MODULE IntegerPool ----------------------------
(* The pool of unique integers of pkg/db/generic/integer_pool.go, used for   *)
(* VRFs and ASNs: a table with one document per free integer. Acquiring      *)
(* deletes a document, releasing inserts it again; each is one atomic        *)
(* database operation. The table is filled once by `datastore init', which   *)
(* records that in a second table.                                           *)
EXTENDS Naturals

CONSTANTS
    Values,       \* the integers min..max of the pool
    Outside,      \* integers a caller may name that are not in min..max
    Callers       \* who acquires and releases integers

ASSUME PoolAssumption == Values \cap Outside = {}

VARIABLES
    pool,   \* the free integers: the documents of the table
    info,   \* the marker table: "absent" or "initialized"
    init,   \* where the running `datastore init' is
    fills,  \* how often the range was inserted: "none", "once" or "again"
    held,   \* held[c]: the integers caller c was given and has not given back
    lost    \* integers taken out of the table whose taker never learnt of it

poolVars == <<pool, info, init, fills, held, lost>>

PoolTypeOK ==
    /\ pool \subseteq Values
    /\ info \in {"absent", "initialized"}
    /\ init \in {"idle", "insert", "mark"}
    /\ fills \in {"none", "once", "again"}
    /\ held \in [Callers -> SUBSET Values]
    /\ lost \subseteq Values

PoolInit ==
    /\ pool = {}
    /\ info = "absent"
    /\ init = "idle"
    /\ fills = "none"
    /\ held = [c \in Callers |-> {}]
    /\ lost = {}

(* initialize: the marker is read; an initialized pool is left alone.        *)
InitReadInfo ==
    /\ init = "idle"
    /\ init' = IF info = "initialized" THEN "idle" ELSE "insert"
    /\ UNCHANGED <<pool, info, fills, held, lost>>

(* Mutant: makeRange that stops one short of the maximum.                    *)
InitInsertRangeShort ==
    /\ init = "insert"
    /\ pool' = pool \cup (Values \ {CHOOSE v \in Values : TRUE})
    /\ init' = IF pool = {} THEN "mark" ELSE "idle"
    /\ fills' = IF fills = "none" THEN "once" ELSE "again"
    /\ UNCHANGED <<info, held, lost>>

(* The whole range is inserted. Documents that exist are reported as         *)
(* conflicts, which makes initialize fail, but the others are inserted.      *)
InitInsertRange ==
    /\ init = "insert"
    /\ pool' = pool \cup Values
    /\ init' = IF pool = {} THEN "mark" ELSE "idle"
    /\ fills' = IF fills = "none" THEN "once" ELSE "again"
    /\ UNCHANGED <<info, held, lost>>

InitInsertMarker ==
    /\ init = "mark"
    /\ info' = "initialized"
    /\ init' = "idle"
    /\ UNCHANGED <<pool, fills, held, lost>>

(* The init job dies; its next run starts from the beginning.                *)
InitCrash ==
    /\ init # "idle"
    /\ init' = "idle"
    /\ UNCHANGED <<pool, info, fills, held, lost>>

(* Mutant: an acquisition that reads a document instead of deleting it.      *)
GenericAcquireReading(c, v) ==
    /\ v \in pool
    /\ held' = [held EXCEPT ![c] = @ \cup {v}]
    /\ UNCHANGED <<pool, info, init, fills, lost>>

(* genericAcquire: the document is deleted and its old value returned. If    *)
(* nothing was deleted the caller gets an error and nothing changes.         *)
GenericAcquire(c, v) ==
    /\ v \in pool
    /\ pool' = pool \ {v}
    /\ held' = [held EXCEPT ![c] = @ \cup {v}]
    /\ UNCHANGED <<info, init, fills, lost>>

(* AcquireRandomUniqueInteger deletes any one document.                      *)
AcquireRandomUniqueInteger(c) == \E v \in Values : GenericAcquire(c, v)

VerifyRange(v) == v \in Values

AcquireUniqueInteger(c, v) == VerifyRange(v) /\ GenericAcquire(c, v)

(* The delete is executed but its answer does not arrive (the context ends): *)
(* the caller sees an error, and the retry of AcquireRandom takes another.   *)
AcquireAnswerLost(v) ==
    /\ v \in pool
    /\ pool' = pool \ {v}
    /\ lost' = lost \cup {v}
    /\ UNCHANGED <<info, init, fills, held>>

(* A caller gives an integer back only if it was given it: networks and      *)
(* machines release the integers of their own rows, but administrators may   *)
(* have put anything there.                                                  *)
MayRelease(c, v) == v \in held[c] \/ v \in Outside

(* ReleaseUniqueInteger: an insert that replaces.                            *)
ReleaseUniqueInteger(c, v) ==
    /\ MayRelease(c, v)
    /\ VerifyRange(v)
    /\ pool' = pool \cup {v}
    /\ held' = [held EXCEPT ![c] = @ \ {v}]
    /\ UNCHANGED <<info, init, fills, lost>>

PoolNext ==
    \/ InitReadInfo
    \/ InitInsertRange
    \/ InitInsertMarker
    \/ InitCrash
    \/ \E c \in Callers :
         \/ AcquireRandomUniqueInteger(c)
         \/ \E v \in Values \cup Outside :
              AcquireUniqueInteger(c, v) \/ ReleaseUniqueInteger(c, v)
    \/ \E v \in Values : AcquireAnswerLost(v)

PoolSpec == PoolInit /\ [][PoolNext]_poolVars

-----------------------------------------------------------------------------
(* The integers handed out are unique: nobody holds an integer that another  *)
(* caller holds or that is still free. This is what makes a VRF or an ASN    *)
(* belong to one network or machine. It needs that the range was not         *)
(* inserted a second time, which happens when the init dies between its two  *)
(* writes and is run again: `everything can be done atomically' is not true  *)
(* of initialize.                                                            *)
Unique ==
    fills # "again" =>
    /\ \A c \in Callers : held[c] \cap pool = {}
    /\ \A c, d \in Callers : c # d => held[c] \cap held[d] = {}

(* No gaps: once the pool is initialized every integer of the range is free, *)
(* held by a caller, or was lost with the answer to an acquisition.          *)
Conservation ==
    info = "initialized" =>
        Values = pool \cup lost \cup UNION {held[c] : c \in Callers}
=============================================================================
