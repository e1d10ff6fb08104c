---------------------------- MODULE SharedMutex ----------------------------
(* The mutex of pkg/db/generic/shared_mutex.go for one key: a document that  *)
(* exists while the mutex is locked. It is locked by an insert that fails if *)
(* the document exists, unlocked by deleting the document under that key,    *)
(* and an expiry loop on every replica deletes documents that got too old.   *)
(* A waiter listens to a changefeed of the document. Timers count down with  *)
(* Tick, so the model needs no bound on time itself.                         *)
EXTENDS Integers

CONSTANTS
    Procs,           \* concurrent callers of lock, on any replica
    Expiration,      \* ticks after which the document counts as expired
    AcquireTimeout,  \* ticks a waiter listens for the release
    Overrun,         \* TRUE: a holder may still work after its lock expired
    MaxPending       \* bound on undelivered notifications per changefeed

ASSUME MutexAssumption ==
    /\ Expiration \in Nat
    /\ AcquireTimeout \in Nat
    /\ Overrun \in BOOLEAN
    /\ MaxPending \in Nat \ {0}

VARIABLES
    doc,      \* the document of the key: "absent" or "present"
    ttl,      \* ticks until expires_at; negative: expires_at lies in the past
    pc,       \* where each caller is in lock, or in its critical section
    left,     \* left[p]: ticks until the lock that p took expires
    timer,    \* timer[p]: ticks until timeoutCtx of p is done
    pending   \* pending[p]: deletions its changefeed has not delivered yet

mutexVars == <<doc, ttl, pc, left, timer, pending>>

(* The mutex is locked while its document exists.                           *)
Locked == doc = "present"

Waiting == {"subscribe", "listening", "retry"}

MutexTypeOK ==
    /\ doc \in {"absent", "present"}
    /\ ttl \in -1..Expiration
    /\ pc \in [Procs -> {"idle", "insert", "failed", "critical"} \cup Waiting]
    /\ left \in [Procs -> -1..Expiration]
    /\ timer \in [Procs -> 0..AcquireTimeout]
    /\ pending \in [Procs -> 0..MaxPending]

MutexInit ==
    /\ doc = "absent"
    /\ ttl = -1
    /\ pc = [p \in Procs |-> "idle"]
    /\ left = [p \in Procs |-> -1]
    /\ timer = [p \in Procs |-> 0]
    /\ pending = [p \in Procs |-> 0]

(* The insert of a new document by p took place (newMutexDoc).               *)
Acquire(p) ==
    /\ doc' = "present"
    /\ ttl' = Expiration
    /\ left' = [left EXCEPT ![p] = Expiration]
    /\ timer' = [timer EXCEPT ![p] = 0]
    /\ pending' = [pending EXCEPT ![p] = 0]
    /\ pc' = [pc EXCEPT ![p] = "critical"]

(* The document is deleted: every open changefeed gets a notification.       *)
(* Inserts are notified as well, but a waiter skips those.                   *)
DeleteDoc ==
    /\ doc' = "absent"
    /\ ttl' = -1
    /\ pending' = [q \in Procs |->
                     IF Locked /\ pc[q] \in {"listening", "retry"}
                        /\ pending[q] < MaxPending
                     THEN pending[q] + 1 ELSE pending[q]]

Lock(p) ==
    /\ pc[p] \in {"idle", "failed"}
    /\ pc' = [pc EXCEPT ![p] = "insert"]
    /\ UNCHANGED <<doc, ttl, left, timer, pending>>

(* The first insert: a conflict error starts the acquire timeout.            *)
Insert(p) ==
    /\ pc[p] = "insert"
    /\ \/ ~ Locked /\ Acquire(p)
       \/ /\ Locked
          /\ pc' = [pc EXCEPT ![p] = "subscribe"]
          /\ timer' = [timer EXCEPT ![p] = AcquireTimeout]
          /\ UNCHANGED <<doc, ttl, left, pending>>

(* The changefeed is opened; it reports changes from now on only.            *)
Subscribe(p) ==
    /\ pc[p] = "subscribe"
    /\ pc' = [pc EXCEPT ![p] = "listening"]
    /\ pending' = [pending EXCEPT ![p] = 0]
    /\ UNCHANGED <<doc, ttl, left, timer>>

(* A change with no new value is delivered: the document was deleted.        *)
Change(p) ==
    /\ pc[p] = "listening"
    /\ pending[p] > 0
    /\ pending' = [pending EXCEPT ![p] = @ - 1]
    /\ pc' = [pc EXCEPT ![p] = "retry"]
    /\ UNCHANGED <<doc, ttl, left, timer>>

(* The insert after a notification; on a conflict the waiter listens on.     *)
InsertAgain(p) ==
    /\ pc[p] = "retry"
    /\ \/ ~ Locked /\ Acquire(p)
       \/ /\ Locked
          /\ pc' = [pc EXCEPT ![p] = "listening"]
          /\ UNCHANGED <<doc, ttl, left, timer, pending>>

(* lock returns an error and its changefeed is closed.                       *)
LockFails(p) ==
    /\ pc' = [pc EXCEPT ![p] = "failed"]
    /\ timer' = [timer EXCEPT ![p] = 0]
    /\ pending' = [pending EXCEPT ![p] = 0]
    /\ UNCHANGED <<doc, ttl, left>>

(* Mutant: a waiter that listens without a timeout.                          *)
TimeoutNever(p) == FALSE /\ LockFails(p)

(* timeoutCtx is done: the waiter returns "unable to acquire mutex".         *)
Timeout(p) ==
    /\ pc[p] \in Waiting
    /\ timer[p] = 0
    /\ LockFails(p)

(* The caller's own context ends while it waits.                             *)
GiveUp(p) ==
    /\ pc[p] \in Waiting
    /\ LockFails(p)

(* unlock: deletes the document under the key, whoever inserted it.          *)
Unlock(p) ==
    /\ pc[p] = "critical"
    /\ DeleteDoc
    /\ pc' = [pc EXCEPT ![p] = "idle"]
    /\ left' = [left EXCEPT ![p] = -1]
    /\ UNCHANGED timer

(* The deferred unlock fails (its context is already cancelled) or the       *)
(* replica dies: the document stays behind.                                  *)
UnlockFails(p) ==
    /\ pc[p] = "critical"
    /\ pc' = [pc EXCEPT ![p] = "idle"]
    /\ left' = [left EXCEPT ![p] = -1]
    /\ UNCHANGED <<doc, ttl, timer, pending>>

(* Mutant: an expiry loop that deletes documents still within their time.    *)
IsExpiredEarly == ttl <= 0

(* Mutant: an expiry loop that never finds a document.                       *)
IsExpiredNever == FALSE

(* expires_at < now                                                          *)
IsExpired == ttl < 0

(* One round of expireloop on some replica.                                  *)
Expire ==
    /\ Locked
    /\ IsExpired
    /\ DeleteDoc
    /\ UNCHANGED <<pc, left, timer>>

(* Time passes. Unless holders may overrun, a critical section ends before   *)
(* its lock expires.                                                         *)
Tick ==
    /\ Overrun \/ \A p \in Procs : pc[p] = "critical" => left[p] > 0
    /\ ttl' = IF ttl >= 0 THEN ttl - 1 ELSE ttl
    /\ left' = [p \in Procs |-> IF left[p] >= 0 THEN left[p] - 1 ELSE left[p]]
    /\ timer' = [p \in Procs |-> IF timer[p] > 0 THEN timer[p] - 1 ELSE 0]
    /\ UNCHANGED <<doc, pc, pending>>

(* What a caller of lock does by itself once it has called it.               *)
Step(p) == Insert(p) \/ Subscribe(p) \/ Change(p) \/ InsertAgain(p) \/ Timeout(p)

MutexNext ==
    \/ \E p \in Procs : Lock(p) \/ Step(p) \/ GiveUp(p) \/ Unlock(p) \/ UnlockFails(p)
    \/ Expire
    \/ Tick

MutexSpec == MutexInit /\ [][MutexNext]_mutexVars

(* Goroutines and the database make progress, time passes, and the expiry    *)
(* loop runs again and again. Nobody has to call lock or to fail.            *)
MutexFairness ==
    /\ \A p \in Procs : WF_mutexVars(Step(p)) /\ WF_mutexVars(Timeout(p))
    /\ \A p \in Procs : WF_mutexVars(Unlock(p) \/ UnlockFails(p))
    /\ WF_mutexVars(Expire)
    /\ WF_mutexVars(Tick)

MutexFairSpec == MutexSpec /\ MutexFairness

-----------------------------------------------------------------------------
(* Two callers never work under an unexpired lock at the same time: the      *)
(* mutex "prevents concurrency issues over multiple metal-api replicas".     *)
MutualExclusion ==
    \A p, q \in Procs :
        /\ pc[p] = "critical" /\ left[p] >= 0
        /\ pc[q] = "critical" /\ left[q] >= 0
        => p = q

(* Every call of lock returns, with the mutex or with an error, although a   *)
(* waiter can miss the release that happens before its changefeed is open.   *)
LockReturns ==
    \A p \in Procs :
        pc[p] \in {"insert"} \cup Waiting ~> pc[p] \in {"critical", "failed"}

(* The expiry loop prevents "the whole machinery to lock up forever" when an *)
(* unlock was forgotten.                                                     *)
LockIsReleased == Locked ~> ~ Locked
=============================================================================
