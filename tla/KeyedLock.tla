----------------------------- MODULE KeyedLock ------------------------------
(***************************************************************************)
(* server/keyedTaskLock.ts: withKeyedTaskLock.  The map remembers, per key,*)
(* the gate of the latest caller only; each caller awaits the gate of the  *)
(* one before it.  A gate that opens wakes its waiter in a later step of   *)
(* the event loop; the map's entry goes with the last caller.              *)
(***************************************************************************)
CONSTANTS Keys, Tasks, None

ASSUME NoneIsNoTask == None \notin Tasks
ASSUME NoneIsNoKey == None \notin Keys

VARIABLES
    pendingTasks, \* key -> the task whose gate is in pendingTasks, or None
    previous,   \* task -> the task whose gate it awaits, or None
    at,         \* task -> the key of its call, or None
    inside,     \* the tasks whose body runs
    ahead       \* history: task -> the earlier calls of its key not yet done

lockVars == <<pendingTasks, previous, at, inside, ahead>>

LockInit ==
    /\ pendingTasks = [k \in Keys |-> None]
    /\ previous = [t \in Tasks |-> None]
    /\ at = [t \in Tasks |-> None]
    /\ inside = {}
    /\ ahead = [t \in Tasks |-> {}]

\* The synchronous part of the call: the body starts in the same turn when
\* nobody holds the key.
Enter(t, k) ==
    /\ at[t] = None
    /\ at' = [at EXCEPT ![t] = k]
    /\ previous' = [previous EXCEPT ![t] = pendingTasks[k]]
    /\ pendingTasks' = [pendingTasks EXCEPT ![k] = t]
    /\ inside' = IF pendingTasks[k] = None THEN inside \cup {t} ELSE inside
    /\ ahead' = [ahead EXCEPT ![t] = {u \in Tasks : at[u] = k}]

Waiting(t) == at[t] # None /\ t \notin inside

\* `await previous.tail` returns.
Proceed(t) ==
    /\ Waiting(t) /\ previous[t] = None
    /\ inside' = inside \cup {t}
    /\ UNCHANGED <<pendingTasks, previous, at, ahead>>

\* Mutant: the entry is deleted whoever it names.
MutantKeepsEntry(t) == FALSE

\* The finally block: release(), and delete the entry if nobody called since.
KeepsEntry(t) == pendingTasks[at[t]] # t

Leave(t) ==
    /\ t \in inside
    /\ inside' = inside \ {t}
    /\ previous' = [u \in Tasks |-> IF previous[u] = t THEN None ELSE previous[u]]
    /\ pendingTasks' = IF KeepsEntry(t) THEN pendingTasks ELSE [pendingTasks EXCEPT ![at[t]] = None]
    /\ at' = [at EXCEPT ![t] = None]
    /\ ahead' = [u \in Tasks |-> ahead[u] \ {t}]

LockNext == \E t \in Tasks : Proceed(t) \/ Leave(t) \/ \E k \in Keys : Enter(t, k)

LockSpec == LockInit /\ [][LockNext]_lockVars

-----------------------------------------------------------------------------
LockType ==
    /\ pendingTasks \in [Keys -> Tasks \cup {None}]
    /\ previous \in [Tasks -> Tasks \cup {None}]
    /\ at \in [Tasks -> Keys \cup {None}]
    /\ inside \in SUBSET Tasks
    /\ ahead \in [Tasks -> SUBSET Tasks]

Holders == [k \in Keys |-> {t \in inside : at[t] = k}]
Waiters == [k \in Keys |-> {t \in Tasks \ inside : at[t] = k}]

\* The promise of the file, keyedTaskLock.ts:17-38, as a refinement: the
\* chain of gates and the deletion of entries never let two tasks of a key
\* run together, never reorder callers and never block a free key.
Fifo == INSTANCE FifoLock WITH holders <- Holders, waiters <- Waiters, ahead <- ahead

Promise == Fifo!Spec
=============================================================================
