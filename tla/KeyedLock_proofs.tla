-------------------------- MODULE KeyedLock_proofs --------------------------
(***************************************************************************)
(* The chain of promises implements the first-come, first-served lock, for *)
(* any keys and tasks.                                                     *)
(***************************************************************************)
EXTENDS KeyedLock, TLAPS

\* A waiting task's gate is that of the call just before its own.
Chained == \A t \in Tasks : at[t] # None =>
    IF previous[t] = None THEN ahead[t] = {}
    ELSE /\ at[previous[t]] = at[t]
         /\ previous[t] \notin ahead[previous[t]]
         /\ ahead[t] = ahead[previous[t]] \cup {previous[t]}

\* The map names the latest caller of a key, and no entry means no caller.
LastKnown == \A k \in Keys :
    IF pendingTasks[k] = None THEN \A t \in Tasks : at[t] # k
    ELSE /\ at[pendingTasks[k]] = k
         /\ pendingTasks[k] \notin ahead[pendingTasks[k]]
         /\ {t \in Tasks : at[t] = k} = ahead[pendingTasks[k]] \cup {pendingTasks[k]}

\* Of two calls of a key one is ahead of the other.
Ordered == \A t, u \in Tasks :
    (at[t] # None /\ at[t] = at[u] /\ t # u) => (t \in ahead[u] \/ u \in ahead[t])

AheadSameKey == \A t, u \in Tasks : u \in ahead[t] => (at[t] # None /\ at[u] = at[t])

InsideFirst == \A t \in inside : at[t] # None /\ previous[t] = None

LockInv ==
    LockType /\ Chained /\ LastKnown /\ Ordered /\ AheadSameKey /\ InsideFirst

LEMMA InitInv == LockInit => LockInv
  BY NoneIsNoTask, NoneIsNoKey
     DEF LockInit, LockInv, LockType, Chained, LastKnown, Ordered, AheadSameKey, InsideFirst

LEMMA EnterInv == ASSUME LockInv, NEW t \in Tasks, NEW k \in Keys, Enter(t, k)
                  PROVE  LockInv'
  <1> USE NoneIsNoTask, NoneIsNoKey
  <1>1. LockType'
    BY DEF LockInv, LockType, Enter
  <1>2. t \notin ahead[t]' /\ \A u \in Tasks : t \notin ahead[u]
    BY DEF LockInv, LockType, AheadSameKey, Enter
  <1>3. \A u \in Tasks : previous[u] = t => at[u] = None
    BY DEF LockInv, LockType, Chained, Enter
  <1>4. Chained'
    <2> SUFFICES ASSUME NEW u \in Tasks, at'[u] # None
                 PROVE  IF previous'[u] = None THEN ahead'[u] = {}
                        ELSE /\ at'[previous'[u]] = at'[u]
                             /\ previous'[u] \notin ahead'[previous'[u]]
                             /\ ahead'[u] = ahead'[previous'[u]] \cup {previous'[u]}
      BY DEF Chained
    <2>1. CASE u = t
      BY <2>1 DEF LockInv, LockType, LastKnown, Enter
    <2>2. CASE u # t
      BY <2>2, <1>3 DEF LockInv, LockType, Chained, Enter
    <2> QED BY <2>1, <2>2
  <1>5. LastKnown'
    <2> SUFFICES ASSUME NEW j \in Keys
                 PROVE  IF pendingTasks'[j] = None THEN \A u \in Tasks : at'[u] # j
                        ELSE /\ at'[pendingTasks'[j]] = j
                             /\ pendingTasks'[j] \notin ahead'[pendingTasks'[j]]
                             /\ {u \in Tasks : at'[u] = j} = ahead'[pendingTasks'[j]] \cup {pendingTasks'[j]}
      BY DEF LastKnown
    <2>1. CASE j = k
      BY <2>1, <1>2 DEF LockInv, LockType, Enter
    <2>2. CASE j # k
      <3>1. pendingTasks'[j] = pendingTasks[j] /\ \A u \in Tasks : at'[u] = j <=> at[u] = j
        BY <2>2 DEF LockInv, LockType, Enter
      <3>2. pendingTasks[j] # None => pendingTasks[j] \in Tasks /\ pendingTasks[j] # t
        BY DEF LockInv, LockType, LastKnown, Enter
      <3>3. pendingTasks[j] # None => ahead'[pendingTasks[j]] = ahead[pendingTasks[j]]
        BY <3>2 DEF LockInv, LockType, Enter
      <3> QED BY <3>1, <3>2, <3>3 DEF LockInv, LastKnown
    <2> QED BY <2>1, <2>2
  <1>6. Ordered' /\ AheadSameKey'
    BY <1>2 DEF LockInv, LockType, Ordered, AheadSameKey, Enter
  <1>7. InsideFirst'
    BY DEF LockInv, LockType, InsideFirst, Enter
  <1> QED BY <1>1, <1>4, <1>5, <1>6, <1>7 DEF LockInv

LEMMA ProceedInv == ASSUME LockInv, NEW t \in Tasks, Proceed(t)
                    PROVE  LockInv'
  BY DEF LockInv, LockType, Chained, LastKnown, Ordered, AheadSameKey, InsideFirst, Proceed,
         Waiting

\* Whoever runs has nobody ahead of it, and is ahead of everybody else.
LEMMA HolderIsFirst == ASSUME LockInv, NEW t \in inside
               PROVE  /\ t \in Tasks /\ at[t] \in Keys /\ ahead[t] = {}
                      /\ \A u \in Tasks : (at[u] = at[t] /\ u # t) => t \in ahead[u]
  BY DEF LockInv, LockType, Chained, InsideFirst, Ordered

LEMMA LeaveInv == ASSUME LockInv, NEW t \in Tasks, Leave(t)
                  PROVE  LockInv'
  <1> USE NoneIsNoTask, NoneIsNoKey
  <1>1. /\ at[t] \in Keys /\ ahead[t] = {}
        /\ \A u \in Tasks : (at[u] = at[t] /\ u # t) => t \in ahead[u]
    BY HolderIsFirst DEF Leave
  <1>2. LockType'
    BY <1>1 DEF LockInv, LockType, Leave, KeepsEntry
  <1>3. Chained'
    <2> SUFFICES ASSUME NEW u \in Tasks, at'[u] # None
                 PROVE  IF previous'[u] = None THEN ahead'[u] = {}
                        ELSE /\ at'[previous'[u]] = at'[u]
                             /\ previous'[u] \notin ahead'[previous'[u]]
                             /\ ahead'[u] = ahead'[previous'[u]] \cup {previous'[u]}
      BY DEF Chained
    <2>0. u # t /\ at[u] # None /\ at'[u] = at[u]
      BY DEF LockInv, LockType, Leave
    <2>1. CASE previous[u] = None
      BY <2>0, <2>1 DEF LockInv, LockType, Chained, Leave
    <2>2. CASE previous[u] = t
      BY <2>0, <2>2, <1>1 DEF LockInv, LockType, Chained, Leave
    <2>3. CASE previous[u] # None /\ previous[u] # t
      BY <2>0, <2>3 DEF LockInv, LockType, Chained, Leave
    <2> QED BY <2>1, <2>2, <2>3
  <1>4. LastKnown'
    <2> SUFFICES ASSUME NEW j \in Keys
                 PROVE  IF pendingTasks'[j] = None THEN \A u \in Tasks : at'[u] # j
                        ELSE /\ at'[pendingTasks'[j]] = j
                             /\ pendingTasks'[j] \notin ahead'[pendingTasks'[j]]
                             /\ {u \in Tasks : at'[u] = j} = ahead'[pendingTasks'[j]] \cup {pendingTasks'[j]}
      BY DEF LastKnown
    <2>1. CASE pendingTasks[j] = None
      BY <2>1 DEF LockInv, LockType, LastKnown, Leave, KeepsEntry
    <2>2. CASE pendingTasks[j] = t
      BY <2>2, <1>1 DEF LockInv, LockType, LastKnown, Leave, KeepsEntry
    <2>3. CASE pendingTasks[j] # None /\ pendingTasks[j] # t
      <3> DEFINE p == pendingTasks[j]
      <3>1. /\ p \in Tasks /\ at[p] = j /\ p \notin ahead[p]
            /\ {u \in Tasks : at[u] = j} = ahead[p] \cup {p}
        BY <2>3 DEF LockInv, LockType, LastKnown
      <3>2. pendingTasks'[j] = p
        BY <2>3, <1>1 DEF LockInv, LockType, Leave, KeepsEntry
      <3>3. at'[p] = j /\ ahead'[p] = ahead[p] \ {t}
        BY <2>3, <3>1 DEF LockInv, LockType, Leave
      <3>4. {u \in Tasks : at'[u] = j} = {u \in Tasks : at[u] = j} \ {t}
        BY DEF LockInv, LockType, Leave
      <3> QED BY <2>3, <3>1, <3>2, <3>3, <3>4
    <2> QED BY <2>1, <2>2, <2>3
  <1>5. Ordered'
    <2> SUFFICES ASSUME NEW u \in Tasks, NEW w \in Tasks,
                        at'[u] # None, at'[u] = at'[w], u # w
                 PROVE  u \in ahead'[w] \/ w \in ahead'[u]
      BY DEF Ordered
    <2>1. u # t /\ w # t /\ at[u] # None /\ at[u] = at[w]
      BY DEF LockInv, LockType, Leave
    <2> QED BY <2>1 DEF LockInv, LockType, Ordered, Leave
  <1>7. AheadSameKey'
    <2> SUFFICES ASSUME NEW u \in Tasks, NEW w \in Tasks, w \in ahead'[u]
                 PROVE  at'[u] # None /\ at'[w] = at'[u]
      BY DEF AheadSameKey
    <2>1. w # t /\ w \in ahead[u] /\ u # t
      BY <1>1 DEF LockInv, LockType, Leave
    <2> QED BY <2>1 DEF LockInv, LockType, AheadSameKey, Leave
  <1>6. InsideFirst'
    BY DEF LockInv, LockType, InsideFirst, Leave
  <1> QED BY <1>2, <1>3, <1>4, <1>5, <1>6, <1>7 DEF LockInv

LEMMA LockStep == ASSUME LockInv, [LockNext]_lockVars PROVE LockInv'
  <1>1. CASE UNCHANGED lockVars
    BY <1>1 DEF lockVars, LockInv, LockType, Chained, LastKnown, Ordered, AheadSameKey, InsideFirst
  <1>2. CASE LockNext
    BY <1>2, EnterInv, ProceedInv, LeaveInv DEF LockNext
  <1> QED BY <1>1, <1>2

\* The chain of gates that keyedTaskLock.ts:21-31 builds is intact in every state.
THEOREM LockInvariant == LockSpec => []LockInv
  <1>1. LockInv /\ [LockNext]_lockVars => LockInv'
    BY LockStep
  <1> QED BY <1>1, InitInv, PTL DEF LockSpec

LEMMA InitRefines == LockInit => Fifo!Init
  BY NoneIsNoKey DEF LockInit, Holders, Waiters, Fifo!Init

\* What a step does to one key decides what it does to all of them.
LEMMA Pointwise == ASSUME NEW f, NEW g, NEW k \in Keys, NEW v,
                          f = [j \in Keys |-> f[j]], g = [j \in Keys |-> g[j]],
                          g[k] = v, \A j \in Keys \ {k} : g[j] = f[j]
                   PROVE  g = [f EXCEPT ![k] = v]
  OBVIOUS

LEMMA CallRefines == ASSUME LockInv, LockInv', NEW t \in Tasks, NEW k \in Keys, Enter(t, k)
                     PROVE  Fifo!Call(t, k)
  <1> USE NoneIsNoTask, NoneIsNoKey
  <1>0. LockType /\ at' = [at EXCEPT ![t] = k] /\ at[t] = None /\ t \notin inside
    BY DEF LockInv, InsideFirst, Enter
  <1>1. ASSUME NEW j \in Keys
        PROVE  Holders[j] \cup Waiters[j] = {u \in Tasks : at[u] = j}
    BY <1>0 DEF LockType, Holders, Waiters
  <1>2. \A j \in Keys : t \notin Holders[j] \cup Waiters[j]
    BY <1>0, <1>1
  <1>3. ahead' = [ahead EXCEPT ![t] = Holders[k] \cup Waiters[k]]
    BY <1>1 DEF Enter
  <1>4. pendingTasks[k] = None <=> Holders[k] \cup Waiters[k] = {}
    BY <1>1 DEF LockInv, LockType, LastKnown
  <1>5. CASE pendingTasks[k] = None
    <2>1. inside' = inside \cup {t}
      BY <1>5 DEF Enter
    <2>2. Holders[k] = {} /\ Waiters[k] = {}
      BY <1>4, <1>5
    <2>3. Holders'[k] = {t} /\ \A j \in Keys \ {k} : Holders'[j] = Holders[j]
      BY <2>1, <2>2, <1>0 DEF Holders, LockType
    <2>4. \A j \in Keys : Waiters'[j] = Waiters[j]
      BY <2>1, <2>2, <1>0 DEF Waiters, LockType
    <2>5. Holders' = [Holders EXCEPT ![k] = {t}]
      BY <2>3, Pointwise DEF Holders
    <2>6. Waiters' = Waiters
      BY <2>4 DEF Waiters
    <2> QED BY <1>2, <1>3, <1>4, <1>5, <2>5, <2>6 DEF Fifo!Call, Fifo!Users
  <1>6. CASE pendingTasks[k] # None
    <2>1. inside' = inside
      BY <1>6 DEF Enter
    <2>3. Waiters'[k] = Waiters[k] \cup {t} /\ \A j \in Keys \ {k} : Waiters'[j] = Waiters[j]
      BY <2>1, <1>0 DEF Waiters, LockType
    <2>4. \A j \in Keys : Holders'[j] = Holders[j]
      BY <2>1, <1>0 DEF Holders, LockType
    <2>5. Waiters' = [Waiters EXCEPT ![k] = Waiters[k] \cup {t}]
      BY <2>3, Pointwise DEF Waiters
    <2>6. Holders' = Holders
      BY <2>4 DEF Holders
    <2> QED BY <1>2, <1>3, <1>4, <1>6, <2>5, <2>6 DEF Fifo!Call, Fifo!Users
  <1> QED BY <1>5, <1>6

LEMMA StartRefines == ASSUME LockInv, NEW t \in Tasks, Proceed(t)
                      PROVE  \E k \in Keys : Fifo!Start(t, k)
  <1> USE NoneIsNoTask, NoneIsNoKey
  <1>0. /\ LockType /\ t \notin inside /\ at' = at /\ inside' = inside \cup {t}
        /\ at[t] \in Keys /\ ahead[t] = {}
    BY DEF LockInv, LockType, Chained, Proceed, Waiting
  <1> DEFINE k == at[t]
  <1>1. k \in Keys /\ t \in Waiters[k]
    BY <1>0 DEF Waiters
  <1>2. ASSUME NEW u \in inside, at[u] = k PROVE FALSE
    <2>1. u \in Tasks /\ ahead[u] = {} /\ u # t
      BY <1>0, HolderIsFirst
    <2> QED BY <1>0, <1>2, <2>1 DEF LockInv, Ordered
  <1>3. Holders[k] = {}
    BY <1>0, <1>2 DEF Holders
  <1>4. Holders'[k] = {t} /\ \A j \in Keys \ {k} : Holders'[j] = Holders[j]
    BY <1>0, <1>2 DEF Holders, LockType
  <1>5. Waiters'[k] = Waiters[k] \ {t} /\ \A j \in Keys \ {k} : Waiters'[j] = Waiters[j]
    BY <1>0 DEF Waiters, LockType
  <1>6. Holders' = [Holders EXCEPT ![k] = {t}]
    BY <1>1, <1>4, Pointwise DEF Holders
  <1>7. Waiters' = [Waiters EXCEPT ![k] = Waiters[k] \ {t}]
    BY <1>1, <1>5, Pointwise DEF Waiters
  <1>8. Fifo!Start(t, k)
    BY <1>0, <1>1, <1>3, <1>6, <1>7 DEF Fifo!Start, Proceed
  <1> QED BY <1>1, <1>8

LEMMA EndRefines == ASSUME LockInv, NEW t \in Tasks, Leave(t)
                    PROVE  \E k \in Keys : Fifo!End(t, k)
  <1> USE NoneIsNoTask, NoneIsNoKey
  <1>0. /\ LockType /\ t \in inside /\ at[t] \in Keys
        /\ at' = [at EXCEPT ![t] = None] /\ inside' = inside \ {t}
        /\ ahead' = [u \in Tasks |-> ahead[u] \ {t}]
    BY HolderIsFirst DEF LockInv, Leave
  <1> DEFINE k == at[t]
  <1>1. k \in Keys /\ t \in Holders[k]
    BY <1>0 DEF Holders
  <1>2. Holders'[k] = Holders[k] \ {t} /\ \A j \in Keys \ {k} : Holders'[j] = Holders[j]
    BY <1>0 DEF Holders, LockType
  <1>3. \A j \in Keys : Waiters'[j] = Waiters[j]
    BY <1>0 DEF Waiters, LockType
  <1>4. Holders' = [Holders EXCEPT ![k] = Holders[k] \ {t}]
    BY <1>1, <1>2, Pointwise DEF Holders
  <1>5. Waiters' = Waiters
    BY <1>3 DEF Waiters
  <1>6. Fifo!End(t, k)
    BY <1>0, <1>1, <1>4, <1>5 DEF Fifo!End
  <1> QED BY <1>1, <1>6

LEMMA StepRefines == ASSUME LockInv, LockInv', [LockNext]_lockVars
                     PROVE  [Fifo!Next]_(Fifo!vars)
  <1>1. CASE UNCHANGED lockVars
    BY <1>1 DEF lockVars, Holders, Waiters, Fifo!vars
  <1>2. CASE LockNext
    BY <1>2, CallRefines, StartRefines, EndRefines DEF LockNext, Fifo!Next
  <1> QED BY <1>1, <1>2

\* keyedTaskLock.ts:17-38 keeps its promise: per key one task at a time, in
\* the order of the calls, and at once when the key is free.
THEOREM LockRefinesFifo == LockSpec => Promise
  <1>1. LockSpec => Fifo!Init
    BY InitRefines DEF LockSpec
  <1>2. LockInv /\ LockInv' /\ [LockNext]_lockVars => [Fifo!Next]_(Fifo!vars)
    BY StepRefines
  <1> QED BY <1>1, <1>2, LockInvariant, PTL DEF LockSpec, Promise, Fifo!Spec
=============================================================================
