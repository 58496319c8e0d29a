------------------------------ MODULE FifoLock ------------------------------
(***************************************************************************)
(* What withKeyedTaskLock promises its callers: per key, one task at a     *)
(* time, in the order of the calls, and a key nobody uses is free.         *)
(* KeyedLock, the chain of promises that the code builds, implements it.   *)
(***************************************************************************)
CONSTANTS Keys, Tasks

VARIABLES
    holders,    \* key -> the tasks that run under it
    waiters,    \* key -> the tasks that have called and wait
    ahead       \* task -> the tasks that called before it and are not done

vars == <<holders, waiters, ahead>>

Users(k) == holders[k] \cup waiters[k]

Init ==
    /\ holders = [k \in Keys |-> {}]
    /\ waiters = [k \in Keys |-> {}]
    /\ ahead = [t \in Tasks |-> {}]

\* A free key admits the caller at once.
Call(t, k) ==
    /\ \A j \in Keys : t \notin Users(j)
    /\ ahead' = [ahead EXCEPT ![t] = Users(k)]
    /\ IF Users(k) = {}
       THEN holders' = [holders EXCEPT ![k] = {t}] /\ UNCHANGED waiters
       ELSE waiters' = [waiters EXCEPT ![k] = @ \cup {t}] /\ UNCHANGED holders

Start(t, k) ==
    /\ t \in waiters[k] /\ holders[k] = {} /\ ahead[t] = {}
    /\ holders' = [holders EXCEPT ![k] = {t}]
    /\ waiters' = [waiters EXCEPT ![k] = @ \ {t}]
    /\ UNCHANGED ahead

End(t, k) ==
    /\ t \in holders[k]
    /\ holders' = [holders EXCEPT ![k] = @ \ {t}]
    /\ ahead' = [u \in Tasks |-> ahead[u] \ {t}]
    /\ UNCHANGED waiters

Next == \E t \in Tasks, k \in Keys : Call(t, k) \/ Start(t, k) \/ End(t, k)

Spec == Init /\ [][Next]_vars
=============================================================================
