---------------------------- MODULE HeartbeatGate ----------------------------
(***************************************************************************)
(* server/agentHeartbeatGate.ts, class AgentHeartbeatGate, as used by the  *)
(* heartbeat route of server/agentHeartbeatRoute.ts: which Agents may have *)
(* their desired state rebuilt right now.                                  *)
(*                                                                         *)
(* A heartbeat asks tryAcquire for its host.  At most MaxConcurrent hosts  *)
(* are reconciled at once and a host never twice at once; a host that      *)
(* finished less than CoalesceTicks ago is refused unless its heartbeat is *)
(* forced; the others wait in a FIFO line from which a host that stops     *)
(* asking for more than WaitTimeout is dropped when it reaches the head.   *)
(*                                                                         *)
(* Time is counted in ticks.  The map completedAt is kept as the rest of   *)
(* the coalescing window (cooling), waitingSince as the age of the entry   *)
(* (since): both are what tryAcquire computes from `now'.                  *)
(***************************************************************************)
EXTENDS Integers, Sequences, FiniteSets

CONSTANTS
    Hosts,          \* the hosts that send heartbeats
    Steady,         \* those that honour the nextInterval of every answer
    MaxConcurrent,  \* the gate's maxConcurrent (8)
    CoalesceTicks,  \* coalesceMs (5 s), in ticks
    WaitTimeout,    \* waitingTimeoutMs (30 s), in ticks
    PollEvery       \* the nextInterval (5 s) of a coalesced answer, in ticks

ASSUME GateAssumption ==
    /\ MaxConcurrent \in Nat \ {0}   \* Math.max(1, this.maxConcurrent)
    /\ CoalesceTicks \in Nat
    /\ WaitTimeout \in Nat
    /\ PollEvery \in Nat \ {0}
    /\ Steady \subseteq Hosts

VARIABLES
    active,     \* the Set of hosts under reconciliation
    waiting,    \* the FIFO array of waiting hosts
    since,      \* waitingSince: ticks since the entry was made or refreshed
    cooling,    \* what is left of the coalescing window opened by completedAt
    holders,    \* release closures handed out and not yet called, per host
    sincePoll   \* ticks since the last heartbeat of a host

gateVars == <<active, waiting, since, cooling, holders, sincePoll>>

Absent == 0 - 1                      \* waitingSince has no entry
Ages == Absent .. (WaitTimeout + 1)  \* an age stops growing once it is expired

GateInit ==
    /\ active = {}
    /\ waiting = <<>>
    /\ since = [h \in Hosts |-> Absent]
    /\ cooling = [h \in Hosts |-> 0]
    /\ holders = [h \in Hosts |-> 0]
    /\ sincePoll = [h \in Hosts |-> 0]

Line == {waiting[i] : i \in DOMAIN waiting}

-----------------------------------------------------------------------------
(* tryAcquire, one disjunct per way it returns.  The definitions named     *)
(* Mutant... are plausible slips in the definition that follows them; no   *)
(* action uses them.                                                       *)

Fresh(h) == since[h] # Absent /\ since[h] <= WaitTimeout

MutantNoPruning(n) == n = 0

(* pruneWaiting: the n entries shifted off are the longest expired prefix. *)
Expired(n) ==
    /\ \A i \in 1..n : ~Fresh(waiting[i])
    /\ n < Len(waiting) => Fresh(waiting[n + 1])

Pruned(n) == SubSeq(waiting, n + 1, Len(waiting))
Dropped(n) == {waiting[i] : i \in 1..n}
SinceKept(n) == [h \in Hosts |-> IF h \in Dropped(n) THEN Absent ELSE since[h]]

MutantNoActiveCheck(h, force) == ~force /\ cooling[h] > 0

Refused(h, force) == h \in active \/ (~force /\ cooling[h] > 0)

MutantCapacityOffByOne == Cardinality(active) > MaxConcurrent

AtCapacity == Cardinality(active) >= MaxConcurrent

MutantNoLine(h, n) == TRUE

MayEnter(h, n) == Pruned(n) # <<>> => Pruned(n)[1] = h

(* The refusals leave the line as pruneWaiting left it. *)
Coalesced(h, force, n) ==
    /\ Refused(h, force)
    /\ waiting' = Pruned(n)
    /\ since' = SinceKept(n)
    /\ UNCHANGED <<active, holders>>

MutantNoRefresh(h, n) == [SinceKept(n) EXCEPT ![h] = IF @ = Absent THEN 0 ELSE @]

Refreshed(h, n) == [SinceKept(n) EXCEPT ![h] = 0]

(* enqueue: a host already in line keeps its place and is refreshed. *)
Queued(h, force, n) ==
    /\ ~Refused(h, force)
    /\ AtCapacity \/ ~MayEnter(h, n)
    /\ waiting' = IF SinceKept(n)[h] = Absent THEN Append(Pruned(n), h) ELSE Pruned(n)
    /\ since' = Refreshed(h, n)
    /\ UNCHANGED <<active, holders>>

Admitted(h, force, n) ==
    /\ ~Refused(h, force)
    /\ ~AtCapacity
    /\ MayEnter(h, n)
    /\ waiting' = IF Pruned(n) = <<>> THEN <<>> ELSE Tail(Pruned(n))
    /\ since' = [SinceKept(n) EXCEPT ![h] = Absent]
    /\ active' = active \union {h}
    /\ holders' = [holders EXCEPT ![h] = @ + 1]

(* A heartbeat of host h reaches the route. *)
TryAcquire(h, force) ==
    /\ \E n \in 0..Len(waiting) :
          /\ Expired(n)
          /\ Coalesced(h, force, n) \/ Queued(h, force, n) \/ Admitted(h, force, n)
    /\ sincePoll' = [sincePoll EXCEPT ![h] = 0]
    /\ UNCHANGED cooling

(* The closure tryAcquire returned, called once by the route's `finally'. *)
Release(h) ==
    /\ holders[h] > 0
    /\ holders' = [holders EXCEPT ![h] = @ - 1]
    /\ active' = active \ {h}
    /\ cooling' = [cooling EXCEPT ![h] = CoalesceTicks]
    /\ UNCHANGED <<waiting, since, sincePoll>>

(* A steady Agent sends its next heartbeat within PollEvery. *)
Tick ==
    /\ \A h \in Steady : sincePoll[h] < PollEvery
    /\ since' = [h \in Hosts |->
                    IF since[h] = Absent \/ since[h] > WaitTimeout THEN since[h] ELSE since[h] + 1]
    /\ cooling' = [h \in Hosts |-> IF cooling[h] > 0 THEN cooling[h] - 1 ELSE 0]
    /\ sincePoll' = [h \in Hosts |-> IF sincePoll[h] < PollEvery THEN sincePoll[h] + 1 ELSE sincePoll[h]]
    /\ UNCHANGED <<active, waiting, holders>>

Heartbeat(h) == \E force \in BOOLEAN : TryAcquire(h, force)

GateNext ==
    \/ Tick
    \/ \E h \in Hosts : Heartbeat(h) \/ Release(h)

GateSpec == GateInit /\ [][GateNext]_gateVars

(* Time passes, steady Agents keep asking, and a reconciliation ends: the  *)
(* route releases in a `finally', whatever the handler did.                *)
GateFairness ==
    /\ WF_gateVars(Tick)
    /\ \A h \in Steady : WF_gateVars(Heartbeat(h))
    /\ \A h \in Hosts : WF_gateVars(Release(h))

GateFairSpec == GateSpec /\ GateFairness

-----------------------------------------------------------------------------
GateType ==
    /\ active \subseteq Hosts
    /\ waiting \in Seq(Hosts)
    /\ since \in [Hosts -> Ages]
    /\ cooling \in [Hosts -> 0..CoalesceTicks]
    /\ holders \in [Hosts -> Nat]
    /\ sincePoll \in [Hosts -> 0..PollEvery]

(* The heartbeat route never rebuilds the desired state of one Agent twice *)
(* at the same time, and `active' is exactly the set of rebuilds that      *)
(* still owe their release.                                                *)
OneReconciliation ==
    /\ \A h \in Hosts : holders[h] <= 1
    /\ active = {h \in Hosts : holders[h] = 1}

(* Forced or not, no heartbeat gets past the global limit on rebuilds.     *)
CapacityRespected == Cardinality({h \in Hosts : holders[h] > 0}) <= MaxConcurrent

(* The array and the map of the waiting line agree: a host is queued once, *)
(* exactly when it has a timestamp, and never while it is being rebuilt.   *)
LineConsistent ==
    /\ \A i, j \in DOMAIN waiting : waiting[i] = waiting[j] => i = j
    /\ Line = {h \in Hosts : since[h] # Absent}
    /\ Line \intersect active = {}

(* Who enters leaves nobody behind who came first and still counts: every  *)
(* host still in line after an admission stood behind the admitted one.    *)
NoOvertaking ==
    [][\A h \in active' \ active, g \in Hosts :
          (\E i \in DOMAIN waiting : waiting[i] = g) /\ (\E i \in DOMAIN waiting' : waiting'[i] = g)
          => \E i, j \in DOMAIN waiting : waiting[i] = h /\ waiting[j] = g /\ i < j]_gateVars

(* A host that answers every nextInterval never loses its place: it leaves *)
(* the line only into the gate (enqueue refreshes it before it expires).   *)
SteadyKeepsPlace ==
    [][\A h \in Steady : h \in Line /\ h \notin Line' => h \in active']_gateVars

(* A steady host in line is rebuilt in the end, even when the hosts ahead  *)
(* of it vanish: the head of the line is pruned once it has expired.       *)
SteadyAdmitted == \A h \in Steady : h \in Line ~> h \in active

=============================================================================
