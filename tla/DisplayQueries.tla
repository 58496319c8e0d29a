--------------------------- MODULE DisplayQueries ---------------------------
(***************************************************************************)
(* The cache in front of the panel's display queries:                      *)
(*   server/queryCache.ts        entries, refreshes, eviction              *)
(*   server/requestWorkPool.ts   the slots that the loads of all keys share*)
(*   server/displayQueryCache.ts keys of a viewer, and their invalidation  *)
(*   server/_core/trpc.ts        a mutation invalidates before and after   *)
(* A value is the version of the database its load has read.  Time is the  *)
(* age of an entry, which may advance at any moment.                       *)
(***************************************************************************)
EXTENDS Integers, FiniteSets, SequencesExt

CONSTANTS
    Keys, Callers,
    MaxLoads,       \* bound on the loads that exist at the same time
    Writers,        \* the sessions that run mutations
    Matched,        \* writer -> the keys its invalidation matches
    Concurrency, MaxQueued, MaxEntries, MaxBytes,
    Sizes,          \* of results, the key included
    MaxVersion,     \* bound on the commits
    None

ASSUME MatchedAssumption == Matched \in [Writers -> SUBSET Keys]
ASSUME LimitsAssumption == /\ Concurrency \in Nat \ {0} /\ MaxQueued \in Nat
                           /\ MaxEntries \in Nat \ {0} /\ MaxBytes \in Nat
                           /\ Sizes \subseteq Nat /\ MaxVersion \in Nat /\ MaxLoads \in Nat

Loads == 1..MaxLoads
Version == 0..MaxVersion

Entry == [value : Version \cup {None}, bytes : Nat, age : {"fresh", "stale", "expired"},
          cooling : BOOLEAN, load : Loads \cup {None}]
Load == [phase : {"free", "called", "queued", "running"}, key : Keys \cup {None},
         saw : Version \cup {None}, cleared : BOOLEAN]

ASSUME NoneAssumption == None \notin Nat \cup Entry

VARIABLES
    entry,      \* key -> its entry, or None
    older,      \* key -> the keys whose entries were used before its own
    bytes,      \* the cache's count of its bytes
    load,       \* load -> phase, key, what it read, whether its entry was invalidated
    active,     \* the pool's count of its busy slots
    queue,      \* the loads that wait for a slot
    caller,     \* caller -> the load it awaits, and the version it must see
    outdated,   \* history: the callers that got less than they had to see
    db,         \* version of the database
    writing,    \* the writers whose mutation runs
    floor       \* history: key -> version at the last finished mutation that matched it

cacheVars == <<entry, older, bytes>>
poolVars == <<active, queue>>
callerVars == <<caller, outdated>>
dbVars == <<db, writing, floor>>
vars == <<entry, older, bytes, load, active, queue, caller, outdated, db, writing, floor>>

Free == [phase |-> "free", key |-> None, saw |-> None, cleared |-> FALSE]
Idle == [load |-> None, need |-> 0]
NewEntry == [value |-> None, bytes |-> 0, age |-> "expired", cooling |-> FALSE, load |-> None]

Init ==
    /\ entry = [k \in Keys |-> None]
    /\ older = [k \in Keys |-> {}]
    /\ bytes = 0
    /\ load = [l \in Loads |-> Free]
    /\ active = 0 /\ queue = <<>>
    /\ caller = [c \in Callers |-> Idle] /\ outdated = {}
    /\ db = 0 /\ writing = {}
    /\ floor = [k \in Keys |-> 0]

-----------------------------------------------------------------------------
(* The map of entries. *)

Present(e) == {k \in Keys : e[k] # None}
Attached(l) == \E k \in Present(entry) : entry[k].load = l
Weight(e, S) == Cardinality(UNION {{k} \X (1..e[k].bytes) : k \in S})
Without(e, S) == [k \in Keys |-> IF k \in S THEN None ELSE e[k]]
Touched(k) == [j \in Keys |-> (IF j = k THEN Present(entry) ELSE older[j]) \ {k}]
Ordered(o) ==
    LET left == Present(entry')
    IN  older' = [k \in Keys |-> IF k \in left THEN o[k] \cap left ELSE {}]

\* Mutant: a running load may be evicted.
MutantEvictsLoads(e, k) == e[k] # None

Evictable(e, k) == e[k] # None /\ e[k].load = None

\* trim: from the oldest on, while the cache is over a limit.
Evicted(e, b, reserve) ==
    LET idle == {k \in Keys : Evictable(e, k)}
        Over(S) == \/ Cardinality(Present(e) \ S) + reserve > MaxEntries
                   \/ b - Weight(e, S) > MaxBytes
    IN  IF Over({}) THEN {k \in idle : Over(idle \cap older[k])} ELSE {}

Trimmed(e, b, reserve) ==
    LET out == Evicted(e, b, reserve)
    IN  entry' = Without(e, out) /\ bytes' = b - Weight(e, out)

\* The timer, and a get once a second, reclaim what has expired.
Prune ==
    LET old == {k \in Present(entry) : entry[k].load = None /\ entry[k].age = "expired"}
    IN  /\ old # {}
        /\ Trimmed(Without(entry, old), bytes - Weight(entry, old), 0)
        /\ Ordered(older)
        /\ UNCHANGED <<load, poolVars, callerVars, dbVars>>

\* Time passes.  retryAt counts while the value is stale only.
Age(k) ==
    /\ k \in Present(entry)
    /\ \/ entry[k].age = "fresh" /\ entry' = [entry EXCEPT ![k].age = "stale"]
       \/ /\ entry[k].age = "stale"
          /\ entry' = [entry EXCEPT ![k].age = "expired", ![k].cooling = FALSE]
       \/ entry[k].cooling /\ entry' = [entry EXCEPT ![k].cooling = FALSE]
    /\ UNCHANGED <<older, bytes, load, poolVars, callerVars, dbVars>>

-----------------------------------------------------------------------------
(* get. *)

Usable(k) == entry[k] # None /\ entry[k].value # None /\ entry[k].age # "expired"
Loading(k) == entry[k] # None /\ entry[k].load # None

Answer(c, v, need) == outdated' = IF v < need THEN outdated \cup {c} ELSE outdated
Await(c, k, l) ==
    caller' = [caller EXCEPT ![c] = [load |-> l, need |-> floor[k]]] /\ UNCHANGED outdated

FreeLoad(l) == load[l] = Free /\ \A m \in Loads : load[m] = Free => l <= m
Called(l, k) == load' = [load EXCEPT ![l] = [Free EXCEPT !.phase = "called", !.key = k]]

GetCached(c, k) ==
    /\ Usable(k)
    /\ entry[k].age = "fresh" \/ Loading(k) \/ entry[k].cooling
    /\ Answer(c, entry[k].value, floor[k]) /\ UNCHANGED caller
    /\ UNCHANGED <<entry, bytes, load>>

\* Stale: answer, and refresh in the background.
GetStale(c, k) ==
    /\ Usable(k) /\ entry[k].age = "stale" /\ ~Loading(k) /\ ~entry[k].cooling
    /\ Answer(c, entry[k].value, floor[k]) /\ UNCHANGED caller
    /\ \E l \in Loads :
        /\ FreeLoad(l) /\ Called(l, k)
        /\ entry' = [entry EXCEPT ![k].load = l]
    /\ UNCHANGED bytes

GetJoined(c, k) ==
    /\ ~Usable(k) /\ Loading(k)
    /\ Await(c, k, entry[k].load)
    /\ UNCHANGED <<entry, bytes, load>>

\* No value and no load: one is started, with room made for a new entry.
GetLoaded(c, k) ==
    /\ ~Usable(k) /\ ~Loading(k)
    /\ \E l \in Loads :
        /\ FreeLoad(l)
        /\ IF entry[k] # None
           THEN /\ entry' = [entry EXCEPT ![k].load = l] /\ UNCHANGED bytes
                /\ Called(l, k) /\ Await(c, k, l)
           ELSE LET out == Evicted(entry, bytes, 1)
                    kept == Without(entry, out)
                IN  /\ bytes' = bytes - Weight(entry, out)
                    /\ IF Cardinality(Present(kept)) >= MaxEntries
                       THEN entry' = kept /\ UNCHANGED <<callerVars, load>>
                       ELSE /\ entry' = [kept EXCEPT ![k] = [NewEntry EXCEPT !.load = l]]
                            /\ Called(l, k) /\ Await(c, k, l)

Get(c, k) ==
    /\ caller[c].load = None
    /\ GetCached(c, k) \/ GetStale(c, k) \/ GetJoined(c, k) \/ GetLoaded(c, k)
    /\ Ordered(Touched(k))
    /\ UNCHANGED <<poolVars, dbVars>>

-----------------------------------------------------------------------------
(* A load in the pool. *)

Settled(l) == caller' = [c \in Callers |-> IF caller[c].load = l THEN Idle ELSE caller[c]]

\* Mutant: any entry of the key will do, a later one too.
MutantAnyEntry(l) == load[l].key \in Present(entry)

Current(l) == Attached(l)

\* catch: a value that is left stays, and is not refreshed again for a while.
Failed(l) ==
    /\ Settled(l) /\ UNCHANGED outdated
    /\ LET k == load[l].key
       IN  IF ~Current(l) THEN UNCHANGED <<entry, bytes>>
           ELSE IF entry[k].value = None
           THEN entry' = [entry EXCEPT ![k] = None] /\ bytes' = bytes - entry[k].bytes
           ELSE entry' = [entry EXCEPT ![k].load = None, ![k].cooling = Usable(k)] /\ UNCHANGED bytes
    /\ Ordered(older) /\ UNCHANGED dbVars

Stored(l, size) ==
    LET k == load[l].key
    IN  IF ~Current(l) THEN UNCHANGED <<entry, bytes>>
        ELSE IF size > MaxBytes
        THEN entry' = [entry EXCEPT ![k] = None] /\ bytes' = bytes - entry[k].bytes
        ELSE Trimmed([entry EXCEPT ![k] =
                        [value |-> load[l].saw, bytes |-> size, age |-> "fresh",
                         cooling |-> FALSE, load |-> None]],
                     bytes - entry[k].bytes + size, 0)

\* Mutant: the slot is freed, and nobody in the queue is started.
MutantStartsNobody(l) ==
    /\ active' = active - 1 /\ UNCHANGED queue
    /\ load' = [load EXCEPT ![l] = Free]

\* The slot goes to the first in the queue.
Released(l) ==
    IF queue = <<>>
    THEN /\ active' = active - 1 /\ UNCHANGED queue
         /\ load' = [load EXCEPT ![l] = Free]
    ELSE /\ queue' = Tail(queue) /\ UNCHANGED active
         /\ load' = [load EXCEPT ![l] = Free, ![Head(queue)].phase = "running"]

Run(l) ==
    /\ load[l].phase = "called"
    /\ IF active < Concurrency
       THEN /\ active' = active + 1 /\ load' = [load EXCEPT ![l].phase = "running"]
            /\ UNCHANGED <<queue, callerVars, cacheVars, dbVars>>
       ELSE IF Len(queue) < MaxQueued
       THEN /\ queue' = Append(queue, l) /\ load' = [load EXCEPT ![l].phase = "queued"]
            /\ UNCHANGED <<active, callerVars, cacheVars, dbVars>>
       ELSE load' = [load EXCEPT ![l] = Free] /\ Failed(l) /\ UNCHANGED poolVars

QueueTimeout(l) ==
    /\ load[l].phase = "queued"
    /\ \E i \in DOMAIN queue : queue[i] = l /\ queue' = RemoveAt(queue, i)
    /\ UNCHANGED active
    /\ load' = [load EXCEPT ![l] = Free]
    /\ Failed(l)

Read(l) ==
    /\ load[l].phase = "running" /\ load[l].saw = None
    /\ load' = [load EXCEPT ![l].saw = db]
    /\ UNCHANGED <<poolVars, callerVars, cacheVars, dbVars>>

Finish(l) ==
    /\ load[l].phase = "running" /\ load[l].saw # None
    /\ Released(l)
    /\ Settled(l)
    /\ outdated' = outdated \cup {c \in Callers : caller[c].load = l /\ load[l].saw < caller[c].need}
    /\ \E size \in Sizes : Stored(l, size)
    /\ Ordered(older) /\ UNCHANGED dbVars

\* Mutant: the slot is given back on success only.
MutantKeepsSlot(l) ==
    /\ load[l].phase = "running" /\ load' = [load EXCEPT ![l] = Free]
    /\ UNCHANGED poolVars /\ Failed(l)

LoadFails(l) == load[l].phase = "running" /\ Released(l) /\ Failed(l)

-----------------------------------------------------------------------------
(* A mutation. *)

\* Mutant: the entries go, their bytes stay counted.
MutantKeepsCount(S) ==
    /\ entry' = Without(entry, S) /\ UNCHANGED bytes
    /\ load' = [l \in Loads |-> [load[l] EXCEPT
                  !.cleared = @ \/ \E k \in S \cap Present(entry) : entry[k].load = l]]
    /\ Ordered(older)

Invalidated(S) ==
    /\ entry' = Without(entry, S)
    /\ bytes' = bytes - Weight(entry, S \cap Present(entry))
    /\ load' = [l \in Loads |-> [load[l] EXCEPT
                  !.cleared = @ \/ \E k \in S \cap Present(entry) : entry[k].load = l]]
    /\ Ordered(older)

Begin(w) ==
    /\ w \notin writing
    /\ writing' = writing \cup {w}
    /\ Invalidated(Matched[w])
    /\ UNCHANGED <<poolVars, callerVars, db, floor>>

Commit(w) ==
    /\ w \in writing /\ db < MaxVersion
    /\ db' = db + 1
    /\ UNCHANGED <<cacheVars, load, poolVars, callerVars, writing, floor>>

End(w) ==
    /\ w \in writing
    /\ writing' = writing \ {w}
    /\ Invalidated(Matched[w])
    /\ floor' = [k \in Keys |-> IF k \in Matched[w] THEN db ELSE floor[k]]
    /\ UNCHANGED <<poolVars, callerVars, db>>

Next ==
    \/ Prune
    \/ \E k \in Keys : Age(k) \/ \E c \in Callers : Get(c, k)
    \/ \E l \in Loads : Run(l) \/ QueueTimeout(l) \/ Read(l) \/ Finish(l) \/ LoadFails(l)
    \/ \E w \in Writers : Begin(w) \/ Commit(w) \/ End(w)

Spec == Init /\ [][Next]_vars

\* The event loop runs what is due, and the database driver answers.
FairSpec == Spec /\ \A l \in Loads :
    WF_vars(Run(l)) /\ WF_vars(Read(l)) /\ WF_vars(Finish(l) \/ LoadFails(l))

-----------------------------------------------------------------------------
TypeOK ==
    /\ entry \in [Keys -> {None} \cup Entry]
    /\ load \in [Loads -> Load]
    /\ caller \in [Callers -> [load : Loads \cup {None}, need : Version]]
    /\ db \in Version /\ floor \in [Keys -> Version] /\ writing \subseteq Writers

\* trpc.ts:21-27, queryCache.ts:89-90: a request that starts after a mutation has
\* returned never answers with what was read before it, whichever load it joins.
ReadYourWrites == outdated = {}

\* queryCache.ts:62: a load that runs keeps its entry, so that no second one starts
\* for its key, unless a mutation has invalidated it.
OneLoadPerKey ==
    \A l \in Loads : load[l].phase # "free" => Attached(l) \/ load[l].cleared

\* queryCache.ts:62-68, 92-102: the count of bytes is that of the entries, loads that
\* end after their entry was removed and failed ones included, and both limits hold.
WithinLimits ==
    /\ bytes = Weight(entry, Present(entry)) /\ bytes <= MaxBytes
    /\ Cardinality(Present(entry)) <= MaxEntries

\* requestWorkPool.ts:12-27: a slot is taken exactly as long as its load runs, and
\* nobody waits beside a free one.
SlotsExact ==
    /\ active = Cardinality({l \in Loads : load[l].phase = "running"})
    /\ active <= Concurrency /\ Len(queue) <= MaxQueued
    /\ queue # <<>> => active = Concurrency

\* queryCache.ts:62-68, requestWorkPool.ts:12-27: the cache's count of its entries and
\* bytes and the pool's count of its slots are exact and within their limits, however
\* timeouts, failed loads and mutations interleave.
Accounted == TypeOK /\ WithinLimits /\ SlotsExact

\* Every request is answered: with a value, an error or "busy".
EveryGetSettles ==
    \A c \in Callers : caller[c].load # None ~> caller[c].load = None
=============================================================================
