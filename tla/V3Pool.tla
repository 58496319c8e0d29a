-------------------------------- MODULE V3Pool --------------------------------
(***************************************************************************)
(* forwardx-fxp/v3_session.go: the pool of outgoing physical sessions.     *)
(* Business connections (callers) ask openAt for a stream to an endpoint.  *)
(* They share the sessions of the endpoint's bucket, at most one of them   *)
(* dials at a time, and the number of sessions is limited over all         *)
(* endpoints.                                                              *)
(*                                                                         *)
(* A step is what the code does under one hold of p.mu, or one call of a   *)
(* session.  Buckets and sessions are objects with an identity that        *)
(* goroutines keep after the pool has forgotten them; an identity is used  *)
(* again once nothing refers to it.                                        *)
(***************************************************************************)
EXTENDS Integers, FiniteSets

CONSTANTS
    Callers,     \* goroutines that call openAt
    Keys,        \* endpoints with their transport options (v3PoolKey)
    Sessions,    \* identities of physical sessions
    Buckets,     \* identities of buckets
    PoolLimit,   \* v3PoolSessionLimit (64)
    MaxStreams,  \* streams of a session (128)
    MaxIds,      \* stream IDs of a session (2^32 - 1)
    MaxCalls,    \* calls of openAt
    MaxFaults    \* failing dials, failing sessions, sessions that turn stale

None == "none"
MaxRetries == 2

ASSUME PoolAssumption ==
    /\ IsFiniteSet(Callers) /\ IsFiniteSet(Sessions)
    /\ PoolLimit \in Nat \ {0} /\ MaxStreams \in Nat \ {0} /\ MaxIds \in Nat \ {0}
    /\ MaxCalls \in Nat /\ MaxFaults \in Nat
    /\ None \notin Keys \union Sessions \union Buckets

VARIABLES
    buckets,   \* p.buckets: the bucket of an endpoint, or None
    bucket,    \* the buckets themselves
    count,     \* p.count
    closed,    \* p.closed
    phys,      \* the physical sessions
    call,      \* what each caller is doing
    toClose,   \* sessions p.Close has collected and not yet closed
    calls, faults  \* used up of MaxCalls and MaxFaults

vars == <<buckets, bucket, count, closed, phys, call, toClose, calls, faults>>
bounds == <<calls, faults>>

EmptyBucket == [sessions |-> {}, dialing |-> FALSE, lastErr |-> FALSE]

\* A session is "live", then "failed" until releaseWhenClosed returned its slot.
NoSession == [st |-> "none", key |-> None, bucket |-> None, stale |-> FALSE,
              draining |-> FALSE, opened |-> 0]

Idle == [pc |-> "idle", key |-> None, bucket |-> None, session |-> None, retries |-> 0]

Init ==
    /\ buckets = [k \in Keys |-> None]
    /\ bucket = [b \in Buckets |-> EmptyBucket]
    /\ count = 0
    /\ closed = FALSE
    /\ phys = [s \in Sessions |-> NoSession]
    /\ call = [c \in Callers |-> Idle]
    /\ toClose = {}
    /\ calls = 0
    /\ faults = 0

-----------------------------------------------------------------------------
Live(s) == phys[s].st = "live"
Users(s) == {c \in Callers : call[c].pc = "using" /\ call[c].session = s}

\* Nothing refers to them any more.
FreeSessions == {s \in Sessions : phys[s].st = "none" /\ s \notin toClose
                                    /\ \A c \in Callers : call[c].session # s}
FreeBuckets == {b \in Buckets : /\ \A k \in Keys : buckets[k] # b
                                /\ \A c \in Callers : call[c].bucket # b
                                /\ \A s \in Sessions : phys[s].bucket # b}

\* fail, for every session of S that has not failed yet.
Failing(S) ==
    [s \in Sessions |-> IF s \in S /\ Live(s)
                        THEN [phys[s] EXCEPT !.st = "failed", !.stale = FALSE,
                                             !.draining = FALSE, !.opened = 0]
                        ELSE phys[s]]

\* Caller c goes on as v; the streams of the sessions of S end.
Calls(S, c, v) ==
    [d \in Callers |-> IF d = c THEN v
                       ELSE IF \E s \in S : d \in Users(s) THEN Idle ELSE call[d]]

-----------------------------------------------------------------------------
(* openAt, from the top of its loop to the release of p.mu.                *)

Call(c, k) ==
    /\ call[c].pc = "idle" /\ calls < MaxCalls
    /\ calls' = calls + 1
    /\ call' = [call EXCEPT ![c] = [Idle EXCEPT !.pc = "look", !.key = k]]
    /\ UNCHANGED <<buckets, bucket, count, closed, phys, toClose, faults>>

LookClosed(c) ==
    /\ call[c].pc = "look" /\ closed
    /\ call' = [call EXCEPT ![c] = Idle]
    /\ UNCHANGED <<buckets, bucket, count, closed, phys, toClose, bounds>>

\* The bucket of endpoint k, a new one if there is none.
Entry(k) == IF buckets[k] # None THEN buckets[k] ELSE CHOOSE b \in FreeBuckets : TRUE
Content(k) == IF buckets[k] # None THEN bucket[buckets[k]] ELSE EmptyBucket

Alive(s) == ~phys[s].stale /\ ~phys[s].draining
Kept(k) == {s \in Content(k).sessions : Live(s) /\ Alive(s)}
Pruned(k) == {s \in Content(k).sessions : Live(s) /\ ~Alive(s)}

OpenSlots(s) == MaxStreams - Cardinality(Users(s))
Best(k) == {s \in Kept(k) : OpenSlots(s) > 0 /\ \A t \in Kept(k) : OpenSlots(t) <= OpenSlots(s)}

\* Every way through the loop drops the failed and closes the stale sessions.
Look(c, v, content, n) ==
    LET k == call[c].key
    IN  /\ buckets' = [buckets EXCEPT ![k] = Entry(k)]
        /\ bucket' = [bucket EXCEPT ![Entry(k)] = content]
        /\ phys' = Failing(Pruned(k))
        /\ call' = Calls(Pruned(k), c, v)
        /\ count' = n
        /\ UNCHANGED <<closed, toClose, bounds>>

\* There is always an identity left for a new bucket.
Looking(c) ==
    /\ call[c].pc = "look" /\ ~closed
    /\ buckets[call[c].key] # None \/ FreeBuckets # {}

Select(c) ==
    /\ Looking(c)
    /\ \E s \in Best(call[c].key) :
          Look(c, [call[c] EXCEPT !.pc = "open", !.session = s],
               [Content(call[c].key) EXCEPT !.sessions = Kept(call[c].key)], count)

Join(c) ==
    /\ Looking(c) /\ Best(call[c].key) = {} /\ Content(call[c].key).dialing
    /\ Look(c, [call[c] EXCEPT !.pc = "wait", !.bucket = Entry(call[c].key)],
            [Content(call[c].key) EXCEPT !.sessions = Kept(call[c].key)], count)

NeedsDial(c) == Looking(c) /\ Best(call[c].key) = {} /\ ~Content(call[c].key).dialing

\* The pool limit is reached: an error, and no empty bucket is left behind.
Full(c) ==
    /\ NeedsDial(c) /\ count >= PoolLimit
    /\ LET k == call[c].key
       IN  /\ buckets' = [buckets EXCEPT ![k] = IF Kept(k) = {} THEN None ELSE Entry(k)]
           /\ bucket' = [bucket EXCEPT ![Entry(k)].sessions = Kept(k)]
           /\ phys' = Failing(Pruned(k))
           /\ call' = Calls(Pruned(k), c, Idle)
    /\ UNCHANGED <<count, closed, toClose, bounds>>

StartDial(c) ==
    /\ NeedsDial(c) /\ count < PoolLimit
    /\ Look(c, [call[c] EXCEPT !.pc = "dial", !.bucket = Entry(call[c].key)],
            [Content(call[c].key) EXCEPT !.sessions = Kept(call[c].key), !.dialing = TRUE],
            count + 1)

-----------------------------------------------------------------------------
(* selected.Open(), after p.mu was released.                               *)

Opening(c, s) == call[c].pc = "open" /\ call[c].session = s

Again(c, n) == [Idle EXCEPT !.pc = "look", !.key = call[c].key, !.retries = n]

Usable(s) == Live(s) /\ ~phys[s].draining

IdsLeft(s) == phys[s].opened < MaxIds

\* The OPEN frame is a successful write of the session.
OpenStream(c, s) ==
    /\ Opening(c, s) /\ Usable(s) /\ OpenSlots(s) > 0 /\ IdsLeft(s)
    /\ phys' = [phys EXCEPT ![s].opened = @ + 1, ![s].stale = FALSE]
    /\ call' = [call EXCEPT ![c] = [Idle EXCEPT !.pc = "using", !.session = s]]
    /\ UNCHANGED <<buckets, bucket, count, closed, toClose, bounds>>

\* ErrStreamLimit: another caller took the last slot.
OpenLimited(c, s) ==
    /\ Opening(c, s) /\ Usable(s) /\ OpenSlots(s) = 0
    /\ call' = [call EXCEPT ![c] = Again(c, call[c].retries)]
    /\ UNCHANGED <<buckets, bucket, count, closed, phys, toClose, bounds>>

\* The stream IDs are used up: the session drains from now on.
OpenExhausted(c, s) ==
    /\ Opening(c, s) /\ Usable(s) /\ OpenSlots(s) > 0 /\ ~IdsLeft(s)
    /\ phys' = [phys EXCEPT ![s].draining = TRUE]
    /\ UNCHANGED <<buckets, bucket, count, closed, call, toClose, bounds>>

\* Any other error: openAt closes the session and tries again, twice at most.
OpenFails(c, s) ==
    /\ Opening(c, s) /\ ~Usable(s)
    /\ phys' = Failing({s})
    /\ call' = Calls({s}, c, IF call[c].retries < MaxRetries
                             THEN Again(c, call[c].retries + 1) ELSE Idle)
    /\ UNCHANGED <<buckets, bucket, count, closed, toClose, bounds>>

\* The sessions that drain and lose their last stream with caller c.
Drained(c) == {s \in Sessions : phys[s].draining /\ Users(s) = {c}}

\* The owner of a stream closes it.
Hangup(c) ==
    /\ call[c].pc = "using"
    /\ phys' = Failing(Drained(c))
    /\ call' = [call EXCEPT ![c] = Idle]
    /\ UNCHANGED <<buckets, bucket, count, closed, toClose, bounds>>

-----------------------------------------------------------------------------
(* The dial, and those who wait for it.                                    *)

MutantWakesNobody(b, d) == FALSE

\* close(bucket.changed)
Woken(b, d) == call[d].pc = "wait" /\ call[d].bucket = b

MutantForgetsClosed == FALSE

PoolClosed == closed

\* The bucket's dial is over: v is what its caller does next.
Dialed(c, v, content) ==
    /\ bucket' = [bucket EXCEPT ![call[c].bucket] = content]
    /\ call' = [d \in Callers |-> IF d = c THEN v
                                  ELSE IF Woken(call[c].bucket, d) THEN [call[d] EXCEPT !.pc = "woken"]
                                  ELSE call[d]]
    /\ UNCHANGED <<closed, toClose, calls>>

DialOk(c) ==
    /\ call[c].pc = "dial" /\ ~PoolClosed
    /\ FreeSessions # {}
    /\ LET b == call[c].bucket
           s == CHOOSE x \in FreeSessions : TRUE
       IN  /\ phys' = [phys EXCEPT ![s] = [NoSession EXCEPT !.st = "live", !.key = call[c].key, !.bucket = b]]
           /\ Dialed(c, Again(c, call[c].retries),
                     [bucket[b] EXCEPT !.dialing = FALSE, !.lastErr = FALSE, !.sessions = @ \union {s}])
    /\ UNCHANGED <<buckets, count, faults>>

NothingLeft(b) == bucket[b].sessions = {}

\* A pool that was closed meanwhile fails the dial, too.
DialFails(c) ==
    /\ call[c].pc = "dial"
    /\ \/ PoolClosed /\ UNCHANGED faults
       \/ faults < MaxFaults /\ faults' = faults + 1
    /\ LET b == call[c].bucket
       IN  /\ buckets' = IF NothingLeft(b) THEN [buckets EXCEPT ![call[c].key] = None] ELSE buckets
           /\ Dialed(c, Idle, [bucket[b] EXCEPT !.dialing = FALSE, !.lastErr = TRUE])
    /\ count' = count - 1
    /\ UNCHANGED phys

\* A woken caller looks at the outcome of the last dial of its bucket.
Learn(c) ==
    /\ call[c].pc = "woken"
    /\ call' = [call EXCEPT ![c] = IF bucket[call[c].bucket].lastErr THEN Idle
                                   ELSE Again(c, call[c].retries)]
    /\ UNCHANGED <<buckets, bucket, count, closed, phys, toClose, bounds>>

-----------------------------------------------------------------------------
(* releaseWhenClosed, Close, and what happens to a session.                *)

MutantIfListed(s) == IF s \in bucket[phys[s].bucket].sessions THEN count - 1 ELSE count

SlotReturned(s) == IF count > 0 THEN count - 1 ELSE count

MutantWhileDialing(b, k, left) == left = {} /\ buckets[k] = b
MutantAnyBucket(b, k, left) == left = {} /\ ~bucket[b].dialing

\* The empty bucket is forgotten, unless its endpoint has another one by now.
Forgets(b, k, left) == left = {} /\ ~bucket[b].dialing /\ buckets[k] = b

Release(s) ==
    /\ phys[s].st = "failed"
    /\ count' = SlotReturned(s)
    /\ LET b == phys[s].bucket
           k == phys[s].key
           left == bucket[b].sessions \ {s}
       IN  /\ bucket' = [bucket EXCEPT ![b].sessions = left]
           /\ buckets' = IF Forgets(b, k, left) THEN [buckets EXCEPT ![k] = None] ELSE buckets
    /\ phys' = [phys EXCEPT ![s] = NoSession]
    /\ UNCHANGED <<closed, call, toClose, bounds>>

Close ==
    /\ ~closed
    /\ closed' = TRUE
    /\ toClose' = UNION {bucket[buckets[k]].sessions : k \in {x \in Keys : buckets[x] # None}}
    /\ UNCHANGED <<buckets, bucket, count, phys, call, bounds>>

CloseSession(s) ==
    /\ s \in toClose
    /\ toClose' = toClose \ {s}
    /\ phys' = Failing({s})
    /\ call' = [c \in Callers |-> IF c \in Users(s) THEN Idle ELSE call[c]]
    /\ UNCHANGED <<buckets, bucket, count, closed, bounds>>

Fault == faults < MaxFaults /\ faults' = faults + 1 /\ UNCHANGED calls

\* The connection breaks, a write times out, or the session was idle.
Breaks(s) ==
    /\ Fault /\ Live(s)
    /\ phys' = Failing({s})
    /\ call' = [c \in Callers |-> IF c \in Users(s) THEN Idle ELSE call[c]]
    /\ UNCHANGED <<buckets, bucket, count, closed, toClose>>

\* Nothing was written for v3SessionStaleAge, because there was nothing to write
\* or because nothing leaves.
Ages(s) ==
    /\ Fault /\ Live(s) /\ ~phys[s].stale
    /\ phys' = [phys EXCEPT ![s].stale = TRUE]
    /\ UNCHANGED <<buckets, bucket, count, closed, call, toClose>>

\* A stream of the session writes again.
Writes(s) ==
    /\ Live(s) /\ phys[s].stale /\ Users(s) # {}
    /\ phys' = [phys EXCEPT ![s].stale = FALSE]
    /\ UNCHANGED <<buckets, bucket, count, closed, call, toClose, bounds>>

-----------------------------------------------------------------------------
OpenAt(c) ==
    \/ LookClosed(c) \/ Select(c) \/ Join(c) \/ Full(c) \/ StartDial(c) \/ Learn(c)
    \/ \E s \in Sessions : OpenStream(c, s) \/ OpenLimited(c, s) \/ OpenExhausted(c, s) \/ OpenFails(c, s)

Dial(c) == DialOk(c) \/ DialFails(c)

Next ==
    \/ \E c \in Callers : (\E k \in Keys : Call(c, k)) \/ OpenAt(c) \/ Dial(c) \/ Hangup(c)
    \/ \E s \in Sessions : Release(s) \/ CloseSession(s) \/ Breaks(s) \/ Ages(s) \/ Writes(s)
    \/ Close

Spec == Init /\ [][Next]_vars

(* The goroutines of the callers run, a dial ends, by its timeouts at the  *)
(* latest, and sessions that are to be closed or released are.  Nobody has *)
(* to call, to hang up or to close the pool.                               *)
Fairness ==
    /\ \A c \in Callers : WF_vars(OpenAt(c) \/ Dial(c))
    /\ WF_vars(\E s \in Sessions : Release(s))
    /\ WF_vars(\E s \in Sessions : CloseSession(s))

FairSpec == Spec /\ Fairness

-----------------------------------------------------------------------------
BucketIds == Buckets \union {None}

TypeOK ==
    /\ buckets \in [Keys -> BucketIds]
    /\ bucket \in [Buckets -> [sessions : SUBSET Sessions, dialing : BOOLEAN, lastErr : BOOLEAN]]
    /\ count \in Nat
    /\ closed \in BOOLEAN
    /\ phys \in [Sessions -> [st : {"none", "live", "failed"}, key : Keys \union {None}, bucket : BucketIds,
                              stale : BOOLEAN, draining : BOOLEAN, opened : 0..MaxIds]]
    /\ call \in [Callers -> [pc : {"idle", "look", "open", "wait", "woken", "dial", "using"},
                             key : Keys \union {None}, bucket : BucketIds,
                             session : Sessions \union {None}, retries : 0..MaxRetries]]
    /\ toClose \subseteq Sessions
    /\ calls \in 0..MaxCalls
    /\ faults \in 0..MaxFaults

Dialing == {c \in Callers : call[c].pc = "dial"}
Unreleased == {s \in Sessions : phys[s].st # "none"}

(* v3_session.go:138, 343: the count is exactly the dials under way and    *)
(* the sessions whose slot has not come back, whoever removed them from    *)
(* their bucket and however often it was replaced: no slot is ever lost.   *)
CountExact == count = Cardinality(Dialing) + Cardinality(Unreleased)

(* Callers of one endpoint never dial at the same time, through whichever  *)
(* bucket they came ("instead of all creating their own").                 *)
OneDialPerEndpoint == \A c, d \in Dialing : call[c].key = call[d].key => c = d

(* A working session is in the bucket its endpoint has now: the next       *)
(* caller shares it, and Close finds it.                                   *)
WorkingSessionsShared ==
    \A s \in Sessions : Live(s) =>
        LET b == buckets[phys[s].key] IN b # None /\ s \in bucket[b].sessions

(* Whoever asks for a stream gets one or an error: nobody waits for ever   *)
(* for a dial that is over, and the loop of openAt ends.  (The calls of an *)
(* instance are bounded: once the last has returned it stays so.)          *)
EveryCallReturns == []<>(\A c \in Callers : call[c].pc \in {"idle", "using"})

(* After Close every session has ended and returned its slot, the one that *)
(* was being dialled included.                                             *)
CloseEndsAll == closed ~> (count = 0 /\ Unreleased = {})

(* v3_session.go:21: a stale session is only given no new streams; the     *)
(* streams it carries are closed by their owners, by a failure of the      *)
(* session or with the pool.                                               *)
StaleSessionKeepsStreams ==
    [][\A s \in Sessions :
          Live(s) /\ phys[s].stale /\ Users(s) # {} /\ phys'[s].st = "failed" /\ ~closed
          => faults' = faults + 1]_vars

=============================================================================
