---------------------------- MODULE V3Pool_proofs ----------------------------
(* The slots of the session pool are accounted for, whatever the number of *)
(* callers, endpoints and sessions and whatever fails.                     *)
EXTENDS V3Pool, FiniteSetTheorems, TLAPS

Bucket == [sessions : SUBSET Sessions, dialing : BOOLEAN, lastErr : BOOLEAN]
Session == [st : {"none", "live", "failed"}, key : Keys \union {None}, bucket : BucketIds,
            stale : BOOLEAN, draining : BOOLEAN, opened : 0..MaxIds]
Doing == [pc : {"idle", "look", "open", "wait", "woken", "dial", "using"},
          key : Keys \union {None}, bucket : BucketIds,
          session : Sessions \union {None}, retries : 0..MaxRetries]

(* Who is inside openAt knows its endpoint.                                *)
Asking == {d \in Doing : d.pc \in {"idle", "using"} \/ d.key \in Keys}

Typed ==
    /\ buckets \in [Keys -> BucketIds]
    /\ bucket \in [Buckets -> Bucket]
    /\ count \in Nat
    /\ closed \in BOOLEAN
    /\ phys \in [Sessions -> Session]
    /\ call \in [Callers -> Asking]
    /\ toClose \subseteq Sessions
    /\ calls \in 0..MaxCalls
    /\ faults \in 0..MaxFaults

LEMMA TypedTypeOK == Typed => TypeOK
BY DEF Typed, TypeOK, Bucket, Session, Doing, Asking

(* fail changes no identity and leaves no session without a state.         *)
LEMMA FailingType ==
  ASSUME Typed, NEW S
  PROVE  /\ Failing(S) \in [Sessions -> Session]
         /\ \A s \in Sessions : Failing(S)[s].st = "none" <=> phys[s].st = "none"
<1>. USE PoolAssumption
<1>1. ASSUME NEW s \in Sessions
      PROVE  Failing(S)[s] \in Session /\ (Failing(S)[s].st = "none" <=> phys[s].st = "none")
  <2>1. phys[s] \in Session
    BY DEF Typed
  <2>2. CASE s \in S /\ Live(s)
    <3>1. Failing(S)[s] = [phys[s] EXCEPT !.st = "failed", !.stale = FALSE,
                                          !.draining = FALSE, !.opened = 0]
      BY <2>2 DEF Failing
    <3>2. 0 \in 0..MaxIds
      OBVIOUS
    <3>3. Failing(S)[s] \in Session /\ Failing(S)[s].st = "failed"
      BY <2>1, <3>1, <3>2 DEF Session
    <3>. QED
      BY <2>2, <3>3 DEF Live
  <2>3. CASE ~(s \in S /\ Live(s))
    BY <2>1, <2>3 DEF Failing
  <2>. QED
    BY <2>2, <2>3
<1>2. Failing(S) = [s \in Sessions |-> Failing(S)[s]]
  BY DEF Failing
<1>. QED
  BY <1>1, <1>2

LEMMA IdleType == Idle \in Asking /\ Idle.pc = "idle"
BY DEF Idle, Asking, Doing, BucketIds, MaxRetries

(* The other callers only lose streams, and with them no dial.             *)
LEMMA CallsType ==
  ASSUME Typed, NEW S, NEW c \in Callers, NEW v \in Asking
  PROVE  /\ Calls(S, c, v) \in [Callers -> Asking]
         /\ Calls(S, c, v)[c] = v
         /\ \A d \in Callers \ {c} : \/ Calls(S, c, v)[d] = call[d]
                                     \/ Calls(S, c, v)[d] = Idle /\ call[d].pc = "using"
<1>. DEFINE f == Calls(S, c, v)
<1>1. f = [d \in Callers |-> IF d = c THEN v
                             ELSE IF \E s \in S : d \in Users(s) THEN Idle ELSE call[d]]
  BY DEF Calls
<1>2. \A d \in Callers : call[d] \in Asking
  BY DEF Typed
<1>3. \A d \in Callers : (\E s \in S : d \in Users(s)) => call[d].pc = "using"
  BY DEF Users
<1>4. Idle \in Asking
  BY IdleType
<1>. HIDE DEF f
<1>5. f \in [Callers -> Asking] /\ f[c] = v
  BY <1>1, <1>2, <1>4
<1>6. \A d \in Callers \ {c} : f[d] = call[d] \/ (f[d] = Idle /\ call[d].pc = "using")
  BY <1>1, <1>3
<1>. QED
  BY <1>5, <1>6 DEF f


LEMMA InitTyped == Init => Typed
<1>. SUFFICES ASSUME Init PROVE Typed
  OBVIOUS
<1>. USE PoolAssumption
<1>1. EmptyBucket \in Bucket /\ NoSession \in Session
  BY DEF EmptyBucket, Bucket, NoSession, Session, BucketIds
<1>2. buckets \in [Keys -> BucketIds] /\ bucket \in [Buckets -> Bucket]
  BY <1>1 DEF Init, BucketIds
<1>3. phys \in [Sessions -> Session] /\ call \in [Callers -> Asking]
  BY <1>1, IdleType DEF Init
<1>4. count \in Nat /\ calls \in 0..MaxCalls /\ faults \in 0..MaxFaults
  BY DEF Init
<1>5. closed \in BOOLEAN /\ toClose \subseteq Sessions
  BY DEF Init
<1>. QED
  BY <1>2, <1>3, <1>4, <1>5 DEF Typed

(* What a caller finds, and leaves, in the bucket of its endpoint.         *)
LEMMA EntryType ==
  ASSUME Typed, NEW c \in Callers, Looking(c)
  PROVE  /\ call[c].key \in Keys
         /\ Entry(call[c].key) \in Buckets
         /\ Content(call[c].key) \in Bucket
         /\ buckets[call[c].key] = None => Entry(call[c].key) \in FreeBuckets
         /\ buckets[call[c].key] # None =>
              /\ Entry(call[c].key) = buckets[call[c].key]
              /\ Content(call[c].key) = bucket[Entry(call[c].key)]
<1>. DEFINE k == call[c].key
<1>1. k \in Keys
  BY DEF Typed, Looking, Asking
<1>2. buckets[k] \in BucketIds /\ FreeBuckets \subseteq Buckets
  BY <1>1 DEF Typed, FreeBuckets
<1>3. EmptyBucket \in Bucket
  BY DEF EmptyBucket, Bucket
<1>4. CASE buckets[k] # None
  BY <1>1, <1>2, <1>4 DEF Entry, Content, BucketIds, Typed
<1>5. CASE buckets[k] = None
  <2>1. FreeBuckets # {}
    BY <1>5 DEF Looking
  <2>2. Entry(k) \in FreeBuckets
    BY <1>5, <2>1 DEF Entry
  <2>. QED
    BY <1>1, <1>2, <1>3, <1>5, <2>2 DEF Content
<1>. QED
  BY <1>4, <1>5

LEMMA LookTyped ==
  ASSUME Typed, NEW c \in Callers, Looking(c), NEW v \in Asking, NEW content \in Bucket,
         NEW n \in Nat, Look(c, v, content, n)
  PROVE  Typed'
<1>. DEFINE k == call[c].key
<1>1. k \in Keys /\ Entry(k) \in Buckets
  BY EntryType
<1>2. /\ buckets' = [buckets EXCEPT ![k] = Entry(k)]
      /\ bucket' = [bucket EXCEPT ![Entry(k)] = content]
      /\ phys' = Failing(Pruned(k))
      /\ call' = Calls(Pruned(k), c, v)
      /\ count' = n
      /\ UNCHANGED <<closed, toClose, calls, faults>>
  BY DEF Look, bounds
<1>3. phys' \in [Sessions -> Session] /\ call' \in [Callers -> Asking]
  BY <1>2, FailingType, CallsType
<1>. QED
  BY <1>1, <1>2, <1>3 DEF Typed, BucketIds

(* The caller's next state, whatever it finds.                             *)
LEMMA AskingSteps ==
  ASSUME Typed, NEW c \in Callers, call[c].pc \notin {"idle", "using"}
  PROVE  /\ \A n \in 0..MaxRetries : Again(c, n) \in Asking /\ Again(c, n).pc = "look"
         /\ \A s \in Sessions : [call[c] EXCEPT !.pc = "open", !.session = s] \in Asking
         /\ \A b \in Buckets, p \in {"wait", "dial"} : [call[c] EXCEPT !.pc = p, !.bucket = b] \in Asking
<1>1. call[c] \in Doing /\ call[c].key \in Keys
  BY DEF Typed, Asking
<1>2. \A n \in 0..MaxRetries : Again(c, n) \in Asking /\ Again(c, n).pc = "look"
  BY <1>1 DEF Again, Idle, Asking, Doing, BucketIds
<1>3. \A s \in Sessions : [call[c] EXCEPT !.pc = "open", !.session = s] \in Asking
  BY <1>1 DEF Asking, Doing
<1>4. \A b \in Buckets, p \in {"wait", "dial"} : [call[c] EXCEPT !.pc = p, !.bucket = b] \in Asking
  BY <1>1 DEF Asking, Doing, BucketIds
<1>. QED
  BY <1>2, <1>3, <1>4


(* Every action that is not a look of openAt keeps the types, too.         *)
LEMMA SelectTyped ==
  ASSUME Typed, NEW c \in Callers, Select(c) \/ Join(c) \/ StartDial(c)
  PROVE  Typed'
<1>. DEFINE k == call[c].key
<1>1. Looking(c)
  BY DEF Select, Join, StartDial, NeedsDial
<1>2. /\ call[c].pc \notin {"idle", "using"} /\ count \in Nat
      /\ Entry(k) \in Buckets /\ Content(k) \in Bucket /\ Kept(k) \subseteq Sessions
  <2>1. Entry(k) \in Buckets /\ Content(k) \in Bucket
    BY <1>1, EntryType
  <2>. QED
    BY <1>1, <2>1 DEF Looking, Typed, Kept, Bucket
<1>3. /\ [Content(k) EXCEPT !.sessions = Kept(k)] \in Bucket
      /\ [Content(k) EXCEPT !.sessions = Kept(k), !.dialing = TRUE] \in Bucket
  BY <1>2 DEF Bucket
<1>4. CASE Select(c)
  <2>1. PICK s \in Best(k) :
           Look(c, [call[c] EXCEPT !.pc = "open", !.session = s],
                [Content(k) EXCEPT !.sessions = Kept(k)], count)
    BY <1>4 DEF Select
  <2>2. [call[c] EXCEPT !.pc = "open", !.session = s] \in Asking
    BY <1>2, AskingSteps DEF Best
  <2>. QED
    BY <1>1, <1>2, <1>3, <2>1, <2>2, LookTyped
<1>5. CASE Join(c)
  <2>1. [call[c] EXCEPT !.pc = "wait", !.bucket = Entry(k)] \in Asking
    BY <1>2, AskingSteps
  <2>2. Look(c, [call[c] EXCEPT !.pc = "wait", !.bucket = Entry(k)],
             [Content(k) EXCEPT !.sessions = Kept(k)], count)
    BY <1>5 DEF Join
  <2>. QED
    BY <1>1, <1>2, <1>3, <2>1, <2>2, LookTyped
<1>6. CASE StartDial(c)
  <2>1. [call[c] EXCEPT !.pc = "dial", !.bucket = Entry(k)] \in Asking
    BY <1>2, AskingSteps
  <2>2. Look(c, [call[c] EXCEPT !.pc = "dial", !.bucket = Entry(k)],
             [Content(k) EXCEPT !.sessions = Kept(k), !.dialing = TRUE], count + 1)
    BY <1>6 DEF StartDial
  <2>3. count + 1 \in Nat
    BY <1>2
  <2>. QED
    BY <1>1, <1>3, <2>1, <2>2, <2>3, LookTyped
<1>. QED
  BY <1>4, <1>5, <1>6

LEMMA FullTyped ==
  ASSUME Typed, NEW c \in Callers, Full(c)
  PROVE  Typed'
<1>. DEFINE k == call[c].key
<1>1. Looking(c) /\ Entry(k) \in Buckets /\ k \in Keys /\ Content(k) \in Bucket
  BY EntryType DEF Full, NeedsDial
<1>2. Kept(k) \subseteq Sessions
  BY <1>1 DEF Kept, Bucket
<1>3. bucket[Entry(k)] \in Bucket
  BY <1>1 DEF Typed
<1>4. [bucket[Entry(k)] EXCEPT !.sessions = Kept(k)] \in Bucket
  BY <1>2, <1>3 DEF Bucket
<1>5. /\ bucket' = [bucket EXCEPT ![Entry(k)] = [bucket[Entry(k)] EXCEPT !.sessions = Kept(k)]]
      /\ buckets' = [buckets EXCEPT ![k] = IF Kept(k) = {} THEN None ELSE Entry(k)]
      /\ phys' = Failing(Pruned(k))
      /\ call' = Calls(Pruned(k), c, Idle)
      /\ UNCHANGED <<count, closed, toClose, calls, faults>>
  BY DEF Full, bounds
<1>6. phys' \in [Sessions -> Session] /\ call' \in [Callers -> Asking]
  BY <1>5, FailingType, CallsType, IdleType
<1>7. bucket' \in [Buckets -> Bucket]
  BY <1>4, <1>5 DEF Typed
<1>8. buckets' \in [Keys -> BucketIds]
  BY <1>1, <1>5 DEF Typed, BucketIds
<1>. QED
  BY <1>5, <1>6, <1>7, <1>8 DEF Typed


LEMMA HangupTyped ==
  ASSUME Typed, NEW c \in Callers, Hangup(c)
  PROVE  Typed'
<1>1. phys' \in [Sessions -> Session]
  BY FailingType DEF Hangup
<1>. QED
  BY <1>1, IdleType DEF Typed, Hangup, bounds

LEMMA CallerTyped ==
  ASSUME Typed, NEW c \in Callers,
         (\E k \in Keys : Call(c, k)) \/ LookClosed(c) \/ Learn(c)
  PROVE  Typed'
<1>1. \A k \in Keys : [Idle EXCEPT !.pc = "look", !.key = k] \in Asking
  BY IdleType DEF Asking, Doing
<1>2. Idle \in Asking
  BY IdleType
<1>3. CASE \E k \in Keys : Call(c, k)
  <2>1. PICK k \in Keys : Call(c, k)
    BY <1>3
  <2>2. calls' \in 0..MaxCalls
    <3>1. calls < MaxCalls /\ calls' = calls + 1
      BY <2>1 DEF Call
    <3>2. calls \in 0..MaxCalls /\ MaxCalls \in Nat
      BY PoolAssumption DEF Typed
    <3>. QED
      BY <3>1, <3>2
  <2>3. call' \in [Callers -> Asking]
    BY <1>1, <2>1 DEF Typed, Call
  <2>. QED
    BY <2>1, <2>2, <2>3 DEF Typed, Call
<1>4. CASE LookClosed(c)
  BY <1>2, <1>4 DEF Typed, LookClosed, bounds
<1>5. CASE Learn(c)
  <2>1. call[c].retries \in 0..MaxRetries /\ call[c].pc \notin {"idle", "using"}
    BY <1>5 DEF Learn, Typed, Asking, Doing
  <2>2. Again(c, call[c].retries) \in Asking
    BY <2>1, AskingSteps
  <2>. QED
    BY <1>2, <1>5, <2>2 DEF Typed, Learn, bounds
<1>. QED
  BY <1>3, <1>4, <1>5

LEMMA OpenTyped ==
  ASSUME Typed, NEW c \in Callers, NEW s \in Sessions,
         OpenStream(c, s) \/ OpenLimited(c, s) \/ OpenExhausted(c, s) \/ OpenFails(c, s)
  PROVE  Typed'
<1>1. /\ call[c].pc = "open" /\ call[c].retries \in 0..MaxRetries
      /\ phys[s] \in Session /\ phys[s].opened \in 0..MaxIds
  BY DEF OpenStream, OpenLimited, OpenExhausted, OpenFails, Opening, Typed, Asking, Doing, Session
<1>2. \A n \in 0..MaxRetries : Again(c, n) \in Asking
  BY <1>1, AskingSteps
<1>3. CASE OpenStream(c, s)
  <2>1. [Idle EXCEPT !.pc = "using", !.session = s] \in Asking
    BY IdleType DEF Asking, Doing
  <2>2. phys[s].opened + 1 \in 0..MaxIds
    BY <1>1, <1>3, PoolAssumption DEF OpenStream, IdsLeft
  <2>3. phys' = [phys EXCEPT ![s] = [phys[s] EXCEPT !.opened = phys[s].opened + 1, !.stale = FALSE]]
    BY <1>3 DEF OpenStream, Typed
  <2>4. [phys[s] EXCEPT !.opened = phys[s].opened + 1, !.stale = FALSE] \in Session
    BY <1>1, <2>2 DEF Session
  <2>5. phys' \in [Sessions -> Session]
    BY <2>3, <2>4 DEF Typed
  <2>. QED
    BY <1>3, <2>1, <2>5 DEF Typed, OpenStream, bounds
<1>4. CASE OpenLimited(c, s)
  BY <1>1, <1>2, <1>4 DEF Typed, OpenLimited, bounds
<1>5. CASE OpenExhausted(c, s)
  <2>1. phys' \in [Sessions -> Session]
    BY <1>1, <1>5 DEF OpenExhausted, Typed, Session
  <2>. QED
    BY <1>5, <2>1 DEF Typed, OpenExhausted, bounds
<1>6. CASE OpenFails(c, s)
  <2>1. call[c].retries < MaxRetries => call[c].retries + 1 \in 0..MaxRetries
    BY <1>1 DEF MaxRetries
  <2>2. (IF call[c].retries < MaxRetries THEN Again(c, call[c].retries + 1) ELSE Idle) \in Asking
    BY <1>2, <2>1, IdleType
  <2>3. phys' \in [Sessions -> Session] /\ call' \in [Callers -> Asking]
    BY <1>6, <2>2, FailingType, CallsType DEF OpenFails
  <2>. QED
    BY <1>6, <2>3 DEF Typed, OpenFails, bounds
<1>. QED
  BY <1>3, <1>4, <1>5, <1>6

LEMMA DialedTyped ==
  ASSUME Typed, NEW c \in Callers, NEW v \in Asking, NEW content, Dialed(c, v, content),
         call[c].bucket \in Buckets => content \in Bucket
  PROVE  bucket' \in [Buckets -> Bucket] /\ call' \in [Callers -> Asking]
<1>1. bucket' \in [Buckets -> Bucket]
  BY DEF Dialed, Typed
<1>2. ASSUME NEW d \in Callers, Woken(call[c].bucket, d) PROVE [call[d] EXCEPT !.pc = "woken"] \in Asking
  BY <1>2 DEF Typed, Woken, Asking, Doing
<1>3. \A d \in Callers : call[d] \in Asking
  BY DEF Typed
<1>4. call' = [d \in Callers |-> IF d = c THEN v
                                 ELSE IF Woken(call[c].bucket, d) THEN [call[d] EXCEPT !.pc = "woken"]
                                 ELSE call[d]]
  BY DEF Dialed
<1>. QED
  BY <1>1, <1>2, <1>3, <1>4


LEMMA FaultsType ==
  ASSUME Typed, faults < MaxFaults, faults' = faults + 1
  PROVE  faults' \in 0..MaxFaults
<1>1. faults \in 0..MaxFaults /\ MaxFaults \in Nat
  BY PoolAssumption DEF Typed
<1>. QED
  BY <1>1

LEMMA DialTyped ==
  ASSUME Typed, NEW c \in Callers, Dial(c), call[c].pc = "dial" => count > 0
  PROVE  Typed'
<1>. DEFINE b == call[c].bucket
            k == call[c].key
<1>1. /\ call[c].pc = "dial" /\ k \in Keys /\ b \in BucketIds
      /\ call[c].retries \in 0..MaxRetries
  BY DEF Dial, DialOk, DialFails, Typed, Asking, Doing
<1>2. CASE DialOk(c)
  <2>. DEFINE s == CHOOSE x \in FreeSessions : TRUE
              new == [NoSession EXCEPT !.st = "live", !.key = k, !.bucket = b]
              content == [bucket[b] EXCEPT !.dialing = FALSE, !.lastErr = FALSE, !.sessions = @ \union {s}]
  <2>1. s \in Sessions
    BY <1>2 DEF DialOk, FreeSessions
  <2>2. new \in Session
    <3>1. NoSession \in Session
      BY PoolAssumption DEF NoSession, Session, BucketIds
    <3>. QED
      BY <1>1, <3>1 DEF Session
  <2>3. b \in Buckets => content \in Bucket
    BY <2>1 DEF Typed, Bucket
  <2>4. /\ phys' = [phys EXCEPT ![s] = new]
        /\ Dialed(c, Again(c, call[c].retries), content)
        /\ UNCHANGED <<buckets, count, faults>>
    BY <1>2 DEF DialOk
  <2>5. Again(c, call[c].retries) \in Asking
    BY <1>1, AskingSteps
  <2>. HIDE DEF s, new, content
  <2>6. bucket' \in [Buckets -> Bucket] /\ call' \in [Callers -> Asking]
    BY <2>3, <2>4, <2>5, DialedTyped
  <2>. QED
    BY <2>1, <2>2, <2>4, <2>6 DEF Typed, Dialed
<1>3. CASE DialFails(c)
  <2>. DEFINE content == [bucket[b] EXCEPT !.dialing = FALSE, !.lastErr = TRUE]
  <2>1. /\ buckets' = IF NothingLeft(b) THEN [buckets EXCEPT ![k] = None] ELSE buckets
        /\ Dialed(c, Idle, content)
        /\ count' = count - 1
        /\ UNCHANGED phys
    BY <1>3 DEF DialFails
  <2>2. b \in Buckets => content \in Bucket
    BY DEF Typed, Bucket
  <2>3. bucket' \in [Buckets -> Bucket] /\ call' \in [Callers -> Asking]
    BY <2>1, <2>2, DialedTyped, IdleType
  <2>4. faults' \in 0..MaxFaults
    BY <1>3, FaultsType DEF DialFails, Typed
  <2>5. buckets' \in [Keys -> BucketIds]
    BY <2>1 DEF Typed, BucketIds
  <2>6. count' \in Nat
    BY <1>1, <2>1 DEF Typed
  <2>. QED
    BY <2>1, <2>3, <2>4, <2>5, <2>6 DEF Typed, Dialed
<1>. QED
  BY <1>2, <1>3 DEF Dial

LEMMA ReleaseTyped ==
  ASSUME Typed, NEW s \in Sessions, Release(s)
  PROVE  Typed'
<1>. DEFINE b == phys[s].bucket
            left == bucket[b].sessions \ {s}
<1>1. /\ bucket' = [bucket EXCEPT ![b] = [bucket[b] EXCEPT !.sessions = left]]
      /\ buckets' = IF Forgets(b, phys[s].key, left) THEN [buckets EXCEPT ![phys[s].key] = None] ELSE buckets
      /\ count' = SlotReturned(s)
      /\ phys' = [phys EXCEPT ![s] = NoSession]
      /\ UNCHANGED <<closed, call, toClose, calls, faults>>
  BY DEF Release, bounds
<1>2. b \in Buckets => [bucket[b] EXCEPT !.sessions = left] \in Bucket
  BY DEF Typed, Bucket
<1>3. bucket' \in [Buckets -> Bucket]
  BY <1>1, <1>2 DEF Typed
<1>4. buckets' \in [Keys -> BucketIds]
  BY <1>1 DEF Typed, BucketIds
<1>5. count' \in Nat
  BY <1>1 DEF Typed, SlotReturned
<1>6. phys' \in [Sessions -> Session]
  <2>1. NoSession \in Session
    BY PoolAssumption DEF NoSession, Session, BucketIds
  <2>. QED
    BY <1>1, <2>1 DEF Typed
<1>. QED
  BY <1>1, <1>3, <1>4, <1>5, <1>6 DEF Typed

(* What happens to a session, and Close.                                   *)
LEMMA SessionTyped ==
  ASSUME Typed, NEW s \in Sessions, CloseSession(s) \/ Breaks(s) \/ Ages(s) \/ Writes(s)
  PROVE  Typed'
<1>1. phys[s] \in Session
  BY DEF Typed
<1>2. CASE CloseSession(s) \/ Breaks(s)
  <2>1. /\ phys' = Failing({s})
        /\ call' = [c \in Callers |-> IF c \in Users(s) THEN Idle ELSE call[c]]
        /\ UNCHANGED <<buckets, bucket, count, closed, calls>>
    BY <1>2 DEF CloseSession, Breaks, Fault, bounds
  <2>2. phys' \in [Sessions -> Session] /\ call' \in [Callers -> Asking]
    BY <2>1, FailingType, IdleType DEF Typed
  <2>3. toClose' \subseteq Sessions
    BY <1>2 DEF Typed, CloseSession, Breaks
  <2>4. faults' \in 0..MaxFaults
    BY <1>2, FaultsType DEF Typed, CloseSession, Breaks, Fault, bounds
  <2>. QED
    BY <2>1, <2>2, <2>3, <2>4 DEF Typed
<1>3. CASE Ages(s)
  <2>1. faults' \in 0..MaxFaults
    BY <1>3, FaultsType DEF Ages, Fault
  <2>2. phys' \in [Sessions -> Session]
    BY <1>1, <1>3 DEF Ages, Typed, Session
  <2>. QED
    BY <1>3, <2>1, <2>2 DEF Typed, Ages, Fault
<1>4. CASE Writes(s)
  <2>1. phys' \in [Sessions -> Session]
    BY <1>1, <1>4 DEF Writes, Typed, Session
  <2>. QED
    BY <1>4, <2>1 DEF Typed, Writes, bounds
<1>. QED
  BY <1>2, <1>3, <1>4

LEMMA CloseTyped == Typed /\ Close => Typed'
<1>. SUFFICES ASSUME Typed, Close PROVE Typed'
  OBVIOUS
<1>1. \A b \in Buckets : bucket[b].sessions \subseteq Sessions
  BY DEF Typed, Bucket
<1>2. \A k \in Keys : buckets[k] # None => buckets[k] \in Buckets
  BY DEF Typed, BucketIds
<1>3. toClose' \subseteq Sessions
  BY <1>1, <1>2 DEF Close
<1>. QED
  BY <1>3 DEF Typed, Close, bounds


-----------------------------------------------------------------------------
(* Most steps neither start nor end a dial, nor give or return a slot.     *)

CallsStay(X) == \A d \in Callers \ X : /\ call'[d].pc = "dial" <=> call[d].pc = "dial"
                                       /\ call[d].pc = "dial" => call'[d] = call[d]

SessionsStay(Y) ==
    \A s \in Sessions \ Y :
        /\ phys'[s].st = "none" <=> phys[s].st = "none"
        /\ phys'[s].st = "live" => /\ phys[s].st = "live" /\ phys'[s].key = phys[s].key
                                   /\ phys'[s].bucket = phys[s].bucket

Quiet == CallsStay({}) /\ SessionsStay({}) /\ UNCHANGED <<buckets, bucket, count>>

LEMMA FailingStay ==
  ASSUME Typed, NEW S, phys' = Failing(S)
  PROVE  SessionsStay({}) /\ \A s \in S : s \in Sessions => phys'[s].st # "live"
<1>1. ASSUME NEW s \in Sessions
      PROVE  /\ phys'[s].st = "none" <=> phys[s].st = "none"
             /\ phys'[s].st = "live" => s \notin S /\ phys'[s] = phys[s]
  <2>1. phys[s] \in Session
    BY DEF Typed
  <2>2. CASE s \in S /\ Live(s)
    <3>1. phys'[s].st = "failed"
      <4>1. phys'[s] = [phys[s] EXCEPT !.st = "failed", !.stale = FALSE, !.draining = FALSE, !.opened = 0]
        BY <2>2 DEF Failing
      <4>. QED
        BY <2>1, <4>1 DEF Session
    <3>. QED
      BY <2>2, <3>1 DEF Live
  <2>3. CASE ~(s \in S /\ Live(s))
    <3>1. phys'[s] = phys[s]
      BY <2>3 DEF Failing
    <3>. QED
      BY <2>3, <3>1 DEF Live
  <2>. QED
    BY <2>2, <2>3
<1>. QED
  BY <1>1 DEF SessionsStay

LEMMA CallsStays ==
  ASSUME Typed, NEW S, NEW c \in Callers, NEW v \in Asking, call' = Calls(S, c, v)
  PROVE  CallsStay({c}) /\ call'[c] = v
<1>1. Idle.pc = "idle"
  BY IdleType
<1>2. /\ call'[c] = v
      /\ \A d \in Callers \ {c} : call'[d] = call[d] \/ (call'[d] = Idle /\ call[d].pc = "using")
  BY CallsType
<1>3. ASSUME NEW d \in Callers \ {c}
      PROVE  /\ call'[d].pc = "dial" <=> call[d].pc = "dial"
             /\ call[d].pc = "dial" => call'[d] = call[d]
  BY <1>1, <1>2
<1>. QED
  BY <1>2, <1>3 DEF CallsStay

LEMMA HangupQuiet ==
  ASSUME Typed, NEW c \in Callers, Hangup(c)
  PROVE  Quiet
<1>1. SessionsStay({})
  BY FailingStay DEF Hangup
<1>2. CallsStay({})
  BY IdleType DEF CallsStay, Hangup, Typed
<1>. QED
  BY <1>1, <1>2 DEF Quiet, Hangup

LEMMA CallerQuiet ==
  ASSUME Typed, NEW c \in Callers,
         (\E k \in Keys : Call(c, k)) \/ LookClosed(c) \/ Learn(c)
  PROVE  Quiet
<1>1. /\ call[c].pc # "dial" /\ UNCHANGED <<buckets, bucket, count, phys>>
      /\ call[c].retries \in 0..MaxRetries
  BY DEF Call, LookClosed, Learn, Typed, Asking, Doing
<1>2. \A k \in Keys : [Idle EXCEPT !.pc = "look", !.key = k].pc = "look"
  BY IdleType DEF Asking, Doing
<1>3. Again(c, call[c].retries).pc = "look"
  BY IdleType DEF Again, Asking, Doing
<1>4. PICK v : v.pc # "dial" /\ call' = [call EXCEPT ![c] = v]
  <2>1. CASE \E k \in Keys : Call(c, k)
    BY <1>2, <2>1 DEF Call
  <2>2. CASE LookClosed(c)
    BY <2>2, IdleType DEF LookClosed
  <2>3. CASE Learn(c)
    BY <1>3, <2>3, IdleType DEF Learn
  <2>. QED
    BY <2>1, <2>2, <2>3
<1>5. ASSUME NEW d \in Callers
      PROVE  /\ call'[d].pc = "dial" <=> call[d].pc = "dial"
             /\ call[d].pc = "dial" => call'[d] = call[d]
  <2>1. call'[d] = IF d = c THEN v ELSE call[d]
    BY <1>4 DEF Typed
  <2>. QED
    BY <1>1, <1>4, <2>1
<1>. QED
  BY <1>1, <1>5 DEF Quiet, CallsStay, SessionsStay

LEMMA OpenQuiet ==
  ASSUME Typed, NEW c \in Callers, NEW s \in Sessions,
         OpenStream(c, s) \/ OpenLimited(c, s) \/ OpenExhausted(c, s) \/ OpenFails(c, s)
  PROVE  Quiet
<1>1. /\ call[c].pc = "open" /\ UNCHANGED <<buckets, bucket, count>>
      /\ call[c].retries \in 0..MaxRetries /\ phys[s] \in Session
  BY DEF OpenStream, OpenLimited, OpenExhausted, OpenFails, Opening, Typed, Asking, Doing
<1>2. \A n \in 0..MaxRetries : Again(c, n) \in Asking /\ Again(c, n).pc = "look"
  BY <1>1, AskingSteps
<1>3. CASE OpenStream(c, s)
  <2>1. [Idle EXCEPT !.pc = "using", !.session = s].pc = "using"
    BY IdleType DEF Asking, Doing
  <2>2. CallsStay({})
    BY <1>1, <1>3, <2>1 DEF CallsStay, OpenStream, Typed
  <2>3. phys' = [phys EXCEPT ![s] = [phys[s] EXCEPT !.opened = phys[s].opened + 1, !.stale = FALSE]]
    BY <1>3 DEF OpenStream, Typed
  <2>4. SessionsStay({})
    BY <1>1, <2>3 DEF SessionsStay, Typed, Session
  <2>. QED
    BY <1>1, <2>2, <2>4 DEF Quiet
<1>4. CASE OpenLimited(c, s)
  BY <1>1, <1>2, <1>4 DEF Quiet, CallsStay, SessionsStay, Typed, OpenLimited
<1>5. CASE OpenExhausted(c, s)
  <2>1. SessionsStay({})
    BY <1>1, <1>5 DEF SessionsStay, Typed, Session, OpenExhausted
  <2>. QED
    BY <1>1, <1>5, <2>1 DEF Quiet, CallsStay, OpenExhausted
<1>6. CASE OpenFails(c, s)
  <2>. DEFINE v == IF call[c].retries < MaxRetries THEN Again(c, call[c].retries + 1) ELSE Idle
  <2>1. call[c].retries < MaxRetries => call[c].retries + 1 \in 0..MaxRetries
    BY <1>1 DEF MaxRetries
  <2>2. v \in Asking /\ v.pc # "dial"
    BY <1>2, <2>1, IdleType
  <2>3. call' = Calls({s}, c, v) /\ phys' = Failing({s})
    BY <1>6 DEF OpenFails
  <2>. HIDE DEF v
  <2>4. CallsStay({c}) /\ call'[c] = v /\ SessionsStay({})
    BY <2>2, <2>3, CallsStays, FailingStay
  <2>. QED
    BY <1>1, <2>2, <2>4 DEF Quiet, CallsStay
<1>. QED
  BY <1>3, <1>4, <1>5, <1>6

LEMMA SessionQuiet ==
  ASSUME Typed, NEW s \in Sessions, CloseSession(s) \/ Breaks(s) \/ Ages(s) \/ Writes(s)
  PROVE  Quiet
<1>1. UNCHANGED <<buckets, bucket, count>> /\ phys[s] \in Session
  BY DEF CloseSession, Breaks, Ages, Writes, Typed
<1>2. CASE CloseSession(s) \/ Breaks(s)
  <2>1. /\ phys' = Failing({s})
        /\ call' = [c \in Callers |-> IF c \in Users(s) THEN Idle ELSE call[c]]
    BY <1>2 DEF CloseSession, Breaks
  <2>2. CallsStay({})
    BY <2>1, IdleType DEF CallsStay, Users
  <2>. QED
    BY <1>1, <2>1, <2>2, FailingStay DEF Quiet
<1>3. CASE Ages(s) \/ Writes(s)
  <2>1. SessionsStay({})
    BY <1>1, <1>3 DEF SessionsStay, Typed, Session, Ages, Writes
  <2>. QED
    BY <1>1, <1>3, <2>1 DEF Quiet, CallsStay, Ages, Writes
<1>. QED
  BY <1>2, <1>3

LEMMA CloseQuiet == Close => Quiet
BY DEF Close, Quiet, CallsStay, SessionsStay


-----------------------------------------------------------------------------
(* The inductive invariant.  The count alone would do for itself; that an  *)
(* endpoint is dialled once needs the dialing flag of the bucket the       *)
(* endpoint has now, and that working sessions are shared needs both.      *)

DialsKnown ==
    /\ \A c \in Dialing : /\ call[c].bucket \in Buckets
                          /\ bucket[call[c].bucket].dialing
                          /\ buckets[call[c].key] = call[c].bucket
    /\ \A c, d \in Dialing : call[c].bucket = call[d].bucket => c = d

SessionsKnown ==
    \A s \in Sessions : Live(s) =>
        /\ phys[s].key \in Keys /\ phys[s].bucket \in Buckets
        /\ buckets[phys[s].key] = phys[s].bucket
        /\ s \in bucket[phys[s].bucket].sessions

Known == DialsKnown /\ SessionsKnown

Counted == CountExact /\ count <= PoolLimit

PoolInv == Typed /\ Counted /\ Known

LEMMA Sizes ==
  /\ IsFiniteSet(Dialing) /\ IsFiniteSet(Unreleased)
  /\ Cardinality(Dialing) \in Nat /\ Cardinality(Unreleased) \in Nat
<1>1. Dialing \subseteq Callers /\ Unreleased \subseteq Sessions
  BY DEF Dialing, Unreleased
<1>. QED
  BY <1>1, PoolAssumption, FS_Subset, FS_CardinalityType

LEMMA StayDialing ==
  ASSUME NEW X \in SUBSET Callers, CallsStay(X)
  PROVE  Dialing' \ X = Dialing \ X
BY DEF CallsStay, Dialing

LEMMA StayUnreleased ==
  ASSUME NEW Y \in SUBSET Sessions, SessionsStay(Y)
  PROVE  Unreleased' \ Y = Unreleased \ Y
BY DEF SessionsStay, Unreleased

LEMMA QuietInv == PoolInv /\ Quiet => Counted' /\ Known'
<1>. SUFFICES ASSUME PoolInv, Quiet PROVE Counted' /\ Known'
  OBVIOUS
<1>1. /\ CallsStay({}) /\ SessionsStay({})
      /\ count' = count /\ buckets' = buckets /\ bucket' = bucket
  BY DEF Quiet
<1>2. Dialing' = Dialing /\ Unreleased' = Unreleased
  BY <1>1, StayDialing, StayUnreleased
<1>3. Counted'
  BY <1>1, <1>2 DEF PoolInv, Counted, CountExact
<1>4. \A c \in Dialing : call'[c] = call[c]
  BY <1>1 DEF CallsStay, Dialing
<1>5. DialsKnown'
  BY <1>1, <1>2, <1>4 DEF PoolInv, Known, DialsKnown
<1>6. SessionsKnown'
  BY <1>1 DEF PoolInv, Known, SessionsKnown, SessionsStay, Live
<1>. QED
  BY <1>3, <1>5, <1>6 DEF Known

(* A look of openAt that does not forget the bucket.                       *)
LEMMA LookKnown ==
  ASSUME PoolInv, NEW c \in Callers, Looking(c), NEW v \in Asking, NEW content \in Bucket, NEW n,
         Look(c, v, content, n),
         content.sessions = Kept(call[c].key),
         Content(call[c].key).dialing => content.dialing,
         v.pc = "dial" => /\ ~Content(call[c].key).dialing /\ content.dialing
                          /\ v.key = call[c].key /\ v.bucket = Entry(call[c].key)
  PROVE  Known'
<1>. DEFINE k == call[c].key
            b == Entry(k)
<1>1. Typed /\ DialsKnown /\ SessionsKnown
  BY DEF PoolInv, Known
<1>2. /\ k \in Keys /\ b \in Buckets
      /\ buckets[k] = None => b \in FreeBuckets
      /\ buckets[k] # None => b = buckets[k] /\ Content(k) = bucket[b]
  BY <1>1, EntryType
<1>3. /\ buckets' = [buckets EXCEPT ![k] = b]
      /\ bucket' = [bucket EXCEPT ![b] = content]
      /\ phys' = Failing(Pruned(k))
      /\ call' = Calls(Pruned(k), c, v)
  BY DEF Look
<1>4. call[c].pc = "look"
  BY DEF Looking
<1>5. CallsStay({c}) /\ call'[c] = v
  BY <1>1, <1>3, CallsStays
<1>6. SessionsStay({}) /\ \A s \in Pruned(k) : s \in Sessions => phys'[s].st # "live"
  BY <1>1, <1>3, FailingStay
<1>7. \A x \in Buckets : bucket'[x] = IF x = b THEN content ELSE bucket[x]
  BY <1>1, <1>2, <1>3 DEF Typed
<1>8. \A x \in Keys : buckets'[x] = IF x = k THEN b ELSE buckets[x]
  BY <1>1, <1>2, <1>3 DEF Typed
<1>. HIDE DEF k, b
\* An old dial: its bucket is not a new one, and keeps its flag.
<1>9. ASSUME NEW d \in Dialing
      PROVE  /\ d # c => /\ call'[d] = call[d] /\ d \in Dialing'
             /\ call[d].bucket \in Buckets /\ call[d].key \in Keys
             /\ bucket'[call[d].bucket].dialing
             /\ buckets'[call[d].key] = call[d].bucket
             /\ call[d].bucket = b => Content(k).dialing
  <2>1. d \in Callers /\ call[d].pc = "dial" /\ call[d].key \in Keys
    BY <1>1 DEF Dialing, Typed, Asking
  <2>2. /\ call[d].bucket \in Buckets /\ bucket[call[d].bucket].dialing
        /\ buckets[call[d].key] = call[d].bucket
    BY <1>1 DEF DialsKnown
  <2>3. call[d].bucket # None
    BY <2>2, PoolAssumption
  <2>4. call[d].bucket = b => b \notin FreeBuckets
    BY <2>1 DEF FreeBuckets
  <2>5. call[d].bucket = b => Content(k).dialing
    BY <1>2, <2>2, <2>4
  <2>6. bucket'[call[d].bucket].dialing
    BY <1>7, <2>2, <2>5 DEF k
  <2>7. buckets'[call[d].key] = call[d].bucket
    BY <1>2, <1>8, <2>1, <2>2, <2>3
  <2>8. d # c => call'[d] = call[d] /\ d \in Dialing'
    BY <1>5, <2>1 DEF CallsStay, Dialing
  <2>. QED
    BY <2>1, <2>2, <2>5, <2>6, <2>7, <2>8
<1>10. Dialing' \subseteq Dialing \union {c}
  BY <1>5 DEF CallsStay, Dialing
<1>11. c \in Dialing' => v.pc = "dial"
  BY <1>5 DEF Dialing
<1>12. c \notin Dialing
  BY <1>4 DEF Dialing
<1>13. ASSUME NEW d \in Dialing'
       PROVE  /\ call'[d].bucket \in Buckets
              /\ bucket'[call'[d].bucket].dialing
              /\ buckets'[call'[d].key] = call'[d].bucket
  <2>1. CASE d = c
    <3>1. v.bucket = b /\ v.key = k /\ content.dialing
      BY <1>11, <2>1 DEF k, b
    <3>. QED
      BY <1>2, <1>5, <1>7, <1>8, <2>1, <3>1
  <2>2. CASE d # c
    BY <1>9, <1>10, <2>2
  <2>. QED
    BY <2>1, <2>2
<1>14. ASSUME NEW d \in Dialing', NEW e \in Dialing', call'[d].bucket = call'[e].bucket
       PROVE  d = e
  <2>1. CASE d # c /\ e # c
    <3>1. call'[d] = call[d] /\ call'[e] = call[e] /\ d \in Dialing /\ e \in Dialing
      BY <1>9, <1>10, <2>1
    <3>. QED
      BY <1>1, <1>14, <3>1 DEF DialsKnown
  <2>2. ASSUME NEW x \in Dialing', c \in Dialing', x # c, call'[x].bucket = call'[c].bucket PROVE FALSE
    <3>1. call'[c].bucket = b /\ ~Content(k).dialing
      BY <1>5, <1>11, <2>2 DEF k, b
    <3>2. x \in Dialing /\ call'[x] = call[x]
      BY <1>9, <1>10, <2>2
    <3>. QED
      BY <1>9, <2>2, <3>1, <3>2
  <2>. QED
    BY <1>14, <2>1, <2>2
<1>15. DialsKnown'
  BY <1>13, <1>14 DEF DialsKnown
<1>16. ASSUME NEW s \in Sessions, phys'[s].st = "live"
       PROVE  /\ phys'[s].key \in Keys /\ phys'[s].bucket \in Buckets
              /\ buckets'[phys'[s].key] = phys'[s].bucket
              /\ s \in bucket'[phys'[s].bucket].sessions
  <2>1. Live(s) /\ phys'[s].key = phys[s].key /\ phys'[s].bucket = phys[s].bucket
    BY <1>6, <1>16 DEF SessionsStay, Live
  <2>2. /\ phys[s].key \in Keys /\ phys[s].bucket \in Buckets
        /\ buckets[phys[s].key] = phys[s].bucket
        /\ s \in bucket[phys[s].bucket].sessions
    BY <1>1, <2>1 DEF SessionsKnown
  <2>3. phys[s].bucket # None
    BY <2>2, PoolAssumption
  <2>4. buckets'[phys[s].key] = phys[s].bucket
    BY <1>2, <1>8, <2>2, <2>3
  <2>5. phys[s].bucket = b => s \in Content(k).sessions
    <3>1. phys[s].bucket = b => b \notin FreeBuckets
      BY DEF FreeBuckets
    <3>. QED
      BY <1>2, <2>2, <3>1
  <2>6. s \notin Pruned(k)
    BY <1>6, <1>16
  <2>7. phys[s].bucket = b => s \in content.sessions
    BY <2>1, <2>5, <2>6 DEF Pruned, Kept, k
  <2>. QED
    BY <1>7, <2>1, <2>2, <2>4, <2>7
<1>17. SessionsKnown'
  BY <1>16 DEF SessionsKnown, Live
<1>. QED
  BY <1>15, <1>17 DEF Known


LEMMA SelectInv ==
  ASSUME PoolInv, NEW c \in Callers, Select(c) \/ Join(c) \/ StartDial(c)
  PROVE  Counted' /\ Known'
<1>. DEFINE k == call[c].key
            kept == [Content(k) EXCEPT !.sessions = Kept(k)]
            dials == [Content(k) EXCEPT !.sessions = Kept(k), !.dialing = TRUE]
<1>1. Typed /\ Looking(c)
  BY DEF PoolInv, Select, Join, StartDial, NeedsDial
<1>2. /\ call[c].pc \notin {"idle", "using"} /\ call[c].pc # "dial" /\ call[c] \in Doing
      /\ Entry(k) \in Buckets /\ Content(k) \in Bucket /\ Kept(k) \subseteq Sessions
      /\ count \in Nat /\ count + 1 \in Nat
  <2>1. Entry(k) \in Buckets /\ Content(k) \in Bucket
    BY <1>1, EntryType
  <2>. QED
    BY <1>1, <2>1 DEF Looking, Typed, Asking, Kept, Bucket
<1>3. /\ kept \in Bucket /\ kept.sessions = Kept(k) /\ kept.dialing = Content(k).dialing
      /\ dials \in Bucket /\ dials.sessions = Kept(k) /\ dials.dialing
  BY <1>2 DEF Bucket
<1>4. PICK v \in Asking, content \in Bucket, n \in Nat :
         /\ Look(c, v, content, n)
         /\ content.sessions = Kept(k)
         /\ Content(k).dialing => content.dialing
         /\ \/ v.pc # "dial" /\ n = count
            \/ /\ v.pc = "dial" /\ n = count + 1 /\ count < PoolLimit
               /\ ~Content(k).dialing /\ content.dialing /\ v.key = k /\ v.bucket = Entry(k)
  <2>. HIDE DEF kept, dials, k
  <2>1. CASE Select(c)
    <3>1. PICK s \in Best(k) : Look(c, [call[c] EXCEPT !.pc = "open", !.session = s], kept, count)
      BY <2>1 DEF Select, k, kept
    <3>2. s \in Sessions
      BY <1>2 DEF Best
    <3>3. /\ [call[c] EXCEPT !.pc = "open", !.session = s] \in Asking
          /\ [call[c] EXCEPT !.pc = "open", !.session = s].pc # "dial"
      BY <1>1, <1>2, <3>2, AskingSteps DEF Doing
    <3>. DEFINE w == [call[c] EXCEPT !.pc = "open", !.session = s]
    <3>4. w \in Asking /\ w.pc # "dial" /\ Look(c, w, kept, count)
      BY <3>1, <3>3
    <3>. HIDE DEF w
    <3>. QED
      BY <1>2, <1>3, <3>4
  <2>2. CASE Join(c)
    <3>1. Look(c, [call[c] EXCEPT !.pc = "wait", !.bucket = Entry(k)], kept, count)
      BY <2>2 DEF Join, k, kept
    <3>2. /\ [call[c] EXCEPT !.pc = "wait", !.bucket = Entry(k)] \in Asking
          /\ [call[c] EXCEPT !.pc = "wait", !.bucket = Entry(k)].pc # "dial"
      BY <1>1, <1>2, AskingSteps DEF Doing
    <3>. DEFINE w == [call[c] EXCEPT !.pc = "wait", !.bucket = Entry(k)]
    <3>3. w \in Asking /\ w.pc # "dial" /\ Look(c, w, kept, count)
      BY <3>1, <3>2
    <3>. HIDE DEF w
    <3>. QED
      BY <1>2, <1>3, <3>3
  <2>3. CASE StartDial(c)
    <3>1. /\ Look(c, [call[c] EXCEPT !.pc = "dial", !.bucket = Entry(k)], dials, count + 1)
          /\ count < PoolLimit /\ ~Content(k).dialing
      BY <2>3 DEF StartDial, NeedsDial, k, dials
    <3>2. [call[c] EXCEPT !.pc = "dial", !.bucket = Entry(k)] \in Asking
      BY <1>1, <1>2, AskingSteps
    <3>3. /\ [call[c] EXCEPT !.pc = "dial", !.bucket = Entry(k)].pc = "dial"
          /\ [call[c] EXCEPT !.pc = "dial", !.bucket = Entry(k)].key = k
          /\ [call[c] EXCEPT !.pc = "dial", !.bucket = Entry(k)].bucket = Entry(k)
      BY <1>2 DEF Doing, k
    <3>. DEFINE w == [call[c] EXCEPT !.pc = "dial", !.bucket = Entry(k)]
    <3>4. /\ w \in Asking /\ w.pc = "dial" /\ w.key = k /\ w.bucket = Entry(k)
          /\ Look(c, w, dials, count + 1)
      BY <3>1, <3>2, <3>3
    <3>. HIDE DEF w
    <3>. QED
      BY <1>2, <1>3, <3>1, <3>4
  <2>. QED
    BY <2>1, <2>2, <2>3
<1>5. Known'
  BY <1>1, <1>4, LookKnown
<1>6. /\ call' = Calls(Pruned(k), c, v) /\ phys' = Failing(Pruned(k)) /\ count' = n
  BY <1>4 DEF Look
<1>7. CallsStay({c}) /\ call'[c] = v /\ SessionsStay({})
  BY <1>1, <1>6, CallsStays, FailingStay
<1>8. Unreleased' = Unreleased
  BY <1>7, StayUnreleased
<1>9. Dialing' \ {c} = Dialing \ {c} /\ c \notin Dialing
  BY <1>2, <1>7, StayDialing DEF Dialing
<1>10. CASE v.pc # "dial"
  <2>1. Dialing' = Dialing /\ count' = count
    BY <1>4, <1>6, <1>7, <1>9, <1>10 DEF Dialing
  <2>. QED
    BY <1>5, <1>8, <2>1 DEF PoolInv, Counted, CountExact
<1>11. CASE v.pc = "dial"
  <2>1. Dialing' = Dialing \union {c}
    BY <1>7, <1>9, <1>11 DEF Dialing
  <2>2. Cardinality(Dialing') = Cardinality(Dialing) + 1
    BY <1>9, <2>1, Sizes, FS_AddElement
  <2>3. count' = count + 1 /\ count < PoolLimit
    BY <1>4, <1>6, <1>11
  <2>4. count \in Nat /\ PoolLimit \in Nat
    BY <1>1, PoolAssumption DEF Typed
  <2>5. count = Cardinality(Dialing) + Cardinality(Unreleased)
    BY DEF PoolInv, Counted, CountExact
  <2>6. count' = Cardinality(Dialing') + Cardinality(Unreleased') /\ count' <= PoolLimit
    BY <1>8, <2>2, <2>3, <2>4, <2>5, Sizes
  <2>. QED
    BY <1>5, <2>6 DEF Counted, CountExact
<1>. QED
  BY <1>10, <1>11

LEMMA FullInv ==
  ASSUME PoolInv, NEW c \in Callers, Full(c)
  PROVE  Counted' /\ Known'
<1>. DEFINE k == call[c].key
            b == Entry(k)
<1>1. Typed /\ DialsKnown /\ SessionsKnown /\ Looking(c) /\ ~Content(k).dialing
  BY DEF PoolInv, Known, Full, NeedsDial
<1>2. /\ k \in Keys /\ b \in Buckets
      /\ buckets[k] # None => b = buckets[k] /\ Content(k) = bucket[b]
      /\ buckets[k] = None => b \in FreeBuckets
  BY <1>1, EntryType
<1>3. /\ buckets' = [buckets EXCEPT ![k] = IF Kept(k) = {} THEN None ELSE b]
      /\ bucket' = [bucket EXCEPT ![b] = [bucket[b] EXCEPT !.sessions = Kept(k)]]
      /\ phys' = Failing(Pruned(k)) /\ call' = Calls(Pruned(k), c, Idle) /\ count' = count
  BY DEF Full
<1>4. /\ CallsStay({c}) /\ call'[c] = Idle
      /\ SessionsStay({}) /\ \A s \in Pruned(k) : s \in Sessions => phys'[s].st # "live"
  BY <1>1, <1>3, CallsStays, FailingStay, IdleType
<1>5. Dialing' = Dialing /\ Unreleased' = Unreleased /\ c \notin Dialing
  <2>1. c \notin Dialing /\ c \notin Dialing'
    BY <1>1, <1>4, IdleType DEF Dialing, Looking
  <2>. QED
    BY <1>4, <2>1, StayDialing, StayUnreleased
<1>6. Counted'
  BY <1>3, <1>5 DEF PoolInv, Counted, CountExact
<1>7. \A x \in Keys : buckets'[x] = IF x = k THEN IF Kept(k) = {} THEN None ELSE b ELSE buckets[x]
  BY <1>1, <1>2, <1>3 DEF Typed
<1>8. /\ bucket[b] \in Bucket
      /\ \A x \in Buckets : x # b => bucket'[x] = bucket[x]
      /\ bucket'[b].dialing = bucket[b].dialing /\ bucket'[b].sessions = Kept(k)
  <2>1. bucket[b] \in Bucket
    BY <1>1, <1>2 DEF Typed
  <2>2. bucket'[b] = [bucket[b] EXCEPT !.sessions = Kept(k)]
    BY <1>1, <1>2, <1>3 DEF Typed
  <2>3. \A x \in Buckets : x # b => bucket'[x] = bucket[x]
    BY <1>1, <1>2, <1>3 DEF Typed
  <2>. QED
    BY <2>1, <2>2, <2>3 DEF Bucket
<1>. HIDE DEF k, b
<1>9. ASSUME NEW d \in Dialing
      PROVE  /\ call'[d] = call[d] /\ call[d].key # k
             /\ call[d].bucket \in Buckets /\ bucket'[call[d].bucket].dialing
             /\ buckets'[call[d].key] = call[d].bucket
  <2>1. d \in Callers /\ call[d].pc = "dial" /\ call[d].key \in Keys /\ d # c
    BY <1>1, <1>5 DEF Dialing, Typed, Asking
  <2>2. /\ call[d].bucket \in Buckets /\ bucket[call[d].bucket].dialing
        /\ buckets[call[d].key] = call[d].bucket
    BY <1>1 DEF DialsKnown
  <2>3. call[d].key # k
    BY <1>1, <1>2, <2>2, PoolAssumption DEF k
  <2>4. call'[d] = call[d]
    BY <1>4, <2>1 DEF CallsStay
  <2>5. bucket'[call[d].bucket].dialing
    BY <1>8, <2>2
  <2>. QED
    BY <1>7, <2>1, <2>2, <2>3, <2>4, <2>5
<1>10. DialsKnown'
  BY <1>1, <1>5, <1>9 DEF DialsKnown
<1>11. ASSUME NEW s \in Sessions, phys'[s].st = "live"
       PROVE  /\ phys'[s].key \in Keys /\ phys'[s].bucket \in Buckets
              /\ buckets'[phys'[s].key] = phys'[s].bucket
              /\ s \in bucket'[phys'[s].bucket].sessions
  <2>1. Live(s) /\ phys'[s].key = phys[s].key /\ phys'[s].bucket = phys[s].bucket
    BY <1>4, <1>11 DEF SessionsStay, Live
  <2>2. /\ phys[s].key \in Keys /\ phys[s].bucket \in Buckets
        /\ buckets[phys[s].key] = phys[s].bucket
        /\ s \in bucket[phys[s].bucket].sessions
    BY <1>1, <2>1 DEF SessionsKnown
  <2>3. phys[s].bucket # None /\ s \notin Pruned(k)
    BY <1>4, <1>11, <2>2, PoolAssumption
  <2>4. phys[s].bucket = b => s \in Kept(k)
    <3>1. phys[s].bucket = b => b \notin FreeBuckets
      BY DEF FreeBuckets
    <3>2. phys[s].bucket = b => s \in Content(k).sessions
      BY <1>2, <2>2, <3>1
    <3>. QED
      BY <2>1, <2>3, <3>2 DEF Pruned, Kept
  <2>5. phys[s].key = k => phys[s].bucket = b
    BY <1>2, <2>2, <2>3
  <2>6. buckets'[phys[s].key] = phys[s].bucket
    BY <1>7, <2>2, <2>4, <2>5
  <2>. QED
    BY <1>8, <2>1, <2>2, <2>4, <2>6
<1>12. SessionsKnown'
  BY <1>11 DEF SessionsKnown, Live
<1>. QED
  BY <1>6, <1>10, <1>12 DEF Known

(* The end of the dial of caller c, in its bucket.                         *)
LEMMA DialedStay ==
  ASSUME Typed, NEW c \in Callers, NEW v \in Asking, v.pc # "dial", NEW content,
         Dialed(c, v, content)
  PROVE  /\ CallsStay({c}) /\ call'[c] = v
         /\ Dialing' = Dialing \ {c}
<1>1. /\ call'[c] = v
      /\ \A d \in Callers \ {c} : \/ call'[d] = call[d]
                                  \/ call[d].pc = "wait" /\ call'[d] = [call[d] EXCEPT !.pc = "woken"]
  BY DEF Dialed, Woken
<1>2. ASSUME NEW d \in Callers \ {c}
      PROVE  /\ call'[d].pc = "dial" <=> call[d].pc = "dial"
             /\ call[d].pc = "dial" => call'[d] = call[d]
  <2>1. call[d] \in Doing
    BY DEF Typed, Asking
  <2>2. [call[d] EXCEPT !.pc = "woken"].pc = "woken"
    BY <2>1 DEF Doing
  <2>. QED
    BY <1>1, <2>2
<1>3. CallsStay({c})
  BY <1>2 DEF CallsStay
<1>4. Dialing' \ {c} = Dialing \ {c} /\ c \notin Dialing'
  BY <1>1, <1>3, StayDialing DEF Dialing
<1>. QED
  BY <1>1, <1>3, <1>4

LEMMA OneDialLess ==
  ASSUME PoolInv, NEW c \in Dialing
  PROVE  /\ Cardinality(Dialing \ {c}) = Cardinality(Dialing) - 1
         /\ count \in Nat /\ count > 0
<1>1. Cardinality(Dialing \ {c}) = Cardinality(Dialing) - 1 /\ Cardinality(Dialing \ {c}) \in Nat
  BY Sizes, FS_RemoveElement, FS_CardinalityType, FS_Subset
<1>2. count = Cardinality(Dialing) + Cardinality(Unreleased)
  BY DEF PoolInv, Counted, CountExact
<1>. QED
  BY <1>1, <1>2, Sizes

LEMMA DialInv ==
  ASSUME PoolInv, NEW c \in Callers, Dial(c)
  PROVE  Counted' /\ Known' /\ count > 0
<1>. DEFINE b == call[c].bucket
            k == call[c].key
<1>1. Typed /\ DialsKnown /\ SessionsKnown /\ call[c].pc = "dial" /\ c \in Dialing
  BY DEF PoolInv, Known, Dial, DialOk, DialFails, Dialing
<1>2. /\ b \in Buckets /\ bucket[b].dialing /\ buckets[k] = b /\ k \in Keys
      /\ call[c].retries \in 0..MaxRetries /\ bucket[b] \in Bucket
  BY <1>1 DEF DialsKnown, Typed, Asking, Doing
<1>3. /\ Cardinality(Dialing \ {c}) = Cardinality(Dialing) - 1
      /\ count \in Nat /\ count > 0
  BY <1>1, OneDialLess
<1>4. count = Cardinality(Dialing) + Cardinality(Unreleased) /\ count <= PoolLimit /\ PoolLimit \in Nat
  BY PoolAssumption DEF PoolInv, Counted, CountExact
\* Every other dial has another bucket and another endpoint.
<1>5. ASSUME NEW d \in Dialing, d # c
      PROVE  /\ call[d].bucket \in Buckets /\ call[d].bucket # b /\ bucket[call[d].bucket].dialing
             /\ call[d].key \in Keys /\ call[d].key # k /\ buckets[call[d].key] = call[d].bucket
  <2>1. call[d].bucket # b
    BY <1>1, <1>5 DEF DialsKnown
  <2>. QED
    BY <1>1, <1>2, <2>1 DEF DialsKnown, Dialing, Typed, Asking
<1>6. CASE DialOk(c)
  <2>. DEFINE s == CHOOSE x \in FreeSessions : TRUE
              new == [NoSession EXCEPT !.st = "live", !.key = k, !.bucket = b]
              content == [bucket[b] EXCEPT !.dialing = FALSE, !.lastErr = FALSE, !.sessions = @ \union {s}]
  <2>1. s \in Sessions /\ phys[s].st = "none"
    BY <1>6 DEF DialOk, FreeSessions
  <2>2. new.st = "live" /\ new.key = k /\ new.bucket = b
    BY DEF NoSession
  <2>3. content.sessions = bucket[b].sessions \union {s}
    BY <1>2 DEF Bucket
  <2>4. /\ phys' = [phys EXCEPT ![s] = new] /\ bucket' = [bucket EXCEPT ![b] = content]
        /\ Dialed(c, Again(c, call[c].retries), content)
        /\ buckets' = buckets /\ count' = count
    BY <1>6 DEF DialOk, Dialed
  <2>5. Again(c, call[c].retries) \in Asking /\ Again(c, call[c].retries).pc = "look"
    BY <1>1, <1>2, AskingSteps
  <2>. HIDE DEF s, new, content
  <2>6. CallsStay({c}) /\ Dialing' = Dialing \ {c}
    BY <1>1, <2>4, <2>5, DialedStay
  <2>7. \A x \in Sessions : phys'[x] = IF x = s THEN new ELSE phys[x]
    BY <1>1, <2>4 DEF Typed
  <2>8. \A x \in Buckets : bucket'[x] = IF x = b THEN content ELSE bucket[x]
    BY <1>1, <1>2, <2>4 DEF Typed
  <2>. HIDE DEF b, k
  <2>9. Unreleased' = Unreleased \union {s} /\ s \notin Unreleased
    BY <2>1, <2>2, <2>7 DEF Unreleased
  <2>10. Cardinality(Unreleased') = Cardinality(Unreleased) + 1
    BY <2>9, Sizes, FS_AddElement
  <2>11. count' = Cardinality(Dialing') + Cardinality(Unreleased')
    BY <1>3, <1>4, <2>4, <2>6, <2>10, Sizes
  <2>12. Counted'
    BY <1>4, <2>4, <2>11 DEF Counted, CountExact
  <2>13. \A d \in Dialing' : d \in Dialing /\ d # c /\ call'[d] = call[d]
    BY <2>6 DEF CallsStay, Dialing
  <2>14. DialsKnown'
    BY <1>1, <1>5, <2>4, <2>8, <2>13 DEF DialsKnown
  <2>15. SessionsKnown'
    BY <1>1, <1>2, <2>2, <2>3, <2>4, <2>7, <2>8 DEF SessionsKnown, Live
  <2>. QED
    BY <1>3, <2>12, <2>14, <2>15 DEF Known
<1>7. CASE DialFails(c)
  <2>. DEFINE content == [bucket[b] EXCEPT !.dialing = FALSE, !.lastErr = TRUE]
  <2>1. /\ buckets' = IF NothingLeft(b) THEN [buckets EXCEPT ![k] = None] ELSE buckets
        /\ Dialed(c, Idle, content) /\ bucket' = [bucket EXCEPT ![b] = content]
        /\ count' = count - 1 /\ phys' = phys
    BY <1>7 DEF DialFails, Dialed
  <2>2. content.sessions = bucket[b].sessions
    BY <1>2 DEF Bucket
  <2>. HIDE DEF content
  <2>3. CallsStay({c}) /\ Dialing' = Dialing \ {c}
    BY <1>1, <2>1, IdleType, DialedStay
  <2>4. Unreleased' = Unreleased
    BY <2>1 DEF Unreleased
  <2>5. \A x \in Buckets : bucket'[x] = IF x = b THEN content ELSE bucket[x]
    BY <1>1, <1>2, <2>1 DEF Typed
  <2>6. \A x \in Keys : x # k => buckets'[x] = buckets[x]
    BY <1>1, <2>1 DEF Typed
  <2>7. bucket[b].sessions # {} => buckets' = buckets
    BY <2>1 DEF NothingLeft
  <2>. HIDE DEF b, k
  <2>8. Counted'
    BY <1>3, <1>4, <2>1, <2>3, <2>4, Sizes DEF Counted, CountExact
  <2>9. \A d \in Dialing' : d \in Dialing /\ d # c /\ call'[d] = call[d]
    BY <2>3 DEF CallsStay, Dialing
  <2>10. DialsKnown'
    BY <1>1, <1>5, <2>5, <2>6, <2>9 DEF DialsKnown
  <2>11. ASSUME NEW s \in Sessions, Live(s)
         PROVE  /\ phys[s].key \in Keys /\ phys[s].bucket \in Buckets
                /\ buckets'[phys[s].key] = phys[s].bucket
                /\ s \in bucket'[phys[s].bucket].sessions
    <3>1. /\ phys[s].key \in Keys /\ phys[s].bucket \in Buckets
          /\ buckets[phys[s].key] = phys[s].bucket
          /\ s \in bucket[phys[s].bucket].sessions
      BY <1>1, <2>11 DEF SessionsKnown
    <3>. QED
      BY <1>2, <2>2, <2>5, <2>6, <2>7, <3>1
  <2>12. SessionsKnown'
    BY <2>1, <2>11 DEF SessionsKnown, Live
  <2>. QED
    BY <1>3, <2>8, <2>10, <2>12 DEF Known
<1>. QED
  BY <1>6, <1>7 DEF Dial

LEMMA ReleaseInv ==
  ASSUME PoolInv, NEW s \in Sessions, Release(s)
  PROVE  Counted' /\ Known'
<1>. DEFINE b == phys[s].bucket
            k == phys[s].key
            left == bucket[b].sessions \ {s}
<1>1. Typed /\ DialsKnown /\ SessionsKnown /\ phys[s].st = "failed"
  BY DEF PoolInv, Known, Release
<1>2. /\ buckets' = IF Forgets(b, k, left) THEN [buckets EXCEPT ![k] = None] ELSE buckets
      /\ bucket' = [bucket EXCEPT ![b] = [bucket[b] EXCEPT !.sessions = left]]
      /\ count' = SlotReturned(s) /\ phys' = [phys EXCEPT ![s] = NoSession] /\ call' = call
  BY DEF Release
<1>3. \A x \in Sessions : phys'[x] = IF x = s THEN NoSession ELSE phys[x]
  BY <1>1, <1>2 DEF Typed
<1>4. NoSession.st = "none"
  BY DEF NoSession
<1>5. /\ \A x \in Buckets : x # b => bucket'[x] = bucket[x]
      /\ b \in Buckets => /\ bucket'[b].dialing = bucket[b].dialing
                          /\ bucket'[b].sessions = left
  <2>1. \A x \in Buckets : x # b => bucket'[x] = bucket[x]
    BY <1>1, <1>2 DEF Typed
  <2>2. b \in Buckets => bucket'[b] = [bucket[b] EXCEPT !.sessions = left] /\ bucket[b] \in Bucket
    BY <1>1, <1>2 DEF Typed
  <2>. QED
    BY <2>1, <2>2 DEF Bucket
\* Only an endpoint without dial and without session loses its bucket.
<1>6. \A x \in Keys : buckets'[x] = buckets[x] \/ (x = k /\ buckets[x] = b /\ left = {} /\ ~bucket[b].dialing)
  BY <1>1, <1>2 DEF Typed, Forgets
<1>7. Unreleased' = Unreleased \ {s} /\ s \in Unreleased /\ Dialing' = Dialing
  BY <1>1, <1>2, <1>3, <1>4 DEF Unreleased, Dialing
<1>8. Cardinality(Unreleased') = Cardinality(Unreleased) - 1 /\ Cardinality(Unreleased') \in Nat
  <2>1. Cardinality(Unreleased \ {s}) = Cardinality(Unreleased) - 1
    BY <1>7, Sizes, FS_RemoveElement
  <2>2. Cardinality(Unreleased \ {s}) \in Nat
    BY <1>7, Sizes, FS_RemoveElement, FS_CardinalityType
  <2>. QED
    BY <1>7, <2>1, <2>2
<1>9. Counted'
  <2>1. count = Cardinality(Dialing) + Cardinality(Unreleased) /\ count <= PoolLimit /\ PoolLimit \in Nat
    BY PoolAssumption DEF PoolInv, Counted, CountExact
  <2>2. count' = count - 1
    BY <1>2, <1>8, <2>1, Sizes DEF SlotReturned
  <2>. QED
    BY <1>7, <1>8, <2>1, <2>2, Sizes DEF Counted, CountExact
<1>. HIDE DEF b, k, left
<1>10. ASSUME NEW d \in Dialing
       PROVE  /\ call[d].bucket \in Buckets /\ bucket'[call[d].bucket].dialing
              /\ buckets'[call[d].key] = call[d].bucket
  <2>1. /\ call[d].key \in Keys /\ call[d].bucket \in Buckets
        /\ bucket[call[d].bucket].dialing /\ buckets[call[d].key] = call[d].bucket
    BY <1>1 DEF DialsKnown, Dialing, Typed, Asking
  <2>. QED
    BY <1>5, <1>6, <2>1
<1>11. DialsKnown'
  BY <1>1, <1>2, <1>7, <1>10 DEF DialsKnown
<1>12. ASSUME NEW x \in Sessions, phys'[x].st = "live"
       PROVE  /\ phys'[x] = phys[x] /\ phys[x].key \in Keys /\ phys[x].bucket \in Buckets
              /\ buckets'[phys[x].key] = phys[x].bucket
              /\ x \in bucket'[phys[x].bucket].sessions
  <2>1. x # s /\ phys'[x] = phys[x] /\ Live(x)
    BY <1>3, <1>4, <1>12 DEF Live
  <2>2. /\ phys[x].key \in Keys /\ phys[x].bucket \in Buckets
        /\ buckets[phys[x].key] = phys[x].bucket
        /\ x \in bucket[phys[x].bucket].sessions
    BY <1>1, <2>1 DEF SessionsKnown
  <2>3. phys[x].bucket = b => x \in left
    BY <2>1, <2>2 DEF left
  <2>. QED
    BY <1>5, <1>6, <2>1, <2>2, <2>3
<1>13. SessionsKnown'
  BY <1>12 DEF SessionsKnown, Live
<1>. QED
  BY <1>9, <1>11, <1>13 DEF Known

LEMMA InitInv == Init => PoolInv
<1>. SUFFICES ASSUME Init PROVE PoolInv
  OBVIOUS
<1>1. Dialing = {} /\ Unreleased = {}
  BY IdleType DEF Init, Dialing, Unreleased, NoSession
<1>2. Cardinality(Dialing) = 0 /\ Cardinality(Unreleased) = 0
  BY <1>1, FS_EmptySet
<1>3. Counted
  BY <1>2, PoolAssumption DEF Init, Counted, CountExact
<1>4. SessionsKnown
  BY DEF Init, SessionsKnown, Live, NoSession
<1>5. DialsKnown
  BY <1>1 DEF DialsKnown
<1>. QED
  BY <1>3, <1>4, <1>5, InitTyped DEF PoolInv, Known

LEMMA NextInv == PoolInv /\ [Next]_vars => PoolInv'
<1>. SUFFICES ASSUME PoolInv, [Next]_vars PROVE PoolInv'
  OBVIOUS
<1>0. Typed
  BY DEF PoolInv
<1>1. ASSUME NEW c \in Callers, (\E k \in Keys : Call(c, k)) \/ LookClosed(c) \/ Learn(c)
      PROVE  PoolInv'
  BY <1>0, <1>1, CallerTyped, CallerQuiet, QuietInv DEF PoolInv
<1>11. ASSUME NEW c \in Callers, Hangup(c) PROVE PoolInv'
  BY <1>0, <1>11, HangupTyped, HangupQuiet, QuietInv DEF PoolInv
<1>2. ASSUME NEW c \in Callers, Select(c) \/ Join(c) \/ StartDial(c) PROVE PoolInv'
  BY <1>0, <1>2, SelectTyped, SelectInv DEF PoolInv
<1>3. ASSUME NEW c \in Callers, Full(c) PROVE PoolInv'
  BY <1>0, <1>3, FullTyped, FullInv DEF PoolInv
<1>4. ASSUME NEW c \in Callers, NEW s \in Sessions,
             OpenStream(c, s) \/ OpenLimited(c, s) \/ OpenExhausted(c, s) \/ OpenFails(c, s)
      PROVE  PoolInv'
  BY <1>0, <1>4, OpenTyped, OpenQuiet, QuietInv DEF PoolInv
<1>5. ASSUME NEW c \in Callers, Dial(c) PROVE PoolInv'
  BY <1>0, <1>5, DialTyped, DialInv DEF PoolInv
<1>6. ASSUME NEW s \in Sessions, Release(s) PROVE PoolInv'
  BY <1>0, <1>6, ReleaseTyped, ReleaseInv DEF PoolInv
<1>7. ASSUME NEW s \in Sessions, CloseSession(s) \/ Breaks(s) \/ Ages(s) \/ Writes(s) PROVE PoolInv'
  BY <1>0, <1>7, SessionTyped, SessionQuiet, QuietInv DEF PoolInv
<1>8. CASE Close
  BY <1>0, <1>8, CloseTyped, CloseQuiet, QuietInv DEF PoolInv
<1>9. CASE UNCHANGED vars
  BY <1>9 DEF vars, PoolInv, Typed, Counted, CountExact, Known, DialsKnown, SessionsKnown,
              Dialing, Unreleased, Live
<1>10. CASE Next
  BY <1>1, <1>2, <1>3, <1>4, <1>5, <1>6, <1>7, <1>8, <1>10, <1>11 DEF Next, OpenAt
<1>. QED
  BY <1>9, <1>10

-----------------------------------------------------------------------------
(* The inductive invariant holds in every reachable state of the pool.     *)
THEOREM PoolInvariant == Spec => []PoolInv
<1>. QED
  BY InitInv, NextInv, PTL DEF Spec

(* v3_session.go:122-143: the state of the pool keeps its types.           *)
THEOREM PoolTypeCorrect == Spec => []TypeOK
<1>1. PoolInv => TypeOK
  BY TypedTypeOK DEF PoolInv
<1>. QED
  BY <1>1, PoolInvariant, PTL

(* v3_session.go:138, 343: no slot of the pool is lost or given twice.     *)
THEOREM PoolCount == Spec => []CountExact
<1>1. PoolInv => CountExact
  BY DEF PoolInv, Counted
<1>. QED
  BY <1>1, PoolInvariant, PTL

\* Dials under way and sessions not yet released.
Bounded == Cardinality(Dialing) + Cardinality(Unreleased) <= PoolLimit

\* The pool never exceeds its limit (v3_session.go:19), dials included.
THEOREM PoolBounded == Spec => []Bounded
<1>1. PoolInv => Bounded
  BY DEF PoolInv, Counted, CountExact, Bounded
<1>. QED
  BY <1>1, PoolInvariant, PTL

(* openAt: the callers of one endpoint never dial at the same time.        *)
THEOREM PoolOneDial == Spec => []OneDialPerEndpoint
<1>1. PoolInv => OneDialPerEndpoint
  BY DEF PoolInv, Known, DialsKnown, OneDialPerEndpoint
<1>. QED
  BY <1>1, PoolInvariant, PTL

(* releaseWhenClosed, openAt: the bucket an endpoint has now lists every   *)
(* working session of the endpoint.                                        *)
THEOREM PoolShared == Spec => []WorkingSessionsShared
<1>1. PoolInv => WorkingSessionsShared
  BY PoolAssumption DEF PoolInv, Known, SessionsKnown, WorkingSessionsShared
<1>. QED
  BY <1>1, PoolInvariant, PTL

=============================================================================
