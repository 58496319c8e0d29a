------------------------ MODULE Heartbeat_proofs ------------------------
(***************************************************************************)
(* What a heartbeat may do, for any hosts, limits, edits and faults: the   *)
(* safety of the gate that admits its rebuild (HeartbeatGate), then that   *)
(* of the loop of rebuilds, deliveries and reports behind the gate         *)
(* (DesiredState).                                                         *)
(***************************************************************************)
EXTENDS DesiredState, HeartbeatGate, SequenceTheorems, FiniteSetTheorems, TLAPS

(* What the properties of the gate need to be inductive: the limit holds   *)
(* of the Set `active' itself, which is finite.                            *)
GateInv ==
    /\ GateType
    /\ OneReconciliation
    /\ LineConsistent
    /\ IsFiniteSet(active) /\ Cardinality(active) <= MaxConcurrent

(* pruneWaiting keeps a suffix of the array.                               *)
LEMMA PrunedSuffix ==
  ASSUME waiting \in Seq(Hosts), NEW n \in 0..Len(waiting)
  PROVE  /\ Pruned(n) \in Seq(Hosts)
         /\ Len(Pruned(n)) = Len(waiting) - n
         /\ \A i \in 1..(Len(waiting) - n) : Pruned(n)[i] = waiting[n + i]
<1>1. \A i \in (n + 1)..Len(waiting) : waiting[i] \in Hosts
  BY ElementOfSeq
<1>2. n + 1 \in Int /\ Len(waiting) \in Int
  BY LenProperties
<1>3. /\ SubSeq(waiting, n + 1, Len(waiting)) \in Seq(Hosts)
      /\ Len(SubSeq(waiting, n + 1, Len(waiting)))
           = IF n + 1 <= Len(waiting) THEN Len(waiting) - (n + 1) + 1 ELSE 0
      /\ \A i \in 1..(Len(waiting) - (n + 1) + 1) :
            SubSeq(waiting, n + 1, Len(waiting))[i] = waiting[n + 1 + i - 1]
  BY <1>1, <1>2, SubSeqProperties
<1>. QED
  BY <1>2, <1>3 DEF Pruned

(* After pruneWaiting, array and map agree again on who is in line.        *)
LEMMA PrunedConsistent ==
  ASSUME GateType, LineConsistent, NEW n \in 0..Len(waiting)
  PROVE  /\ \A i, j \in 1..Len(Pruned(n)) : Pruned(n)[i] = Pruned(n)[j] => i = j
         /\ {Pruned(n)[i] : i \in 1..Len(Pruned(n))} = {h \in Hosts : SinceKept(n)[h] # Absent}
         /\ {Pruned(n)[i] : i \in 1..Len(Pruned(n))} \subseteq Line
         /\ SinceKept(n) \in [Hosts -> Ages]
<1>. USE DEF GateType, LineConsistent, Line
<1>1. Len(waiting) \in Nat /\ DOMAIN waiting = 1..Len(waiting)
  BY LenProperties
<1>2. /\ Len(Pruned(n)) = Len(waiting) - n
      /\ \A i \in 1..Len(Pruned(n)) : Pruned(n)[i] = waiting[n + i] /\ n + i \in DOMAIN waiting
  <2>1. waiting \in Seq(Hosts)
    OBVIOUS
  <2>2. /\ Len(Pruned(n)) = Len(waiting) - n
        /\ \A i \in 1..(Len(waiting) - n) : Pruned(n)[i] = waiting[n + i]
    BY <2>1, PrunedSuffix
  <2>. HIDE DEF GateType, LineConsistent, Line
  <2>3. ASSUME NEW i \in 1..Len(Pruned(n))
        PROVE  Pruned(n)[i] = waiting[n + i] /\ n + i \in DOMAIN waiting
    <3>1. i \in 1..(Len(waiting) - n)
      BY <2>2
    <3>2. n + i \in 1..Len(waiting)
      BY <1>1, <3>1
    <3>. QED
      BY <1>1, <2>2, <3>1, <3>2
  <2>. QED
    BY <2>2, <2>3
<1>3. \A i, j \in 1..Len(Pruned(n)) : Pruned(n)[i] = Pruned(n)[j] => i = j
  <2>. SUFFICES ASSUME NEW i \in 1..Len(Pruned(n)), NEW j \in 1..Len(Pruned(n)),
                       Pruned(n)[i] = Pruned(n)[j]
                PROVE  i = j
    OBVIOUS
  <2>1. n + i = n + j
    BY <1>2
  <2>. QED
    BY <1>1, <1>2, <2>1
<1>4. {Pruned(n)[i] : i \in 1..Len(Pruned(n))} \subseteq Line
  <2>1. \A i \in 1..Len(Pruned(n)) : \E k \in DOMAIN waiting : Pruned(n)[i] = waiting[k]
    BY <1>2
  <2>. HIDE DEF GateType, LineConsistent
  <2>. QED
    BY Zenon, <2>1 DEF Line
<1>5. SinceKept(n) \in [Hosts -> Ages]
  BY GateAssumption DEF SinceKept, Ages, Absent
<1>6. ASSUME NEW h \in Hosts
      PROVE  h \in {Pruned(n)[i] : i \in 1..Len(Pruned(n))} <=> SinceKept(n)[h] # Absent
  <2>1. ASSUME h \in {Pruned(n)[i] : i \in 1..Len(Pruned(n))}
        PROVE  SinceKept(n)[h] # Absent
    <3>1. PICK i \in 1..Len(Pruned(n)) : h = Pruned(n)[i]
      BY <2>1
    <3>2. h = waiting[n + i] /\ n + i \in DOMAIN waiting
      BY <1>1, <1>2, <3>1
    <3>3. \A k \in 1..n : waiting[k] # h
      <4>. SUFFICES ASSUME NEW k \in 1..n, waiting[k] = h PROVE FALSE
        OBVIOUS
      <4>1. k \in DOMAIN waiting /\ waiting[k] = waiting[n + i]
        BY <1>1, <3>2
      <4>2. k = n + i
        BY <3>2, <4>1
      <4>. QED
        BY <1>1, <4>2
    <3>4. h \notin Dropped(n)
      BY <3>3 DEF Dropped
    <3>5. h \in Hosts
      BY <3>2 DEF Line
    <3>. QED
      <4>1. since[h] # Absent
        BY <3>2
      <4>. QED
        BY <3>4, <3>5, <4>1 DEF SinceKept
  <2>2. ASSUME SinceKept(n)[h] # Absent
        PROVE  h \in {Pruned(n)[i] : i \in 1..Len(Pruned(n))}
    <3>1. h \notin Dropped(n) /\ since[h] # Absent
      BY <2>2 DEF SinceKept
    <3>2. PICK k \in 1..Len(waiting) : h = waiting[k]
      BY <1>1, <3>1
    <3>3. k > n
      BY <1>1, <3>1, <3>2 DEF Dropped
    <3>4. k - n \in 1..Len(Pruned(n)) /\ n + (k - n) = k
      BY <1>1, <1>2, <3>2, <3>3
    <3>5. Pruned(n)[k - n] = h
      BY <1>2, <3>2, <3>4
    <3>. QED
      BY <3>4, <3>5
  <2>. QED
    BY <2>1, <2>2
<1>7. {Pruned(n)[i] : i \in 1..Len(Pruned(n))} \subseteq Hosts
  BY <1>1, <1>4
<1>. QED
  BY <1>3, <1>4, <1>5, <1>6, <1>7

LEMMA InitInv == GateInit => GateInv
<1>. SUFFICES ASSUME GateInit PROVE GateInv
  OBVIOUS
<1>. USE DEF GateInit
<1>1. GateType
  BY GateAssumption, EmptySeq DEF GateType, Ages, Absent
<1>2. OneReconciliation
  BY DEF OneReconciliation
<1>3. LineConsistent
  BY DEF LineConsistent, Line, Absent
<1>4. IsFiniteSet(active) /\ Cardinality(active) <= MaxConcurrent
  BY GateAssumption, FS_EmptySet
<1>. QED
  BY <1>1, <1>2, <1>3, <1>4 DEF GateInv

LEMMA CoalescedInv ==
  ASSUME GateInv, NEW h \in Hosts, NEW force \in BOOLEAN, NEW n \in 0..Len(waiting),
         Coalesced(h, force, n), sincePoll' = [sincePoll EXCEPT ![h] = 0], UNCHANGED cooling
  PROVE  GateInv'
<1>. USE DEF GateInv, Coalesced
<1>1. GateType'
  BY PrunedSuffix, PrunedConsistent, GateAssumption DEF GateType
<1>2. OneReconciliation'
  BY DEF OneReconciliation
<1>3. LineConsistent'
  <2>1. DOMAIN waiting' = 1..Len(Pruned(n))
    BY PrunedSuffix, LenProperties DEF GateType
  <2>2. Line' = {Pruned(n)[i] : i \in 1..Len(Pruned(n))}
    BY <2>1 DEF Line
  <2>3. \A i, j \in DOMAIN waiting' : waiting'[i] = waiting'[j] => i = j
    BY <2>1, PrunedConsistent
  <2>4. Line' = {h_1 \in Hosts : since'[h_1] # Absent}
    BY <2>2, PrunedConsistent
  <2>5. Line' \intersect active' = {}
    BY <2>2, PrunedConsistent DEF LineConsistent
  <2>. QED
    BY <2>3, <2>4, <2>5 DEF LineConsistent
<1>. QED
  BY <1>1, <1>2, <1>3

(* What push and shift do to an array without duplicates.                  *)
Distinct(q) == \A i, j \in DOMAIN q : q[i] = q[j] => i = j
Elems(q) == {q[i] : i \in DOMAIN q}

LEMMA AppendFresh ==
  ASSUME NEW q \in Seq(Hosts), NEW h \in Hosts, Distinct(q), h \notin Elems(q)
  PROVE  /\ Append(q, h) \in Seq(Hosts)
         /\ Distinct(Append(q, h))
         /\ Elems(Append(q, h)) = Elems(q) \union {h}
<1>. DEFINE r == Append(q, h)
<1>1. /\ r \in Seq(Hosts)
      /\ Len(r) = Len(q) + 1
      /\ \A i \in 1..Len(q) : r[i] = q[i]
      /\ r[Len(q) + 1] = h
  BY AppendProperties
<1>. HIDE DEF r
<1>2. /\ Len(q) \in Nat /\ DOMAIN q = 1..Len(q)
      /\ DOMAIN r = 1..(Len(q) + 1)
  BY <1>1, LenProperties
<1>3. \A i \in DOMAIN q : q[i] # h
  BY DEF Elems
<1>4. Distinct(r)
  BY <1>1, <1>2, <1>3 DEF Distinct
<1>5. \A i \in DOMAIN r : r[i] \in Elems(q) \union {h}
  <2>. SUFFICES ASSUME NEW i \in DOMAIN r PROVE r[i] \in Elems(q) \union {h}
    OBVIOUS
  <2>1. CASE i = Len(q) + 1
    BY <1>1, <2>1
  <2>2. CASE i # Len(q) + 1
    <3>1. i \in DOMAIN q /\ r[i] = q[i]
      BY <1>1, <1>2, <2>2
    <3>. QED
      BY <3>1 DEF Elems
  <2>. QED
    BY <2>1, <2>2
<1>6. \A i \in DOMAIN q : i \in DOMAIN r /\ r[i] = q[i]
  BY <1>1, <1>2
<1>7. Len(q) + 1 \in DOMAIN r
  BY <1>2
<1>8. Elems(r) = Elems(q) \union {h}
  <2>1. Elems(r) \subseteq Elems(q) \union {h}
    BY <1>5 DEF Elems
  <2>2. Elems(q) \subseteq Elems(r)
    BY <1>6 DEF Elems
  <2>3. h \in Elems(r)
    BY <1>1, <1>7 DEF Elems
  <2>. QED
    BY <2>1, <2>2, <2>3
<1>. QED
  BY <1>1, <1>4, <1>8 DEF r

LEMMA ShiftHead ==
  ASSUME NEW q \in Seq(Hosts), q # <<>>, Distinct(q)
  PROVE  /\ Tail(q) \in Seq(Hosts)
         /\ Distinct(Tail(q))
         /\ Elems(Tail(q)) = Elems(q) \ {q[1]}
<1>. DEFINE r == Tail(q)
<1>1. /\ r \in Seq(Hosts)
      /\ Len(r) = Len(q) - 1
      /\ \A i \in 1..Len(r) : r[i] = q[i + 1]
  BY HeadTailProperties
<1>. HIDE DEF r
<1>2. /\ Len(q) \in Nat \ {0} /\ DOMAIN q = 1..Len(q) /\ DOMAIN r = 1..(Len(q) - 1)
  BY <1>1, LenProperties, EmptySeq
<1>3. \A i \in DOMAIN r : r[i] = q[i + 1] /\ i + 1 \in DOMAIN q /\ i + 1 # 1
  BY <1>1, <1>2
<1>4. \A k \in DOMAIN q : k # 1 => k - 1 \in DOMAIN r /\ r[k - 1] = q[k]
  <2>. SUFFICES ASSUME NEW k \in DOMAIN q, k # 1 PROVE k - 1 \in DOMAIN r /\ r[k - 1] = q[k]
    OBVIOUS
  <2>1. k - 1 \in DOMAIN r /\ (k - 1) + 1 = k
    BY <1>2
  <2>. QED
    BY <1>3, <2>1
<1>5. 1 \in DOMAIN q
  BY <1>2
<1>6. Distinct(r)
  <2>. SUFFICES ASSUME NEW i \in DOMAIN r, NEW j \in DOMAIN r, r[i] = r[j] PROVE i = j
    BY DEF Distinct
  <2>1. i + 1 = j + 1
    BY <1>3 DEF Distinct
  <2>. QED
    BY <1>2, <2>1
<1>7. \A i \in DOMAIN r : r[i] \in Elems(q) /\ r[i] # q[1]
  BY <1>3, <1>5 DEF Distinct, Elems
<1>8. \A x \in Elems(q) : x # q[1] => x \in Elems(r)
  BY <1>4 DEF Elems
<1>9. Elems(r) = Elems(q) \ {q[1]}
  BY <1>7, <1>8 DEF Elems
<1>. QED
  BY <1>1, <1>6, <1>9 DEF r

(* The line after pruneWaiting, in the words of the two lemmas above.      *)
LEMMA PrunedLine ==
  ASSUME GateInv, NEW n \in 0..Len(waiting)
  PROVE  /\ Pruned(n) \in Seq(Hosts)
         /\ SinceKept(n) \in [Hosts -> Ages]
         /\ Distinct(Pruned(n))
         /\ Elems(Pruned(n)) = {g \in Hosts : SinceKept(n)[g] # Absent}
         /\ Elems(Pruned(n)) \intersect active = {}
<1>1. Pruned(n) \in Seq(Hosts) /\ DOMAIN Pruned(n) = 1..Len(Pruned(n))
  BY PrunedSuffix, LenProperties DEF GateInv, GateType
<1>. QED
  BY <1>1, PrunedConsistent DEF Distinct, Elems, GateInv, LineConsistent

LEMMA QueuedInv ==
  ASSUME GateInv, NEW h \in Hosts, NEW force \in BOOLEAN, NEW n \in 0..Len(waiting),
         Queued(h, force, n), sincePoll' = [sincePoll EXCEPT ![h] = 0], UNCHANGED cooling
  PROVE  GateInv'
<1>. DEFINE q == Pruned(n)
            s == SinceKept(n)
<1>1. /\ q \in Seq(Hosts) /\ s \in [Hosts -> Ages] /\ Distinct(q)
      /\ Elems(q) = {g \in Hosts : s[g] # Absent} /\ Elems(q) \intersect active = {}
  BY PrunedLine
<1>2. /\ since' = [s EXCEPT ![h] = 0]
      /\ waiting' = IF s[h] = Absent THEN Append(q, h) ELSE q
      /\ active' = active /\ holders' = holders /\ h \notin active
  BY DEF Queued, Refreshed, Refused
<1>. HIDE DEF q, s
<1>3. 0 # Absent /\ 0 \in Ages
  BY GateAssumption DEF Ages, Absent
<1>4. since' \in [Hosts -> Ages]
  BY <1>1, <1>2, <1>3
<1>5. {g \in Hosts : since'[g] # Absent} = Elems(q) \union {h}
  BY <1>1, <1>2, <1>3
<1>6. waiting' \in Seq(Hosts) /\ Distinct(waiting') /\ Elems(waiting') = Elems(q) \union {h}
  <2>1. CASE s[h] = Absent
    <3>1. h \notin Elems(q)
      BY <1>1, <2>1
    <3>. QED
      BY <1>1, <1>2, <2>1, <3>1, AppendFresh
  <2>2. CASE s[h] # Absent
    BY <1>1, <1>2, <2>2
  <2>. QED
    BY <2>1, <2>2
<1>7. GateType'
  BY <1>2, <1>4, <1>6, GateAssumption DEF GateInv, GateType
<1>8. OneReconciliation'
  BY <1>2 DEF GateInv, OneReconciliation
<1>9. LineConsistent'
  <2>1. Line' = Elems(waiting')
    BY DEF Line, Elems
  <2>2. Line' \intersect active' = {}
    BY <1>1, <1>2, <1>6, <2>1
  <2>3. Line' = {g \in Hosts : since'[g] # Absent}
    BY <1>5, <1>6, <2>1
  <2>. QED
    BY <1>6, <2>2, <2>3 DEF LineConsistent, Distinct
<1>. QED
  BY <1>2, <1>7, <1>8, <1>9 DEF GateInv

LEMMA AdmittedInv ==
  ASSUME GateInv, NEW h \in Hosts, NEW force \in BOOLEAN, NEW n \in 0..Len(waiting),
         Admitted(h, force, n), sincePoll' = [sincePoll EXCEPT ![h] = 0], UNCHANGED cooling
  PROVE  GateInv'
<1>. DEFINE q == Pruned(n)
            s == SinceKept(n)
<1>1. /\ q \in Seq(Hosts) /\ s \in [Hosts -> Ages] /\ Distinct(q)
      /\ Elems(q) = {g \in Hosts : s[g] # Absent} /\ Elems(q) \intersect active = {}
  BY PrunedLine
<1>2. /\ since' = [s EXCEPT ![h] = Absent]
      /\ waiting' = IF q = <<>> THEN <<>> ELSE Tail(q)
      /\ q # <<>> => q[1] = h
      /\ active' = active \union {h} /\ holders' = [holders EXCEPT ![h] = @ + 1]
      /\ h \notin active /\ ~AtCapacity
  BY DEF Admitted, MayEnter, Refused
<1>. HIDE DEF q, s
<1>3. Absent \in Ages
  BY GateAssumption DEF Ages, Absent
<1>4. since' \in [Hosts -> Ages]
  BY <1>1, <1>2, <1>3
<1>5. {g \in Hosts : since'[g] # Absent} = Elems(q) \ {h}
  BY <1>1, <1>2
<1>6. waiting' \in Seq(Hosts) /\ Distinct(waiting') /\ Elems(waiting') = Elems(q) \ {h}
  <2>1. CASE q = <<>>
    <3>1. <<>> \in Seq(Hosts) /\ DOMAIN <<>> = {}
      BY EmptySeq
    <3>2. waiting' = <<>> /\ Elems(q) = {} /\ Elems(waiting') = {} /\ Distinct(waiting')
      BY <1>2, <2>1, <3>1 DEF Elems, Distinct
    <3>. QED
      BY <3>1, <3>2
  <2>2. CASE q # <<>>
    BY <1>1, <1>2, <2>2, ShiftHead
  <2>. QED
    BY <2>1, <2>2
<1>7. OneReconciliation'
  BY <1>2 DEF GateInv, OneReconciliation, GateType
<1>8. GateType'
  BY <1>2, <1>4, <1>6, GateAssumption DEF GateInv, GateType
<1>9. LineConsistent'
  <2>1. Line' = Elems(waiting')
    BY DEF Line, Elems
  <2>2. Line' \intersect active' = {}
    BY <1>1, <1>2, <1>6, <2>1
  <2>3. Line' = {g \in Hosts : since'[g] # Absent}
    BY <1>5, <1>6, <2>1
  <2>. QED
    BY <1>6, <2>2, <2>3 DEF LineConsistent, Distinct
<1>10. IsFiniteSet(active') /\ Cardinality(active') <= MaxConcurrent
  <2>1. IsFiniteSet(active') /\ Cardinality(active') = Cardinality(active) + 1
    BY <1>2, FS_AddElement DEF GateInv
  <2>2. Cardinality(active) \in Nat
    BY FS_CardinalityType DEF GateInv
  <2>. QED
    BY <1>2, <2>1, <2>2, GateAssumption DEF AtCapacity
<1>. QED
  BY <1>7, <1>8, <1>9, <1>10 DEF GateInv

LEMMA ReleaseInv == ASSUME GateInv, NEW h \in Hosts, Release(h) PROVE GateInv'
<1>. USE DEF GateInv, Release
<1>1. GateType'
  BY GateAssumption DEF GateType
<1>2. OneReconciliation'
  BY DEF OneReconciliation, GateType
<1>3. LineConsistent'
  BY DEF LineConsistent, Line
<1>4. IsFiniteSet(active') /\ Cardinality(active') <= MaxConcurrent
  <2>1. /\ IsFiniteSet(active') /\ Cardinality(active) \in Nat
        /\ Cardinality(active') = IF h \in active THEN Cardinality(active) - 1 ELSE Cardinality(active)
    BY FS_RemoveElement, FS_CardinalityType
  <2>. QED
    BY <2>1, GateAssumption
<1>. QED
  BY <1>1, <1>2, <1>3, <1>4

LEMMA TickInv == ASSUME GateInv, Tick PROVE GateInv'
<1>. USE DEF GateInv, Tick
<1>1. since' \in [Hosts -> Ages] /\ \A g \in Hosts : since'[g] = Absent <=> since[g] = Absent
  BY GateAssumption DEF GateType, Ages, Absent
<1>2. GateType'
  BY <1>1, GateAssumption DEF GateType
<1>3. OneReconciliation'
  BY DEF OneReconciliation
<1>4. LineConsistent'
  BY <1>1 DEF LineConsistent, Line
<1>. QED
  BY <1>2, <1>3, <1>4

(* The inductive invariant holds in every reachable state.                 *)
THEOREM GateInvariant == GateSpec => []GateInv
<1>1. ASSUME GateInv, [GateNext]_gateVars PROVE GateInv'
  <2>1. CASE Tick
    BY <1>1, <2>1, TickInv
  <2>2. ASSUME NEW h \in Hosts, Release(h) PROVE GateInv'
    BY <1>1, <2>2, ReleaseInv
  <2>3. ASSUME NEW h \in Hosts, Heartbeat(h) PROVE GateInv'
    <3>1. PICK force \in BOOLEAN : TryAcquire(h, force)
      BY <2>3 DEF Heartbeat
    <3>. QED
      BY <1>1, <3>1, CoalescedInv, QueuedInv, AdmittedInv DEF TryAcquire
  <2>4. CASE UNCHANGED gateVars
    BY <1>1, <2>4 DEF gateVars, GateInv, GateType, OneReconciliation, LineConsistent, Line
  <2>. QED
    BY <1>1, <2>1, <2>2, <2>3, <2>4 DEF GateNext
<1>. QED
  BY <1>1, InitInv, PTL DEF GateSpec

(* The state keeps its types under every heartbeat, release and tick.      *)
THEOREM GateTypeCorrect == GateSpec => []GateType
  BY GateInvariant, PTL DEF GateInv

(* No host is ever under two rebuilds of its desired state at once.        *)
THEOREM GateMutualExclusion == GateSpec => []OneReconciliation
  BY GateInvariant, PTL DEF GateInv

(* The number of hosts being rebuilt never exceeds maxConcurrent.          *)
THEOREM GateCapacity == GateSpec => []CapacityRespected
<1>1. ASSUME GateInv PROVE CapacityRespected
  <2>1. {h \in Hosts : holders[h] > 0} = active
    BY <1>1 DEF GateInv, OneReconciliation, GateType
  <2>. QED
    BY <1>1, <2>1 DEF GateInv, CapacityRespected
<1>. QED
  BY <1>1, GateInvariant, PTL

(* The waiting array and the waitingSince map never disagree.              *)
THEOREM GateLine == GateSpec => []LineConsistent
  BY GateInvariant, PTL DEF GateInv

-----------------------------------------------------------------------------
(* What stands in the line after an admission stood behind the admitted    *)
(* host before it: the head of the pruned line is the host that enters.    *)
LEMMA AdmittedFirst ==
  ASSUME GateInv, NEW h \in Hosts, NEW force \in BOOLEAN, NEW n \in 0..Len(waiting),
         Admitted(h, force, n), NEW i \in DOMAIN waiting'
  PROVE  /\ n + 1 \in DOMAIN waiting /\ waiting[n + 1] = h
         /\ n + 1 + i \in DOMAIN waiting /\ waiting[n + 1 + i] = waiting'[i]
<1>. DEFINE q == Pruned(n)
            m == Len(waiting)
<1>1. /\ q \in Seq(Hosts) /\ Len(q) = m - n
      /\ \A k \in 1..(m - n) : q[k] = waiting[n + k]
  BY PrunedSuffix DEF GateInv, GateType
<1>2. m \in Nat /\ DOMAIN waiting = 1..m
  BY LenProperties DEF GateInv, GateType
<1>3. waiting' = IF q = <<>> THEN <<>> ELSE Tail(q)
  BY DEF Admitted
<1>4. q # <<>> => q[1] = h
  BY DEF Admitted, MayEnter
<1>. HIDE DEF q, m
<1>5. q # <<>>
  <2>. SUFFICES ASSUME q = <<>> PROVE FALSE
    OBVIOUS
  <2>. QED
    BY <1>3
<1>6. /\ Len(q) \in Nat \ {0} /\ Len(Tail(q)) = Len(q) - 1
      /\ DOMAIN Tail(q) = 1..(Len(q) - 1)
      /\ \A k \in 1..Len(Tail(q)) : Tail(q)[k] = q[k + 1]
  BY <1>1, <1>5, HeadTailProperties, LenProperties, EmptySeq
<1>7. i \in 1..(m - n - 1) /\ waiting'[i] = q[i + 1]
  BY <1>1, <1>2, <1>3, <1>5, <1>6
<1>8. 1 \in 1..(m - n) /\ i + 1 \in 1..(m - n) /\ n + (i + 1) = n + 1 + i
  BY <1>2, <1>7
<1>9. n + 1 \in 1..m /\ n + 1 + i \in 1..m
  BY <1>2, <1>8
<1>. QED
  BY <1>1, <1>2, <1>4, <1>5, <1>7, <1>8, <1>9

(* An admission never passes over a host that still counts: whoever is in  *)
(* line after tryAcquire let a host in stood behind that host.             *)
THEOREM GateInOrder == GateSpec => NoOvertaking
<1>. DEFINE InOrder ==
       \A h \in active' \ active, g \in Hosts :
          (\E i \in DOMAIN waiting : waiting[i] = g) /\ (\E i \in DOMAIN waiting' : waiting'[i] = g)
          => \E i, j \in DOMAIN waiting : waiting[i] = h /\ waiting[j] = g /\ i < j
<1>1. ASSUME GateInv, [GateNext]_gateVars PROVE InOrder
  <2>1. CASE active' \subseteq active
    BY <2>1
  <2>2. ASSUME NEW x \in Hosts, NEW force \in BOOLEAN, NEW n \in 0..Len(waiting),
               Admitted(x, force, n)
        PROVE  InOrder
    <3>. SUFFICES ASSUME NEW h \in active' \ active, NEW g \in Hosts,
                         NEW k \in DOMAIN waiting', waiting'[k] = g
                  PROVE  \E i, j \in DOMAIN waiting : waiting[i] = h /\ waiting[j] = g /\ i < j
      OBVIOUS
    <3>1. h = x
      BY <2>2 DEF Admitted
    <3>2. /\ n + 1 \in DOMAIN waiting /\ waiting[n + 1] = x
          /\ n + 1 + k \in DOMAIN waiting /\ waiting[n + 1 + k] = g
      BY <1>1, <2>2, AdmittedFirst
    <3>3. n + 1 < n + 1 + k
      <4>1. waiting' \in Seq(Hosts)
        BY <1>1, <2>2, PrunedLine, ShiftHead, EmptySeq DEF Admitted
      <4>. QED
        BY <4>1, LenProperties
    <3>. QED
      BY <3>1, <3>2, <3>3
  <2>3. GateNext => active' \subseteq active \/ \E x \in Hosts, force \in BOOLEAN, n \in 0..Len(waiting) :
                                              Admitted(x, force, n)
    BY DEF GateNext, Tick, Heartbeat, TryAcquire, Release, Coalesced, Queued
  <2>. QED
    BY <1>1, <2>1, <2>2, <2>3 DEF gateVars
<1>. QED
  BY <1>1, GateInvariant, PTL DEF GateSpec, NoOvertaking

-----------------------------------------------------------------------------
(* How old the entry of a steady host can be: a heartbeat refused because  *)
(* the host still cools leaves the entry alone, but then the entry is no   *)
(* older than the window has run; any other heartbeat refreshes it.        *)
SteadyFresh ==
    \A h \in Steady : since[h] # Absent =>
       /\ since[h] <= CoalesceTicks + sincePoll[h]
       /\ cooling[h] > 0 => since[h] + cooling[h] <= CoalesceTicks

LEMMA SteadyTick == ASSUME GateInv, SteadyFresh, Tick PROVE SteadyFresh'
<1>. SUFFICES ASSUME NEW h \in Steady, since'[h] # Absent
              PROVE  /\ since'[h] <= CoalesceTicks + sincePoll'[h]
                     /\ cooling'[h] > 0 => since'[h] + cooling'[h] <= CoalesceTicks
  BY DEF SteadyFresh
<1>1. h \in Hosts /\ CoalesceTicks \in Nat /\ WaitTimeout \in Nat /\ PollEvery \in Nat
  BY GateAssumption
<1>2. /\ since[h] \in Ages /\ cooling[h] \in 0..CoalesceTicks /\ sincePoll[h] \in 0..PollEvery
  BY <1>1 DEF GateInv, GateType
<1>3. /\ since'[h] = IF since[h] = Absent \/ since[h] > WaitTimeout THEN since[h] ELSE since[h] + 1
      /\ cooling'[h] = IF cooling[h] > 0 THEN cooling[h] - 1 ELSE 0
      /\ sincePoll'[h] = sincePoll[h] + 1
  BY <1>1 DEF Tick
<1>4. since[h] # Absent
  BY <1>3
<1>5. /\ since[h] <= CoalesceTicks + sincePoll[h]
      /\ cooling[h] > 0 => since[h] + cooling[h] <= CoalesceTicks
  BY <1>4 DEF SteadyFresh
<1>. QED
  BY <1>1, <1>2, <1>3, <1>5 DEF Ages, Absent

LEMMA SteadyHeartbeat ==
  ASSUME GateInv, SteadyFresh, NEW x \in Hosts, Heartbeat(x) PROVE SteadyFresh'
<1>. SUFFICES ASSUME NEW h \in Steady, since'[h] # Absent
              PROVE  /\ since'[h] <= CoalesceTicks + sincePoll'[h]
                     /\ cooling'[h] > 0 => since'[h] + cooling'[h] <= CoalesceTicks
  BY DEF SteadyFresh
<1>1. h \in Hosts /\ CoalesceTicks \in Nat
  BY GateAssumption
<1>2. PICK force \in BOOLEAN, n \in 0..Len(waiting) :
         Coalesced(x, force, n) \/ Queued(x, force, n) \/ Admitted(x, force, n)
  BY DEF Heartbeat, TryAcquire
<1>3. /\ sincePoll' = [sincePoll EXCEPT ![x] = 0] /\ cooling' = cooling
  BY DEF Heartbeat, TryAcquire
<1>4. SinceKept(n)[h] = Absent \/ SinceKept(n)[h] = since[h]
  BY <1>1 DEF SinceKept
<1>5. /\ SinceKept(n) \in [Hosts -> Ages]
      /\ since \in [Hosts -> Ages] /\ cooling \in [Hosts -> 0..CoalesceTicks]
      /\ sincePoll \in [Hosts -> 0..PollEvery]
  BY PrunedLine DEF GateInv, GateType
<1>6. since[h] # Absent =>
         /\ since[h] <= CoalesceTicks + sincePoll[h]
         /\ cooling[h] > 0 => since[h] + cooling[h] <= CoalesceTicks
  BY DEF SteadyFresh
<1>7. CASE h # x
  <2>1. since'[h] = since[h] /\ sincePoll'[h] = sincePoll[h]
    BY <1>1, <1>2, <1>3, <1>4, <1>5, <1>7 DEF Coalesced, Queued, Admitted, Refreshed
  <2>. QED
    BY <1>3, <1>6, <2>1
<1>8. CASE h = x
  <2>1. sincePoll'[h] = 0
    BY <1>3, <1>5, <1>8
  <2>2. CASE Coalesced(x, force, n)
    <3>1. since'[h] = since[h] /\ since[h] # Absent
      BY <1>4, <2>2 DEF Coalesced
    <3>2. h \notin active
      BY <1>1, <3>1 DEF GateInv, LineConsistent
    <3>3. cooling[h] > 0
      BY <1>8, <2>2, <3>2 DEF Coalesced, Refused
    <3>4. since[h] + cooling[h] <= CoalesceTicks
      BY <1>6, <3>1, <3>3
    <3>. QED
      BY <1>1, <1>3, <1>5, <2>1, <3>1, <3>3, <3>4 DEF Ages, Absent
  <2>3. CASE Queued(x, force, n)
    <3>1. since'[h] = 0
      BY <1>1, <1>5, <1>8, <2>3 DEF Queued, Refreshed
    <3>. QED
      BY <1>1, <1>3, <1>5, <2>1, <3>1
  <2>4. CASE Admitted(x, force, n)
    <3>1. since'[h] = Absent
      BY <1>1, <1>5, <1>8, <2>4 DEF Admitted
    <3>. QED
      BY <3>1
  <2>. QED
    BY <1>2, <2>2, <2>3, <2>4
<1>. QED
  BY <1>7, <1>8

LEMMA SteadyRelease ==
  ASSUME GateInv, SteadyFresh, NEW x \in Hosts, Release(x) PROVE SteadyFresh'
<1>. SUFFICES ASSUME NEW h \in Steady, since'[h] # Absent
              PROVE  /\ since'[h] <= CoalesceTicks + sincePoll'[h]
                     /\ cooling'[h] > 0 => since'[h] + cooling'[h] <= CoalesceTicks
  BY DEF SteadyFresh
<1>1. h \in Hosts /\ since' = since /\ sincePoll' = sincePoll
      /\ cooling' = [cooling EXCEPT ![x] = CoalesceTicks]
  BY GateAssumption DEF Release
<1>2. x \in active
  BY DEF Release, GateInv, OneReconciliation, GateType
<1>3. h # x
  BY <1>1, <1>2 DEF GateInv, LineConsistent
<1>. QED
  BY <1>1, <1>3 DEF SteadyFresh, GateInv, GateType

(* A host that answers every nextInterval leaves the line only into the    *)
(* gate, provided that the line's timeout is not shorter than a coalescing *)
(* window and one poll together (30 s against 5 s and 5 s in the code).    *)
THEOREM GateKeepsPlace ==
  ASSUME CoalesceTicks + PollEvery <= WaitTimeout
  PROVE  GateSpec => SteadyKeepsPlace
<1>. DEFINE Kept == \A h \in Steady : h \in Line /\ h \notin Line' => h \in active'
<1>1. GateInit => SteadyFresh
  BY GateAssumption DEF GateInit, SteadyFresh
<1>2. ASSUME GateInv, SteadyFresh, [GateNext]_gateVars PROVE SteadyFresh'
  <2>1. CASE UNCHANGED gateVars
    BY <1>2, <2>1 DEF gateVars, SteadyFresh
  <2>. QED
    BY <1>2, <2>1, SteadyTick, SteadyHeartbeat, SteadyRelease DEF GateNext
<1>3. ASSUME GateInv, GateInv', SteadyFresh, [GateNext]_gateVars PROVE Kept
  <2>. SUFFICES ASSUME NEW h \in Steady, h \in Line, h \notin Line' PROVE h \in active'
    OBVIOUS
  <2>1. h \in Hosts /\ since[h] # Absent /\ since'[h] = Absent
    BY <1>3, GateAssumption DEF GateInv, LineConsistent
  <2>2. Fresh(h)
    <3>1. since[h] <= CoalesceTicks + sincePoll[h]
      BY <1>3, <2>1 DEF SteadyFresh
    <3>2. since[h] \in Ages /\ sincePoll[h] \in 0..PollEvery
      BY <1>3, <2>1 DEF GateInv, GateType
    <3>3. since[h] <= WaitTimeout
      BY <3>1, <3>2, GateAssumption DEF Ages, Absent
    <3>. QED
      BY <2>1, <3>3 DEF Fresh
  <2>3. ~Tick
    BY <1>3, <2>1, GateAssumption DEF Tick, GateInv, GateType, Ages, Absent
  <2>4. ASSUME NEW x \in Hosts, Release(x) PROVE FALSE
    BY <2>1, <2>4 DEF Release
  <2>5. since' # since
    BY <2>1
  <2>6. PICK x \in Hosts : Heartbeat(x)
    BY <1>3, <2>3, <2>4, <2>5 DEF GateNext, gateVars
  <2>7. PICK force \in BOOLEAN, n \in 0..Len(waiting) :
           /\ Expired(n)
           /\ Coalesced(x, force, n) \/ Queued(x, force, n) \/ Admitted(x, force, n)
    BY <2>6 DEF Heartbeat, TryAcquire
  <2>8. SinceKept(n)[h] = since[h] /\ SinceKept(n) \in [Hosts -> Ages]
    <3>1. h \notin Dropped(n)
      BY <2>2, <2>7 DEF Dropped, Expired
    <3>. QED
      BY <1>3, <2>1, <3>1, PrunedLine DEF SinceKept
  <2>9. ~Coalesced(x, force, n)
    BY <2>1, <2>8 DEF Coalesced
  <2>10. ~Queued(x, force, n)
    BY <2>1, <2>8 DEF Queued, Refreshed, Absent
  <2>11. since' = [SinceKept(n) EXCEPT ![x] = Absent] /\ active' = active \union {x}
    BY <2>7, <2>9, <2>10 DEF Admitted
  <2>. QED
    BY <2>1, <2>8, <2>11
<1>4. GateSpec => []SteadyFresh
  BY <1>1, <1>2, GateInvariant, PTL DEF GateSpec
<1>. QED
  BY <1>3, <1>4, GateInvariant, PTL DEF GateSpec, SteadyKeepsPlace

-----------------------------------------------------------------------------
(* DesiredState.  First its types, in the parts that one action changes;   *)
(* they say more than TypeOK of the rebuild and of the frames under way.   *)
Rows == [ver : Versions, running : BOOLEAN]
Sents == [acts : SUBSET Versions, rev : Nat, due : BOOLEAN]
Batches == [acts : SUBSET Versions, issued : Nat]
Plans == [rev : Nat, hash : Hashes, local : Runtimes]
Marks == [rev : Nat, hash : Hashes]
Acks == [ver : Versions, rev : Nat, hash : Hashes]

PanelType ==
    /\ rule \in Rows /\ revision \in Nat /\ editor \in {"idle", "audit", "refresh"}
    /\ sent \subseteq Sents /\ AtMostOne(sent)
    /\ batch \subseteq Batches /\ AtMostOne(batch)
    /\ clock \in Nat /\ order \in Nat
    /\ plan \subseteq Plans /\ AtMostOne(plan)

\* What a heartbeat knows before and after its plan is made.
RebuildType ==
    \/ rebuild = Idle
    \/ rebuild \in [pc : {"reading"}, local : Runtimes, awaited : BOOLEAN,
                    row : SUBSET Rows, rev : SUBSET Nat]
    \/ /\ rebuild \in [pc : {"planned"}, local : Runtimes, awaited : BOOLEAN, rev : Nat,
                       ver : Versions, acts : SUBSET Versions]
       /\ rebuild.acts \subseteq {rebuild.ver}

Frames == {f \in SUBSET States : AtMostOne(f)}

WireType ==
    /\ stream \in [up : BOOLEAN, frames : Seq(Frames)] /\ Len(stream.frames) <= MaxEvents
    /\ reply \subseteq States /\ AtMostOne(reply)
    /\ wakes \in [sse : BOOLEAN, force : BOOLEAN]

AgentType ==
    /\ recv \in Marks /\ applied \in Marks
    /\ record \subseteq [ver : Versions, ok : BOOLEAN] /\ AtMostOne(record)
    /\ cooldown \in BOOLEAN
    /\ latest \in Nat
    /\ jobs \subseteq Jobs /\ working \subseteq Jobs /\ AtMostOne(working)
    /\ acks \subseteq Acks
    /\ runtime \in Runtimes

ReportType ==
    /\ reported \in Nat
    /\ outbox \subseteq Results /\ AtMostOne(outbox)
    /\ flight \subseteq Results /\ status \subseteq Results /\ AtMostOne(flight \cup status)

Types == PanelType /\ RebuildType /\ WireType /\ AgentType /\ ReportType

LEMMA VersionsNat == Len(Edits) \in Nat /\ Versions \subseteq Nat
  BY EditsAssumption, LenProperties DEF Versions

LEMMA HashType ==
  ASSUME NEW acts \in SUBSET Versions, NEW known \in BOOLEAN, NEW rev \in Nat
  PROVE  Hash(acts, known, rev) \in Hashes
  BY DEF Hash, Hashes

\* The fields of a desired state.
LEMMA StateFields ==
  ASSUME NEW s \in States
  PROVE  /\ s.acts \subseteq Versions /\ s.known \in BOOLEAN /\ s.rev \in Nat /\ s.issued \in Nat
         /\ Hash(s.acts, s.known, s.rev) \in Hashes
  BY HashType DEF States

LEMMA DesiredInit == Init => Types
<1>. SUFFICES ASSUME Init PROVE Types
  OBVIOUS
<1>. USE VersionsNat
<1>1. 0 \in Versions
  BY DEF Versions
<1>2. Hash({}, FALSE, 0) \in Hashes
  BY HashType
<1>3. PanelType
  BY <1>1 DEF Init, PanelType, Rows, Sents, AtMostOne
<1>4. RebuildType
  BY DEF Init, RebuildType
<1>5. WireType
  BY BoundsAssumption, EmptySeq DEF Init, WireType, AtMostOne
<1>6. AgentType
  BY <1>1, <1>2 DEF Init, AgentType, Marks, AtMostOne, Runtimes
<1>7. ReportType
  BY DEF Init, ReportType, AtMostOne
<1>. QED
  BY <1>3, <1>4, <1>5, <1>6, <1>7 DEF Types

\* A frame pushed to a connected agent is the last of the stream, or closes it.
LEMMA PushType ==
  ASSUME WireType, NEW f \in Frames, Push(f)
  PROVE  stream' \in [up : BOOLEAN, frames : Seq(Frames)] /\ Len(stream'.frames) <= MaxEvents
<1>1. PICK u \in BOOLEAN, q \in Seq(Frames) : stream = [up |-> u, frames |-> q]
  BY DEF WireType
<1>2. Len(q) \in Nat /\ Len(q) <= MaxEvents /\ MaxEvents \in Nat
  BY <1>1, LenProperties, BoundsAssumption DEF WireType
<1>3. Append(q, f) \in Seq(Frames) /\ Len(Append(q, f)) = Len(q) + 1
  BY AppendProperties
<1>4. <<>> \in Seq(Frames) /\ Len(<<>>) = 0
  BY EmptySeq
<1>5. \/ stream' = stream
      \/ stream' = [up |-> FALSE, frames |-> <<>>]
      \/ Len(q) # MaxEvents /\ stream' = [up |-> u, frames |-> Append(q, f)]
  BY <1>1 DEF Push
<1>6. CASE stream' = stream
  BY <1>6 DEF WireType
<1>7. CASE stream' = [up |-> FALSE, frames |-> <<>>]
  BY <1>2, <1>4, <1>7
<1>8. CASE Len(q) # MaxEvents /\ stream' = [up |-> u, frames |-> Append(q, f)]
  BY <1>1, <1>2, <1>3, <1>8
<1>. QED
  BY <1>5, <1>6, <1>7, <1>8

\* The operator's request.
LEMMA EditTypes == ASSUME Types, Edit PROVE Types'
<1>. USE DEF database, caches, agent, reports, budget
<1>1. CASE EditRule
  <2>1. PICK v \in Versions, r \in BOOLEAN : rule = [ver |-> v, running |-> r]
    BY DEF Types, PanelType, Rows
  <2>2. v + 1 \in Versions /\ rule' = [ver |-> v + 1, running |-> FALSE]
    BY <1>1, <2>1, VersionsNat DEF EditRule, Versions
  <2>3. rule' \in Rows
    BY <2>2 DEF Rows
  <2>. QED
    BY <1>1, <2>3 DEF EditRule, Types, PanelType, RebuildType, WireType, AgentType, ReportType
<1>2. CASE AuditEdit
  <2>1. revision' \in Nat /\ editor' \in {"idle", "audit", "refresh"} /\ plan' \subseteq Plans /\ AtMostOne(plan')
    BY <1>2 DEF AuditEdit, Types, PanelType, AtMostOne
  <2>. QED
    BY <1>2, <2>1 DEF AuditEdit, Types, PanelType, RebuildType, WireType, AgentType, ReportType
<1>3. CASE RefreshAgent
  <2>1. stream' \in [up : BOOLEAN, frames : Seq(Frames)] /\ Len(stream'.frames) <= MaxEvents
    <3>1. Refresh \in Frames
      BY DEF Refresh, Frames, AtMostOne
    <3>. QED
      BY <1>3, <3>1, PushType DEF RefreshAgent, Types, WireType
  <2>2. plan' \subseteq Plans /\ AtMostOne(plan') /\ editor' \in {"idle", "audit", "refresh"}
    BY <1>3 DEF RefreshAgent, AtMostOne
  <2>. QED
    BY <1>3, <2>1, <2>2 DEF RefreshAgent, Types, PanelType, RebuildType, WireType, AgentType, ReportType
<1>. QED
  BY <1>1, <1>2, <1>3 DEF Edit

LEMMA BeatTypes == ASSUME Types, Beat \/ BusyBeat PROVE Types'
<1>. USE DEF database, caches, agent, reports, budget
<1>1. CASE Beat
  <2>1. RebuildType'
    <3>1. CASE UNCHANGED rebuild
      BY <3>1 DEF Types, RebuildType
    <3>2. CASE rebuild' = [pc |-> "reading", local |-> runtime, awaited |-> TRUE,
                           row |-> {}, rev |-> {}]
      <4>1. runtime \in Runtimes
        BY DEF Types, AgentType
      <4>. QED
        BY <3>2, <4>1 DEF RebuildType
    <3>. QED
      BY <1>1, <3>1, <3>2 DEF Beat
  <2>. QED
    BY <1>1, <2>1 DEF Beat, Types, PanelType, WireType, AgentType, ReportType
<1>2. CASE BusyBeat
  <2>1. wakes' \in [sse : BOOLEAN, force : BOOLEAN]
    BY <1>2 DEF BusyBeat, Types, WireType
  <2>. QED
    BY <1>2, <2>1 DEF BusyBeat, Types, PanelType, RebuildType, WireType, AgentType, ReportType
<1>. QED
  BY <1>1, <1>2

\* A heartbeat that is reading is one of the second kind.
LEMMA Reading ==
  ASSUME RebuildType, rebuild.pc = "reading"
  PROVE  rebuild \in [pc : {"reading"}, local : Runtimes, awaited : BOOLEAN,
                      row : SUBSET Rows, rev : SUBSET Nat]
  BY DEF RebuildType, Idle

LEMMA ReadTypes == ASSUME Types, ReadRule \/ ReadRevision \/ Reconcile PROVE Types'
<1>. USE DEF database, caches, agent, reports, budget
<1>1. rebuild.pc = "reading" /\ RebuildType
  BY DEF ReadRule, ReadRevision, Reconcile, Types
<1>2. PICK l \in Runtimes, a \in BOOLEAN, row \in SUBSET Rows, rev \in SUBSET Nat :
         rebuild = [pc |-> "reading", local |-> l, awaited |-> a, row |-> row, rev |-> rev]
  BY <1>1, Reading
<1>3. CASE ReadRule
  <2>1. rebuild' = [pc |-> "reading", local |-> l, awaited |-> a, row |-> {rule}, rev |-> rev]
    BY <1>2, <1>3 DEF ReadRule
  <2>2. RebuildType'
    BY <2>1 DEF RebuildType, Types, PanelType
  <2>. QED
    BY <1>3, <2>2 DEF ReadRule, Types, PanelType, WireType, AgentType, ReportType
<1>4. CASE ReadRevision
  <2>1. rebuild' = [pc |-> "reading", local |-> l, awaited |-> a, row |-> row, rev |-> {revision}]
    BY <1>2, <1>4 DEF ReadRevision
  <2>2. RebuildType'
    BY <2>1 DEF RebuildType, Types, PanelType
  <2>. QED
    BY <1>4, <2>2 DEF ReadRevision, Types, PanelType, WireType, AgentType, ReportType
<1>5. CASE Reconcile
  <2>1. PICK r \in row, n \in rev :
           /\ rebuild' = [pc |-> "planned", local |-> l, awaited |-> a, rev |-> n, ver |-> r.ver,
                          acts |-> Actions(r.ver, r.running, l)]
           /\ rule' = [rule EXCEPT !.running = @ \/ Recoverable(r, l)]
    BY <1>2, <1>5 DEF Reconcile
  <2>2. r.ver \in Versions /\ Actions(r.ver, r.running, l) \subseteq {r.ver}
    BY DEF Rows, Actions
  <2>3. RebuildType'
    BY <2>1, <2>2 DEF RebuildType
  <2>4. rule' \in Rows
    <3>1. PICK v \in Versions, b \in BOOLEAN : rule = [ver |-> v, running |-> b]
      BY DEF Types, PanelType, Rows
    <3>2. (b \/ Recoverable(r, l)) \in BOOLEAN
      BY DEF Recoverable, Matches
    <3>3. rule' = [ver |-> v, running |-> b \/ Recoverable(r, l)]
      BY <2>1, <3>1
    <3>. QED
      BY <3>2, <3>3 DEF Rows
  <2>. QED
    BY <1>5, <2>3, <2>4 DEF Reconcile, Types, PanelType, WireType, AgentType, ReportType
<1>. QED
  BY <1>3, <1>4, <1>5

\* The parts of a finished rebuild that the other lemmas need.
FinishedWith(known, issued, state) ==
    /\ state = [acts |-> rebuild.acts, known |-> known, rev |-> rebuild.rev, issued |-> issued]
    /\ Issue(rebuild.acts, issued)
    /\ plan' = {} \/ plan' = {[rev |-> rebuild.rev, hash |-> Hash(rebuild.acts, known, rebuild.rev),
                               local |-> rebuild.local]}
    /\ \/ UNCHANGED <<sent, order, stream, reply>>
       \/ /\ sent' = {[acts |-> rebuild.acts, rev |-> rebuild.rev, due |-> FALSE]}
          /\ order' = order \/ order' = Newest(order, issued)
          /\ Push({state})
          /\ reply' = {state} \/ reply' = reply

LEMMA FinishParts ==
  ASSUME Types, Finish
  PROVE  /\ rebuild \in [pc : {"planned"}, local : Runtimes, awaited : BOOLEAN, rev : Nat,
                         ver : Versions, acts : SUBSET Versions]
         /\ rebuild.acts \subseteq {rebuild.ver}
         /\ rebuild' = Idle
         /\ UNCHANGED <<database, status, wakes, agent, reports>>
         /\ \E known \in BOOLEAN, issued \in Nat, state \in States : FinishedWith(known, issued, state)
<1>1. /\ rebuild \in [pc : {"planned"}, local : Runtimes, awaited : BOOLEAN, rev : Nat,
                      ver : Versions, acts : SUBSET Versions]
      /\ rebuild.acts \subseteq {rebuild.ver}
  BY DEF Types, RebuildType, Finish, Idle
<1>. DEFINE known == rebuild.acts # {} /\ Matches(rebuild.ver, rebuild.local)
            more == rebuild.acts # {} /\ ~known
            send == MustSend(rebuild.acts, rebuild.rev, more)
            state(i) == [acts |-> rebuild.acts, known |-> known, rev |-> rebuild.rev, issued |-> i]
<1>2. PICK i \in 0 .. clock + 1 :
         /\ Issue(rebuild.acts, i)
         /\ plan' = IF more THEN {}
                    ELSE {[rev |-> rebuild.rev, hash |-> Hash(rebuild.acts, known, rebuild.rev),
                           local |-> rebuild.local]}
         /\ IF send
            THEN /\ sent' = {[acts |-> rebuild.acts, rev |-> rebuild.rev, due |-> FALSE]}
                 /\ order' = IF rebuild.acts = {} THEN order ELSE Newest(order, i)
                 /\ Push({state(i)})
                 /\ reply' = IF rebuild.awaited THEN {state(i)} ELSE reply
            ELSE UNCHANGED <<sent, order, stream, reply>>
  BY Zenon DEF Finish
<1>3. i \in Nat /\ known \in BOOLEAN
  BY DEF Types, PanelType, Matches
<1>4. state(i) \in States
  BY <1>1, <1>3 DEF States
<1>5. FinishedWith(known, i, state(i))
  BY <1>2 DEF FinishedWith
<1>. QED
  BY <1>1, <1>3, <1>4, <1>5 DEF Finish

LEMMA FinishTypes == ASSUME Types, Finish PROVE Types'
<1>. USE DEF database, caches, agent, reports, budget
<1>1. /\ rebuild \in [pc : {"planned"}, local : Runtimes, awaited : BOOLEAN, rev : Nat,
                      ver : Versions, acts : SUBSET Versions]
      /\ rebuild' = Idle
      /\ UNCHANGED <<database, status, wakes, agent, reports>>
  BY FinishParts
<1>2. PICK known \in BOOLEAN, issued \in Nat, state \in States : FinishedWith(known, issued, state)
  BY FinishParts
<1>3. /\ rebuild.acts \in SUBSET Versions /\ rebuild.rev \in Nat /\ rebuild.local \in Runtimes
  BY <1>1
<1>4. batch' \subseteq Batches /\ AtMostOne(batch') /\ clock' \in Nat
  BY <1>2, <1>3 DEF FinishedWith, Issue, Batches, AtMostOne, Types, PanelType
<1>5. plan' \subseteq Plans /\ AtMostOne(plan')
  <2>1. Hash(rebuild.acts, known, rebuild.rev) \in Hashes
    BY <1>3, HashType
  <2>. QED
    BY <1>2, <1>3, <2>1 DEF FinishedWith, Plans, AtMostOne
<1>6. sent' \subseteq Sents /\ AtMostOne(sent') /\ order' \in Nat /\ reply' \subseteq States /\ AtMostOne(reply')
  <2>1. sent' \subseteq Sents /\ AtMostOne(sent')
    <3>1. [acts |-> rebuild.acts, rev |-> rebuild.rev, due |-> FALSE] \in Sents
      BY <1>3 DEF Sents
    <3>. QED
      BY <1>2, <3>1 DEF FinishedWith, AtMostOne, Types, PanelType
  <2>2. order' \in Nat
    BY <1>2 DEF FinishedWith, Newest, Types, PanelType
  <2>3. reply' \subseteq States /\ AtMostOne(reply')
    BY <1>2 DEF FinishedWith, AtMostOne, Types, WireType
  <2>. QED
    BY <2>1, <2>2, <2>3
<1>7. stream' \in [up : BOOLEAN, frames : Seq(Frames)] /\ Len(stream'.frames) <= MaxEvents
  <2>1. {state} \in Frames
    BY DEF Frames, AtMostOne
  <2>. QED
    BY <1>2, <2>1, PushType DEF FinishedWith, Types, WireType
<1>8. PanelType'
  BY <1>1, <1>4, <1>5, <1>6 DEF Types, PanelType
<1>9. WireType'
  BY <1>1, <1>6, <1>7 DEF Types, WireType
<1>. QED
  BY <1>1, <1>8, <1>9 DEF Types, RebuildType, AgentType, ReportType

-----------------------------------------------------------------------------
\* What syncDesiredState leaves, one state for each way through it.
LEMMA SyncTypes ==
  ASSUME AgentType, ReportType, NEW s \in States, Sync(s), UNCHANGED status
  PROVE  AgentType' /\ ReportType'
<1>1. /\ s.acts \subseteq Versions /\ s.rev \in Nat /\ s.issued \in Nat
      /\ Hash(s.acts, s.known, s.rev) \in Hashes
  BY StateFields
<1>2. PICK h \in Hashes : h = Hash(s.acts, s.known, s.rev)
  BY <1>1
<1>3. /\ recv' \in Marks /\ WholeApplied(s.rev, h) \in Marks
      /\ UNCHANGED <<working, acks, runtime, flight>>
  BY <1>1, <1>2 DEF Sync, AgentType, Marks, WholeApplied
<1>4. ASSUME NEW v \in Versions, Report(s.issued, v, TRUE)
      PROVE  reported' \in Nat /\ outbox' \subseteq Results /\ AtMostOne(outbox')
  <2>1. [issued |-> s.issued, ver |-> v, ok |-> TRUE] \in Results
    BY <1>1 DEF Results
  <2>. QED
    BY <1>1, <1>4, <2>1 DEF Report, AtMostOne, ReportType
<1>5. CASE SyncNothing(s)
  BY <1>2, <1>3, <1>5 DEF SyncNothing, AgentType, ReportType, AtMostOne
<1>6. ASSUME NEW v \in s.acts, SyncKnown(s, v) PROVE AgentType' /\ ReportType'
  BY <1>2, <1>3, <1>6 DEF SyncKnown, AgentType, ReportType
<1>7. ASSUME NEW v \in s.acts, SyncAdopt(s, v) PROVE AgentType' /\ ReportType'
  <2>1. v \in Versions
    BY <1>1
  <2>2. record' \subseteq [ver : Versions, ok : BOOLEAN] /\ AtMostOne(record')
    BY <1>7, <2>1 DEF SyncAdopt, AtMostOne
  <2>3. ReportType'
    BY <1>3, <1>4, <1>7, <2>1 DEF SyncAdopt, ReportType
  <2>. QED
    BY <1>2, <1>3, <1>7, <2>2, <2>3 DEF SyncAdopt, AgentType
<1>8. ASSUME NEW v \in s.acts, SyncQueue(s, v) PROVE AgentType' /\ ReportType'
  <2>1. record' \subseteq [ver : Versions, ok : BOOLEAN] /\ AtMostOne(record')
    BY <1>8 DEF SyncQueue, AtMostOne, AgentType
  <2>2. [ver |-> v, issued |-> s.issued, rev |-> s.rev, hash |-> h] \in Jobs
    BY <1>1 DEF Jobs
  <2>3. latest' \in Nat /\ jobs' \subseteq Jobs
    BY <1>1, <1>2, <1>8, <2>2 DEF SyncQueue, AgentType
  <2>. QED
    BY <1>3, <1>8, <2>1, <2>3 DEF SyncQueue, AgentType, ReportType
<1>. QED
  BY <1>5, <1>6, <1>7, <1>8 DEF Sync

\* The scan loop takes the first frame of a sequence of frames.
LEMMA NextFrame ==
  ASSUME WireType, stream.frames # <<>>, stream' = [stream EXCEPT !.frames = Tail(@)]
  PROVE  /\ stream.frames \in Seq(Frames) /\ Head(stream.frames) \in Frames
         /\ stream' \in [up : BOOLEAN, frames : Seq(Frames)] /\ Len(stream'.frames) <= MaxEvents
<1>1. PICK u \in BOOLEAN, q \in Seq(Frames) : stream = [up |-> u, frames |-> q]
  BY DEF WireType
<1>2. /\ q # <<>> /\ stream' = [up |-> u, frames |-> Tail(q)]
  BY <1>1
<1>3. /\ Head(q) \in Frames /\ Tail(q) \in Seq(Frames) /\ Len(Tail(q)) = Len(q) - 1 /\ Len(q) \in Nat
  BY <1>2, HeadTailProperties, LenProperties
<1>4. Len(q) <= MaxEvents /\ MaxEvents \in Nat
  BY <1>1, BoundsAssumption DEF WireType
<1>. QED
  BY <1>1, <1>2, <1>3, <1>4

LEMMA ReceiveTypes == ASSUME Types, Receive PROVE Types'
<1>. USE DEF database, caches, agent, reports, budget
<1>1. CASE Answered
  <2>1. PICK s \in States : Sync(s)
    BY <1>1 DEF Answered, Types, WireType
  <2>2. AgentType' /\ ReportType'
    BY <1>1, <2>1, SyncTypes DEF Answered, Types
  <2>3. WireType'
    BY <1>1 DEF Answered, Types, WireType, AtMostOne
  <2>. QED
    BY <1>1, <2>2, <2>3 DEF Answered, Types, PanelType, RebuildType
<1>2. CASE StreamEvent
  <2>1. /\ stream.frames \in Seq(Frames) /\ Head(stream.frames) \in Frames
        /\ stream' \in [up : BOOLEAN, frames : Seq(Frames)] /\ Len(stream'.frames) <= MaxEvents
    BY <1>2, NextFrame DEF StreamEvent, Types
  <2>2. PanelType' /\ RebuildType'
    BY <1>2 DEF StreamEvent, Types, PanelType, RebuildType
  <2>3. WireType'
    BY <1>2, <2>1 DEF StreamEvent, Types, WireType
  <2>4. CASE UNCHANGED <<agent, reports>>
    BY <1>2, <2>2, <2>3, <2>4 DEF StreamEvent, Types, AgentType, ReportType
  <2>5. ASSUME NEW s \in Head(stream.frames), Sync(s) PROVE AgentType' /\ ReportType'
    <3>1. s \in States
      BY <2>1 DEF Frames
    <3>. QED
      BY <1>2, <2>5, <3>1, SyncTypes DEF StreamEvent, Types
  <2>. QED
    BY <1>2, <2>2, <2>3, <2>4, <2>5 DEF StreamEvent, Types
<1>. QED
  BY <1>1, <1>2 DEF Receive

-----------------------------------------------------------------------------
\* The action workers.
LEMMA ExecuteTypes ==
  ASSUME AgentType, ReportType, NEW j \in working, NEW ok \in BOOLEAN, Execute(j, ok)
  PROVE  /\ working' \subseteq Jobs /\ AtMostOne(working') /\ acks' \subseteq Acks
         /\ record' \subseteq [ver : Versions, ok : BOOLEAN] /\ AtMostOne(record')
         /\ UNCHANGED <<recv, latest, jobs>>
         /\ ReportType'
         /\ j.ver \in Versions /\ j.rev \in Nat /\ j.hash \in Hashes /\ j.issued \in Nat
<1>1. j.ver \in Versions /\ j.rev \in Nat /\ j.hash \in Hashes /\ j.issued \in Nat
  BY DEF AgentType, Jobs
<1>2. Ack(j) \in Acks
  BY <1>1 DEF Ack, Acks
<1>3. acks' \subseteq Acks /\ working' \subseteq Jobs /\ AtMostOne(working')
  BY <1>2 DEF Execute, AgentType, AtMostOne
<1>4. record' \subseteq [ver : Versions, ok : BOOLEAN] /\ AtMostOne(record')
  BY <1>1 DEF Execute, AtMostOne
<1>5. ReportType'
  BY <1>1 DEF Execute, Report, ReportType, Results, AtMostOne
<1>. QED
  BY <1>1, <1>3, <1>4, <1>5 DEF Execute

LEMMA WorkTypes ==
  ASSUME Types, StartJob \/ (\E j \in working : Succeed(j) \/ Fail(j)) \/ Finished PROVE Types'
<1>. USE DEF database, caches, agent, reports, budget
<1>. USE DEF Types
<1>1. ASSUME NEW left, WakeIfLast(left) PROVE wakes' \in [sse : BOOLEAN, force : BOOLEAN]
  <2>1. PICK x \in BOOLEAN, f \in BOOLEAN : wakes = [sse |-> x, force |-> f]
    BY DEF WireType
  <2>2. wakes' = [sse |-> x, force |-> f \/ left = {}]
    BY <1>1, <2>1 DEF WakeIfLast
  <2>. QED
    BY <2>2
<1>2. ASSUME NEW j \in jobs, DropOld(j) PROVE Types'
  <2>1. Ack(j) \in Acks
    BY DEF Ack, Acks, AgentType, Jobs
  <2>2. AgentType'
    BY <1>2, <2>1 DEF DropOld, AgentType
  <2>3. WireType'
    BY <1>1, <1>2 DEF DropOld, WireType
  <2>. QED
    BY <1>2, <2>2, <2>3 DEF DropOld, PanelType, RebuildType, ReportType
<1>3. ASSUME NEW j \in jobs, Start(j) PROVE Types'
  <2>1. AgentType'
    BY <1>3 DEF Start, AgentType, AtMostOne
  <2>. QED
    BY <1>3, <2>1 DEF Start, PanelType, WireType, RebuildType, ReportType
<1>4. ASSUME NEW j \in working, Succeed(j) PROVE Types'
  <2>1. Execute(j, TRUE)
    BY <1>4 DEF Succeed
  <2>2. ActionApplied(j.rev) \in Marks
    BY <2>1, ExecuteTypes DEF ActionApplied, Marks, Hashes, AgentType
  <2>3. AgentType'
    BY <1>4, <2>1, <2>2, ExecuteTypes DEF Succeed, AgentType, Runtimes
  <2>4. WireType'
    BY <1>1, <2>1 DEF Execute, WireType
  <2>5. ReportType'
    BY <2>1, ExecuteTypes
  <2>. QED
    BY <2>1, <2>3, <2>4, <2>5 DEF Execute, PanelType, RebuildType
<1>5. ASSUME NEW j \in working, Fail(j) PROVE Types'
  <2>1. Execute(j, FALSE)
    BY <1>5 DEF Fail
  <2>2. AgentType'
    BY <1>5, <2>1, ExecuteTypes DEF Fail, AgentType, Runtimes
  <2>3. WireType'
    BY <1>1, <2>1 DEF Execute, WireType
  <2>4. ReportType'
    BY <2>1, ExecuteTypes
  <2>. QED
    BY <2>1, <2>2, <2>3, <2>4 DEF Execute, PanelType, RebuildType
<1>6. ASSUME NEW a \in acks, MarkApplied(a) PROVE Types'
  <2>1. applied' \in Marks
    BY <1>6 DEF MarkApplied, AgentType, Acks, Marks, WholeApplied
  <2>2. AgentType'
    BY <1>6, <2>1 DEF MarkApplied, AgentType
  <2>. QED
    BY <1>6, <2>2 DEF MarkApplied, PanelType, WireType, RebuildType, ReportType
<1>. QED
  BY <1>2, <1>3, <1>4, <1>5, <1>6 DEF StartJob, Finished

-----------------------------------------------------------------------------
\* Reports, losses and time.
LEMMA RestoredType ==
  ASSUME ReportType, NEW r \in Results
  PROVE  Restored(r) \subseteq Results /\ AtMostOne(Restored(r))
  BY DEF Restored, ReportType, AtMostOne

LEMMA TellTypes == ASSUME Types, Tell PROVE Types'
<1>. USE DEF database, caches, agent, reports, budget
<1>. USE DEF Types
<1>1. CASE SendReport
  <2>1. ReportType'
    BY <1>1 DEF SendReport, ReportType, AtMostOne
  <2>. QED
    BY <1>1, <2>1 DEF SendReport, PanelType, RebuildType, WireType, AgentType
<1>2. CASE Deliver
  <2>1. ReportType' /\ order' \in Nat
    BY <1>2 DEF Deliver, ReportType, PanelType, Results, AtMostOne
  <2>. QED
    BY <1>2, <2>1 DEF Deliver, PanelType, RebuildType, WireType, AgentType
<1>3. CASE WriteStatus
  <2>1. PICK r \in status : /\ rule' = [rule EXCEPT !.running = r.ok]
                            /\ outbox' = outbox \/ outbox' = Restored(r)
    BY <1>3 DEF WriteStatus
  <2>2. r \in Results /\ r.ok \in BOOLEAN
    BY DEF ReportType, Results
  <2>3. rule' \in Rows
    BY <2>1, <2>2 DEF PanelType, Rows
  <2>4. ReportType'
    BY <1>3, <2>1, <2>2, RestoredType DEF WriteStatus, ReportType, AtMostOne
  <2>. QED
    BY <1>3, <2>3, <2>4 DEF WriteStatus, PanelType, RebuildType, WireType, AgentType
<1>. QED
  BY <1>1, <1>2, <1>3 DEF Tell

LEMMA LoseTypes == ASSUME Types, Lose \/ Reconnect PROVE Types'
<1>. USE DEF database, caches, agent, reports, budget
<1>. USE DEF Types
<1>1. [up |-> FALSE, frames |-> <<>>] \in [up : BOOLEAN, frames : Seq(Frames)]
      /\ [up |-> TRUE, frames |-> <<>>] \in [up : BOOLEAN, frames : Seq(Frames)]
      /\ Len(<<>>) <= MaxEvents
  BY EmptySeq, BoundsAssumption
<1>2. CASE LoseBeat
  BY <1>2 DEF LoseBeat, PanelType, RebuildType, WireType, AgentType, ReportType
<1>3. CASE LoseReply
  <2>1. RebuildType'
    <3>1. CASE rebuild' = Idle
      BY <3>1 DEF RebuildType
    <3>2. CASE rebuild.pc # "idle" /\ rebuild' = [rebuild EXCEPT !.awaited = FALSE]
      BY <3>2 DEF RebuildType, Idle
    <3>. QED
      BY <1>3, <3>1, <3>2 DEF LoseReply
  <2>2. WireType'
    BY <1>3 DEF LoseReply, WireType, AtMostOne
  <2>. QED
    BY <1>3, <2>1, <2>2 DEF LoseReply, PanelType, AgentType, ReportType
<1>4. CASE LoseStream
  BY <1>1, <1>4 DEF LoseStream, PanelType, RebuildType, WireType, AgentType, ReportType
<1>5. CASE LoseReport
  <2>1. ReportType'
    BY <1>5, RestoredType DEF LoseReport, ReportType, AtMostOne
  <2>. QED
    BY <1>5, <2>1 DEF LoseReport, PanelType, RebuildType, WireType, AgentType
<1>6. CASE RestartPanel
  <2>1. outbox' \subseteq Results /\ AtMostOne(outbox')
    <3>1. CASE flight \cup status = {}
      BY <1>6, <3>1 DEF RestartPanel, ReportType
    <3>2. CASE flight \cup status # {}
      <4>1. PICK r \in Results : r = CHOOSE x \in flight \cup status : TRUE
        BY <3>2 DEF ReportType
      <4>2. outbox' = Restored(r)
        BY <1>6, <3>2, <4>1 DEF RestartPanel
      <4>. QED
        BY <4>2, RestoredType
    <3>. QED
      BY <3>1, <3>2
  <2>2. ReportType'
    BY <1>6, <2>1 DEF RestartPanel, ReportType, AtMostOne
  <2>3. PanelType'
    BY <1>6 DEF RestartPanel, PanelType, AtMostOne
  <2>4. RebuildType'
    BY <1>6 DEF RestartPanel, RebuildType
  <2>5. WireType'
    BY <1>1, <1>6 DEF RestartPanel, WireType, AtMostOne
  <2>. QED
    BY <1>6, <2>2, <2>3, <2>4, <2>5 DEF RestartPanel, AgentType
<1>7. CASE Reconnect
  BY <1>1, <1>7 DEF Reconnect, PanelType, RebuildType, WireType, AgentType, ReportType
<1>. QED
  BY <1>2, <1>3, <1>4, <1>5, <1>6, <1>7 DEF Lose

LEMMA TimeTypes == ASSUME Types, Time PROVE Types'
<1>. USE DEF database, caches, agent, reports, budget
<1>. USE DEF Types
<1>1. CASE ResendDue
  <2>1. sent' \subseteq Sents /\ AtMostOne(sent')
    BY <1>1 DEF ResendDue, PanelType, Sents, AtMostOne
  <2>. QED
    BY <1>1, <2>1 DEF ResendDue, PanelType, RebuildType, WireType, AgentType, ReportType
<1>2. CASE AuditDue
  <2>1. plan' \subseteq Plans /\ AtMostOne(plan')
    BY <1>2 DEF AuditDue, AtMostOne
  <2>. QED
    BY <1>2, <2>1 DEF AuditDue, PanelType, RebuildType, WireType, AgentType, ReportType
<1>3. CASE RetryDue
  BY <1>3 DEF RetryDue, PanelType, RebuildType, WireType, AgentType, ReportType
<1>. QED
  BY <1>1, <1>2, <1>3 DEF Time

LEMMA TypesStep == Types /\ [Next]_vars => Types'
<1>. SUFFICES ASSUME Types, [Next]_vars PROVE Types'
  OBVIOUS
<1>1. CASE UNCHANGED vars
  BY <1>1 DEF vars, database, caches, agent, reports, Types, PanelType, RebuildType, WireType,
              AgentType, ReportType
<1>. QED
  BY Zenon, <1>1, EditTypes, BeatTypes, ReadTypes, FinishTypes, ReceiveTypes, WorkTypes, TellTypes,
     LoseTypes, TimeTypes DEF Next, Rebuild

LEMMA TypesInv == Spec => []Types
  BY DesiredInit, TypesStep, PTL DEF Spec

LEMMA TypesOK == Types => TypeOK
<1>. SUFFICES ASSUME Types PROVE TypeOK
  OBVIOUS
<1>1. rebuild.pc \in {"idle", "reading", "planned"}
  BY DEF Types, RebuildType, Idle
<1>2. ASSUME NEW i \in 1 .. Len(stream.frames)
      PROVE  AtMostOne(stream.frames[i]) /\ \A s \in stream.frames[i] : s \in States
  <2>1. stream.frames \in Seq(Frames)
    BY DEF Types, WireType
  <2>2. stream.frames[i] \in Frames
    BY <2>1, ElementOfSeq
  <2>. QED
    BY <2>2 DEF Frames
<1>3. stream.up \in BOOLEAN
  BY DEF Types, WireType
<1>. QED
  BY <1>1, <1>2, <1>3 DEF TypeOK, Types, PanelType, Rows, Sents, Batches, Plans, WireType, AgentType,
     Marks, Acks, ReportType

\* The rows, caches and messages keep their shape, and the agent runs one action of the rule at a time.
THEOREM DesiredTypes == Spec => []TypeOK
  BY TypesInv, TypesOK, PTL

-----------------------------------------------------------------------------
(* Every action list that the panel can still repeat, that is on its way   *)
(* or that the agent has accepted, under the number it was issued with.    *)
Framed == {s \in States : \E i \in 1 .. Len(stream.frames) : s \in stream.frames[i]}

Orders == [issued : Nat, ver : Versions]
Handed ==
    {o \in Orders :
        \/ \E b \in batch : b.issued = o.issued /\ o.ver \in b.acts
        \/ \E s \in reply \cup Framed : s.issued = o.issued /\ o.ver \in s.acts
        \/ \E j \in jobs \cup working : j.issued = o.issued /\ j.ver = o.ver}

\* Later numbers stand for later versions, one number for one version.
InOrder == \A o, p \in Handed : /\ o.issued < p.issued => o.ver <= p.ver
                                /\ o.issued = p.issued => o.ver = p.ver

Numbered == \A o \in Handed : o.issued <= clock

\* The row, and what the running rebuild has read of it: nothing is newer
\* than what the next action list will be made from.
Known == {rule.ver} \cup (CASE rebuild.pc = "planned" -> {rebuild.ver}
                            [] rebuild.pc = "reading" -> {r.ver : r \in rebuild.row}
                            [] OTHER -> {})
ReadLast == \A h \in Known : /\ h <= rule.ver
                             /\ \A o \in Handed : o.ver <= h
                             /\ runtime # Down => runtime <= h

\* What may still be executed is not older than what runs.
Behind == runtime # Down => /\ \A o \in Handed : o.issued >= latest => o.ver >= runtime
                            /\ \A j \in working : j.ver >= runtime

Taken == \A j \in jobs \cup working : j.issued <= latest

OrderInv == InOrder /\ Numbered /\ ReadLast /\ Behind /\ Taken

\* How every step but the end of a rebuild changes all that.
Follows ==
    /\ batch' \subseteq batch /\ reply' \subseteq reply /\ Framed' \subseteq Framed
    /\ clock' = clock
    /\ rule'.ver >= rule.ver /\ Known' \subseteq Known \cup {rule'.ver}
    /\ latest' >= latest
    /\ \A j \in jobs' \cup working' :
          \/ j \in jobs \cup working
          \/ j.issued <= latest' /\ \E o \in Handed : o.issued = j.issued /\ o.ver = j.ver
    /\ \A j \in working' : j \in working \/ (j \in jobs /\ j.issued >= latest)
    /\ \/ runtime' = runtime \/ runtime' = Down
       \/ working' = {} /\ \E j \in working : runtime' = j.ver

LEMMA JobsHanded ==
  ASSUME Types, NEW j \in jobs \cup working
  PROVE  [issued |-> j.issued, ver |-> j.ver] \in Handed
<1>1. j.issued \in Nat /\ j.ver \in Versions
  BY DEF Types, AgentType, Jobs
<1>. QED
  BY <1>1 DEF Handed, Orders

LEMMA OrderFields == ASSUME NEW o \in Handed PROVE o.issued \in Nat /\ o.ver \in Nat
  BY VersionsNat DEF Handed, Orders

LEMMA KnownNat == Types => Known \subseteq Nat
<1>. SUFFICES ASSUME Types PROVE Known \subseteq Nat
  OBVIOUS
<1>1. rule.ver \in Nat
  BY VersionsNat DEF Types, PanelType, Rows
<1>2. rebuild.pc = "planned" => rebuild.ver \in Nat
  BY VersionsNat DEF Types, RebuildType, Idle
<1>3. rebuild.pc = "reading" => \A r \in rebuild.row : r.ver \in Nat
  <2>. SUFFICES ASSUME rebuild.pc = "reading", NEW r \in rebuild.row PROVE r.ver \in Nat
    OBVIOUS
  <2>1. r \in Rows
    BY Reading DEF Types
  <2>. QED
    BY <2>1, VersionsNat DEF Rows
<1>. QED
  BY <1>1, <1>2, <1>3 DEF Known

LEMMA FollowsOrder == ASSUME Types, Types', OrderInv, Follows PROVE OrderInv'
<1>1. Handed' \subseteq Handed
  <2>. SUFFICES ASSUME NEW o \in Orders, o \in Handed' PROVE o \in Handed
    BY DEF Handed
  <2>1. CASE \E b \in batch' : b.issued = o.issued /\ o.ver \in b.acts
    BY <2>1 DEF Follows, Handed
  <2>2. CASE \E s \in reply' \cup Framed' : s.issued = o.issued /\ o.ver \in s.acts
    BY <2>2 DEF Follows, Handed
  <2>3. CASE \E j \in jobs' \cup working' : j.issued = o.issued /\ j.ver = o.ver
    <3>1. PICK j \in jobs' \cup working' : j.issued = o.issued /\ j.ver = o.ver
      BY <2>3
    <3>2. CASE j \in jobs \cup working
      BY <3>1, <3>2 DEF Handed
    <3>3. CASE \E p \in Handed : p.issued = j.issued /\ p.ver = j.ver
      BY <3>1, <3>3 DEF Handed, Orders
    <3>. QED
      BY <3>2, <3>3 DEF Follows
  <2>. QED
    BY <2>1, <2>2, <2>3 DEF Handed
<1>2. \A o \in Handed : o.issued \in Nat /\ o.ver \in Nat
  BY OrderFields
<1>3. /\ clock' = clock /\ latest \in Nat /\ latest' \in Nat /\ latest' >= latest
      /\ rule.ver \in Nat /\ rule'.ver \in Nat /\ rule'.ver >= rule.ver
      /\ runtime \in Int /\ runtime' \in Int /\ Down \in Int
  <2>1. rule \in Rows /\ rule' \in Rows
    BY DEF Types, PanelType
  <2>2. rule.ver \in Nat /\ rule'.ver \in Nat
    BY <2>1, VersionsNat DEF Rows
  <2>3. latest \in Nat /\ latest' \in Nat /\ runtime \in Runtimes /\ runtime' \in Runtimes
    BY DEF Types, AgentType
  <2>4. Runtimes \subseteq Int /\ Down \in Int
    BY VersionsNat DEF Runtimes, Down
  <2>. QED
    BY <2>2, <2>3, <2>4 DEF Follows
<1>4. ASSUME NEW j \in working
      PROVE  \E o \in Handed : o.ver = j.ver /\ o.issued = j.issued /\ j.issued <= latest
  BY JobsHanded DEF OrderInv, Taken
<1>5. InOrder'
  BY <1>1 DEF OrderInv, InOrder
<1>6. Numbered'
  BY <1>1, <1>3 DEF OrderInv, Numbered
<1>7. ReadLast'
  <2>. SUFFICES ASSUME NEW h \in Known'
                PROVE  /\ h <= rule'.ver
                       /\ \A o \in Handed' : o.ver <= h
                       /\ runtime' # Down => runtime' <= h
    BY DEF ReadLast
  <2>1. PICK k \in Known : h = k \/ (h = rule'.ver /\ k = rule.ver)
    BY DEF Follows, Known
  <2>2. k \in Nat /\ h \in Nat /\ k <= h /\ h <= rule'.ver
    BY <1>3, <2>1, KnownNat DEF OrderInv, ReadLast
  <2>3. \A o \in Handed : o.ver <= h
    BY <1>2, <2>2 DEF OrderInv, ReadLast
  <2>4. runtime' # Down => runtime' <= h
    <3>1. CASE runtime' = runtime \/ runtime' = Down
      BY <1>3, <2>2, <3>1 DEF OrderInv, ReadLast
    <3>2. ASSUME NEW j \in working, runtime' = j.ver PROVE runtime' <= h
      BY <1>4, <2>3, <3>2
    <3>. QED
      BY <3>1, <3>2 DEF Follows
  <2>. QED
    BY <1>1, <2>2, <2>3, <2>4
<1>8. Behind'
  <2>. SUFFICES ASSUME runtime' # Down
                PROVE  /\ \A o \in Handed' : o.issued >= latest' => o.ver >= runtime'
                       /\ \A j \in working' : j.ver >= runtime'
    BY DEF Behind
  <2>1. CASE runtime' = runtime
    <3>1. \A o \in Handed' : o.issued >= latest' => o.ver >= runtime'
      BY <1>1, <1>2, <1>3, <2>1 DEF OrderInv, Behind
    <3>2. ASSUME NEW j \in working' PROVE j.ver >= runtime'
      <4>1. CASE j \in working
        BY <2>1, <4>1 DEF OrderInv, Behind
      <4>2. CASE j \in jobs /\ j.issued >= latest
        BY <2>1, <4>2, JobsHanded DEF OrderInv, Behind
      <4>. QED
        BY <4>1, <4>2 DEF Follows
    <3>. QED
      BY <3>1, <3>2
  <2>2. ASSUME working' = {}, NEW j \in working, runtime' = j.ver
        PROVE  \A o \in Handed' : o.issued >= latest' => o.ver >= runtime'
    <3>1. PICK p \in Handed : p.ver = j.ver /\ p.issued = j.issued /\ j.issued <= latest
      BY <1>4
    <3>2. ASSUME NEW o \in Handed', o.issued >= latest' PROVE o.ver >= j.ver
      <4>1. o \in Handed /\ o.issued >= p.issued
        BY <1>1, <1>2, <1>3, <3>1, <3>2
      <4>2. p.issued < o.issued \/ p.issued = o.issued
        BY <1>2, <4>1
      <4>3. p.ver <= o.ver
        BY <1>2, <4>1, <4>2 DEF OrderInv, InOrder
      <4>. QED
        BY <1>2, <3>1, <4>1, <4>3
    <3>. QED
      BY <2>2, <3>2
  <2>. QED
    BY <2>1, <2>2 DEF Follows
<1>9. Taken'
  <2>. SUFFICES ASSUME NEW j \in jobs' \cup working' PROVE j.issued <= latest'
    BY DEF Taken
  <2>1. j.issued \in Nat
    BY DEF Types, AgentType, Jobs
  <2>. QED
    BY <1>3, <2>1 DEF Follows, OrderInv, Taken
<1>. QED
  BY <1>5, <1>6, <1>7, <1>8, <1>9 DEF OrderInv

-----------------------------------------------------------------------------
\* What the stream holds after a push, after the scan loop took a frame, and
\* after it was closed.
LEMMA PushFramed ==
  ASSUME WireType, NEW f \in Frames, Push(f) PROVE Framed' \subseteq Framed \cup f
<1>1. PICK u \in BOOLEAN, q \in Seq(Frames) : stream = [up |-> u, frames |-> q]
  BY DEF WireType
<1>2. /\ Len(q) \in Nat
      /\ Len(Append(q, f)) = Len(q) + 1 /\ Append(q, f)[Len(q) + 1] = f
      /\ \A i \in 1 .. Len(q) : Append(q, f)[i] = q[i]
  BY AppendProperties, LenProperties
<1>3. \/ stream' = stream
      \/ stream' = [up |-> FALSE, frames |-> <<>>]
      \/ stream' = [up |-> u, frames |-> Append(q, f)]
  BY <1>1 DEF Push
<1>4. CASE stream' = stream
  BY <1>4 DEF Framed
<1>5. CASE stream' = [up |-> FALSE, frames |-> <<>>]
  BY <1>5 DEF Framed
<1>6. CASE stream' = [up |-> u, frames |-> Append(q, f)]
  <2>. SUFFICES ASSUME NEW s \in States, NEW i \in 1 .. (Len(q) + 1), s \in Append(q, f)[i]
                PROVE  s \in Framed \cup f
    BY <1>2, <1>6 DEF Framed
  <2>1. CASE i = Len(q) + 1
    BY <1>2, <2>1
  <2>2. CASE i # Len(q) + 1
    <3>1. i \in 1 .. Len(q)
      BY <1>2, <2>2
    <3>. QED
      BY <1>1, <1>2, <3>1 DEF Framed
  <2>. QED
    BY <2>1, <2>2
<1>. QED
  BY <1>3, <1>4, <1>5, <1>6

LEMMA NextFramed ==
  ASSUME WireType, stream.frames # <<>>, stream' = [stream EXCEPT !.frames = Tail(@)]
  PROVE  Head(stream.frames) \subseteq Framed /\ Framed' \subseteq Framed
<1>1. PICK u \in BOOLEAN, q \in Seq(Frames) : stream = [up |-> u, frames |-> q]
  BY DEF WireType
<1>2. q # <<>> /\ stream' = [up |-> u, frames |-> Tail(q)]
  BY <1>1
<1>3. /\ Len(q) \in Nat \ {0} /\ Head(q) = q[1] /\ Head(q) \in Frames
      /\ Len(Tail(q)) = Len(q) - 1 /\ \A i \in 1 .. Len(Tail(q)) : Tail(q)[i] = q[i + 1]
  BY <1>2, HeadTailProperties, LenProperties, EmptySeq
<1>4. \A i \in 1 .. (Len(q) - 1) : Tail(q)[i] = q[i + 1] /\ i + 1 \in 1 .. Len(q)
  BY <1>3
<1>5. Head(q) \subseteq Framed
  <2>1. 1 \in 1 .. Len(q)
    BY <1>3
  <2>2. Head(q) \subseteq States
    BY <1>3 DEF Frames
  <2>. QED
    BY <1>1, <1>3, <2>1, <2>2 DEF Framed
<1>6. Framed' \subseteq Framed
  BY <1>1, <1>2, <1>3, <1>4 DEF Framed
<1>. QED
  BY <1>1, <1>5, <1>6

LEMMA ClosedFramed == ASSUME stream'.frames = <<>> PROVE Framed' = {}
  BY DEF Framed

\* A step that leaves the messages alone.
LEMMA SameFramed == ASSUME UNCHANGED stream PROVE Framed' = Framed
  BY DEF Framed

LEMMA SameKnown == ASSUME UNCHANGED <<rule, rebuild>> PROVE Known' = Known
  BY DEF Known

LEMMA EditFollows == ASSUME Types, Edit PROVE Follows
<1>. USE DEF database, caches, agent, reports, budget
<1>0. rule.ver \in Nat /\ latest \in Nat
  BY VersionsNat DEF Types, PanelType, AgentType, Rows
<1>1. CASE EditRule
  <2>1. rule'.ver = rule.ver + 1
    BY <1>1 DEF EditRule
  <2>2. Known' \subseteq Known \cup {rule'.ver}
    BY <1>1 DEF EditRule, Known
  <2>. QED
    BY <1>0, <1>1, <2>1, <2>2, SameFramed DEF EditRule, Follows
<1>2. CASE AuditEdit
  BY <1>0, <1>2, SameFramed, SameKnown DEF AuditEdit, Follows
<1>3. CASE RefreshAgent
  <2>1. Refresh \in Frames /\ Refresh = {}
    BY DEF Refresh, Frames, AtMostOne
  <2>2. Framed' \subseteq Framed
    BY <1>3, <2>1, PushFramed, SameFramed DEF RefreshAgent, Types
  <2>. QED
    BY <1>0, <1>3, <2>2, SameKnown DEF RefreshAgent, Follows
<1>. QED
  BY <1>1, <1>2, <1>3 DEF Edit

LEMMA BeatFollows == ASSUME Types, Beat \/ BusyBeat PROVE Follows
<1>. USE DEF database, caches, agent, reports, budget
<1>0. rule.ver \in Nat /\ latest \in Nat
  BY VersionsNat DEF Types, PanelType, AgentType, Rows
<1>1. CASE Beat
  <2>1. CASE UNCHANGED rebuild
    BY <1>0, <1>1, <2>1, SameFramed, SameKnown DEF Beat, Follows
  <2>2. CASE rebuild' = [pc |-> "reading", local |-> runtime, awaited |-> TRUE,
                         row |-> {}, rev |-> {}]
    <3>1. Known' \subseteq Known
      BY <1>1, <2>2 DEF Beat, Known
    <3>. QED
      BY <1>0, <1>1, <3>1, SameFramed DEF Beat, Follows
  <2>. QED
    BY <1>1, <2>1, <2>2 DEF Beat
<1>2. CASE BusyBeat
  BY <1>0, <1>2, SameFramed, SameKnown DEF BusyBeat, Follows
<1>. QED
  BY <1>1, <1>2

LEMMA ReadFollows == ASSUME Types, ReadRule \/ ReadRevision \/ Reconcile PROVE Follows
<1>. USE DEF database, caches, agent, reports, budget
<1>0. rule.ver \in Nat /\ latest \in Nat
  BY VersionsNat DEF Types, PanelType, AgentType, Rows
<1>1. rebuild.pc = "reading" /\ RebuildType
  BY DEF ReadRule, ReadRevision, Reconcile, Types
<1>2. PICK l \in Runtimes, a \in BOOLEAN, row \in SUBSET Rows, rev \in SUBSET Nat :
         rebuild = [pc |-> "reading", local |-> l, awaited |-> a, row |-> row, rev |-> rev]
  BY <1>1, Reading
<1>3. Known = {rule.ver} \cup {r.ver : r \in row}
  BY <1>2 DEF Known
<1>4. CASE ReadRule
  <2>1. rebuild' = [pc |-> "reading", local |-> l, awaited |-> a, row |-> {rule}, rev |-> rev]
    BY <1>2, <1>4 DEF ReadRule
  <2>2. Known' \subseteq Known
    BY <1>4, <2>1 DEF ReadRule, Known
  <2>. QED
    BY <1>0, <1>4, <2>2, SameFramed DEF ReadRule, Follows
<1>5. CASE ReadRevision
  <2>1. rebuild' = [pc |-> "reading", local |-> l, awaited |-> a, row |-> row, rev |-> {revision}]
    BY <1>2, <1>5 DEF ReadRevision
  <2>2. Known' \subseteq Known
    BY <1>3, <1>5, <2>1 DEF ReadRevision, Known
  <2>. QED
    BY <1>0, <1>5, <2>2, SameFramed DEF ReadRevision, Follows
<1>6. CASE Reconcile
  <2>1. PICK r \in row, n \in rev :
           /\ rebuild' = [pc |-> "planned", local |-> l, awaited |-> a, rev |-> n, ver |-> r.ver,
                          acts |-> Actions(r.ver, r.running, l)]
           /\ rule' = [rule EXCEPT !.running = @ \/ Recoverable(r, l)]
    BY <1>2, <1>6 DEF Reconcile
  <2>2. rule'.ver = rule.ver
    BY <2>1 DEF Types, PanelType, Rows
  <2>3. Known' = {rule.ver, r.ver}
    BY <2>1, <2>2 DEF Known
  <2>. QED
    BY <1>0, <1>3, <1>6, <2>2, <2>3, SameFramed DEF Reconcile, Follows
<1>. QED
  BY <1>4, <1>5, <1>6

\* Only an answer that is on its way is taken, so its number and version are
\* among the orders already.
LEMMA SyncFollows ==
  ASSUME Types, NEW s \in reply \cup Framed, Sync(s)
  PROVE  /\ latest' \in Nat /\ latest' >= latest
         /\ \A j \in jobs' \cup working' :
               \/ j \in jobs \cup working
               \/ j.issued <= latest' /\ \E o \in Handed : o.issued = j.issued /\ o.ver = j.ver
         /\ working' = working /\ runtime' = runtime
<1>1. s \in States /\ s.issued \in Nat /\ latest \in Nat /\ s.acts \subseteq Versions
  <2>1. s \in States
    BY DEF Framed, Types, WireType
  <2>. QED
    BY <2>1 DEF States, Types, AgentType
<1>2. working' = working /\ runtime' = runtime
  BY DEF Sync
<1>3. CASE UNCHANGED <<latest, jobs>>
  BY <1>1, <1>2, <1>3
<1>4. ASSUME NEW v \in s.acts, latest' = s.issued, s.issued >= latest,
             jobs' = jobs \cup {[ver |-> v, issued |-> s.issued, rev |-> s.rev,
                                 hash |-> Hash(s.acts, s.known, s.rev)]}
      PROVE  \A j \in jobs' \cup working' :
                \/ j \in jobs \cup working
                \/ j.issued <= latest' /\ \E o \in Handed : o.issued = j.issued /\ o.ver = j.ver
  <2>1. [issued |-> s.issued, ver |-> v] \in Handed
    BY <1>1 DEF Handed, Orders
  <2>2. s.issued <= latest'
    BY <1>1, <1>4
  <2>. QED
    BY <1>2, <1>4, <2>1, <2>2
<1>5. \/ UNCHANGED <<latest, jobs>>
      \/ \E v \in s.acts :
            /\ latest' = s.issued /\ s.issued >= latest
            /\ jobs' = jobs \cup {[ver |-> v, issued |-> s.issued, rev |-> s.rev,
                                   hash |-> Hash(s.acts, s.known, s.rev)]}
  <2>1. SyncNothing(s) => UNCHANGED <<latest, jobs>>
    BY DEF SyncNothing
  <2>2. \A v \in s.acts : SyncKnown(s, v) \/ SyncAdopt(s, v) => UNCHANGED <<latest, jobs>>
    BY DEF SyncKnown, SyncAdopt
  <2>3. ~(s.issued < latest) => s.issued >= latest
    BY <1>1
  <2>4. ASSUME NEW v \in s.acts, SyncQueue(s, v)
        PROVE  \/ UNCHANGED <<latest, jobs>>
               \/ /\ latest' = s.issued /\ s.issued >= latest
                  /\ jobs' = jobs \cup {[ver |-> v, issued |-> s.issued, rev |-> s.rev,
                                         hash |-> Hash(s.acts, s.known, s.rev)]}
    BY Zenon, <2>3, <2>4 DEF SyncQueue
  <2>. QED
    BY Zenon, <2>1, <2>2, <2>4 DEF Sync
<1>. QED
  BY <1>1, <1>2, <1>3, <1>4, <1>5

LEMMA ReceiveFollows == ASSUME Types, Receive PROVE Follows
<1>. USE DEF database, caches, reports, budget
<1>0. rule.ver \in Nat /\ latest \in Nat
  BY VersionsNat DEF Types, PanelType, AgentType, Rows
<1>1. CASE Answered
  <2>1. PICK s \in reply : Sync(s)
    BY <1>1 DEF Answered
  <2>. QED
    BY <1>0, <1>1, <2>1, SyncFollows, SameFramed, SameKnown DEF Answered, Follows
<1>2. CASE StreamEvent
  <2>1. Head(stream.frames) \subseteq Framed /\ Framed' \subseteq Framed
    BY <1>2, NextFramed DEF StreamEvent, Types
  <2>2. CASE UNCHANGED <<agent, reports>>
    BY <1>0, <1>2, <2>1, <2>2, SameKnown DEF StreamEvent, Follows, agent
  <2>3. ASSUME NEW s \in Head(stream.frames), Sync(s) PROVE Follows
    <3>1. s \in reply \cup Framed
      BY <2>1
    <3>. QED
      BY <1>0, <1>2, <2>1, <2>3, <3>1, SyncFollows, SameKnown DEF StreamEvent, Follows
  <2>. QED
    BY <1>2, <2>2, <2>3 DEF StreamEvent
<1>. QED
  BY <1>1, <1>2 DEF Receive

LEMMA WorkFollows ==
  ASSUME Types, StartJob \/ (\E j \in working : Succeed(j) \/ Fail(j)) \/ Finished PROVE Follows
<1>. USE DEF database, caches, reports, budget
<1>0. rule.ver \in Nat /\ latest \in Nat
  BY VersionsNat DEF Types, PanelType, AgentType, Rows
<1>1. ASSUME NEW j \in jobs, DropOld(j) PROVE Follows
  BY <1>0, <1>1, SameFramed, SameKnown DEF DropOld, Follows
<1>2. ASSUME NEW j \in jobs, Start(j) PROVE Follows
  <2>1. j.issued >= latest
    <3>1. j.issued \in Nat
      BY DEF Types, AgentType, Jobs
    <3>. QED
      BY <1>0, <1>2, <3>1 DEF Start, Outdated
  <2>. QED
    BY <1>0, <1>2, <2>1, SameFramed, SameKnown DEF Start, Follows
<1>3. ASSUME NEW j \in working, Execute(j, TRUE) \/ Execute(j, FALSE)
      PROVE  working' = {} /\ jobs' = jobs /\ latest' = latest
  BY <1>3 DEF Execute, Types, AgentType, AtMostOne
<1>4. ASSUME NEW j \in working, Succeed(j) PROVE Follows
  <2>1. working' = {} /\ jobs' = jobs /\ latest' = latest
    BY <1>3, <1>4 DEF Succeed
  <2>2. /\ runtime' = j.ver
        /\ UNCHANGED <<database, caches, rebuild, stream, reply>>
    BY <1>4 DEF Succeed, Execute
  <2>. QED
    BY <1>0, <2>1, <2>2, SameFramed, SameKnown DEF Follows
<1>5. ASSUME NEW j \in working, Fail(j) PROVE Follows
  <2>1. working' = {} /\ jobs' = jobs /\ latest' = latest
    BY <1>3, <1>5 DEF Fail
  <2>2. /\ runtime' \in {runtime, Down, j.ver}
        /\ UNCHANGED <<database, caches, rebuild, stream, reply>>
    BY <1>5 DEF Fail, Execute
  <2>. QED
    BY <1>0, <2>1, <2>2, SameFramed, SameKnown DEF Follows
<1>6. ASSUME NEW a \in acks, MarkApplied(a) PROVE Follows
  BY <1>0, <1>6, SameFramed, SameKnown DEF MarkApplied, Follows
<1>. QED
  BY <1>1, <1>2, <1>4, <1>5, <1>6 DEF StartJob, Finished

LEMMA OtherFollows == ASSUME Types, Tell \/ Lose \/ Reconnect \/ Time PROVE Follows
<1>. USE DEF database, caches, agent, reports, budget
<1>0. rule.ver \in Nat /\ latest \in Nat
  BY VersionsNat DEF Types, PanelType, AgentType, Rows
<1>1. CASE SendReport \/ Deliver \/ LoseReport \/ LoseBeat \/ Time
  BY <1>0, <1>1, SameFramed, SameKnown
     DEF SendReport, Deliver, LoseReport, LoseBeat, Time, ResendDue, AuditDue, RetryDue, Follows
<1>2. CASE WriteStatus
  <2>1. rule'.ver = rule.ver
    BY <1>2 DEF WriteStatus, Types, PanelType, Rows
  <2>2. Known' = Known
    BY <1>2, <2>1 DEF WriteStatus, Known
  <2>. QED
    BY <1>0, <1>2, <2>1, <2>2, SameFramed DEF WriteStatus, Follows
<1>3. CASE LoseReply
  <2>1. Known' \subseteq Known
    <3>1. CASE rebuild' = Idle
      BY <1>3, <3>1 DEF LoseReply, Known, Idle
    <3>2. CASE rebuild.pc # "idle" /\ rebuild' = [rebuild EXCEPT !.awaited = FALSE]
      <4>1. CASE rebuild.pc = "reading"
        <5>1. PICK l \in Runtimes, a \in BOOLEAN, row \in SUBSET Rows, rev \in SUBSET Nat :
                 rebuild = [pc |-> "reading", local |-> l, awaited |-> a, row |-> row, rev |-> rev]
          BY <4>1, Reading DEF Types
        <5>2. rebuild' = [pc |-> "reading", local |-> l, awaited |-> FALSE, row |-> row, rev |-> rev]
          BY <3>2, <5>1
        <5>. QED
          BY <1>3, <5>1, <5>2 DEF LoseReply, Known
      <4>2. CASE rebuild.pc # "reading"
        <5>1. /\ rebuild \in [pc : {"planned"}, local : Runtimes, awaited : BOOLEAN, rev : Nat,
                              ver : Versions, acts : SUBSET Versions]
          BY <3>2, <4>2 DEF Types, RebuildType, Idle
        <5>2. rebuild'.pc = "planned" /\ rebuild'.ver = rebuild.ver /\ rebuild.pc = "planned"
          BY <3>2, <5>1
        <5>. QED
          BY <1>3, <5>2 DEF LoseReply, Known
      <4>. QED
        BY <4>1, <4>2
    <3>. QED
      BY <1>3, <3>1, <3>2 DEF LoseReply
  <2>. QED
    BY <1>0, <1>3, <2>1, SameFramed DEF LoseReply, Follows
<1>4. CASE LoseStream \/ Reconnect
  <2>1. Framed' = {}
    BY <1>4, ClosedFramed DEF LoseStream, Reconnect
  <2>. QED
    BY <1>0, <1>4, <2>1, SameKnown DEF LoseStream, Reconnect, Follows
<1>5. CASE RestartPanel
  <2>1. Framed' = {}
    BY <1>5, ClosedFramed DEF RestartPanel
  <2>2. Known' \subseteq Known
    BY <1>5 DEF RestartPanel, Known, Idle
  <2>. QED
    BY <1>0, <1>5, <2>1, <2>2 DEF RestartPanel, Follows
<1>. QED
  BY <1>1, <1>2, <1>3, <1>4, <1>5 DEF Tell, Lose

\* The end of a rebuild may issue one order: the newest number for the
\* version that the rebuild read last.
LEMMA FinishOrder == ASSUME Types, Types', OrderInv, Finish PROVE OrderInv'
<1>. USE DEF database, caches, agent, reports, budget
<1>1. /\ rebuild \in [pc : {"planned"}, local : Runtimes, awaited : BOOLEAN, rev : Nat,
                      ver : Versions, acts : SUBSET Versions]
      /\ rebuild.acts \subseteq {rebuild.ver}
      /\ rebuild' = Idle
      /\ UNCHANGED <<database, status, wakes, agent, reports>>
  BY FinishParts
<1>2. PICK known \in BOOLEAN, n \in Nat, state \in States : FinishedWith(known, n, state)
  BY FinishParts
<1>3. PICK v \in Versions : v = rebuild.ver
  BY <1>1
<1>4. v \in Nat /\ clock \in Nat /\ rule.ver \in Nat /\ runtime \in Int /\ latest \in Nat
  <2>1. runtime \in Runtimes /\ Runtimes \subseteq Int
    BY VersionsNat DEF Types, AgentType, Runtimes, Down
  <2>. QED
    BY <2>1, VersionsNat DEF Types, PanelType, AgentType, Rows
<1>5. rebuild.acts = {} \/ rebuild.acts = {v}
  BY <1>1, <1>3
<1>6. /\ v <= rule.ver
      /\ \A o \in Handed : o.ver <= v
      /\ runtime # Down => runtime <= v
  <2>1. v \in Known
    BY <1>1, <1>3 DEF Known
  <2>. QED
    BY <2>1 DEF OrderInv, ReadLast
<1>7. Known' = {rule.ver} /\ rule.ver \in Known
  BY <1>1 DEF Known, Idle
\* The number is that of the batch that is repeated, or the next.
<1>8. \/ rebuild.acts = {} /\ batch' = {} /\ clock' = clock
      \/ /\ rebuild.acts = {v} /\ [issued |-> n, ver |-> v] \in Handed
         /\ batch' = batch /\ clock' = clock
      \/ /\ rebuild.acts = {v} /\ n = clock + 1 /\ clock' = clock + 1
         /\ batch' = {[acts |-> {v}, issued |-> n]}
  <2>1. CASE rebuild.acts = {}
    BY <1>2, <2>1 DEF FinishedWith, Issue
  <2>2. CASE rebuild.acts = {v} /\ [acts |-> {v}, issued |-> n] \in batch /\ UNCHANGED <<batch, clock>>
    BY <1>3, <2>2 DEF Handed, Orders
  <2>3. CASE rebuild.acts = {v} /\ n = clock + 1 /\ clock' = n /\ batch' = {[acts |-> {v}, issued |-> n]}
    BY <2>3
  <2>4. rebuild.acts = {v} => \/ [acts |-> {v}, issued |-> n] \in batch /\ UNCHANGED <<batch, clock>>
                              \/ n = clock + 1 /\ clock' = n /\ batch' = {[acts |-> {v}, issued |-> n]}
    BY <1>2 DEF FinishedWith, Issue
  <2>. QED
    BY <1>5, <2>1, <2>2, <2>3, <2>4
<1>9. reply' \cup Framed' \subseteq reply \cup Framed \cup {state}
  <2>1. {state} \in Frames
    BY DEF Frames, AtMostOne
  <2>2. Framed' \subseteq Framed \cup {state}
    BY <1>2, <2>1, PushFramed, SameFramed DEF FinishedWith, Types
  <2>3. reply' \subseteq reply \cup {state}
    BY <1>2 DEF FinishedWith
  <2>. QED
    BY <2>2, <2>3
<1>10. state.acts = rebuild.acts /\ state.issued = n
  BY <1>2 DEF FinishedWith
<1>11. ASSUME NEW o \in Handed', o \notin Handed
       PROVE  o.issued = clock + 1 /\ o.ver = v /\ clock' = clock + 1
  <2>1. o \in Orders
    BY <1>11 DEF Handed
  <2>2. CASE \E b \in batch' : b.issued = o.issued /\ o.ver \in b.acts
    <3>1. \/ \E b \in batch : b.issued = o.issued /\ o.ver \in b.acts
          \/ o.issued = clock + 1 /\ o.ver = v /\ clock' = clock + 1
      BY <1>8, <2>2
    <3>. QED
      BY <1>11, <2>1, <3>1 DEF Handed
  <2>3. CASE \E s \in reply' \cup Framed' : s.issued = o.issued /\ o.ver \in s.acts
    <3>1. \/ \E s \in reply \cup Framed : s.issued = o.issued /\ o.ver \in s.acts
          \/ n = o.issued /\ o.ver \in rebuild.acts
      BY <1>9, <1>10, <2>3
    <3>2. ~(\E s \in reply \cup Framed : s.issued = o.issued /\ o.ver \in s.acts)
      BY <1>11, <2>1 DEF Handed
    <3>3. n = o.issued /\ o.ver = v /\ rebuild.acts = {v}
      BY <1>5, <3>1, <3>2
    <3>4. o = [issued |-> n, ver |-> v]
      BY <2>1, <3>3 DEF Orders
    <3>. QED
      BY <1>8, <1>11, <3>3, <3>4
  <2>4. CASE \E j \in jobs' \cup working' : j.issued = o.issued /\ j.ver = o.ver
    BY <1>1, <1>11, <2>1, <2>4 DEF Handed
  <2>. QED
    BY <1>11, <2>2, <2>3, <2>4 DEF Handed
<1>12. \A o \in Handed : o.issued \in Nat /\ o.ver \in Nat /\ o.issued <= clock
  BY OrderFields DEF OrderInv, Numbered
<1>13. InOrder'
  <2>. SUFFICES ASSUME NEW o \in Handed', NEW p \in Handed'
                PROVE  /\ o.issued < p.issued => o.ver <= p.ver
                       /\ o.issued = p.issued => o.ver = p.ver
    BY DEF InOrder
  <2>1. CASE o \in Handed /\ p \in Handed
    BY <2>1 DEF OrderInv, InOrder
  <2>2. CASE o \in Handed /\ p \notin Handed
    BY <1>4, <1>6, <1>11, <1>12, <2>2
  <2>3. CASE o \notin Handed /\ p \in Handed
    BY <1>4, <1>11, <1>12, <2>3
  <2>4. CASE o \notin Handed /\ p \notin Handed
    BY <1>4, <1>11, <2>4
  <2>. QED
    BY <2>1, <2>2, <2>3, <2>4
<1>14. Numbered'
  <2>1. clock' \in Nat /\ clock' >= clock
    BY <1>4, <1>8
  <2>. QED
    BY <1>4, <1>11, <1>12, <2>1 DEF Numbered
<1>15. ReadLast'
  <2>1. \A o \in Handed' : o.ver <= rule.ver
    <3>1. \A o \in Handed : o.ver <= rule.ver
      BY <1>7 DEF OrderInv, ReadLast
    <3>. QED
      BY <1>6, <1>11, <3>1
  <2>2. runtime # Down => runtime <= rule.ver
    BY <1>7 DEF OrderInv, ReadLast
  <2>. QED
    BY <1>1, <1>4, <1>7, <2>1, <2>2 DEF ReadLast
<1>16. Behind'
  <2>1. ASSUME runtime # Down, NEW o \in Handed', o.issued >= latest PROVE o.ver >= runtime
    <3>1. CASE o \in Handed
      BY <2>1, <3>1 DEF OrderInv, Behind
    <3>2. CASE o \notin Handed
      BY <1>4, <1>6, <1>11, <2>1, <3>2
    <3>. QED
      BY <3>1, <3>2
  <2>. QED
    BY <1>1, <2>1 DEF OrderInv, Behind
<1>17. Taken'
  BY <1>1 DEF OrderInv, Taken
<1>. QED
  BY <1>13, <1>14, <1>15, <1>16, <1>17 DEF OrderInv

LEMMA OrderInit == Init => OrderInv
<1>. SUFFICES ASSUME Init PROVE OrderInv
  OBVIOUS
<1>1. Framed = {}
  BY DEF Init, Framed
<1>2. Handed = {}
  BY <1>1 DEF Init, Handed
<1>3. Known = {0} /\ rule.ver = 0 /\ runtime = 0
  BY DEF Init, Known, Idle
<1>. QED
  BY <1>2, <1>3 DEF Init, OrderInv, InOrder, Numbered, ReadLast, Behind, Taken

LEMMA OrderStep == Types /\ OrderInv /\ [Next]_vars => OrderInv'
<1>. SUFFICES ASSUME Types, OrderInv, [Next]_vars PROVE OrderInv'
  OBVIOUS
<1>1. Types'
  BY TypesStep
<1>2. CASE UNCHANGED vars
  <2>1. rule.ver \in Nat /\ latest \in Nat
    BY VersionsNat DEF Types, PanelType, AgentType, Rows
  <2>2. Follows
    BY <1>2, <2>1, SameFramed, SameKnown DEF vars, database, caches, agent, Follows
  <2>. QED
    BY <1>1, <2>2, FollowsOrder
<1>3. CASE Finish
  BY <1>1, <1>3, FinishOrder
<1>4. CASE Next /\ ~Finish
  <2>1. Follows
    BY Zenon, <1>4, EditFollows, BeatFollows, ReadFollows, ReceiveFollows, WorkFollows, OtherFollows
       DEF Next, Rebuild
  <2>. QED
    BY <1>1, <2>1, FollowsOrder
<1>. QED
  BY <1>2, <1>3, <1>4

-----------------------------------------------------------------------------
\* The agent accepts a number once.
AcceptInv ==
    /\ \A i, j \in jobs \cup working : i.issued = j.issued => i = j
    /\ jobs \cap working = {}

\* A complete hash names the one version of its state, and a recorded success
\* is that of the version that runs.
ClaimInv ==
    /\ \A j \in jobs \cup working \cup acks : j.hash # Partial /\ j.hash[1] = {j.ver}
    /\ \A r \in record : r.ok => runtime = r.ver

DesiredInv == Types /\ OrderInv /\ AcceptInv /\ ClaimInv

\* What the panel does, and what is lost, leaves the agent's work alone.
PanelStep == Edit \/ Beat \/ BusyBeat \/ Rebuild \/ Tell \/ Lose \/ Reconnect \/ Time
LEMMA PanelQuiet ==
  ASSUME PanelStep \/ UNCHANGED vars
  PROVE  UNCHANGED <<applied, record, jobs, working, acks, runtime>>
<1>. USE DEF agent
<1>1. Edit => UNCHANGED <<applied, record, jobs, working, acks, runtime>>
  BY DEF Edit, EditRule, AuditEdit, RefreshAgent
<1>2. Beat \/ BusyBeat \/ Rebuild => UNCHANGED <<applied, record, jobs, working, acks, runtime>>
  BY DEF Beat, BusyBeat, Rebuild, ReadRule, ReadRevision, Reconcile, Finish
<1>3. Tell => UNCHANGED <<applied, record, jobs, working, acks, runtime>>
  BY DEF Tell, SendReport, Deliver, WriteStatus
<1>4. Lose \/ Reconnect => UNCHANGED <<applied, record, jobs, working, acks, runtime>>
  BY DEF Lose, LoseBeat, LoseReply, LoseStream, LoseReport, RestartPanel, Reconnect
<1>5. Time => UNCHANGED <<applied, record, jobs, working, acks, runtime>>
  BY DEF Time, ResendDue, AuditDue, RetryDue
<1>6. UNCHANGED vars => UNCHANGED <<applied, record, jobs, working, acks, runtime>>
  BY DEF vars
<1>. QED
  BY <1>1, <1>2, <1>3, <1>4, <1>5, <1>6 DEF PanelStep

LEMMA NextCases ==
  ASSUME [Next]_vars
  PROVE  \/ PanelStep \/ UNCHANGED vars
         \/ Answered \/ StreamEvent
         \/ \E j \in jobs : DropOld(j) \/ Start(j)
         \/ \E j \in working : Succeed(j) \/ Fail(j)
         \/ \E a \in acks : MarkApplied(a)
  BY Zenon DEF Next, PanelStep, Receive, StartJob, Finished

\* A frame or an answer that is read was on its way.
LEMMA ReceivedState ==
  ASSUME Types, Answered \/ StreamEvent
  PROVE  \/ UNCHANGED <<applied, record, jobs, working, acks, runtime>>
         \/ \E s \in reply \cup Framed : Sync(s)
<1>1. Answered => \E s \in reply \cup Framed : Sync(s)
  BY DEF Answered
<1>2. ASSUME StreamEvent
      PROVE  \/ UNCHANGED <<applied, record, jobs, working, acks, runtime>>
             \/ \E s \in reply \cup Framed : Sync(s)
  <2>1. Head(stream.frames) \subseteq Framed
    BY <1>2, NextFramed DEF StreamEvent, Types
  <2>. QED
    BY <1>2, <2>1 DEF StreamEvent, agent
<1>. QED
  BY <1>1, <1>2

\* A state holds at most one action, the version its number stands for.
LEMMA OneVersion ==
  ASSUME Types, OrderInv, NEW s \in reply \cup Framed, NEW v \in s.acts
  PROVE  s.acts = {v} /\ v \in Versions /\ s.issued \in Nat
<1>1. s \in States
  BY DEF Framed, Types, WireType
<1>2. s.acts \subseteq Versions /\ s.issued \in Nat
  BY <1>1 DEF States
<1>3. ASSUME NEW w \in s.acts PROVE w = v
  <2>1. [issued |-> s.issued, ver |-> v] \in Handed /\ [issued |-> s.issued, ver |-> w] \in Handed
    BY <1>2 DEF Handed, Orders
  <2>. QED
    BY <2>1 DEF OrderInv, InOrder
<1>. QED
  BY <1>2, <1>3

LEMMA AcceptStep == Types /\ AcceptInv /\ [Next]_vars => AcceptInv'
<1>. SUFFICES ASSUME Types, AcceptInv, [Next]_vars PROVE AcceptInv'
  OBVIOUS
<1>1. CASE UNCHANGED <<jobs, working>>
  BY <1>1 DEF AcceptInv
<1>2. ASSUME NEW s, Sync(s) PROVE AcceptInv'
  <2>1. working' = working
    BY <1>2 DEF Sync
  <2>2. \/ jobs' = jobs
        \/ /\ ~Reserved(s.issued)
           /\ \E v : jobs' = jobs \cup {[ver |-> v, issued |-> s.issued, rev |-> s.rev,
                                         hash |-> Hash(s.acts, s.known, s.rev)]}
    <3>1. SyncNothing(s) => jobs' = jobs
      BY DEF SyncNothing
    <3>2. \A v \in s.acts : SyncKnown(s, v) \/ SyncAdopt(s, v) => jobs' = jobs
      BY DEF SyncKnown, SyncAdopt
    <3>3. \A v \in s.acts : SyncQueue(s, v) =>
             \/ jobs' = jobs
             \/ /\ ~Reserved(s.issued)
                /\ jobs' = jobs \cup {[ver |-> v, issued |-> s.issued, rev |-> s.rev,
                                       hash |-> Hash(s.acts, s.known, s.rev)]}
      BY Zenon DEF SyncQueue
    <3>. QED
      BY Zenon, <1>2, <3>1, <3>2, <3>3 DEF Sync
  <2>3. CASE jobs' = jobs
    BY <2>1, <2>3 DEF AcceptInv
  <2>4. ASSUME NEW j, j.issued = s.issued, ~Reserved(s.issued), jobs' = jobs \cup {j}
        PROVE  AcceptInv'
    <3>1. \A i \in jobs \cup working : i.issued # j.issued
      BY <2>4 DEF Reserved
    <3>. QED
      BY <2>1, <2>4, <3>1 DEF AcceptInv
  <2>. QED
    BY <2>2, <2>3, <2>4
<1>3. ASSUME NEW j \in jobs, DropOld(j) \/ Start(j) PROVE AcceptInv'
  BY <1>3 DEF DropOld, Start, AcceptInv
<1>4. ASSUME NEW j \in working, Succeed(j) \/ Fail(j) PROVE AcceptInv'
  BY <1>4 DEF Succeed, Fail, Execute, AcceptInv
<1>5. ASSUME NEW a \in acks, MarkApplied(a) PROVE AcceptInv'
  BY <1>1, <1>5 DEF MarkApplied
<1>. QED
  BY <1>1, <1>2, <1>3, <1>4, <1>5, NextCases, PanelQuiet, ReceivedState

\* A new complete claim names only what the service runs.
Claims == \A v \in Versions :
    (applied' # applied /\ applied'.hash # Partial /\ v \in applied'.hash[1]) => runtime = v

LEMMA SyncClaims ==
  ASSUME Types, OrderInv, ClaimInv, NEW s \in reply \cup Framed, Sync(s)
  PROVE  ClaimInv' /\ Claims
<1>. DEFINE h == Hash(s.acts, s.known, s.rev)
<1>1. working' = working /\ acks' = acks /\ runtime' = runtime
  BY DEF Sync
<1>2. \A v \in s.acts : h # Partial /\ h[1] = {v}
  BY OneVersion DEF Hash, Partial
<1>3. s.acts = {} => h[1] = {}
  BY DEF Hash
<1>. HIDE DEF h
<1>4. applied' = WholeApplied(s.rev, h) => applied' = applied \/ applied'.hash = h
  BY DEF WholeApplied
<1>5. CASE SyncNothing(s)
  <2>1. ClaimInv'
    BY <1>1, <1>5 DEF SyncNothing, ClaimInv
  <2>2. Claims
    BY <1>3, <1>4, <1>5 DEF SyncNothing, Claims, h
  <2>. QED
    BY <2>1, <2>2
<1>6. ASSUME NEW v \in s.acts, SyncKnown(s, v) PROVE ClaimInv' /\ Claims
  <2>1. ClaimInv'
    BY <1>1, <1>6 DEF SyncKnown, ClaimInv
  <2>2. applied' = applied \/ (runtime = v /\ applied' = WholeApplied(s.rev, h))
    <3>1. Failed(v) => ~Succeeded(v)
      <4>1. [ver |-> v, ok |-> TRUE] # [ver |-> v, ok |-> FALSE]
        OBVIOUS
      <4>. QED
        BY <4>1 DEF Succeeded, Failed
    <3>. QED
      BY <1>6, <3>1 DEF SyncKnown, h
  <2>3. Claims
    BY <1>2, <1>4, <2>2 DEF Claims
  <2>. QED
    BY <2>1, <2>3
<1>7. ASSUME NEW v \in s.acts, SyncAdopt(s, v) PROVE ClaimInv' /\ Claims
  <2>1. ClaimInv'
    BY <1>1, <1>7 DEF SyncAdopt, ClaimInv
  <2>2. runtime = v /\ applied' = WholeApplied(s.rev, h)
    BY <1>7 DEF SyncAdopt, h
  <2>3. Claims
    BY <1>2, <1>4, <2>2 DEF Claims
  <2>. QED
    BY <2>1, <2>3
<1>8. ASSUME NEW v \in s.acts, SyncQueue(s, v) PROVE ClaimInv' /\ Claims
  <2>1. \A r \in record' : r \in record
    BY <1>8 DEF SyncQueue
  <2>2. PICK j : j = [ver |-> v, issued |-> s.issued, rev |-> s.rev, hash |-> h]
    OBVIOUS
  <2>3. j.hash # Partial /\ j.hash[1] = {j.ver}
    BY <1>2, <2>2
  <2>4. jobs' = jobs \/ jobs' = jobs \cup {j}
    BY <1>8, <2>2 DEF SyncQueue, h
  <2>5. ClaimInv'
    BY <1>1, <2>1, <2>3, <2>4 DEF ClaimInv
  <2>6. Claims
    BY <1>8 DEF SyncQueue, Claims
  <2>. QED
    BY <2>5, <2>6
<1>. QED
  BY <1>5, <1>6, <1>7, <1>8 DEF Sync

LEMMA ClaimStep ==
  ASSUME Types, OrderInv, ClaimInv, [Next]_vars PROVE ClaimInv' /\ Claims
<1>1. CASE UNCHANGED <<applied, record, jobs, working, acks, runtime>>
  BY <1>1 DEF ClaimInv, Claims
<1>2. ASSUME NEW j \in jobs, DropOld(j) \/ Start(j) PROVE ClaimInv' /\ Claims
  <2>1. applied' = applied /\ record' = record /\ runtime' = runtime
    BY <1>2 DEF DropOld, Start
  <2>2. /\ jobs' \cup working' \subseteq jobs \cup working
        /\ acks' \subseteq acks \cup {Ack(j)}
    BY <1>2 DEF DropOld, Start
  <2>3. Ack(j).hash # Partial /\ Ack(j).hash[1] = {Ack(j).ver}
    BY DEF Ack, ClaimInv
  <2>. QED
    BY <2>1, <2>2, <2>3 DEF ClaimInv, Claims
<1>3. ASSUME NEW j \in working, Succeed(j) \/ Fail(j) PROVE ClaimInv' /\ Claims
  <2>1. /\ jobs' \cup working' \subseteq jobs \cup working
        /\ acks' = acks \cup {Ack(j)}
    BY <1>3 DEF Succeed, Fail, Execute
  <2>2. Ack(j).hash # Partial /\ Ack(j).hash[1] = {Ack(j).ver}
    BY DEF Ack, ClaimInv
  <2>3. \A r \in record' : r.ok => runtime' = r.ver
    <3>1. CASE Succeed(j)
      BY <3>1 DEF Succeed, Execute
    <3>2. CASE Fail(j)
      BY <3>2 DEF Fail, Execute
    <3>. QED
      BY <1>3, <3>1, <3>2
  <2>4. applied' = applied \/ applied'.hash = Partial
    <3>1. CASE Succeed(j)
      <4>1. applied' = ActionApplied(j.rev)
        BY <3>1 DEF Succeed
      <4>. QED
        BY <4>1 DEF ActionApplied
    <3>2. CASE Fail(j)
      BY <3>2 DEF Fail
    <3>. QED
      BY <1>3, <3>1, <3>2
  <2>. QED
    BY <2>1, <2>2, <2>3, <2>4 DEF ClaimInv, Claims
<1>4. ASSUME NEW a \in acks, MarkApplied(a) PROVE ClaimInv' /\ Claims
  <2>1. ClaimInv'
    BY <1>4 DEF MarkApplied, ClaimInv
  <2>2. applied' = applied \/ (Succeeded(a.ver) /\ applied'.hash = a.hash)
    BY <1>4 DEF MarkApplied, WholeApplied
  <2>3. Succeeded(a.ver) => runtime = a.ver
    BY DEF Succeeded, ClaimInv
  <2>4. a.hash[1] = {a.ver}
    BY DEF ClaimInv
  <2>. QED
    BY <2>1, <2>2, <2>3, <2>4 DEF Claims
<1>. QED
  BY <1>1, <1>2, <1>3, <1>4, SyncClaims, NextCases, PanelQuiet, ReceivedState

\* The inductive invariant of the loop between panel and agent.
THEOREM DesiredInvariant == Spec => []DesiredInv
<1>1. Init => AcceptInv /\ ClaimInv
  BY DEF Init, AcceptInv, ClaimInv
<1>2. DesiredInv /\ [Next]_vars => DesiredInv'
  BY TypesStep, OrderStep, AcceptStep, ClaimStep DEF DesiredInv
<1>3. Init => DesiredInv
  BY <1>1, DesiredInit, OrderInit DEF DesiredInv
<1>. QED
  BY <1>2, <1>3, PTL DEF Spec

\* A state that comes by the stream and by the response is queued once.
THEOREM DesiredOnce == Spec => []AcceptedOnce
<1>1. DesiredInv => AcceptedOnce
  BY DEF DesiredInv, AcceptInv, AcceptedOnce
<1>. QED
  BY <1>1, DesiredInvariant, PTL

\* No order of delivery takes the service back to an older version.
THEOREM DesiredForward == Spec => NeverOlder
<1>1. ASSUME DesiredInv, [Next]_vars PROVE runtime' # Down => runtime' >= runtime
  <2>1. runtime \in Runtimes /\ Runtimes \subseteq Int /\ Down = -1 /\ runtime \in Int
    BY <1>1, VersionsNat DEF DesiredInv, Types, AgentType, Runtimes, Down
  <2>2. CASE runtime' = runtime \/ runtime' = Down
    BY <2>1, <2>2
  <2>3. ASSUME NEW j \in working, runtime' = j.ver PROVE runtime' >= runtime
    <3>1. j.ver \in Nat
      BY <1>1, VersionsNat DEF DesiredInv, Types, AgentType, Jobs
    <3>. QED
      BY <1>1, <2>1, <2>3, <3>1 DEF DesiredInv, OrderInv, Behind
  <2>4. \A s : Sync(s) => runtime' = runtime
    BY DEF Sync
  <2>5. \A j \in jobs : DropOld(j) \/ Start(j) => runtime' = runtime
    BY DEF DropOld, Start
  <2>6. \A j \in working : Succeed(j) \/ Fail(j) => runtime' \in {runtime, Down, j.ver}
    BY DEF Succeed, Fail
  <2>7. \A a \in acks : MarkApplied(a) => runtime' = runtime
    BY DEF MarkApplied
  <2>. QED
    BY <1>1, <2>2, <2>3, <2>4, <2>5, <2>6, <2>7, NextCases, PanelQuiet, ReceivedState DEF DesiredInv
<1>. QED
  BY <1>1, DesiredInvariant, PTL DEF Spec, NeverOlder

\* The agent claims a complete state only while its service runs it.
THEOREM DesiredClaims == Spec => ClaimsWhatRuns
<1>1. DesiredInv /\ [Next]_vars => Claims
  BY ClaimStep DEF DesiredInv
<1>. QED
  BY <1>1, DesiredInvariant, PTL DEF Spec, ClaimsWhatRuns, Claims

=============================================================================
