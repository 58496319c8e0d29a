------------------------ MODULE DisplayQueries_proofs ------------------------
(***************************************************************************)
(* Proofs about the display caches, for any keys, callers, writers and     *)
(* limits.  The inductive invariant has four independent parts: the books  *)
(* of the cache, the order of use, the versions that entries, loads and    *)
(* callers stand for, and the slots of the pool.                           *)
(***************************************************************************)
EXTENDS DisplayQueries, SequenceTheorems, FiniteSetTheorems, WellFoundedInduction, TLAPS

Entries == [Keys -> {None} \cup Entry]

\* The books: the bytes counted are those of the entries.
Book(e, b) == e \in Entries /\ IsFiniteSet(Present(e)) /\ b = Weight(e, Present(e))
Booked == Book(entry, bytes) /\ bytes <= MaxBytes /\ Cardinality(Present(entry)) <= MaxEntries

\* The order of use is a strict order of the keys that have an entry.
Ranked ==
    /\ older \in [Keys -> SUBSET Keys]
    /\ \A k \in Keys : older[k] \subseteq Present(entry) \ {k}
    /\ \A k \in Keys : \A j \in older[k] : older[j] \subseteq older[k]

\* What an entry holds or will hold is not older than the last mutation that
\* matched its key, and its load is one of its key.
Upheld(k) ==
    /\ floor[k] <= db
    /\ entry[k] # None /\ entry[k].value # None => entry[k].value >= floor[k]
    /\ entry[k] # None /\ entry[k].load # None =>
         LET l == load[entry[k].load]
         IN  l.phase # "free" /\ l.key = k /\ (l.saw # None => l.saw >= floor[k])

\* A caller awaits a load that exists, and that sees what the caller must see.
Served(c) ==
    caller[c].load # None =>
        LET l == load[caller[c].load]
        IN  l.phase # "free" /\ caller[c].need <= db /\ (l.saw # None => l.saw >= caller[c].need)

Versions ==
    /\ \A k \in Keys : Upheld(k)
    /\ \A c \in Callers : Served(c)
    /\ OneLoadPerKey /\ ReadYourWrites

\* The queue holds each waiting load once.
Slots ==
    /\ queue \in Seq(Loads) /\ active \in Nat
    /\ \A i, j \in DOMAIN queue : queue[i] = queue[j] => i = j
    /\ \A i \in DOMAIN queue : load[queue[i]].phase = "queued"
    /\ SlotsExact

CacheInv == TypeOK /\ Booked /\ Ranked /\ Versions /\ Slots

-----------------------------------------------------------------------------
(* What the entries weigh. *)

Bytes(e, k) == {k} \X (1..e[k].bytes)

LEMMA NoneIs == /\ None \notin Nat /\ None \notin Loads /\ None \notin Version /\ None \notin Entry
                /\ Loads \subseteq Nat /\ Version \subseteq Nat
  BY NoneAssumption DEF Loads, Version

LEMMA BytesOf == ASSUME NEW e, NEW k, e[k].bytes \in Nat
                 PROVE  IsFiniteSet(Bytes(e, k)) /\ Cardinality(Bytes(e, k)) = e[k].bytes
  <1>1. PICK n \in Nat : n = e[k].bytes
    OBVIOUS
  <1>2. IsFiniteSet(1..n) /\ Cardinality(1..n) = n
    BY FS_Interval
  <1>3. IsFiniteSet({k}) /\ Cardinality({k}) = 1
    BY FS_Singleton
  <1>4. IsFiniteSet({k} \X (1..n)) /\ Cardinality({k} \X (1..n)) = 1 * n
    BY <1>2, <1>3, FS_Product
  <1> QED BY <1>1, <1>4 DEF Bytes

LEMMA WeightIs == ASSUME NEW e, NEW S, IsFiniteSet(S), \A k \in S : e[k].bytes \in Nat
                  PROVE  /\ IsFiniteSet(UNION {Bytes(e, k) : k \in S})
                         /\ Weight(e, S) = Cardinality(UNION {Bytes(e, k) : k \in S})
                         /\ Weight(e, S) \in Nat
  <1> DEFINE U == {Bytes(e, k) : k \in S}
  <1> DEFINE f == [k \in S |-> Bytes(e, k)]
  <1>1. f \in Surjection(S, U)
    BY DEF Surjection
  <1>2. IsFiniteSet(U)
    BY <1>1, FS_Surjection
  <1>3. \A k \in S : IsFiniteSet(Bytes(e, k))
    BY BytesOf
  <1>4. IsFiniteSet(UNION U)
    BY <1>2, <1>3, FS_UNION
  <1>5. Weight(e, S) = Cardinality(UNION U)
    BY DEF Weight, Bytes
  <1> QED BY <1>4, <1>5, FS_CardinalityType

LEMMA WeightNone == ASSUME NEW e PROVE Weight(e, {}) = 0
  BY FS_EmptySet DEF Weight

LEMMA WeightSame == ASSUME NEW e, NEW f, NEW S, \A k \in S : e[k].bytes = f[k].bytes
                    PROVE  Weight(e, S) = Weight(f, S)
  BY DEF Weight

LEMMA WeightAdds ==
    ASSUME NEW e, NEW S, NEW T, IsFiniteSet(S), IsFiniteSet(T), S \cap T = {},
           \A k \in S \cup T : e[k].bytes \in Nat
    PROVE  Weight(e, S \cup T) = Weight(e, S) + Weight(e, T)
  <1> DEFINE A == UNION {Bytes(e, k) : k \in S}
             B == UNION {Bytes(e, k) : k \in T}
             C == UNION {Bytes(e, k) : k \in S \cup T}
  <1>1. C = A \cup B
    OBVIOUS
  <1>2. A \cap B = {}
    BY DEF Bytes
  <1>3. IsFiniteSet(A) /\ IsFiniteSet(B) /\ Weight(e, S) = Cardinality(A) /\ Weight(e, T) = Cardinality(B)
    BY WeightIs
  <1>4. IsFiniteSet(S \cup T)
    BY FS_Union
  <1>5. Weight(e, S \cup T) = Cardinality(C)
    BY <1>4, WeightIs
  <1>6. Cardinality(A \cup B) = Cardinality(A) + Cardinality(B) - Cardinality(A \cap B)
    BY <1>3, FS_Union
  <1>7. Cardinality(A) \in Nat /\ Cardinality(B) \in Nat /\ Cardinality(A \cap B) = 0
    BY <1>2, <1>3, FS_EmptySet, FS_CardinalityType
  <1> HIDE DEF A, B, C
  <1> QED BY <1>1, <1>3, <1>5, <1>6, <1>7

LEMMA WeightOne == ASSUME NEW e, NEW k, e[k].bytes \in Nat PROVE Weight(e, {k}) = e[k].bytes
  <1>1. UNION {Bytes(e, j) : j \in {k}} = Bytes(e, k)
    OBVIOUS
  <1>2. IsFiniteSet({k}) /\ \A j \in {k} : e[j].bytes \in Nat
    BY FS_Singleton
  <1>3. Weight(e, {k}) = Cardinality(UNION {Bytes(e, j) : j \in {k}})
    BY <1>2, WeightIs
  <1> QED BY <1>1, <1>3, BytesOf

\* A part of the entries weighs no more than all of them.
LEMMA WeightParts ==
    ASSUME NEW e, NEW S, NEW T, IsFiniteSet(S), T \subseteq S, \A k \in S : e[k].bytes \in Nat
    PROVE  /\ IsFiniteSet(T) /\ IsFiniteSet(S \ T)
           /\ Weight(e, S) \in Nat /\ Weight(e, T) \in Nat /\ Weight(e, S \ T) \in Nat
           /\ Weight(e, S \ T) = Weight(e, S) - Weight(e, T)
  <1>1. IsFiniteSet(T) /\ IsFiniteSet(S \ T)
    BY FS_Subset
  <1>2. Weight(e, T \cup (S \ T)) = Weight(e, T) + Weight(e, S \ T)
    BY <1>1, WeightAdds
  <1>3. T \cup (S \ T) = S
    OBVIOUS
  <1>4. Weight(e, S) \in Nat /\ Weight(e, T) \in Nat /\ Weight(e, S \ T) \in Nat
    BY <1>1, WeightIs
  <1> QED BY <1>1, <1>2, <1>3, <1>4

-----------------------------------------------------------------------------
(* What leaves the cache. *)

LEMMA BookFits == ASSUME NEW e, NEW b, Book(e, b)
                  PROVE  /\ b \in Nat /\ Cardinality(Present(e)) \in Nat
                         /\ \A k \in Present(e) : e[k] \in Entry /\ e[k].bytes \in Nat
  <1>1. \A k \in Present(e) : e[k] \in Entry
    BY DEF Book, Present, Entries
  <1>2. \A k \in Present(e) : e[k].bytes \in Nat
    BY <1>1 DEF Entry
  <1> QED BY <1>1, <1>2, WeightIs, FS_CardinalityType DEF Book

LEMMA Leaves ==
    ASSUME NEW e, NEW b, Book(e, b), NEW S, S \subseteq Present(e)
    PROVE  /\ Book(Without(e, S), b - Weight(e, S))
           /\ Present(Without(e, S)) = Present(e) \ S
           /\ Weight(e, S) \in Nat /\ b - Weight(e, S) \in Nat /\ b - Weight(e, S) <= b
           /\ Cardinality(Present(e) \ S) \in Nat
           /\ Cardinality(Present(e) \ S) <= Cardinality(Present(e))
  <1> DEFINE f == Without(e, S)
  <1>1. f \in Entries
    BY DEF Book, Entries, Without
  <1>2. Present(f) = Present(e) \ S
    BY DEF Present, Without
  <1>3. IsFiniteSet(Present(e)) /\ b = Weight(e, Present(e)) /\ \A k \in Present(e) : e[k].bytes \in Nat
    BY BookFits DEF Book
  <1>4. /\ IsFiniteSet(Present(e) \ S) /\ Weight(e, S) \in Nat
        /\ Weight(e, Present(e) \ S) \in Nat /\ b \in Nat
        /\ Weight(e, Present(e) \ S) = b - Weight(e, S)
    BY <1>3, WeightParts
  <1>5. \A k \in Present(e) \ S : e[k].bytes = f[k].bytes
    BY DEF Without, Present
  <1>6. Weight(f, Present(e) \ S) = Weight(e, Present(e) \ S)
    BY <1>5, WeightSame
  <1>7. /\ Cardinality(Present(e) \ S) \in Nat
        /\ Cardinality(Present(e) \ S) <= Cardinality(Present(e))
    BY <1>3, FS_Subset, FS_CardinalityType
  <1>8. Book(f, b - Weight(e, S))
    BY <1>1, <1>2, <1>4, <1>6 DEF Book
  <1> QED BY <1>2, <1>4, <1>7, <1>8

Below == {ss \in Nat \X Nat : ss[1] < ss[2]}

LEMMA Least == ASSUME NEW R \in SUBSET Nat, R # {} PROVE \E x \in R : \A y \in R : x <= y
  <1>1. IsWellFoundedOn(Below, Nat)
    BY NatLessThanWellFounded DEF OpToRel, Below
  <1>2. PICK x \in R : \A y \in R : ~(<<y, x>> \in Below)
    BY <1>1, WFMin
  <1>3. ASSUME NEW y \in R, y < x PROVE FALSE
    <2>1. <<y, x>> \in Nat \X Nat /\ <<y, x>>[1] < <<y, x>>[2]
      BY <1>3
    <2>2. <<y, x>> \in Below
      BY <2>1, Zenon DEF Below
    <2> QED BY <1>2, <2>2
  <1> QED BY <1>3

\* Among the keys that stay, one has only keys that go before it.
LEMMA FirstToStay ==
    ASSUME NEW idle \in SUBSET Keys, NEW stay, stay \subseteq idle, stay # {}, IsFiniteSet(idle), Ranked
    PROVE  \E k \in stay : idle \cap older[k] \subseteq idle \ stay
  <1> DEFINE Before(k) == idle \cap older[k]
  <1> DEFINE R == {Cardinality(Before(k)) : k \in stay}
  <1>1. \A k \in stay : IsFiniteSet(Before(k)) /\ Cardinality(Before(k)) \in Nat
    BY FS_Subset, FS_CardinalityType
  <1>2. R \in SUBSET Nat /\ R # {}
    BY <1>1
  <1>3. PICK x \in R : \A y \in R : x <= y
    <2> HIDE DEF R
    <2> QED BY <1>2, Least
  <1>4. PICK k \in stay : x = Cardinality(Before(k))
    OBVIOUS
  <1>5. ASSUME NEW j \in Before(k), j \in stay PROVE FALSE
    <2>1. Before(j) \subseteq Before(k) /\ j \notin Before(j)
      BY <1>5 DEF Ranked
    <2>2. Cardinality(Before(j)) <= Cardinality(Before(k)) /\ Cardinality(Before(j)) # Cardinality(Before(k))
      BY <1>1, <1>5, <2>1, FS_Subset
    <2>3. Cardinality(Before(k)) <= Cardinality(Before(j))
      BY <1>3, <1>4, <1>5
    <2> QED BY <1>1, <1>5, <2>2, <2>3
  <1> QED BY <1>5

\* Eviction takes entries that are not loading, and either all of them or
\* enough of them.
LEMMA EvictedFits ==
    ASSUME NEW e, NEW b, NEW r, Book(e, b), Ranked
    PROVE  /\ Evicted(e, b, r) \subseteq {k \in Keys : Evictable(e, k)}
           /\ {k \in Keys : Evictable(e, k)} \subseteq Present(e)
           /\ \/ Evicted(e, b, r) = {k \in Keys : Evictable(e, k)}
              \/ b - Weight(e, Evicted(e, b, r)) <= MaxBytes
  <1> DEFINE idle == {k \in Keys : Evictable(e, k)}
             out == Evicted(e, b, r)
             Over(S) == \/ Cardinality(Present(e) \ S) + r > MaxEntries
                        \/ b - Weight(e, S) > MaxBytes
  <1>1. idle \subseteq Present(e)
    BY DEF Evictable, Present
  <1>2. out = IF Over({}) THEN {k \in idle : Over(idle \cap older[k])} ELSE {}
    BY DEF Evicted
  <1>3. /\ IsFiniteSet(Present(e)) /\ IsFiniteSet(idle) /\ b \in Nat /\ MaxBytes \in Nat
        /\ \A k \in Present(e) : e[k].bytes \in Nat
    BY <1>1, BookFits, FS_Subset, LimitsAssumption DEF Book
  <1>4. CASE ~Over({})
    <2>1. out = {} /\ b - Weight(e, {}) <= MaxBytes
      BY <1>2, <1>3, <1>4, WeightNone
    <2> QED BY <1>1, <2>1
  <1>5. ASSUME Over({}), out # idle PROVE b - Weight(e, out) <= MaxBytes
    <2>1. out \subseteq idle /\ idle \ out # {}
      BY <1>2, <1>5
    <2>2. PICK k \in idle \ out : idle \cap older[k] \subseteq idle \ (idle \ out)
      <3> DEFINE stay == idle \ out
      <3>1. idle \in SUBSET Keys /\ stay \subseteq idle /\ stay # {}
        BY <2>1
      <3> HIDE DEF idle, stay
      <3>2. \E k \in stay : idle \cap older[k] \subseteq idle \ stay
        BY <1>3, <3>1, FirstToStay
      <3> QED BY <3>2 DEF stay
    <2> DEFINE few == idle \cap older[k]
    <2>3. b - Weight(e, few) <= MaxBytes /\ few \subseteq out
      <3>1. Weight(e, few) \in Nat
        <4>1. few \subseteq Present(e)
          BY <1>1
        <4> HIDE DEF few
        <4> QED BY <1>3, <4>1, WeightParts
      <3>2. ~Over(few)
        BY <1>2, <1>5, <2>2
      <3> QED BY <1>3, <2>1, <2>2, <3>1, <3>2
    <2>4. IsFiniteSet(out) /\ \A j \in out : e[j].bytes \in Nat
      BY <1>1, <1>3, <2>1, FS_Subset
    <2>5. Weight(e, out \ few) = Weight(e, out) - Weight(e, few) /\ Weight(e, out) \in Nat
            /\ Weight(e, few) \in Nat /\ Weight(e, out \ few) \in Nat
      <3> HIDE DEF few, out
      <3> QED BY <2>3, <2>4, WeightParts
    <2> HIDE DEF few, out
    <2> QED BY <1>3, <2>3, <2>5
  <1> QED BY <1>1, <1>2, <1>4, <1>5

-----------------------------------------------------------------------------
(* The books and the order of use, operation by operation. *)

LEMMA TrimmedFits ==
    ASSUME NEW e, NEW b, Book(e, b), Ranked, Trimmed(e, b, 0),
           Cardinality(Present(e)) <= MaxEntries,
           Weight(e, {k \in Present(e) : e[k].load # None}) <= MaxBytes
    PROVE  /\ Booked'
           /\ \A k \in Keys : \/ entry'[k] = e[k]
                              \/ entry'[k] = None /\ Evictable(e, k)
  <1> DEFINE idle == {k \in Keys : Evictable(e, k)}
             out == Evicted(e, b, 0)
             loading == {k \in Present(e) : e[k].load # None}
  <1>1. out \subseteq idle /\ idle \subseteq Present(e) /\ (out = idle \/ b - Weight(e, out) <= MaxBytes)
    BY EvictedFits
  <1>2. entry' = Without(e, out) /\ bytes' = b - Weight(e, out)
    BY DEF Trimmed
  <1>3. out \subseteq Present(e)
    BY <1>1
  <1>4. /\ Book(entry', bytes') /\ Present(entry') = Present(e) \ out
        /\ Cardinality(Present(e) \ out) <= Cardinality(Present(e))
        /\ Cardinality(Present(e) \ out) \in Nat
    <2> HIDE DEF out
    <2> QED BY <1>2, <1>3, Leaves
  <1>5. bytes' <= MaxBytes
    <2>1. CASE out = idle
      <3>1. Present(e) \ out = loading
        BY <1>1, <2>1 DEF Evictable, Present, Book, Entries
      <3>2. IsFiniteSet(Present(e)) /\ b = Weight(e, Present(e)) /\ \A k \in Present(e) : e[k].bytes \in Nat
        BY BookFits DEF Book
      <3>3. Weight(e, Present(e) \ out) = b - Weight(e, out)
        <4> HIDE DEF out
        <4> QED BY <1>3, <3>2, WeightParts
      <3> QED BY <1>2, <3>1, <3>3
    <2> QED BY <1>1, <1>2, <2>1
  <1>6. Cardinality(Present(entry')) <= MaxEntries
    BY <1>4, BookFits, LimitsAssumption
  <1>7. \A k \in Keys : entry'[k] = e[k] \/ (entry'[k] = None /\ Evictable(e, k))
    BY <1>1, <1>2 DEF Without
  <1> QED BY <1>4, <1>5, <1>6, <1>7 DEF Booked

LEMMA OrderedFits ==
    ASSUME NEW o \in [Keys -> SUBSET Keys], Ordered(o),
           \A k \in Keys : k \notin o[k], \A k \in Keys : \A j \in o[k] : o[j] \subseteq o[k]
    PROVE  Ranked'
  <1>1. PICK left \in SUBSET Keys : left = Present(entry')
    BY DEF Present
  <1>2. older' = [k \in Keys |-> IF k \in left THEN o[k] \cap left ELSE {}]
    BY <1>1 DEF Ordered
  <1>3. older' \in [Keys -> SUBSET Keys]
    BY <1>2
  <1>4. \A k \in Keys : older'[k] \subseteq left \ {k}
    BY <1>2
  <1>5. \A k \in Keys : \A j \in older'[k] : older'[j] \subseteq older'[k]
    BY <1>2
  <1> QED BY <1>1, <1>3, <1>4, <1>5 DEF Ranked

LEMMA KeepsOrder == ASSUME Ranked, Ordered(older) PROVE Ranked'
  BY OrderedFits DEF Ranked

LEMMA TouchOrders == ASSUME Ranked, NEW k \in Keys, Ordered(Touched(k)) PROVE Ranked'
  <1>1. PICK o \in [Keys -> SUBSET Keys] : o = Touched(k)
    BY DEF Touched, Ranked, Present
  <1>2. \A i \in Keys : o[i] = (IF i = k THEN Present(entry) ELSE older[i]) \ {k}
    BY <1>1 DEF Touched
  <1>3. \A i \in Keys : i \notin o[i]
    BY <1>2 DEF Ranked
  <1>4. \A i \in Keys : \A j \in o[i] : o[j] \subseteq o[i]
    BY <1>2 DEF Ranked, Present
  <1> QED BY <1>1, <1>3, <1>4, OrderedFits

\* The entries stay, and weigh what they did.
LEMMA SameBooks ==
    ASSUME Booked, entry' \in Entries, bytes' = bytes,
           \A k \in Keys : entry'[k] = None <=> entry[k] = None,
           \A k \in Present(entry) : entry'[k].bytes = entry[k].bytes
    PROVE  Booked' /\ Present(entry)' = Present(entry)
  <1>1. Present(entry') = Present(entry)
    BY DEF Present
  <1>2. Weight(entry', Present(entry)) = Weight(entry, Present(entry))
    BY WeightSame
  <1>3. Book(entry', bytes')
    BY <1>1, <1>2 DEF Booked, Book
  <1> QED BY <1>1, <1>3 DEF Booked

\* One entry, with its load, is removed.
LEMMA OneLeaves ==
    ASSUME Booked, NEW k \in Present(entry), entry' = [entry EXCEPT ![k] = None],
           bytes' = bytes - entry[k].bytes
    PROVE  Booked'
  <1>1. PICK S \in SUBSET Present(entry) : S = {k}
    OBVIOUS
  <1>2. entry' = Without(entry, S) /\ Book(entry, bytes)
    BY <1>1 DEF Without, Booked, Book, Entries
  <1>3. bytes' = bytes - Weight(entry, S)
    BY <1>1, <1>2, BookFits, WeightOne
  <1>4. /\ Book(Without(entry, S), bytes - Weight(entry, S))
        /\ Present(Without(entry, S)) = Present(entry) \ S
        /\ bytes - Weight(entry, S) \in Nat /\ bytes - Weight(entry, S) <= bytes
        /\ Cardinality(Present(entry) \ S) \in Nat
        /\ Cardinality(Present(entry) \ S) <= Cardinality(Present(entry))
    BY <1>2, Leaves
  <1>5. bytes \in Nat /\ Cardinality(Present(entry)) \in Nat /\ MaxBytes \in Nat /\ MaxEntries \in Nat
    BY <1>2, BookFits, LimitsAssumption
  <1>6. bytes' <= MaxBytes
    BY <1>3, <1>4, <1>5 DEF Booked
  <1>7. Cardinality(Present(entry) \ S) <= MaxEntries
    BY <1>4, <1>5 DEF Booked
  <1> QED BY <1>2, <1>3, <1>4, <1>6, <1>7 DEF Booked

LEMMA Attachment ==
    ASSUME TypeOK, Versions, NEW l \in Loads, Current(l)
    PROVE  /\ load[l].key \in Present(entry) /\ entry[load[l].key] \in Entry
           /\ entry[load[l].key].load = l /\ load[l].phase # "free"
           /\ load[l].saw # None => load[l].saw >= floor[load[l].key]
  <1>1. PICK k \in Present(entry) : entry[k].load = l
    BY DEF Current, Attached
  <1>2. k \in Keys /\ entry[k] # None /\ entry[k].load # None
    BY <1>1, NoneIs DEF Present
  <1>3. Upheld(k)
    BY <1>2 DEF Versions
  <1>4. load[l].key = k
    BY <1>1, <1>2, <1>3 DEF Upheld
  <1>5. entry[k] \in Entry
    BY <1>2 DEF TypeOK
  <1> QED BY <1>1, <1>2, <1>3, <1>4, <1>5 DEF Upheld

LEMMA InvalidatedBooks == ASSUME Booked, Ranked, NEW S, Invalidated(S) PROVE Booked' /\ Ranked'
  <1>1. PICK T \in SUBSET Present(entry) : T = S \cap Present(entry)
    OBVIOUS
  <1>2. entry' = Without(entry, T) /\ Book(entry, bytes) /\ bytes' = bytes - Weight(entry, T)
    BY <1>1 DEF Invalidated, Without, Present, Booked, Book, Entries
  <1>3. /\ Book(Without(entry, T), bytes - Weight(entry, T))
        /\ Present(Without(entry, T)) = Present(entry) \ T
        /\ bytes - Weight(entry, T) \in Nat /\ bytes - Weight(entry, T) <= bytes
        /\ Cardinality(Present(entry) \ T) \in Nat
        /\ Cardinality(Present(entry) \ T) <= Cardinality(Present(entry))
    BY <1>2, Leaves
  <1>4. bytes \in Nat /\ Cardinality(Present(entry)) \in Nat /\ MaxBytes \in Nat /\ MaxEntries \in Nat
    BY <1>2, BookFits, LimitsAssumption
  <1>5. bytes' <= MaxBytes /\ Cardinality(Present(entry) \ T) <= MaxEntries
    BY <1>2, <1>3, <1>4 DEF Booked
  <1>6. Ranked'
    BY KeepsOrder DEF Invalidated
  <1> QED BY <1>2, <1>3, <1>5, <1>6 DEF Booked

LEMMA PruneBooks ==
    ASSUME Booked, Ranked, Prune
    PROVE  /\ Booked' /\ Ranked'
           /\ \A k \in Keys : entry'[k] = entry[k] \/ (entry'[k] = None /\ Evictable(entry, k))
  <1> DEFINE old == {k \in Present(entry) : entry[k].load = None /\ entry[k].age = "expired"}
  <1>1. PICK T \in SUBSET Present(entry) : T = old
    OBVIOUS
  <1>2. PICK e : e = Without(entry, T)
    OBVIOUS
  <1>3. PICK b : b = bytes - Weight(entry, T)
    OBVIOUS
  <1>4. Trimmed(e, b, 0) /\ Ordered(older)
    BY <1>1, <1>2, <1>3 DEF Prune
  <1>5. Book(entry, bytes) /\ IsFiniteSet(Present(entry))
    BY DEF Booked, Book
  <1>6. /\ Book(e, b) /\ Present(e) = Present(entry) \ T /\ b \in Nat /\ b <= bytes
        /\ Cardinality(Present(e)) \in Nat /\ Cardinality(Present(e)) <= Cardinality(Present(entry))
    BY <1>2, <1>3, <1>5, Leaves
  <1>7. bytes \in Nat /\ Cardinality(Present(entry)) \in Nat /\ MaxBytes \in Nat /\ MaxEntries \in Nat
    BY <1>5, BookFits, LimitsAssumption
  <1>8. PICK U \in SUBSET Present(e) : U = {k \in Present(e) : e[k].load # None}
    OBVIOUS
  <1>9. /\ Weight(e, U) \in Nat /\ Weight(e, Present(e) \ U) \in Nat
        /\ Weight(e, Present(e) \ U) = b - Weight(e, U)
    <2>1. IsFiniteSet(Present(e)) /\ b = Weight(e, Present(e)) /\ \A k \in Present(e) : e[k].bytes \in Nat
      BY <1>6, BookFits DEF Book
    <2> QED BY <2>1, WeightParts
  <1>10. Weight(e, U) <= MaxBytes /\ Cardinality(Present(e)) <= MaxEntries
    BY <1>6, <1>7, <1>9 DEF Booked
  <1>11. Booked' /\ \A k \in Keys : entry'[k] = e[k] \/ (entry'[k] = None /\ Evictable(e, k))
    BY <1>4, <1>6, <1>8, <1>10, TrimmedFits
  <1>12. \A k \in Keys : \/ e[k] = entry[k] /\ (Evictable(e, k) => Evictable(entry, k))
                         \/ e[k] = None /\ Evictable(entry, k)
    BY <1>1, <1>2 DEF Without, Present, Evictable
  <1>13. \A k \in Keys : ~(e[k] = None /\ Evictable(e, k))
    BY DEF Evictable
  <1> QED BY <1>4, <1>11, <1>12, KeepsOrder

LEMMA AgeBooks == ASSUME Booked, Ranked, NEW k \in Keys, Age(k) PROVE Booked' /\ Ranked'
  <1>1. /\ entry \in Entries /\ entry[k] \in Entry /\ k \in Present(entry)
        /\ UNCHANGED <<older, bytes>>
    BY DEF Age, Present, Booked, Book, Entries
  <1>2. PICK n \in Entry : entry' = [entry EXCEPT ![k] = n] /\ n.bytes = entry[k].bytes
    <2>1. PICK n \in Entry : n = entry[k]
      BY <1>1
    <2>2. /\ [n EXCEPT !.age = "stale"] \in Entry /\ [n EXCEPT !.age = "stale"].bytes = n.bytes
          /\ [n EXCEPT !.cooling = FALSE] \in Entry /\ [n EXCEPT !.cooling = FALSE].bytes = n.bytes
          /\ [n EXCEPT !.age = "expired", !.cooling = FALSE] \in Entry
          /\ [n EXCEPT !.age = "expired", !.cooling = FALSE].bytes = n.bytes
      BY DEF Entry
    <2>3. \/ entry' = [entry EXCEPT ![k] = [n EXCEPT !.age = "stale"]]
          \/ entry' = [entry EXCEPT ![k] = [n EXCEPT !.cooling = FALSE]]
          \/ entry' = [entry EXCEPT ![k] = [n EXCEPT !.age = "expired", !.cooling = FALSE]]
      BY <1>1, <2>1 DEF Age, Entries
    <2> QED BY <2>1, <2>2, <2>3
  <1>3. entry' \in Entries
    BY <1>1, <1>2 DEF Entries
  <1>4. \A j \in Keys : entry'[j] = None <=> entry[j] = None
    BY <1>1, <1>2, NoneIs DEF Entries, Present
  <1>5. \A j \in Present(entry) : entry'[j].bytes = entry[j].bytes
    BY <1>1, <1>2 DEF Entries, Present
  <1>6. Booked' /\ Present(entry)' = Present(entry)
    BY <1>1, <1>3, <1>4, <1>5, SameBooks
  <1> QED BY <1>1, <1>6 DEF Ranked

\* An entry takes a load, or gives it back.
LEMMA LoadBooks ==
    ASSUME Booked, NEW k \in Present(entry), NEW x \in Loads \cup {None}, NEW c \in BOOLEAN,
           UNCHANGED bytes,
           \/ entry' = [entry EXCEPT ![k].load = x]
           \/ entry' = [entry EXCEPT ![k].load = x, ![k].cooling = c]
    PROVE  Booked'
  <1>1. /\ entry \in Entries /\ k \in Keys /\ entry[k] \in Entry
    BY DEF Present, Booked, Book, Entries
  <1>2. PICK n \in Entry : entry' = [entry EXCEPT ![k] = n] /\ n.bytes = entry[k].bytes
    <2>1. PICK n \in Entry : n = entry[k]
      BY <1>1
    <2>2. /\ [n EXCEPT !.load = x] \in Entry /\ [n EXCEPT !.load = x].bytes = n.bytes
          /\ [n EXCEPT !.load = x, !.cooling = c] \in Entry
          /\ [n EXCEPT !.load = x, !.cooling = c].bytes = n.bytes
      BY DEF Entry
    <2>3. \/ entry' = [entry EXCEPT ![k] = [n EXCEPT !.load = x]]
          \/ entry' = [entry EXCEPT ![k] = [n EXCEPT !.load = x, !.cooling = c]]
      BY <1>1, <2>1 DEF Entries
    <2> QED BY <2>1, <2>2, <2>3
  <1>3. entry' \in Entries
    BY <1>1, <1>2 DEF Entries
  <1>4. \A j \in Keys : entry'[j] = None <=> entry[j] = None
    BY <1>1, <1>2, NoneIs DEF Entries, Present
  <1>5. \A j \in Present(entry) : entry'[j].bytes = entry[j].bytes
    BY <1>1, <1>2 DEF Entries, Present
  <1> QED BY <1>3, <1>4, <1>5, SameBooks

LEMMA FailedBooks == ASSUME TypeOK, Booked, Ranked, Versions, NEW l \in Loads, Failed(l) PROVE Booked' /\ Ranked'
  <1>1. Ranked'
    BY KeepsOrder DEF Failed
  <1>2. CASE ~Current(l)
    BY <1>1, <1>2 DEF Failed, Booked
  <1>3. CASE Current(l)
    <2>1. PICK k \in Present(entry) : k = load[l].key
      BY <1>3, Attachment
    <2>2. \/ entry' = [entry EXCEPT ![k] = None] /\ bytes' = bytes - entry[k].bytes
          \/ entry' = [entry EXCEPT ![k].load = None, ![k].cooling = Usable(k)] /\ UNCHANGED bytes
      BY <1>3, <2>1 DEF Failed
    <2>3. PICK c \in BOOLEAN : c = Usable(k)
      BY DEF Usable
    <2> QED BY <1>1, <2>2, <2>3, OneLeaves, LoadBooks
  <1> QED BY <1>1, <1>2, <1>3

LEMMA StoredBooks ==
    ASSUME TypeOK, Booked, Ranked, Versions, NEW l \in Loads, NEW size \in Sizes, Stored(l, size),
           load[l].saw # None
    PROVE  /\ Booked'
           /\ Current(l) => \E n \in Entry :
                /\ n.value = load[l].saw /\ n.load = None
                /\ \A k \in Keys : LET e == [entry EXCEPT ![load[l].key] = n]
                                   IN  entry'[k] = e[k] \/ (entry'[k] = None /\ Evictable(e, k))

  <1>1. CASE ~Current(l)
    BY <1>1 DEF Stored, Booked
  <1>2. CASE Current(l)
    <2>1. PICK k \in Present(entry) : k = load[l].key
      BY <1>2, Attachment
    <2>2. /\ entry \in Entries /\ k \in Keys /\ entry[k] \in Entry /\ Book(entry, bytes)
          /\ load[l].saw \in Version /\ size \in Nat /\ IsFiniteSet(Present(entry))
      BY LimitsAssumption DEF Present, Booked, Book, Entries, TypeOK, Load
    <2>3. PICK n \in Entry : n = [value |-> load[l].saw, bytes |-> size, age |-> "fresh",
                                  cooling |-> FALSE, load |-> None]
      BY <2>2 DEF Entry
    <2>4. n.value = load[l].saw /\ n.load = None /\ n.bytes = size
      BY <2>3
    <2>5. PICK e \in Entries : e = [entry EXCEPT ![k] = n]
      BY <2>2 DEF Entries
    <2>6. e[k] = n /\ \A j \in Keys \ {k} : e[j] = entry[j]
      BY <2>2, <2>5 DEF Entries
    <2>7. CASE size > MaxBytes
      <3>1. entry' = [entry EXCEPT ![k] = None] /\ bytes' = bytes - entry[k].bytes
        BY <1>2, <2>1, <2>7 DEF Stored
      <3>2. \A j \in Keys : entry'[j] = e[j] \/ (entry'[j] = None /\ Evictable(e, j))
        BY <2>2, <2>4, <2>6, <3>1, NoneIs DEF Evictable, Entries
      <3>3. Booked'
        BY <3>1, OneLeaves
      <3> QED BY <2>1, <2>4, <2>5, <3>2, <3>3
    <2>8. CASE ~(size > MaxBytes)
      <3>1. PICK b : b = bytes - entry[k].bytes + size
        OBVIOUS
      <3>2. Trimmed(e, b, 0)
        BY <1>2, <2>1, <2>3, <2>5, <2>8, <3>1 DEF Stored
      <3>3. Present(e) = Present(entry)
        BY <2>1, <2>6, NoneIs DEF Present
      <3>4. PICK S \in SUBSET Present(entry) : S = Present(entry) \ {k}
        OBVIOUS
      <3>5. /\ bytes = Weight(entry, Present(entry)) /\ \A j \in Present(entry) : entry[j].bytes \in Nat
            /\ bytes \in Nat /\ Cardinality(Present(entry)) \in Nat
        BY <2>2, BookFits DEF Book
      <3>6. IsFiniteSet({k}) /\ S \cap {k} = {} /\ S \cup {k} = Present(entry) /\ IsFiniteSet(S)
        BY <2>2, <3>4, FS_Singleton, FS_Subset
      <3>7. Weight(entry, S \cup {k}) = Weight(entry, S) + Weight(entry, {k}) /\ Weight(entry, S) \in Nat
        <4>1. \A j \in S \cup {k} : entry[j].bytes \in Nat
          BY <3>5, <3>6
        <4> QED BY <3>6, <4>1, WeightAdds, WeightIs
      <3>8. \A j \in S \cup {k} : e[j].bytes \in Nat
        BY <2>2, <2>4, <2>6, <3>5, <3>6 DEF Present
      <3>9. Weight(e, S \cup {k}) = Weight(e, S) + Weight(e, {k})
        BY <3>6, <3>8, WeightAdds
      <3>10. Weight(e, S) = Weight(entry, S)
        <4>1. \A j \in S : e[j].bytes = entry[j].bytes
          BY <2>6, <3>4 DEF Present
        <4> QED BY <4>1, WeightSame
      <3>11. Weight(entry, {k}) = entry[k].bytes /\ Weight(e, {k}) = size /\ entry[k].bytes \in Nat
        BY <2>2, <2>4, <2>6, <3>5, WeightOne
      <3>12. /\ Weight(entry, S \cup {k}) = Weight(entry, Present(entry))
             /\ Weight(e, S \cup {k}) = Weight(e, Present(e))
        BY <3>3, <3>6
      <3>13. bytes = Weight(entry, S) + entry[k].bytes /\ Weight(e, Present(e)) = Weight(entry, S) + size
        BY <3>5, <3>7, <3>9, <3>10, <3>11, <3>12
      <3>14. b = Weight(e, Present(e))
        BY <2>2, <3>1, <3>5, <3>7, <3>11, <3>13
      <3>15. Book(e, b)
        BY <2>2, <3>3, <3>14 DEF Book
      <3>16. PICK U \in SUBSET S : U = {j \in Present(e) : e[j].load # None}
        BY <2>4, <2>6, <3>3, <3>4
      <3>17. Weight(e, U) <= MaxBytes
        <4>1. /\ Weight(e, S) \in Nat /\ Weight(e, U) \in Nat /\ Weight(e, S \ U) \in Nat
              /\ Weight(e, S \ U) = Weight(e, S) - Weight(e, U)
          <5>1. \A j \in S : e[j].bytes \in Nat
            BY <3>8
          <5> QED BY <3>6, <5>1, WeightParts
        <4>2. Weight(e, S) <= bytes /\ bytes <= MaxBytes /\ MaxBytes \in Nat
          BY <3>7, <3>10, <3>11, <3>13, LimitsAssumption DEF Booked
        <4> QED BY <3>5, <4>1, <4>2
      <3>18. Cardinality(Present(e)) <= MaxEntries
        BY <3>3 DEF Booked
      <3>19. Booked' /\ \A j \in Keys : entry'[j] = e[j] \/ (entry'[j] = None /\ Evictable(e, j))
        BY <3>2, <3>15, <3>16, <3>17, <3>18, TrimmedFits
      <3> QED BY <2>1, <2>4, <2>5, <3>19
    <2> QED BY <2>7, <2>8
  <1> QED BY <1>1, <1>2

\* A new entry weighs nothing yet.
LEMMA Enters ==
    ASSUME NEW e, NEW b, Book(e, b), NEW k \in Keys, e[k] = None, NEW n \in Entry, n.bytes = 0
    PROVE  /\ Book([e EXCEPT ![k] = n], b)
           /\ Cardinality(Present([e EXCEPT ![k] = n])) = Cardinality(Present(e)) + 1
  <1>1. PICK f \in Entries : f = [e EXCEPT ![k] = n]
    BY DEF Book, Entries
  <1>2. f[k] = n /\ \A j \in Keys \ {k} : f[j] = e[j]
    BY <1>1 DEF Book, Entries
  <1>3. Present(f) = Present(e) \cup {k} /\ k \notin Present(e)
    BY <1>2, NoneIs DEF Present
  <1>4. IsFiniteSet(Present(e)) /\ IsFiniteSet({k}) /\ Present(e) \cap {k} = {}
    BY <1>3, FS_Singleton DEF Book
  <1>5. IsFiniteSet(Present(f)) /\ Cardinality(Present(f)) = Cardinality(Present(e)) + 1
    BY <1>3, <1>4, FS_AddElement
  <1>6. \A j \in Present(e) \cup {k} : f[j].bytes \in Nat
    <2>1. \A j \in Present(e) : e[j].bytes \in Nat /\ f[j] = e[j]
      BY <1>2, <1>3, BookFits DEF Present
    <2>2. f[k].bytes = 0
      BY <1>2
    <2> QED BY <2>1, <2>2
  <1>7. Weight(f, Present(e) \cup {k}) = Weight(f, Present(e)) + Weight(f, {k})
    BY <1>4, <1>6, WeightAdds
  <1>8. Weight(f, {k}) = 0
    BY <1>2, WeightOne
  <1>9. Weight(f, Present(e)) = Weight(e, Present(e))
    <2>1. \A j \in Present(e) : f[j].bytes = e[j].bytes
      BY <1>2, <1>3 DEF Present
    <2> QED BY <2>1, WeightSame
  <1>10. Weight(f, Present(f)) = Weight(f, Present(e) \cup {k})
    BY <1>3
  <1>11. b = Weight(f, Present(f))
    <2>1. b = Weight(e, Present(e)) /\ b \in Nat
      BY BookFits DEF Book
    <2> QED BY <1>7, <1>8, <1>9, <1>10, <2>1
  <1> QED BY <1>1, <1>5, <1>11 DEF Book

\* What a get does to the entries of the other keys.
LEMMA GetBooks ==
    ASSUME Booked, Ranked, NEW c \in Callers, NEW k \in Keys, Get(c, k)
    PROVE  /\ Booked' /\ Ranked'
           /\ GetLoaded(c, k) /\ entry[k] = None =>
                /\ \A j \in Keys \ {k} : entry'[j] = entry[j] \/ (entry'[j] = None /\ Evictable(entry, j))
                /\ \/ entry'[k] = None /\ UNCHANGED <<callerVars, load>>
                   \/ \E l \in Loads : /\ entry'[k] = [NewEntry EXCEPT !.load = l]
                                       /\ FreeLoad(l) /\ Called(l, k) /\ Await(c, k, l)
  <1>1. Ranked'
    BY TouchOrders DEF Get
  <1>2. CASE GetCached(c, k) \/ GetJoined(c, k)
    BY <1>1, <1>2 DEF GetCached, GetJoined, GetLoaded, Booked, Usable, Loading
  <1>3. CASE GetStale(c, k)
    <2>1. k \in Present(entry) /\ ~GetLoaded(c, k) /\ UNCHANGED bytes
      BY <1>3 DEF GetStale, GetLoaded, Usable, Present
    <2>2. PICK l \in Loads : entry' = [entry EXCEPT ![k].load = l]
      BY <1>3 DEF GetStale
    <2> QED BY <1>1, <2>1, <2>2, LoadBooks
  <1>4. CASE GetLoaded(c, k) /\ entry[k] # None
    <2>1. k \in Present(entry)
      BY <1>4 DEF Present
    <2>2. PICK l \in Loads : entry' = [entry EXCEPT ![k].load = l] /\ UNCHANGED bytes
      BY <1>4 DEF GetLoaded
    <2> QED BY <1>1, <1>4, <2>1, <2>2, LoadBooks
  <1>5. CASE GetLoaded(c, k) /\ entry[k] = None
    <2>1. PICK out : out = Evicted(entry, bytes, 1)
      OBVIOUS
    <2>2. PICK kept : kept = Without(entry, out)
      OBVIOUS
    <2>3. PICK l \in Loads :
            /\ FreeLoad(l) /\ bytes' = bytes - Weight(entry, out)
            /\ \/ entry' = kept /\ UNCHANGED <<callerVars, load>>
               \/ /\ ~(Cardinality(Present(kept)) >= MaxEntries)
                  /\ entry' = [kept EXCEPT ![k] = [NewEntry EXCEPT !.load = l]]
                  /\ Called(l, k) /\ Await(c, k, l)
      BY <1>5, <2>1, <2>2 DEF GetLoaded
    <2>4. out \subseteq Present(entry) /\ Book(entry, bytes) /\ \A j \in out : Evictable(entry, j)
      BY <2>1, EvictedFits DEF Booked
    <2>5. /\ Book(kept, bytes') /\ Present(kept) = Present(entry) \ out
          /\ bytes' \in Nat /\ bytes' <= bytes
          /\ Cardinality(Present(kept)) \in Nat
          /\ Cardinality(Present(kept)) <= Cardinality(Present(entry))
      <3>1. /\ Book(Without(entry, out), bytes - Weight(entry, out))
            /\ Present(Without(entry, out)) = Present(entry) \ out
            /\ bytes - Weight(entry, out) \in Nat /\ bytes - Weight(entry, out) <= bytes
            /\ Cardinality(Present(entry) \ out) \in Nat
            /\ Cardinality(Present(entry) \ out) <= Cardinality(Present(entry))
        BY <2>4, Leaves
      <3> QED BY <2>2, <2>3, <3>1
    <2>6. bytes \in Nat /\ Cardinality(Present(entry)) \in Nat /\ MaxBytes \in Nat /\ MaxEntries \in Nat
      BY <2>4, BookFits, LimitsAssumption
    <2>7. bytes' <= MaxBytes
      BY <2>5, <2>6 DEF Booked
    <2>8. kept \in Entries /\ kept[k] = None
          /\ \A j \in Keys : kept[j] = entry[j] \/ (kept[j] = None /\ Evictable(entry, j))
      BY <1>5, <2>2, <2>4, <2>5 DEF Without, Book
    <2>9. CASE entry' = kept /\ UNCHANGED <<callerVars, load>>
      <3>1. Booked'
        BY <2>5, <2>6, <2>7, <2>9 DEF Booked
      <3> QED BY <1>1, <1>5, <2>8, <2>9, <3>1
    <2>10. CASE /\ ~(Cardinality(Present(kept)) >= MaxEntries)
                /\ entry' = [kept EXCEPT ![k] = [NewEntry EXCEPT !.load = l]]
                /\ Called(l, k) /\ Await(c, k, l)
      <3>1. PICK n \in Entry : n = [NewEntry EXCEPT !.load = l] /\ n.bytes = 0
        <4>1. /\ [NewEntry EXCEPT !.load = l] \in Entry
              /\ [NewEntry EXCEPT !.load = l].bytes = 0
          BY DEF NewEntry, Entry
        <4> QED BY <4>1
      <3>2. entry' = [kept EXCEPT ![k] = n]
        BY <2>10, <3>1
      <3>3. Book([kept EXCEPT ![k] = n], bytes')
            /\ Cardinality(Present([kept EXCEPT ![k] = n])) = Cardinality(Present(kept)) + 1
        BY <2>5, <2>8, <3>1, Enters
      <3>4. Book(entry', bytes') /\ Cardinality(Present(entry')) = Cardinality(Present(kept)) + 1
        BY <3>2, <3>3
      <3>5. Booked'
        BY <2>5, <2>6, <2>7, <2>10, <3>4 DEF Booked
      <3>6. entry'[k] = [NewEntry EXCEPT !.load = l] /\ \A j \in Keys \ {k} : entry'[j] = kept[j]
        BY <2>8, <2>10 DEF Entries
      <3> QED BY <1>1, <2>3, <2>8, <2>10, <3>5, <3>6
    <2> QED BY <2>3, <2>9, <2>10
  <1> QED BY <1>2, <1>3, <1>4, <1>5 DEF Get

-----------------------------------------------------------------------------
(* The versions, operation by operation. *)

Fits == TypeOK /\ Versions

LEMMA BookedType == ASSUME Booked' PROVE entry' \in [Keys -> {None} \cup Entry]
  BY DEF Booked, Book, Entries

\* Entries that do not load may go, the others keep value and load.
Settles(k) ==
    \/ entry'[k] = None /\ (entry[k] = None \/ Evictable(entry, k))
    \/ /\ entry[k] # None /\ entry'[k] # None
       /\ entry'[k].value = entry[k].value /\ entry'[k].load = entry[k].load

LEMMA StillAttached ==
    ASSUME NEW l \in Loads, Attached(l), NEW x \in Loads \cup {None}, x # l,
           \A k \in Keys : Settles(k) \/ entry[k] = None \/ entry[k].load \in {None, x}
    PROVE  Attached(l)'
  <1>1. PICK k \in Present(entry) : entry[k].load = l
    BY DEF Attached
  <1>2. entry'[k] # None /\ entry'[k].load = l
    BY <1>1, NoneIs DEF Settles, Evictable, Present
  <1> QED BY <1>1, <1>2 DEF Attached, Present

LEMMA SettlesFits ==
    ASSUME Fits, Booked', \A k \in Keys : Settles(k), UNCHANGED <<load, callerVars, dbVars>>
    PROVE  Fits'
  <1>1. TypeOK'
    BY BookedType DEF Fits, TypeOK, callerVars, dbVars
  <1>2. \A k \in Keys : Upheld(k)'
    BY DEF Fits, Versions, Upheld, Settles, dbVars
  <1>3. \A c \in Callers : Served(c)'
    BY DEF Fits, Versions, Served, callerVars, dbVars
  <1>4. OneLoadPerKey'
    BY StillAttached, NoneIs DEF Fits, Versions, OneLoadPerKey
  <1> QED BY <1>1, <1>2, <1>3, <1>4 DEF Fits, Versions, ReadYourWrites, callerVars

LEMMA FreeIs == Free \in Load /\ Free.phase = "free" /\ Free.saw = None /\ Free.cleared = FALSE
  BY DEF Free, Load

\* A load is started for a key that has none.
LEMMA StartsFits ==
    ASSUME Fits, Booked', NEW l \in Loads, NEW k \in Keys, FreeLoad(l), Called(l, k), UNCHANGED dbVars,
           outdated' = outdated,
           entry[k] = None \/ entry[k].load = None,
           entry'[k] # None, entry'[k].load = l,
           entry'[k].value = None \/ (entry[k] # None /\ entry'[k].value = entry[k].value),
           \A j \in Keys \ {k} : Settles(j),
           caller' = caller \/ \E c \in Callers : Await(c, k, l)
    PROVE  Fits'
  <1>1. PICK n \in Load : n = [Free EXCEPT !.phase = "called", !.key = k]
    <2>1. [Free EXCEPT !.phase = "called", !.key = k] \in Load
      BY DEF Free, Load
    <2> QED BY <2>1
  <1>2. n.phase = "called" /\ n.key = k /\ n.saw = None /\ n.cleared = FALSE
    BY <1>1, FreeIs DEF Free
  <1>3. load \in [Loads -> Load] /\ load' = [load EXCEPT ![l] = n]
    BY <1>1 DEF Called, Fits, TypeOK
  <1>4. load' \in [Loads -> Load] /\ load'[l] = n /\ \A m \in Loads \ {l} : load'[m] = load[m]
    BY <1>3
  <1>5. load[l].phase = "free"
    BY FreeIs DEF FreeLoad
  <1>6. caller' \in [Callers -> [load : Loads \cup {None}, need : Version]]
    BY DEF Fits, TypeOK, Await, dbVars
  <1>7. TypeOK'
    BY <1>4, <1>6, BookedType DEF Fits, TypeOK, dbVars
  <1>8. ASSUME NEW j \in Keys PROVE Upheld(j)'
    <2>1. Upheld(j) /\ floor'[j] = floor[j] /\ db' = db
      BY DEF Fits, Versions, dbVars
    <2>2. CASE j = k
      BY <1>2, <1>4, <2>1, <2>2, NoneIs DEF Upheld
    <2>3. CASE j # k
      <3>1. Settles(j)
        BY <2>3
      <3>2. entry'[j] # None /\ entry'[j].load # None => entry[j].load \in Loads \ {l}
        BY <1>5, <2>1, <3>1 DEF Settles, Upheld, Fits, TypeOK, Entry
      <3> QED BY <1>4, <2>1, <3>1, <3>2 DEF Settles, Upheld
    <2> QED BY <2>2, <2>3
  <1>9. ASSUME NEW c \in Callers PROVE Served(c)'
    <2>1. Served(c) /\ caller[c] \in [load : Loads \cup {None}, need : Version] /\ floor' = floor /\ db' = db
      BY DEF Fits, Versions, TypeOK, dbVars
    <2>2. CASE caller'[c] = caller[c]
      <3>1. caller[c].load # None => caller[c].load \in Loads \ {l}
        BY <1>5, <2>1 DEF Served
      <3> QED BY <1>4, <2>1, <2>2, <3>1 DEF Served
    <2>3. CASE caller'[c] = [load |-> l, need |-> floor[k]]
      <3>1. floor[k] <= db
        BY DEF Fits, Versions, Upheld
      <3> QED BY <1>2, <1>4, <2>1, <2>3, <3>1 DEF Served
    <2> QED BY <2>2, <2>3 DEF Await, Fits, TypeOK
  <1>10. ASSUME NEW m \in Loads, load'[m].phase # "free" PROVE Attached(m)' \/ load'[m].cleared
    <2>1. CASE m = l
      BY <2>1 DEF Attached, Present
    <2>2. CASE m # l
      <3>1. Attached(m) \/ load[m].cleared
        BY <1>4, <1>10, <2>2 DEF Fits, Versions, OneLoadPerKey
      <3>2. \A j \in Keys : Settles(j) \/ entry[j] = None \/ entry[j].load \in {None, l}
        OBVIOUS
      <3> QED BY <1>4, <2>2, <3>1, <3>2, StillAttached
    <2> QED BY <2>1, <2>2
  <1> QED BY <1>7, <1>8, <1>9, <1>10 DEF Fits, Versions, OneLoadPerKey, ReadYourWrites

LEMMA GetFits ==
    ASSUME Fits, Booked, Ranked, NEW c \in Callers, NEW k \in Keys, Get(c, k)
    PROVE  Fits' /\ Booked' /\ Ranked'
  <1>1. Booked' /\ Ranked' /\ UNCHANGED dbVars
    BY GetBooks DEF Get
  <1>2. Upheld(k) /\ entry \in [Keys -> {None} \cup Entry]
    BY DEF Fits, Versions, TypeOK
  <1>3. ASSUME UNCHANGED <<entry, load>>, outdated' = outdated, caller' = caller PROVE Fits'
    <2>1. \A j \in Keys : Settles(j)
      BY <1>3 DEF Settles
    <2> QED BY <1>1, <1>3, <2>1, SettlesFits DEF callerVars
  <1>4. CASE GetCached(c, k)
    <2>1. entry[k].value \in Nat /\ floor[k] \in Nat /\ entry[k].value >= floor[k]
      BY <1>2, <1>4, NoneIs DEF GetCached, Usable, Upheld, Entry, Fits, TypeOK
    <2>2. outdated' = outdated
      BY <1>4, <2>1 DEF GetCached, Answer
    <2> QED BY <1>1, <1>3, <1>4, <2>2 DEF GetCached
  <1>5. CASE GetStale(c, k)
    <2>1. entry[k].value \in Nat /\ floor[k] \in Nat /\ entry[k].value >= floor[k] /\ entry[k] \in Entry
      BY <1>2, <1>5, NoneIs DEF GetStale, Usable, Upheld, Entry, Fits, TypeOK
    <2>2. outdated' = outdated /\ caller' = caller
      BY <1>5, <2>1 DEF GetStale, Answer
    <2>3. PICK l \in Loads : FreeLoad(l) /\ Called(l, k) /\ entry' = [entry EXCEPT ![k].load = l]
      BY <1>5 DEF GetStale
    <2>4. /\ entry'[k] # None /\ entry'[k].load = l /\ entry'[k].value = entry[k].value
          /\ entry[k] # None /\ entry[k].load = None
      BY <1>1, <1>2, <1>5, <2>1, <2>3, BookedType, NoneIs DEF GetStale, Usable, Loading, Entry
    <2>5. \A j \in Keys \ {k} : Settles(j)
      BY <1>2, <2>3 DEF Settles
    <2> QED BY <1>1, <2>2, <2>3, <2>4, <2>5, StartsFits
  <1>6. CASE GetJoined(c, k)
    <2>1. PICK l \in Loads : l = entry[k].load
      BY <1>2, <1>6 DEF GetJoined, Loading, Entry
    <2>2. /\ caller' = [caller EXCEPT ![c] = [load |-> l, need |-> floor[k]]]
          /\ outdated' = outdated /\ UNCHANGED <<entry, load, dbVars>>
      BY <1>1, <1>6, <2>1 DEF GetJoined, Await
    <2>3. /\ load[l].phase # "free" /\ floor[k] <= db
          /\ load[l].saw # None => load[l].saw >= floor[k]
      BY <1>2, <1>6, <2>1 DEF GetJoined, Loading, Upheld
    <2>4. caller' \in [Callers -> [load : Loads \cup {None}, need : Version]]
      BY <2>2 DEF Fits, TypeOK
    <2>5. ASSUME NEW d \in Callers PROVE Served(d)'
      <3>1. Served(d)
        BY DEF Fits, Versions
      <3>2. CASE d = c
        <4>1. caller'[d] = [load |-> l, need |-> floor[k]]
          BY <2>2, <3>2 DEF Fits, TypeOK
        <4> QED BY <2>2, <2>3, <4>1 DEF Served, dbVars
      <3>3. CASE d # c
        BY <2>2, <3>1, <3>3 DEF Served, dbVars, Fits, TypeOK
      <3> QED BY <3>2, <3>3
    <2>6. TypeOK' /\ \A j \in Keys : Upheld(j)'
      BY <2>2, <2>4 DEF Fits, TypeOK, Versions, Upheld, dbVars
    <2>7. OneLoadPerKey' /\ ReadYourWrites'
      BY <2>2 DEF Fits, Versions, OneLoadPerKey, ReadYourWrites, Attached, Present
    <2> QED BY <1>1, <2>5, <2>6, <2>7 DEF Fits, Versions
  <1>7. CASE GetLoaded(c, k) /\ entry[k] # None
    <2>1. PICK l \in Loads : /\ FreeLoad(l) /\ Called(l, k) /\ Await(c, k, l)
                             /\ entry' = [entry EXCEPT ![k].load = l]
      BY <1>7 DEF GetLoaded
    <2>2. /\ entry'[k] # None /\ entry'[k].load = l /\ entry'[k].value = entry[k].value
          /\ entry[k] # None /\ entry[k].load = None
      BY <1>1, <1>2, <1>7, <2>1, BookedType, NoneIs DEF GetLoaded, Loading, Entry
    <2>3. \A j \in Keys \ {k} : Settles(j)
      BY <1>2, <2>1 DEF Settles
    <2>4. outdated' = outdated
      BY <2>1 DEF Await
    <2> QED BY <1>1, <2>1, <2>2, <2>3, <2>4, StartsFits
  <1>8. CASE GetLoaded(c, k) /\ entry[k] = None
    <2>1. \A j \in Keys \ {k} : Settles(j)
      BY <1>8, GetBooks DEF Settles
    <2>2. CASE entry'[k] = None /\ UNCHANGED <<callerVars, load>>
      <3>1. \A j \in Keys : Settles(j)
        BY <1>8, <2>1, <2>2 DEF Settles
      <3> QED BY <1>1, <2>2, <3>1, SettlesFits
    <2>3. CASE \E l \in Loads : /\ entry'[k] = [NewEntry EXCEPT !.load = l]
                                /\ FreeLoad(l) /\ Called(l, k) /\ Await(c, k, l)
      <3>1. PICK l \in Loads : /\ entry'[k] = [NewEntry EXCEPT !.load = l]
                               /\ FreeLoad(l) /\ Called(l, k) /\ Await(c, k, l)
        BY <2>3
      <3>2. entry'[k].load = l /\ entry'[k].value = None
        BY <3>1 DEF NewEntry
      <3>3. entry'[k] # None
        <4>1. [NewEntry EXCEPT !.load = l] \in Entry
          BY DEF NewEntry, Entry
        <4> QED BY <3>1, <4>1, NoneIs
      <3>4. outdated' = outdated
        BY <3>1 DEF Await
      <3> QED BY <1>1, <1>8, <2>1, <3>1, <3>2, <3>3, <3>4, StartsFits
    <2> QED BY <1>8, <2>2, <2>3, GetBooks
  <1> QED BY <1>1, <1>4, <1>5, <1>6, <1>7, <1>8 DEF Get

\* A load goes on, and has seen at most the database as it is.
LEMMA GoesOnFits ==
    ASSUME Fits, UNCHANGED <<entry, callerVars, dbVars>>, NEW l \in Loads, NEW n \in Load,
           load' = [load EXCEPT ![l] = n], n.phase # "free", load[l].phase # "free",
           n.key = load[l].key, n.cleared = load[l].cleared, n.saw \in {load[l].saw, db}
    PROVE  Fits'
  <1>1. load' \in [Loads -> Load] /\ load'[l] = n /\ \A m \in Loads \ {l} : load'[m] = load[m]
    BY DEF Fits, TypeOK
  <1>2. TypeOK'
    BY <1>1 DEF Fits, TypeOK, callerVars, dbVars
  <1>3. \A k \in Keys : Upheld(k)'
    BY <1>1 DEF Fits, Versions, Upheld, dbVars, TypeOK, Entry
  <1>4. \A c \in Callers : Served(c)'
    BY <1>1 DEF Fits, Versions, Served, callerVars, dbVars, TypeOK
  <1>5. OneLoadPerKey'
    BY <1>1 DEF Fits, Versions, OneLoadPerKey, Attached, Present
  <1> QED BY <1>2, <1>3, <1>4, <1>5 DEF Fits, Versions, ReadYourWrites, callerVars

\* The load is gone; what it leaves behind is its answer, or the old value.
Frees(l) ==
    /\ load' \in [Loads -> Load] /\ load'[l] = Free
    /\ \A m \in Loads \ {l} :
         /\ load'[m].key = load[m].key /\ load'[m].saw = load[m].saw /\ load'[m].cleared = load[m].cleared
         /\ load'[m].phase = "free" <=> load[m].phase = "free"

Leaving(l, k) ==
    \/ Settles(k) /\ (entry[k] # None /\ entry'[k] # None => entry[k].load # l)
    \/ entry'[k] = None /\ entry[k] # None /\ entry[k].load = l
    \/ /\ entry'[k] # None /\ entry'[k].load = None /\ entry[k] # None /\ entry[k].load = l
       /\ entry'[k].value # None => entry'[k].value >= floor[k]

LEMMA EndsFits ==
    ASSUME Fits, Booked', NEW l \in Loads, Frees(l), Settled(l), outdated' = outdated, UNCHANGED dbVars,
           \A k \in Keys : Leaving(l, k)
    PROVE  Fits'
  <1>1. caller' \in [Callers -> [load : Loads \cup {None}, need : Version]]
    <2>1. Idle \in [load : Loads \cup {None}, need : Version]
      BY LimitsAssumption DEF Idle, Version
    <2> QED BY <2>1 DEF Settled, Fits, TypeOK
  <1>2. TypeOK'
    BY <1>1, BookedType DEF Fits, TypeOK, dbVars, Frees
  <1>3. ASSUME NEW k \in Keys PROVE Upheld(k)'
    <2>1. Upheld(k) /\ Leaving(l, k) /\ floor' = floor /\ db' = db /\ entry[k] \in {None} \cup Entry
      BY DEF Fits, Versions, dbVars, TypeOK
    <2>2. CASE entry'[k] # None /\ Settles(k) /\ entry[k].load # l
      <3>1. entry[k] # None /\ entry'[k].value = entry[k].value /\ entry'[k].load = entry[k].load
        BY <2>2 DEF Settles
      <3>2. entry[k].load # None => entry[k].load \in Loads \ {l}
        BY <2>1, <2>2, <3>1 DEF Entry
      <3> QED BY <2>1, <3>1, <3>2 DEF Upheld, Frees
    <2>3. CASE entry'[k] # None /\ entry'[k].load = None /\ (entry'[k].value # None => entry'[k].value >= floor[k])
      BY <2>1, <2>3 DEF Upheld
    <2>4. CASE entry'[k] = None
      BY <2>1, <2>4 DEF Upheld
    <2> QED BY <2>1, <2>2, <2>3, <2>4 DEF Leaving, Settles
  <1>4. ASSUME NEW c \in Callers PROVE Served(c)'
    <2>1. Served(c) /\ db' = db /\ caller[c] \in [load : Loads \cup {None}, need : Version]
      BY DEF Fits, Versions, dbVars, TypeOK
    <2>2. CASE caller[c].load = l
      BY <2>2 DEF Settled, Idle, Served
    <2>3. CASE caller[c].load # l
      <3>1. caller'[c] = caller[c]
        BY <2>3 DEF Settled
      <3> QED BY <2>1, <2>3, <3>1 DEF Served, Frees
    <2> QED BY <2>2, <2>3
  <1>5. ASSUME NEW m \in Loads, load'[m].phase # "free" PROVE Attached(m)' \/ load'[m].cleared
    <2>1. m # l
      BY <1>5, FreeIs DEF Frees
    <2>2. Attached(m) \/ load[m].cleared
      BY <1>5, <2>1 DEF Fits, Versions, OneLoadPerKey, Frees
    <2>3. \A k \in Keys : Settles(k) \/ entry[k] = None \/ entry[k].load \in {None, l}
      BY DEF Leaving
    <2> QED BY <2>1, <2>2, <2>3, StillAttached DEF Frees
  <1> QED BY <1>2, <1>3, <1>4, <1>5 DEF Fits, Versions, OneLoadPerKey, ReadYourWrites

LEMMA FailedFits ==
    ASSUME Fits, Booked, Ranked, NEW l \in Loads, load[l].phase # "free", Frees(l), Failed(l)
    PROVE  Fits' /\ Booked' /\ Ranked'
  <1>1. Booked' /\ Ranked' /\ Settled(l) /\ outdated' = outdated /\ UNCHANGED dbVars
    BY FailedBooks DEF Fits, Failed
  <1>2. entry \in [Keys -> {None} \cup Entry]
    BY DEF Fits, TypeOK
  <1>3. ASSUME NEW k \in Keys PROVE Leaving(l, k)
    <2>1. CASE ~Current(l)
      <3>1. entry' = entry
        BY <2>1 DEF Failed
      <3>2. entry[k] # None => entry[k].load # l
        BY <2>1 DEF Current, Attached, Present
      <3> QED BY <3>1, <3>2 DEF Leaving, Settles
    <2>2. CASE Current(l) /\ k # load[l].key
      <3>1. entry'[k] = entry[k]
        BY <1>2, <2>2 DEF Failed
      <3>2. entry[k] # None => entry[k].load # l
        BY <2>2, NoneIs DEF Fits, Versions, Upheld
      <3> QED BY <3>1, <3>2 DEF Leaving, Settles
    <2>3. CASE Current(l) /\ k = load[l].key
      <3>1. entry[k] # None /\ entry[k].load = l /\ entry[k] \in Entry
        BY <2>3, Attachment DEF Fits, Present
      <3>2. CASE entry' = [entry EXCEPT ![k] = None]
        BY <1>2, <3>1, <3>2 DEF Leaving
      <3>3. CASE entry' = [entry EXCEPT ![k].load = None, ![k].cooling = Usable(k)]
        <4>1. entry'[k].load = None /\ entry'[k].value = entry[k].value
          BY <1>2, <3>1, <3>3 DEF Entry
        <4>2. entry'[k] # None
          <5>1. [entry[k] EXCEPT !.load = None, !.cooling = Usable(k)] \in Entry
            BY <3>1 DEF Entry, Usable
          <5>2. entry'[k] = [entry[k] EXCEPT !.load = None, !.cooling = Usable(k)]
            BY <1>2, <3>3
          <5> QED BY <5>1, <5>2, NoneIs
        <4> QED BY <3>1, <4>1, <4>2 DEF Leaving, Fits, Versions, Upheld
      <3> QED BY <2>3, <3>2, <3>3 DEF Failed
    <2> QED BY <2>1, <2>2, <2>3
  <1> QED BY <1>1, <1>3, EndsFits

-----------------------------------------------------------------------------
(* The slots, operation by operation. *)

Running(ld) == {l \in Loads : ld[l].phase = "running"}

LEMMA RunningFits == ASSUME NEW ld PROVE IsFiniteSet(Running(ld)) /\ Cardinality(Running(ld)) \in Nat
  <1>1. IsFiniteSet(Loads)
    BY FS_Interval, LimitsAssumption DEF Loads
  <1> QED BY <1>1, FS_Subset, FS_CardinalityType DEF Running

LEMMA RemovedFits ==
    ASSUME NEW q \in Seq(Loads), NEW i \in DOMAIN q
    PROVE  /\ RemoveAt(q, i) \in Seq(Loads) /\ Len(RemoveAt(q, i)) = Len(q) - 1
           /\ \A j \in 1..(Len(q) - 1) : RemoveAt(q, i)[j] = IF j < i THEN q[j] ELSE q[j + 1]
  <1>1. i \in 1..Len(q) /\ Len(q) \in Nat
    OBVIOUS
  <1>2. PICK a : a = SubSeq(q, 1, i-1)
    OBVIOUS
  <1>3. PICK b : b = SubSeq(q, i+1, Len(q))
    OBVIOUS
  <1>4. a \in Seq(Loads) /\ Len(a) = i - 1 /\ \A j \in 1..(i-1) : a[j] = q[j]
    BY <1>1, <1>2, SubSeqProperties
  <1>5. b \in Seq(Loads) /\ Len(b) = Len(q) - i /\ \A j \in 1..(Len(q)-i) : b[j] = q[j+i]
    BY <1>1, <1>3, SubSeqProperties
  <1>6. RemoveAt(q, i) = a \o b
    BY <1>2, <1>3 DEF RemoveAt
  <1>7. /\ a \o b \in Seq(Loads) /\ Len(a \o b) = Len(a) + Len(b)
        /\ \A j \in 1..(Len(a) + Len(b)) : (a \o b)[j] = IF j <= Len(a) THEN a[j] ELSE b[j - Len(a)]
    BY <1>4, <1>5, ConcatProperties
  <1>8. Len(a) + Len(b) = Len(q) - 1
    BY <1>1, <1>4, <1>5
  <1>9. ASSUME NEW j \in 1..(Len(q) - 1) PROVE (a \o b)[j] = IF j < i THEN q[j] ELSE q[j + 1]
    <2>1. (a \o b)[j] = IF j <= i - 1 THEN a[j] ELSE b[j - (i - 1)]
      BY <1>4, <1>7, <1>8
    <2>2. CASE j < i
      <3>1. j \in 1..(i-1)
        BY <1>1, <2>2
      <3> QED BY <1>1, <1>4, <2>1, <2>2, <3>1
    <2>3. CASE ~(j < i)
      <3>1. j - (i - 1) \in 1..(Len(q) - i) /\ (j - (i - 1)) + i = j + 1
        BY <1>1, <2>3
      <3>2. b[j - (i - 1)] = q[j + 1]
        BY <1>5, <3>1
      <3> QED BY <1>1, <2>1, <2>3, <3>2
    <2> QED BY <2>2, <2>3
  <1> QED BY <1>6, <1>7, <1>8, <1>9

LEMMA SlotsAre ==
    ASSUME active' = Cardinality(Running(load')), active' <= Concurrency, Len(queue') <= MaxQueued,
           queue' = <<>> \/ active' = Concurrency
    PROVE  SlotsExact'
  BY DEF SlotsExact, Running

LEMMA SlotsKept ==
    ASSUME Slots, UNCHANGED poolVars,
           \A m \in Loads : /\ load'[m].phase = "running" <=> load[m].phase = "running"
                            /\ load[m].phase = "queued" => load'[m].phase = "queued"
    PROVE  Slots'
  <1>1. Running(load') = Running(load)
    BY DEF Running
  <1>2. SlotsExact'
    BY <1>1 DEF Slots, SlotsExact, Running, poolVars
  <1>3. \A i \in DOMAIN queue : queue[i] \in Loads
    BY DEF Slots
  <1> QED BY <1>2, <1>3 DEF Slots, poolVars

LEMMA StartSlots ==
    ASSUME Slots, NEW l \in Loads, load[l].phase = "called", active < Concurrency, active' = active + 1,
           queue' = queue, load' \in [Loads -> Load], load'[l].phase = "running",
           \A m \in Loads \ {l} : load'[m].phase = load[m].phase
    PROVE  Slots'
  <1>1. Running(load') = Running(load) \cup {l} /\ l \notin Running(load)
    BY DEF Running
  <1>2. Cardinality(Running(load')) = Cardinality(Running(load)) + 1
    BY <1>1, RunningFits, FS_AddElement
  <1>3. queue = <<>> /\ Concurrency \in Nat /\ active \in Nat /\ Len(queue) <= MaxQueued
        /\ active = Cardinality(Running(load))
    BY LimitsAssumption DEF Slots, SlotsExact, Running
  <1>4. SlotsExact'
    BY <1>2, <1>3 DEF SlotsExact, Running
  <1> QED BY <1>3, <1>4 DEF Slots

LEMMA QueueSlots ==
    ASSUME Slots, NEW l \in Loads, load[l].phase = "called", ~(active < Concurrency), Len(queue) < MaxQueued,
           active' = active, queue' = Append(queue, l), load' \in [Loads -> Load], load'[l].phase = "queued",
           \A m \in Loads \ {l} : load'[m].phase = load[m].phase
    PROVE  Slots'
  <1>1. Running(load') = Running(load)
    BY DEF Running
  <1>2. queue \in Seq(Loads) /\ active \in Nat /\ Concurrency \in Nat /\ active <= Concurrency
        /\ active = Cardinality(Running(load))
    BY LimitsAssumption DEF Slots, SlotsExact, Running
  <1>3. /\ queue' \in Seq(Loads) /\ Len(queue') = Len(queue) + 1
        /\ \A i \in 1..Len(queue) : queue'[i] = queue[i]
        /\ queue'[Len(queue) + 1] = l
    BY <1>2
  <1>4. \A i \in DOMAIN queue : queue[i] \in Loads \ {l} /\ load[queue[i]].phase = "queued"
    BY <1>2 DEF Slots
  <1>5. \A i \in DOMAIN queue' : load'[queue'[i]].phase = "queued"
    BY <1>2, <1>3, <1>4
  <1>6. \A i, j \in DOMAIN queue' : queue'[i] = queue'[j] => i = j
    BY <1>2, <1>3, <1>4 DEF Slots
  <1>7. Len(queue') <= MaxQueued /\ active = Concurrency
    BY <1>2, <1>3, LimitsAssumption
  <1>8. SlotsExact'
    BY <1>1, <1>2, <1>7, SlotsAre
  <1> QED BY <1>2, <1>3, <1>5, <1>6, <1>8 DEF Slots

LEMMA RemoveSlots ==
    ASSUME Slots, NEW i \in DOMAIN queue, queue' = RemoveAt(queue, i), active' = active,
           load' \in [Loads -> Load], load[queue[i]].phase = "queued", load'[queue[i]].phase = "free",
           \A m \in Loads \ {queue[i]} : load'[m].phase = load[m].phase
    PROVE  Slots'
  <1>1. Running(load') = Running(load)
    BY DEF Running
  <1>2. queue \in Seq(Loads) /\ active \in Nat /\ active = Cardinality(Running(load)) /\ active <= Concurrency
        /\ Len(queue) <= MaxQueued /\ Len(queue) \in Nat /\ i \in 1..Len(queue) /\ queue # <<>>
    BY DEF Slots, SlotsExact, Running
  <1>3. /\ queue' \in Seq(Loads) /\ Len(queue') = Len(queue) - 1
        /\ \A j \in 1..(Len(queue) - 1) : queue'[j] = IF j < i THEN queue[j] ELSE queue[j + 1]
    BY <1>2, RemovedFits
  <1>4. PICK n \in Nat : n = Len(queue)
    BY <1>2
  <1>5. DOMAIN queue' = 1..(n - 1) /\ DOMAIN queue = 1..n /\ i \in 1..n
    BY <1>2, <1>3, <1>4
  <1>6. \A j, k \in 1..n : queue[j] = queue[k] => j = k
    BY <1>5 DEF Slots
  <1>7. \A j \in 1..(n - 1) : IF j < i THEN queue'[j] = queue[j] ELSE queue'[j] = queue[j + 1]
    BY <1>3, <1>4
  <1>8. ASSUME NEW j \in 1..(n - 1)
        PROVE  queue'[j] \in Loads \ {queue[i]} /\ load[queue'[j]].phase = "queued"
    <2>1. PICK k \in 1..n : k # i /\ queue'[j] = queue[k]
      <3>1. CASE j < i
        BY <1>5, <1>7, <3>1
      <3>2. CASE ~(j < i)
        <4>1. j + 1 \in 1..n /\ j + 1 # i
          BY <1>5, <3>2
        <4> QED BY <1>7, <3>2, <4>1
      <3> QED BY <3>1, <3>2
    <2>2. queue[k] \in Loads /\ queue[k] # queue[i]
      BY <1>2, <1>5, <1>6, <2>1
    <2> QED BY <1>5, <2>1, <2>2 DEF Slots
  <1>9. ASSUME NEW j \in 1..(n - 1), NEW k \in 1..(n - 1), queue'[j] = queue'[k] PROVE j = k
    <2>1. j \in 1..n /\ k \in 1..n /\ j + 1 \in 1..n /\ k + 1 \in 1..n /\ i \in Nat
      BY <1>5
    <2>2. CASE j < i /\ k < i
      BY <1>6, <1>7, <1>9, <2>1, <2>2
    <2>3. CASE j < i /\ ~(k < i)
      BY <1>6, <1>7, <1>9, <2>1, <2>3
    <2>4. CASE ~(j < i) /\ k < i
      BY <1>6, <1>7, <1>9, <2>1, <2>4
    <2>5. CASE ~(j < i) /\ ~(k < i)
      <3>1. queue[j + 1] = queue[k + 1]
        BY <1>7, <1>9, <2>5
      <3>2. j + 1 = k + 1
        BY <1>6, <2>1, <3>1
      <3> QED BY <3>2
    <2> QED BY <2>2, <2>3, <2>4, <2>5
  <1>10. active' = Cardinality(Running(load')) /\ active' <= Concurrency /\ active' = Concurrency
    BY <1>1, <1>2, LimitsAssumption DEF Slots, SlotsExact
  <1>11. Len(queue') <= MaxQueued
    BY <1>2, <1>3, LimitsAssumption
  <1>12. SlotsExact'
    BY <1>10, <1>11, SlotsAre
  <1>13. \A j, k \in DOMAIN queue' : queue'[j] = queue'[k] => j = k
    BY <1>5, <1>9
  <1>14. \A j \in DOMAIN queue' : load'[queue'[j]].phase = "queued"
    BY <1>5, <1>8
  <1>15. queue' \in Seq(Loads) /\ active' \in Nat
    BY <1>2, <1>3
  <1> QED BY <1>12, <1>13, <1>14, <1>15 DEF Slots

\* A slot is passed on, or freed when nobody waits.
LEMMA ReleasedFits ==
    ASSUME load \in [Loads -> Load], Slots, NEW l \in Loads, load[l].phase = "running", Released(l)
    PROVE  Slots' /\ Frees(l)
  <1>1. /\ queue \in Seq(Loads) /\ active \in Nat /\ active = Cardinality(Running(load))
        /\ active <= Concurrency /\ Len(queue) <= MaxQueued /\ Len(queue) \in Nat
        /\ Concurrency \in Nat /\ MaxQueued \in Nat
    BY LimitsAssumption DEF Slots, SlotsExact, Running
  <1>2. CASE queue = <<>>
    <2>1. load' = [load EXCEPT ![l] = Free] /\ active' = active - 1 /\ queue' = queue
      BY <1>2 DEF Released
    <2>2. load' \in [Loads -> Load] /\ load'[l] = Free /\ \A m \in Loads \ {l} : load'[m] = load[m]
      BY <2>1, FreeIs
    <2>3. Running(load') = Running(load) \ {l} /\ l \in Running(load)
      BY <2>2, FreeIs DEF Running
    <2>4. Cardinality(Running(load')) = Cardinality(Running(load)) - 1
      BY <2>3, RunningFits, FS_RemoveElement
    <2>5. active' = Cardinality(Running(load')) /\ active' <= Concurrency /\ active' \in Nat
      BY <1>1, <2>1, <2>4, RunningFits
    <2>6. SlotsExact'
      BY <1>1, <1>2, <2>1, <2>5, SlotsAre
    <2>7. Frees(l)
      BY <2>2 DEF Frees
    <2> QED BY <1>1, <1>2, <2>1, <2>5, <2>6, <2>7 DEF Slots
  <1>3. CASE queue # <<>>
    <2>1. PICK h \in Loads : h = Head(queue) /\ h = queue[1] /\ load[h].phase = "queued"
      BY <1>1, <1>3 DEF Slots
    <2>2. PICK n \in Load : n = [load[h] EXCEPT !.phase = "running"]
      <3>1. [load[h] EXCEPT !.phase = "running"] \in Load
        BY <2>1 DEF Load
      <3> QED BY <3>1
    <2>3. /\ n.phase = "running" /\ n.key = load[h].key /\ n.saw = load[h].saw /\ n.cleared = load[h].cleared
      BY <2>1, <2>2 DEF Load
    <2>4. h # l
      BY <2>1
    <2>5. load' = [load EXCEPT ![l] = Free, ![h] = n] /\ queue' = Tail(queue) /\ active' = active
      BY <1>3, <2>1, <2>2, <2>4 DEF Released
    <2>6. /\ load' \in [Loads -> Load] /\ load'[l] = Free /\ load'[h] = n
          /\ \A m \in Loads \ {l, h} : load'[m] = load[m]
      BY <2>4, <2>5, FreeIs
    <2>7. Frees(l)
      BY <2>1, <2>3, <2>6 DEF Frees
    <2>8. Running(load') = (Running(load) \ {l}) \cup {h} /\ l \in Running(load) /\ h \notin Running(load) \ {l}
      BY <2>1, <2>3, <2>6, FreeIs DEF Running
    <2>9. Cardinality(Running(load')) = Cardinality(Running(load))
      <3>1. IsFiniteSet(Running(load) \ {l}) /\ Cardinality(Running(load) \ {l}) = Cardinality(Running(load)) - 1
        BY <2>8, RunningFits, FS_RemoveElement
      <3>2. Cardinality((Running(load) \ {l}) \cup {h}) = Cardinality(Running(load) \ {l}) + 1
        BY <2>8, <3>1, FS_AddElement
      <3> QED BY <2>8, <3>1, <3>2, RunningFits
    <2>10. /\ queue' \in Seq(Loads) /\ Len(queue') = Len(queue) - 1
           /\ \A i \in 1..(Len(queue) - 1) : queue'[i] = queue[i + 1]
      BY <1>1, <1>3, <2>5, HeadTailProperties
    <2>11. PICK k \in Nat : k = Len(queue) /\ k # 0
      BY <1>1, <1>3
    <2>12. DOMAIN queue = 1..k /\ DOMAIN queue' = 1..(k - 1)
      BY <1>1, <2>10, <2>11
    <2>13. \A i, j \in 1..k : queue[i] = queue[j] => i = j
      BY <2>12 DEF Slots
    <2>14. ASSUME NEW i \in 1..(k - 1) PROVE load'[queue'[i]].phase = "queued"
      <3>1. i + 1 \in 1..k /\ 1 \in 1..k /\ i + 1 # 1
        BY <2>11
      <3>2. queue'[i] = queue[i + 1]
        BY <2>10, <2>11
      <3>3. queue[i + 1] \in Loads /\ load[queue[i + 1]].phase = "queued"
        BY <1>1, <2>12, <3>1 DEF Slots
      <3>4. queue[i + 1] # h
        BY <2>1, <2>13, <3>1
      <3> QED BY <2>6, <3>2, <3>3, <3>4
    <2>15. ASSUME NEW i \in 1..(k - 1), NEW j \in 1..(k - 1), queue'[i] = queue'[j] PROVE i = j
      <3>1. i + 1 \in 1..k /\ j + 1 \in 1..k /\ queue[i + 1] = queue[j + 1]
        BY <2>10, <2>11, <2>15
      <3>2. i + 1 = j + 1
        BY <2>13, <3>1
      <3> QED BY <3>2
    <2>16. active' = Cardinality(Running(load')) /\ active' = Concurrency /\ Len(queue') <= MaxQueued
      BY <1>1, <1>3, <2>5, <2>9, <2>10 DEF Slots, SlotsExact
    <2>17. SlotsExact'
      BY <1>1, <2>5, <2>16, SlotsAre
    <2>18. \A i, j \in DOMAIN queue' : queue'[i] = queue'[j] => i = j
      BY <2>12, <2>15
    <2>19. \A i \in DOMAIN queue' : load'[queue'[i]].phase = "queued"
      BY <2>12, <2>14
    <2> QED BY <1>1, <2>5, <2>7, <2>10, <2>17, <2>18, <2>19 DEF Slots
  <1> QED BY <1>2, <1>3

-----------------------------------------------------------------------------
(* The steps of the specification. *)

LEMMA RunFits == ASSUME CacheInv, NEW l \in Loads, Run(l) PROVE CacheInv'
  <1>1. /\ load[l].phase = "called" /\ load \in [Loads -> Load] /\ load[l] \in Load /\ Fits
        /\ Booked /\ Ranked /\ Slots
    BY DEF CacheInv, Fits, TypeOK, Run
  <1>2. ASSUME NEW p \in {"running", "queued"}, load' = [load EXCEPT ![l].phase = p],
               UNCHANGED <<callerVars, cacheVars, dbVars>>
        PROVE  /\ Fits' /\ Booked' /\ Ranked' /\ load' \in [Loads -> Load] /\ load'[l].phase = p
               /\ \A m \in Loads \ {l} : load'[m].phase = load[m].phase
    <2>1. PICK n \in Load : n = [load[l] EXCEPT !.phase = p]
      <3>1. [load[l] EXCEPT !.phase = p] \in Load
        BY <1>1 DEF Load
      <3> QED BY <3>1
    <2>2. n.phase = p /\ n.key = load[l].key /\ n.saw = load[l].saw /\ n.cleared = load[l].cleared
      BY <1>1, <2>1 DEF Load
    <2>3. load' = [load EXCEPT ![l] = n]
      BY <1>1, <1>2, <2>1
    <2>4. Fits'
      BY <1>1, <1>2, <2>2, <2>3, GoesOnFits DEF cacheVars
    <2>5. Booked' /\ Ranked'
      BY <1>1, <1>2 DEF cacheVars, Booked, Ranked, Present
    <2> QED BY <1>1, <2>2, <2>3, <2>4, <2>5
  <1>3. CASE active < Concurrency
    <2>1. Fits' /\ Booked' /\ Ranked' /\ Slots'
      BY <1>1, <1>2, <1>3, StartSlots DEF Run
    <2> QED BY <2>1 DEF CacheInv, Fits
  <1>4. CASE ~(active < Concurrency) /\ Len(queue) < MaxQueued
    <2>1. Fits' /\ Booked' /\ Ranked' /\ Slots'
      BY <1>1, <1>2, <1>4, QueueSlots DEF Run
    <2> QED BY <2>1 DEF CacheInv, Fits
  <1>5. CASE ~(active < Concurrency) /\ ~(Len(queue) < MaxQueued)
    <2>1. load' = [load EXCEPT ![l] = Free] /\ Failed(l) /\ UNCHANGED poolVars
      BY <1>5 DEF Run
    <2>2. load' \in [Loads -> Load] /\ load'[l] = Free /\ \A m \in Loads \ {l} : load'[m] = load[m]
      BY <1>1, <2>1, FreeIs
    <2>3. Frees(l)
      BY <2>2 DEF Frees
    <2>4. Slots'
      BY <1>1, <2>1, <2>2, FreeIs, SlotsKept
    <2>5. Fits' /\ Booked' /\ Ranked'
      BY <1>1, <2>1, <2>3, FailedFits
    <2> QED BY <2>4, <2>5 DEF CacheInv, Fits
  <1> QED BY <1>3, <1>4, <1>5

LEMMA QueueTimeoutFits == ASSUME CacheInv, NEW l \in Loads, QueueTimeout(l) PROVE CacheInv'
  <1>1. /\ load[l].phase = "queued" /\ load \in [Loads -> Load] /\ Fits /\ Booked /\ Ranked /\ Slots
    BY DEF CacheInv, Fits, TypeOK, QueueTimeout
  <1>2. load' = [load EXCEPT ![l] = Free] /\ Failed(l) /\ active' = active
    BY DEF QueueTimeout
  <1>3. PICK i \in DOMAIN queue : queue[i] = l /\ queue' = RemoveAt(queue, i)
    BY DEF QueueTimeout
  <1>4. load' \in [Loads -> Load] /\ load'[l] = Free /\ \A m \in Loads \ {l} : load'[m] = load[m]
    BY <1>1, <1>2, FreeIs
  <1>5. Frees(l)
    BY <1>4 DEF Frees
  <1>6. Slots'
    BY <1>1, <1>2, <1>3, <1>4, FreeIs, RemoveSlots
  <1>7. Fits' /\ Booked' /\ Ranked'
    BY <1>1, <1>2, <1>5, FailedFits
  <1> QED BY <1>6, <1>7 DEF CacheInv, Fits

LEMMA ReadFits == ASSUME CacheInv, NEW l \in Loads, Read(l) PROVE CacheInv'
  <1>1. /\ load[l].phase = "running" /\ load \in [Loads -> Load] /\ load[l] \in Load /\ Fits
        /\ Booked /\ Ranked /\ Slots /\ db \in Version
    BY DEF CacheInv, Fits, TypeOK, Read
  <1>2. PICK n \in Load : n = [load[l] EXCEPT !.saw = db]
    <2>1. [load[l] EXCEPT !.saw = db] \in Load
      BY <1>1 DEF Load
    <2> QED BY <2>1
  <1>3. n.phase = "running" /\ n.key = load[l].key /\ n.saw = db /\ n.cleared = load[l].cleared
    BY <1>1, <1>2 DEF Load
  <1>4. load' = [load EXCEPT ![l] = n] /\ UNCHANGED <<poolVars, callerVars, cacheVars, dbVars>>
    BY <1>1, <1>2 DEF Read
  <1>5. Fits'
    BY <1>1, <1>3, <1>4, GoesOnFits DEF cacheVars
  <1>6. Booked' /\ Ranked'
    BY <1>1, <1>4 DEF cacheVars, Booked, Ranked, Present
  <1>7. Slots'
    BY <1>1, <1>3, <1>4, SlotsKept
  <1> QED BY <1>5, <1>6, <1>7 DEF CacheInv, Fits

LEMMA LoadFailsFits == ASSUME CacheInv, NEW l \in Loads, LoadFails(l) PROVE CacheInv'
  <1>1. /\ load[l].phase = "running" /\ load \in [Loads -> Load] /\ Fits /\ Booked /\ Ranked /\ Slots
    BY DEF CacheInv, Fits, TypeOK, LoadFails
  <1>2. Slots' /\ Frees(l)
    BY <1>1, ReleasedFits DEF LoadFails
  <1>3. Fits' /\ Booked' /\ Ranked'
    BY <1>1, <1>2, FailedFits DEF LoadFails
  <1> QED BY <1>2, <1>3 DEF CacheInv, Fits

LEMMA FinishFits == ASSUME CacheInv, NEW l \in Loads, Finish(l) PROVE CacheInv'
  <1>1. /\ load[l].phase = "running" /\ load \in [Loads -> Load] /\ Fits /\ Booked /\ Ranked /\ Slots
        /\ load[l].saw # None /\ entry \in [Keys -> {None} \cup Entry] /\ TypeOK /\ Versions
    BY DEF CacheInv, Fits, TypeOK, Finish
  <1>2. Slots' /\ Frees(l)
    BY <1>1, ReleasedFits DEF Finish
  <1>3. PICK size \in Sizes : Stored(l, size)
    BY DEF Finish
  <1>4. Booked' /\ Ranked' /\ Settled(l) /\ UNCHANGED dbVars
    BY <1>1, <1>3, StoredBooks, KeepsOrder DEF Finish
  <1>5. outdated' = outdated
    <2>1. ASSUME NEW c \in Callers, caller[c].load = l, load[l].saw < caller[c].need PROVE FALSE
      <3>1. load[l].saw >= caller[c].need
        BY <1>1, <2>1, NoneIs DEF Versions, Served
      <3>2. load[l].saw \in Nat /\ caller[c].need \in Nat
        BY <1>1, NoneIs DEF TypeOK, Load
      <3> QED BY <2>1, <3>1, <3>2
    <2> QED BY <2>1 DEF Finish
  <1>6. ASSUME NEW k \in Keys PROVE Leaving(l, k)
    <2>1. CASE ~Current(l)
      <3>1. entry' = entry
        BY <1>3, <2>1 DEF Stored
      <3>2. entry[k] # None => entry[k].load # l
        BY <2>1 DEF Current, Attached, Present
      <3> QED BY <3>1, <3>2 DEF Leaving, Settles
    <2>2. CASE Current(l)
      <3>1. PICK n \in Entry :
              /\ n.value = load[l].saw /\ n.load = None
              /\ LET e == [entry EXCEPT ![load[l].key] = n]
                 IN  entry'[k] = e[k] \/ (entry'[k] = None /\ Evictable(e, k))
        BY <1>1, <1>3, <2>2, StoredBooks
      <3>2. CASE k = load[l].key
        <4>1. entry[k] # None /\ entry[k].load = l /\ load[l].saw >= floor[k]
          BY <1>1, <2>2, <3>2, Attachment DEF Present
        <4>2. entry'[k] = n \/ entry'[k] = None
          BY <1>1, <3>1, <3>2
        <4> QED BY <3>1, <4>1, <4>2 DEF Leaving
      <3>3. CASE k # load[l].key
        <4>1. entry'[k] = entry[k] \/ (entry'[k] = None /\ Evictable(entry, k))
          BY <1>1, <3>1, <3>3 DEF Evictable
        <4>2. entry[k] # None => entry[k].load # l
          BY <1>1, <3>3, NoneIs DEF Versions, Upheld
        <4> QED BY <4>1, <4>2 DEF Leaving, Settles
      <3> QED BY <3>2, <3>3
    <2> QED BY <2>1, <2>2
  <1>7. Fits'
    BY <1>1, <1>2, <1>4, <1>5, <1>6, EndsFits
  <1> QED BY <1>2, <1>4, <1>7 DEF CacheInv, Fits

\* A mutation takes the entries away from their loads, which go on.
LEMMA InvalidatedFits ==
    ASSUME CacheInv, NEW S \in SUBSET Keys, Invalidated(S), UNCHANGED <<poolVars, callerVars, db>>,
           writing' \subseteq Writers, floor' \in [Keys -> Version],
           \A k \in Keys : floor'[k] = floor[k] \/ (k \in S /\ floor'[k] = db)
    PROVE  CacheInv'
  <1>1. Booked' /\ Ranked' /\ Fits /\ load \in [Loads -> Load] /\ entry \in Entries
    BY InvalidatedBooks DEF CacheInv, Fits, TypeOK, Entries
  <1>2. \A k \in Keys : entry'[k] = IF k \in S THEN None ELSE entry[k]
    BY DEF Invalidated, Without
  <1>3. ASSUME NEW m \in Loads
        PROVE  /\ load'[m] \in Load /\ load'[m].phase = load[m].phase
               /\ load'[m].key = load[m].key /\ load'[m].saw = load[m].saw
               /\ load'[m].cleared <=> (load[m].cleared \/ \E k \in S \cap Present(entry) : entry[k].load = m)
    <2>1. PICK c \in BOOLEAN : c <=> (load[m].cleared \/ \E k \in S \cap Present(entry) : entry[k].load = m)
      OBVIOUS
    <2>2. load'[m] = [load[m] EXCEPT !.cleared = c] /\ load[m] \in Load
      <3>1. load[m] \in Load /\ load[m].cleared \in BOOLEAN
        BY <1>1 DEF Load
      <3>2. (load[m].cleared \/ \E k \in S \cap Present(entry) : entry[k].load = m) = c
        BY <2>1, <3>1
      <3> QED BY <1>1, <3>1, <3>2 DEF Invalidated
    <2>3. [load[m] EXCEPT !.cleared = c] \in Load
      BY <2>2 DEF Load
    <2>4. /\ [load[m] EXCEPT !.cleared = c].phase = load[m].phase
          /\ [load[m] EXCEPT !.cleared = c].key = load[m].key
          /\ [load[m] EXCEPT !.cleared = c].saw = load[m].saw
          /\ [load[m] EXCEPT !.cleared = c].cleared = c
      BY <2>2 DEF Load
    <2> QED BY <2>1, <2>2, <2>3, <2>4
  <1>4. load' \in [Loads -> Load]
    BY <1>1, <1>3 DEF Invalidated
  <1>5. TypeOK'
    BY <1>1, <1>4, BookedType DEF Fits, TypeOK, callerVars
  <1>6. ASSUME NEW k \in Keys PROVE Upheld(k)'
    <2>1. Upheld(k) /\ db \in Nat /\ floor[k] \in Nat /\ (entry[k] # None => entry[k] \in Entry) /\ db' = db
      BY <1>1, NoneIs DEF Fits, Versions, TypeOK, Entries
    <2>2. CASE k \in S
      BY <1>2, <2>1, <2>2 DEF Upheld
    <2>3. CASE k \notin S
      BY <1>2, <1>3, <2>1, <2>3 DEF Upheld, Entry
    <2> QED BY <2>2, <2>3
  <1>7. ASSUME NEW c \in Callers PROVE Served(c)'
    <2>1. Served(c) /\ caller[c].load \in Loads \cup {None} /\ db' = db /\ caller' = caller
      BY <1>1 DEF Fits, Versions, TypeOK, callerVars
    <2> QED BY <1>3, <2>1 DEF Served
  <1>8. ASSUME NEW m \in Loads, load'[m].phase # "free" PROVE Attached(m)' \/ load'[m].cleared
    <2>1. Attached(m) \/ load[m].cleared
      BY <1>1, <1>3, <1>8 DEF Fits, Versions, OneLoadPerKey
    <2>2. ASSUME NEW k \in Present(entry), entry[k].load = m PROVE Attached(m)' \/ load'[m].cleared
      <3>1. CASE k \in S
        BY <1>3, <2>2, <3>1
      <3>2. CASE k \notin S
        <4>1. entry'[k] = entry[k] /\ k \in Keys /\ entry[k] # None
          BY <1>2, <3>2 DEF Present
        <4> QED BY <2>2, <4>1 DEF Attached, Present
      <3> QED BY <3>1, <3>2
    <2> QED BY <1>3, <2>1, <2>2 DEF Attached
  <1>9. Versions'
    BY <1>1, <1>6, <1>7, <1>8 DEF Fits, Versions, OneLoadPerKey, ReadYourWrites, callerVars
  <1>10. Slots'
    BY <1>3, SlotsKept DEF CacheInv
  <1> QED BY <1>1, <1>5, <1>9, <1>10 DEF CacheInv

LEMMA MutationFits == ASSUME CacheInv, NEW w \in Writers, Begin(w) \/ Commit(w) \/ End(w) PROVE CacheInv'
  <1>1. Matched[w] \in SUBSET Keys /\ TypeOK /\ db \in Version
    BY MatchedAssumption DEF CacheInv, TypeOK
  <1>2. CASE Begin(w)
    BY <1>1, <1>2, InvalidatedFits DEF Begin, TypeOK
  <1>3. CASE End(w)
    BY <1>1, <1>3, InvalidatedFits DEF End, TypeOK
  <1>4. CASE Commit(w)
    <2>1. db' = db + 1 /\ db' \in Version /\ UNCHANGED <<cacheVars, load, poolVars, callerVars, writing, floor>>
      BY <1>1, <1>4, LimitsAssumption DEF Commit, Version
    <2>2. TypeOK'
      BY <1>1, <2>1 DEF TypeOK, cacheVars, callerVars
    <2>3. \A k \in Keys : Upheld(k)'
      BY <1>1, <2>1, NoneIs DEF CacheInv, Versions, TypeOK, Upheld, cacheVars
    <2>4. ASSUME NEW c \in Callers PROVE Served(c)'
      <3>1. Served(c) /\ caller[c].need \in Nat /\ db \in Nat /\ caller' = caller /\ load' = load
        BY <1>1, <2>1, NoneIs DEF CacheInv, Versions, TypeOK, callerVars
      <3> QED BY <2>1, <3>1 DEF Served
    <2>5. Booked' /\ Ranked' /\ OneLoadPerKey' /\ ReadYourWrites'
      BY <2>1 DEF CacheInv, Versions, cacheVars, callerVars, Booked, Ranked, Present, OneLoadPerKey, ReadYourWrites, Attached
    <2>6. Slots'
      BY <2>1, SlotsKept DEF CacheInv
    <2> QED BY <2>2, <2>3, <2>4, <2>5, <2>6 DEF CacheInv, Versions
  <1> QED BY <1>2, <1>3, <1>4

LEMMA EntryFits == ASSUME CacheInv, NEW k \in Keys, Age(k) \/ Prune PROVE CacheInv'
  <1>1. Booked /\ Ranked /\ Fits /\ Slots /\ UNCHANGED <<load, poolVars, callerVars, dbVars>>
    BY DEF CacheInv, Fits, Age, Prune
  <1>2. Booked' /\ Ranked'
    BY <1>1, AgeBooks, PruneBooks
  <1>3. ASSUME NEW j \in Keys PROVE Settles(j)
    <2>1. entry \in [Keys -> {None} \cup Entry] /\ entry' \in [Keys -> {None} \cup Entry]
      BY <1>1, <1>2, BookedType DEF Fits, TypeOK
    <2>2. CASE Prune
      <3>1. entry'[j] = entry[j] \/ (entry'[j] = None /\ Evictable(entry, j))
        BY <1>1, <2>2, PruneBooks
      <3> QED BY <3>1 DEF Settles
    <2>3. CASE Age(k) /\ j # k
      <3>1. entry'[j] = entry[j]
        BY <2>1, <2>3 DEF Age
      <3> QED BY <3>1 DEF Settles
    <2>4. CASE Age(k) /\ j = k
      <3>1. entry[k] # None /\ entry[k] \in Entry
        BY <2>1, <2>4 DEF Age, Present
      <3>2. /\ [entry[k] EXCEPT !.age = "stale"] \in Entry
            /\ [entry[k] EXCEPT !.cooling = FALSE] \in Entry
            /\ [entry[k] EXCEPT !.age = "expired", !.cooling = FALSE] \in Entry
        BY <3>1 DEF Entry
      <3>3. \/ entry'[k] = [entry[k] EXCEPT !.age = "stale"]
            \/ entry'[k] = [entry[k] EXCEPT !.cooling = FALSE]
            \/ entry'[k] = [entry[k] EXCEPT !.age = "expired", !.cooling = FALSE]
        BY <2>1, <2>4 DEF Age
      <3>4. entry'[k] # None /\ entry'[k].value = entry[k].value /\ entry'[k].load = entry[k].load
        BY <3>1, <3>2, <3>3, NoneIs DEF Entry
      <3> QED BY <2>4, <3>1, <3>4 DEF Settles
    <2> QED BY <2>2, <2>3, <2>4
  <1>4. Fits'
    BY <1>1, <1>2, <1>3, SettlesFits
  <1>5. Slots'
    BY <1>1, SlotsKept
  <1> QED BY <1>2, <1>4, <1>5 DEF CacheInv, Fits

LEMMA GetsFit == ASSUME CacheInv, NEW c \in Callers, NEW k \in Keys, Get(c, k) PROVE CacheInv'
  <1>1. Fits' /\ Booked' /\ Ranked'
    BY GetFits DEF CacheInv, Fits
  <1>2. load \in [Loads -> Load] /\ UNCHANGED poolVars /\ Slots
    BY DEF CacheInv, TypeOK, Get
  <1>3. load' = load \/ \E l \in Loads : FreeLoad(l) /\ Called(l, k)
    BY DEF Get, GetCached, GetStale, GetJoined, GetLoaded, callerVars
  <1>4. Slots'
    <2>1. ASSUME NEW l \in Loads, FreeLoad(l), Called(l, k) PROVE Slots'
      <3>1. load'[l].phase = "called" /\ load[l].phase = "free" /\ \A m \in Loads \ {l} : load'[m] = load[m]
        BY <1>2, <2>1, FreeIs DEF FreeLoad, Called, Free
      <3> QED BY <1>2, <3>1, SlotsKept
    <2> QED BY <1>2, <1>3, <2>1, SlotsKept
  <1> QED BY <1>1, <1>4 DEF CacheInv, Fits

LEMMA InitFits == Init => CacheInv
  <1> SUFFICES ASSUME Init PROVE CacheInv
    OBVIOUS
  <1>1. TypeOK
    BY FreeIs, LimitsAssumption DEF Init, TypeOK, Idle, Version
  <1>2. Present(entry) = {}
    BY DEF Init, Present
  <1>3. Booked
    <2>1. IsFiniteSet({}) /\ Cardinality({}) = 0 /\ Weight(entry, {}) = 0
      BY WeightNone, FS_EmptySet
    <2>2. Book(entry, bytes)
      BY <1>1, <1>2, <2>1 DEF Init, Book, Entries, TypeOK
    <2>3. bytes = 0 /\ 0 <= MaxBytes /\ 0 <= MaxEntries
      BY LimitsAssumption DEF Init
    <2>4. Cardinality(Present(entry)) = 0
      BY <1>2, <2>1
    <2> QED BY <2>2, <2>3, <2>4 DEF Booked
  <1>4. Ranked
    BY DEF Init, Ranked
  <1>5. Versions
    BY FreeIs DEF Init, Versions, Upheld, Served, OneLoadPerKey, ReadYourWrites, Idle
  <1>6. Slots
    <2>1. Running(load) = {}
      BY FreeIs DEF Init, Running
    <2>2. Cardinality({l \in Loads : load[l].phase = "running"}) = 0
      BY <2>1, FS_EmptySet DEF Running
    <2> QED BY <2>2, LimitsAssumption DEF Init, Slots, SlotsExact
  <1> QED BY <1>1, <1>3, <1>4, <1>5, <1>6 DEF CacheInv

LEMMA RestFits == ASSUME CacheInv, UNCHANGED vars PROVE CacheInv'
  <1>1. TypeOK' /\ Booked' /\ Ranked'
    BY DEF vars, CacheInv, TypeOK, Booked, Ranked, Present
  <1>2. Versions'
    BY DEF vars, CacheInv, Versions, Upheld, Served, OneLoadPerKey, ReadYourWrites, Attached, Present
  <1>3. Slots'
    BY SlotsKept DEF vars, CacheInv, poolVars
  <1> QED BY <1>1, <1>2, <1>3 DEF CacheInv

LEMMA CacheInvariant == Spec => []CacheInv
  <1>1. CacheInv /\ [Next]_vars => CacheInv'
    <2> SUFFICES ASSUME CacheInv, [Next]_vars PROVE CacheInv'
      OBVIOUS
    <2>1. CASE Prune
      <3>1. PICK k \in Keys : TRUE
        BY <2>1 DEF Prune, Present
      <3> QED BY <2>1, EntryFits
    <2>2. ASSUME NEW l \in Loads, Run(l) \/ QueueTimeout(l) \/ Read(l) \/ Finish(l) \/ LoadFails(l)
          PROVE  CacheInv'
      BY <2>2, RunFits, QueueTimeoutFits, ReadFits, FinishFits, LoadFailsFits
    <2> QED BY <2>1, <2>2, EntryFits, GetsFit, MutationFits, RestFits DEF Next
  <1> QED BY <1>1, InitFits, PTL DEF Spec

\* However loads, timeouts, evictions and mutations interleave, a request that
\* starts after a mutation has returned is never answered with what was read
\* before it (trpc.ts:21-27, queryCache.ts:89-90).
THEOREM CacheReadsYourWrites == Spec => []ReadYourWrites
  <1>1. CacheInv => ReadYourWrites
    BY DEF CacheInv, Versions
  <1> QED BY <1>1, CacheInvariant, PTL

\* A load that runs keeps its entry until a mutation invalidates it, so that
\* no second one starts for its key (queryCache.ts:62).
THEOREM CacheLoadsOnce == Spec => []OneLoadPerKey
  <1>1. CacheInv => OneLoadPerKey
    BY DEF CacheInv, Versions
  <1> QED BY <1>1, CacheInvariant, PTL

\* The bytes and entries of the cache and the slots of the pool are counted
\* exactly, and within their limits (queryCache.ts:62-102, requestWorkPool.ts:12-27).
THEOREM CacheAccounted == Spec => []Accounted
  <1>1. CacheInv => Accounted
    BY DEF CacheInv, Accounted, WithinLimits, Booked, Book, Slots
  <1> QED BY <1>1, CacheInvariant, PTL
=============================================================================
