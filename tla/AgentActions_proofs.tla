------------------------- MODULE AgentActions_proofs -------------------------
(***************************************************************************)
(* Proofs about the action workers, for any ports, states, workers and     *)
(* capacities.  The inductive invariant has four parts: where the jobs     *)
(* are, the books of reservations and counts, what the jobs of the latest  *)
(* state have made of the shared configuration, and the order that keeps   *)
(* workers from waiting for jobs that no worker is left to run.            *)
(***************************************************************************)
EXTENDS AgentActions, SequenceTheorems, FiniteSetTheorems, WellFoundedInduction, TLAPS

Numbers == {0} \cup Issues
Keys == {Key(j) : j \in Jobs}

Waits == {"entering", "ingress", "queued", "waiting", "running"}
JobState == [phase : {"none", "made", "ending", "settled", "done"} \cup Waits,
             ok : BOOLEAN, ran : BOOLEAN, counted : BOOLEAN]
Transaction == [open : BOOLEAN, before : Numbers, left : Int, failed : BOOLEAN]

ActionsType ==
    /\ latest \in Numbers /\ reserved \in [Keys -> Numbers] /\ pending \in Nat
    /\ todo \in [Issues -> Seq(Jobs)] /\ ingress \in Seq(Jobs) /\ queue \in Seq(Jobs)
    /\ job \in [Jobs -> JobState]
    /\ conf \in [content : Numbers, generation : Numbers] /\ tx \in [Issues -> Transaction]
    /\ hand \in [Ports -> [Issues -> {"idle", "stopped", "commit", "rollback", "restoring"}]]
    /\ fxp \in SUBSET Ports

\* A queue holds jobs that are in one phase, each once.
Holds(q, jobs, phase) ==
    /\ \A n \in DOMAIN q : jobs[q[n]].phase = phase
    /\ \A m, n \in DOMAIN q : q[m] = q[n] => m = n

\* How far a job has come says what it has to show.
Shows(j) ==
    /\ Phase(j) # "none" => j.issue <= latest
    /\ Phase(j) = "made" => ~job[j].counted
    /\ Phase(j) = "none" => ~job[j].counted
    /\ Phase(j) \in Waits => job[j].counted
    /\ job[j].ok => Phase(j) \in {"ending", "settled", "done"}

Placed ==
    /\ ActionsType
    /\ Holds(ingress, job, "ingress") /\ Holds(queue, job, "queued")
    /\ \A j \in Jobs : Shows(j)

Counted == {j \in Jobs : Unfinished(j) /\ job[j].counted}

Booked ==
    /\ \A j \in Jobs : reserved[Key(j)] = j.issue =>
         Phase(j) = "made" \/ (Unfinished(j) /\ job[j].counted)
    /\ \A j \in Jobs : Unfinished(j) /\ ~Older(j) =>
         \/ reserved[Key(j)] = j.issue
         \/ j.kind = "handoff" /\ Phase(j) = "made"
    /\ pending = Cardinality(Counted)

\* The sync and the applies of the latest state.
Sync == Job("sync", None, latest)
Apply(p) == Job("apply", p, latest)

Resolved(j) == Phase(j) \in {"settled", "done"}
Succeeded(j) == job[j].ok
Unresolved == {p \in Ports : ~Resolved(Apply(p))}

\* What the sync of the latest state wrote stands until one of its moves fails,
\* and its transaction is open until the last of them resolves.
Stands ==
    Succeeded(Sync) /\ (\A p \in Ports : Resolved(Apply(p)) => Succeeded(Apply(p))) =>
        /\ conf.content = latest /\ fxp = {}
        /\ IF Unresolved = {} THEN conf.generation = 0
                              ELSE tx[latest].open /\ conf.generation = latest

Latest ==
    /\ Phase(Sync) # "none" /\ \A p \in Ports : Phase(Apply(p)) # "none"
    /\ tx[latest].left = Cardinality(Unresolved)
    /\ tx[latest].failed => \E p \in Ports : Resolved(Apply(p)) /\ ~Succeeded(Apply(p))
    /\ Succeeded(Sync) => \A j \in Jobs : j.kind = "sync" => Phase(j) # "running"
    /\ Stands

Moves ==
    /\ \A j \in Jobs : j.kind = "apply" /\ Resolved(j) => Phase(Job("sync", None, j.issue)) = "done"
    /\ \A j, k \in Jobs : j.kind = "sync" /\ Phase(j) = "running" /\ Phase(k) = "running" => j = k
    /\ \A i \in Issues : i > latest => ~tx[i].failed
    /\ latest > 0 => Latest

ActionsInv == Placed /\ Booked /\ Moves
-----------------------------------------------------------------------------
(* The jobs. *)

LEMMA IssuesFit == /\ Issues \subseteq Nat /\ 0 \notin Issues /\ Issues \subseteq Numbers /\ Numbers \subseteq Nat
                   /\ \A i \in Issues : i > 0
                   /\ IsFiniteSet(Issues)
  <1>1. MaxIssue \in Nat
    BY ActionsAssumption
  <1> QED BY <1>1, FS_Interval DEF Issues, Numbers

LEMMA PortsFit == PortList \in Seq(Ports) /\ IsFiniteSet(Ports) /\ Ports # {} /\ None \notin Ports
                  /\ \A p \in Ports : \E n \in 1..Len(PortList) : PortList[n] = p
  <1>1. PortList \in Seq(Ports) /\ PortList # <<>> /\ None \notin Ports
    BY ActionsAssumption
  <1>2. Len(PortList) \in Nat /\ DOMAIN PortList = 1..Len(PortList)
    BY <1>1
  <1>3. \A p \in Ports : \E n \in 1..Len(PortList) : PortList[n] = p
    BY <1>2 DEF Ports, ToSet
  <1>4. PortList \in Surjection(1..Len(PortList), Ports)
    BY <1>1, <1>2, <1>3 DEF Surjection
  <1>5. IsFiniteSet(1..Len(PortList))
    BY <1>2, FS_Interval
  <1>6. Ports # {}
    <2>1. Len(PortList) # 0
      BY <1>1
    <2>2. PortList[1] \in Ports
      BY <1>1, <1>2, <2>1
    <2> QED BY <2>2
  <1> QED BY <1>1, <1>3, <1>4, <1>5, <1>6, FS_Surjection

LEMMA JobIs == ASSUME NEW j \in Jobs
               PROVE  /\ j.kind \in {"handoff", "sync", "apply"} /\ j.issue \in Issues
                      /\ j.kind = "sync" => j.port = None
                      /\ j.kind # "sync" => j.port \in Ports
                      /\ j = Job(j.kind, j.port, j.issue)
                      /\ Key(j) \in Keys /\ Key(j)[1] = j.kind
                      /\ j.issue \in Nat /\ j.issue # 0
  <1>1. /\ j.kind \in {"handoff", "sync", "apply"} /\ j.issue \in Issues
        /\ j.kind = "sync" => j.port = None
        /\ j.kind # "sync" => j.port \in Ports
        /\ j = Job(j.kind, j.port, j.issue)
    BY DEF Jobs, Job
  <1> QED BY <1>1, IssuesFit DEF Keys, Key

LEMMA IsJob == ASSUME NEW i \in Issues
               PROVE  /\ Job("sync", None, i) \in Jobs
                      /\ \A p \in Ports : Job("apply", p, i) \in Jobs /\ Job("handoff", p, i) \in Jobs
  BY DEF Jobs

LEMMA SameJob == ASSUME NEW j \in Jobs, NEW k \in Jobs, Key(j) = Key(k), j.issue = k.issue PROVE j = k
  <1>1. j = Job(j.kind, j.port, j.issue) /\ k = Job(k.kind, k.port, k.issue)
    BY JobIs
  <1>2. j.kind = k.kind /\ j.port = k.port
    BY DEF Key
  <1> QED BY <1>1, <1>2

LEMMA JobsFinite == IsFiniteSet(Jobs)
  <1> DEFINE K == {"handoff", "sync", "apply"}
             P == Ports \cup {None}
             T == (K \X P) \X Issues
             f == [t \in T |-> Job(t[1][1], t[1][2], t[2])]
             R == {f[t] : t \in T}
  <1>1. IsFiniteSet(K)
    <2>1. IsFiniteSet({"handoff"})
      BY FS_Singleton
    <2>2. IsFiniteSet({"handoff"} \cup {"sync"})
      BY <2>1, FS_AddElement
    <2>3. IsFiniteSet(({"handoff"} \cup {"sync"}) \cup {"apply"})
      BY <2>2, FS_AddElement
    <2>4. ({"handoff"} \cup {"sync"}) \cup {"apply"} = K
      OBVIOUS
    <2> QED BY <2>3, <2>4
  <1>2. IsFiniteSet(P)
    BY PortsFit, FS_AddElement
  <1>3. IsFiniteSet(T)
    <2> HIDE DEF K, P
    <2> QED BY <1>1, <1>2, IssuesFit, FS_Product
  <1>4. f \in Surjection(T, R)
    BY DEF Surjection
  <1>5. IsFiniteSet(R)
    BY <1>3, <1>4, FS_Surjection
  <1>6. Jobs \subseteq R
    <2> SUFFICES ASSUME NEW j \in Jobs PROVE j \in R
      OBVIOUS
    <2>1. j.kind \in K /\ j.port \in P /\ j.issue \in Issues /\ j = Job(j.kind, j.port, j.issue)
      BY JobIs
    <2>2. <<<<j.kind, j.port>>, j.issue>> \in T
      BY <2>1
    <2>3. f[<<<<j.kind, j.port>>, j.issue>>] = j
      BY <2>1, <2>2
    <2> HIDE DEF T, f
    <2> QED BY <2>2, <2>3
  <1> HIDE DEF R
  <1> QED BY <1>5, <1>6, FS_Subset
-----------------------------------------------------------------------------
(* Sequences. *)

LEMMA LeastNumber ==
    ASSUME NEW S \in SUBSET Nat, S # {}
    PROVE  \E m \in S : \A k \in S : m <= k
  <1> DEFINE Smaller == {p \in Nat \X Nat : p[1] < p[2]}
  <1>1. IsWellFoundedOn(Smaller, Nat)
    BY NatLessThanWellFounded DEF OpToRel
  <1>2. PICK m \in S : \A k \in S : <<k, m>> \notin Smaller
    BY <1>1, WFMin
  <1>3. \A k \in S : ~ (k < m)
    BY <1>2
  <1> QED BY <1>2, <1>3

\* What the recursion in Moved defines, up to place n.
Chooses(f, n) ==
    f = [k \in 0..n |-> IF k = 0 THEN <<>>
                        ELSE IF PortList[k] \in fxp THEN Append(f[k - 1], PortList[k]) ELSE f[k - 1]]

LEMMA ChoosesMore ==
    ASSUME NEW n \in Nat, n # 0, NEW f, Chooses(f, n - 1)
    PROVE  \E g : Chooses(g, n)
  <1> DEFINE next == IF PortList[n] \in fxp THEN Append(f[n - 1], PortList[n]) ELSE f[n - 1]
             g == [k \in 0..n |-> IF k = n THEN next ELSE f[k]]
  <1>1. n - 1 \in 0..(n - 1) /\ n - 1 \in 0..n /\ n \in 0..n /\ n - 1 # n
    OBVIOUS
  <1>2. ASSUME NEW k \in 0..n
        PROVE  g[k] = IF k = 0 THEN <<>>
                      ELSE IF PortList[k] \in fxp THEN Append(g[k - 1], PortList[k]) ELSE g[k - 1]
    <2>1. CASE k = n
      <3>1. g[k] = next /\ g[k - 1] = f[n - 1] /\ k # 0
        BY <1>1, <2>1
      <3> QED BY <2>1, <3>1
    <2>2. CASE k # n
      <3>1. k \in 0..(n - 1)
        BY <2>2
      <3>2. f[k] = IF k = 0 THEN <<>>
                   ELSE IF PortList[k] \in fxp THEN Append(f[k - 1], PortList[k]) ELSE f[k - 1]
        BY <3>1, Zenon DEF Chooses
      <3>3. g[k] = f[k] /\ (k # 0 => g[k - 1] = f[k - 1])
        BY <2>2, <3>1
      <3> QED BY <3>2, <3>3
    <2> QED BY <2>1, <2>2
  <1> HIDE DEF next
  <1>3. Chooses(g, n)
    BY <1>2, Zenon DEF Chooses
  <1> QED BY <1>3

LEMMA ChoosesExists == ASSUME NEW n \in Nat PROVE \E f : Chooses(f, n)
  <1> DEFINE S == {m \in Nat : ~ \E f : Chooses(f, m)}
  <1> SUFFICES ASSUME n \in S PROVE FALSE
    OBVIOUS
  <1>1. S \in SUBSET Nat /\ S # {}
    OBVIOUS
  <1>2. PICK m \in S : \A l \in S : m <= l
    <2> HIDE DEF S
    <2> QED BY <1>1, LeastNumber
  <1>3. m \in Nat /\ \A f : ~Chooses(f, m)
    BY <1>2
  <1>4. m # 0
    <2>1. Chooses([k \in 0..0 |-> <<>>], 0)
      BY DEF Chooses
    <2> QED BY <1>3, <2>1
  <1>5. m - 1 \in Nat /\ ~ (m <= m - 1)
    BY <1>3, <1>4
  <1>6. PICK f : Chooses(f, m - 1)
    BY <1>2, <1>5
  <1> QED BY <1>3, <1>4, <1>6, ChoosesMore

LEMMA ChosenFits ==
    ASSUME NEW f, Chooses(f, Len(PortList)), NEW n \in 0..Len(PortList)
    PROVE  f[n] \in Seq(Ports)
  <1> DEFINE S == {k \in 0..Len(PortList) : f[k] \notin Seq(Ports)}
  <1> SUFFICES ASSUME n \in S PROVE FALSE
    OBVIOUS
  <1>1. PortList \in Seq(Ports) /\ Len(PortList) \in Nat
    BY PortsFit
  <1>2. S \in SUBSET Nat /\ S # {}
    BY <1>1
  <1>3. PICK m \in S : \A k \in S : m <= k
    <2> HIDE DEF S
    <2> QED BY <1>2, LeastNumber
  <1>4. m \in 0..Len(PortList) /\ f[m] \notin Seq(Ports)
    BY <1>3
  <1>5. f[m] = IF m = 0 THEN <<>>
               ELSE IF PortList[m] \in fxp THEN Append(f[m - 1], PortList[m]) ELSE f[m - 1]
    BY <1>4, Zenon DEF Chooses
  <1>6. m # 0
    BY <1>4, <1>5
  <1>7. m - 1 \in 0..Len(PortList) /\ ~ (m <= m - 1) /\ m \in 1..Len(PortList)
    BY <1>1, <1>4, <1>6
  <1>8. f[m - 1] \in Seq(Ports)
    BY <1>3, <1>7
  <1>9. PortList[m] \in Ports
    BY <1>1, <1>7
  <1> QED BY <1>4, <1>5, <1>6, <1>8, <1>9

LEMMA MovedFits == Moved \in Seq(Ports)
  <1>1. Len(PortList) \in Nat /\ Len(PortList) \in 0..Len(PortList)
    BY PortsFit
  <1> DEFINE f == CHOOSE g : Chooses(g, Len(PortList))
  <1>2. Chooses(f, Len(PortList))
    BY <1>1, ChoosesExists, Zenon
  <1>3. Moved = f[Len(PortList)]
    BY DEF Moved, Chooses
  <1> HIDE DEF f
  <1> QED BY <1>1, <1>2, <1>3, ChosenFits

LEMMA RemovedFits ==
    ASSUME NEW q \in Seq(Jobs), NEW i \in DOMAIN q
    PROVE  /\ RemoveAt(q, i) \in Seq(Jobs) /\ Len(RemoveAt(q, i)) = Len(q) - 1
           /\ \A j \in 1..(Len(q) - 1) : RemoveAt(q, i)[j] = IF j < i THEN q[j] ELSE q[j + 1]
  <1>1. i \in 1..Len(q) /\ Len(q) \in Nat
    OBVIOUS
  <1>2. PICK a : a = SubSeq(q, 1, i-1)
    OBVIOUS
  <1>3. PICK b : b = SubSeq(q, i+1, Len(q))
    OBVIOUS
  <1>4. a \in Seq(Jobs) /\ Len(a) = i - 1 /\ \A j \in 1..(i-1) : a[j] = q[j]
    BY <1>1, <1>2, SubSeqProperties
  <1>5. b \in Seq(Jobs) /\ Len(b) = Len(q) - i /\ \A j \in 1..(Len(q)-i) : b[j] = q[j+i]
    BY <1>1, <1>3, SubSeqProperties
  <1>6. RemoveAt(q, i) = a \o b
    BY <1>2, <1>3 DEF RemoveAt
  <1>7. /\ a \o b \in Seq(Jobs) /\ Len(a \o b) = Len(a) + Len(b)
        /\ \A j \in 1..(Len(a) + Len(b)) : (a \o b)[j] = IF j <= Len(a) THEN a[j] ELSE b[j - Len(a)]
    BY <1>4, <1>5, ConcatProperties
  <1>8. Len(a) + Len(b) = Len(q) - 1
    BY <1>1, <1>4, <1>5
  <1>9. ASSUME NEW j \in 1..(Len(q) - 1) PROVE (a \o b)[j] = IF j < i THEN q[j] ELSE q[j + 1]
    <2>1. (a \o b)[j] = IF j <= i - 1 THEN a[j] ELSE b[j - (i - 1)]
      BY <1>4, <1>7, <1>8
    <2>2. CASE j < i
      <3>1. j \in 1..(i-1)
        BY <1>1, <2>2
      <3> QED BY <1>1, <1>4, <2>1, <2>2, <3>1
    <2>3. CASE ~(j < i)
      <3>1. j - (i - 1) \in 1..(Len(q) - i) /\ (j - (i - 1)) + i = j + 1
        BY <1>1, <2>3
      <3>2. b[j - (i - 1)] = q[j + 1]
        BY <1>5, <3>1
      <3> QED BY <1>1, <2>1, <2>3, <3>2
    <2> QED BY <2>2, <2>3
  <1> QED BY <1>6, <1>7, <1>8, <1>9

LEMMA PhaseFits ==
    ASSUME NEW i \in Issues, NEW kind \in {"handoff", "apply"}, NEW s \in Seq(Ports), NEW q,
           q = [n \in 1..Len(s) |-> Job(kind, s[n], i)]
    PROVE  /\ q \in Seq(Jobs) /\ Len(q) = Len(s)
           /\ \A n \in 1..Len(s) : q[n] = Job(kind, s[n], i) /\ q[n].issue = i
  <1>1. Len(s) \in Nat /\ \A n \in 1..Len(s) : s[n] \in Ports
    OBVIOUS
  <1>2. \A n \in 1..Len(s) : Job(kind, s[n], i) \in Jobs
    BY <1>1, IsJob
  <1>3. q \in [1..Len(s) -> Jobs] /\ \A n \in 1..Len(s) : q[n] = Job(kind, s[n], i)
    BY <1>2
  <1>4. q \in Seq(Jobs) /\ DOMAIN q = 1..Len(q) /\ Len(q) \in Nat
    BY <1>1, <1>3, SeqDef
  <1>5. Len(q) = Len(s)
    BY <1>1, <1>3, <1>4
  <1>6. \A n \in 1..Len(s) : q[n].issue = i
    BY <1>3 DEF Job
  <1> QED BY <1>3, <1>4, <1>5, <1>6

LEMMA BatchFits ==
    ASSUME NEW i \in Issues, NEW moved \in Seq(Ports)
    PROVE  /\ Batch(i, moved) \in Seq(Jobs)
           /\ \A j \in ToSet(Batch(i, moved)) : j \in Jobs /\ j.issue = i
           /\ \A j \in Jobs : j.issue = i /\ j.kind # "handoff" => j \in ToSet(Batch(i, moved))
  <1>1. Len(moved) \in Nat /\ Len(PortList) \in Nat /\ PortList \in Seq(Ports)
    BY PortsFit
  <1>2. PICK a : a = [n \in 1..Len(moved) |-> Job("handoff", moved[n], i)]
    OBVIOUS
  <1>3. PICK b : b = <<Job("sync", None, i)>>
    OBVIOUS
  <1>4. PICK c : c = [n \in 1..Len(PortList) |-> Job("apply", PortList[n], i)]
    OBVIOUS
  <1>5. Batch(i, moved) = (a \o b) \o c
    BY <1>2, <1>3, <1>4 DEF Batch
  <1>6. a \in Seq(Jobs) /\ Len(a) = Len(moved) /\ \A n \in 1..Len(a) : a[n].issue = i
    <2>1. a \in Seq(Jobs) /\ Len(a) = Len(moved) /\ \A n \in 1..Len(moved) : a[n].issue = i
      BY <1>2, PhaseFits
    <2> QED BY <2>1
  <1>7. b \in Seq(Jobs) /\ Len(b) = 1 /\ b[1] = Job("sync", None, i) /\ b[1].issue = i
    BY <1>3, IsJob DEF Job
  <1>8. c \in Seq(Jobs) /\ Len(c) = Len(PortList)
        /\ \A n \in 1..Len(c) : c[n] = Job("apply", PortList[n], i) /\ c[n].issue = i
    <2>1. c \in Seq(Jobs) /\ Len(c) = Len(PortList)
          /\ \A n \in 1..Len(PortList) : c[n] = Job("apply", PortList[n], i) /\ c[n].issue = i
      BY <1>1, <1>4, PhaseFits
    <2> QED BY <2>1
  <1>9. PICK ab : ab = a \o b
    OBVIOUS
  <1>10. /\ ab \in Seq(Jobs) /\ Len(ab) = Len(a) + 1
        /\ \A n \in 1..(Len(a) + 1) : ab[n] = IF n <= Len(a) THEN a[n] ELSE b[n - Len(a)]
    <2>1. /\ ab \in Seq(Jobs) /\ Len(ab) = Len(a) + Len(b)
          /\ \A n \in 1..(Len(a) + Len(b)) : ab[n] = IF n <= Len(a) THEN a[n] ELSE b[n - Len(a)]
      BY <1>6, <1>7, <1>9, ConcatProperties
    <2> QED BY <1>7, <2>1
  <1>11. PICK d : d = Batch(i, moved)
    OBVIOUS
  <1>12. /\ d \in Seq(Jobs) /\ Len(d) = Len(ab) + Len(c)
        /\ \A n \in 1..(Len(ab) + Len(c)) : d[n] = IF n <= Len(ab) THEN ab[n] ELSE c[n - Len(ab)]
    BY <1>8, <1>5, <1>9, <1>10, <1>11, ConcatProperties
  <1>13. Len(a) \in Nat /\ Len(c) \in Nat /\ Len(ab) \in Nat /\ Len(d) \in Nat /\ DOMAIN d = 1..Len(d)
    BY <1>6, <1>8, <1>10, <1>12
  <1>14. ASSUME NEW n \in 1..Len(d) PROVE d[n].issue = i
    <2>1. CASE n <= Len(a)
      <3>1. n \in 1..Len(a) /\ n \in 1..(Len(a) + 1) /\ n <= Len(ab)
        BY <1>10, <1>13, <2>1
      <3>2. d[n] = a[n]
        BY <1>10, <1>12, <2>1, <3>1
      <3> QED BY <1>6, <3>1, <3>2
    <2>2. CASE n = Len(a) + 1
      <3>1. n \in 1..(Len(a) + 1) /\ n <= Len(ab) /\ n - Len(a) = 1 /\ ~(n <= Len(a))
        BY <1>10, <1>13, <2>2
      <3>2. d[n] = b[1]
        BY <1>10, <1>12, <3>1
      <3> QED BY <1>7, <3>2
    <2>3. CASE n > Len(a) + 1
      <3>1. ~(n <= Len(ab)) /\ n - Len(ab) \in 1..Len(c)
        BY <1>10, <1>12, <1>13, <2>3
      <3>2. d[n] = c[n - Len(ab)]
        BY <1>12, <3>1
      <3> QED BY <1>8, <3>1, <3>2
    <2> QED BY <1>13, <2>1, <2>2, <2>3
  <1>15. ASSUME NEW j \in Jobs, j.issue = i, j.kind # "handoff" PROVE \E n \in 1..Len(d) : d[n] = j
    <2>1. CASE j.kind = "sync"
      <3>1. j = b[1]
        BY <1>7, <1>15, <2>1, JobIs
      <3>2. Len(ab) \in 1..Len(d) /\ Len(ab) \in 1..(Len(a) + 1) /\ Len(ab) - Len(a) = 1 /\ ~(Len(ab) <= Len(a))
        BY <1>10, <1>12, <1>13
      <3>3. d[Len(ab)] = ab[Len(ab)] /\ ab[Len(ab)] = b[1]
        BY <1>10, <1>12, <3>2
      <3> QED BY <3>1, <3>2, <3>3
    <2>2. CASE j.kind = "apply"
      <3>1. j.port \in Ports /\ j = Job("apply", j.port, i)
        BY <1>15, <2>2, JobIs
      <3>2. PICK n \in 1..Len(PortList) : PortList[n] = j.port
        BY <3>1, PortsFit
      <3>3. n \in 1..Len(c) /\ c[n] = j
        BY <1>8, <3>1, <3>2
      <3>4. Len(ab) + n \in 1..Len(d) /\ ~(Len(ab) + n <= Len(ab)) /\ (Len(ab) + n) - Len(ab) = n
        BY <1>12, <1>13, <3>3
      <3>5. d[Len(ab) + n] = c[n]
        BY <1>12, <3>4
      <3> QED BY <3>3, <3>4, <3>5
    <2> QED BY <1>15, <2>1, <2>2, JobIs
  <1>16. \A j \in ToSet(d) : j \in Jobs /\ j.issue = i
    BY <1>12, <1>13, <1>14 DEF ToSet
  <1>17. \A j \in Jobs : j.issue = i /\ j.kind # "handoff" => j \in ToSet(d)
    BY <1>13, <1>15 DEF ToSet
  <1> QED BY <1>11, <1>12, <1>16, <1>17
-----------------------------------------------------------------------------
(* What a step does to one job, and to the parts of the invariant.         *)

Turns(j, r) ==
    /\ job' \in [Jobs -> JobState] /\ job'[j] = r
    /\ \A k \in Jobs : k # j => job'[k] = job[k]

LEMMA JobSet == ASSUME ActionsType, NEW j \in Jobs, NEW r \in JobState, job' = [job EXCEPT ![j] = r]
                PROVE  Turns(j, r)
  BY DEF ActionsType, Turns

LEMMA PhaseSet == ASSUME ActionsType, NEW j \in Jobs,
                         NEW phase \in {"ending", "ingress", "queued", "waiting", "running"},
                         job' = [job EXCEPT ![j].phase = phase]
                  PROVE  Turns(j, [job[j] EXCEPT !.phase = phase])
  <1>1. job[j] \in JobState
    BY DEF ActionsType
  <1>2. [job[j] EXCEPT !.phase = phase] \in JobState
    BY <1>1 DEF JobState, Waits
  <1>3. job' = [job EXCEPT ![j] = [job[j] EXCEPT !.phase = phase]]
    OBVIOUS
  <1> QED BY <1>2, <1>3, JobSet

LEMMA JobFields == ASSUME ActionsType, NEW j \in Jobs
                   PROVE  /\ job[j] \in JobState /\ job[j].ok \in BOOLEAN /\ job[j].counted \in BOOLEAN
                          /\ Phase(j) \in {"none", "made", "ending", "settled", "done"} \cup Waits
                          /\ \A phase : [job[j] EXCEPT !.phase = phase].phase = phase
                               /\ [job[j] EXCEPT !.phase = phase].ok = job[j].ok
                               /\ [job[j] EXCEPT !.phase = phase].counted = job[j].counted
  BY DEF ActionsType, JobState, Phase

\* The jobs of a queue stay as they are; one leaves, or enters.
LEMMA StillHolds ==
    ASSUME NEW q \in Seq(Jobs), NEW b, NEW c, NEW phase, Holds(q, b, phase),
           \A k \in Jobs : b[k].phase = phase => c[k].phase = phase
    PROVE  Holds(q, c, phase)
  <1>1. \A n \in DOMAIN q : q[n] \in Jobs
    OBVIOUS
  <1> QED BY <1>1 DEF Holds

LEMMA RemoveHolds ==
    ASSUME NEW q \in Seq(Jobs), NEW i \in DOMAIN q, NEW b, NEW c, NEW phase, Holds(q, b, phase),
           \A k \in Jobs : k # q[i] /\ b[k].phase = phase => c[k].phase = phase
    PROVE  RemoveAt(q, i) \in Seq(Jobs) /\ Holds(RemoveAt(q, i), c, phase)
  <1>1. PICK r : r = RemoveAt(q, i)
    OBVIOUS
  <1>2. /\ r \in Seq(Jobs) /\ Len(r) = Len(q) - 1
        /\ \A j \in 1..(Len(q) - 1) : r[j] = IF j < i THEN q[j] ELSE q[j + 1]
    BY <1>1, RemovedFits
  <1>3. i \in 1..Len(q) /\ Len(q) \in Nat /\ DOMAIN q = 1..Len(q) /\ DOMAIN r = 1..(Len(q) - 1)
    BY <1>2
  <1> DEFINE from(n) == IF n < i THEN n ELSE n + 1
  <1>4. \A n \in DOMAIN r : from(n) \in DOMAIN q /\ from(n) # i /\ r[n] = q[from(n)]
    BY <1>2, <1>3
  <1>5. \A m, n \in DOMAIN r : from(m) = from(n) => m = n
    BY <1>3
  <1> HIDE DEF from
  <1>6. \A n \in DOMAIN r : c[r[n]].phase = phase
    <2> SUFFICES ASSUME NEW n \in DOMAIN r PROVE c[r[n]].phase = phase
      OBVIOUS
    <2>1. q[from(n)] # q[i] /\ q[from(n)] \in Jobs /\ b[q[from(n)]].phase = phase
      BY <1>4 DEF Holds
    <2> QED BY <1>4, <2>1
  <1>7. \A m, n \in DOMAIN r : r[m] = r[n] => m = n
    BY <1>4, <1>5 DEF Holds
  <1> QED BY <1>1, <1>2, <1>6, <1>7 DEF Holds

LEMMA TailHolds ==
    ASSUME NEW q \in Seq(Jobs), q # <<>>, NEW b, NEW c, NEW phase, Holds(q, b, phase),
           \A k \in Jobs : k # Head(q) /\ b[k].phase = phase => c[k].phase = phase
    PROVE  Tail(q) \in Seq(Jobs) /\ Holds(Tail(q), c, phase)
  <1>1. PICK r : r = Tail(q)
    OBVIOUS
  <1>2. /\ r \in Seq(Jobs) /\ Len(r) = Len(q) - 1 /\ 1 \in DOMAIN q /\ Head(q) = q[1]
        /\ \A n \in DOMAIN r : r[n] = q[n + 1] /\ n + 1 \in DOMAIN q /\ n + 1 # 1 /\ n \in Int
    BY <1>1
  <1>3. \A n \in DOMAIN r : c[r[n]].phase = phase
    <2> SUFFICES ASSUME NEW n \in DOMAIN r PROVE c[r[n]].phase = phase
      OBVIOUS
    <2>1. q[n + 1] # q[1] /\ q[n + 1] \in Jobs /\ b[q[n + 1]].phase = phase
      BY <1>2 DEF Holds
    <2> QED BY <1>2, <2>1
  <1>4. \A m, n \in DOMAIN r : r[m] = r[n] => m = n
    <2>1. \A m, n \in DOMAIN r : r[m] = r[n] => m + 1 = n + 1
      BY <1>2 DEF Holds
    <2> QED BY <1>2, <2>1
  <1> QED BY <1>1, <1>2, <1>3, <1>4 DEF Holds

LEMMA HeadHolds ==
    ASSUME NEW q \in Seq(Jobs), q # <<>>, NEW b, NEW phase, Holds(q, b, phase)
    PROVE  Head(q) \in Jobs /\ b[Head(q)].phase = phase
  <1>1. 1 \in DOMAIN q /\ Head(q) = q[1] /\ q[1] \in Jobs
    OBVIOUS
  <1> QED BY <1>1 DEF Holds

LEMMA AppendHolds ==
    ASSUME NEW q \in Seq(Jobs), NEW j \in Jobs, NEW b, NEW c, NEW phase, Holds(q, b, phase),
           b[j].phase # phase, c[j].phase = phase,
           \A k \in Jobs : b[k].phase = phase => c[k].phase = phase
    PROVE  Append(q, j) \in Seq(Jobs) /\ Holds(Append(q, j), c, phase)
  <1>1. PICK r : r = Append(q, j)
    OBVIOUS
  <1>2. /\ r \in Seq(Jobs) /\ r[Len(q) + 1] = j
        /\ \A n \in DOMAIN r : n = Len(q) + 1 \/ (n \in DOMAIN q /\ r[n] = q[n])
    BY <1>1
  <1>3. \A n \in DOMAIN q : q[n] \in Jobs /\ b[q[n]].phase = phase /\ q[n] # j
    BY DEF Holds
  <1>4. \A n \in DOMAIN r : c[r[n]].phase = phase
    BY <1>2, <1>3
  <1>5. \A m, n \in DOMAIN r : r[m] = r[n] => m = n
    BY <1>2, <1>3 DEF Holds
  <1> QED BY <1>1, <1>2, <1>4, <1>5 DEF Holds

LEMMA OneTurns ==
    ASSUME Placed, ActionsType', UNCHANGED <<latest, ingress, queue>>,
           NEW j \in Jobs, \A k \in Jobs : k # j => job'[k] = job[k],
           Phase(j) \notin {"ingress", "queued"}, Shows(j)'
    PROVE  Placed'
  <1>1. \A k \in Jobs : /\ job[k].phase = "ingress" => job'[k].phase = "ingress"
                        /\ job[k].phase = "queued" => job'[k].phase = "queued"
    BY DEF Phase
  <1>2. Holds(ingress', job', "ingress") /\ Holds(queue', job', "queued")
    <2>1. ingress \in Seq(Jobs) /\ queue \in Seq(Jobs) /\ ingress' = ingress /\ queue' = queue
          /\ Holds(ingress, job, "ingress") /\ Holds(queue, job, "queued")
      BY DEF Placed, ActionsType
    <2>2. Holds(ingress, job', "ingress")
      BY <1>1, <2>1, StillHolds
    <2>3. Holds(queue, job', "queued")
      BY <1>1, <2>1, StillHolds
    <2> QED BY <2>1, <2>2, <2>3
  <1>3. ASSUME NEW k \in Jobs PROVE Shows(k)'
    <2>1. CASE k = j
      BY <2>1
    <2>2. CASE k # j
      <3>1. Shows(k) /\ job'[k] = job[k] /\ latest' = latest
        BY <2>2 DEF Placed
      <3> QED BY <3>1 DEF Shows, Phase
    <2> QED BY <2>1, <2>2
  <1> QED BY <1>2, <1>3 DEF Placed

\* No job begins or ends, and none becomes or ceases to be counted.
LEMMA BooksRest ==
    ASSUME Placed, Booked, UNCHANGED <<latest, reserved, pending>>,
           \A k \in Jobs : /\ Unfinished(k)' = Unfinished(k) /\ job'[k].counted = job[k].counted
                           /\ (Phase(k) = "made") = (Phase(k)' = "made")
    PROVE  Booked'
  <1>1. Counted' = Counted
    BY DEF Counted
  <1>2. ASSUME NEW j \in Jobs, reserved'[Key(j)] = j.issue
        PROVE  Phase(j)' = "made" \/ (Unfinished(j)' /\ job'[j].counted)
    BY <1>2 DEF Booked
  <1>3. ASSUME NEW j \in Jobs, Unfinished(j)', ~Older(j)'
        PROVE  reserved'[Key(j)] = j.issue \/ (j.kind = "handoff" /\ Phase(j)' = "made")
    BY <1>3 DEF Booked, Older
  <1>4. pending' = Cardinality(Counted')
    BY <1>1 DEF Booked
  <1> QED BY <1>2, <1>3, <1>4 DEF Booked, Key

\* Nothing happens that the configuration depends on.
Idles(k) ==
    /\ Phase(k) # "none" => Phase(k)' # "none"
    /\ Phase(k) = "done" => Phase(k)' = "done"
    /\ Phase(k)' = "running" => Phase(k) = "running"
    /\ k.kind = "sync" /\ Succeeded(k)' => Succeeded(k)
    /\ k.kind = "apply" => Resolved(k)' = Resolved(k) /\ (Resolved(k) => Succeeded(k)' = Succeeded(k))

LEMMA MovesRest ==
    ASSUME ActionsType, Moves, UNCHANGED <<latest, conf, tx>>, conf.content > 0 => fxp' \subseteq fxp,
           \A k \in Jobs : Idles(k)
    PROVE  Moves'
  <1>1. latest > 0 => Sync \in Jobs /\ Sync.kind = "sync" /\ \A p \in Ports : Apply(p) \in Jobs /\ Apply(p).kind = "apply"
    <2> SUFFICES ASSUME latest > 0 PROVE Sync \in Jobs /\ Sync.kind = "sync" /\ \A p \in Ports : Apply(p) \in Jobs /\ Apply(p).kind = "apply"
      OBVIOUS
    <2>1. latest \in Issues
      BY DEF ActionsType, Numbers
    <2> QED BY <2>1, IsJob DEF Sync, Apply, Job
  <1>2. ASSUME NEW j \in Jobs, j.kind = "apply", Resolved(j)' PROVE Phase(Job("sync", None, j.issue))' = "done"
    <2>1. Resolved(j) /\ Job("sync", None, j.issue) \in Jobs
      BY <1>2, JobIs, IsJob DEF Idles
    <2> QED BY <1>2, <2>1 DEF Moves, Idles
  <1>3. ASSUME NEW j \in Jobs, NEW k \in Jobs, j.kind = "sync", Phase(j)' = "running", Phase(k)' = "running"
        PROVE  j = k
    BY <1>3 DEF Moves, Idles
  <1>4. ASSUME latest > 0 PROVE Latest'
    <2>1. Sync' = Sync /\ \A p \in Ports : Apply(p)' = Apply(p)
      BY DEF Sync, Apply
    <2>2. Latest /\ Sync \in Jobs /\ Sync.kind = "sync" /\ \A p \in Ports : Apply(p) \in Jobs /\ Apply(p).kind = "apply"
      BY <1>1, <1>4 DEF Moves
    <2>3. Idles(Sync) /\ \A p \in Ports : Idles(Apply(p))
      BY <2>2
    <2>4. \A p \in Ports : /\ Phase(Apply(p))' # "none" /\ Resolved(Apply(p))' = Resolved(Apply(p))
                           /\ Resolved(Apply(p)) => Succeeded(Apply(p))' = Succeeded(Apply(p))
      BY <2>2, <2>3 DEF Latest, Idles
    <2>5. Phase(Sync)' # "none" /\ (Succeeded(Sync)' => Succeeded(Sync))
      BY <2>2, <2>3 DEF Latest, Idles
    <2>6. Unresolved' = Unresolved
      BY <2>1, <2>4 DEF Unresolved, Resolved, Phase
    <2>8. tx'[latest'].left = Cardinality(Unresolved')
      BY <2>2, <2>6 DEF Latest
    <2>9. tx'[latest'].failed => \E p \in Ports : Resolved(Apply(p))' /\ ~Succeeded(Apply(p))'
      BY <2>2, <2>4 DEF Latest
    <2>10. Succeeded(Sync)' => \A j \in Jobs : j.kind = "sync" => Phase(j)' # "running"
      BY <2>2, <2>5 DEF Latest, Idles
    <2>11. Stands'
      <3> SUFFICES ASSUME Succeeded(Sync)', \A p \in Ports : Resolved(Apply(p))' => Succeeded(Apply(p))'
                   PROVE  /\ conf.content = latest /\ fxp' = {}
                          /\ IF Unresolved = {} THEN conf.generation = 0
                                                ELSE tx[latest].open /\ conf.generation = latest
        BY <2>6 DEF Stands
      <3>1. Succeeded(Sync) /\ \A p \in Ports : Resolved(Apply(p)) => Succeeded(Apply(p))
        BY <2>4, <2>5
      <3>2. /\ conf.content = latest /\ fxp = {}
            /\ IF Unresolved = {} THEN conf.generation = 0
                                  ELSE tx[latest].open /\ conf.generation = latest
        BY <2>2, <3>1 DEF Latest, Stands
      <3> QED BY <1>4, <3>2
    <2> QED BY <2>4, <2>5, <2>8, <2>9, <2>10, <2>11 DEF Latest
  <1> QED BY <1>2, <1>3, <1>4 DEF Moves
-----------------------------------------------------------------------------
(* The steps that leave books and configuration alone. *)

LEMMA SameIdles == ASSUME NEW k, job'[k] = job[k] PROVE Idles(k)
  BY DEF Idles, Phase, Resolved, Succeeded

LEMMA JobsRest ==
    ASSUME ActionsInv, ActionsType', UNCHANGED <<queueVars, job, conf, tx>>, conf.content > 0 => fxp' \subseteq fxp
    PROVE  ActionsInv'
  <1>1. UNCHANGED <<latest, reserved, pending, todo, ingress, queue, job, conf, tx>>
    BY DEF queueVars
  <1>2. Placed'
    BY <1>1 DEF ActionsInv, Placed, Holds, Shows, Phase
  <1>3. Booked'
    BY <1>1, BooksRest DEF ActionsInv, Unfinished, Phase
  <1>4. Moves'
    BY <1>1, SameIdles, MovesRest DEF ActionsInv, Placed
  <1> QED BY <1>2, <1>3, <1>4 DEF ActionsInv

LEMMA StutterFits == ASSUME ActionsInv, UNCHANGED vars PROVE ActionsInv'
  <1>1. UNCHANGED <<queueVars, job, conf, tx, hand, fxp>>
    BY DEF vars, runtimeVars
  <1>2. ActionsType'
    BY <1>1 DEF ActionsInv, Placed, ActionsType, queueVars
  <1> QED BY <1>1, <1>2, JobsRest

LEMMA FinalizeFits == ASSUME ActionsInv, NEW p \in Ports, NEW i \in Issues, Finalize(p, i) PROVE ActionsInv'
  <1>1. UNCHANGED <<queueVars, job, conf, tx, fxp>>
        /\ \E r \in {"idle", "restoring"} : hand' = [hand EXCEPT ![p][i] = r]
    BY DEF Finalize, CanFinalize
  <1>2. ActionsType'
    BY <1>1 DEF ActionsInv, Placed, ActionsType, queueVars
  <1> QED BY <1>1, <1>2, JobsRest

LEMMA RestoreFits == ASSUME ActionsInv, NEW p \in Ports, NEW i \in Issues, Restore(p, i) PROVE ActionsInv'
  <1>1. UNCHANGED <<queueVars, job, conf, tx>> /\ hand' = [hand EXCEPT ![p][i] = "idle"]
        /\ fxp' \in SUBSET (fxp \cup {p}) /\ (conf.content > 0 => fxp' = fxp)
    BY DEF Restore, Serving
  <1>2. ActionsType'
    BY <1>1 DEF ActionsInv, Placed, ActionsType, queueVars
  <1> QED BY <1>1, <1>2, JobsRest

\* A job that has entered goes on and neither starts to run nor is resolved.
GoesOn(k) ==
    /\ Phase(k) \in Waits /\ Phase(k)' \in (Waits \cup {"ending"})
    /\ Phase(k)' = "running" => Phase(k) = "running"
    /\ job'[k].counted = job[k].counted
    /\ k.kind = "sync" => ~job'[k].ok

LEMMA GoesOnFits ==
    ASSUME ActionsInv, Placed', UNCHANGED <<latest, reserved, pending, conf, tx>>,
           conf.content > 0 => fxp' \subseteq fxp, \A k \in Jobs : job'[k] = job[k] \/ GoesOn(k)
    PROVE  ActionsInv'
  <1>1. ASSUME NEW k \in Jobs
        PROVE  /\ Unfinished(k)' = Unfinished(k) /\ job'[k].counted = job[k].counted
               /\ (Phase(k) = "made") = (Phase(k)' = "made")
               /\ Idles(k)
    <2>1. CASE GoesOn(k)
      BY <2>1 DEF GoesOn, Waits, Unfinished, Idles, Resolved, Succeeded
    <2>2. CASE job'[k] = job[k]
      BY <2>2, SameIdles DEF Unfinished, Phase
    <2> QED BY <2>1, <2>2
  <1>2. Booked'
    BY <1>1, BooksRest DEF ActionsInv
  <1>3. Moves'
    BY <1>1, MovesRest DEF ActionsInv, Placed
  <1> QED BY <1>2, <1>3 DEF ActionsInv

LEMMA OneGoesOn ==
    ASSUME ActionsInv, Placed', UNCHANGED <<latest, reserved, pending, conf, tx>>,
           conf.content > 0 => fxp' \subseteq fxp,
           NEW j \in Jobs, NEW r, Turns(j, r), Phase(j) \in Waits, r.phase \in (Waits \cup {"ending"}),
           r.phase = "running" => Phase(j) = "running", r.counted = job[j].counted,
           j.kind = "sync" => ~r.ok
    PROVE  ActionsInv'
  <1>1. \A k \in Jobs : job'[k] = job[k] \/ GoesOn(k)
    BY DEF Turns, Phase, GoesOn
  <1> QED BY <1>1, GoesOnFits

LEMMA HandleHandoffFits == ASSUME ActionsInv, NEW j \in Jobs, NEW ok \in BOOLEAN, HandleHandoff(j, ok) PROVE ActionsInv'
  <1>1. ActionsType /\ Placed /\ Shows(j) /\ job[j] \in JobState
    BY JobFields DEF ActionsInv, Placed
  <1>2. /\ Phase(j) = "running" /\ j.kind = "handoff"
        /\ job' = [job EXCEPT ![j].phase = "ending", ![j].ran = TRUE, ![j].ok = ok]
        /\ fxp' \subseteq fxp /\ UNCHANGED <<queueVars, conf, tx>>
        /\ hand' \in {hand, [hand EXCEPT ![j.port][j.issue] = "stopped"]}
    <2>1. CASE ok /\ j.port \in fxp
      BY <2>1 DEF HandleHandoff, Ran
    <2>2. CASE ~(ok /\ j.port \in fxp)
      <3>1. hand' = [hand EXCEPT ![j.port][j.issue] = @]
        BY <2>2 DEF HandleHandoff
      <3>2. j.port \in Ports /\ j.issue \in Issues
        BY JobIs DEF HandleHandoff
      <3>3. hand' = hand
        BY <1>1, <3>1, <3>2 DEF ActionsType
      <3> QED BY <3>3 DEF HandleHandoff, Ran
    <2> QED BY <2>1, <2>2
  <1>3. PICK r : r = [job[j] EXCEPT !.phase = "ending", !.ran = TRUE, !.ok = ok]
    OBVIOUS
  <1>4. r \in JobState /\ r.phase = "ending" /\ r.ok = ok /\ r.counted = job[j].counted
    BY <1>1, <1>3 DEF JobState
  <1>5. Turns(j, r)
    <2>1. job' = [job EXCEPT ![j] = r]
      BY <1>2, <1>3
    <2> QED BY <1>1, <1>4, <2>1, JobSet
  <1>6. ActionsType'
    <2>1. j.port \in Ports /\ j.issue \in Issues
      BY <1>2, JobIs
    <2>2. hand' \in [Ports -> [Issues -> {"idle", "stopped", "commit", "rollback", "restoring"}]]
      <3>1. CASE hand' = hand
        BY <1>1, <3>1 DEF ActionsType
      <3>2. CASE hand' = [hand EXCEPT ![j.port][j.issue] = "stopped"]
        BY <1>1, <2>1, <3>2 DEF ActionsType
      <3> QED BY <1>2, <3>1, <3>2
    <2> QED BY <1>1, <1>2, <1>5, <2>2 DEF ActionsType, queueVars, Turns
  <1>7. Placed'
    <2>1. Shows(j)'
      BY <1>1, <1>2, <1>4, <1>5 DEF Shows, Turns, Phase, queueVars, Waits
    <2> QED BY <1>1, <1>2, <1>5, <1>6, <2>1, OneTurns DEF Turns, queueVars
  <1>8. Phase(j) \in Waits /\ UNCHANGED <<latest, reserved, pending, conf, tx>> /\ fxp' \subseteq fxp
        /\ r.phase \in (Waits \cup {"ending"}) /\ r.phase # "running" /\ j.kind # "sync"
    BY <1>2, <1>4 DEF queueVars, Waits
  <1> QED BY <1>4, <1>5, <1>6, <1>7, <1>8, OneGoesOn

LEMMA HandleApplyFits == ASSUME ActionsInv, NEW j \in Jobs, NEW ok \in BOOLEAN, HandleApply(j, ok) PROVE ActionsInv'
  <1>1. ActionsType /\ Placed /\ Shows(j) /\ job[j] \in JobState
    BY JobFields DEF ActionsInv, Placed
  <1>2. /\ Phase(j) = "running" /\ j.kind = "apply"
        /\ job' = [job EXCEPT ![j].phase = "ending", ![j].ran = TRUE, ![j].ok = ok]
        /\ UNCHANGED <<queueVars, conf, tx, hand, fxp>>
    BY DEF HandleApply, Ran, runtimeVars
  <1>3. PICK r : r = [job[j] EXCEPT !.phase = "ending", !.ran = TRUE, !.ok = ok]
    OBVIOUS
  <1>4. r \in JobState /\ r.phase = "ending" /\ r.ok = ok /\ r.counted = job[j].counted
    BY <1>1, <1>3 DEF JobState
  <1>5. Turns(j, r)
    <2>1. job' = [job EXCEPT ![j] = r]
      BY <1>2, <1>3
    <2> QED BY <1>1, <1>4, <2>1, JobSet
  <1>6. ActionsType'
    BY <1>1, <1>2, <1>5 DEF ActionsType, queueVars, Turns
  <1>7. Placed'
    <2>1. Shows(j)'
      BY <1>1, <1>2, <1>4, <1>5 DEF Shows, Turns, Phase, queueVars, Waits
    <2> QED BY <1>1, <1>2, <1>5, <1>6, <2>1, OneTurns DEF Turns, queueVars
  <1>8. Phase(j) \in Waits /\ UNCHANGED <<latest, reserved, pending, conf, tx>> /\ fxp' \subseteq fxp
        /\ r.phase \in (Waits \cup {"ending"}) /\ r.phase # "running" /\ j.kind # "sync"
    BY <1>2, <1>4 DEF queueVars, Waits
  <1> QED BY <1>4, <1>5, <1>6, <1>7, <1>8, OneGoesOn
\* One job takes another phase and keeps the rest of its state.
Moved1(j, phase) == Turns(j, [job[j] EXCEPT !.phase = phase])

LEMMA Moved1Is ==
    ASSUME ActionsType, NEW j \in Jobs, NEW phase, Moved1(j, phase)
    PROVE  /\ job'[j].phase = phase /\ job'[j].ok = job[j].ok /\ job'[j].counted = job[j].counted
           /\ \A k \in Jobs : k # j => job'[k] = job[k]
           /\ job' \in [Jobs -> JobState]
  BY JobFields DEF Moved1, Turns

LEMMA MovedShows ==
    ASSUME Placed, NEW j \in Jobs, NEW phase \in (Waits \cup {"ending"}), Moved1(j, phase), Phase(j) \in Waits,
           latest' = latest
    PROVE  /\ \A k \in Jobs : Shows(k)'
           /\ phase # "running" => \A k \in Jobs : job'[k] = job[k] \/ GoesOn(k)
  <1>1. ActionsType
    BY DEF Placed
  <1>2. /\ job'[j].phase = phase /\ job'[j].ok = job[j].ok /\ job'[j].counted = job[j].counted
        /\ \A k \in Jobs : k # j => job'[k] = job[k]
    BY <1>1, Moved1Is
  <1>3. Shows(j) /\ ~job[j].ok
    BY DEF Placed, Shows, Waits
  <1>4. ASSUME NEW k \in Jobs PROVE Shows(k)'
    <2>1. CASE k = j
      BY <1>2, <1>3, <2>1 DEF Shows, Phase, Waits
    <2>2. CASE k # j
      <3>1. Shows(k)
        BY DEF Placed
      <3> QED BY <1>2, <2>2, <3>1 DEF Shows, Phase
    <2> QED BY <2>1, <2>2
  <1>5. ASSUME phase # "running", NEW k \in Jobs PROVE job'[k] = job[k] \/ GoesOn(k)
    BY <1>2, <1>3, <1>5 DEF GoesOn, Phase
  <1> QED BY <1>4, <1>5

LEMMA DispatchFits == ASSUME ActionsInv, Dispatch PROVE ActionsInv'
  <1> DEFINE j == Head(ingress)
  <1>1. /\ ingress # <<>> /\ ingress' = Tail(ingress)
        /\ UNCHANGED <<latest, reserved, pending, todo, conf, tx, hand, fxp>>
        /\ \/ job' = [job EXCEPT ![j].phase = "ending"] /\ queue' = queue
           \/ job' = [job EXCEPT ![j].phase = "queued"] /\ queue' = Append(queue, j)
    BY DEF Dispatch, CanDispatch, runtimeVars
  <1> HIDE DEF j
  <1>2. /\ Placed /\ ActionsType /\ ingress \in Seq(Jobs) /\ queue \in Seq(Jobs)
        /\ Holds(ingress, job, "ingress") /\ Holds(queue, job, "queued")
    BY DEF ActionsInv, Placed, ActionsType
  <1>3. j \in Jobs /\ job[j].phase = "ingress"
    BY <1>1, <1>2, HeadHolds DEF j
  <1>4. PICK phase \in {"ending", "queued"} :
          /\ Moved1(j, phase)
          /\ queue' = IF phase = "queued" THEN Append(queue, j) ELSE queue
    BY <1>1, <1>2, <1>3, PhaseSet DEF Moved1
  <1>5. /\ job'[j].phase = phase
        /\ \A k \in Jobs : k # j => job'[k] = job[k]
        /\ job' \in [Jobs -> JobState]
    BY <1>2, <1>3, <1>4, Moved1Is
  <1>6. ingress' \in Seq(Jobs) /\ Holds(ingress', job', "ingress")
    <2>1. \A k \in Jobs : k # Head(ingress) /\ job[k].phase = "ingress" => job'[k].phase = "ingress"
      BY <1>5 DEF j
    <2> QED BY <1>1, <1>2, <2>1, TailHolds
  <1>7. queue' \in Seq(Jobs) /\ Holds(queue', job', "queued")
    <2>1. \A k \in Jobs : job[k].phase = "queued" => job'[k].phase = "queued"
      BY <1>3, <1>5
    <2>2. CASE phase = "queued"
      <3>1. job[j].phase # "queued" /\ job'[j].phase = "queued" /\ queue' = Append(queue, j)
        BY <1>3, <1>4, <1>5, <2>2
      <3>2. Append(queue, j) \in Seq(Jobs) /\ Holds(Append(queue, j), job', "queued")
        BY <1>2, <1>3, <2>1, <3>1, AppendHolds
      <3> QED BY <3>1, <3>2
    <2>3. CASE phase # "queued"
      BY <1>2, <1>4, <2>1, <2>3, StillHolds
    <2> QED BY <2>2, <2>3
  <1>8. ActionsType'
    BY <1>1, <1>2, <1>5, <1>6, <1>7 DEF ActionsType
  <1>9. /\ \A k \in Jobs : Shows(k)'
        /\ \A k \in Jobs : job'[k] = job[k] \/ GoesOn(k)
    <2>1. phase \in Waits \cup {"ending"} /\ phase # "running" /\ Phase(j) \in Waits
      BY <1>3 DEF Waits, Phase
    <2> QED BY <1>1, <1>2, <1>3, <1>4, <2>1, MovedShows
  <1>10. Placed'
    BY <1>6, <1>7, <1>8, <1>9 DEF Placed
  <1> QED BY <1>1, <1>9, <1>10, GoesOnFits

LEMMA TakeFits == ASSUME ActionsInv, Take PROVE ActionsInv'
  <1> DEFINE j == Head(queue)
  <1>1. /\ queue # <<>> /\ queue' = Tail(queue)
        /\ UNCHANGED <<latest, reserved, pending, todo, ingress, conf, tx, hand, fxp>>
        /\ \E phase \in {"ending", "waiting"} : job' = [job EXCEPT ![j].phase = phase]
    <2>1. (IF Older(j) THEN "ending" ELSE "waiting") \in {"ending", "waiting"}
      OBVIOUS
    <2> QED BY <2>1 DEF Take, CanTake, runtimeVars
  <1> HIDE DEF j
  <1>2. /\ Placed /\ ActionsType /\ ingress \in Seq(Jobs) /\ queue \in Seq(Jobs)
        /\ Holds(ingress, job, "ingress") /\ Holds(queue, job, "queued")
    BY DEF ActionsInv, Placed, ActionsType
  <1>3. j \in Jobs /\ job[j].phase = "queued"
    BY <1>1, <1>2, HeadHolds DEF j
  <1>4. PICK phase \in {"ending", "waiting"} : Moved1(j, phase)
    BY <1>1, <1>2, <1>3, PhaseSet DEF Moved1
  <1>5. /\ job'[j].phase = phase
        /\ \A k \in Jobs : k # j => job'[k] = job[k]
        /\ job' \in [Jobs -> JobState]
    BY <1>2, <1>3, <1>4, Moved1Is
  <1>6. queue' \in Seq(Jobs) /\ Holds(queue', job', "queued")
    <2>1. \A k \in Jobs : k # Head(queue) /\ job[k].phase = "queued" => job'[k].phase = "queued"
      BY <1>5 DEF j
    <2> QED BY <1>1, <1>2, <2>1, TailHolds
  <1>7. ingress' \in Seq(Jobs) /\ Holds(ingress', job', "ingress")
    <2>1. \A k \in Jobs : job[k].phase = "ingress" => job'[k].phase = "ingress"
      BY <1>3, <1>5
    <2> QED BY <1>1, <1>2, <2>1, StillHolds
  <1>8. ActionsType'
    BY <1>1, <1>2, <1>5, <1>6, <1>7 DEF ActionsType
  <1>9. /\ \A k \in Jobs : Shows(k)'
        /\ \A k \in Jobs : job'[k] = job[k] \/ GoesOn(k)
    <2>1. phase \in Waits \cup {"ending"} /\ phase # "running" /\ Phase(j) \in Waits
      BY <1>3 DEF Waits, Phase
    <2> QED BY <1>1, <1>2, <1>3, <1>4, <2>1, MovedShows
  <1>10. Placed'
    BY <1>6, <1>7, <1>8, <1>9 DEF Placed
  <1> QED BY <1>1, <1>9, <1>10, GoesOnFits
LEMMA PushFits == ASSUME ActionsInv, NEW i \in Issues, Push(i) PROVE ActionsInv'
  <1> DEFINE j == Head(todo[i])
  <1>1. /\ todo[i] # <<>> /\ todo' = [todo EXCEPT ![i] = Tail(@)] /\ Phase(j) = "entering"
        /\ UNCHANGED <<latest, reserved, pending, queue, conf, tx, hand, fxp>>
        /\ \/ /\ ingress' = Append(ingress, j)
              /\ job' = [job EXCEPT ![j].phase = "ingress"]
           \/ ingress' = ingress /\ job' = [job EXCEPT ![j].phase = "ending"]
           \/ \E n \in SameKey(j) :
                /\ ingress' = Append(RemoveAt(ingress, n), j)
                /\ job' = [job EXCEPT ![ingress[n]].phase = "ending", ![j].phase = "ingress"]
    BY DEF Push, CanPush, runtimeVars
  <1>2. /\ Placed /\ ActionsType /\ ingress \in Seq(Jobs) /\ queue \in Seq(Jobs)
        /\ Holds(ingress, job, "ingress") /\ Holds(queue, job, "queued")
    BY DEF ActionsInv, Placed, ActionsType
  <1>3. j \in Jobs /\ todo' \in [Issues -> Seq(Jobs)]
    <2>1. todo[i] \in Seq(Jobs) /\ todo \in [Issues -> Seq(Jobs)]
      BY <1>2 DEF ActionsType
    <2>2. Head(todo[i]) \in Jobs /\ Tail(todo[i]) \in Seq(Jobs)
      BY <1>1, <2>1
    <2> QED BY <1>1, <2>1, <2>2
  <1> HIDE DEF j
  <1>4. job[j].phase = "entering" /\ job[j] \in JobState
    BY <1>1, <1>2, <1>3, JobFields DEF Phase
  <1> SUFFICES ASSUME job' \in [Jobs -> JobState],
                      ingress' \in Seq(Jobs) /\ Holds(ingress', job', "ingress"),
                      \A k \in Jobs : job[k].phase = "queued" => job'[k].phase = "queued",
                      \A k \in Jobs : Shows(k)' /\ (job'[k] = job[k] \/ GoesOn(k))
               PROVE  ActionsInv'
    <2>1. CASE /\ ingress' = Append(ingress, j)
               /\ job' = [job EXCEPT ![j].phase = "ingress"]
      <3>1. Moved1(j, "ingress")
        BY <1>2, <1>3, <2>1, PhaseSet DEF Moved1
      <3>2. /\ job'[j].phase = "ingress"
            /\ \A k \in Jobs : k # j => job'[k] = job[k]
            /\ job' \in [Jobs -> JobState]
        BY <1>2, <1>3, <3>1, Moved1Is
      <3>3. \A k \in Jobs : job[k].phase = "ingress" => job'[k].phase = "ingress"
        BY <3>2
      <3>4. Append(ingress, j) \in Seq(Jobs) /\ Holds(Append(ingress, j), job', "ingress")
        BY <1>2, <1>3, <1>4, <3>2, <3>3, AppendHolds
      <3>5. \A k \in Jobs : job[k].phase = "queued" => job'[k].phase = "queued"
        BY <1>4, <3>2
      <3>6. \A k \in Jobs : Shows(k)' /\ (job'[k] = job[k] \/ GoesOn(k))
        <4>1. "ingress" \in Waits \cup {"ending"} /\ Phase(j) \in Waits
          BY <1>4 DEF Waits, Phase
        <4> QED BY <1>1, <1>2, <1>3, <3>1, <4>1, MovedShows
      <3> QED BY <2>1, <3>2, <3>4, <3>5, <3>6
    <2>2. CASE ingress' = ingress /\ job' = [job EXCEPT ![j].phase = "ending"]
      <3>1. Moved1(j, "ending")
        BY <1>2, <1>3, <2>2, PhaseSet DEF Moved1
      <3>2. /\ job'[j].phase = "ending"
            /\ \A k \in Jobs : k # j => job'[k] = job[k]
            /\ job' \in [Jobs -> JobState]
        BY <1>2, <1>3, <3>1, Moved1Is
      <3>3. \A k \in Jobs : job[k].phase = "ingress" => job'[k].phase = "ingress"
        BY <1>4, <3>2
      <3>4. Holds(ingress, job', "ingress")
        BY <1>2, <3>3, StillHolds
      <3>5. \A k \in Jobs : job[k].phase = "queued" => job'[k].phase = "queued"
        BY <1>4, <3>2
      <3>6. \A k \in Jobs : Shows(k)' /\ (job'[k] = job[k] \/ GoesOn(k))
        <4>1. "ending" \in Waits \cup {"ending"} /\ Phase(j) \in Waits
          BY <1>4 DEF Waits, Phase
        <4> QED BY <1>1, <1>2, <1>3, <3>1, <4>1, MovedShows
      <3> QED BY <1>2, <2>2, <3>2, <3>4, <3>5, <3>6
    <2>3. ASSUME NEW n \in SameKey(j), ingress' = Append(RemoveAt(ingress, n), j),
                 job' = [job EXCEPT ![ingress[n]].phase = "ending", ![j].phase = "ingress"]
          PROVE  /\ job' \in [Jobs -> JobState]
                 /\ ingress' \in Seq(Jobs) /\ Holds(ingress', job', "ingress")
                 /\ \A k \in Jobs : job[k].phase = "queued" => job'[k].phase = "queued"
                 /\ \A k \in Jobs : Shows(k)' /\ (job'[k] = job[k] \/ GoesOn(k))
      <3>1. n \in DOMAIN ingress
        BY <2>3 DEF SameKey
      <3>2. PICK o : o = ingress[n]
        OBVIOUS
      <3>3. o \in Jobs /\ job[o].phase = "ingress" /\ o # j /\ job[o] \in JobState
        <4>1. o \in Jobs
          BY <1>2, <3>1, <3>2
        <4>2. job[o].phase = "ingress"
          BY <1>2, <3>1, <3>2 DEF Holds
        <4> QED BY <1>2, <1>4, <4>1, <4>2, JobFields
      <3>4. PICK a : a = [job[o] EXCEPT !.phase = "ending"]
        OBVIOUS
      <3>5. PICK b : b = [job[j] EXCEPT !.phase = "ingress"]
        OBVIOUS
      <3>6. /\ a \in JobState /\ a.phase = "ending" /\ a.ok = job[o].ok /\ a.counted = job[o].counted
            /\ b \in JobState /\ b.phase = "ingress" /\ b.ok = job[j].ok /\ b.counted = job[j].counted
        BY <1>4, <3>3, <3>4, <3>5 DEF JobState, Waits
      <3>7. job \in [Jobs -> JobState]
        BY <1>2 DEF ActionsType
      <3>8. job' = [[job EXCEPT ![o] = a] EXCEPT ![j] = b]
        BY <1>3, <2>3, <3>2, <3>3, <3>4, <3>5, <3>7
      <3>9. /\ job' \in [Jobs -> JobState] /\ job'[o] = a /\ job'[j] = b
            /\ \A k \in Jobs : k # o /\ k # j => job'[k] = job[k]
        BY <1>3, <3>3, <3>6, <3>7, <3>8
      <3>10. PICK mid : mid = [job EXCEPT ![o] = a]
        OBVIOUS
      <3>11. mid[o].phase = "ending" /\ mid[j] = job[j] /\ \A k \in Jobs : k # o => mid[k] = job[k]
        BY <1>3, <3>3, <3>6, <3>7, <3>10
      <3>12. PICK q : q = RemoveAt(ingress, n)
        OBVIOUS
      <3>13. q \in Seq(Jobs) /\ Holds(q, mid, "ingress")
        <4>1. \A k \in Jobs : k # ingress[n] /\ job[k].phase = "ingress" => mid[k].phase = "ingress"
          BY <3>2, <3>11
        <4> QED BY <1>2, <3>1, <3>12, <4>1, RemoveHolds
      <3>14. Append(q, j) \in Seq(Jobs) /\ Holds(Append(q, j), job', "ingress")
        <4>1. mid[j].phase # "ingress" /\ job'[j].phase = "ingress"
          BY <1>4, <3>6, <3>9, <3>11
        <4>2. \A k \in Jobs : mid[k].phase = "ingress" => job'[k].phase = "ingress"
          BY <3>9, <3>11, <4>1
        <4> QED BY <1>3, <3>13, <4>1, <4>2, AppendHolds
      <3>15. \A k \in Jobs : job[k].phase = "queued" => job'[k].phase = "queued"
        BY <1>4, <3>3, <3>9
      <3>16. Shows(j) /\ Shows(o) /\ ~job[j].ok /\ ~job[o].ok /\ job[j].counted /\ job[o].counted
        <4>1. Shows(j) /\ Shows(o)
          BY <1>2, <1>3, <3>3 DEF Placed
        <4> QED BY <1>4, <3>3, <4>1 DEF Shows, Phase, Waits
      <3>17. ASSUME NEW k \in Jobs PROVE Shows(k)' /\ (job'[k] = job[k] \/ GoesOn(k))
        <4>1. CASE k = j
          BY <1>1, <1>4, <3>6, <3>9, <3>16, <4>1 DEF Shows, GoesOn, Phase, Waits
        <4>2. CASE k = o
          BY <1>1, <3>3, <3>6, <3>9, <3>16, <4>2 DEF Shows, GoesOn, Phase, Waits
        <4>3. CASE k # j /\ k # o
          <5>1. Shows(k)
            BY <1>2 DEF Placed
          <5> QED BY <1>1, <3>9, <4>3, <5>1 DEF Shows, Phase
        <4> QED BY <4>1, <4>2, <4>3
      <3> QED BY <2>3, <3>9, <3>12, <3>14, <3>15, <3>17
    <2> QED BY <1>1, <2>1, <2>2, <2>3
  <1>5. Holds(queue', job', "queued")
    BY <1>1, <1>2, StillHolds
  <1>6. ActionsType'
    BY <1>1, <1>2, <1>3 DEF ActionsType
  <1>7. Placed'
    BY <1>5, <1>6 DEF Placed
  <1> QED BY <1>1, <1>7, GoesOnFits
LEMMA StartFits == ASSUME ActionsInv, NEW j \in Jobs, Start(j) PROVE ActionsInv'
  <1>1. Placed /\ ActionsType /\ Booked /\ Moves /\ Shows(j) /\ job[j] \in JobState
    BY JobFields DEF ActionsInv, Placed
  <1>2. /\ job[j].phase = "waiting"
        /\ UNCHANGED <<latest, reserved, pending, todo, ingress, queue, conf, tx, hand, fxp>>
        /\ \/ job' = [job EXCEPT ![j].phase = "ending"]
           \/ job' = [job EXCEPT ![j].phase = "running"] /\ GateOpen(j) /\ ~Older(j)
    BY DEF Start, CanStart, Runs, Phase, queueVars, runtimeVars
  <1>3. PICK phase \in {"ending", "running"} :
          Moved1(j, phase) /\ (phase = "running" => GateOpen(j) /\ ~Older(j))
    BY <1>1, <1>2, PhaseSet DEF Moved1
  <1>4. /\ job'[j].phase = phase /\ job'[j].ok = job[j].ok /\ job'[j].counted = job[j].counted
        /\ \A k \in Jobs : k # j => job'[k] = job[k]
        /\ job' \in [Jobs -> JobState]
    BY <1>1, <1>3, Moved1Is
  <1>5. /\ \A k \in Jobs : Shows(k)'
        /\ phase # "running" => \A k \in Jobs : job'[k] = job[k] \/ GoesOn(k)
    <2>1. phase \in Waits \cup {"ending"} /\ Phase(j) \in Waits
      BY <1>2 DEF Waits, Phase
    <2> QED BY <1>1, <1>2, <1>3, <2>1, MovedShows
  <1>6. Placed'
    <2>1. ActionsType'
      BY <1>1, <1>2, <1>4 DEF ActionsType
    <2> QED BY <1>1, <1>2, <1>4, <1>5, <2>1, OneTurns DEF Phase
  <1>7. CASE phase = "ending"
    BY <1>2, <1>5, <1>6, <1>7, GoesOnFits
  <1>8. CASE phase = "running"
    <2>1. Booked'
      <3>1. \A k \in Jobs : /\ Unfinished(k)' = Unfinished(k) /\ job'[k].counted = job[k].counted
                            /\ (Phase(k) = "made") = (Phase(k)' = "made")
        BY <1>2, <1>4, <1>8 DEF Unfinished, Phase
      <3> QED BY <1>1, <1>2, <3>1, BooksRest
    <2>2. ASSUME NEW k \in Jobs, k.kind = "apply", Resolved(k)' PROVE Phase(Job("sync", None, k.issue))' = "done"
      <3>1. k # j /\ Resolved(k) /\ Job("sync", None, k.issue) \in Jobs
        BY <1>4, <1>8, <2>2, JobIs, IsJob DEF Resolved, Phase
      <3>2. Phase(Job("sync", None, k.issue)) = "done"
        BY <1>1, <2>2, <3>1 DEF Moves
      <3>3. Job("sync", None, k.issue) # j
        BY <1>2, <3>2 DEF Phase
      <3> QED BY <1>4, <3>1, <3>2, <3>3 DEF Phase
    <2>3. ASSUME NEW k \in Jobs, NEW l \in Jobs, k.kind = "sync", Phase(k)' = "running", Phase(l)' = "running"
          PROVE  k = l
      <3>1. GateOpen(j)
        BY <1>3, <1>8
      <3>2. (k # j => Phase(k) = "running") /\ (l # j => Phase(l) = "running")
        BY <1>4, <2>3 DEF Phase
      <3>3. CASE k = j
        BY <2>3, <3>1, <3>2, <3>3 DEF GateOpen
      <3>4. CASE k # j /\ l = j
        BY <2>3, <3>1, <3>2, <3>4 DEF GateOpen
      <3>5. CASE k # j /\ l # j
        BY <1>1, <2>3, <3>2, <3>5 DEF Moves
      <3> QED BY <3>3, <3>4, <3>5
    <2>4. ASSUME latest > 0 PROVE Latest'
      <3>1. latest \in Issues /\ Latest
        BY <1>1, <2>4 DEF ActionsType, Numbers, Moves
      <3>2. /\ Sync \in Jobs /\ Sync.kind = "sync" /\ Sync' = Sync
            /\ \A p \in Ports : Apply(p) \in Jobs /\ Apply(p).kind = "apply" /\ Apply(p)' = Apply(p)
        BY <1>2, <3>1, IsJob DEF Sync, Apply, Job
      <3>3. \A k \in Jobs : /\ Phase(k) # "none" => Phase(k)' # "none"
                            /\ Resolved(k)' = Resolved(k) /\ Succeeded(k)' = Succeeded(k)
        BY <1>2, <1>4, <1>8 DEF Resolved, Succeeded, Phase
      <3>4. Unresolved' = Unresolved
        BY <3>2, <3>3 DEF Unresolved
      <3>5. Phase(Sync)' # "none" /\ \A p \in Ports : Phase(Apply(p))' # "none"
        BY <3>1, <3>2, <3>3 DEF Latest
      <3>6. tx'[latest'].left = Cardinality(Unresolved')
        BY <1>2, <3>1, <3>4 DEF Latest
      <3>7. tx'[latest'].failed => \E p \in Ports : Resolved(Apply(p))' /\ ~Succeeded(Apply(p))'
        BY <1>2, <3>1, <3>2, <3>3 DEF Latest
      <3>8. ASSUME Succeeded(Sync)', NEW k \in Jobs, k.kind = "sync" PROVE Phase(k)' # "running"
        <4>1. Succeeded(Sync)
          BY <3>2, <3>3, <3>8
        <4>2. CASE k # j
          BY <1>4, <3>1, <3>8, <4>1, <4>2 DEF Latest, Phase
        <4>3. CASE k = j
          <5>1. j.issue <= latest /\ ~(j.issue < latest) /\ j.issue \in Nat /\ latest \in Nat
            BY <1>1, <1>2, <1>3, <1>8, <3>1, JobIs, IssuesFit DEF Shows, Older, Phase
          <5>2. j = Sync
            <6>1. j.issue = latest
              BY <5>1
            <6> QED BY <3>8, <4>3, <6>1, JobIs DEF Sync
          <5> QED BY <1>1, <1>2, <4>1, <5>2 DEF Shows, Succeeded, Phase
        <4> QED BY <4>2, <4>3
      <3>9. Stands'
        <4>1. Stands
          BY <3>1 DEF Latest
        <4> QED BY <1>2, <3>2, <3>3, <3>4, <4>1 DEF Stands
      <3> QED BY <3>5, <3>6, <3>7, <3>8, <3>9 DEF Latest
    <2>5. Moves'
      BY <1>1, <1>2, <2>2, <2>3, <2>4 DEF Moves
    <2> QED BY <1>6, <2>1, <2>5 DEF ActionsInv
  <1> QED BY <1>7, <1>8
LEMMA HandleSyncFits == ASSUME ActionsInv, NEW j \in Jobs, NEW ok \in BOOLEAN, HandleSync(j, ok) PROVE ActionsInv'
  <1>1. Placed /\ ActionsType /\ Booked /\ Moves /\ Shows(j) /\ job[j] \in JobState
    BY JobFields DEF ActionsInv, Placed
  <1>2. /\ j.kind = "sync" /\ job[j].phase = "running" /\ (ok => fxp = {})
        /\ job' = [job EXCEPT ![j].phase = "ending", ![j].ran = TRUE, ![j].ok = ok]
        /\ UNCHANGED <<latest, reserved, pending, todo, ingress, queue, hand, fxp>>
    BY DEF HandleSync, Ran, Phase, queueVars
  <1>3. j.issue \in Issues /\ j.issue \in Numbers /\ 0 \in Numbers /\ conf \in [content : Numbers, generation : Numbers]
        /\ tx \in [Issues -> Transaction] /\ tx[j.issue] \in Transaction /\ latest \in Numbers
    BY <1>1, JobIs, IssuesFit DEF ActionsType, Numbers
  <1>4. /\ conf' \in [content : Numbers, generation : Numbers] /\ tx' \in [Issues -> Transaction]
        /\ \A i \in Issues : tx'[i].left = tx[i].left /\ tx'[i].failed = tx[i].failed
        /\ ok => conf' = [content |-> j.issue, generation |-> j.issue] /\ tx'[j.issue].open
    <2>1. CASE ok
      <3>1. conf' = [content |-> j.issue, generation |-> j.issue]
            /\ tx' = [tx EXCEPT ![j.issue].open = TRUE, ![j.issue].before = conf.content]
        BY <2>1 DEF HandleSync
      <3>2. conf.content \in Numbers
        BY <1>3
      <3>3. PICK t : t = [tx[j.issue] EXCEPT !.open = TRUE, !.before = conf.content]
        OBVIOUS
      <3>4. tx' = [tx EXCEPT ![j.issue] = t]
        BY <1>3, <3>1, <3>3
      <3>5. t \in Transaction /\ t.left = tx[j.issue].left /\ t.failed = tx[j.issue].failed /\ t.open
        BY <1>3, <3>2, <3>3 DEF Transaction
      <3>6. conf' \in [content : Numbers, generation : Numbers]
        BY <1>3, <3>1
      <3> QED BY <1>3, <3>1, <3>4, <3>5, <3>6
    <2>2. CASE ~ok
      <3>1. PICK g \in {conf.generation, 0} : conf' = [conf EXCEPT !.generation = g]
        BY <2>2 DEF HandleSync
      <3>2. g \in Numbers
        BY <1>3
      <3>3. conf' \in [content : Numbers, generation : Numbers]
        BY <1>3, <3>1, <3>2
      <3> QED BY <1>3, <2>2, <3>3 DEF HandleSync
    <2> QED BY <2>1, <2>2
  <1>5. PICK r : r = [job[j] EXCEPT !.phase = "ending", !.ran = TRUE, !.ok = ok]
    OBVIOUS
  <1>6. r \in JobState /\ r.phase = "ending" /\ r.ok = ok /\ r.counted = job[j].counted
    BY <1>1, <1>5 DEF JobState
  <1>7. Turns(j, r)
    <2>1. job' = [job EXCEPT ![j] = r]
      BY <1>2, <1>5
    <2> QED BY <1>1, <1>6, <2>1, JobSet
  <1>8. /\ job'[j].phase = "ending" /\ job'[j].ok = ok /\ job'[j].counted = job[j].counted
        /\ \A k \in Jobs : k # j => job'[k] = job[k]
    BY <1>6, <1>7 DEF Turns
  <1>9. Placed'
    <2>1. ActionsType'
      BY <1>1, <1>2, <1>4, <1>7 DEF ActionsType, Turns
    <2>2. Shows(j)'
      BY <1>1, <1>2, <1>8 DEF Shows, Phase, Waits
    <2> QED BY <1>1, <1>2, <1>8, <2>1, <2>2, OneTurns DEF Phase
  <1>10. Booked'
    <2>1. \A k \in Jobs : /\ Unfinished(k)' = Unfinished(k) /\ job'[k].counted = job[k].counted
                          /\ (Phase(k) = "made") = (Phase(k)' = "made")
      BY <1>2, <1>8 DEF Unfinished, Phase
    <2> QED BY <1>1, <1>2, <2>1, BooksRest
  <1>11. ASSUME NEW k \in Jobs, k.kind = "apply", Resolved(k)' PROVE Phase(Job("sync", None, k.issue))' = "done"
    <2>1. k # j /\ Resolved(k) /\ Job("sync", None, k.issue) \in Jobs
      BY <1>2, <1>11, <1>8, JobIs, IsJob DEF Resolved, Phase
    <2>2. Phase(Job("sync", None, k.issue)) = "done"
      BY <1>1, <1>11, <2>1 DEF Moves
    <2>3. Job("sync", None, k.issue) # j
      BY <1>2, <2>2 DEF Phase
    <2> QED BY <1>8, <2>1, <2>2, <2>3 DEF Phase
  <1>12. \A k \in Jobs : Phase(k)' = "running" => k # j /\ Phase(k) = "running"
    BY <1>8 DEF Phase
  <1>13. ASSUME NEW k \in Jobs, NEW l \in Jobs, k.kind = "sync", Phase(k)' = "running", Phase(l)' = "running"
         PROVE  k = l
    BY <1>1, <1>12, <1>13 DEF Moves
  <1>14. \A k \in Jobs : k.kind = "sync" => Phase(k)' # "running"
    BY <1>1, <1>2, <1>12 DEF Moves, Phase
  <1>15. ASSUME latest > 0 PROVE Latest'
    <2>1. latest \in Issues /\ Latest
      BY <1>1, <1>3, <1>15 DEF Numbers, Moves
    <2>2. /\ Sync \in Jobs /\ Sync.kind = "sync" /\ Sync.issue = latest /\ Sync' = Sync
          /\ \A p \in Ports : Apply(p) \in Jobs /\ Apply(p).kind = "apply" /\ Apply(p).issue = latest /\ Apply(p)' = Apply(p)
      BY <1>2, <2>1, IsJob DEF Sync, Apply, Job
    <2>3. \A p \in Ports : job'[Apply(p)] = job[Apply(p)]
      BY <1>2, <1>8, <2>2
    <2>4. Phase(Sync)' # "none" /\ \A p \in Ports : Phase(Apply(p))' # "none"
      BY <1>8, <2>1, <2>2, <2>3 DEF Latest, Phase
    <2>5. \A p \in Ports : Resolved(Apply(p))' = Resolved(Apply(p)) /\ Succeeded(Apply(p))' = Succeeded(Apply(p))
      BY <2>2, <2>3 DEF Resolved, Succeeded, Phase
    <2>6. Unresolved' = Unresolved
      BY <2>2, <2>5 DEF Unresolved
    <2>7. tx'[latest'].left = Cardinality(Unresolved')
      BY <1>2, <1>4, <2>1, <2>6 DEF Latest
    <2>8. tx'[latest'].failed => \E p \in Ports : Resolved(Apply(p))' /\ ~Succeeded(Apply(p))'
      BY <1>2, <1>4, <2>1, <2>5 DEF Latest
    <2>9. ASSUME Succeeded(Sync)' PROVE j = Sync /\ ok
      <3>1. ~Succeeded(Sync)
        BY <1>2, <2>1 DEF Latest, Phase
      <3> QED BY <1>8, <2>2, <2>9, <3>1 DEF Succeeded
    <2>10. ASSUME Succeeded(Sync)'
           PROVE  Unresolved' # {} /\ conf'.content = latest' /\ fxp' = {} /\ tx'[latest'].open /\ conf'.generation = latest'
      <3>1. j = Sync /\ ok
        BY <2>9, <2>10
      <3>2. \A p \in Ports : ~Resolved(Apply(p))
        <4> SUFFICES ASSUME NEW p \in Ports, Resolved(Apply(p)) PROVE FALSE
          OBVIOUS
        <4>1. Phase(Job("sync", None, Apply(p).issue)) = "done"
          BY <1>1, <2>2 DEF Moves
        <4> QED BY <1>2, <2>2, <3>1, <4>1 DEF Sync, Phase
      <3>3. Unresolved' = Ports
        BY <2>6, <3>2 DEF Unresolved
      <3>4. conf' = [content |-> j.issue, generation |-> j.issue] /\ tx'[j.issue].open /\ j.issue = latest'
        BY <1>2, <1>4, <2>2, <3>1
      <3> QED BY <1>2, <3>1, <3>3, <3>4, PortsFit
    <2>11. Stands'
      BY <2>10 DEF Stands
    <2> QED BY <1>14, <2>4, <2>7, <2>8, <2>11 DEF Latest
  <1>16. \A i \in Issues : i > latest' => ~tx'[i].failed
    BY <1>1, <1>2, <1>4 DEF Moves
  <1>17. Moves'
    BY <1>2, <1>11, <1>13, <1>15, <1>16 DEF Moves
  <1> QED BY <1>9, <1>10, <1>17 DEF ActionsInv
-----------------------------------------------------------------------------
(* The steps that change the books. *)

LEMMA CountedFinite == IsFiniteSet(Counted) /\ Cardinality(Counted) \in Nat
  <1>1. Counted \subseteq Jobs
    BY DEF Counted
  <1> HIDE DEF Counted
  <1> QED BY <1>1, JobsFinite, FS_Subset, FS_CardinalityType

LEMMA ReleasedIs ==
    ASSUME ActionsType, NEW j \in Jobs
    PROVE  /\ Released(j) \in [Keys -> Numbers] /\ Released(j)[Key(j)] # j.issue
           /\ \A k \in Jobs : Released(j)[Key(k)] = reserved[Key(k)]
                \/ (Key(k) = Key(j) /\ reserved[Key(k)] = j.issue /\ Released(j)[Key(k)] = 0)
  <1>1. Key(j) \in Keys /\ j.issue # 0 /\ 0 \in Numbers /\ reserved \in [Keys -> Numbers]
        /\ \A k \in Jobs : Key(k) \in Keys
    BY JobIs DEF ActionsType, Numbers
  <1>2. PICK key \in Keys : key = Key(j)
    BY <1>1
  <1>3. Released(j) = IF reserved[key] = j.issue THEN [reserved EXCEPT ![key] = 0] ELSE reserved
    BY <1>2 DEF Released
  <1>4. PICK r : r = Released(j)
    OBVIOUS
  <1>5. /\ r \in [Keys -> Numbers] /\ r[key] # j.issue
        /\ \A k \in Keys : r[k] = reserved[k] \/ (k = key /\ reserved[k] = j.issue /\ r[k] = 0)
    <2>1. CASE reserved[key] = j.issue
      BY <1>1, <1>3, <1>4, <2>1
    <2>2. CASE reserved[key] # j.issue
      BY <1>1, <1>3, <1>4, <2>2
    <2> QED BY <2>1, <2>2
  <1> QED BY <1>1, <1>2, <1>4, <1>5

\* The reservation goes with the job it was for.
LEMMA ReleaseBooks ==
    ASSUME Placed, Booked, latest' = latest, NEW j \in Jobs, \A k \in Jobs : k # j => job'[k] = job[k],
           reserved' = Released(j), Unfinished(j)' => Older(j), pending' = Cardinality(Counted')
    PROVE  Booked'
  <1>1. /\ ActionsType /\ reserved'[Key(j)] # j.issue
        /\ \A k \in Jobs : reserved'[Key(k)] = reserved[Key(k)]
             \/ (Key(k) = Key(j) /\ reserved[Key(k)] = j.issue /\ reserved'[Key(k)] = 0)
    BY ReleasedIs DEF Placed
  <1>2. ASSUME NEW k \in Jobs, reserved'[Key(k)] = k.issue
        PROVE  Phase(k)' = "made" \/ (Unfinished(k)' /\ job'[k].counted)
    <2>1. k # j /\ reserved[Key(k)] = k.issue
      BY <1>1, <1>2, JobIs
    <2> QED BY <2>1 DEF Booked, Unfinished, Phase
  <1>3. ASSUME NEW k \in Jobs, Unfinished(k)', ~Older(k)'
        PROVE  reserved'[Key(k)] = k.issue \/ (k.kind = "handoff" /\ Phase(k)' = "made")
    <2>1. k # j /\ ~Older(k) /\ job'[k] = job[k]
      BY <1>3 DEF Older
    <2>2. reserved[Key(k)] = k.issue \/ (k.kind = "handoff" /\ Phase(k) = "made")
      BY <1>3, <2>1 DEF Booked, Unfinished, Phase
    <2>3. CASE reserved[Key(k)] = k.issue
      <3>1. ~(Key(k) = Key(j) /\ reserved[Key(k)] = j.issue)
        BY <2>1, <2>3, SameJob
      <3> QED BY <1>1, <2>3, <3>1
    <2> QED BY <2>1, <2>2, <2>3 DEF Phase
  <1> QED BY <1>2, <1>3 DEF Booked, Key

LEMMA EnqueueFits == ASSUME ActionsInv, NEW i \in Issues, Enqueue(i) PROVE ActionsInv'
  <1>0. PICK j : j = Head(todo[i])
    OBVIOUS
  <1>1. /\ todo[i] # <<>> /\ Phase(j) = "made"
        /\ UNCHANGED <<latest, ingress, queue, conf, tx, hand, fxp>>
        /\ \/ /\ Older(j)
              /\ job' = [job EXCEPT ![j].phase = "ending"] /\ reserved' = Released(j)
              /\ todo' = [todo EXCEPT ![i] = Tail(@)] /\ pending' = pending
           \/ /\ ~Older(j)
              /\ job' = [job EXCEPT ![j].phase = "entering", ![j].counted = TRUE]
              /\ reserved' = [reserved EXCEPT ![Key(j)] = j.issue]
              /\ pending' = pending + 1 /\ todo' = todo
    BY <1>0 DEF Enqueue, CanEnqueue, runtimeVars
  <1>2. Placed /\ ActionsType /\ Booked /\ Moves
    BY DEF ActionsInv, Placed
  <1>3. j \in Jobs /\ todo' \in [Issues -> Seq(Jobs)]
    <2>1. todo[i] \in Seq(Jobs) /\ todo \in [Issues -> Seq(Jobs)]
      BY <1>2 DEF ActionsType
    <2>2. Head(todo[i]) \in Jobs /\ Tail(todo[i]) \in Seq(Jobs)
      BY <1>1, <2>1
    <2> QED BY <1>0, <1>1, <2>1, <2>2
  <1>4. job[j].phase = "made" /\ ~job[j].counted /\ ~job[j].ok /\ j.issue <= latest /\ job[j] \in JobState
    BY <1>1, <1>2, <1>3, JobFields DEF Placed, Shows, Phase
  <1>5. PICK r : r = IF Older(j) THEN [job[j] EXCEPT !.phase = "ending"]
                                 ELSE [job[j] EXCEPT !.phase = "entering", !.counted = TRUE]
    OBVIOUS
  <1>6. r \in JobState /\ ~r.ok /\ (IF Older(j) THEN r.phase = "ending" /\ ~r.counted ELSE r.phase = "entering" /\ r.counted)
    BY <1>4, <1>5 DEF JobState, Waits
  <1>7. job' = [job EXCEPT ![j] = r]
    BY <1>1, <1>5
  <1>8. job' \in [Jobs -> JobState] /\ job'[j] = r /\ \A k \in Jobs : k # j => job'[k] = job[k]
    BY <1>2, <1>3, <1>6, <1>7, JobSet DEF Turns
  <1>9. j \notin Counted /\ Counted' = IF Older(j) THEN Counted ELSE Counted \cup {j}
    BY <1>3, <1>4, <1>6, <1>8 DEF Counted, Unfinished, Phase
  <1>10. pending \in Nat /\ pending = Cardinality(Counted) /\ pending' \in Nat /\ pending' = Cardinality(Counted')
    <2>1. pending \in Nat /\ pending = Cardinality(Counted)
      BY <1>2 DEF ActionsType, Booked
    <2>2. CASE Older(j)
      BY <1>1, <1>9, <2>1, <2>2
    <2>3. CASE ~Older(j)
      <3>1. Counted' = Counted \cup {j} /\ pending' = pending + 1
        BY <1>1, <1>9, <2>3
      <3>2. Cardinality(Counted \cup {j}) = Cardinality(Counted) + 1
        BY <1>9, CountedFinite, FS_AddElement
      <3> QED BY <2>1, <3>1, <3>2
    <2> QED BY <2>2, <2>3
  <1>11. Key(j) \in Keys /\ j.issue \in Numbers /\ j.issue \in Nat /\ latest \in Nat /\ reserved \in [Keys -> Numbers]
    BY <1>2, <1>3, JobIs, IssuesFit DEF ActionsType
  <1>12. reserved' \in [Keys -> Numbers] /\ Booked'
    <2>1. CASE Older(j)
      <3>1. reserved' = Released(j)
        BY <1>1, <2>1
      <3> QED BY <1>1, <1>2, <1>3, <1>8, <1>10, <2>1, <3>1, ReleasedIs, ReleaseBooks
    <2>2. CASE ~Older(j)
      <3>1. j.issue = latest
        BY <1>4, <1>11, <2>2 DEF Older
      <3>2. reserved' = [reserved EXCEPT ![Key(j)] = j.issue]
        BY <1>1, <2>2
      <3>3. /\ reserved' \in [Keys -> Numbers] /\ reserved'[Key(j)] = j.issue
            /\ \A k \in Jobs : Key(k) # Key(j) => reserved'[Key(k)] = reserved[Key(k)]
        BY <1>11, <3>2, JobIs
      <3>4. ASSUME NEW k \in Jobs, reserved'[Key(k)] = k.issue
            PROVE  Phase(k)' = "made" \/ (Unfinished(k)' /\ job'[k].counted)
        <4>1. CASE k = j
          BY <1>6, <1>8, <2>2, <4>1 DEF Unfinished, Phase
        <4>2. CASE k # j
          <5>1. reserved[Key(k)] = k.issue
            BY <1>3, <3>3, <3>4, <4>2, SameJob
          <5> QED BY <1>2, <1>8, <4>2, <5>1 DEF Booked, Unfinished, Phase
        <4> QED BY <4>1, <4>2
      <3>5. ASSUME NEW k \in Jobs, Unfinished(k)', ~Older(k)'
            PROVE  reserved'[Key(k)] = k.issue \/ (k.kind = "handoff" /\ Phase(k)' = "made")
        <4>1. CASE k = j
          BY <3>3, <4>1
        <4>2. CASE k # j /\ Key(k) = Key(j)
          <5>1. Phase(k) # "none"
            BY <1>8, <3>5, <4>2 DEF Unfinished, Phase
          <5>2. k.issue <= latest /\ ~(k.issue < latest) /\ k.issue \in Nat
            BY <1>1, <1>2, <3>5, <5>1, JobIs DEF Placed, Shows, Older
          <5> QED BY <1>11, <3>1, <3>3, <4>2, <5>2
        <4>3. CASE k # j /\ Key(k) # Key(j)
          <5>1. Unfinished(k) /\ ~Older(k) /\ job'[k] = job[k]
            BY <1>1, <1>8, <3>5, <4>3 DEF Unfinished, Phase, Older
          <5> QED BY <1>2, <3>3, <4>3, <5>1 DEF Booked, Phase
        <4> QED BY <4>1, <4>2, <4>3
      <3> QED BY <1>10, <3>3, <3>4, <3>5 DEF Booked, Key
    <2> QED BY <2>1, <2>2
  <1>13. Placed'
    <2>1. ActionsType'
      BY <1>1, <1>2, <1>3, <1>8, <1>10, <1>12 DEF ActionsType
    <2>2. Shows(j)'
      BY <1>1, <1>4, <1>6, <1>8 DEF Shows, Phase, Waits
    <2> QED BY <1>1, <1>2, <1>3, <1>4, <1>8, <2>1, <2>2, OneTurns DEF Phase
  <1>14. Moves'
    <2>1. Idles(j)
      BY <1>4, <1>6, <1>8 DEF Idles, Phase, Resolved, Succeeded
    <2>2. \A k \in Jobs : Idles(k)
      BY <1>8, <2>1, SameIdles
    <2> QED BY <1>1, <1>2, <2>2, MovesRest
  <1> QED BY <1>12, <1>13, <1>14 DEF ActionsInv
LEMMA PublishedFits ==
    ASSUME Placed, Booked, NEW j \in Jobs, NEW ok \in BOOLEAN, job[j].phase \in {"ending", "settled"},
           Published(j, ok), latest' = latest
    PROVE  /\ job' \in [Jobs -> JobState] /\ \A k \in Jobs : k # j => job'[k] = job[k]
           /\ job'[j].phase = "done" /\ job'[j].ok = ok /\ ~job'[j].counted
           /\ reserved' \in [Keys -> Numbers] /\ pending' \in Nat /\ Booked'
  <1>1. ActionsType /\ job \in [Jobs -> JobState] /\ job[j] \in JobState
    BY DEF Placed, ActionsType
  <1>2. PICK a : a = Absent
    OBVIOUS
  <1>a. a \in JobState /\ ~a.counted
    BY <1>2 DEF Absent, JobState
  <1>b. PICK r : r = [a EXCEPT !.phase = "done", !.ok = ok]
    OBVIOUS
  <1>3. r \in JobState /\ r.phase = "done" /\ r.ok = ok /\ ~r.counted
    BY <1>a, <1>b DEF JobState
  <1>4. job' = [job EXCEPT ![j] = r]
    BY <1>2, <1>b DEF Published
  <1>5. job' \in [Jobs -> JobState] /\ job'[j] = r /\ \A k \in Jobs : k # j => job'[k] = job[k]
    BY <1>1, <1>3, <1>4
  <1>6. Counted' = Counted \ {j} /\ (j \in Counted <=> job[j].counted)
    BY <1>3, <1>5 DEF Counted, Unfinished, Phase
  <1>7. pending \in Nat /\ pending = Cardinality(Counted) /\ Cardinality(Counted \ {j}) \in Nat
        /\ Cardinality(Counted \ {j}) = IF j \in Counted THEN Cardinality(Counted) - 1 ELSE Cardinality(Counted)
    <2>1. IsFiniteSet(Counted \ {j})
          /\ Cardinality(Counted \ {j}) = IF j \in Counted THEN Cardinality(Counted) - 1 ELSE Cardinality(Counted)
      BY CountedFinite, FS_RemoveElement
    <2>2. Cardinality(Counted \ {j}) \in Nat
      BY <2>1, FS_CardinalityType
    <2> QED BY <2>1, <2>2 DEF Placed, ActionsType, Booked
  <1>8. reserved' = Released(j) /\ pending' = Cardinality(Counted') /\ pending' \in Nat
    <2>1. CASE job[j].counted
      <3>1. reserved' = Released(j) /\ pending' = pending - 1
        BY <2>1 DEF Published
      <3> QED BY <1>6, <1>7, <2>1, <3>1
    <2>2. CASE ~job[j].counted
      <3>1. reserved' = reserved /\ pending' = pending
        BY <2>2 DEF Published
      <3>2. reserved[Key(j)] # j.issue
        BY <2>2 DEF Booked, Phase
      <3> QED BY <1>6, <1>7, <2>2, <3>1, <3>2 DEF Released
    <2> QED BY <2>1, <2>2
  <1>9. ~Unfinished(j)'
    BY <1>3, <1>5 DEF Unfinished, Phase
  <1>10. Booked'
    BY <1>5, <1>8, <1>9, ReleaseBooks
  <1> QED BY <1>1, <1>3, <1>5, <1>8, <1>10, ReleasedIs

LEMMA CloseFits == ASSUME ActionsInv, NEW j \in Jobs, Close(j) PROVE ActionsInv'
  <1>1. Placed /\ ActionsType /\ Booked /\ Moves /\ Shows(j) /\ job[j].ok \in BOOLEAN
    BY JobFields DEF ActionsInv, Placed
  <1>2. /\ job[j].phase = "settled" /\ Published(j, job[j].ok)
        /\ UNCHANGED <<latest, todo, ingress, queue, conf, tx, hand, fxp>>
    BY DEF Close, CanClose, Phase, runtimeVars
  <1>3. /\ job' \in [Jobs -> JobState] /\ \A k \in Jobs : k # j => job'[k] = job[k]
        /\ job'[j].phase = "done" /\ job'[j].ok = job[j].ok /\ ~job'[j].counted
        /\ reserved' \in [Keys -> Numbers] /\ pending' \in Nat /\ Booked'
    BY <1>1, <1>2, PublishedFits
  <1>4. Placed'
    <2>1. ActionsType'
      BY <1>1, <1>2, <1>3 DEF ActionsType
    <2>2. Shows(j)'
      BY <1>1, <1>2, <1>3 DEF Shows, Phase, Waits
    <2> QED BY <1>1, <1>2, <1>3, <2>1, <2>2, OneTurns DEF Phase
  <1>5. Moves'
    <2>1. Idles(j)
      BY <1>2, <1>3 DEF Idles, Phase, Resolved, Succeeded
    <2>2. \A k \in Jobs : Idles(k)
      BY <1>3, <2>1, SameIdles
    <2> QED BY <1>1, <1>2, <2>2, MovesRest
  <1> QED BY <1>3, <1>4, <1>5 DEF ActionsInv

\* What the last of the dependents of a sync decides.
LEMMA ResolveIs ==
    ASSUME ActionsType, NEW i \in Issues, NEW ok \in BOOLEAN, Resolve(i, ok)
    PROVE  /\ tx' \in [Issues -> Transaction] /\ conf' \in [content : Numbers, generation : Numbers]
           /\ \A n \in Issues : n # i => tx'[n] = tx[n]
           /\ tx'[i].left = tx[i].left - 1 /\ tx'[i].failed = ((tx[i].failed \/ ~ok) /\ tx[i].left # 1)
           /\ tx'[i].open = (tx[i].open /\ tx[i].left # 1)
           /\ conf.generation # i \/ tx[i].left # 1 => conf' = conf
           /\ tx[i].left = 1 /\ tx[i].open /\ ~tx[i].failed /\ ok =>
                conf'.content = conf.content /\ (conf.generation = i => conf'.generation = 0)
  <1>1. tx \in [Issues -> Transaction] /\ tx[i] \in Transaction /\ conf \in [content : Numbers, generation : Numbers]
        /\ 0 \in Numbers
    BY DEF ActionsType, Numbers
  <1>2. PICK last \in BOOLEAN : last = (tx[i].left = 1)
    OBVIOUS
  <1>3. PICK failed \in BOOLEAN : failed = (tx[i].failed \/ ~ok)
    OBVIOUS
  <1>4. /\ tx' = [tx EXCEPT ![i].left = @ - 1, ![i].failed = failed /\ ~last, ![i].open = @ /\ ~last,
                            ![i].before = IF last THEN 0 ELSE @]
        /\ conf' = IF ~tx[i].open \/ ~last THEN conf ELSE IF failed THEN Undone(i) ELSE Kept(i)
    BY <1>2, <1>3 DEF Resolve
  <1>5. PICK before \in Numbers : before = IF last THEN 0 ELSE tx[i].before
    BY <1>1 DEF Transaction
  <1>a. PICK l \in Int : l = tx[i].left - 1
    BY <1>1 DEF Transaction
  <1>b. PICK o \in BOOLEAN : o = (tx[i].open /\ ~last)
    OBVIOUS
  <1>c. PICK f \in BOOLEAN : f = (failed /\ ~last)
    OBVIOUS
  <1>6. PICK t : t = [tx[i] EXCEPT !.left = l, !.failed = f, !.open = o, !.before = before]
    OBVIOUS
  <1>7. t \in Transaction /\ t.left = tx[i].left - 1 /\ t.failed = (failed /\ ~last) /\ t.open = (tx[i].open /\ ~last)
    <2>1. t \in Transaction /\ t.left = l /\ t.failed = f /\ t.open = o
      BY <1>1, <1>6 DEF Transaction
    <2> QED BY <1>a, <1>b, <1>c, <2>1
  <1>8. tx' = [tx EXCEPT ![i] = t]
    <2>1. tx' = [tx EXCEPT ![i] = [tx[i] EXCEPT !.left = tx[i].left - 1, !.failed = failed /\ ~last,
                                   !.open = tx[i].open /\ ~last, !.before = IF last THEN 0 ELSE tx[i].before]]
      BY <1>1, <1>4
    <2> QED BY <1>5, <1>6, <1>a, <1>b, <1>c, <2>1, Zenon
  <1>9. tx' \in [Issues -> Transaction] /\ tx'[i] = t /\ \A n \in Issues : n # i => tx'[n] = tx[n]
    BY <1>1, <1>7, <1>8
  <1>10. /\ Undone(i) \in [content : Numbers, generation : Numbers] /\ Kept(i) \in [content : Numbers, generation : Numbers]
         /\ conf.generation # i => Undone(i) = conf /\ Kept(i) = conf
         /\ Kept(i).content = conf.content /\ (conf.generation = i => Kept(i).generation = 0)
    BY <1>1 DEF Undone, Kept, Transaction
  <1>11. conf' \in [content : Numbers, generation : Numbers]
    BY <1>1, <1>4, <1>10, Zenon
  <1>12. conf.generation # i \/ tx[i].left # 1 => conf' = conf
    BY <1>2, <1>4, <1>10, Zenon
  <1>13. tx[i].left = 1 /\ tx[i].open /\ ~tx[i].failed /\ ok =>
           conf'.content = conf.content /\ (conf.generation = i => conf'.generation = 0)
    <2>1. tx[i].left = 1 /\ tx[i].open /\ ~tx[i].failed /\ ok => conf' = Kept(i)
      BY <1>2, <1>3, <1>4, Zenon
    <2> QED BY <1>10, <2>1
  <1> QED BY <1>2, <1>3, <1>7, <1>9, <1>11, <1>12, <1>13
\* The step of an apply: its resolution counts for the sync of its state.
LEMMA ResolvesFits ==
    ASSUME Placed, Moves, NEW j \in Jobs, NEW ok \in BOOLEAN, j.kind = "apply", job[j].phase = "ending",
           Phase(Job("sync", None, j.issue)) = "done", Resolve(j.issue, ok),
           \A k \in Jobs : k # j => job'[k] = job[k],
           job'[j].phase \in {"settled", "done"}, job'[j].ok = ok, UNCHANGED <<latest, fxp>>
    PROVE  Moves'
  <1>1. ActionsType /\ j.issue <= latest /\ j.issue \in Issues /\ latest \in Numbers /\ j.issue > 0
        /\ j.issue \in Nat /\ latest \in Nat
    BY JobIs, IssuesFit DEF Placed, ActionsType, Shows, Phase
  <1>2. PICK i \in Issues : i = j.issue
    BY <1>1
  <1>3. /\ \A n \in Issues : n # i => tx'[n] = tx[n]
        /\ tx'[i].left = tx[i].left - 1 /\ tx'[i].failed = ((tx[i].failed \/ ~ok) /\ tx[i].left # 1)
        /\ tx'[i].open = (tx[i].open /\ tx[i].left # 1)
        /\ conf.generation # i \/ tx[i].left # 1 => conf' = conf
        /\ tx[i].left = 1 /\ tx[i].open /\ ~tx[i].failed /\ ok =>
             conf'.content = conf.content /\ (conf.generation = i => conf'.generation = 0)
    BY <1>1, <1>2, ResolveIs
  <1>4. ASSUME NEW k \in Jobs, k.kind = "apply", Resolved(k)' PROVE Phase(Job("sync", None, k.issue))' = "done"
    <2>1. Job("sync", None, k.issue) \in Jobs
      BY JobIs, IsJob
    <2>2. Phase(Job("sync", None, k.issue)) = "done"
      <3>1. CASE k = j
        BY <3>1
      <3>2. CASE k # j
        BY <1>4, <3>2 DEF Moves, Resolved, Phase
      <3> QED BY <3>1, <3>2
    <2>3. Job("sync", None, k.issue) # j
      BY <2>2 DEF Phase
    <2> QED BY <2>1, <2>2, <2>3 DEF Phase
  <1>5. \A k \in Jobs : Phase(k)' = "running" => k # j /\ Phase(k) = "running"
    BY DEF Phase
  <1>6. ASSUME NEW k \in Jobs, NEW l \in Jobs, k.kind = "sync", Phase(k)' = "running", Phase(l)' = "running"
        PROVE  k = l
    BY <1>5, <1>6 DEF Moves
  <1>7. ASSUME NEW n \in Issues, n > latest' PROVE ~tx'[n].failed
    <2>1. n > latest /\ n # i
      BY <1>1, <1>2, <1>7, IssuesFit
    <2> QED BY <1>3, <2>1 DEF Moves
  <1>8. ASSUME latest > 0 PROVE Latest'
    <2>1. latest \in Issues /\ Latest
      BY <1>1, <1>8 DEF Numbers, Moves
    <2>2. /\ Sync \in Jobs /\ Sync.kind = "sync" /\ Sync.issue = latest /\ Sync' = Sync
          /\ \A p \in Ports : Apply(p) \in Jobs /\ Apply(p).kind = "apply" /\ Apply(p).issue = latest
                                /\ Apply(p).port = p /\ Apply(p)' = Apply(p)
      BY <2>1, IsJob DEF Sync, Apply, Job
    <2>3. \A k \in Jobs : Phase(k) # "none" => Phase(k)' # "none"
      BY DEF Phase
    <2>4. Phase(Sync)' # "none" /\ \A p \in Ports : Phase(Apply(p))' # "none"
      BY <2>1, <2>2, <2>3 DEF Latest
    <2>5. Sync # j /\ Succeeded(Sync)' = Succeeded(Sync)
      BY <2>2 DEF Succeeded
    <2>6. Succeeded(Sync)' => \A k \in Jobs : k.kind = "sync" => Phase(k)' # "running"
      BY <1>5, <2>1, <2>5 DEF Latest
    <2>7. CASE i # latest
      <3>1. tx'[latest] = tx[latest] /\ \A p \in Ports : job'[Apply(p)] = job[Apply(p)]
        BY <1>2, <1>3, <2>1, <2>2, <2>7
      <3>2. \A p \in Ports : Resolved(Apply(p))' = Resolved(Apply(p)) /\ Succeeded(Apply(p))' = Succeeded(Apply(p))
        BY <2>2, <3>1 DEF Resolved, Succeeded, Phase
      <3>3. Unresolved' = Unresolved
        BY <2>2, <3>2 DEF Unresolved
      <3>4. tx'[latest'].left = Cardinality(Unresolved')
        BY <2>1, <3>1, <3>3 DEF Latest
      <3>5. tx'[latest'].failed => \E p \in Ports : Resolved(Apply(p))' /\ ~Succeeded(Apply(p))'
        BY <2>1, <3>1, <3>2 DEF Latest
      <3>6. Stands'
        <4> SUFFICES ASSUME Succeeded(Sync)', \A p \in Ports : Resolved(Apply(p))' => Succeeded(Apply(p))'
                     PROVE  /\ conf'.content = latest /\ fxp = {}
                            /\ IF Unresolved = {} THEN conf'.generation = 0
                                                  ELSE tx'[latest].open /\ conf'.generation = latest
          BY <3>3 DEF Stands
        <4>1. /\ conf.content = latest /\ fxp = {}
              /\ IF Unresolved = {} THEN conf.generation = 0 ELSE tx[latest].open /\ conf.generation = latest
          BY <2>1, <2>5, <3>2 DEF Latest, Stands
        <4>2. conf.generation # i
          BY <1>1, <1>2, <2>7, <4>1
        <4> QED BY <1>3, <3>1, <4>1, <4>2
      <3> QED BY <2>4, <2>6, <3>4, <3>5, <3>6 DEF Latest
    <2>8. CASE i = latest
      <3>1. PICK p \in Ports : p = j.port /\ j = Apply(p)
        <4>1. j.port \in Ports /\ j = Job("apply", j.port, latest)
          BY <1>2, <2>8, JobIs
        <4> QED BY <4>1 DEF Apply
      <3>2. \A q \in Ports : q # p => Apply(q) # j /\ job'[Apply(q)] = job[Apply(q)]
        BY <2>2, <3>1
      <3>3. ~Resolved(Apply(p)) /\ Resolved(Apply(p))' /\ Succeeded(Apply(p))' = ok
        BY <2>2, <3>1 DEF Resolved, Succeeded, Phase
      <3>4. \A q \in Ports : q # p => Resolved(Apply(q))' = Resolved(Apply(q)) /\ Succeeded(Apply(q))' = Succeeded(Apply(q))
        BY <2>2, <3>2 DEF Resolved, Succeeded, Phase
      <3>5. p \in Unresolved /\ Unresolved' = Unresolved \ {p}
        BY <2>2, <3>3, <3>4 DEF Unresolved
      <3>6. /\ IsFiniteSet(Unresolved) /\ IsFiniteSet(Unresolved') /\ Cardinality(Unresolved) \in Nat
            /\ Cardinality(Unresolved') = Cardinality(Unresolved) - 1
            /\ (Unresolved' = {}) <=> (Cardinality(Unresolved') = 0)
        <4>1. Unresolved \subseteq Ports
          BY DEF Unresolved
        <4>2. PICK u : u = Unresolved
          OBVIOUS
        <4>3. PICK v : v = Unresolved'
          OBVIOUS
        <4>4. IsFiniteSet(u) /\ p \in u /\ v = u \ {p}
          BY <3>5, <4>1, <4>2, <4>3, PortsFit, FS_Subset
        <4>5. IsFiniteSet(v) /\ Cardinality(v) = Cardinality(u) - 1
          BY <4>4, FS_RemoveElement
        <4>6. Cardinality(u) \in Nat /\ (Cardinality(v) = 0 <=> v = {})
          BY <4>4, <4>5, FS_CardinalityType, FS_EmptySet
        <4> QED BY <4>2, <4>3, <4>4, <4>5, <4>6
      <3>7. tx[i].left = Cardinality(Unresolved) /\ tx'[i].left = Cardinality(Unresolved')
            /\ (tx[i].left = 1 <=> Unresolved' = {})
        <4>1. tx[i].left = Cardinality(Unresolved)
          BY <2>1, <2>8 DEF Latest
        <4> QED BY <1>3, <3>6, <4>1
      <3>8. ASSUME tx'[i].failed PROVE \E q \in Ports : Resolved(Apply(q))' /\ ~Succeeded(Apply(q))'
        <4>1. CASE ~ok
          BY <3>3, <4>1
        <4>2. CASE tx[i].failed
          <5>1. PICK q \in Ports : Resolved(Apply(q)) /\ ~Succeeded(Apply(q))
            BY <2>1, <2>8, <4>2 DEF Latest
          <5>2. q # p
            BY <3>3, <5>1
          <5> QED BY <3>4, <5>1, <5>2
        <4> QED BY <1>3, <3>8, <4>1, <4>2
      <3>9. Stands'
        <4> SUFFICES ASSUME Succeeded(Sync)', \A q \in Ports : Resolved(Apply(q))' => Succeeded(Apply(q))'
                     PROVE  /\ conf'.content = latest /\ fxp = {}
                            /\ IF Unresolved' = {} THEN conf'.generation = 0
                                                   ELSE tx'[latest].open /\ conf'.generation = latest
          BY DEF Stands
        <4>1. ok
          BY <3>3
        <4>2. \A q \in Ports : Resolved(Apply(q)) => Succeeded(Apply(q))
          <5> SUFFICES ASSUME NEW q \in Ports, Resolved(Apply(q)) PROVE Succeeded(Apply(q))
            OBVIOUS
          <5>1. q # p
            BY <3>3
          <5> QED BY <3>4, <5>1
        <4>3. ~tx[i].failed
          BY <2>1, <2>8, <4>2 DEF Latest
        <4>4. Unresolved # {} /\ Stands
          BY <2>1, <3>5 DEF Latest
        <4>5. conf.content = latest /\ fxp = {} /\ tx[latest].open /\ conf.generation = latest
          BY <2>5, <4>2, <4>4 DEF Stands
        <4>6. CASE Unresolved' = {}
          BY <1>3, <2>8, <3>7, <4>1, <4>3, <4>5, <4>6
        <4>7. CASE Unresolved' # {}
          BY <1>3, <2>8, <3>7, <4>5, <4>7
        <4> QED BY <4>6, <4>7
      <3> QED BY <2>4, <2>6, <2>8, <3>7, <3>8, <3>9 DEF Latest
    <2> QED BY <2>7, <2>8
  <1> QED BY <1>4, <1>6, <1>7, <1>8 DEF Moves

LEMMA SettleFits == ASSUME ActionsInv, NEW j \in Jobs, Settle(j) PROVE ActionsInv'
  <1>1. Placed /\ ActionsType /\ Booked /\ Moves /\ Shows(j) /\ job[j] \in JobState /\ job[j].ok \in BOOLEAN
    BY JobFields DEF ActionsInv, Placed
  <1>2. PICK ok \in BOOLEAN : ok = (job[j].ok /\ PrerequisitesOk(j))
    BY DEF PrerequisitesOk
  <1>3. PICK owed : owed = IF j.kind = "handoff" THEN {} ELSE Owed(j, ok)
    OBVIOUS
  <1>4. /\ job[j].phase = "ending" /\ PrerequisitesDone(j) /\ (ok => job[j].ok)
        /\ IF j.kind = "apply" THEN Resolve(j.issue, ok) ELSE UNCHANGED <<conf, tx>>
        /\ hand' = [p \in Ports |-> IF p \in owed
                      THEN [hand[p] EXCEPT ![j.issue] = IF ok THEN "commit" ELSE "rollback"]
                      ELSE hand[p]]
        /\ \/ Published(j, ok)
           \/ /\ job' = [job EXCEPT ![j].phase = "settled", ![j].ok = ok]
              /\ UNCHANGED <<reserved, pending>>
        /\ UNCHANGED <<latest, todo, ingress, queue, fxp>>
    BY <1>2, <1>3, Zenon DEF Settle, CanSettle, Phase
  <1>5. /\ job' \in [Jobs -> JobState] /\ \A k \in Jobs : k # j => job'[k] = job[k]
        /\ job'[j].phase \in {"settled", "done"} /\ job'[j].ok = ok
        /\ reserved' \in [Keys -> Numbers] /\ pending' \in Nat /\ Booked'
    <2>1. CASE Published(j, ok)
      BY <1>1, <1>4, <2>1, PublishedFits
    <2>2. CASE job' = [job EXCEPT ![j].phase = "settled", ![j].ok = ok] /\ UNCHANGED <<reserved, pending>>
      <3>1. PICK r : r = [job[j] EXCEPT !.phase = "settled", !.ok = ok]
        OBVIOUS
      <3>2. r \in JobState /\ r.phase = "settled" /\ r.ok = ok /\ r.counted = job[j].counted
        BY <1>1, <3>1 DEF JobState
      <3>3. job' = [job EXCEPT ![j] = r]
        BY <2>2, <3>1
      <3>4. job' \in [Jobs -> JobState] /\ job'[j] = r /\ \A k \in Jobs : k # j => job'[k] = job[k]
        BY <1>1, <3>2, <3>3, JobSet DEF Turns
      <3>5. \A k \in Jobs : /\ Unfinished(k)' = Unfinished(k) /\ job'[k].counted = job[k].counted
                            /\ (Phase(k) = "made") = (Phase(k)' = "made")
        BY <1>4, <3>2, <3>4 DEF Unfinished, Phase
      <3>6. Booked'
        BY <1>1, <1>4, <2>2, <3>5, BooksRest
      <3> QED BY <1>1, <2>2, <3>2, <3>4, <3>6 DEF ActionsType
    <2> QED BY <1>4, <2>1, <2>2
  <1>6. conf' \in [content : Numbers, generation : Numbers] /\ tx' \in [Issues -> Transaction]
    <2>1. CASE j.kind = "apply"
      BY <1>1, <1>4, <2>1, JobIs, ResolveIs
    <2>2. CASE j.kind # "apply"
      BY <1>1, <1>4, <2>2 DEF ActionsType
    <2> QED BY <2>1, <2>2
  <1>7. hand' \in [Ports -> [Issues -> {"idle", "stopped", "commit", "rollback", "restoring"}]]
    <2>1. PICK S : S = {"idle", "stopped", "commit", "rollback", "restoring"}
      OBVIOUS
    <2>2. PICK end \in S : end = IF ok THEN "commit" ELSE "rollback"
      BY <2>1
    <2>3. hand \in [Ports -> [Issues -> S]]
      BY <1>1, <2>1 DEF ActionsType
    <2>4. \A p \in Ports : [hand[p] EXCEPT ![j.issue] = end] \in [Issues -> S] /\ hand[p] \in [Issues -> S]
      BY <2>3
    <2>5. hand' = [p \in Ports |-> IF p \in owed THEN [hand[p] EXCEPT ![j.issue] = end] ELSE hand[p]]
      BY <1>4, <2>2
    <2> QED BY <2>1, <2>4, <2>5
  <1>8. Placed'
    <2>1. ActionsType'
      BY <1>1, <1>4, <1>5, <1>6, <1>7 DEF ActionsType
    <2>2. Shows(j)'
      BY <1>1, <1>4, <1>5 DEF Shows, Phase, Waits
    <2> QED BY <1>1, <1>4, <1>5, <2>1, <2>2, OneTurns DEF Phase
  <1>9. Moves'
    <2>1. CASE j.kind = "apply"
      <3>1. Phase(Job("sync", None, j.issue)) = "done"
        BY <1>4, <2>1 DEF PrerequisitesDone, Prerequisites
      <3> QED BY <1>1, <1>4, <1>5, <2>1, <3>1, ResolvesFits
    <2>2. CASE j.kind # "apply"
      <3>1. Idles(j)
        BY <1>4, <1>5, <2>2 DEF Idles, Phase, Succeeded
      <3>2. \A k \in Jobs : Idles(k)
        BY <1>5, <3>1, SameIdles
      <3> QED BY <1>1, <1>4, <2>2, <3>2, MovesRest
    <2> QED BY <2>1, <2>2
  <1> QED BY <1>5, <1>8, <1>9 DEF ActionsInv
LEMMA ReceiveFits == ASSUME ActionsInv, NEW i \in Issues, Receive(i) PROVE ActionsInv'
  <1>1. Placed /\ ActionsType /\ Booked /\ Moves /\ i \in Numbers /\ i \in Nat /\ i > 0 /\ latest \in Nat
    BY IssuesFit DEF ActionsInv, Placed, ActionsType
  <1>2. PICK batch : batch = Batch(i, Moved)
    OBVIOUS
  <1>3. /\ batch \in Seq(Jobs) /\ \A j \in ToSet(batch) : j \in Jobs /\ j.issue = i
        /\ \A j \in Jobs : j.issue = i /\ j.kind # "handoff" => j \in ToSet(batch)
    BY <1>2, MovedFits, BatchFits
  <1>4. /\ i > latest /\ latest' = i
        /\ todo' = [todo EXCEPT ![i] = batch]
        /\ job' = [j \in Jobs |-> IF j \in ToSet(batch) THEN [Absent EXCEPT !.phase = "made"] ELSE job[j]]
        /\ reserved' = [k \in DOMAIN reserved |-> IF k[1] = "handoff" THEN reserved[k] ELSE i]
        /\ tx' = [tx EXCEPT ![i].left = Cardinality(Ports)]
        /\ UNCHANGED <<pending, ingress, queue, conf, hand, fxp>>
    BY <1>2 DEF Receive
  <1>5. PICK a : a = [Absent EXCEPT !.phase = "made"]
    OBVIOUS
  <1>6. a \in JobState /\ a.phase = "made" /\ ~a.ok /\ ~a.counted
    BY <1>5 DEF Absent, JobState
  <1>7. /\ job' \in [Jobs -> JobState]
        /\ \A j \in Jobs : IF j \in ToSet(batch) THEN job'[j] = a ELSE job'[j] = job[j]
    BY <1>1, <1>4, <1>5, <1>6 DEF ActionsType
  <1>8. ASSUME NEW j \in Jobs PROVE /\ Shows(j)
                                    /\ j \in ToSet(batch) => job[j].phase = "none" /\ ~job[j].counted
                                    /\ job[j].phase # "none" => job'[j] = job[j] /\ j \notin ToSet(batch)
    <2>1. Shows(j)
      BY <1>1 DEF Placed
    <2>2. j \in ToSet(batch) => job[j].phase = "none"
      BY <1>1, <1>3, <1>4, <2>1 DEF Shows, Phase
    <2> QED BY <1>7, <2>1, <2>2 DEF Shows, Phase
  <1>9. /\ reserved' \in [Keys -> Numbers]
        /\ \A j \in Jobs : reserved'[Key(j)] = IF j.kind = "handoff" THEN reserved[Key(j)] ELSE i
    <2>1. reserved \in [Keys -> Numbers]
      BY <1>1 DEF ActionsType
    <2>2. \A j \in Jobs : Key(j) \in Keys /\ Key(j)[1] = j.kind
      BY JobIs
    <2> QED BY <1>1, <1>4, <2>1, <2>2
  <1>10. Cardinality(Ports) \in Nat
    BY PortsFit, FS_CardinalityType
  <1>11. /\ tx' \in [Issues -> Transaction] /\ tx'[i].left = Cardinality(Ports)
         /\ \A n \in Issues : tx'[n].failed = tx[n].failed
    <2>1. tx \in [Issues -> Transaction] /\ tx[i] \in Transaction
      BY <1>1 DEF ActionsType
    <2>2. PICK l \in Int : l = Cardinality(Ports)
      BY <1>10
    <2>3. PICK t : t = [tx[i] EXCEPT !.left = l]
      OBVIOUS
    <2>4. t \in Transaction /\ t.left = l /\ t.failed = tx[i].failed
      BY <2>1, <2>3 DEF Transaction
    <2>5. tx' = [tx EXCEPT ![i] = t]
      BY <1>4, <2>1, <2>2, <2>3
    <2> QED BY <2>1, <2>2, <2>4, <2>5
  <1>12. Placed'
    <2>1. ActionsType'
      <3>1. todo' \in [Issues -> Seq(Jobs)]
        BY <1>1, <1>3, <1>4 DEF ActionsType
      <3> QED BY <1>1, <1>4, <1>7, <1>9, <1>11, <3>1 DEF ActionsType
    <2>2. Holds(ingress', job', "ingress") /\ Holds(queue', job', "queued")
      <3>1. ingress \in Seq(Jobs) /\ queue \in Seq(Jobs)
            /\ Holds(ingress, job, "ingress") /\ Holds(queue, job, "queued")
        BY <1>1 DEF Placed, ActionsType
      <3>2. \A k \in Jobs : /\ job[k].phase = "ingress" => job'[k].phase = "ingress"
                            /\ job[k].phase = "queued" => job'[k].phase = "queued"
        BY <1>8
      <3>3. Holds(ingress, job', "ingress")
        BY <3>1, <3>2, StillHolds
      <3>4. Holds(queue, job', "queued")
        BY <3>1, <3>2, StillHolds
      <3> QED BY <1>4, <3>3, <3>4
    <2>3. ASSUME NEW j \in Jobs PROVE Shows(j)'
      <3>1. CASE j \in ToSet(batch)
        BY <1>1, <1>3, <1>4, <1>6, <1>7, <3>1 DEF Shows, Phase, Waits
      <3>2. CASE j \notin ToSet(batch)
        <4>1. Shows(j) /\ job'[j] = job[j] /\ j.issue \in Nat
          BY <1>7, <1>8, <3>2, JobIs
        <4>2. job[j].phase # "none" => j.issue <= latest'
          BY <1>1, <1>4, <4>1 DEF Shows, Phase
        <4> QED BY <4>1, <4>2 DEF Shows, Phase
      <3> QED BY <3>1, <3>2
    <2> QED BY <2>1, <2>2, <2>3 DEF Placed
  <1>13. Booked'
    <2>1. ASSUME NEW j \in Jobs, reserved'[Key(j)] = j.issue
          PROVE  Phase(j)' = "made" \/ (Unfinished(j)' /\ job'[j].counted)
      <3>1. CASE j.kind = "handoff"
        <4>1. Phase(j) = "made" \/ (Unfinished(j) /\ job[j].counted)
          BY <1>1, <1>9, <2>1, <3>1 DEF Booked
        <4>2. job'[j] = job[j]
          BY <1>8, <4>1 DEF Phase, Unfinished
        <4> QED BY <4>1, <4>2 DEF Phase, Unfinished
      <3>2. CASE j.kind # "handoff"
        <4>1. j \in ToSet(batch)
          BY <1>3, <1>9, <2>1, <3>2
        <4> QED BY <1>6, <1>7, <4>1 DEF Phase
      <3> QED BY <3>1, <3>2
    <2>2. ASSUME NEW j \in Jobs, Unfinished(j)', ~Older(j)'
          PROVE  reserved'[Key(j)] = j.issue \/ (j.kind = "handoff" /\ Phase(j)' = "made")
      <3>1. CASE j \in ToSet(batch)
        BY <1>3, <1>6, <1>7, <1>9, <3>1 DEF Phase
      <3>2. CASE j \notin ToSet(batch)
        <4>1. Phase(j) # "none" /\ Shows(j) /\ j.issue \in Nat
          BY <1>7, <1>8, <2>2, <3>2, JobIs DEF Unfinished, Phase
        <4> QED BY <1>1, <1>4, <2>2, <4>1 DEF Shows, Older
      <3> QED BY <3>1, <3>2
    <2>3. Counted' = Counted
      <3>1. \A j \in Jobs : (Unfinished(j)' /\ job'[j].counted) = (Unfinished(j) /\ job[j].counted)
        BY <1>6, <1>7, <1>8 DEF Unfinished, Phase
      <3> QED BY <3>1 DEF Counted
    <2>4. pending' = Cardinality(Counted')
      BY <1>1, <1>4, <2>3 DEF Booked
    <2> QED BY <2>1, <2>2, <2>4 DEF Booked, Key
  <1>14. Moves'
    <2>1. ASSUME NEW j \in Jobs, j.kind = "apply", Resolved(j)' PROVE Phase(Job("sync", None, j.issue))' = "done"
      <3>1. j \notin ToSet(batch) /\ job'[j] = job[j]
        BY <1>6, <1>7, <2>1 DEF Resolved, Phase
      <3>2. Job("sync", None, j.issue) \in Jobs /\ Phase(Job("sync", None, j.issue)) = "done"
        BY <1>1, <2>1, <3>1, JobIs, IsJob DEF Moves, Resolved, Phase
      <3> QED BY <1>8, <3>2 DEF Phase
    <2>2. \A j \in Jobs : Phase(j)' = "running" => Phase(j) = "running"
      BY <1>6, <1>7 DEF Phase
    <2>3. ASSUME NEW j \in Jobs, NEW k \in Jobs, j.kind = "sync", Phase(j)' = "running", Phase(k)' = "running"
          PROVE  j = k
      BY <1>1, <2>2, <2>3 DEF Moves
    <2>4. ASSUME NEW n \in Issues, n > latest' \/ n = i PROVE ~tx'[n].failed
      <3>1. n > latest
        BY <1>1, <1>4, <2>4, IssuesFit
      <3> QED BY <1>1, <1>11, <3>1 DEF Moves
    <2>5. Latest'
      <3>1. /\ Sync' = Job("sync", None, i) /\ Sync' \in ToSet(batch) /\ Sync' \in Jobs
            /\ \A p \in Ports : Apply(p)' = Job("apply", p, i) /\ Apply(p)' \in ToSet(batch) /\ Apply(p)' \in Jobs
        <4>1. Job("sync", None, i) \in Jobs /\ Job("sync", None, i).issue = i /\ Job("sync", None, i).kind # "handoff"
          BY IsJob DEF Job
        <4>2. \A p \in Ports : Job("apply", p, i) \in Jobs /\ Job("apply", p, i).issue = i /\ Job("apply", p, i).kind # "handoff"
          BY IsJob DEF Job
        <4> QED BY <1>3, <1>4, <4>1, <4>2 DEF Sync, Apply
      <3>2. /\ Phase(Sync)' = "made" /\ ~Succeeded(Sync)'
            /\ \A p \in Ports : Phase(Apply(p))' = "made"
        BY <1>6, <1>7, <3>1 DEF Phase, Succeeded
      <3>3. Unresolved' = Ports
        BY <3>2 DEF Unresolved, Resolved
      <3>4. tx'[latest'].left = Cardinality(Unresolved') /\ ~tx'[latest'].failed
        BY <1>4, <1>11, <2>4, <3>3
      <3>5. Stands'
        BY <3>2 DEF Stands
      <3> QED BY <3>2, <3>4, <3>5 DEF Latest
    <2> QED BY <2>1, <2>3, <2>4, <2>5 DEF Moves
  <1> QED BY <1>12, <1>13, <1>14 DEF ActionsInv
-----------------------------------------------------------------------------
LEMMA InitFits == Init => ActionsInv
  <1> SUFFICES ASSUME Init PROVE ActionsInv
    OBVIOUS
  <1>1. PICK a : a = Absent
    OBVIOUS
  <1>2. a \in JobState /\ a.phase = "none" /\ ~a.ok /\ ~a.counted
    BY <1>1 DEF Absent, JobState
  <1>3. job = [j \in Jobs |-> a] /\ job \in [Jobs -> JobState] /\ latest = 0 /\ 0 \in Numbers
    BY <1>1, <1>2 DEF Init, Numbers
  <1>4. tx \in [Issues -> Transaction] /\ \A i \in Issues : ~tx[i].failed
    BY <1>3 DEF Init, Transaction
  <1>5. reserved = [k \in Keys |-> 0] /\ reserved \in [Keys -> Numbers]
    BY <1>3 DEF Init, Keys
  <1>6. ActionsType
    BY <1>3, <1>4, <1>5 DEF Init, ActionsType
  <1>7. Placed
    <2>1. Holds(ingress, job, "ingress") /\ Holds(queue, job, "queued")
      BY DEF Init, Holds
    <2>2. \A j \in Jobs : Shows(j)
      BY <1>2, <1>3 DEF Shows, Phase, Waits
    <2> QED BY <1>6, <2>1, <2>2 DEF Placed
  <1>8. Booked
    <2>1. \A j \in Jobs : reserved[Key(j)] # j.issue
      BY <1>5, JobIs
    <2>2. \A j \in Jobs : ~Unfinished(j)
      BY <1>2, <1>3 DEF Unfinished, Phase
    <2>3. Counted = {}
      BY <2>2 DEF Counted
    <2>4. pending = Cardinality(Counted)
      BY <2>3, FS_EmptySet DEF Init
    <2> QED BY <2>1, <2>2, <2>4 DEF Booked
  <1>9. Moves
    <2>1. \A j \in Jobs : Phase(j) = "none" /\ ~Resolved(j)
      BY <1>2, <1>3 DEF Phase, Resolved
    <2> QED BY <1>3, <1>4, <2>1 DEF Moves
  <1> QED BY <1>7, <1>8, <1>9 DEF ActionsInv

LEMMA NextFits == ActionsInv /\ [Next]_vars => ActionsInv'
  <1> SUFFICES ASSUME ActionsInv, [Next]_vars PROVE ActionsInv'
    OBVIOUS
  <1>1. CASE Dispatch \/ Take
    BY <1>1, DispatchFits, TakeFits
  <1>2. ASSUME NEW i \in Issues, Enqueue(i) \/ Push(i) \/ Receive(i) PROVE ActionsInv'
    BY <1>2, EnqueueFits, PushFits, ReceiveFits
  <1>3. ASSUME NEW j \in Jobs, Work(j) PROVE ActionsInv'
    <2>1. CASE Start(j) \/ Settle(j) \/ Close(j)
      BY <2>1, StartFits, SettleFits, CloseFits
    <2>2. ASSUME NEW ok \in BOOLEAN, HandleHandoff(j, ok) \/ HandleSync(j, ok) \/ HandleApply(j, ok)
          PROVE  ActionsInv'
      BY <2>2, HandleHandoffFits, HandleSyncFits, HandleApplyFits
    <2> QED BY <1>3, <2>1, <2>2 DEF Work
  <1>4. ASSUME NEW p \in Ports, NEW i \in Issues, Finalize(p, i) \/ Restore(p, i) PROVE ActionsInv'
    BY <1>4, FinalizeFits, RestoreFits
  <1>5. CASE UNCHANGED vars
    BY <1>5, StutterFits
  <1> QED BY <1>1, <1>2, <1>3, <1>4, <1>5 DEF Next, Progress

\* The inductive invariant: places, books and moves.
THEOREM ActionsInvariant == Spec => []ActionsInv
  <1>1. Init => ActionsInv
    BY InitFits
  <1>2. ActionsInv /\ [Next]_vars => ActionsInv'
    BY NextFits
  <1> QED BY <1>1, <1>2, PTL DEF Spec

\* The types of the state, for any ports, states, workers and capacities.
THEOREM ActionsTypes == Spec => []ActionsType
  <1>1. ActionsInv => ActionsType
    BY DEF ActionsInv, Placed
  <1> QED BY <1>1, ActionsInvariant, PTL

\* A key is reserved exactly as long as the latest job of that key is under way, and
\* pending counts the jobs that are: actions.go:205-222, 2290.
THEOREM ActionsReserve == Spec => []ReservedWhilePending
  <1>1. ActionsInv => ReservedWhilePending
    BY DEF ActionsInv, Booked, ReservedWhilePending, Counted, Unfinished
  <1> QED BY <1>1, ActionsInvariant, PTL

\* A move of every port that has succeeded is not undone by an older state:
\* managed_configs.go:195, actions.go:1286.
THEOREM ActionsStand == Spec => []SuccessStands
  <1>1. ActionsInv => SuccessStands
    <2> SUFFICES ASSUME ActionsInv, latest > 0,
                        \A j \in Jobs : j.issue = latest /\ Phase(j) # "none" => Phase(j) = "done" /\ job[j].ok
                 PROVE  conf = [content |-> latest, generation |-> 0] /\ fxp = {}
      BY DEF SuccessStands
    <2>1. latest \in Issues /\ Latest /\ conf \in [content : Numbers, generation : Numbers]
      BY DEF ActionsInv, Placed, ActionsType, Numbers, Moves
    <2>2. /\ Sync \in Jobs /\ Sync.issue = latest
          /\ \A p \in Ports : Apply(p) \in Jobs /\ Apply(p).issue = latest
      BY <2>1, IsJob DEF Sync, Apply, Job
    <2>3. Succeeded(Sync) /\ \A p \in Ports : Resolved(Apply(p)) /\ Succeeded(Apply(p))
      BY <2>1, <2>2 DEF Latest, Succeeded, Resolved
    <2>4. Unresolved = {}
      BY <2>3 DEF Unresolved
    <2>5. conf.content = latest /\ conf.generation = 0 /\ fxp = {}
      BY <2>1, <2>3, <2>4 DEF Latest, Stands
    <2> QED BY <2>1, <2>5
  <1> QED BY <1>1, ActionsInvariant, PTL
-----------------------------------------------------------------------------
(* The order of the jobs of one state, and why none is stranded.           *)

Rank(j) == CASE j.kind = "handoff" -> 0 [] j.kind = "sync" -> 1 [] j.kind = "apply" -> 2
Before(j, k) == j.issue = k.issue /\ Rank(j) < Rank(k)

Within(q, j) == \E n \in DOMAIN q : q[n] = j
Line(q) == \A m, n \in DOMAIN q : Before(q[m], q[n]) => m < n

\* The jobs that syncDesiredState has still to enqueue.
Listed(i) ==
    /\ Line(todo[i]) /\ \A m, n \in DOMAIN todo[i] : todo[i][m] = todo[i][n] => m = n
    /\ \A n \in DOMAIN todo[i] :
         /\ todo[i][n].issue = i
         /\ Phase(todo[i][n]) = "made" \/ (n = 1 /\ Phase(todo[i][n]) = "entering")

\* A job is where its phase says.
Found(j) ==
    /\ Phase(j) \in {"made", "entering"} => Within(todo[j.issue], j)
    /\ Phase(j) = "ingress" => Within(ingress, j)
    /\ Phase(j) = "queued" => Within(queue, j)

\* No job overtakes one that it may have to wait for.
Ahead(j, k) ==
    /\ Phase(j) \in {"made", "entering"} => Phase(k) = "made"
    /\ Phase(j) = "ingress" => Phase(k) \notin {"queued", "waiting"}
    /\ Phase(j) = "queued" => Phase(k) # "waiting"

Ready(j) ==
    /\ Phase(j) = "running" \/ job[j].ran => PrerequisitesDone(j) /\ Phase(j) # "none"
    /\ j.kind = "apply" /\ Phase(j) # "none" => Phase(Job("sync", None, j.issue)) # "none"

Ordered ==
    /\ \A i \in Issues : Listed(i)
    /\ Line(ingress) /\ Line(queue)
    /\ \A j \in Jobs : Found(j) /\ Ready(j)
    /\ \A j, k \in Jobs : Before(j, k) => Ahead(j, k)

LEMMA TailLine ==
    ASSUME NEW q \in Seq(Jobs), q # <<>>, Line(q)
    PROVE  /\ Line(Tail(q)) /\ Tail(q) \in Seq(Jobs)
           /\ \A n \in DOMAIN Tail(q) : n + 1 \in DOMAIN q /\ n + 1 # 1 /\ n \in Int /\ Tail(q)[n] = q[n + 1]
           /\ \A j : Within(q, j) /\ j # Head(q) => Within(Tail(q), j)
           /\ Head(q) = q[1] /\ 1 \in DOMAIN q /\ Head(q) \in Jobs
           /\ \A j : Within(q, j) => ~Before(j, Head(q))
  <1>1. PICK r : r = Tail(q)
    OBVIOUS
  <1>2. /\ r \in Seq(Jobs) /\ Len(r) = Len(q) - 1 /\ 1 \in DOMAIN q /\ Head(q) = q[1] /\ Len(q) \in Nat
        /\ DOMAIN q = 1..Len(q) /\ DOMAIN r = 1..(Len(q) - 1)
        /\ \A n \in DOMAIN r : r[n] = q[n + 1] /\ n + 1 \in DOMAIN q /\ n + 1 # 1 /\ n \in Int
    BY <1>1
  <1>3. Line(r)
    <2> SUFFICES ASSUME NEW m \in DOMAIN r, NEW n \in DOMAIN r, Before(r[m], r[n]) PROVE m < n
      BY DEF Line
    <2>1. m + 1 < n + 1
      BY <1>2 DEF Line
    <2> QED BY <1>2, <2>1
  <1>4. ASSUME NEW j, Within(q, j), j # Head(q) PROVE Within(r, j)
    <2>1. PICK n \in DOMAIN q : q[n] = j
      BY <1>4 DEF Within
    <2>2. n - 1 \in DOMAIN r /\ (n - 1) + 1 = n
      BY <1>2, <1>4, <2>1
    <2>3. r[n - 1] = j
      BY <1>2, <2>1, <2>2
    <2> QED BY <2>2, <2>3 DEF Within
  <1>5. ASSUME NEW j, Within(q, j) PROVE ~Before(j, Head(q))
    <2>1. PICK n \in DOMAIN q : q[n] = j
      BY <1>5 DEF Within
    <2>2. ~(n < 1)
      BY <1>2
    <2> QED BY <1>2, <2>1, <2>2 DEF Line
  <1> QED BY <1>1, <1>2, <1>3, <1>4, <1>5

LEMMA AppendLine ==
    ASSUME NEW q \in Seq(Jobs), NEW j \in Jobs, Line(q), \A k \in Jobs : Within(q, k) => ~Before(j, k)
    PROVE  /\ Line(Append(q, j)) /\ Within(Append(q, j), j)
           /\ \A k : Within(q, k) => Within(Append(q, j), k)
  <1>1. PICK r : r = Append(q, j)
    OBVIOUS
  <1>2. /\ r \in Seq(Jobs) /\ r[Len(q) + 1] = j /\ Len(q) + 1 \in DOMAIN r /\ Len(q) \in Nat
        /\ \A n \in DOMAIN r : n = Len(q) + 1 \/ (n \in DOMAIN q /\ r[n] = q[n])
        /\ \A n \in DOMAIN q : n \in DOMAIN r /\ r[n] = q[n] /\ n < Len(q) + 1 /\ q[n] \in Jobs
    BY <1>1
  <1>3. ~Before(j, j)
    BY JobIs DEF Before, Rank
  <1>4. ASSUME NEW m \in DOMAIN r, NEW n \in DOMAIN r, Before(r[m], r[n]) PROVE m < n
    <2>1. CASE m \in DOMAIN q /\ n \in DOMAIN q
      BY <1>2, <1>4, <2>1 DEF Line
    <2>2. CASE m = Len(q) + 1 /\ n \in DOMAIN q
      <3>1. r[m] = j /\ r[n] = q[n] /\ q[n] \in Jobs /\ Within(q, q[n])
        BY <1>2, <2>2 DEF Within
      <3> QED BY <1>4, <3>1
    <2>3. CASE m = Len(q) + 1 /\ n = Len(q) + 1
      BY <1>2, <1>3, <1>4, <2>3
    <2>4. CASE m \in DOMAIN q /\ n = Len(q) + 1
      BY <1>2, <2>4
    <2> QED BY <1>2, <2>1, <2>2, <2>3, <2>4
  <1>5. Within(r, j) /\ \A k : Within(q, k) => Within(r, k)
    BY <1>2 DEF Within
  <1> QED BY <1>1, <1>4, <1>5 DEF Line

LEMMA RemoveLine ==
    ASSUME NEW q \in Seq(Jobs), NEW i \in DOMAIN q, Line(q)
    PROVE  /\ Line(RemoveAt(q, i)) /\ RemoveAt(q, i) \in Seq(Jobs)
           /\ \A j : Within(RemoveAt(q, i), j) => Within(q, j)
           /\ \A j : Within(q, j) /\ j # q[i] => Within(RemoveAt(q, i), j)
  <1>1. PICK r : r = RemoveAt(q, i)
    OBVIOUS
  <1>2. /\ r \in Seq(Jobs) /\ Len(r) = Len(q) - 1
        /\ \A j \in 1..(Len(q) - 1) : r[j] = IF j < i THEN q[j] ELSE q[j + 1]
    BY <1>1, RemovedFits
  <1>3. i \in 1..Len(q) /\ Len(q) \in Nat /\ DOMAIN q = 1..Len(q) /\ DOMAIN r = 1..(Len(q) - 1)
    BY <1>2
  <1> DEFINE from(n) == IF n < i THEN n ELSE n + 1
  <1>4. \A n \in DOMAIN r : from(n) \in DOMAIN q /\ r[n] = q[from(n)]
    BY <1>2, <1>3
  <1>5. \A m, n \in DOMAIN r : from(m) < from(n) => m < n
    BY <1>3
  <1>6. \A n \in DOMAIN q : n # i => \E m \in DOMAIN r : from(m) = n
    <2> SUFFICES ASSUME NEW n \in DOMAIN q, n # i PROVE \E m \in DOMAIN r : from(m) = n
      OBVIOUS
    <2>1. CASE n < i
      <3>1. n \in DOMAIN r /\ from(n) = n
        BY <1>3, <2>1
      <3> QED BY <3>1
    <2>2. CASE n > i
      <3>1. n - 1 \in DOMAIN r /\ from(n - 1) = n
        BY <1>3, <2>2
      <3> QED BY <3>1
    <2> QED BY <1>3, <2>1, <2>2
  <1> HIDE DEF from
  <1>7. Line(r)
    BY <1>4, <1>5 DEF Line
  <1>8. \A j : Within(r, j) => Within(q, j)
    BY <1>4 DEF Within
  <1>9. \A j : Within(q, j) /\ j # q[i] => Within(r, j)
    BY <1>4, <1>6 DEF Within
  <1> QED BY <1>1, <1>2, <1>7, <1>8, <1>9

LEMMA PrerequisitesAre ==
    ASSUME NEW j \in Jobs
    PROVE  /\ \A q \in Prerequisites(j) : q \in Jobs /\ q.issue = j.issue /\ Before(q, j)
           /\ j.kind = "handoff" => Prerequisites(j) = {}
           /\ j.kind = "sync" => Prerequisites(j) = {h \in Jobs : h.kind = "handoff" /\ h.issue = j.issue /\ Phase(h) # "none"}
           /\ j.kind = "apply" => Prerequisites(j) = {Job("sync", None, j.issue)}
  <1>1. j.kind \in {"handoff", "sync", "apply"} /\ j.issue \in Issues
    BY JobIs
  <1>2. Job("sync", None, j.issue) \in Jobs /\ Job("sync", None, j.issue).issue = j.issue
        /\ Job("sync", None, j.issue).kind = "sync"
    BY <1>1, IsJob DEF Job
  <1> QED BY <1>1, <1>2 DEF Prerequisites, Before, Rank

LEMMA DoneStays ==
    ASSUME NEW j \in Jobs, PrerequisitesDone(j),
           \A k \in Jobs : k.issue = j.issue => /\ Phase(k) = "done" => Phase(k)' = "done"
                                                /\ Phase(k) = "none" => Phase(k)' = "none"
    PROVE  PrerequisitesDone(j)'
  <1>1. ASSUME NEW q \in Prerequisites(j)' PROVE q \in Prerequisites(j) /\ q \in Jobs /\ q.issue = j.issue
    <2>1. CASE j.kind = "sync"
      <3>1. q \in Jobs /\ q.kind = "handoff" /\ q.issue = j.issue /\ Phase(q)' # "none"
        BY <1>1, <2>1 DEF Prerequisites
      <3> QED BY <2>1, <3>1, PrerequisitesAre
    <2>2. CASE j.kind # "sync"
      <3>1. Prerequisites(j)' = Prerequisites(j)
        BY <2>2, JobIs DEF Prerequisites, Job
      <3> QED BY <1>1, <3>1, PrerequisitesAre
    <2> QED BY <2>1, <2>2
  <1>2. ASSUME NEW q \in Prerequisites(j)' PROVE Phase(q)' = "done"
    <2>1. q \in Prerequisites(j) /\ q \in Jobs /\ q.issue = j.issue /\ Phase(q) = "done"
      BY <1>1, <1>2 DEF PrerequisitesDone
    <2> QED BY <2>1
  <1> QED BY <1>2 DEF PrerequisitesDone

\* What a step of one worker, or of one listener, leaves alone.
LEMMA LinesRest ==
    ASSUME ActionsInv, Ordered, UNCHANGED <<todo, ingress, queue>>, NEW j \in Jobs,
           \A k \in Jobs : k # j => job'[k] = job[k],
           Phase(j) \in {"waiting", "running", "ending", "settled"},
           Phase(j)' \in {"running", "ending", "settled", "done"},
           Phase(j)' = "running" \/ job'[j].ran => PrerequisitesDone(j)
    PROVE  Ordered'
  <1>1. \A k \in Jobs : /\ Phase(k) = "done" => Phase(k)' = "done"
                        /\ Phase(k) = "none" => Phase(k)' = "none"
                        /\ Phase(k)' \in {"made", "entering", "ingress", "queued", "waiting"} => Phase(k)' = Phase(k)
                        /\ Phase(k) \in {"made", "entering", "ingress", "queued"} => Phase(k)' = Phase(k)
                        /\ Phase(k) # "none" => Phase(k)' # "none"
    BY DEF Phase
  <1>2. todo \in [Issues -> Seq(Jobs)] /\ \A k \in Jobs : k.issue \in Issues
    BY JobIs DEF ActionsInv, Placed, ActionsType
  <1>3. ASSUME NEW i \in Issues PROVE Listed(i)'
    <2>1. Listed(i) /\ todo'[i] = todo[i] /\ \A n \in DOMAIN todo[i] : todo[i][n] \in Jobs
      BY <1>2 DEF Ordered
    <2> QED BY <1>1, <2>1 DEF Listed
  <1>4. ASSUME NEW k \in Jobs PROVE Found(k)' /\ Ready(k)'
    <2>1. Found(k) /\ Ready(k)
      BY DEF Ordered
    <2>2. Found(k)'
      BY <1>1, <2>1 DEF Found
    <2>3. Phase(k)' = "running" \/ job'[k].ran => PrerequisitesDone(k) /\ Phase(k)' # "none"
      BY <2>1 DEF Ready, Phase
    <2>4. Phase(k)' = "running" \/ job'[k].ran => PrerequisitesDone(k)' /\ Phase(k)' # "none"
      BY <1>1, <2>3, DoneStays
    <2>5. Job("sync", None, k.issue) \in Jobs
      BY <1>2, IsJob
    <2> QED BY <1>1, <2>1, <2>2, <2>4, <2>5 DEF Ready
  <1>5. ASSUME NEW k \in Jobs, NEW l \in Jobs, Before(k, l) PROVE Ahead(k, l)'
    <2>1. Ahead(k, l)
      BY <1>5 DEF Ordered
    <2> QED BY <1>1, <2>1 DEF Ahead
  <1>6. Line(ingress)' /\ Line(queue)'
    BY DEF Ordered, Line
  <1> QED BY <1>3, <1>4, <1>5, <1>6 DEF Ordered, Before, Rank

LEMMA ReadyRest ==
    ASSUME Ordered,
           \A k \in Jobs : /\ Phase(k) = "done" => Phase(k)' = "done"
                           /\ Phase(k) = "none" <=> Phase(k)' = "none"
                           /\ Phase(k)' = "running" => Phase(k) = "running"
                           /\ job'[k].ran => job[k].ran
    PROVE  \A k \in Jobs : Ready(k)'
  <1> SUFFICES ASSUME NEW k \in Jobs PROVE Ready(k)'
    OBVIOUS
  <1>1. Ready(k)
    BY DEF Ordered
  <1>2. Phase(k)' = "running" \/ job'[k].ran => PrerequisitesDone(k)' /\ Phase(k)' # "none"
    BY <1>1, DoneStays DEF Ready
  <1>3. Job("sync", None, k.issue) \in Jobs
    BY JobIs, IsJob
  <1> QED BY <1>1, <1>2, <1>3 DEF Ready

LEMMA DispatchOrder == ASSUME ActionsInv, Ordered, Dispatch PROVE Ordered'
  <1>0. PICK j : j = Head(ingress)
    OBVIOUS
  <1>1. /\ ingress # <<>> /\ ingress' = Tail(ingress) /\ todo' = todo
        /\ \/ job' = [job EXCEPT ![j].phase = "ending"] /\ queue' = queue
           \/ job' = [job EXCEPT ![j].phase = "queued"] /\ queue' = Append(queue, j)
    BY <1>0 DEF Dispatch, CanDispatch
  <1>2. /\ ActionsType /\ ingress \in Seq(Jobs) /\ queue \in Seq(Jobs) /\ todo \in [Issues -> Seq(Jobs)]
        /\ Holds(ingress, job, "ingress") /\ Holds(queue, job, "queued") /\ Line(ingress) /\ Line(queue)
    BY DEF ActionsInv, Placed, ActionsType, Ordered
  <1>3. j \in Jobs /\ Phase(j) = "ingress"
    BY <1>0, <1>1, <1>2, HeadHolds DEF Phase
  <1>4. PICK phase \in {"ending", "queued"} :
          /\ Moved1(j, phase)
          /\ queue' = IF phase = "queued" THEN Append(queue, j) ELSE queue
    BY <1>1, <1>2, <1>3, PhaseSet DEF Moved1
  <1>5. Phase(j)' = phase /\ job'[j].ran = job[j].ran /\ \A k \in Jobs : k # j => job'[k] = job[k]
    <2>1. job[j] \in JobState
      BY <1>2, <1>3 DEF ActionsType
    <2> QED BY <1>2, <1>3, <1>4, <2>1 DEF Moved1, Turns, Phase, JobState
  <1>6. \A k \in Jobs : k # j => Phase(k)' = Phase(k)
    BY <1>5 DEF Phase
  <1>7. /\ Line(ingress') /\ \A k : Within(ingress, k) /\ k # j => Within(ingress', k)
        /\ \A k : Within(ingress, k) => ~Before(k, j)
    BY <1>0, <1>1, <1>2, TailLine
  <1>8. /\ Line(queue') /\ (phase = "queued" => Within(queue', j))
        /\ \A k : Within(queue, k) => Within(queue', k)
    <2>1. CASE phase = "queued"
      <3>1. ASSUME NEW k \in Jobs, Within(queue, k) PROVE ~Before(j, k)
        <4>1. Phase(k) = "queued"
          BY <1>2, <3>1 DEF Within, Holds, Phase
        <4> QED BY <1>3, <4>1 DEF Ordered, Ahead
      <3> QED BY <1>2, <1>3, <1>4, <2>1, <3>1, AppendLine
    <2>2. CASE phase # "queued"
      BY <1>2, <1>4, <2>2
    <2> QED BY <2>1, <2>2
  <1>9. ASSUME NEW i \in Issues PROVE Listed(i)'
    <2>1. Listed(i) /\ todo'[i] = todo[i] /\ \A n \in DOMAIN todo[i] : todo[i][n] \in Jobs
      BY <1>1, <1>2 DEF Ordered
    <2>2. \A n \in DOMAIN todo[i] : todo[i][n] # j
      BY <1>3, <2>1 DEF Listed
    <2> QED BY <1>6, <2>1, <2>2 DEF Listed
  <1>10. ASSUME NEW k \in Jobs PROVE Found(k)'
    <2>1. Found(k)
      BY DEF Ordered
    <2>2. CASE k = j
      BY <1>4, <1>5, <1>8, <2>2 DEF Found
    <2>3. CASE k # j
      BY <1>1, <1>6, <1>7, <1>8, <2>1, <2>3 DEF Found
    <2> QED BY <2>2, <2>3
  <1>11. \A k \in Jobs : Ready(k)'
    BY <1>3, <1>4, <1>5, <1>6, ReadyRest
  <1>12. ASSUME NEW k \in Jobs, NEW l \in Jobs, Before(k, l) PROVE Ahead(k, l)'
    <2>1. Ahead(k, l) /\ Found(k)
      BY <1>12 DEF Ordered
    <2>2. CASE k # j /\ l # j
      BY <1>6, <2>1, <2>2 DEF Ahead
    <2>3. CASE k = j /\ l # j
      BY <1>3, <1>4, <1>5, <1>6, <2>1, <2>3 DEF Ahead
    <2>4. CASE l = j
      <3>1. k # j /\ Phase(k) \notin {"made", "entering", "ingress"}
        BY <1>3, <1>7, <1>12, <2>1, <2>4, JobIs DEF Found, Ahead
      <3> QED BY <1>4, <1>5, <1>6, <2>4, <3>1 DEF Ahead
    <2> QED BY <2>2, <2>3, <2>4
  <1> QED BY <1>7, <1>8, <1>9, <1>10, <1>11, <1>12 DEF Ordered, Line, Before, Rank

LEMMA TakeOrder == ASSUME ActionsInv, Ordered, Take PROVE Ordered'
  <1>0. PICK j : j = Head(queue)
    OBVIOUS
  <1>1. /\ queue # <<>> /\ queue' = Tail(queue) /\ todo' = todo /\ ingress' = ingress
        /\ \E phase \in {"ending", "waiting"} : job' = [job EXCEPT ![j].phase = phase]
    <2>1. (IF Older(j) THEN "ending" ELSE "waiting") \in {"ending", "waiting"}
      OBVIOUS
    <2> QED BY <1>0, <2>1 DEF Take, CanTake
  <1>2. /\ ActionsType /\ ingress \in Seq(Jobs) /\ queue \in Seq(Jobs) /\ todo \in [Issues -> Seq(Jobs)]
        /\ Holds(queue, job, "queued") /\ Line(ingress) /\ Line(queue)
    BY DEF ActionsInv, Placed, ActionsType, Ordered
  <1>3. j \in Jobs /\ Phase(j) = "queued"
    BY <1>0, <1>1, <1>2, HeadHolds DEF Phase
  <1>4. PICK phase \in {"ending", "waiting"} : Moved1(j, phase)
    BY <1>1, <1>2, <1>3, PhaseSet DEF Moved1
  <1>5. Phase(j)' = phase /\ job'[j].ran = job[j].ran /\ \A k \in Jobs : k # j => job'[k] = job[k]
    <2>1. job[j] \in JobState
      BY <1>2, <1>3 DEF ActionsType
    <2> QED BY <1>2, <1>3, <1>4, <2>1 DEF Moved1, Turns, Phase, JobState
  <1>6. \A k \in Jobs : k # j => Phase(k)' = Phase(k)
    BY <1>5 DEF Phase
  <1>7. /\ Line(queue') /\ \A k : Within(queue, k) /\ k # j => Within(queue', k)
        /\ \A k : Within(queue, k) => ~Before(k, j)
    BY <1>0, <1>1, <1>2, TailLine
  <1>8. ASSUME NEW i \in Issues PROVE Listed(i)'
    <2>1. Listed(i) /\ todo'[i] = todo[i] /\ \A n \in DOMAIN todo[i] : todo[i][n] \in Jobs
      BY <1>1, <1>2 DEF Ordered
    <2>2. \A n \in DOMAIN todo[i] : todo[i][n] # j
      BY <1>3, <2>1 DEF Listed
    <2> QED BY <1>6, <2>1, <2>2 DEF Listed
  <1>9. ASSUME NEW k \in Jobs PROVE Found(k)'
    <2>1. Found(k)
      BY DEF Ordered
    <2>2. CASE k = j
      BY <1>4, <1>5, <2>2 DEF Found
    <2>3. CASE k # j
      BY <1>1, <1>6, <1>7, <2>1, <2>3 DEF Found
    <2> QED BY <2>2, <2>3
  <1>10. \A k \in Jobs : Ready(k)'
    BY <1>3, <1>4, <1>5, <1>6, ReadyRest
  <1>11. ASSUME NEW k \in Jobs, NEW l \in Jobs, Before(k, l) PROVE Ahead(k, l)'
    <2>1. Ahead(k, l) /\ Found(k)
      BY <1>11 DEF Ordered
    <2>2. CASE k # j /\ l # j
      BY <1>6, <2>1, <2>2 DEF Ahead
    <2>3. CASE k = j
      BY <1>4, <1>5, <2>3 DEF Ahead
    <2>4. CASE l = j
      <3>1. Phase(k) \notin {"made", "entering", "ingress", "queued"}
        BY <1>3, <1>7, <1>11, <2>1, <2>4 DEF Found, Ahead
      <3>2. CASE k = j
        BY <2>3, <3>2
      <3>3. CASE k # j
        BY <1>6, <3>1, <3>3 DEF Ahead
      <3> QED BY <3>2, <3>3
    <2> QED BY <2>2, <2>3, <2>4
  <1> QED BY <1>1, <1>2, <1>7, <1>8, <1>9, <1>10, <1>11 DEF Ordered, Line, Before, Rank

\* The first of the jobs of a state leaves the list.
LEMMA ListedTail ==
    ASSUME ActionsInv, Ordered, NEW i \in Issues, todo[i] # <<>>, NEW j \in Jobs, j = Head(todo[i]),
           todo' = [todo EXCEPT ![i] = Tail(@)],
           \A k \in Jobs : k # j /\ Phase(k) = "made" => Phase(k)' = "made",
           \A k \in Jobs : k.issue # i /\ Phase(k) = "entering" => Phase(k)' = "entering"
    PROVE  /\ \A n \in Issues : Listed(n)'
           /\ \A k \in Jobs : k # j /\ Within(todo[k.issue], k) => Within(todo'[k.issue], k)
  <1>1. todo \in [Issues -> Seq(Jobs)] /\ todo[i] \in Seq(Jobs) /\ Line(todo[i]) /\ Listed(i)
    BY DEF ActionsInv, Placed, ActionsType, Ordered, Listed
  <1>2. /\ Line(Tail(todo[i])) /\ Tail(todo[i]) \in Seq(Jobs)
        /\ \A n \in DOMAIN Tail(todo[i]) :
              n + 1 \in DOMAIN todo[i] /\ n + 1 # 1 /\ n \in Int /\ Tail(todo[i])[n] = todo[i][n + 1]
        /\ \A k : Within(todo[i], k) /\ k # Head(todo[i]) => Within(Tail(todo[i]), k)
        /\ j = todo[i][1] /\ 1 \in DOMAIN todo[i]
    BY <1>1, TailLine
  <1>3. PICK r \in Seq(Jobs) : r = Tail(todo[i])
    BY <1>2
  <1>4. todo'[i] = r /\ \A n \in Issues : n # i => todo'[n] = todo[n]
    BY <1>1, <1>3
  <1>5. Listed(i)'
    <2>1. \A m, n \in DOMAIN r : r[m] = r[n] => m = n
      <3> SUFFICES ASSUME NEW m \in DOMAIN r, NEW n \in DOMAIN r, r[m] = r[n] PROVE m = n
        OBVIOUS
      <3>1. m + 1 = n + 1 /\ m \in Int /\ n \in Int
        BY <1>1, <1>2, <1>3 DEF Listed
      <3> QED BY <3>1
    <2>2. \A n \in DOMAIN r : r[n] \in Jobs /\ r[n] # j /\ r[n].issue = i /\ Phase(r[n]) = "made"
      <3> SUFFICES ASSUME NEW n \in DOMAIN r PROVE r[n] \in Jobs /\ r[n] # j /\ r[n].issue = i /\ Phase(r[n]) = "made"
        OBVIOUS
      <3>1. n + 1 \in DOMAIN todo[i] /\ n + 1 # 1 /\ r[n] = todo[i][n + 1]
        BY <1>2, <1>3
      <3> QED BY <1>1, <1>2, <3>1 DEF Listed
    <2>3. \A n \in DOMAIN r : Phase(r[n])' = "made"
      BY <2>2
    <2>4. Line(r)
      BY <1>2, <1>3
    <2>5. Line(todo[i])'
      BY <1>4, <2>4 DEF Line
    <2>6. \A n \in DOMAIN todo'[i] : todo'[i][n].issue = i /\ job'[todo'[i][n]].phase = "made"
      BY <1>4, <2>2, <2>3 DEF Phase
    <2>7. \A m, n \in DOMAIN todo'[i] : todo'[i][m] = todo'[i][n] => m = n
      BY <1>4, <2>1
    <2> QED BY <2>5, <2>6, <2>7 DEF Listed, Phase
  <1>6. ASSUME NEW n \in Issues, n # i PROVE Listed(n)'
    <2>1. Listed(n) /\ todo'[n] = todo[n] /\ \A m \in DOMAIN todo[n] : todo[n][m] \in Jobs
      BY <1>1, <1>4, <1>6 DEF Ordered
    <2>2. \A m \in DOMAIN todo[n] : Phase(todo[n][m])' = Phase(todo[n][m])
      <3> SUFFICES ASSUME NEW m \in DOMAIN todo[n] PROVE Phase(todo[n][m])' = Phase(todo[n][m])
        OBVIOUS
      <3>1. todo[n][m] \in Jobs /\ todo[n][m].issue = n /\ Phase(todo[n][m]) \in {"made", "entering"}
        BY <2>1 DEF Listed
      <3>2. todo[n][m] # j
        <4>1. j.issue = i
          BY <1>1, <1>2 DEF Listed
        <4> QED BY <1>6, <3>1, <4>1
      <3> QED BY <1>6, <3>1, <3>2
    <2> QED BY <2>1, <2>2 DEF Listed
  <1>7. ASSUME NEW k \in Jobs, k # j, Within(todo[k.issue], k) PROVE Within(todo'[k.issue], k)
    BY <1>2, <1>3, <1>4, <1>7, JobIs
  <1> QED BY <1>5, <1>6, <1>7

LEMMA EnqueueOrder == ASSUME ActionsInv, Ordered, NEW i \in Issues, Enqueue(i) PROVE Ordered'
  <1>0. PICK j : j = Head(todo[i])
    OBVIOUS
  <1>1. /\ todo[i] # <<>> /\ Phase(j) = "made" /\ ingress' = ingress /\ queue' = queue
        /\ \/ job' = [job EXCEPT ![j].phase = "ending"] /\ todo' = [todo EXCEPT ![i] = Tail(@)]
           \/ job' = [job EXCEPT ![j].phase = "entering", ![j].counted = TRUE] /\ todo' = todo
    BY <1>0 DEF Enqueue, CanEnqueue
  <1>2. /\ ActionsType /\ todo \in [Issues -> Seq(Jobs)] /\ todo[i] \in Seq(Jobs)
        /\ Listed(i) /\ Line(todo[i]) /\ Line(ingress) /\ Line(queue) /\ job \in [Jobs -> JobState]
    BY DEF ActionsInv, Placed, ActionsType, Ordered, Listed
  <1>3. /\ j \in Jobs /\ j = todo[i][1] /\ 1 \in DOMAIN todo[i] /\ j.issue = i
        /\ \A k : Within(todo[i], k) => ~Before(k, j)
    <2>1. j \in Jobs /\ j = todo[i][1] /\ 1 \in DOMAIN todo[i] /\ \A k : Within(todo[i], k) => ~Before(k, j)
      BY <1>0, <1>1, <1>2, TailLine
    <2> QED BY <1>2, <2>1 DEF Listed
  <1>4. /\ Phase(j)' \in {"ending", "entering"} /\ job'[j].ran = job[j].ran
        /\ \A k \in Jobs : k # j => job'[k] = job[k]
        /\ Phase(j)' = "entering" => todo' = todo
        /\ Phase(j)' = "ending" => todo' = [todo EXCEPT ![i] = Tail(@)]
    <2>1. job[j] \in JobState
      BY <1>2, <1>3
    <2>2. PICK r : r \in {[job[j] EXCEPT !.phase = "ending"], [job[j] EXCEPT !.phase = "entering", !.counted = TRUE]}
                   /\ job' = [job EXCEPT ![j] = r]
                   /\ todo' = IF r.phase = "ending" THEN [todo EXCEPT ![i] = Tail(@)] ELSE todo
      <3>1. CASE job' = [job EXCEPT ![j].phase = "ending"] /\ todo' = [todo EXCEPT ![i] = Tail(@)]
        <4>1. PICK r : r = [job[j] EXCEPT !.phase = "ending"]
          OBVIOUS
        <4>2. job' = [job EXCEPT ![j] = r] /\ r.phase = "ending"
          BY <2>1, <3>1, <4>1 DEF JobState
        <4> QED BY <3>1, <4>1, <4>2
      <3>2. CASE job' = [job EXCEPT ![j].phase = "entering", ![j].counted = TRUE] /\ todo' = todo
        <4>1. PICK r : r = [job[j] EXCEPT !.phase = "entering", !.counted = TRUE]
          OBVIOUS
        <4>2. job' = [job EXCEPT ![j] = r] /\ r.phase = "entering"
          BY <2>1, <3>2, <4>1 DEF JobState
        <4> QED BY <3>2, <4>1, <4>2
      <3> QED BY <1>1, <3>1, <3>2
    <2>3. r.phase \in {"ending", "entering"} /\ r.ran = job[j].ran
      BY <2>1, <2>2 DEF JobState
    <2> QED BY <1>2, <1>3, <2>2, <2>3 DEF Phase
  <1>5. \A k \in Jobs : k # j => Phase(k)' = Phase(k)
    BY <1>4 DEF Phase
  <1>6. /\ \A n \in Issues : Listed(n)'
        /\ \A k \in Jobs : k # j /\ Within(todo[k.issue], k) => Within(todo'[k.issue], k)
    <2>1. CASE Phase(j)' = "ending"
      BY <1>0, <1>1, <1>3, <1>4, <1>5, <2>1, ListedTail
    <2>2. CASE Phase(j)' = "entering"
      <3>1. ASSUME NEW n \in Issues PROVE Listed(n)'
        <4>1. Listed(n) /\ todo'[n] = todo[n] /\ \A m \in DOMAIN todo[n] : todo[n][m] \in Jobs
          BY <1>2, <1>4, <2>2 DEF Ordered
        <4>2. ASSUME NEW m \in DOMAIN todo[n], todo[n][m] = j PROVE m = 1
          <5>1. n = i
            BY <1>3, <4>1, <4>2 DEF Listed
          <5> QED BY <1>3, <4>1, <4>2, <5>1 DEF Listed
        <4> QED BY <1>5, <2>2, <4>1, <4>2 DEF Listed
      <3> QED BY <1>4, <2>2, <3>1
    <2> QED BY <1>4, <2>1, <2>2
  <1>7. ASSUME NEW k \in Jobs PROVE Found(k)'
    <2>1. Found(k)
      BY DEF Ordered
    <2>2. CASE k = j
      <3>1. Within(todo[j.issue], j)
        BY <1>1, <2>1, <2>2 DEF Found
      <3> QED BY <1>4, <2>2, <3>1 DEF Found
    <2>3. CASE k # j
      BY <1>1, <1>5, <1>6, <2>1, <2>3 DEF Found
    <2> QED BY <2>2, <2>3
  <1>8. \A k \in Jobs : Ready(k)'
    BY <1>1, <1>3, <1>4, <1>5, ReadyRest
  <1>9. ASSUME NEW k \in Jobs, NEW l \in Jobs, Before(k, l) PROVE Ahead(k, l)'
    <2>1. Ahead(k, l) /\ Found(k)
      BY <1>9 DEF Ordered
    <2>2. CASE k # j /\ l # j
      BY <1>5, <2>1, <2>2 DEF Ahead
    <2>3. CASE l = j
      <3>1. k.issue = i
        BY <1>3, <1>9, <2>3 DEF Before
      <3>2. ~Within(todo[i], k)
        BY <1>3, <1>9, <2>3
      <3>3. k # j /\ Phase(k) \notin {"made", "entering"}
        BY <1>1, <2>1, <3>1, <3>2 DEF Found
      <3> QED BY <1>4, <1>5, <2>3, <3>3 DEF Ahead
    <2>4. CASE k = j /\ l # j
      BY <1>1, <1>4, <1>5, <2>1, <2>4 DEF Ahead
    <2> QED BY <2>2, <2>3, <2>4
  <1> QED BY <1>1, <1>2, <1>6, <1>7, <1>8, <1>9 DEF Ordered, Line, Before, Rank

LEMMA PushOrder == ASSUME ActionsInv, Ordered, NEW i \in Issues, Push(i) PROVE Ordered'
  <1>0. PICK j : j = Head(todo[i])
    OBVIOUS
  <1>1. /\ todo[i] # <<>> /\ todo' = [todo EXCEPT ![i] = Tail(@)] /\ Phase(j) = "entering" /\ queue' = queue
        /\ \/ ingress' = Append(ingress, j) /\ job' = [job EXCEPT ![j].phase = "ingress"]
           \/ ingress' = ingress /\ job' = [job EXCEPT ![j].phase = "ending"]
           \/ \E n \in SameKey(j) :
                /\ ingress' = Append(RemoveAt(ingress, n), j)
                /\ job' = [job EXCEPT ![ingress[n]].phase = "ending", ![j].phase = "ingress"]
    BY <1>0 DEF Push, CanPush
  <1>2. /\ ActionsType /\ ingress \in Seq(Jobs) /\ queue \in Seq(Jobs) /\ todo \in [Issues -> Seq(Jobs)]
        /\ todo[i] \in Seq(Jobs) /\ Listed(i) /\ Line(todo[i]) /\ job \in [Jobs -> JobState]
        /\ Holds(ingress, job, "ingress") /\ Line(ingress) /\ Line(queue)
    BY DEF ActionsInv, Placed, ActionsType, Ordered, Listed
  <1>3. j \in Jobs /\ j.issue = i
    <2>1. j \in Jobs /\ j = todo[i][1] /\ 1 \in DOMAIN todo[i]
      BY <1>0, <1>1, <1>2, TailLine
    <2> QED BY <1>2, <2>1 DEF Listed
  <1>4. ASSUME NEW k \in Jobs, Within(ingress, k) PROVE Phase(k) = "ingress" /\ ~Before(j, k)
    <2>1. Phase(k) = "ingress"
      BY <1>2, <1>4 DEF Within, Holds, Phase
    <2> QED BY <1>1, <1>3, <2>1 DEF Ordered, Ahead
  \* What becomes of j, and of the job o that it may replace.
  <1>5. \E o \in Jobs :
          /\ Phase(o) \in {"entering", "ingress"} /\ (Phase(o) = "entering" => o = j)
          /\ Phase(o)' \in {"ending", "ingress"} /\ Phase(j)' \in {"ending", "ingress"}
          /\ o # j => Phase(o)' = "ending"
          /\ job'[o].ran = job[o].ran /\ job'[j].ran = job[j].ran
          /\ \A k \in Jobs : k # j /\ k # o => job'[k] = job[k]
          /\ Line(ingress') /\ (Phase(j)' = "ingress" => Within(ingress', j))
          /\ \A k \in Jobs : k # o /\ Within(ingress, k) => Within(ingress', k)
    <2>0. job[j] \in JobState /\ job[j].phase = "entering"
      BY <1>1, <1>2, <1>3 DEF Phase
    <2>1. CASE ingress' = Append(ingress, j) /\ job' = [job EXCEPT ![j].phase = "ingress"]
      <3>1. Phase(j)' = "ingress" /\ job'[j].ran = job[j].ran /\ \A k \in Jobs : k # j => job'[k] = job[k]
        BY <1>2, <1>3, <2>0, <2>1 DEF Phase, JobState
      <3>2. Line(ingress') /\ Within(ingress', j) /\ \A k \in Jobs : Within(ingress, k) => Within(ingress', k)
        BY <1>2, <1>3, <1>4, <2>1, AppendLine
      <3> QED BY <1>1, <1>3, <3>1, <3>2
    <2>2. CASE ingress' = ingress /\ job' = [job EXCEPT ![j].phase = "ending"]
      <3>1. Phase(j)' = "ending" /\ job'[j].ran = job[j].ran /\ \A k \in Jobs : k # j => job'[k] = job[k]
        BY <1>2, <1>3, <2>0, <2>2 DEF Phase, JobState
      <3> QED BY <1>1, <1>2, <1>3, <2>2, <3>1
    <2>3. ASSUME NEW n \in SameKey(j), ingress' = Append(RemoveAt(ingress, n), j),
                 job' = [job EXCEPT ![ingress[n]].phase = "ending", ![j].phase = "ingress"]
          PROVE  \E o \in Jobs :
                   /\ Phase(o) \in {"entering", "ingress"} /\ (Phase(o) = "entering" => o = j)
                   /\ Phase(o)' \in {"ending", "ingress"} /\ Phase(j)' \in {"ending", "ingress"}
                   /\ o # j => Phase(o)' = "ending"
                   /\ job'[o].ran = job[o].ran /\ job'[j].ran = job[j].ran
                   /\ \A k \in Jobs : k # j /\ k # o => job'[k] = job[k]
                   /\ Line(ingress') /\ (Phase(j)' = "ingress" => Within(ingress', j))
                   /\ \A k \in Jobs : k # o /\ Within(ingress, k) => Within(ingress', k)
      <3>1. n \in DOMAIN ingress /\ ingress[n] \in Jobs
        BY <1>2, <2>3 DEF SameKey
      <3>2. PICK o \in Jobs : o = ingress[n]
        BY <3>1
      <3>3. Phase(o) = "ingress" /\ o # j /\ job[o] \in JobState
        BY <1>1, <1>2, <1>4, <3>1, <3>2 DEF Within
      <3>4. PICK a : a = [job[o] EXCEPT !.phase = "ending"]
        OBVIOUS
      <3>5. PICK b : b = [job[j] EXCEPT !.phase = "ingress"]
        OBVIOUS
      <3>6. a.phase = "ending" /\ a.ran = job[o].ran /\ b.phase = "ingress" /\ b.ran = job[j].ran
        BY <2>0, <3>3, <3>4, <3>5 DEF JobState
      <3>7. job' = [[job EXCEPT ![o] = a] EXCEPT ![j] = b]
        BY <1>2, <1>3, <2>3, <3>2, <3>3, <3>4, <3>5
      <3>8. job'[o] = a /\ job'[j] = b /\ \A k \in Jobs : k # o /\ k # j => job'[k] = job[k]
        BY <1>2, <1>3, <3>3, <3>7
      <3>9. PICK q \in Seq(Jobs) :
              /\ q = RemoveAt(ingress, n) /\ Line(q) /\ (\A k : Within(q, k) => Within(ingress, k))
              /\ \A k : Within(ingress, k) /\ k # o => Within(q, k)
        BY <1>2, <3>1, <3>2, RemoveLine
      <3>10. Line(ingress') /\ Within(ingress', j) /\ \A k : Within(q, k) => Within(ingress', k)
        BY <1>3, <1>4, <2>3, <3>9, AppendLine
      <3> QED BY <3>2, <3>3, <3>6, <3>8, <3>9, <3>10 DEF Phase
    <2> QED BY <1>1, <2>1, <2>2, <2>3
  <1>6. PICK o \in Jobs :
          /\ Phase(o) \in {"entering", "ingress"} /\ (Phase(o) = "entering" => o = j)
          /\ Phase(o)' \in {"ending", "ingress"} /\ Phase(j)' \in {"ending", "ingress"}
          /\ o # j => Phase(o)' = "ending"
          /\ job'[o].ran = job[o].ran /\ job'[j].ran = job[j].ran
          /\ \A k \in Jobs : k # j /\ k # o => job'[k] = job[k]
          /\ Line(ingress') /\ (Phase(j)' = "ingress" => Within(ingress', j))
          /\ \A k \in Jobs : k # o /\ Within(ingress, k) => Within(ingress', k)
    BY <1>5
  <1>7. \A k \in Jobs : k # j /\ k # o => Phase(k)' = Phase(k)
    BY <1>6 DEF Phase
  <1>8. /\ \A n \in Issues : Listed(n)'
        /\ \A k \in Jobs : k # j /\ Within(todo[k.issue], k) => Within(todo'[k.issue], k)
    <2>1. \A k \in Jobs : k # j /\ Phase(k) = "made" => Phase(k)' = "made"
      BY <1>6, <1>7
    <2>2. \A k \in Jobs : k.issue # i /\ Phase(k) = "entering" => Phase(k)' = "entering"
      BY <1>3, <1>6, <1>7
    <2> QED BY <1>0, <1>1, <1>3, <2>1, <2>2, ListedTail
  <1>9. ASSUME NEW k \in Jobs PROVE Found(k)'
    <2>1. Found(k)
      BY DEF Ordered
    <2>2. CASE k = j
      BY <1>6, <2>2 DEF Found
    <2>3. CASE k = o /\ k # j
      BY <1>6, <2>3 DEF Found
    <2>4. CASE k # j /\ k # o
      BY <1>1, <1>6, <1>7, <1>8, <2>1, <2>4 DEF Found
    <2> QED BY <2>2, <2>3, <2>4
  <1>10. \A k \in Jobs : Ready(k)'
    <2>1. ASSUME NEW k \in Jobs
          PROVE  /\ Phase(k) = "done" => Phase(k)' = "done"
                 /\ Phase(k) = "none" <=> Phase(k)' = "none"
                 /\ Phase(k)' = "running" => Phase(k) = "running"
                 /\ job'[k].ran => job[k].ran
      BY <1>1, <1>6, <1>7
    <2> QED BY <2>1, ReadyRest
  <1>11. ASSUME NEW k \in Jobs, NEW l \in Jobs, Before(k, l) PROVE Ahead(k, l)'
    <2>1. Ahead(k, l)
      BY <1>11 DEF Ordered
    <2>2. CASE l = j \/ l = o
      <3>1. Phase(k) \notin {"made", "entering"}
        BY <1>1, <1>6, <2>1, <2>2 DEF Ahead
      <3>2. Phase(k)' \notin {"made", "entering"}
        BY <1>6, <1>7, <3>1
      <3> QED BY <1>6, <2>2, <3>2 DEF Ahead
    <2>3. CASE l # j /\ l # o /\ (k = j \/ k = o)
      <3>1. Phase(k) \in {"entering", "ingress"} /\ Phase(k)' \in {"ending", "ingress"} /\ Phase(l)' = Phase(l)
        BY <1>1, <1>6, <1>7, <2>3
      <3> QED BY <2>1, <3>1 DEF Ahead
    <2>4. CASE l # j /\ l # o /\ k # j /\ k # o
      BY <1>7, <2>1, <2>4 DEF Ahead
    <2> QED BY <2>2, <2>3, <2>4
  <1> QED BY <1>1, <1>2, <1>6, <1>8, <1>9, <1>10, <1>11 DEF Ordered, Line, Before, Rank

\* The ports that a state moves are different.
Distinct(q) == \A m, n \in DOMAIN q : q[m] = q[n] => m = n

LEMMA ChosenDiffer ==
    ASSUME NEW f, Chooses(f, Len(PortList)), NEW n \in 0..Len(PortList)
    PROVE  Distinct(f[n]) /\ \A k \in DOMAIN f[n] : \E m \in 1..n : f[n][k] = PortList[m]
  <1> DEFINE Fine(k) == Distinct(f[k]) /\ \A l \in DOMAIN f[k] : \E m \in 1..k : f[k][l] = PortList[m]
             S == {k \in 0..Len(PortList) : ~Fine(k)}
  <1> SUFFICES ASSUME n \in S PROVE FALSE
    OBVIOUS
  <1>1. PortList \in Seq(Ports) /\ Len(PortList) \in Nat
    BY PortsFit
  <1>2. S \in SUBSET Nat /\ S # {}
    BY <1>1
  <1>3. PICK m \in S : \A k \in S : m <= k
    <2> HIDE DEF S
    <2> QED BY <1>2, LeastNumber
  <1>4. m \in 0..Len(PortList) /\ ~Fine(m)
    BY <1>3
  <1>5. f[m] = IF m = 0 THEN <<>>
               ELSE IF PortList[m] \in fxp THEN Append(f[m - 1], PortList[m]) ELSE f[m - 1]
    BY <1>4, Zenon DEF Chooses
  <1>6. m # 0
    BY <1>4, <1>5 DEF Distinct
  <1>7. m - 1 \in 0..Len(PortList) /\ ~ (m <= m - 1) /\ m \in 1..Len(PortList)
        /\ (\A l \in 1..(m - 1) : l \in 1..m /\ l # m /\ l \in DOMAIN PortList) /\ m \in DOMAIN PortList
    BY <1>1, <1>4, <1>6
  <1>8. Fine(m - 1)
    BY <1>3, <1>7
  <1>9. PICK q \in Seq(Ports) : q = f[m - 1]
    BY <1>7, ChosenFits
  <1>10. PICK p \in Ports : p = PortList[m]
    BY <1>1, <1>7
  <1>11. Distinct(q) /\ \A l \in DOMAIN q : (\E k \in 1..m : q[l] = PortList[k]) /\ q[l] # p
    <2>1. Distinct(q) /\ \A l \in DOMAIN q : \E k \in 1..(m - 1) : q[l] = PortList[k]
      BY <1>8, <1>9
    <2> QED BY <1>7, <1>10, <2>1, PortsDiffer
  <1>12. CASE p \in fxp
    <2>1. PICK r : r = Append(q, p)
      OBVIOUS
    <2>2. /\ r = f[m]
          /\ \A k \in DOMAIN r : (k = Len(q) + 1 /\ r[k] = p) \/ (k \in DOMAIN q /\ r[k] = q[k])
      BY <1>5, <1>6, <1>9, <1>10, <1>12, <2>1
    <2>3. Distinct(r) /\ \A l \in DOMAIN r : \E k \in 1..m : r[l] = PortList[k]
      BY <1>7, <1>10, <1>11, <2>2 DEF Distinct
    <2> QED BY <1>4, <2>2, <2>3
  <1>13. CASE p \notin fxp
    BY <1>4, <1>5, <1>6, <1>9, <1>10, <1>11, <1>13
  <1> QED BY <1>12, <1>13

LEMMA MovedDiffer == Distinct(Moved)
  <1>1. Len(PortList) \in Nat /\ Len(PortList) \in 0..Len(PortList)
    BY PortsFit
  <1> DEFINE f == CHOOSE g : Chooses(g, Len(PortList))
  <1>2. Chooses(f, Len(PortList))
    BY <1>1, ChoosesExists, Zenon
  <1>3. Moved = f[Len(PortList)]
    BY DEF Moved, Chooses
  <1> HIDE DEF f
  <1> QED BY <1>1, <1>2, <1>3, ChosenDiffer

LEMMA BatchIs ==
    ASSUME NEW i \in Issues, NEW moved \in Seq(Ports)
    PROVE  /\ DOMAIN Batch(i, moved) = 1..(Len(moved) + 1 + Len(PortList))
           /\ \A n \in 1..Len(moved) : Batch(i, moved)[n] = Job("handoff", moved[n], i)
           /\ Batch(i, moved)[Len(moved) + 1] = Job("sync", None, i)
           /\ \A n \in 1..Len(PortList) :
                Batch(i, moved)[Len(moved) + 1 + n] = Job("apply", PortList[n], i)
  <1>1. Len(moved) \in Nat /\ Len(PortList) \in Nat /\ PortList \in Seq(Ports)
    BY PortsFit
  <1>2. PICK a : a = [n \in 1..Len(moved) |-> Job("handoff", moved[n], i)]
    OBVIOUS
  <1>3. PICK b : b = <<Job("sync", None, i)>>
    OBVIOUS
  <1>4. PICK c : c = [n \in 1..Len(PortList) |-> Job("apply", PortList[n], i)]
    OBVIOUS
  <1>5. Batch(i, moved) = (a \o b) \o c
    BY <1>2, <1>3, <1>4 DEF Batch
  <1>6. a \in Seq(Jobs) /\ Len(a) = Len(moved) /\ \A n \in 1..Len(moved) : a[n] = Job("handoff", moved[n], i)
    BY <1>2, PhaseFits
  <1>7. b \in Seq(Jobs) /\ Len(b) = 1 /\ b[1] = Job("sync", None, i)
    BY <1>3, IsJob
  <1>8. c \in Seq(Jobs) /\ Len(c) = Len(PortList) /\ \A n \in 1..Len(PortList) : c[n] = Job("apply", PortList[n], i)
    BY <1>1, <1>4, PhaseFits
  <1>9. PICK ab : ab = a \o b
    OBVIOUS
  <1>10. /\ ab \in Seq(Jobs) /\ Len(ab) = Len(a) + Len(b)
         /\ \A n \in 1..(Len(a) + Len(b)) : ab[n] = IF n <= Len(a) THEN a[n] ELSE b[n - Len(a)]
    BY <1>6, <1>7, <1>9, ConcatProperties
  <1>11. PICK d : d = Batch(i, moved)
    OBVIOUS
  <1>12. /\ d \in Seq(Jobs) /\ Len(d) = Len(ab) + Len(c)
         /\ \A n \in 1..(Len(ab) + Len(c)) : d[n] = IF n <= Len(ab) THEN ab[n] ELSE c[n - Len(ab)]
    <2>1. d = ab \o c /\ ab \in Seq(Jobs) /\ c \in Seq(Jobs)
      BY <1>5, <1>8, <1>9, <1>10, <1>11
    <2> QED BY <2>1, ConcatProperties
  <1>13. Len(ab) = Len(moved) + 1 /\ DOMAIN d = 1..(Len(moved) + 1 + Len(PortList))
    BY <1>1, <1>6, <1>7, <1>8, <1>10, <1>12
  <1>14. ASSUME NEW n \in 1..Len(moved) PROVE d[n] = Job("handoff", moved[n], i)
    <2>1. n <= Len(ab) /\ n \in 1..(Len(ab) + Len(c)) /\ n <= Len(a) /\ n \in 1..(Len(a) + Len(b))
      BY <1>1, <1>6, <1>7, <1>8, <1>13
    <2> QED BY <1>6, <1>10, <1>12, <2>1
  <1>15. d[Len(moved) + 1] = Job("sync", None, i)
    <2>1. PICK n : n = Len(moved) + 1
      OBVIOUS
    <2>2. n <= Len(ab) /\ n \in 1..(Len(ab) + Len(c)) /\ ~(n <= Len(a)) /\ n \in 1..(Len(a) + Len(b)) /\ n - Len(a) = 1
      BY <1>1, <1>6, <1>7, <1>8, <1>13, <2>1
    <2> QED BY <1>7, <1>10, <1>12, <2>1, <2>2
  <1>16. ASSUME NEW n \in 1..Len(PortList) PROVE d[Len(moved) + 1 + n] = Job("apply", PortList[n], i)
    <2>1. PICK k : k = Len(moved) + 1 + n
      OBVIOUS
    <2>2. ~(k <= Len(ab)) /\ k \in 1..(Len(ab) + Len(c)) /\ k - Len(ab) = n
      BY <1>1, <1>6, <1>7, <1>8, <1>13, <2>1
    <2> QED BY <1>8, <1>12, <2>1, <2>2
  <1> QED BY <1>11, <1>13, <1>14, <1>15, <1>16

LEMMA BatchOrder ==
    ASSUME NEW i \in Issues, NEW moved \in Seq(Ports), Distinct(moved)
    PROVE  Distinct(Batch(i, moved)) /\ Line(Batch(i, moved))
  <1>1. /\ Len(moved) \in Nat /\ Len(PortList) \in Nat /\ DOMAIN PortList = 1..Len(PortList)
        /\ DOMAIN moved = 1..Len(moved)
    BY PortsFit
  <1>2. PICK l \in Nat : l = Len(moved) + 1
    BY <1>1
  <1>3. PICK d : d = Batch(i, moved)
    OBVIOUS
  <1>4. /\ DOMAIN d = 1..(l + Len(PortList))
        /\ \A n \in 1..Len(moved) : d[n] = Job("handoff", moved[n], i)
        /\ d[l] = Job("sync", None, i)
        /\ \A n \in 1..Len(PortList) : d[l + n] = Job("apply", PortList[n], i)
    BY <1>2, <1>3, BatchIs
  <1>5. ASSUME NEW n \in DOMAIN d
        PROVE  /\ n \in Int
               /\ \/ n < l /\ n \in DOMAIN moved /\ d[n].kind = "handoff" /\ d[n].port = moved[n] /\ Rank(d[n]) = 0
                  \/ n = l /\ d[n].kind = "sync" /\ Rank(d[n]) = 1
                  \/ n > l /\ n - l \in DOMAIN PortList /\ d[n].kind = "apply" /\ d[n].port = PortList[n - l] /\ Rank(d[n]) = 2
    <2>1. CASE n < l
      <3>1. n \in 1..Len(moved)
        BY <1>1, <1>2, <1>4, <2>1
      <3>2. d[n] = Job("handoff", moved[n], i) /\ n \in Int
        BY <1>1, <1>4, <3>1
      <3> QED BY <1>1, <2>1, <3>1, <3>2 DEF Job, Rank
    <2>2. CASE n = l
      BY <1>2, <1>4, <2>2 DEF Job, Rank
    <2>3. CASE n > l
      <3>1. n - l \in 1..Len(PortList) /\ l + (n - l) = n
        <4>1. n \in Int /\ l \in Int /\ Len(PortList) \in Int /\ n <= l + Len(PortList)
          BY <1>1, <1>2, <1>4
        <4> QED BY <2>3, <4>1
      <3>2. d[n] = Job("apply", PortList[n - l], i) /\ n \in Int
        BY <1>2, <1>4, <3>1
      <3> QED BY <1>1, <2>3, <3>1, <3>2 DEF Job, Rank
    <2> QED BY <1>2, <1>4, <2>1, <2>2, <2>3
  <1>6. Line(d)
    <2> SUFFICES ASSUME NEW m \in DOMAIN d, NEW n \in DOMAIN d, Rank(d[m]) < Rank(d[n]) PROVE m < n
      BY DEF Line, Before
    <2> QED BY <1>2, <1>5
  <1>7. Distinct(d)
    <2> SUFFICES ASSUME NEW m \in DOMAIN d, NEW n \in DOMAIN d, d[m] = d[n] PROVE m = n
      BY DEF Distinct
    <2>1. CASE d[m].kind = "handoff"
      BY <1>5, <2>1 DEF Distinct
    <2>2. CASE d[m].kind = "sync"
      BY <1>5, <2>2
    <2>3. CASE d[m].kind = "apply"
      <3>1. m - l = n - l
        BY <1>5, <2>3, PortsDiffer
      <3> QED BY <1>2, <1>5, <3>1
    <2> QED BY <1>5, <2>1, <2>2, <2>3
  <1> QED BY <1>3, <1>6, <1>7

LEMMA ReceiveOrder == ASSUME ActionsInv, Ordered, NEW i \in Issues, Receive(i) PROVE Ordered'
  <1>1. PICK batch : batch = Batch(i, Moved)
    OBVIOUS
  <1>2. /\ batch \in Seq(Jobs) /\ \A j \in ToSet(batch) : j \in Jobs /\ j.issue = i
        /\ \A j \in Jobs : j.issue = i /\ j.kind # "handoff" => j \in ToSet(batch)
        /\ Distinct(batch) /\ Line(batch)
    BY <1>1, MovedFits, MovedDiffer, BatchFits, BatchOrder
  <1>3. /\ i > latest /\ todo' = [todo EXCEPT ![i] = batch]
        /\ job' = [j \in Jobs |-> IF j \in ToSet(batch) THEN [Absent EXCEPT !.phase = "made"] ELSE job[j]]
        /\ UNCHANGED <<ingress, queue>>
    BY <1>1 DEF Receive
  <1>4. PICK a : a = [Absent EXCEPT !.phase = "made"]
    OBVIOUS
  <1>5. a.phase = "made" /\ ~a.ran
    BY <1>4 DEF Absent
  <1>6. ASSUME NEW j \in Jobs
        PROVE  /\ j.issue \in Issues
               /\ j.issue = i => Phase(j) = "none"
               /\ j \in ToSet(batch) => j.issue = i /\ Phase(j)' = "made" /\ ~job'[j].ran
               /\ j \notin ToSet(batch) => Phase(j)' = Phase(j) /\ job'[j] = job[j]
    <2>1. Shows(j) /\ latest \in Nat /\ j.issue \in Nat /\ j.issue \in Issues
      BY IssuesFit, JobIs DEF ActionsInv, Placed, ActionsType
    <2>2. j.issue = i => Phase(j) = "none"
      BY <1>3, <2>1 DEF Shows
    <2>3. job'[j] = IF j \in ToSet(batch) THEN a ELSE job[j]
      BY <1>3, <1>4
    <2> QED BY <1>2, <1>5, <2>1, <2>2, <2>3 DEF Phase
  <1>7. todo \in [Issues -> Seq(Jobs)] /\ \A n \in Issues : todo'[n] = IF n = i THEN batch ELSE todo[n]
    BY <1>2, <1>3 DEF ActionsInv, Placed, ActionsType
  <1>8. ASSUME NEW n \in Issues PROVE Listed(n)'
    <2>1. CASE n = i
      <3>1. \A k \in DOMAIN batch : batch[k] \in ToSet(batch) /\ batch[k] \in Jobs
        BY <1>2 DEF ToSet
      <3>2. \A k \in DOMAIN batch : batch[k].issue = i /\ job'[batch[k]].phase = "made"
        BY <1>6, <3>1 DEF Phase
      <3>3. \A k \in DOMAIN todo'[n] : todo'[n][k].issue = n /\ job'[todo'[n][k]].phase = "made"
        BY <1>7, <2>1, <3>2
      <3>4. \A k, m \in DOMAIN todo'[n] : todo'[n][k] = todo'[n][m] => k = m
        BY <1>2, <1>7, <2>1 DEF Distinct
      <3>5. Line(todo[n])'
        BY <1>2, <1>7, <2>1 DEF Line
      <3> QED BY <3>3, <3>4, <3>5 DEF Listed, Phase
    <2>2. CASE n # i
      <3>1. Listed(n) /\ todo'[n] = todo[n] /\ \A k \in DOMAIN todo[n] : todo[n][k] \in Jobs /\ todo[n][k].issue = n
        BY <1>7, <2>2 DEF Ordered, Listed
      <3>2. \A k \in DOMAIN todo[n] : job'[todo[n][k]] = job[todo[n][k]]
        BY <1>6, <2>2, <3>1
      <3> QED BY <3>1, <3>2 DEF Listed, Phase
    <2> QED BY <2>1, <2>2
  <1>9. ASSUME NEW j \in Jobs PROVE Found(j)'
    <2>1. Found(j)
      BY DEF Ordered
    <2>2. CASE j \in ToSet(batch)
      <3>1. PICK n \in DOMAIN batch : batch[n] = j
        BY <2>2 DEF ToSet
      <3>2. Within(todo'[j.issue], j)
        BY <1>6, <1>7, <2>2, <3>1 DEF Within
      <3> QED BY <1>6, <2>2, <3>2 DEF Found
    <2>3. CASE j \notin ToSet(batch)
      <3>1. Phase(j)' = Phase(j) /\ (Phase(j) # "none" => todo'[j.issue] = todo[j.issue])
        BY <1>6, <1>7, <2>3
      <3> QED BY <1>3, <2>1, <3>1 DEF Found
    <2> QED BY <2>2, <2>3
  <1>10. ASSUME NEW j \in Jobs PROVE Ready(j)'
    <2>1. Ready(j)
      BY DEF Ordered
    <2>2. CASE j.issue = i
      <3>1. /\ Job("sync", None, i) \in Jobs /\ Job("sync", None, i).issue = i
            /\ Job("sync", None, i).kind # "handoff"
        BY IsJob DEF Job
      <3>2. Phase(Job("sync", None, i))' = "made"
        BY <1>2, <1>6, <3>1
      <3>3. Phase(j)' \in {"none", "made"}
        BY <1>6, <2>2
      <3>4. ~job'[j].ran \/ job'[j] = job[j]
        BY <1>6
      <3>6. ~job[j].ran
        BY <1>6, <2>1, <2>2 DEF Ready
      <3> QED BY <2>2, <3>2, <3>3, <3>4, <3>6 DEF Ready
    <2>3. CASE j.issue # i
      <3>1. \A k \in Jobs : k.issue = j.issue => Phase(k)' = Phase(k) /\ job'[k] = job[k]
        BY <1>6, <2>3
      <3>2. Phase(j)' = "running" \/ job'[j].ran => PrerequisitesDone(j)' /\ Phase(j)' # "none"
        BY <2>1, <3>1, DoneStays DEF Ready
      <3>3. Job("sync", None, j.issue) \in Jobs /\ Job("sync", None, j.issue).issue = j.issue
        BY <1>6, IsJob DEF Job
      <3> QED BY <2>1, <3>1, <3>2, <3>3 DEF Ready
    <2> QED BY <2>2, <2>3
  <1>11. ASSUME NEW k \in Jobs, NEW l \in Jobs, Before(k, l) PROVE Ahead(k, l)'
    <2>1. Ahead(k, l) /\ k.issue = l.issue /\ Rank(k) < Rank(l)
      BY <1>11 DEF Ordered, Before
    <2>2. CASE k.issue = i
      <3>1. l.kind # "handoff"
        BY <2>1, JobIs DEF Rank
      <3>2. Phase(l)' = "made"
        BY <1>2, <1>6, <2>1, <2>2, <3>1
      <3> QED BY <1>6, <2>2, <3>2 DEF Ahead
    <2>3. CASE k.issue # i
      BY <1>6, <2>1, <2>3 DEF Ahead
    <2> QED BY <2>2, <2>3
  <1>12. Line(ingress)' /\ Line(queue)'
    BY <1>3 DEF Ordered, Line
  <1> QED BY <1>8, <1>9, <1>10, <1>11, <1>12 DEF Ordered, Before, Rank

LEMMA SameOrder == ASSUME Ordered, UNCHANGED <<todo, ingress, queue, job>> PROVE Ordered'
  <1>1. \A k \in Jobs : Phase(k)' = Phase(k) /\ job'[k] = job[k]
    BY DEF Phase
  <1>2. \A i \in Issues : Listed(i)'
    BY DEF Ordered, Listed, Line, Phase
  <1>3. ASSUME NEW k \in Jobs PROVE Found(k)' /\ Ready(k)'
    <2>1. Found(k)'
      BY <1>1 DEF Ordered, Found
    <2>2. Job("sync", None, k.issue) \in Jobs
      BY JobIs, IsJob
    <2>3. PrerequisitesDone(k) => PrerequisitesDone(k)'
      BY <1>1, DoneStays
    <2> QED BY <1>1, <2>1, <2>2, <2>3 DEF Ordered, Ready
  <1>4. \A k, l \in Jobs : Before(k, l) => Ahead(k, l)'
    BY <1>1 DEF Ordered, Ahead
  <1>5. Line(ingress)' /\ Line(queue)'
    BY DEF Ordered, Line
  <1> QED BY <1>2, <1>3, <1>4, <1>5 DEF Ordered, Before, Rank

LEMMA WorkOrder == ASSUME ActionsInv, Ordered, NEW j \in Jobs, Work(j) PROVE Ordered'
  <1>1. Ready(j) /\ job[j] \in JobState /\ job \in [Jobs -> JobState]
    BY DEF Ordered, ActionsInv, Placed, ActionsType
  <1> SUFFICES /\ UNCHANGED <<todo, ingress, queue>> /\ (PrerequisitesDone(j) \/ ~job'[j].ran)
               /\ \A k \in Jobs : k # j => job'[k] = job[k]
               /\ Phase(j) \in {"waiting", "running", "ending", "settled"}
               /\ Phase(j)' \in {"running", "ending", "settled", "done"}
               /\ Phase(j)' = "running" => PrerequisitesDone(j)
    BY LinesRest
  <1>2. CASE Start(j)
    <2>1. PICK phase \in {"running", "ending"} : job' = [job EXCEPT ![j].phase = phase]
      <3>1. (IF Runs(j) THEN "running" ELSE "ending") \in {"running", "ending"}
        OBVIOUS
      <3> QED BY <1>2, <3>1 DEF Start
    <2>2. UNCHANGED <<todo, ingress, queue>> /\ Phase(j) = "waiting" /\ PrerequisitesDone(j)
      BY <1>2 DEF Start, CanStart, queueVars
    <2>3. job'[j].phase = phase /\ \A k \in Jobs : k # j => job'[k] = job[k]
      BY <1>1, <2>1 DEF JobState
    <2> QED BY <2>2, <2>3 DEF Phase
  <1>3. ASSUME NEW ok \in BOOLEAN, HandleHandoff(j, ok) \/ HandleSync(j, ok) \/ HandleApply(j, ok)
        PROVE  /\ UNCHANGED <<todo, ingress, queue>> /\ PrerequisitesDone(j)
               /\ \A k \in Jobs : k # j => job'[k] = job[k]
               /\ Phase(j) = "running" /\ Phase(j)' = "ending"
    <2>1. /\ UNCHANGED <<todo, ingress, queue>> /\ Phase(j) = "running"
          /\ job' = [job EXCEPT ![j].phase = "ending", ![j].ran = TRUE, ![j].ok = ok]
      BY <1>3 DEF HandleHandoff, HandleSync, HandleApply, Ran, queueVars
    <2>2. job'[j].phase = "ending" /\ \A k \in Jobs : k # j => job'[k] = job[k]
      BY <1>1, <2>1 DEF JobState
    <2> QED BY <1>1, <2>1, <2>2 DEF Ready, Phase
  <1>4. ASSUME NEW ok, Published(j, ok)
        PROVE  /\ \A k \in Jobs : k # j => job'[k] = job[k]
               /\ Phase(j)' = "done" /\ ~job'[j].ran
    BY <1>1, <1>4 DEF Published, Absent, Phase
  <1>5. CASE Settle(j)
    <2>1. UNCHANGED <<todo, ingress, queue>> /\ Phase(j) = "ending" /\ PrerequisitesDone(j)
      BY <1>5 DEF Settle, CanSettle
    <2>2. PICK ok : Published(j, ok) \/ job' = [job EXCEPT ![j].phase = "settled", ![j].ok = ok]
      <3>1. PICK ok : ok = (job[j].ok /\ PrerequisitesOk(j))
        OBVIOUS
      <3>2. PICK owed : owed = IF j.kind = "handoff" THEN {} ELSE Owed(j, ok)
        OBVIOUS
      <3>3. Published(j, ok) \/ job' = [job EXCEPT ![j].phase = "settled", ![j].ok = ok]
        BY <1>5, <3>1, <3>2, Zenon DEF Settle
      <3> QED BY <3>3
    <2>3. CASE job' = [job EXCEPT ![j].phase = "settled", ![j].ok = ok]
      <3>1. job'[j].phase = "settled" /\ \A k \in Jobs : k # j => job'[k] = job[k]
        BY <1>1, <2>3 DEF JobState
      <3> QED BY <2>1, <3>1 DEF Phase
    <2> QED BY <1>4, <2>1, <2>2, <2>3
  <1>6. CASE Close(j)
    BY <1>4, <1>6 DEF Close, CanClose
  <1> QED BY <1>2, <1>3, <1>5, <1>6 DEF Work

LEMMA InitOrder == Init => Ordered
  <1> SUFFICES ASSUME Init PROVE Ordered
    OBVIOUS
  <1>1. \A j \in Jobs : Phase(j) = "none" /\ ~job[j].ran
    BY DEF Init, Absent, Phase
  <1>2. Line(<<>>)
    BY DEF Line
  <1>3. \A i \in Issues : Listed(i)
    BY <1>2 DEF Init, Listed
  <1>4. \A j \in Jobs : Found(j) /\ Ready(j)
    BY <1>1 DEF Found, Ready
  <1>5. \A j, k \in Jobs : Ahead(j, k)
    BY <1>1 DEF Ahead
  <1> QED BY <1>2, <1>3, <1>4, <1>5 DEF Ordered, Init

LEMMA NextOrder == ActionsInv /\ Ordered /\ [Next]_vars => Ordered'
  <1> SUFFICES ASSUME ActionsInv, Ordered, [Next]_vars PROVE Ordered'
    OBVIOUS
  <1>1. CASE Dispatch \/ Take
    BY <1>1, DispatchOrder, TakeOrder
  <1>2. ASSUME NEW i \in Issues, Enqueue(i) \/ Push(i) \/ Receive(i) PROVE Ordered'
    BY <1>2, EnqueueOrder, PushOrder, ReceiveOrder
  <1>3. ASSUME NEW j \in Jobs, Work(j) PROVE Ordered'
    BY <1>3, WorkOrder
  <1>4. ASSUME NEW p \in Ports, NEW i \in Issues, Finalize(p, i) \/ Restore(p, i) PROVE Ordered'
    BY <1>4, SameOrder DEF Finalize, Restore, queueVars
  <1>5. CASE UNCHANGED vars
    BY <1>5, SameOrder DEF vars, queueVars
  <1> QED BY <1>1, <1>2, <1>3, <1>4, <1>5 DEF Next, Progress

\* If nothing can go on, every job that is not over waits for another.
LEMMA AllWait ==
    ASSUME ActionsInv, Ordered, ~CanGoOn, NEW j \in Jobs
    PROVE  /\ Phase(j) \notin {"running", "settled"}
           /\ Phase(j) \in {"waiting", "ending"} => ~PrerequisitesDone(j)
  <1>1. ASSUME NEW k \in Jobs PROVE Phase(k) # "running"
    BY DEF CanGoOn
  <1>2. hand \in [Ports -> [Issues -> {"idle", "stopped", "commit", "rollback", "restoring"}]]
    BY DEF ActionsInv, Placed, ActionsType
  <1>3. ASSUME NEW p \in Ports, NEW i \in Issues PROVE hand[p][i] # "restoring"
    BY DEF CanGoOn
  <1>4. \A p : ~Locked(p)
    BY <1>1, <1>3 DEF Locked
  <1>5. ASSUME NEW p \in Ports, NEW i \in Issues PROVE hand[p][i] \in {"idle", "stopped"}
    BY <1>2, <1>3, <1>4 DEF CanGoOn, CanFinalize
  <1>6. Phase(j) # "settled"
    BY <1>5, JobIs DEF CanGoOn, CanClose
  <1>7. Phase(j) = "waiting" => ~PrerequisitesDone(j)
    BY <1>1, <1>4 DEF CanGoOn, CanStart, GateOpen
  <1>8. Phase(j) = "ending" => ~PrerequisitesDone(j)
    BY DEF CanGoOn, CanSettle
  <1> QED BY <1>1, <1>6, <1>7, <1>8

\* So a sync waits for a handoff that no worker has, and then no job of its
\* state that comes later has one either.
LEMMA NobodyWaits ==
    ASSUME ActionsInv, Ordered, ~CanGoOn
    PROVE  /\ \A j \in Jobs : ~Working(j)
           /\ \A j \in Jobs : Phase(j) = "ending" =>
                \E h \in Jobs : Phase(h) \in {"made", "entering", "ingress", "queued"}
  <1> DEFINE Early == {"made", "entering", "ingress", "queued"}
  <1>1. \A j \in Jobs : Phase(j) \in Early \cup {"none", "done", "waiting", "running", "ending", "settled"}
    BY JobFields DEF ActionsInv, Placed, Waits
  <1>2. ASSUME NEW j \in Jobs, Phase(j) \in {"waiting", "ending"}
        PROVE  \E h \in Jobs : Before(h, j) /\ Phase(h) \in Early
    <2>1. PICK q \in Jobs : q \in Prerequisites(j) /\ Before(q, j) /\ Phase(q) # "done"
      BY <1>2, AllWait, PrerequisitesAre DEF PrerequisitesDone
    <2>2. CASE j.kind = "handoff"
      BY <2>1, <2>2, PrerequisitesAre
    <2>3. ASSUME NEW s \in Jobs, NEW h \in Prerequisites(s), s.kind = "sync", Phase(h) # "done"
          PROVE  Phase(h) \in Early
      <3>1. h \in Jobs /\ h.kind = "handoff" /\ Phase(h) # "none"
        BY <2>3, PrerequisitesAre
      <3>2. PrerequisitesDone(h)
        BY <3>1, PrerequisitesAre DEF PrerequisitesDone
      <3> QED BY <1>1, <2>3, <3>1, <3>2, AllWait
    <2>4. CASE j.kind = "sync"
      BY <2>1, <2>3, <2>4
    <2>5. CASE j.kind = "apply"
      <3>1. q = Job("sync", None, j.issue) /\ q.kind = "sync" /\ Phase(q) # "none" /\ q.issue = j.issue
        BY <1>2, <2>1, <2>5, PrerequisitesAre DEF Ordered, Ready, Job
      <3>2. CASE Phase(q) \in Early
        BY <2>1, <3>2
      <3>3. CASE Phase(q) \in {"waiting", "ending"}
        <4>1. PICK h \in Prerequisites(q) : Phase(h) # "done"
          BY <3>3, AllWait DEF PrerequisitesDone
        <4>2. h \in Jobs /\ h.issue = q.issue /\ Before(h, q) /\ Phase(h) \in Early
          BY <2>3, <3>1, <4>1, PrerequisitesAre
        <4>3. Before(h, j)
          <5>1. h.kind = "handoff"
            BY <3>1, <4>1, PrerequisitesAre
          <5> QED BY <2>5, <3>1, <4>2, <5>1 DEF Before, Rank
        <4> QED BY <4>2, <4>3
      <3> QED BY <1>1, <2>1, <3>1, <3>2, <3>3, AllWait
    <2> QED BY <2>2, <2>4, <2>5, JobIs
  <1>3. ASSUME NEW j \in Jobs, Phase(j) = "waiting" PROVE FALSE
    <2>1. PICK h \in Jobs : Before(h, j) /\ Phase(h) \in Early
      BY <1>2, <1>3
    <2> QED BY <1>3, <2>1 DEF Ordered, Ahead
  <1>4. ASSUME NEW j \in Jobs PROVE ~Working(j)
    <2>1. Phase(j) = "ending" => ~job[j].ran
      BY AllWait DEF Ordered, Ready
    <2> QED BY <1>3, <2>1, AllWait DEF Working
  <1> QED BY <1>2, <1>4

\* actions.go:1925-1944: while a job is under way, some goroutine can go on.
THEOREM ActionsGoOn == Spec => []NoJobStranded
  <1>1. ActionsInv /\ Ordered => NoJobStranded
    <2> SUFFICES ASSUME ActionsInv, Ordered, NEW u \in Jobs, Unfinished(u), ~CanGoOn PROVE FALSE
      BY DEF NoJobStranded
    <2>1. /\ Workers \in Nat \ {0} /\ IngressCapacity \in Nat \ {0} /\ QueueCapacity \in Nat \ {0}
          /\ ingress \in Seq(Jobs) /\ queue \in Seq(Jobs) /\ todo \in [Issues -> Seq(Jobs)]
      BY ActionsAssumption DEF ActionsInv, Placed, ActionsType
    <2>2. queue = <<>>
      <3>1. {j \in Jobs : Working(j)} = {}
        BY NobodyWaits
      <3>2. Cardinality({j \in Jobs : Working(j)}) = 0
        BY <3>1, FS_EmptySet, Zenon
      <3>3. 0 < Workers
        BY <2>1
      <3> QED BY <3>2, <3>3 DEF CanGoOn, CanTake
    <2>3. ingress = <<>>
      <3>1. Len(queue) <= QueueCapacity
        BY <2>1, <2>2
      <3> QED BY <3>1 DEF CanGoOn, CanDispatch
    <2>4. ASSUME NEW i \in Issues PROVE todo[i] = <<>>
      <3> SUFFICES ASSUME todo[i] # <<>> PROVE FALSE
        OBVIOUS
      <3>1. Listed(i) /\ todo[i] \in Seq(Jobs) /\ Line(todo[i])
        BY <2>1 DEF Ordered, Listed
      <3>2. Head(todo[i]) = todo[i][1] /\ 1 \in DOMAIN todo[i]
        BY <3>1, TailLine
      <3>3. Phase(Head(todo[i])) \in {"made", "entering"}
        BY <3>1, <3>2 DEF Listed
      <3>4. Len(ingress) < IngressCapacity
        BY <2>1, <2>3
      <3> QED BY <3>3, <3>4 DEF CanGoOn, CanEnqueue, CanPush
    <2>5. ASSUME NEW j \in Jobs PROVE Phase(j) \notin {"made", "entering", "ingress", "queued"}
      <3>1. Found(j) /\ j.issue \in Issues
        BY JobIs DEF Ordered
      <3> QED BY <2>2, <2>3, <2>4, <3>1 DEF Found, Within
    <2>6. Phase(u) \in {"waiting", "running", "ending", "settled"}
      BY <2>5, JobFields DEF ActionsInv, Placed, Waits, Unfinished
    <2>7. Phase(u) = "ending"
      BY <2>6, NobodyWaits, AllWait DEF Working
    <2> QED BY <2>5, <2>7, NobodyWaits
  <1>2. ActionsInv /\ Ordered /\ [Next]_vars => Ordered'
    BY NextOrder
  <1> QED BY <1>1, <1>2, InitOrder, ActionsInvariant, PTL DEF Spec
=============================================================================
