------------------------ MODULE GroupFailover_proofs ------------------------
(***************************************************************************)
(* The evaluation queue for any groups, and inside the failover, whose     *)
(* runs, sweeps, calls and restarts come between its steps.                *)
(***************************************************************************)
EXTENDS GroupFailover, KeyedLock_proofs, WellFoundedInduction

LEMMA EnqueueArms == ASSUME NEW gs, Enqueue(gs) PROVE NeverStranded'
  BY DEF Enqueue, Arms, NeverStranded

LEMMA FlushTakes == ASSUME NeverStranded, Flush PROVE NeverStranded'
  BY DEF Flush, NeverStranded

LEMMA EndArms == ASSUME NEW gs, Evaluated(gs) PROVE NeverStranded'
  BY DEF Evaluated, Arms, NeverStranded

LEMMA RetryArms == ASSUME NEW g, RetryFires(g) PROVE NeverStranded'
  BY DEF RetryFires, Arms, NeverStranded

LEMMA QueueRests == ASSUME NeverStranded, UNCHANGED queueVars PROVE NeverStranded'
  BY DEF queueVars, NeverStranded

\* The queue by itself never leaves a request without a timer, for any set
\* of groups (forwardGroupHealthRecheck.ts:136-211).
THEOREM QueueNeverStrands == QueueSpec => []NeverStranded
  <1>1. QueueInit => NeverStranded
    BY DEF QueueInit, NeverStranded
  <1>2. NeverStranded /\ [QueueNext]_queueVars => NeverStranded'
    BY EnqueueArms, FlushTakes, EndArms, RetryArms, QueueRests DEF QueueNext
  <1> QED BY <1>1, <1>2, PTL DEF QueueSpec

LEMMA WorldArms == ASSUME NeverStranded, World PROVE NeverStranded'
  <1>1. CASE \E m \in Members : Transition(m)
    BY <1>1, EnqueueArms, QueueRests DEF Transition
  <1>2. CASE Call \/ EditFails \/ \E m \in Members : Edit(m)
    BY <1>2, QueueRests DEF Call, Edit, EditFails
  <1>3. CASE \E m \in Members, s \in Reports : Report(m, s)
    BY <1>3, EnqueueArms, QueueRests DEF Report
  <1>4. CASE Restart
    BY <1>4 DEF Restart, NeverStranded
  <1> QED BY <1>1, <1>2, <1>3, <1>4 DEF World

LEMMA StepsArm == ASSUME NeverStranded, Steps PROVE NeverStranded'
  <1>1. CASE FlushTimer
    BY <1>1, FlushTakes DEF FlushTimer
  <1>2. CASE RetryTimer
    BY <1>2, RetryArms DEF RetryTimer
  <1>3. CASE FlushBegin
    BY <1>3, QueueRests DEF FlushBegin
  <1>4. CASE FlushEnd
    BY <1>4, EndArms DEF FlushEnd
  <1>5. CASE RecheckFires
    BY <1>5, EnqueueArms DEF RecheckFires
  <1>6. CASE EditRuns
    BY <1>6, QueueRests DEF EditRuns
  <1> QED BY <1>1, <1>2, <1>3, <1>4, <1>5, <1>6 DEF Steps

LEMMA RunArms == ASSUME NeverStranded, NEW t \in Tasks, Run(t) PROVE NeverStranded'
  <1>1. CASE Load(t)
    BY <1>1, QueueRests DEF Load
  <1>2. CASE Look(t)
    BY <1>2, QueueRests DEF Look
  <1>3. CASE Check(t) \/ Settle(t) \/ Confirm(t) \/ Compare(t)
    <2>1. (\E gs : Enqueue(gs)) \/ UNCHANGED queueVars
      BY <1>3, Zenon DEF Check, Settle, Confirm, Compare, Again, queueVars
    <2> QED BY <2>1, EnqueueArms, QueueRests
  <1>4. CASE Publish(t) \/ Write(t) \/ Hold(t)
    BY <1>4, QueueRests DEF Publish, Write, Hold
  <1> QED BY <1>1, <1>2, <1>3, <1>4 DEF Run

\* Nor inside the failover, although the panel restarts and a run asks for
\* the next one from within its batch (forwardGroupRepository.ts:287-307,
\* 4894-4897).
THEOREM FailoverNeverStrands == Spec => []NeverStranded
  <1>1. Init => NeverStranded
    BY DEF Init, QueueInit, NeverStranded
  <1>2. NeverStranded /\ [Next]_vars => NeverStranded'
    <2> SUFFICES ASSUME NeverStranded, [Next]_vars PROVE NeverStranded'
      OBVIOUS
    <2>1. CASE Sweep
      BY <2>1, QueueRests DEF Sweep
    <2>2. CASE UNCHANGED vars
      <3>1. UNCHANGED queueVars
        BY <2>2 DEF vars
      <3> QED BY <3>1, QueueRests
    <2> QED BY <2>1, <2>2, WorldArms, StepsArm, RunArms DEF Next
  <1> QED BY <1>1, <1>2, PTL DEF Spec

-----------------------------------------------------------------------------
(* The invariant of the runs. *)

InRun == {"look", "check", "settle", "publish", "confirm", "compare", "write", "hold"}

\* The provider has answered and the memory does not know.
Answered == {"confirm", "compare"}

Job == [pc : InRun \cup {"idle", "edited", "load", "done"}, todo : SUBSET Members, on : SUBSET Members,
        seen : [Members -> Verdicts], sig : [Members -> Nat], next : Members \cup {None},
        force : BOOLEAN, failed : BOOLEAN]

FailoverType ==
    /\ epoch \in [Members -> Nat]
    /\ sample \in [Members -> Reports \cup {"stale"}]
    /\ enabled \in SUBSET Members
    /\ window \in [Members -> Windows]
    /\ row \in [active : Members \cup {None}, value : Members]
    /\ provider \in Members /\ reconciled \in Members \cup {None}
    /\ job \in [Tasks -> Job]
    /\ recheck \in BOOLEAN /\ unsure \in BOOLEAN /\ missed \in BOOLEAN

\* The queue has to try again; a batch that succeeds clears an older retry.
Retries ==
    LET j == job[Flusher] IN
    \/ j.pc = "done" /\ j.failed
    \/ Group \in retry /\ ~(j.pc = "done" /\ ~j.failed)

\* What a run has found is still so.
Knows(j) ==
    /\ j.on = enabled
    /\ \A m \in Members \ j.todo :
          /\ Serving(m) <=> j.seen[m] = "healthy"
          /\ j.seen[m] = "none" => Undecided(m)

OnlyBest(n) == \A m \in Members : Best(m) => n = m

RunFits(t) ==
    LET j == job[t] IN
    /\ j.pc \in InRun => t \in inside
    /\ j.pc = "look" => j.todo # {}
    /\ j.pc = "check" => j.todo = {}
    /\ j.pc \in {"look", "check"} => Asked \/ missed \/ Knows(j)
    /\ j.pc \in {"publish", "write"} \cup Answered => j.next # None
    /\ j.pc \in {"settle", "publish", "write"} \cup Answered /\ j.next # None =>
          (AutoFailback => Asked \/ missed \/ recheck \/ OnlyBest(j.next))
    /\ j.pc \in {"write"} \cup Answered => provider = j.next
    /\ j.pc = "hold" \/ (j.pc = "settle" /\ j.next = None) => Asked \/ missed \/ recheck \/ \A m \in Members : ~Best(m)

FlusherHasBatch == job[Flusher].pc # "idle" => Group \in batch

NoRun == \A t \in Tasks : job[t].pc \notin InRun

\* Nothing is left to do.
Settled ==
    /\ row.value = provider \/ unsure \/ \E m \in Members : Undecided(m)
    /\ AutoFailback => OnlyBest(row.active)

AtRest == NoRun => Asked \/ missed \/ recheck \/ Retries \/ Settled

Reconciled ==
    ~unsure /\ (\A t \in Tasks : job[t].pc \notin Answered) => reconciled \in {None, provider}

FailoverInv ==
    /\ FailoverType /\ (\A t \in Tasks : RunFits(t))
    /\ FlusherHasBatch /\ AtRest /\ Reconciled

-----------------------------------------------------------------------------
(* The lock of the group, with restarts. *)

LEMMA LockIsUsed == ASSUME Next PROVE [LockNext]_lockVars \/ LockInit'
  <1> USE GroupIsKey, TasksAreThree
  <1>1. CASE \E m \in Members : Transition(m) \/ \E s \in Reports : Report(m, s)
    BY <1>1 DEF Transition, Report
  <1>2. CASE Call \/ EditFails \/ \E m \in Members : Edit(m)
    BY <1>2 DEF Call, Edit, EditFails, Begin, LockNext
  <1>3. CASE Restart
    BY <1>3 DEF Restart, LockInit
  <1>4. CASE FlushTimer \/ RetryTimer \/ FlushEnd \/ RecheckFires
    BY <1>4 DEF FlushTimer, RetryTimer, FlushEnd, RecheckFires
  <1>5. CASE FlushBegin \/ Sweep \/ EditRuns
    BY <1>5 DEF FlushBegin, Sweep, EditRuns, Begin, LockNext
  <1>6. ASSUME NEW t \in Tasks, Run(t) PROVE [LockNext]_lockVars
    <2>1. CASE Load(t)
      BY <2>1 DEF Load, LockNext
    <2>2. CASE Look(t)
      BY <2>2 DEF Look
    <2>3. CASE Check(t) \/ Settle(t)
      BY <2>3 DEF Check, Settle, Again, Returns, Ends, Goes, To, LockNext
    <2>4. CASE Publish(t)
      BY <2>4 DEF Publish, Fails, Ends, To, LockNext
    <2>5. CASE Confirm(t) \/ Compare(t) \/ Write(t)
      BY <2>5 DEF Confirm, Compare, Write, Again, Returns, Fails, Ends, Goes, To, LockNext
    <2>6. CASE Hold(t)
      BY <2>6 DEF Hold, Returns, Fails, Ends, LockNext
    <2> QED BY <1>6, <2>1, <2>2, <2>3, <2>4, <2>5, <2>6 DEF Run
  <1> QED BY <1>1, <1>2, <1>3, <1>4, <1>5, <1>6 DEF Next, World, Steps

LEMMA LockKept == ASSUME LockInv, [Next]_vars PROVE LockInv'
  <1>1. LockInit' => LockInv'
    BY InitInv, PTL
  <1>2. CASE UNCHANGED vars
    BY <1>2 DEF vars, lockVars, LockInv, LockType, Chained, LastKnown, Ordered, AheadSameKey, InsideFirst
  <1>3. CASE Next
    BY <1>1, <1>3, LockIsUsed, LockStep
  <1> QED BY <1>2, <1>3

OneHolder == \A t, u \in inside : t = u

LEMMA OneInside == LockInv => OneHolder
  <1> SUFFICES ASSUME LockInv, NEW t \in inside, NEW u \in inside PROVE t = u
    BY DEF OneHolder
  <1>1. t \in Tasks /\ u \in Tasks /\ at[t] = Group /\ at[u] = Group /\ ahead[t] = {} /\ ahead[u] = {}
    BY HolderIsFirst, GroupIsKey
  <1> QED BY <1>1, GroupIsKey, NoneIsNoKey DEF LockInv, Ordered

-----------------------------------------------------------------------------
(* Priorities. *)

LEMMA RankFits == ASSUME NEW m \in Members PROVE Rank(m) \in Nat /\ Order[Rank(m)] = m
  <1>1. \E i \in DOMAIN Order : Order[i] = m
    BY DEF Members
  <1>2. DOMAIN Order \subseteq Nat
    BY OrderAssumption
  <1> QED BY <1>1, <1>2 DEF Rank

Below == {ss \in Nat \X Nat : ss[1] < ss[2]}

LEMMA Least == ASSUME NEW R \in SUBSET Nat, R # {} PROVE \E x \in R : \A y \in R : x <= y
  <1>1. IsWellFoundedOn(Below, Nat)
    BY NatLessThanWellFounded DEF OpToRel, Below
  <1>2. PICK x \in R : \A y \in R : ~(<<y, x>> \in Below)
    BY <1>1, WFMin
  <1>3. ASSUME NEW y \in R, y < x PROVE FALSE
    <2>1. <<y, x>> \in Nat \X Nat /\ <<y, x>>[1] < <<y, x>>[2]
      BY <1>3
    <2>2. <<y, x>> \in Below
      BY <2>1, Zenon DEF Below
    <2> QED BY <1>2, <2>2
  <1> QED BY <1>3

LEMMA FirstFits == ASSUME NEW S \in SUBSET Members, S # {}
                   PROVE  First(S) \in S /\ \A n \in S : Rank(First(S)) <= Rank(n)
  <1> DEFINE R == {Rank(m) : m \in S}
  <1>1. R \in SUBSET Nat /\ R # {}
    BY RankFits
  <1> HIDE DEF R
  <1>2. PICK x \in R : \A y \in R : x <= y
    BY <1>1, Least
  <1>3. \E m \in S : \A n \in S : Rank(m) <= Rank(n)
    BY <1>2 DEF R
  <1> QED BY <1>3 DEF First

\* The one of highest priority is found, whoever else is there.
LEMMA FirstIs == ASSUME NEW S \in SUBSET Members, NEW m \in S, \A n \in S : Rank(m) <= Rank(n)
                 PROVE  First(S) = m
  <1>1. First(S) \in S /\ Rank(First(S)) <= Rank(m)
    BY FirstFits
  <1>2. Rank(First(S)) = Rank(m)
    BY <1>1, RankFits
  <1> QED BY <1>1, <1>2, RankFits

-----------------------------------------------------------------------------
(* Types. *)

LEMMA IdleFits == Idle \in Job /\ Idle.pc = "idle" /\ ~Idle.failed
  BY DEF Idle, Job, Verdicts, Windows

LEMMA ChoiceFits == ASSUME FailoverType, NEW j \in Job
                    PROVE  Choice(j) \in Members \cup {None} /\ Fallback(j) = row.value
  <1>1. Healthy(j) \in SUBSET Members
    BY DEF Healthy, Seen
  <1>2. First(Healthy(j)) \in Members \cup {None}
    BY <1>1, FirstFits DEF First
  <1> QED BY <1>2, NoneIsNoMember DEF FailoverType, Choice, Fallback

\* What a step does to the run of one task.
LEMMA JobSet == ASSUME FailoverType, NEW t \in Tasks, NEW j \in Job, job' = [job EXCEPT ![t] = j]
                PROVE  job' \in [Tasks -> Job] /\ job'[t] = j /\ \A u \in Tasks \ {t} : job'[u] = job[u]
  BY DEF FailoverType

LEMMA JobMoved == ASSUME FailoverType, NEW t \in Tasks, NEW pc \in InRun, job' = [job EXCEPT ![t].pc = pc]
                  PROVE  /\ job' \in [Tasks -> Job] /\ \A u \in Tasks \ {t} : job'[u] = job[u]
                         /\ job'[t] = [job[t] EXCEPT !.pc = pc]
  <1>1. job[t] \in Job
    BY DEF FailoverType
  <1>2. [job[t] EXCEPT !.pc = pc] \in Job
    BY <1>1 DEF Job
  <1> QED BY <1>2, JobSet

-----------------------------------------------------------------------------
(* What happens outside the runs. *)

\* Whatever changes the world is announced, or marked as missed.
LEMMA Announced ==
    ASSUME FailoverInv, FailoverType', Asked' \/ missed',
           UNCHANGED <<job, row, provider, reconciled, unsure, batch, inside>>
    PROVE  FailoverInv'
  BY DEF FailoverInv, RunFits, FlusherHasBatch, AtRest, NoRun, Reconciled

\* A member that takes no part decides nothing.
LEMMA SameWorldFits ==
    ASSUME FailoverInv, FailoverType', Asked => Asked', Retries => Retries' \/ Asked', FlusherHasBatch',
           \A m \in Members : Serving(m)' = Serving(m) /\ Undecided(m)' = Undecided(m),
           UNCHANGED <<inside, enabled, row, provider, reconciled, recheck, job, unsure, missed>>
    PROVE  FailoverInv'
  <1>1. \A m \in Members : Best(m)' = Best(m)
    BY DEF Best
  <1>2. \A t \in Tasks : RunFits(t)'
    BY <1>1 DEF FailoverInv, RunFits, Knows, OnlyBest
  <1>3. AtRest' /\ Reconciled'
    BY <1>1 DEF FailoverInv, AtRest, Settled, NoRun, OnlyBest, Reconciled
  <1> QED BY <1>2, <1>3 DEF FailoverInv

LEMMA TransitionFits == ASSUME FailoverInv, NEW m \in Members, Transition(m) PROVE FailoverInv'
  <1>1. FailoverType'
    BY DEF FailoverInv, FailoverType, Transition, dnsVars
  <1>2. CASE m \in enabled
    <2>1. Asked'
      BY <1>2 DEF Transition, Enqueue, Asked
    <2> QED BY <1>1, <1>2, <2>1, Announced DEF Transition, Enqueue, dnsVars, lockVars
  <1>3. CASE m \notin enabled
    <2>1. UNCHANGED queueVars /\ UNCHANGED <<inside, enabled, row, provider, reconciled, recheck, job, unsure, missed>>
      BY <1>3 DEF Transition, dnsVars, lockVars
    <2>2. \A n \in Members \ {m} : epoch'[n] = epoch[n] /\ sample'[n] = sample[n]
      BY DEF Transition, FailoverInv, FailoverType
    <2>3. \A n \in Members : Serving(n)' = Serving(n) /\ Undecided(n)' = Undecided(n)
      BY <1>3, <2>1, <2>2 DEF Serving, Undecided, Up
    <2> QED BY <1>1, <2>1, <2>3, SameWorldFits DEF Asked, Retries, FlusherHasBatch, FailoverInv, queueVars
  <1> QED BY <1>2, <1>3

LEMMA ReportFits == ASSUME FailoverInv, NEW m \in Members, NEW s \in Reports, Report(m, s)
                    PROVE  FailoverInv'
  <1>1. FailoverType'
    BY DEF FailoverInv, FailoverType, Report, dnsVars
  <1>2. Asked' \/ missed'
    BY DEF Report, Enqueue, Asked
  <1> QED BY <1>1, <1>2, Announced DEF Report, Enqueue, dnsVars, lockVars, queueVars

LEMMA RecheckFits == ASSUME FailoverInv, RecheckFires PROVE FailoverInv'
  <1>1. FailoverType'
    BY DEF FailoverInv, FailoverType, RecheckFires, dnsVars, worldVars, Windows
  <1>2. Asked'
    BY DEF RecheckFires, Enqueue, Asked
  <1> QED BY <1>1, <1>2, Announced DEF RecheckFires, Enqueue, dnsVars, lockVars

LEMMA RestartFits == ASSUME FailoverInv, Restart PROVE FailoverInv'
  <1>1. FailoverType'
    BY IdleFits DEF FailoverInv, FailoverType, Restart
  <1>2. \A t \in Tasks : job'[t].pc = "idle"
    BY IdleFits DEF Restart
  <1>3. Flusher \in Tasks
    BY TasksAreThree
  <1> QED BY <1>1, <1>2, <1>3 DEF Restart, FailoverInv, RunFits, InRun, FlusherHasBatch, AtRest, Reconciled, Answered

\* A task outside the runs turns to another place outside them, and a run
\* that will read the group anew is certain, or the matter marked as missed.
LEMMA TurnFits ==
    ASSUME FailoverInv, FailoverType', NEW t \in Tasks, job[t].pc \notin InRun,
           NEW j \in Job, job' = [job EXCEPT ![t] = j], j.pc \notin InRun,
           t = Flusher => Group \in batch, Asked' \/ missed', inside \subseteq inside',
           UNCHANGED <<batch, row, provider, reconciled, unsure>>
    PROVE  FailoverInv'
  <1>1. job'[t] = j /\ \A u \in Tasks \ {t} : job'[u] = job[u]
    BY JobSet DEF FailoverInv
  <1>2. \A u \in Tasks : RunFits(u)'
    BY <1>1 DEF FailoverInv, RunFits, InRun, Answered
  <1>3. FlusherHasBatch'
    BY <1>1, TasksAreThree DEF FailoverInv, FlusherHasBatch
  <1>4. Reconciled'
    BY <1>1 DEF FailoverInv, Reconciled, InRun, Answered
  <1> QED BY <1>2, <1>3, <1>4 DEF FailoverInv, AtRest

LEMMA BeginFits ==
    ASSUME FailoverInv, NEW t \in Tasks, NEW from \in {"idle", "edited"}, NEW force \in BOOLEAN,
           Begin(t, from, force), t = Flusher => Group \in batch,
           UNCHANGED <<queueVars, worldVars, window, dnsVars, recheck, unsure, missed>>
    PROVE  FailoverInv'
  <1> DEFINE j == [job[t] EXCEPT !.pc = "load", !.force = force]
  <1>1. j \in Job /\ j.pc = "load" /\ job' = [job EXCEPT ![t] = j] /\ FailoverType
    BY DEF FailoverInv, FailoverType, Job, Begin
  <1> HIDE DEF j
  <1>2. job' \in [Tasks -> Job] /\ job'[t] = j
    BY <1>1, JobSet
  <1>3. FailoverType'
    BY <1>1, <1>2 DEF FailoverType, dnsVars, worldVars
  <1>4. Asked'
    BY <1>1, <1>2 DEF Asked
  <1>5. inside \subseteq inside' /\ job[t].pc \notin InRun
    BY DEF Begin, Enter, InRun
  <1> QED BY <1>1, <1>3, <1>4, <1>5, TurnFits DEF InRun, queueVars, dnsVars

LEMMA FlushBeginFits == ASSUME FailoverInv, FlushBegin PROVE FailoverInv'
  <1>1. Flusher \in Tasks
    BY TasksAreThree
  <1> QED BY <1>1, BeginFits DEF FlushBegin

LEMMA SweepFits == ASSUME FailoverInv, Sweep PROVE FailoverInv'
  <1>1. Sweeper \in Tasks /\ Sweeper # Flusher
    BY TasksAreThree
  <1> QED BY <1>1, BeginFits DEF Sweep

LEMMA CallFits == ASSUME FailoverInv, Call \/ EditRuns PROVE FailoverInv'
  <1>1. Admin \in Tasks /\ Admin # Flusher
    BY TasksAreThree
  <1> QED BY <1>1, BeginFits DEF Call, EditRuns

LEMMA EditFits == ASSUME FailoverInv, EditFails \/ \E m \in Members : Edit(m) PROVE FailoverInv'
  <1>1. Admin \in Tasks /\ Admin # Flusher /\ FailoverType
    BY TasksAreThree DEF FailoverInv
  <1>2. CASE EditFails
    <2>1. job' \in [Tasks -> Job]
      BY <1>1, <1>2, IdleFits, JobSet DEF EditFails
    <2>2. FailoverType'
      BY <1>1, <1>2, <2>1 DEF FailoverType, EditFails, dnsVars, worldVars
    <2> QED BY <1>1, <1>2, <2>2, IdleFits, TurnFits DEF EditFails, InRun, lockVars, queueVars, dnsVars
  <1>3. CASE \E m \in Members : Edit(m)
    <2> DEFINE j == [job[Admin] EXCEPT !.pc = "edited"]
    <2>1. job[Admin] \in Job
      BY <1>1 DEF FailoverType
    <2>2. j \in Job /\ j.pc = "edited" /\ job' = [job EXCEPT ![Admin] = j]
      BY <1>3, <2>1 DEF Job, Edit
    <2> HIDE DEF j
    <2>3. job' \in [Tasks -> Job] /\ job'[Admin] = j
      BY <1>1, <2>2, JobSet
    <2>4. FailoverType'
      BY <1>1, <1>3, <2>3 DEF FailoverType, Edit, dnsVars
    <2>5. Asked'
      BY <1>1, <2>2, <2>3 DEF Asked
    <2> QED BY <1>1, <1>3, <2>2, <2>4, <2>5, TurnFits DEF Edit, InRun, lockVars, queueVars, dnsVars
  <1> QED BY <1>2, <1>3

\* The timers of the queue: what is asked for stays asked for.
LEMMA TimerFits ==
    ASSUME FailoverInv, Asked => Asked', Retries => Retries' \/ Asked', FlusherHasBatch',
           UNCHANGED <<inside, worldVars, window, dnsVars, recheck, job, unsure, missed>>
    PROVE  FailoverInv'
  <1>1. FailoverType'
    BY DEF FailoverInv, FailoverType, worldVars, dnsVars
  <1>2. \A m \in Members : Serving(m)' = Serving(m) /\ Undecided(m)' = Undecided(m)
    BY DEF Serving, Undecided, Up, worldVars
  <1> QED BY <1>1, <1>2, SameWorldFits DEF worldVars, dnsVars

LEMMA FlushFits == ASSUME FailoverInv, FlushTimer PROVE FailoverInv'
  <1>1. FlusherHasBatch'
    BY DEF FailoverInv, FlusherHasBatch, FlushTimer, Flush
  <1>2. Asked => Asked'
    BY DEF FailoverInv, FlusherHasBatch, FlushTimer, Flush, Asked
  <1>3. Retries => Retries'
    BY DEF FlushTimer, Flush, Retries
  <1> QED BY <1>1, <1>2, <1>3, TimerFits DEF FlushTimer, lockVars

LEMMA RetryFits == ASSUME FailoverInv, RetryTimer PROVE FailoverInv'
  <1>1. FlusherHasBatch'
    BY DEF FailoverInv, FlusherHasBatch, RetryTimer, RetryFires
  <1>2. Asked => Asked'
    BY DEF RetryTimer, RetryFires, Asked
  <1>3. Retries => Retries' \/ Asked'
    BY DEF RetryTimer, RetryFires, Retries, Asked
  <1> QED BY <1>1, <1>2, <1>3, TimerFits DEF RetryTimer, lockVars

\* The end of a batch.
LEMMA FlushEndFits == ASSUME FailoverInv, FlushEnd PROVE FailoverInv'
  <1>1. Flusher \in Tasks /\ FailoverType /\ FlusherHasBatch
    BY TasksAreThree DEF FailoverInv
  <1>2. /\ job' \in [Tasks -> Job] /\ job'[Flusher] = Idle
        /\ \A u \in Tasks \ {Flusher} : job'[u] = job[u]
    BY <1>1, IdleFits, JobSet DEF FlushEnd
  <1>3. FailoverType'
    BY <1>1, <1>2 DEF FailoverType, FlushEnd, worldVars, dnsVars
  <1>4. /\ pending' = pending /\ batch' = {} /\ inside' = inside
        /\ UNCHANGED <<worldVars, window, dnsVars, recheck, unsure, missed>>
    BY DEF FlushEnd, Evaluated, lockVars
  <1>5. job[Flusher].pc \in {"idle", "done"}
    BY <1>1 DEF FlushEnd, FlusherHasBatch
  <1>6. job[Flusher].pc = "done" /\ job[Flusher].failed => Group \in retry'
    BY DEF FlushEnd, Evaluated
  <1>7. job[Flusher].pc = "idle" => Group \notin batch
    BY DEF FlushEnd
  <1>8. Group \in retry /\ Group \notin batch => Group \in retry'
    BY DEF FlushEnd, Evaluated
  <1>9. Asked => Asked'
    BY <1>1, <1>2, <1>4, <1>5, <1>7 DEF Asked
  <1>10. Retries => Retries'
    BY <1>2, <1>5, <1>6, <1>7, <1>8, IdleFits DEF Retries
  <1>11. FlusherHasBatch'
    BY <1>2, IdleFits DEF FlusherHasBatch
  <1>12. \A m \in Members : Serving(m)' = Serving(m) /\ Undecided(m)' = Undecided(m)
    BY <1>4 DEF Serving, Undecided, Up, worldVars
  <1>13. \A m \in Members : Best(m)' = Best(m)
    BY <1>12 DEF Best
  <1>14. \A t \in Tasks : RunFits(t)'
    BY <1>2, <1>4, <1>9, <1>12, <1>13, IdleFits DEF FailoverInv, RunFits, InRun, Knows, OnlyBest, worldVars, dnsVars, Answered
  <1>15. AtRest' /\ Reconciled'
    BY <1>1, <1>2, <1>4, <1>5, <1>9, <1>10, <1>12, <1>13, IdleFits
       DEF FailoverInv, AtRest, Settled, NoRun, InRun, OnlyBest, Reconciled, Answered, dnsVars
  <1> QED BY <1>3, <1>11, <1>14, <1>15 DEF FailoverInv

-----------------------------------------------------------------------------
(* The runs. *)

\* Whoever runs inside the lock is the only one.
LEMMA Alone == ASSUME FailoverInv, LockInv, NEW t \in Tasks, t \in inside
               PROVE  \A u \in Tasks \ {t} : job[u].pc \notin InRun
  BY OneInside DEF FailoverInv, RunFits, OneHolder

\* A run ends: it has settled the group, or somebody will run it again.
LEMMA EndFits ==
    ASSUME FailoverInv, LockInv, NEW t \in Tasks, job[t].pc \in InRun,
           NEW failed \in BOOLEAN, Ends(t, failed), FailoverType', batch' = batch,
           ~unsure' => reconciled' \in {None, provider'},
           failed \/ Asked' \/ missed' \/ recheck' \/ Settled'
    PROVE  FailoverInv'
  <1> DEFINE j == IF t = Flusher THEN [Idle EXCEPT !.pc = "done", !.failed = failed] ELSE Idle
  <1>1. /\ j \in Job /\ j.pc \in {"idle", "done"} /\ t \in inside
        /\ t = Flusher => j.pc = "done" /\ j.failed = failed
    BY IdleFits DEF Job, Ends, Leave
  <1>2. job' = [job EXCEPT ![t] = j] /\ FailoverType
    BY DEF Ends, FailoverInv
  <1> HIDE DEF j
  <1>3. job'[t] = j /\ \A u \in Tasks \ {t} : job'[u] = job[u]
    BY <1>1, <1>2, JobSet
  <1>4. \A u \in Tasks : job'[u].pc \notin InRun
    BY <1>1, <1>3, Alone DEF InRun
  <1>5. \A u \in Tasks : RunFits(u)'
    BY <1>4 DEF RunFits, InRun, Answered
  <1>6. FlusherHasBatch'
    BY <1>3, TasksAreThree DEF FailoverInv, FlusherHasBatch, InRun
  <1>7. Reconciled'
    BY DEF Reconciled
  <1>8. failed => missed' \/ Retries'
    BY <1>1, <1>3 DEF Ends, Retries
  <1>9. AtRest'
    BY <1>8 DEF AtRest
  <1> QED BY <1>5, <1>6, <1>7, <1>9 DEF FailoverInv

\* A run goes on.
LEMMA GoFits ==
    ASSUME FailoverInv, LockInv, NEW t \in Tasks, NEW j \in Job, job' = [job EXCEPT ![t] = j], j.pc \in InRun,
           \A u \in Tasks \ {t} : job[u].pc \notin InRun,
           FailoverType', UNCHANGED queueVars, RunFits(t)', job[t].pc # "idle",
           ~unsure' /\ j.pc \notin Answered => reconciled' \in {None, provider'}
    PROVE  FailoverInv'
  <1>1. job'[t] = j /\ \A u \in Tasks \ {t} : job'[u] = job[u]
    BY JobSet DEF FailoverInv
  <1>2. \A u \in Tasks : RunFits(u)'
    BY <1>1 DEF RunFits, InRun, Answered
  <1>3. FlusherHasBatch'
    BY <1>1, TasksAreThree DEF FailoverInv, FlusherHasBatch, queueVars
  <1>4. AtRest'
    BY <1>1 DEF AtRest, NoRun
  <1>5. Reconciled'
    BY <1>1 DEF Reconciled
  <1> QED BY <1>2, <1>3, <1>4, <1>5 DEF FailoverInv

LEMMA LoadFits == ASSUME FailoverInv, LockInv, LockInv', NEW t \in Tasks, Load(t) PROVE FailoverInv'
  <1>0. FailoverType /\ job[t] \in Job /\ enabled \in SUBSET Members
    BY DEF FailoverInv, FailoverType
  <1>1. PICK j \in Job : /\ j.pc = "look" /\ j.todo = Members /\ j.on = enabled
                         /\ job' = [job EXCEPT ![t] = j]
    <2> DEFINE j == [job[t] EXCEPT !.pc = "look", !.todo = Members, !.on = enabled]
    <2>1. j \in Job /\ j.pc = "look" /\ j.todo = Members /\ j.on = enabled
      BY <1>0 DEF Job, InRun
    <2>2. job' = [job EXCEPT ![t] = j]
      BY <1>0 DEF Load, Job
    <2> QED BY <2>1, <2>2
  <1>2. job' \in [Tasks -> Job] /\ job'[t] = j
    BY <1>0, <1>1, JobSet
  <1>3. inside \subseteq inside' /\ t \in inside'
    BY DEF Load, Proceed, lockVars
  <1>4. \A u \in Tasks \ {t} : job[u].pc \notin InRun
    <2>1. OneHolder'
      BY OneInside, PTL
    <2> QED BY <1>3, <2>1 DEF FailoverInv, RunFits, OneHolder
  <1>5. FailoverType'
    BY <1>0, <1>2 DEF FailoverType, Load, worldVars, dnsVars
  <1>6. Knows(job[t])'
    BY <1>1, <1>2 DEF Knows, Load, worldVars
  <1>7. RunFits(t)'
    <2>1. Members # {}
      BY OrderAssumption DEF Members
    <2> QED BY <1>1, <1>2, <1>3, <1>6, <2>1 DEF RunFits, Answered
  <1>8. ~unsure' => reconciled' \in {None, provider'}
    <2>1. \A u \in Tasks : job[u].pc \notin Answered
      BY <1>4 DEF Load, InRun, Answered
    <2> QED BY <2>1 DEF FailoverInv, Reconciled, Load, dnsVars
  <1> QED BY <1>1, <1>4, <1>5, <1>7, <1>8, GoFits DEF InRun, Load

\* A step inside the lock does not change the world, nor what is asked for.
LEMMA StillAsked == ASSUME Asked, UNCHANGED queueVars, NEW t \in Tasks, job[t].pc \in InRun,
                           \A u \in Tasks \ {t} : job'[u] = job[u]
                    PROVE  Asked'
  BY TasksAreThree DEF Asked, queueVars, InRun

LEMMA VerdictFits ==
    ASSUME FailoverType, NEW m \in Members, NEW on \in SUBSET Members,
           NEW w \in NextWindows(m, Finds(m, on))
    PROVE  LET v == Verdict(Finds(m, on), w)
           IN  /\ w \in Windows /\ v \in Verdicts
               /\ on = enabled => (Serving(m) <=> v = "healthy") /\ (v = "none" => Undecided(m))
  <1>1. window[m] \in Windows /\ sample[m] \in {"good", "bad", "stale"}
    BY DEF FailoverType, Reports
  <1>2. Finds(m, on) \in {"good", "bad", "stale", "off", "silent"}
    BY <1>1 DEF Finds
  <1> QED BY <1>1, <1>2 DEF NextWindows, Verdict, Windows, Verdicts, Finds, Serving, Undecided

LEMMA LookFits == ASSUME FailoverInv, LockInv, NEW t \in Tasks, Look(t) PROVE FailoverInv'
  <1>1. /\ job[t] \in Job /\ job[t].pc = "look" /\ t \in inside /\ FailoverType
        /\ job[t].todo \in SUBSET Members /\ job[t].todo # {} /\ job[t].on \in SUBSET Members
        /\ job[t].seen \in [Members -> Verdicts] /\ job[t].sig \in [Members -> Nat]
    BY DEF Look, At, FailoverInv, FailoverType, RunFits, Job
  <1>2. PICK m \in job[t].todo : m = First(job[t].todo)
    BY <1>1, FirstFits
  <1>3. m \in Members
    BY <1>1
  <1>4. PICK w \in NextWindows(m, Finds(m, job[t].on)) :
          /\ window' = [window EXCEPT ![m] = w]
          /\ job' = [job EXCEPT ![t].todo = @ \ {m}, ![t].seen[m] = Verdict(Finds(m, job[t].on), w),
                                ![t].sig[m] = epoch[m],
                                ![t].pc = IF job[t].todo = {m} THEN "check" ELSE "look"]
    BY <1>2 DEF Look
  <1>5. PICK v : v = Verdict(Finds(m, job[t].on), w)
    OBVIOUS
  <1>6. /\ w \in Windows /\ v \in Verdicts
        /\ job[t].on = enabled => (Serving(m) <=> v = "healthy") /\ (v = "none" => Undecided(m))
    BY <1>1, <1>3, <1>5, VerdictFits
  <1>7. PICK j \in Job :
          /\ job' = [job EXCEPT ![t] = j]
          /\ j.pc = IF job[t].todo = {m} THEN "check" ELSE "look"
          /\ j.todo = job[t].todo \ {m} /\ j.on = job[t].on
          /\ j.seen = [job[t].seen EXCEPT ![m] = v]
    <2> DEFINE j == [job[t] EXCEPT !.todo = @ \ {m}, !.seen[m] = v, !.sig[m] = epoch[m],
                                   !.pc = IF job[t].todo = {m} THEN "check" ELSE "look"]
    <2>1. epoch[m] \in Nat
      BY <1>1, <1>3 DEF FailoverType
    <2>2. j \in Job
      BY <1>1, <1>3, <1>6, <2>1 DEF Job, InRun
    <2>3. job' = [job EXCEPT ![t] = j]
      BY <1>1, <1>4, <1>5 DEF Job
    <2>4. /\ j.pc = IF job[t].todo = {m} THEN "check" ELSE "look"
          /\ j.todo = job[t].todo \ {m} /\ j.on = job[t].on
          /\ j.seen = [job[t].seen EXCEPT ![m] = v]
      BY <1>1 DEF Job
    <2> QED BY <2>2, <2>3, <2>4
  <1>8. job' \in [Tasks -> Job] /\ job'[t] = j /\ \A u \in Tasks \ {t} : job'[u] = job[u]
    BY <1>1, <1>7, JobSet
  <1>9. FailoverType'
    BY <1>1, <1>3, <1>4, <1>6, <1>8 DEF FailoverType, Look, worldVars, dnsVars
  <1>10. Knows(job[t]) => Knows(job[t])'
    <2> SUFFICES ASSUME Knows(job[t]) PROVE Knows(job[t])'
      OBVIOUS
    <2>1. enabled' = enabled /\ \A n \in Members : Serving(n)' = Serving(n) /\ Undecided(n)' = Undecided(n)
      BY DEF Look, worldVars, Serving, Undecided, Up
    <2>2. j.on = enabled /\ job[t].on = enabled
      BY <1>7 DEF Knows
    <2>3. ASSUME NEW n \in Members \ j.todo
          PROVE  (Serving(n) <=> j.seen[n] = "healthy") /\ (j.seen[n] = "none" => Undecided(n))
      <3>1. CASE n = m
        BY <1>1, <1>3, <1>6, <1>7, <2>2, <3>1
      <3>2. CASE n # m
        BY <1>1, <1>7, <3>2 DEF Knows
      <3> QED BY <3>1, <3>2
    <2> QED BY <1>8, <2>1, <2>2, <2>3 DEF Knows
  <1>11. Asked => Asked'
    BY <1>1, <1>7, <1>8, StillAsked DEF Look, InRun
  <1>12. RunFits(t)'
    <2>1. inside' = inside /\ missed' = missed
      BY DEF Look, lockVars
    <2>2. Asked \/ missed \/ Knows(job[t])
      BY <1>1 DEF FailoverInv, RunFits
    <2>3. j.pc \in {"look", "check"} /\ (j.pc = "look" => j.todo # {}) /\ (j.pc = "check" => j.todo = {})
      BY <1>1, <1>2, <1>7
    <2> QED BY <1>1, <1>8, <1>10, <1>11, <2>1, <2>2, <2>3 DEF RunFits, Answered
  <1>13. \A u \in Tasks : job[u].pc \notin Answered
    BY <1>1, Alone DEF InRun, Answered
  <1>14. ~unsure' => reconciled' \in {None, provider'}
    BY <1>13 DEF FailoverInv, Reconciled, Look, dnsVars
  <1> QED BY <1>1, <1>7, <1>9, <1>12, <1>14, Alone, GoFits DEF InRun, Look

\* What a run decides when what it has found is still so.
LEMMA WaitsForSome == ASSUME NEW j \in Job, j.todo = {}, Knows(j), Waits(j)
                      PROVE  \E m \in Members : Undecided(m)
  BY DEF Knows, Waits, Seen

LEMMA NoneIsHealthy == ASSUME FailoverType, NEW j \in Job, Choice(j) = None PROVE Healthy(j) = {}
  <1>1. Healthy(j) \in SUBSET Members
    BY DEF Healthy, Seen
  <1>2. First(Healthy(j)) = None => Healthy(j) = {}
    BY <1>1, FirstFits, NoneIsNoMember
  <1>3. Choice(j) = First(Healthy(j)) \/ (Choice(j) = row.active /\ row.active # None)
    BY DEF Choice, FailsOver
  <1> QED BY <1>2, <1>3

LEMMA HealthyIsServing == ASSUME NEW j \in Job, j.todo = {}, Knows(j), NEW m \in Members
                          PROVE  m \in Healthy(j) <=> Serving(m)
  BY DEF Knows, Healthy, Seen

LEMMA BestIsChosen ==
    ASSUME FailoverType, NEW j \in Job, j.todo = {}, Knows(j), Seen(j, {"failing"}) = {},
           AutoFailback, NEW m \in Members, Best(m)
    PROVE  Choice(j) = m
  <1>1. \A n \in Members : n \in Healthy(j) <=> Serving(n)
    BY HealthyIsServing
  <1>2. Healthy(j) \in SUBSET Members
    BY DEF Healthy, Seen
  <1>3. m \in Healthy(j) /\ \A n \in Healthy(j) : Rank(m) <= Rank(n)
    BY <1>1, <1>2 DEF Best
  <1>4. First(Healthy(j)) = m
    BY <1>2, <1>3, FirstIs
  <1>5. CASE j.force \/ FailsBack(j) \/ FailsOver(j)
    BY <1>4, <1>5 DEF Choice
  <1>6. CASE ~(j.force \/ FailsBack(j) \/ FailsOver(j))
    <2>1. row.active \in Members
      BY <1>6 DEF FailsOver, FailoverType
    <2>2. ~(Rank(m) < Rank(row.active))
      BY <1>3, <1>4, <1>6, <2>1, NoneIsNoMember DEF FailsBack
    <2>3. j.seen[row.active] \in {"healthy", "none"}
      BY <1>6, <2>1 DEF FailsOver, Seen, Job, Verdicts, Windows
    <2>4. j.seen[row.active] # "none"
      BY <2>1 DEF Knows, Best
    <2>5. row.active \in Healthy(j)
      BY <2>1, <2>3, <2>4 DEF Healthy, Seen
    <2>6. Rank(m) = Rank(row.active)
      BY <1>3, <2>1, <2>2, <2>5, RankFits
    <2> QED BY <1>6, <2>1, <2>6, RankFits DEF Choice
  <1> QED BY <1>5, <1>6

\* What all branches of a decision have in common.
LEMMA DecisionFacts ==
    ASSUME FailoverInv, LockInv, NEW t \in Tasks, t \in inside, job[t].pc \in InRun \ Answered,
           UNCHANGED <<worldVars, window, provider, reconciled, unsure>>
    PROVE  /\ \A m \in Members : Undecided(m)' = Undecided(m) /\ Best(m)' = Best(m)
           /\ ~unsure => reconciled \in {None, provider}
           /\ \A u \in Tasks \ {t} : job[u].pc \notin InRun
  <1>1. \A u \in Tasks \ {t} : job[u].pc \notin InRun
    BY Alone
  <1>2. \A u \in Tasks : job[u].pc \notin Answered
    BY <1>1 DEF InRun, Answered
  <1>3. \A m \in Members : Serving(m)' = Serving(m) /\ Undecided(m)' = Undecided(m)
    BY DEF Serving, Undecided, Up, worldVars
  <1>4. \A m \in Members : Best(m)' = Best(m)
    BY <1>3 DEF Best
  <1> QED BY <1>1, <1>2, <1>3, <1>4 DEF FailoverInv, Reconciled

\* The end of a run sets the task's job to what Ends says.
LEMMA EndTypes == ASSUME FailoverType, NEW t \in Tasks, NEW failed \in BOOLEAN, Ends(t, failed)
                  PROVE  job' \in [Tasks -> Job] /\ missed' \in BOOLEAN
                         /\ (\A u \in Tasks \ {t} : job'[u] = job[u]) /\ (missed => missed')
  <1> DEFINE j == IF t = Flusher THEN [Idle EXCEPT !.pc = "done", !.failed = failed] ELSE Idle
  <1>1. j \in Job
    BY IdleFits DEF Job
  <1>2. job' = [job EXCEPT ![t] = j]
    BY DEF Ends
  <1> HIDE DEF j
  <1> QED BY <1>1, <1>2, JobSet DEF Ends, FailoverType

\* A run that ends without an error.
LEMMA ReturnFits ==
    ASSUME FailoverInv, LockInv, NEW t \in Tasks, job[t].pc \in InRun, Returns(t),
           UNCHANGED <<worldVars, window>>, batch' = batch, recheck' \in BOOLEAN, unsure' \in BOOLEAN,
           provider' \in Members, reconciled' \in Members \cup {None},
           row' \in [active : Members \cup {None}, value : Members],
           ~unsure' => reconciled' \in {None, provider'},
           Asked' \/ missed \/ recheck' \/ Settled'
    PROVE  FailoverInv'
  <1>1. Ends(t, FALSE) /\ FailoverType
    BY DEF Returns, FailoverInv
  <1>2. job' \in [Tasks -> Job] /\ missed' \in BOOLEAN /\ (missed => missed')
    BY <1>1, EndTypes
  <1>3. FailoverType'
    BY <1>1, <1>2 DEF FailoverType, worldVars
  <1> QED BY <1>1, <1>2, <1>3, EndFits

LEMMA FailFits ==
    ASSUME FailoverInv, LockInv, NEW t \in Tasks, job[t].pc \in InRun, Fails(t),
           UNCHANGED <<queueVars, worldVars, window, recheck>>, unsure' \in BOOLEAN,
           provider' \in Members, reconciled' \in Members \cup {None},
           row' \in [active : Members \cup {None}, value : Members],
           ~unsure' => reconciled' \in {None, provider'}
    PROVE  FailoverInv'
  <1>1. Ends(t, TRUE) /\ FailoverType
    BY DEF Fails, FailoverInv
  <1>2. job' \in [Tasks -> Job] /\ missed' \in BOOLEAN
    BY <1>1, EndTypes
  <1>3. FailoverType'
    BY <1>1, <1>2 DEF FailoverType, worldVars
  <1> QED BY <1>1, <1>3, EndFits DEF queueVars

\* A run takes its next step.
LEMMA GoesFits ==
    ASSUME FailoverInv, LockInv, NEW t \in Tasks, t \in inside, job[t].pc \in InRun,
           NEW pc \in {"publish", "write", "hold"} \cup Answered, job' = [job EXCEPT ![t].pc = pc],
           UNCHANGED <<inside, queueVars, worldVars, window, row, recheck, missed>>,
           provider' \in Members, reconciled' \in Members \cup {None}, unsure' \in BOOLEAN,
           pc # "hold" => /\ job[t].next # None
                          /\ AutoFailback => Asked \/ missed \/ recheck \/ OnlyBest(job[t].next),
           pc \in {"write"} \cup Answered => provider' = job[t].next,
           pc = "hold" => Asked \/ missed \/ recheck \/ \A m \in Members : ~Best(m),
           ~unsure' /\ pc \notin Answered => reconciled' \in {None, provider'}
    PROVE  FailoverInv'
  <1>1. pc \in InRun /\ FailoverType
    BY DEF InRun, Answered, FailoverInv
  <1>2. PICK j \in Job : j = [job[t] EXCEPT !.pc = pc] /\ job' = [job EXCEPT ![t] = j] /\ j.pc = pc /\ j.next = job[t].next
    <2>1. job[t] \in Job
      BY <1>1 DEF FailoverType
    <2>2. [job[t] EXCEPT !.pc = pc] \in Job
      BY <1>1, <2>1 DEF Job
    <2>3. job' = [job EXCEPT ![t] = [job[t] EXCEPT !.pc = pc]]
      OBVIOUS
    <2> QED BY <2>1, <2>2, <2>3 DEF Job
  <1>3. job' \in [Tasks -> Job] /\ job'[t] = j /\ \A u \in Tasks \ {t} : job'[u] = job[u]
    BY <1>1, <1>2, JobSet
  <1>4. FailoverType'
    BY <1>1, <1>3 DEF FailoverType, worldVars
  <1>5. Asked => Asked'
    BY <1>1, <1>3, StillAsked
  <1>6. \A m \in Members : Best(m)' = Best(m)
    BY DEF Best, Serving, Undecided, Up, worldVars
  <1>7. RunFits(t)'
    BY <1>2, <1>3, <1>5, <1>6 DEF RunFits, OnlyBest, Answered
  <1> QED BY <1>1, <1>2, <1>4, <1>7, Alone, GoFits DEF InRun

\* What a run knows once it has chosen.
LEMMA Chose ==
    ASSUME FailoverInv, NEW t \in Tasks, job[t].pc \in {"settle", "publish", "write"} \cup Answered
    PROVE  /\ FailoverType /\ job[t] \in Job /\ t \in inside
           /\ row \in [active : Members \cup {None}, value : Members] /\ row.value \in Members
           /\ provider \in Members /\ reconciled \in Members \cup {None}
           /\ unsure \in BOOLEAN /\ recheck \in BOOLEAN
           /\ job[t].pc = "settle" \/ job[t].next \in Members
           /\ job[t].next # None /\ AutoFailback => Asked \/ missed \/ recheck \/ OnlyBest(job[t].next)
           /\ job[t].pc \in {"write"} \cup Answered => provider = job[t].next
  BY DEF FailoverInv, FailoverType, RunFits, Job, InRun, Answered

LEMMA CheckFits == ASSUME FailoverInv, LockInv, NEW t \in Tasks, Check(t) PROVE FailoverInv'
  <1>1. PICK j \in Job : j = job[t]
    BY DEF FailoverInv, FailoverType
  <1>2. /\ j.pc = "check" /\ j.todo = {} /\ t \in inside /\ FailoverType
        /\ Asked \/ missed \/ Knows(j)
    BY <1>1 DEF Check, At, FailoverInv, FailoverType, RunFits
  <1>3. /\ UNCHANGED <<worldVars, window, row, provider, reconciled, unsure>>
        /\ recheck' = (Seen(j, {"failing"}) # {})
    BY <1>1 DEF Check, dnsVars
  <1>4. /\ \A m \in Members : Undecided(m)' = Undecided(m) /\ Best(m)' = Best(m)
        /\ ~unsure => reconciled \in {None, provider}
        /\ \A u \in Tasks \ {t} : job[u].pc \notin InRun
    BY <1>1, <1>2, <1>3, DecisionFacts DEF InRun, Answered
  <1>5. recheck' \in BOOLEAN
    BY <1>3
  <1>6. /\ row \in [active : Members \cup {None}, value : Members] /\ provider \in Members
        /\ reconciled \in Members \cup {None} /\ unsure \in BOOLEAN
    BY <1>2 DEF FailoverType
  <1>7. CASE Again(t)
    BY <1>1, <1>2, <1>3, <1>4, <1>5, <1>6, <1>7, ReturnFits DEF Again, Enqueue, Asked, InRun
  <1>8. CASE Waits(j) /\ Returns(t) /\ UNCHANGED queueVars
    <2>1. Asked => Asked'
      BY <1>1, <1>2, <1>8, EndTypes, StillAsked DEF Returns, InRun
    <2>2. Knows(j) => Settled'
      BY <1>2, <1>4, <1>8, WaitsForSome DEF Settled, OnlyBest, Best
    <2> QED BY <1>1, <1>2, <1>3, <1>4, <1>5, <1>6, <1>8, <2>1, <2>2, ReturnFits DEF queueVars, InRun
  <1>9. Knows(j) /\ ~recheck' => (AutoFailback => \A m \in Members : Best(m) => Choice(j) = m)
    BY <1>2, <1>3, BestIsChosen
  <1>10. Knows(j) /\ Choice(j) = None => \A m \in Members : ~Best(m)
    BY <1>2, NoneIsHealthy, HealthyIsServing DEF Best
  <1>11. CASE /\ job' = [job EXCEPT ![t].pc = "settle", ![t].next = Choice(j), ![t].seen = Idle.seen]
              /\ UNCHANGED <<lockVars, queueVars, missed, fit, left>>
    <2>1. Choice(j) \in Members \cup {None} /\ Idle.seen \in [Members -> Verdicts]
      BY <1>2, ChoiceFits, IdleFits DEF Job
    <2>2. PICK i \in Job : job' = [job EXCEPT ![t] = i] /\ i.pc = "settle" /\ i.next = Choice(j)
      <3>1. job' = [job EXCEPT ![t] = [j EXCEPT !.pc = "settle", !.next = Choice(j), !.seen = Idle.seen]]
        BY <1>1, <1>2, <1>11 DEF FailoverType
      <3>2. /\ [j EXCEPT !.pc = "settle", !.next = Choice(j), !.seen = Idle.seen] \in Job
            /\ [j EXCEPT !.pc = "settle", !.next = Choice(j), !.seen = Idle.seen].pc = "settle"
            /\ [j EXCEPT !.pc = "settle", !.next = Choice(j), !.seen = Idle.seen].next = Choice(j)
        BY <2>1 DEF Job, InRun
      <3> QED BY <3>1, <3>2
    <2>3. job' \in [Tasks -> Job] /\ job'[t] = i /\ \A u \in Tasks \ {t} : job'[u] = job[u]
      BY <1>2, <2>2, JobSet
    <2>4. FailoverType'
      BY <1>2, <1>3, <1>5, <1>11, <2>3 DEF FailoverType, worldVars
    <2>5. Asked => Asked'
      BY <1>1, <1>2, <1>11, <2>3, StillAsked DEF InRun
    <2>6. RunFits(t)'
      BY <1>2, <1>4, <1>9, <1>10, <1>11, <2>2, <2>3, <2>5 DEF RunFits, OnlyBest, lockVars, Answered
    <2> QED BY <1>1, <1>2, <1>3, <1>4, <1>11, <2>2, <2>4, <2>6, GoFits DEF InRun
  <1> QED BY <1>1, <1>7, <1>8, <1>11 DEF Check

LEMMA SettleFits == ASSUME FailoverInv, LockInv, NEW t \in Tasks, Settle(t) PROVE FailoverInv'
  <1>1. PICK j \in Job : j = job[t]
    BY DEF FailoverInv, FailoverType
  <1>2. /\ j.pc = "settle" /\ t \in inside /\ FailoverType
        /\ j.next = None => Asked \/ missed \/ recheck \/ \A m \in Members : ~Best(m)
        /\ Fallback(j) = row.value
    BY <1>1, ChoiceFits DEF Settle, At, FailoverInv, FailoverType, RunFits, InRun
  <1>3. UNCHANGED <<worldVars, window, provider, reconciled, recheck, unsure>>
    BY DEF Settle
  <1>4. /\ \A m \in Members : Undecided(m)' = Undecided(m) /\ Best(m)' = Best(m)
        /\ ~unsure => reconciled \in {None, provider}
    BY <1>1, <1>2, <1>3, DecisionFacts DEF InRun, Answered
  <1>5. /\ row \in [active : Members \cup {None}, value : Members] /\ row.value \in Members
        /\ provider \in Members /\ reconciled \in Members \cup {None}
        /\ unsure \in BOOLEAN /\ recheck \in BOOLEAN
        /\ j.next # None /\ AutoFailback => Asked \/ missed \/ recheck \/ OnlyBest(j.next)
    BY <1>1, <1>2, Chose
  <1>6. CASE Again(t) /\ UNCHANGED row
    BY <1>1, <1>2, <1>3, <1>4, <1>5, <1>6, ReturnFits DEF Again, Enqueue, Asked, InRun
  <1>7. CASE j.next # None /\ Current(j, j.next) /\ Returns(t) /\ UNCHANGED <<queueVars, row>>
    <2>1. Asked => Asked'
      BY <1>1, <1>2, <1>7, EndTypes, StillAsked DEF Returns, InRun
    <2>2. (AutoFailback => OnlyBest(j.next)) => Settled'
      BY <1>3, <1>4, <1>7 DEF Settled, OnlyBest, Current
    <2> QED BY <1>1, <1>2, <1>3, <1>4, <1>5, <1>7, <2>1, <2>2, ReturnFits DEF queueVars, InRun
  <1>8. CASE j.next # None /\ Goes(t, "publish") /\ UNCHANGED <<queueVars, row>>
    BY <1>1, <1>2, <1>3, <1>4, <1>5, <1>8, GoesFits DEF Goes, To, InRun, lockVars, Answered
  <1>9. CASE j.next = None /\ Goes(t, "hold") /\ UNCHANGED <<queueVars, row>>
    BY <1>1, <1>2, <1>3, <1>4, <1>5, <1>9, GoesFits DEF Goes, To, InRun, lockVars, Answered
  <1>10. CASE /\ j.next = None /\ ~j.force /\ reconciled = row.value /\ Returns(t)
              /\ row' = [row EXCEPT !.value = row.value] /\ UNCHANGED queueVars
    <2>1. Asked => Asked'
      BY <1>1, <1>2, <1>10, EndTypes, StillAsked DEF Returns, InRun
    <2>2. row' = row
      BY <1>5, <1>10
    <2>3. (\A m \in Members : ~Best(m)) => Settled'
      BY <1>3, <1>4, <1>5, <1>10, <2>2, NoneIsNoMember DEF Settled, OnlyBest
    <2> QED BY <1>1, <1>2, <1>3, <1>4, <1>5, <1>10, <2>1, <2>2, <2>3, ReturnFits DEF queueVars, InRun
  <1>11. row.value # None
    BY <1>5, NoneIsNoMember
  <1> QED BY <1>1, <1>2, <1>6, <1>7, <1>8, <1>9, <1>10, <1>11, Zenon DEF Settle, Again

LEMMA PublishFits == ASSUME FailoverInv, LockInv, NEW t \in Tasks, Publish(t) PROVE FailoverInv'
  <1>1. PICK j \in Job : j = job[t]
    BY DEF FailoverInv, FailoverType
  <1>2. /\ j.pc = "publish"
        /\ UNCHANGED <<queueVars, worldVars, window, row, reconciled, recheck>>
    BY <1>1 DEF Publish, At
  <1>3. /\ t \in inside /\ j.next \in Members /\ j.next # None
        /\ row \in [active : Members \cup {None}, value : Members] /\ provider \in Members
        /\ reconciled \in Members \cup {None} /\ unsure \in BOOLEAN /\ recheck \in BOOLEAN
        /\ AutoFailback => Asked \/ missed \/ recheck \/ OnlyBest(j.next)
    BY <1>1, <1>2, Chose, NoneIsNoMember
  <1>4. CASE /\ provider' = j.next /\ unsure' = FALSE /\ To(t, "confirm") /\ UNCHANGED missed
    BY <1>1, <1>2, <1>3, <1>4, GoesFits DEF To, InRun, Answered, lockVars
  <1>5. CASE provider' = provider /\ Fails(t) /\ UNCHANGED unsure
    <2>1. ~unsure => reconciled \in {None, provider}
      <3>1. \A u \in Tasks : job[u].pc \notin Answered
        BY <1>1, <1>2, <1>3, Alone DEF InRun, Answered
      <3> QED BY <3>1 DEF FailoverInv, Reconciled
    <2> QED BY <1>1, <1>2, <1>3, <1>5, <2>1, FailFits DEF InRun
  <1>6. CASE provider' = j.next /\ unsure' = TRUE /\ Fails(t)
    BY <1>1, <1>2, <1>3, <1>6, FailFits DEF InRun
  <1> QED BY <1>1, <1>4, <1>5, <1>6 DEF Publish

LEMMA ConfirmFits == ASSUME FailoverInv, LockInv, NEW t \in Tasks, Confirm(t) PROVE FailoverInv'
  <1>1. /\ job[t].pc = "confirm" /\ job[t].pc \in InRun /\ job[t].pc \in Answered
        /\ UNCHANGED <<worldVars, window, row, provider, reconciled, recheck>>
    BY DEF Confirm, At, dnsVars, InRun, Answered
  <1>2. CASE Again(t) /\ unsure' = TRUE
    BY <1>1, <1>2, Chose, ReturnFits DEF Again, Enqueue, Asked
  <1>3. CASE Goes(t, "compare") /\ UNCHANGED <<queueVars, unsure>>
    <2>1. job[t].next # None
      BY <1>1, Chose, NoneIsNoMember
    <2> QED BY <1>1, <1>3, <2>1, Chose, GoesFits DEF Goes, To, Answered, lockVars
  <1> QED BY <1>2, <1>3 DEF Confirm

LEMMA CompareFits == ASSUME FailoverInv, LockInv, NEW t \in Tasks, Compare(t) PROVE FailoverInv'
  <1>1. /\ job[t].pc = "compare" /\ job[t].pc \in InRun /\ job[t].pc \in Answered
        /\ UNCHANGED <<worldVars, window, row, provider, recheck>>
    BY DEF Compare, At, InRun, Answered
  <1>2. CASE Again(t) /\ unsure' = TRUE /\ UNCHANGED reconciled
    BY <1>1, <1>2, Chose, ReturnFits DEF Again, Enqueue, Asked
  <1>3. CASE reconciled' = job[t].next /\ Goes(t, "write") /\ UNCHANGED <<queueVars, unsure>>
    <2>1. job[t].next # None /\ job[t].next \in Members /\ provider = job[t].next
      BY <1>1, Chose, NoneIsNoMember
    <2> QED BY <1>1, <1>3, <2>1, Chose, GoesFits DEF Goes, To, lockVars
  <1> QED BY <1>2, <1>3 DEF Compare

LEMMA WriteFits == ASSUME FailoverInv, LockInv, NEW t \in Tasks, Write(t) PROVE FailoverInv'
  <1>1. PICK j \in Job : j = job[t]
    BY DEF FailoverInv, FailoverType
  <1>2. /\ j.pc = "write" /\ j.pc \in InRun
        /\ UNCHANGED <<queueVars, worldVars, window, provider, reconciled, recheck, unsure>>
    BY <1>1 DEF Write, At, InRun
  <1>3. /\ t \in inside /\ FailoverType /\ j.next \in Members /\ j.next # None /\ provider = j.next
        /\ row \in [active : Members \cup {None}, value : Members]
        /\ reconciled \in Members \cup {None} /\ unsure \in BOOLEAN /\ recheck \in BOOLEAN
        /\ AutoFailback => Asked \/ missed \/ recheck \/ OnlyBest(j.next)
    BY <1>1, <1>2, Chose, NoneIsNoMember
  <1>4. PICK written : /\ written = [active |-> j.next, value |-> j.next]
                       /\ \/ row' = written /\ Returns(t)
                          \/ row' \in {row, written} /\ Fails(t)
    BY <1>1 DEF Write
  <1>5. row' \in [active : Members \cup {None}, value : Members]
    BY <1>3, <1>4
  <1>6. ~unsure => reconciled \in {None, provider}
    <2>1. \A u \in Tasks : job[u].pc \notin Answered
      BY <1>1, <1>2, <1>3, Alone DEF InRun, Answered
    <2> QED BY <2>1 DEF FailoverInv, Reconciled
  <1>7. CASE row' = written /\ Returns(t)
    <2>1. Asked => Asked'
      BY <1>1, <1>2, <1>3, <1>7, EndTypes, StillAsked DEF Returns
    <2>2. \A m \in Members : Best(m)' = Best(m)
      BY <1>2 DEF Best, Serving, Undecided, Up, worldVars
    <2>3. (AutoFailback => OnlyBest(j.next)) => Settled'
      BY <1>2, <1>3, <1>4, <1>7, <2>2 DEF Settled, OnlyBest
    <2> QED BY <1>1, <1>2, <1>3, <1>5, <1>6, <1>7, <2>1, <2>3, ReturnFits DEF queueVars
  <1>8. CASE Fails(t)
    BY <1>1, <1>2, <1>3, <1>5, <1>6, <1>8, FailFits
  <1> QED BY <1>4, <1>7, <1>8

LEMMA HoldFits == ASSUME FailoverInv, LockInv, NEW t \in Tasks, Hold(t) PROVE FailoverInv'
  <1>1. PICK j \in Job : j = job[t]
    BY DEF FailoverInv, FailoverType
  <1>2. /\ j.pc = "hold" /\ t \in inside /\ FailoverType
        /\ Asked \/ missed \/ recheck \/ \A m \in Members : ~Best(m)
        /\ Fallback(j) = row.value
    BY <1>1, ChoiceFits DEF Hold, At, FailoverInv, FailoverType, RunFits
  <1>3. UNCHANGED <<queueVars, worldVars, window, recheck>>
    BY DEF Hold
  <1>4. /\ row \in [active : Members \cup {None}, value : Members] /\ provider \in Members
        /\ row.value \in Members /\ reconciled \in Members \cup {None}
        /\ unsure \in BOOLEAN /\ recheck \in BOOLEAN
    BY <1>2 DEF FailoverType
  <1>5. ~unsure => reconciled \in {None, provider}
    <2>1. \A u \in Tasks : job[u].pc \notin Answered
      BY <1>1, <1>2, Alone DEF InRun, Answered
    <2> QED BY <2>1 DEF FailoverInv, Reconciled
  <1>6. CASE /\ provider' = row.value /\ reconciled' = row.value /\ unsure' = FALSE
             /\ row' = [row EXCEPT !.value = row.value] /\ Returns(t)
    <2>1. row' = row
      BY <1>4, <1>6
    <2>2. Asked => Asked'
      BY <1>1, <1>2, <1>3, <1>6, EndTypes, StillAsked DEF Returns, InRun
    <2>3. \A m \in Members : Best(m)' = Best(m)
      BY <1>3 DEF Best, Serving, Undecided, Up, worldVars
    <2>4. (\A m \in Members : ~Best(m)) => Settled'
      BY <1>6, <2>1, <2>3 DEF Settled, OnlyBest
    <2> QED BY <1>1, <1>2, <1>3, <1>4, <1>6, <2>1, <2>2, <2>4, ReturnFits DEF queueVars, InRun
  <1>7. CASE /\ provider' = row.value /\ reconciled' = row.value /\ unsure' = FALSE
             /\ row' = [row EXCEPT !.active = None] /\ Fails(t)
    BY <1>1, <1>2, <1>3, <1>4, <1>7, FailFits DEF InRun
  <1>8. CASE /\ provider' \in {provider, row.value} /\ unsure' = (unsure \/ provider' # provider)
             /\ row' = [row EXCEPT !.active = None] /\ Fails(t) /\ UNCHANGED reconciled
    BY <1>1, <1>2, <1>3, <1>4, <1>5, <1>8, FailFits DEF InRun
  <1> QED BY <1>1, <1>2, <1>6, <1>7, <1>8 DEF Hold

-----------------------------------------------------------------------------
(* The theorems. *)

LEMMA InitFits == Init => FailoverInv
  <1> SUFFICES ASSUME Init PROVE FailoverInv
    OBVIOUS
  <1>1. Order[1] \in Members /\ Members # {}
    BY OrderAssumption DEF Members
  <1>2. \A t \in Tasks : job[t] \in Job /\ job[t].pc = "idle"
    BY IdleFits DEF Init
  <1>3. FailoverType
    BY <1>1, <1>2 DEF Init, FailoverType, Windows, Reports
  <1>4. \A t \in Tasks : RunFits(t)
    BY <1>2 DEF RunFits, InRun, Answered
  <1>5. FlusherHasBatch
    BY <1>2, TasksAreThree DEF FlusherHasBatch
  <1>6. \A m \in Members : Rank(Order[1]) <= Rank(m)
    <2>1. 1 \in DOMAIN Order /\ DOMAIN Order = 1..Len(Order) /\ Len(Order) \in Nat
      BY OrderAssumption
    <2>2. Rank(Order[1]) = 1
      BY <2>1, OrderAssumption DEF Rank
    <2>3. \A m \in Members : \E i \in DOMAIN Order : Order[i] = m
      BY DEF Members
    <2>4. \A m \in Members : Rank(m) \in DOMAIN Order
      BY <2>3 DEF Rank
    <2> QED BY <2>1, <2>2, <2>4
  <1>7. \A m \in Members : Serving(m)
    BY DEF Init, Serving, Up
  <1>8. OnlyBest(row.active)
    <2> SUFFICES ASSUME NEW m \in Members, Best(m) PROVE Order[1] = m
      BY DEF OnlyBest, Init
    <2>1. Rank(m) <= Rank(Order[1])
      BY <1>1, <1>7 DEF Best
    <2> QED BY <1>1, <1>6, <2>1, RankFits
  <1>9. row.value = provider /\ reconciled = provider
    BY DEF Init
  <1> QED BY <1>3, <1>4, <1>5, <1>8, <1>9 DEF FailoverInv, AtRest, Settled, Reconciled

LEMMA RestFits == ASSUME FailoverInv, UNCHANGED vars PROVE FailoverInv'
  <1>1. /\ Asked => Asked'
        /\ Retries => Retries'
        /\ FlusherHasBatch'
        /\ UNCHANGED <<inside, worldVars, window, dnsVars, recheck, job, unsure, missed>>
    BY DEF vars, lockVars, queueVars, Asked, Retries, FlusherHasBatch, FailoverInv
  <1> QED BY <1>1, TimerFits

LEMMA StepFits == ASSUME FailoverInv, LockInv, LockInv', [Next]_vars PROVE FailoverInv'
  <1>1. CASE World
    BY <1>1, TransitionFits, CallFits, EditFits, ReportFits, RestartFits DEF World
  <1>2. CASE Steps
    BY <1>2, FlushFits, RetryFits, FlushBeginFits, FlushEndFits, RecheckFits, CallFits DEF Steps
  <1>3. ASSUME NEW t \in Tasks, Run(t) PROVE FailoverInv'
    BY <1>3, LoadFits, LookFits, CheckFits, SettleFits, PublishFits, ConfirmFits, CompareFits, WriteFits, HoldFits DEF Run
  <1> QED BY <1>1, <1>2, <1>3, SweepFits, RestFits DEF Next

LEMMA FailoverInvariant == Spec => [](LockInv /\ FailoverInv)
  <1>1. Init => LockInv /\ FailoverInv
    BY InitInv, InitFits DEF Init
  <1>2. LockInv /\ FailoverInv /\ [Next]_vars => (LockInv /\ FailoverInv)'
    BY LockKept, StepFits
  <1> QED BY <1>1, <1>2, PTL DEF Spec

\* The failover of a group is never run by two at once, through the restarts
\* that forget the lock as well (forwardGroupRepository.ts:4894-4897).
THEOREM FailoverExclusive == Spec => [](\A t, u \in Tasks : job[t].pc \in InRun /\ job[u].pc \in InRun => t = u)
  <1>1. LockInv /\ FailoverInv => \A t, u \in Tasks : job[t].pc \in InRun /\ job[u].pc \in InRun => t = u
    BY OneInside DEF FailoverInv, RunFits, OneHolder
  <1> QED BY <1>1, FailoverInvariant, PTL

LEMMA QuietRests == ASSUME FailoverInv, Quiet, ~missed PROVE Settled
  <1>1. Flusher \in Tasks
    BY TasksAreThree
  <1> QED BY <1>1 DEF FailoverInv, AtRest, NoRun, InRun, Asked, Retries, Quiet

\* When all has come to rest and nothing unannounced has happened, a group
\* that fails back is on its best member: no interleaving of silences,
\* reports, calls, failed steps and retries loses the run that would have put
\* it there (scheduler.ts:733-734, forwardGroupHealthRecheck.ts:136-211).
THEOREM FailoverForgetsNothing == Spec => []NothingForgotten
  <1>1. FailoverInv => NothingForgotten
    BY QuietRests DEF NothingForgotten, Settled, OnlyBest
  <1> QED BY <1>1, FailoverInvariant, PTL

\* The row and the memory never claim that the provider publishes what it
\* does not, but for an update that nobody recorded.
THEOREM FailoverRecordAgrees == Spec => []RecordAgrees
  <1>1. FailoverInv => RecordAgrees
    BY QuietRests DEF RecordAgrees, Settled, FailoverInv, Reconciled, Answered
  <1> QED BY <1>1, FailoverInvariant, PTL

-----------------------------------------------------------------------------
(* What a switch knows of the member it goes to. *)

\* No run has found a transition that has not happened yet.
SigsPast == \A t \in Tasks, m \in Members : job[t].sig[m] <= epoch[m]

Late == {"compare", "write"}

SwitchFits(t) ==
    LET j == job[t]
        n == j.next
    IN  /\ j.pc \in {"confirm"} \cup Late => Fit \subseteq fit
        /\ j.pc = "compare" =>
              /\ n \in enabled \/ Asked \/ missed
              /\ epoch[n] = j.sig[n] /\ Up(n) => n \in fit
        /\ j.pc = "write" /\ n # row.active =>
              /\ n \in fit
              /\ n \in Fit \/ Asked \/ missed

SwitchInv == SigsPast /\ \A t \in Tasks : SwitchFits(t)

\* What happens outside the runs leaves those that switch alone, or is
\* announced.
LEMMA OutsideFits ==
    ASSUME FailoverInv, SwitchInv, SigsPast', UNCHANGED <<enabled, epoch, row, fit>>,
           Asked => Asked' \/ missed', missed => missed' \/ Asked',
           \A t \in Tasks : job'[t] = job[t] \/ job'[t].pc \notin InRun
    PROVE  SwitchInv'
  <1>1. Fit' = Fit /\ \A m \in Members : Up(m)' = Up(m)
    BY DEF Fit, Up
  <1>2. ASSUME NEW t \in Tasks PROVE SwitchFits(t)'
    <2>1. CASE job'[t] = job[t]
      BY <1>1, <2>1 DEF SwitchInv, SwitchFits, Up
    <2>2. CASE job'[t].pc \notin InRun
      BY <2>2 DEF SwitchFits, InRun, Answered, Late
    <2> QED BY <2>1, <2>2
  <1> QED BY <1>2 DEF SwitchInv

\* Whoever is not under way has nothing to keep.
LEMMA NoneLate == ASSUME SigsPast', \A t \in Tasks : job'[t].pc \notin {"confirm"} \cup Late PROVE SwitchInv'
  BY DEF SwitchInv, SwitchFits, Late

LEMMA SameSigs == ASSUME FailoverType, SigsPast, UNCHANGED epoch, NEW t \in Tasks, NEW j \in Job,
                         job' = [job EXCEPT ![t] = j], \A m \in Members : j.sig[m] <= epoch[m]
                  PROVE  SigsPast'
  BY JobSet DEF SigsPast

LEMMA TransitionSwitch == ASSUME FailoverInv, SwitchInv, NEW m \in Members, Transition(m) PROVE SwitchInv'
  <1>1. /\ FailoverType /\ epoch' = [epoch EXCEPT ![m] = @ + 1] /\ epoch[m] \in Nat
        /\ UNCHANGED <<enabled, job, row, missed>>
    BY DEF FailoverInv, FailoverType, Transition, dnsVars
  <1>2. \A t \in Tasks : job[t].sig \in [Members -> Nat] /\ job[t].next \in Members \cup {None}
    BY <1>1 DEF FailoverType, Job
  <1>3. SigsPast'
    BY <1>1, <1>2 DEF SwitchInv, SigsPast, FailoverType
  <1>4. (Asked => Asked') /\ (m \in enabled => Asked')
    BY DEF Transition, Enqueue, Asked, queueVars
  <1>5. \A n \in Members \ {m} : epoch'[n] = epoch[n]
    BY <1>1 DEF FailoverType
  <1>6. epoch'[m] = epoch[m] + 1
    BY <1>1 DEF FailoverType
  <1>7. ASSUME NEW t \in Tasks, job[t].pc \in {"confirm"} \cup Late PROVE SwitchFits(t)'
    <2>1. fit' = fit \cup Fit'
      BY <1>7 DEF Transition, Remember, Publishing, Late
    <2>2. job[t].next \in Members
      BY <1>2, <1>7 DEF FailoverInv, RunFits, Answered, Late
    <2>3. SwitchFits(t) /\ SigsPast
      BY DEF SwitchInv
    <2>4. job[t].sig[m] <= epoch[m] /\ job[t].sig[m] \in Nat
      BY <1>2, <2>3 DEF SigsPast
    <2>5. epoch'[m] # job[t].sig[m]
      BY <1>1, <1>6, <2>4
    <2>6. ASSUME job[t].pc = "compare" PROVE epoch'[job[t].next] = job[t].sig[job[t].next] /\ Up(job[t].next)' => job[t].next \in fit'
      <3>1. CASE job[t].next = m
        BY <2>5, <3>1
      <3>2. CASE job[t].next # m
        <4>1. epoch[job[t].next] = job[t].sig[job[t].next] /\ Up(job[t].next) => job[t].next \in fit
          BY <2>3, <2>6 DEF SwitchFits
        <4>2. epoch'[job[t].next] = epoch[job[t].next]
          BY <1>5, <2>2, <3>2
        <4> QED BY <1>1, <2>1, <4>1, <4>2 DEF Up
      <3> QED BY <3>1, <3>2
    <2>7. ASSUME job[t].pc = "write", job[t].next \in Fit PROVE job[t].next \in Fit' \/ Asked'
      BY <1>1, <1>4, <1>5, <2>2, <2>7 DEF Fit, Up
    <2> QED BY <1>1, <1>4, <2>1, <2>3, <2>6, <2>7 DEF SwitchFits
  <1>8. ASSUME NEW t \in Tasks, job[t].pc \notin {"confirm"} \cup Late PROVE SwitchFits(t)'
    BY <1>1, <1>8 DEF SwitchFits, Late
  <1> QED BY <1>3, <1>7, <1>8 DEF SwitchInv

LEMMA EditSwitch == ASSUME FailoverInv, SwitchInv, NEW m \in Members, Edit(m) PROVE SwitchInv'
  <1>1. FailoverType /\ Admin \in Tasks /\ job[Admin].pc = "idle" /\ UNCHANGED <<epoch, row>>
    BY TasksAreThree DEF FailoverInv, Edit, dnsVars
  <1>2. PICK j \in Job : job' = [job EXCEPT ![Admin] = j] /\ j.pc = "edited" /\ j.sig = job[Admin].sig
    <2>1. job[Admin] \in Job
      BY <1>1 DEF FailoverType
    <2>2. [job[Admin] EXCEPT !.pc = "edited"] \in Job
      BY <2>1 DEF Job
    <2>3. job' = [job EXCEPT ![Admin] = [job[Admin] EXCEPT !.pc = "edited"]]
      BY DEF Edit
    <2> QED BY <2>1, <2>2, <2>3 DEF Job
  <1>3. job'[Admin] = j /\ \A u \in Tasks \ {Admin} : job'[u] = job[u]
    BY <1>1, <1>2, JobSet
  <1>4. SigsPast'
    BY <1>1, <1>2, SameSigs DEF SwitchInv, SigsPast
  <1>5. Asked'
    BY <1>1, <1>2, <1>3 DEF Asked
  <1>6. ASSUME NEW t \in Tasks, job'[t].pc \in {"confirm"} \cup Late PROVE SwitchFits(t)'
    <2>1. job'[t] = job[t]
      BY <1>2, <1>3, <1>6 DEF Late
    <2>2. fit' = fit \cup Fit'
      BY <1>6, <2>1 DEF Edit, Remember, Publishing, Late
    <2> QED BY <1>1, <1>5, <2>1, <2>2 DEF SwitchInv, SwitchFits, Up
  <1>7. ASSUME NEW t \in Tasks, job'[t].pc \notin {"confirm"} \cup Late PROVE SwitchFits(t)'
    BY <1>7 DEF SwitchFits, Late
  <1> QED BY <1>4, <1>6, <1>7 DEF SwitchInv

LEMMA BeginSwitch ==
    ASSUME FailoverInv, SwitchInv, NEW t \in Tasks, NEW from \in {"idle", "edited"}, NEW force \in BOOLEAN,
           Begin(t, from, force), UNCHANGED <<queueVars, worldVars, dnsVars, missed, fit>>
    PROVE  SwitchInv'
  <1>1. FailoverType /\ UNCHANGED <<enabled, epoch, row>>
    BY DEF FailoverInv, worldVars, dnsVars
  <1>2. PICK j \in Job : job' = [job EXCEPT ![t] = j] /\ j.pc = "load" /\ j.sig = job[t].sig
    <2>1. job[t] \in Job
      BY <1>1 DEF FailoverType
    <2>2. [job[t] EXCEPT !.pc = "load", !.force = force] \in Job
      BY <2>1 DEF Job
    <2>3. job' = [job EXCEPT ![t] = [job[t] EXCEPT !.pc = "load", !.force = force]]
      BY <1>1 DEF Begin, FailoverType
    <2> QED BY <2>1, <2>2, <2>3 DEF Job
  <1>3. job'[t] = j /\ \A u \in Tasks \ {t} : job'[u] = job[u]
    BY <1>1, <1>2, JobSet
  <1>4. SigsPast'
    BY <1>1, <1>2, SameSigs DEF SwitchInv, SigsPast
  <1>5. Asked'
    BY <1>2, <1>3 DEF Asked
  <1> QED BY <1>1, <1>2, <1>3, <1>4, <1>5, OutsideFits DEF InRun, Answered

\* The job of a task is cleared.
LEMMA IdleSwitch ==
    ASSUME FailoverInv, SwitchInv, NEW t \in Tasks, job' = [job EXCEPT ![t] = Idle],
           Asked => Asked' \/ missed', missed => missed' \/ Asked', UNCHANGED <<enabled, epoch, row, fit>>
    PROVE  SwitchInv'
  <1>1. FailoverType /\ Idle \in Job /\ Idle.pc = "idle" /\ \A m \in Members : Idle.sig[m] = 0
    BY IdleFits DEF FailoverInv, Idle
  <1>2. job'[t] = Idle /\ \A u \in Tasks \ {t} : job'[u] = job[u]
    BY <1>1, JobSet
  <1>3. SigsPast /\ \A m \in Members : Idle.sig[m] <= epoch[m]
    BY <1>1 DEF FailoverType, SwitchInv
  <1>4. SigsPast'
    BY <1>1, <1>3, SameSigs
  <1> QED BY <1>1, <1>2, <1>4, OutsideFits DEF InRun, Answered

LEMMA StepsSwitch == ASSUME FailoverInv, SwitchInv, Steps PROVE SwitchInv'
  <1> USE TasksAreThree
  <1>1. CASE FlushTimer \/ RetryTimer \/ RecheckFires
    <2>1. UNCHANGED <<worldVars, dnsVars, job, missed, fit>>
      BY <1>1 DEF FlushTimer, RetryTimer, RecheckFires
    <2>2. Asked => Asked'
      BY <1>1, <2>1 DEF FlushTimer, RetryTimer, RecheckFires, Flush, RetryFires, Enqueue, Asked,
                        FailoverInv, FlusherHasBatch
    <2>3. SigsPast'
      BY <2>1 DEF SwitchInv, SigsPast, worldVars
    <2> QED BY <2>1, <2>2, <2>3, OutsideFits DEF worldVars, dnsVars
  <1>2. CASE FlushEnd
    <2>1. Asked => Asked'
      <3>1. job' = [job EXCEPT ![Flusher] = Idle] /\ pending' = pending /\ FailoverType /\ FlusherHasBatch
        BY <1>2 DEF FlushEnd, Evaluated, FailoverInv
      <3>2. job[Flusher].pc = "done" \/ (Group \notin batch /\ job[Flusher].pc = "idle")
        BY <1>2, <3>1 DEF FlushEnd, FlusherHasBatch
      <3>3. \A u \in Tasks \ {Flusher} : job'[u] = job[u]
        BY <3>1 DEF FailoverType
      <3> QED BY <3>1, <3>2, <3>3 DEF Asked
    <2> QED BY <1>2, <2>1, IdleSwitch DEF FlushEnd, worldVars, dnsVars
  <1>3. CASE FlushBegin
    BY <1>3, BeginSwitch DEF FlushBegin
  <1>4. CASE EditRuns
    BY <1>4, BeginSwitch DEF EditRuns
  <1> QED BY <1>1, <1>2, <1>3, <1>4 DEF Steps

LEMMA WorldSwitch == ASSUME FailoverInv, SwitchInv, World PROVE SwitchInv'
  <1> USE TasksAreThree
  <1>1. CASE \E m \in Members, s \in Reports : Report(m, s)
    <2>1. UNCHANGED <<epoch, enabled, dnsVars, job, fit>>
      BY <1>1 DEF Report
    <2>2. (Asked => Asked') /\ (missed => missed' \/ Asked')
      BY <1>1, <2>1 DEF Report, Enqueue, Asked, queueVars
    <2>3. SigsPast'
      BY <2>1 DEF SwitchInv, SigsPast
    <2> QED BY <2>1, <2>2, <2>3, OutsideFits DEF dnsVars
  <1>2. CASE Call
    BY <1>2, BeginSwitch DEF Call
  <1>3. CASE EditFails
    BY <1>3, IdleSwitch DEF EditFails, worldVars, dnsVars
  <1>4. CASE Restart
    <2>1. job' = [t \in Tasks |-> Idle] /\ epoch' = [m \in Members |-> 0]
      BY <1>4 DEF Restart
    <2>2. Idle.pc = "idle" /\ \A m \in Members : Idle.sig[m] = 0
      BY DEF Idle
    <2> QED BY <2>1, <2>2, NoneLate DEF SigsPast, Late
  <1> QED BY <1>1, <1>2, <1>3, <1>4, TransitionSwitch, EditSwitch DEF World

LEMMA RunEnds ==
    ASSUME FailoverInv, SwitchInv, NEW t \in Tasks, NEW failed \in BOOLEAN, Ends(t, failed),
           UNCHANGED epoch, \A u \in Tasks \ {t} : job[u].pc \notin InRun
    PROVE  SwitchInv'
  <1> DEFINE j == IF t = Flusher THEN [Idle EXCEPT !.pc = "done", !.failed = failed] ELSE Idle
  <1>1. j \in Job /\ j.pc \in {"idle", "done"} /\ \A m \in Members : j.sig[m] = 0
    BY IdleFits DEF Job, Idle
  <1>2. job' = [job EXCEPT ![t] = j] /\ FailoverType
    BY DEF Ends, FailoverInv
  <1> HIDE DEF j
  <1>3. job'[t] = j /\ \A u \in Tasks \ {t} : job'[u] = job[u]
    BY <1>1, <1>2, JobSet
  <1>4. SigsPast /\ \A m \in Members : j.sig[m] <= epoch[m]
    BY <1>1, <1>2 DEF FailoverType, SwitchInv
  <1>5. SigsPast'
    BY <1>1, <1>2, <1>4, SameSigs
  <1> QED BY <1>1, <1>3, <1>5, NoneLate DEF InRun, Answered, Late

\* A run that goes on keeps what it has found.
LEMMA RunGoes ==
    ASSUME FailoverInv, SwitchInv, NEW t \in Tasks, NEW pc \in InRun, job' = [job EXCEPT ![t].pc = pc],
           UNCHANGED epoch, \A u \in Tasks \ {t} : job[u].pc \notin InRun
    PROVE  /\ SigsPast' /\ job'[t].pc = pc /\ job'[t].next = job[t].next /\ job'[t].sig = job[t].sig
           /\ \A u \in Tasks \ {t} : job'[u].pc \notin InRun
           /\ SwitchFits(t)' => SwitchInv'
  <1>1. FailoverType /\ job[t] \in Job
    BY DEF FailoverInv, FailoverType
  <1>2. /\ [job[t] EXCEPT !.pc = pc] \in Job /\ [job[t] EXCEPT !.pc = pc].sig = job[t].sig
        /\ [job[t] EXCEPT !.pc = pc].next = job[t].next /\ [job[t] EXCEPT !.pc = pc].pc = pc
    BY <1>1 DEF Job
  <1>3. job'[t] = [job[t] EXCEPT !.pc = pc] /\ \A u \in Tasks \ {t} : job'[u] = job[u]
    BY <1>1, JobMoved
  <1>4. SigsPast'
    BY <1>2, <1>3 DEF SwitchInv, SigsPast
  <1>5. \A u \in Tasks \ {t} : SwitchFits(u)'
    BY <1>3 DEF SwitchFits, InRun, Answered, Late
  <1> QED BY <1>2, <1>3, <1>4, <1>5 DEF SwitchInv

LEMMA LoadSwitch == ASSUME FailoverInv, SwitchInv, LockInv, LockInv', NEW t \in Tasks, Load(t) PROVE SwitchInv'
  <1>1. FailoverType /\ job[t] \in Job /\ enabled \in SUBSET Members /\ UNCHANGED epoch
    BY DEF FailoverInv, FailoverType, Load, worldVars
  <1>2. PICK j \in Job : j.pc = "look" /\ j.sig = job[t].sig /\ job' = [job EXCEPT ![t] = j]
    <2>1. /\ [job[t] EXCEPT !.pc = "look", !.todo = Members, !.on = enabled] \in Job
          /\ [job[t] EXCEPT !.pc = "look", !.todo = Members, !.on = enabled].pc = "look"
          /\ [job[t] EXCEPT !.pc = "look", !.todo = Members, !.on = enabled].sig = job[t].sig
      BY <1>1 DEF Job, InRun
    <2>2. job' = [job EXCEPT ![t] = [job[t] EXCEPT !.pc = "look", !.todo = Members, !.on = enabled]]
      BY <1>1 DEF Load, Job
    <2> QED BY <2>1, <2>2
  <1>3. job'[t] = j /\ \A u \in Tasks \ {t} : job'[u] = job[u]
    BY <1>1, <1>2, JobSet
  <1>4. inside \subseteq inside' /\ t \in inside'
    BY DEF Load, Proceed, lockVars
  <1>5. \A u \in Tasks \ {t} : job[u].pc \notin InRun
    <2>1. OneHolder'
      BY OneInside, PTL
    <2> QED BY <1>4, <2>1 DEF FailoverInv, RunFits, OneHolder
  <1>6. SigsPast'
    BY <1>1, <1>2, SameSigs DEF SwitchInv, SigsPast
  <1> QED BY <1>2, <1>3, <1>5, <1>6, NoneLate DEF InRun, Answered, Late

LEMMA LookSwitch == ASSUME FailoverInv, SwitchInv, LockInv, NEW t \in Tasks, Look(t) PROVE SwitchInv'
  <1>1. /\ FailoverType /\ job[t] \in Job /\ t \in inside /\ job[t].pc \in InRun
        /\ job[t].todo \in SUBSET Members /\ job[t].todo # {} /\ job[t].sig \in [Members -> Nat]
        /\ UNCHANGED epoch
    BY DEF Look, At, FailoverInv, FailoverType, RunFits, Job, InRun, worldVars
  <1>2. PICK m \in Members : m = First(job[t].todo)
    BY <1>1, FirstFits
  <1>3. PICK v, pc : /\ pc \in {"look", "check"}
                     /\ job' = [job EXCEPT ![t].todo = @ \ {m}, ![t].seen[m] = v, ![t].sig[m] = epoch[m], ![t].pc = pc]
    BY <1>2 DEF Look
  <1>4. /\ job'[t] = [job[t] EXCEPT !.todo = @ \ {m}, !.seen[m] = v, !.sig[m] = epoch[m], !.pc = pc]
        /\ \A u \in Tasks \ {t} : job'[u] = job[u]
    BY <1>1, <1>3 DEF FailoverType
  <1>5. job'[t].pc = pc /\ job'[t].sig = [job[t].sig EXCEPT ![m] = epoch[m]]
    BY <1>1, <1>4 DEF Job
  <1>6. SigsPast'
    <2>1. \A n \in Members : job'[t].sig[n] <= epoch[n]
      BY <1>1, <1>5 DEF SwitchInv, SigsPast, FailoverType
    <2> QED BY <1>1, <1>4, <2>1 DEF SwitchInv, SigsPast
  <1>7. \A u \in Tasks \ {t} : job[u].pc \notin InRun
    BY <1>1, Alone
  <1> QED BY <1>3, <1>4, <1>5, <1>6, <1>7, NoneLate DEF InRun, Answered, Late

LEMMA RunSwitch == ASSUME FailoverInv, SwitchInv, LockInv, LockInv', NEW t \in Tasks, Run(t) PROVE SwitchInv'
  <1>1. CASE Load(t) \/ Look(t)
    BY <1>1, LoadSwitch, LookSwitch
  <1> SUFFICES ASSUME ~Load(t), ~Look(t) PROVE SwitchInv'
    BY <1>1
  <1>2. /\ t \in inside /\ job[t].pc \in InRun /\ FailoverType /\ job[t] \in Job
        /\ UNCHANGED <<epoch, enabled>>
    BY DEF Run, Check, Settle, Publish, Confirm, Compare, Write, Hold, At, InRun, Answered, worldVars,
           FailoverInv, FailoverType
  <1>3. \A u \in Tasks \ {t} : job[u].pc \notin InRun
    BY <1>2, Alone
  <1>4. CASE \E failed \in BOOLEAN : Ends(t, failed)
    BY <1>2, <1>3, <1>4, RunEnds
  <1>5. CASE \E pc \in {"publish", "hold"} : Goes(t, pc)
    <2>1. PICK pc \in {"publish", "hold"} : job' = [job EXCEPT ![t].pc = pc]
      BY <1>5 DEF Goes, To
    <2>2. pc \in InRun
      BY DEF InRun
    <2>3. job'[t].pc = pc
      BY <1>2, <1>3, <2>1, <2>2, RunGoes
    <2>4. SwitchFits(t)'
      BY <2>3 DEF SwitchFits, Late
    <2> QED BY <1>2, <1>3, <2>1, <2>2, <2>4, RunGoes
  <1>6. Fit' = Fit /\ \A m \in Members : Up(m)' = Up(m)
    BY <1>2 DEF Fit, Up
  <1>7. CASE /\ job' = [job EXCEPT ![t].pc = "settle", ![t].next = Choice(job[t]), ![t].seen = Idle.seen]
    <2>1. /\ job'[t] = [job[t] EXCEPT !.pc = "settle", !.next = Choice(job[t]), !.seen = Idle.seen]
          /\ \A u \in Tasks \ {t} : job'[u] = job[u]
      BY <1>2, <1>7 DEF FailoverType
    <2>2. job'[t].pc = "settle" /\ job'[t].sig = job[t].sig
      BY <1>2, <2>1 DEF Job
    <2>3. SigsPast'
      BY <1>2, <2>1, <2>2 DEF SwitchInv, SigsPast
    <2> QED BY <1>3, <2>1, <2>2, <2>3, NoneLate DEF InRun, Answered, Late
  <1>8. CASE Publish(t) /\ To(t, "confirm") /\ fit' = Fit
    <2>1. job' = [job EXCEPT ![t].pc = "confirm"] /\ "confirm" \in InRun
      BY <1>8 DEF To, InRun, Answered
    <2>2. SwitchFits(t)'
      BY <1>2, <1>3, <1>6, <1>8, <2>1, RunGoes DEF SwitchFits, Late
    <2> QED BY <1>2, <1>3, <2>1, <2>2, RunGoes
  <1>9. CASE Confirm(t) /\ Goes(t, "compare") /\ StillTakePart(job[t].next) /\ UNCHANGED queueVars
    <2>1. /\ job' = [job EXCEPT ![t].pc = "compare"] /\ "compare" \in InRun /\ fit' = fit
          /\ job[t].pc = "confirm"
      BY <1>9 DEF To, Goes, InRun, Answered, Confirm, At
    <2>2. job[t].next \in Members /\ job[t].next # None
      BY <2>1, Chose, NoneIsNoMember DEF Answered
    <2>3. job[t].next \in enabled
      BY <1>9, <2>2 DEF StillTakePart, Chosen
    <2>4. Fit \subseteq fit
      BY <2>1 DEF SwitchInv, SwitchFits, Late
    <2>5. job'[t].pc = "compare" /\ job'[t].next = job[t].next /\ job'[t].sig = job[t].sig
      BY <1>2, <1>3, <2>1, RunGoes
    <2>6. SwitchFits(t)'
      BY <1>2, <1>6, <2>1, <2>2, <2>3, <2>4, <2>5 DEF SwitchFits, Late, Fit
    <2> QED BY <1>2, <1>3, <2>1, <2>6, RunGoes
  <1>10. CASE Compare(t) /\ Goes(t, "write") /\ StillLive(job[t], job[t].next) /\ UNCHANGED queueVars
    <2>1. /\ job' = [job EXCEPT ![t].pc = "write"] /\ "write" \in InRun /\ fit' = fit /\ missed' = missed
          /\ job[t].pc = "compare" /\ row' = row
      BY <1>10 DEF To, Goes, InRun, Answered, Compare, At
    <2>2. job[t].next \in Members /\ job[t].next # None
      BY <2>1, Chose, NoneIsNoMember DEF Answered
    <2>3. SwitchFits(t)
      BY DEF SwitchInv
    <2>4. epoch[job[t].next] = job[t].sig[job[t].next] /\ (job[t].next # row.active => Up(job[t].next))
      BY <1>10, <2>2 DEF StillLive, Chosen
    <2>5. job'[t].pc = "write" /\ job'[t].next = job[t].next
      BY <1>2, <1>3, <2>1, RunGoes
    <2>6. Asked => Asked'
      <3>1. \A u \in Tasks \ {t} : job'[u] = job[u]
        BY <1>2, <2>1, JobMoved
      <3> QED BY <1>2, <1>10, <3>1, StillAsked
    <2>7. Fit \subseteq fit
      BY <2>1, <2>3 DEF SwitchFits, Late
    <2>8. SwitchFits(t)'
      BY <1>2, <1>6, <2>1, <2>2, <2>3, <2>4, <2>5, <2>6, <2>7 DEF SwitchFits, Late, Fit
    <2> QED BY <1>2, <1>3, <2>1, <2>8, RunGoes
  <1>11. CASE Check(t)
    <2>1. Returns(t) \/ job' = [job EXCEPT ![t].pc = "settle", ![t].next = Choice(job[t]), ![t].seen = Idle.seen]
      BY <1>11 DEF Check, Again
    <2> QED BY <1>4, <1>7, <2>1 DEF Returns
  <1>12. CASE Settle(t)
    <2>1. Returns(t) \/ Goes(t, "publish") \/ Goes(t, "hold")
      BY <1>12 DEF Settle, Again
    <2> QED BY <1>4, <1>5, <2>1 DEF Returns
  <1>13. CASE Publish(t)
    <2>1. Fails(t) \/ (To(t, "confirm") /\ fit' = Fit)
      BY <1>13 DEF Publish
    <2> QED BY <1>4, <1>8, <1>13, <2>1 DEF Fails
  <1>14. CASE Confirm(t)
    <2>1. Returns(t) \/ (Goes(t, "compare") /\ StillTakePart(job[t].next) /\ UNCHANGED queueVars)
      BY <1>14 DEF Confirm, Again
    <2> QED BY <1>4, <1>9, <1>14, <2>1 DEF Returns
  <1>15. CASE Compare(t)
    <2>1. Returns(t) \/ (Goes(t, "write") /\ StillLive(job[t], job[t].next) /\ UNCHANGED queueVars)
      BY <1>15 DEF Compare, Again
    <2> QED BY <1>4, <1>10, <1>15, <2>1 DEF Returns
  <1>16. CASE Write(t) \/ Hold(t)
    <2>1. Returns(t) \/ Fails(t)
      BY <1>16 DEF Write, Hold
    <2> QED BY <1>4, <2>1 DEF Returns, Fails
  <1> QED BY <1>11, <1>12, <1>13, <1>14, <1>15, <1>16 DEF Run

LEMMA SwitchInvariant == Spec => [](LockInv /\ FailoverInv /\ SwitchInv)
  <1>1. Init => SwitchInv
    <2> SUFFICES ASSUME Init PROVE SwitchInv
      OBVIOUS
    <2>1. \A t \in Tasks : job[t].pc = "idle" /\ \A m \in Members : job[t].sig[m] = 0 /\ epoch[m] = 0
      BY DEF Init, Idle
    <2> QED BY <2>1 DEF SwitchInv, SigsPast, SwitchFits, Late
  <1>2. LockInv /\ LockInv' /\ FailoverInv /\ SwitchInv /\ [Next]_vars => SwitchInv'
    <2> SUFFICES ASSUME LockInv, LockInv', FailoverInv, SwitchInv, [Next]_vars PROVE SwitchInv'
      OBVIOUS
    <2>1. CASE Sweep
      BY <2>1, BeginSwitch, TasksAreThree DEF Sweep
    <2>2. CASE UNCHANGED vars
      <3>1. UNCHANGED <<epoch, enabled, row, fit, job, missed, queueVars>>
        BY <2>2 DEF vars, worldVars, dnsVars
      <3>2. (Asked => Asked') /\ SigsPast'
        BY <3>1 DEF Asked, queueVars, SwitchInv, SigsPast
      <3> QED BY <3>1, <3>2, OutsideFits
    <2> QED BY <2>1, <2>2, WorldSwitch, StepsSwitch, RunSwitch DEF Next
  <1> QED BY <1>1, <1>2, FailoverInvariant, PTL DEF Spec

LEMMA SwitchesToFit ==
    ASSUME FailoverInv, SwitchInv, [Next]_vars, row'.active \notin {row.active, None}
    PROVE  row'.active \in fit /\ (row'.active \in Fit' \/ Asked' \/ missed')
  <1>1. PICK t \in Tasks : Run(t)
    BY DEF Next, vars, dnsVars, World, Steps, Transition, Call, Edit, EditRuns, EditFails, Report, Restart,
           FlushTimer, RetryTimer, FlushBegin, FlushEnd, RecheckFires, Sweep
  <1>2. FailoverType /\ row \in [active : Members \cup {None}, value : Members]
    BY DEF FailoverInv, FailoverType
  <1>3. CASE Load(t) \/ Look(t) \/ Check(t) \/ Publish(t) \/ Confirm(t) \/ Compare(t)
    BY <1>3 DEF Load, Look, Check, Publish, Confirm, Compare, dnsVars
  <1>4. CASE Settle(t)
    <2>1. row' = row \/ \E v : row' = [row EXCEPT !.value = v]
      BY <1>4 DEF Settle
    <2> QED BY <1>2, <2>1
  <1>5. CASE Hold(t)
    <2>1. \/ row' = row \/ row' = [row EXCEPT !.active = None] \/ \E v : row' = [row EXCEPT !.value = v]
      BY <1>5 DEF Hold
    <2> QED BY <1>2, <2>1
  <1>6. CASE Write(t)
    <2>1. /\ row' = row \/ row' = [active |-> job[t].next, value |-> job[t].next]
          /\ job[t].pc = "write" /\ UNCHANGED <<queueVars, worldVars>>
      BY <1>6 DEF Write, At
    <2>2. row'.active = job[t].next /\ job[t].next # row.active
      BY <2>1
    <2>3. job[t].next \in fit /\ (job[t].next \in Fit \/ Asked \/ missed)
      BY <2>1, <2>2 DEF SwitchInv, SwitchFits
    <2>4. \E failed \in BOOLEAN : Ends(t, failed)
      BY <1>6 DEF Write, Returns, Fails
    <2>5. (missed => missed') /\ \A u \in Tasks \ {t} : job'[u] = job[u]
      BY <1>2, <2>4, EndTypes
    <2>6. Asked => Asked'
      BY <2>1, <2>5, StillAsked DEF InRun
    <2>7. Fit' = Fit
      BY <2>1 DEF Fit, Up, worldVars
    <2> QED BY <2>2, <2>3, <2>5, <2>6, <2>7
  <1> QED BY <1>1, <1>3, <1>4, <1>5, <1>6 DEF Run

\* With the provider's call and all the awaits in between, a switch goes to a
\* member that took part and was not silent at one moment since the provider
\* answered; if it is not so any more, the group will be looked at again
\* (failoverAgentSelectionStillCurrent, forwardGroupRepository.ts:4690-4700).
THEOREM FailoverSwitches == Spec => SwitchesSoundly
  <1>1. FailoverInv /\ SwitchInv /\ [Next]_vars =>
          [row'.active \notin {row.active, None} =>
             row'.active \in fit /\ (row'.active \in Fit' \/ Asked' \/ missed')]_vars
    BY SwitchesToFit
  <1> QED BY <1>1, SwitchInvariant, PTL DEF Spec, SwitchesSoundly
=============================================================================
