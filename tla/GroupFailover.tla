--------------------------- MODULE GroupFailover ---------------------------
(***************************************************************************)
(* server/repositories/forwardGroupRepository.ts: the failover of one group*)
(* with templates and a DNS record.  The evaluation queue, the sweep of the*)
(* scheduler and the administrator run it under one keyed lock, while the  *)
(* Agents of the members fall silent, return and report.  A member stands  *)
(* for its address.  Left out: quotas, China health, disabled DDNS, groups *)
(* of other modes, samples of Agents that do not decide, and their expiry. *)
(***************************************************************************)
EXTENDS Naturals, Sequences, FiniteSets, KeyedLock, EvaluationQueue

CONSTANTS
    Group,                      \* the group of this module, of Groups and Keys
    Order,                      \* its members by priority
    Flusher, Sweeper, Admin,    \* Tasks: who runs the failover
    AutoFailback,
    MaxEvents                   \* bound: changes, faults and calls together

Members == {Order[i] : i \in DOMAIN Order}

ASSUME TasksAreThree == /\ Tasks = {Flusher, Sweeper, Admin}
                        /\ Flusher # Sweeper /\ Flusher # Admin /\ Sweeper # Admin
ASSUME GroupIsKey == Group \in Groups /\ Keys = {Group}
ASSUME NoneIsNoMember == None \notin Members
ASSUME OrderAssumption == /\ Order \in Seq(Members) \ {<<>>}
                          /\ \A i, j \in DOMAIN Order : Order[i] = Order[j] => i = j
ASSUME FailbackAssumption == AutoFailback \in BOOLEAN

Reports == {"good", "bad"}

VARIABLES
    epoch,      \* member -> liveness transitions so far; odd: confirmed offline
    sample,     \* member -> its last sample, "stale" after a silence
    enabled,    \* the members that take part
    window,     \* member -> failureSince of its row, with its age
    row,        \* the group's row: activeMemberId and lastDdnsValue
    provider,   \* what the DNS provider publishes
    reconciled, \* exactDdnsReconciledGroups
    recheck,    \* a health recheck is scheduled
    job,        \* task -> its run of the failover
    unsure,     \* history: an update may have reached the provider unrecorded
    missed,     \* history: something happened that no event announces
    fit,        \* history: the members that took part and were up since the
                \* provider answered the run under way
    left        \* what is left of the bound

worldVars == <<epoch, sample, enabled>>
dnsVars == <<row, provider, reconciled>>
vars == <<lockVars, queueVars, worldVars, window, dnsVars, recheck, job, unsure, missed, fit, left>>

Up(m) == epoch[m] % 2 = 0

Rank(m) == CHOOSE i \in DOMAIN Order : Order[i] = m
First(S) == IF S = {} THEN None ELSE CHOOSE m \in S : \A n \in S : Rank(m) <= Rank(n)

Windows == {"none", "failing", "failed"}
Verdicts == Windows \cup {"healthy"}
Idle == [pc |-> "idle", todo |-> {}, on |-> {}, seen |-> [m \in Members |-> "none"],
         sig |-> [m \in Members |-> 0], next |-> None, force |-> FALSE, failed |-> FALSE]

\* A group at rest on its first member.
Init ==
    /\ LockInit /\ QueueInit
    /\ epoch = [m \in Members |-> 0]
    /\ sample = [m \in Members |-> "good"]
    /\ enabled = Members
    /\ window = [m \in Members |-> "none"]
    /\ row = [active |-> Order[1], value |-> Order[1]]
    /\ provider = Order[1] /\ reconciled = Order[1]
    /\ recheck = FALSE
    /\ job = [t \in Tasks |-> Idle]
    /\ unsure = FALSE /\ missed = FALSE /\ fit = {}
    /\ left = MaxEvents

Spend == left > 0 /\ left' = left - 1

-----------------------------------------------------------------------------
(* The world. *)

Fit == {m \in enabled : Up(m)}

Publishing == \E t \in Tasks : job[t].pc \in {"confirm", "compare", "write"}

Remember == fit' = IF Publishing THEN fit \cup Fit' ELSE fit

\* A silence or a return of a member's Agent; the transition's handler
\* schedules the group (scheduleForwardGroupsForHostHealthChange) if the
\* member takes part in it.
Transition(m) ==
    /\ Spend
    /\ epoch' = [epoch EXCEPT ![m] = @ + 1]
    /\ sample' = IF Up(m) THEN [sample EXCEPT ![m] = "stale"] ELSE sample
    /\ IF m \in enabled THEN Enqueue({Group}) ELSE UNCHANGED queueVars
    /\ UNCHANGED <<lockVars, enabled, window, dnsVars, recheck, job, unsure, missed>>
    /\ Remember

\* Only a report that differs from the one accepted before schedules the
\* group; the first after a silence may equal the last before it.
Report(m, s) ==
    /\ Up(m) /\ s # sample[m]
    /\ IF sample[m] = "stale" THEN UNCHANGED left ELSE Spend
    /\ sample' = [sample EXCEPT ![m] = s]
    /\ \/ Enqueue({Group}) /\ UNCHANGED missed
       \/ sample[m] = "stale" /\ missed' = TRUE /\ UNCHANGED queueVars
    /\ UNCHANGED <<lockVars, epoch, enabled, window, dnsVars, recheck, job, unsure, fit>>

-----------------------------------------------------------------------------
(* Who asks for a run. *)

Begin(t, from, force) ==
    /\ job[t].pc = from
    /\ job' = [job EXCEPT ![t].pc = "load", ![t].force = force]
    /\ Enter(t, Group)

FlushTimer ==
    /\ Flush
    /\ UNCHANGED <<lockVars, worldVars, window, dnsVars, recheck, job, unsure, missed, fit, left>>

RetryTimer ==
    /\ \E g \in Groups : RetryFires(g)
    /\ UNCHANGED <<lockVars, worldVars, window, dnsVars, recheck, job, unsure, missed, fit, left>>

FlushBegin ==
    /\ Group \in batch /\ Begin(Flusher, "idle", FALSE)
    /\ UNCHANGED <<queueVars, worldVars, window, dnsVars, recheck, unsure, missed, fit, left>>

\* The other groups of the batch end as they may.
FlushEnd ==
    /\ job[Flusher].pc = "done" \/ (batch # {} /\ Group \notin batch)
    /\ \E others \in SUBSET (batch \ {Group}) :
          Evaluated(others \cup (IF job[Flusher].failed THEN {Group} ELSE {}))
    /\ job' = [job EXCEPT ![Flusher] = Idle]
    /\ UNCHANGED <<lockVars, worldVars, window, dnsVars, recheck, unsure, missed, fit, left>>

\* Bound: a sweep that has nothing to recover is left out.
Sweep ==
    /\ missed /\ Begin(Sweeper, "idle", FALSE)
    /\ UNCHANGED <<queueVars, worldVars, window, dnsVars, recheck, unsure, missed, fit, left>>

\* A synchronisation by hand.
Call ==
    /\ Spend /\ Begin(Admin, "idle", TRUE)
    /\ UNCHANGED <<queueVars, worldVars, window, dnsVars, recheck, unsure, missed, fit>>

\* An edit that switches a member on or off: the members are written without
\* the lock of the failover, ...
Edit(m) ==
    /\ Spend
    /\ job[Admin].pc = "idle" /\ job' = [job EXCEPT ![Admin].pc = "edited"]
    /\ enabled' = IF m \in enabled THEN enabled \ {m} ELSE enabled \cup {m}
    /\ UNCHANGED <<lockVars, queueVars, epoch, sample, window, dnsVars, recheck, unsure, missed>>
    /\ Remember

\* ... the run comes some awaits later, one of which may fail.
EditRuns ==
    /\ Begin(Admin, "edited", TRUE)
    /\ UNCHANGED <<queueVars, worldVars, window, dnsVars, recheck, unsure, missed, fit, left>>

EditFails ==
    /\ Spend
    /\ job[Admin].pc = "edited" /\ job' = [job EXCEPT ![Admin] = Idle]
    /\ missed' = TRUE
    /\ UNCHANGED <<lockVars, queueVars, worldVars, window, dnsVars, recheck, unsure, fit>>

Running == {m \in Members : window[m] = "failing"}

\* The deadline of a window: its recheck schedules the group.
RecheckFires ==
    /\ recheck /\ recheck' = FALSE
    /\ \E m \in Members :
          /\ Running # {} => m \in Running
          /\ window' = [window EXCEPT ![m] = IF @ = "failing" THEN "failed" ELSE @]
    /\ Enqueue({Group})
    /\ UNCHANGED <<lockVars, worldVars, dnsVars, job, unsure, missed, fit, left>>

-----------------------------------------------------------------------------
(* A run, inside the lock. *)

At(t, pc) == t \in inside /\ job[t].pc = pc

To(t, pc) == job' = [job EXCEPT ![t].pc = pc] /\ UNCHANGED lockVars

\* The run is over and its lock released; an error is thrown to whoever
\* asked, and only the queue tries again by itself.
Ends(t, failed) ==
    /\ Leave(t)
    /\ job' = [job EXCEPT ![t] = IF t = Flusher THEN [Idle EXCEPT !.pc = "done", !.failed = failed] ELSE Idle]
    /\ missed' = (missed \/ (failed /\ t # Flusher))
    /\ fit' = {}

Returns(t) == Ends(t, FALSE) /\ UNCHANGED left
Fails(t) == Ends(t, TRUE) /\ Spend
Goes(t, pc) == To(t, pc) /\ UNCHANGED <<missed, fit, left>>

\* The group and its members are read once, under the lock.
Load(t) ==
    /\ job[t].pc = "load"
    /\ Proceed(t) \/ (t \in inside /\ UNCHANGED lockVars)
    /\ job' = [job EXCEPT ![t].pc = "look", ![t].todo = Members, ![t].on = enabled]
    /\ missed' = FALSE
    /\ UNCHANGED <<queueVars, worldVars, window, dnsVars, recheck, unsure, fit, left>>

\* What evaluateMemberHealth finds; a disabled or silent member fails.
Finds(m, on) == CASE m \notin on -> "off" [] m \in on /\ ~Up(m) -> "silent" [] OTHER -> sample[m]

\* Mutant: a failure window starts anew at every evaluation.
MutantNextWindows(m, found) == IF found \in {"good", "stale"} THEN {"none"} ELSE {"failing"}

\* failureSince after the finding: a window goes on while the member fails,
\* and may have run out meanwhile; that of a silent member begins with what
\* was last seen of it.
NextWindows(m, found) ==
    IF found \in {"good", "stale"} THEN {"none"}
    ELSE IF window[m] = "failed" THEN {"failed"}
    ELSE IF window[m] = "none" /\ found # "silent" THEN {"failing"} ELSE {"failing", "failed"}

\* An Agent's own decision needs no window: healthy and recoveredLongEnough,
\* or failedLongEnough.
Verdict(found, w) == CASE found = "good" -> "healthy" [] found = "bad" -> "failed" [] OTHER -> w

Look(t) ==
    /\ At(t, "look")
    /\ LET m == First(job[t].todo)
           found == Finds(m, job[t].on)
       IN  \E w \in NextWindows(m, found) :
             /\ window' = [window EXCEPT ![m] = w]
             /\ job' = [job EXCEPT ![t].todo = @ \ {m},
                                   ![t].seen[m] = Verdict(found, w),
                                   ![t].sig[m] = epoch[m],
                                   ![t].pc = IF job[t].todo = {m} THEN "check" ELSE "look"]
    /\ UNCHANGED <<lockVars, queueVars, worldVars, dnsVars, recheck, unsure, missed, fit, left>>

Seen(j, verdicts) == {m \in Members : j.seen[m] \in verdicts}
Healthy(j) == Seen(j, {"healthy"})

\* Undecided members: the record stays as it is.
Waits(j) ==
    \/ row.active \in Seen(j, {"none"}) /\ row.value # None
    \/ row.active = None /\ Healthy(j) = {} /\ Seen(j, {"none"}) # {}

FailsBack(j) == /\ AutoFailback /\ row.active # None /\ Healthy(j) # {}
                /\ Rank(First(Healthy(j))) < Rank(row.active)

FailsOver(j) == row.active = None \/ row.active \in Seen(j, {"failed"})

Choice(j) == IF j.force \/ FailsBack(j) \/ FailsOver(j) THEN First(Healthy(j)) ELSE row.active

Chosen(next) == {row.active, next} \ {None}

\* failoverAgentSelectionStillCurrent, first the members, ...
StillTakePart(next) == Chosen(next) \subseteq enabled

\* Mutant: the liveness signatures are not compared.
MutantStillLive(j, next) == TRUE

\* ... then, some awaits later, the liveness of each.
StillLive(j, next) ==
    /\ \A m \in Chosen(next) : epoch[m] = j.sig[m]
    /\ next \notin {None, row.active} => Up(next)

\* forwardGroupDdnsFallbackValue
Fallback(j) == IF row.value # None THEN row.value ELSE First(j.on)

\* Mutant: the row alone decides.
MutantCurrent(j, next) == ~j.force /\ row.active = next /\ row.value = next

Current(j, next) == ~j.force /\ row.active = next /\ row.value = next /\ reconciled = next

Again(t) == Enqueue({Group}) /\ Returns(t)

\* The decision, and the members of the first beforeCommit.
Check(t) ==
    /\ At(t, "check")
    /\ recheck' = (Seen(job[t], {"failing"}) # {})
    /\ LET j == job[t]
           next == Choice(j)
       IN  \/ Waits(j) /\ Returns(t) /\ UNCHANGED queueVars
           \/ ~Waits(j) /\ ~StillTakePart(next) /\ Again(t)
           \/ /\ ~Waits(j) /\ StillTakePart(next)
              /\ job' = [job EXCEPT ![t].pc = "settle", ![t].next = next, ![t].seen = Idle.seen]
              /\ UNCHANGED <<lockVars, queueVars, missed, fit, left>>
    /\ UNCHANGED <<worldVars, window, dnsVars, unsure>>

\* The liveness of the first beforeCommit, and what follows from it.
Settle(t) ==
    /\ At(t, "settle")
    /\ LET j == job[t]
           next == j.next
           kept == Fallback(j)
       IN  \/ ~StillLive(j, next) /\ Again(t) /\ UNCHANGED row
           \/ /\ StillLive(j, next)
              /\ UNCHANGED queueVars
              /\ \/ next # None /\ Current(j, next) /\ Returns(t) /\ UNCHANGED row
                 \/ next # None /\ ~Current(j, next) /\ Goes(t, "publish") /\ UNCHANGED row
                 \/ next = None /\ kept # None /\ (j.force \/ reconciled # kept) /\ Goes(t, "hold") /\ UNCHANGED row
                 \/ /\ next = None /\ (kept = None \/ (~j.force /\ reconciled = kept))
                    /\ row' = [row EXCEPT !.value = kept] /\ Returns(t)
    /\ UNCHANGED <<worldVars, window, provider, reconciled, recheck, unsure>>

Publish(t) ==
    /\ At(t, "publish")
    /\ \/ /\ provider' = job[t].next /\ unsure' = FALSE /\ fit' = Fit
          /\ To(t, "confirm") /\ UNCHANGED <<missed, left>>
       \/ provider' = provider /\ Fails(t) /\ UNCHANGED unsure
       \/ provider' = job[t].next /\ unsure' = TRUE /\ Fails(t)
    /\ UNCHANGED <<queueVars, worldVars, window, row, reconciled, recheck>>

\* The second beforeCommit: the members, ...
Confirm(t) ==
    /\ At(t, "confirm")
    /\ \/ ~StillTakePart(job[t].next) /\ Again(t) /\ unsure' = TRUE
       \/ StillTakePart(job[t].next) /\ Goes(t, "compare") /\ UNCHANGED <<queueVars, unsure>>
    /\ UNCHANGED <<worldVars, window, dnsVars, recheck>>

\* ... the liveness, and the memory.
Compare(t) ==
    /\ At(t, "compare")
    /\ LET j == job[t]
       IN  \/ ~StillLive(j, j.next) /\ Again(t) /\ unsure' = TRUE /\ UNCHANGED reconciled
           \/ /\ StillLive(j, j.next) /\ reconciled' = j.next /\ Goes(t, "write")
              /\ UNCHANGED <<queueVars, unsure>>
    /\ UNCHANGED <<worldVars, window, row, provider, recheck>>

\* The row, then the event of the switch; either may fail.
Write(t) ==
    /\ At(t, "write")
    /\ LET written == [active |-> job[t].next, value |-> job[t].next]
       IN  \/ row' = written /\ Returns(t)
           \/ row' \in {row, written} /\ Fails(t)
    /\ UNCHANGED <<queueVars, worldVars, window, provider, reconciled, recheck, unsure>>

\* preserveForwardGroupDdns: nobody can serve, the record keeps one value;
\* a failure forgets the active member.
Hold(t) ==
    /\ At(t, "hold")
    /\ LET kept == Fallback(job[t])
       IN  \/ /\ provider' = kept /\ reconciled' = kept /\ unsure' = FALSE
              /\ \/ row' = [row EXCEPT !.value = kept] /\ Returns(t)
                 \/ row' = [row EXCEPT !.active = None] /\ Fails(t)
           \/ /\ provider' \in {provider, kept} /\ unsure' = (unsure \/ provider' # provider)
              /\ row' = [row EXCEPT !.active = None]
              /\ Fails(t) /\ UNCHANGED reconciled
    /\ UNCHANGED <<queueVars, worldVars, window, recheck>>

\* The panel restarts: what it holds in memory is lost, the silences too: a
\* silent host is registered anew with a new deadline (registerHost).  That
\* a sample from before its silence may count again is a report here.
Restart ==
    /\ Spend
    /\ pendingTasks' = [k \in Keys |-> None] /\ previous' = [t \in Tasks |-> None]
    /\ at' = [t \in Tasks |-> None] /\ inside' = {} /\ ahead' = [t \in Tasks |-> {}]
    /\ pending' = {} /\ armed' = FALSE /\ batch' = {} /\ retry' = {}
    /\ job' = [t \in Tasks |-> Idle]
    /\ epoch' = [m \in Members |-> 0]
    /\ reconciled' = None /\ unsure' = FALSE
    /\ recheck' = FALSE /\ missed' = TRUE /\ fit' = {}
    /\ UNCHANGED <<sample, enabled, window, row, provider>>

-----------------------------------------------------------------------------
Run(t) == \/ Load(t) \/ Look(t) \/ Check(t) \/ Settle(t) \/ Publish(t)
          \/ Confirm(t) \/ Compare(t) \/ Write(t) \/ Hold(t)

Steps == FlushTimer \/ RetryTimer \/ FlushBegin \/ FlushEnd \/ RecheckFires \/ EditRuns

World ==
    \/ \E m \in Members : Transition(m) \/ Edit(m) \/ \E s \in Reports : Report(m, s)
    \/ Call \/ EditFails \/ Restart

Next == World \/ Steps \/ Sweep \/ \E t \in Tasks : Run(t)

Spec == Init /\ [][Next]_vars

Fairness ==
    /\ WF_vars(FlushTimer) /\ WF_vars(RetryTimer) /\ WF_vars(FlushBegin)
    /\ WF_vars(FlushEnd) /\ WF_vars(RecheckFires) /\ WF_vars(Sweep) /\ WF_vars(EditRuns)
    /\ \A t \in Tasks : WF_vars(Run(t))

FairSpec == Spec /\ Fairness

-----------------------------------------------------------------------------
TypeOK ==
    /\ LockType /\ QueueType
    /\ epoch \in [Members -> 0..MaxEvents]
    /\ sample \in [Members -> Reports \cup {"stale"}]
    /\ enabled \in SUBSET Members
    /\ window \in [Members -> Windows]
    /\ row \in [active : Members \cup {None}, value : Members \cup {None}]
    /\ provider \in Members \cup {None} /\ reconciled \in Members \cup {None}
    /\ recheck \in BOOLEAN /\ unsure \in BOOLEAN /\ missed \in BOOLEAN /\ fit \in SUBSET Members
    /\ \A t \in Tasks :
          /\ job[t].seen \in [Members -> Verdicts] /\ job[t].next \in Members \cup {None}
          /\ job[t].pc \notin {"idle", "edited", "load", "done"} => inside = {t}

Serving(m) == m \in enabled /\ Up(m) /\ sample[m] = "good"
Undecided(m) == m \in enabled /\ Up(m) /\ sample[m] = "stale"

Best(m) == /\ Serving(m)
           /\ \A n \in Members : Serving(n) => Rank(m) <= Rank(n)
           /\ \A n \in Members : ~Undecided(n)

ActiveTakesPart == row.active \in enabled \cup {None}

Quiet == /\ \A t \in Tasks : job[t].pc = "idle"
         /\ pending = {} /\ batch = {} /\ retry = {} /\ ~recheck

\* "This sweep is only a recovery path for missed events or a panel restart"
\* (scheduler.ts:733-734): when everything has come to rest and nothing
\* unannounced happened since the last run read the group, a group that
\* fails back is on its best member without the sweep's help.
NothingForgotten ==
    AutoFailback /\ Quiet /\ ~missed => \A m \in Members : Best(m) => row.active = m

\* What the row says is published is published, and what the memory takes
\* for published is: through lost answers, failing writes, abandoned runs
\* and restarts, but for an update that nobody recorded (unsure).
RecordAgrees ==
    /\ ~unsure /\ (\A t \in Tasks : job[t].pc \notin {"confirm", "compare"}) => reconciled \in {None, provider}
    /\ ~unsure /\ ~missed /\ Quiet /\ (\A m \in Members : ~Undecided(m)) => row.value = provider

\* A run that will read the group anew is certain.
Asked ==
    \/ Group \in pending
    \/ Group \in batch /\ job[Flusher].pc = "idle"
    \/ \E t \in Tasks : job[t].pc \in {"edited", "load"}

\* Between the evaluation and the row lie the provider's call and several
\* awaits: the group switches only to a member that has taken part and was
\* not silent at one moment since the provider answered.  If it has fallen
\* silent or was switched off between that moment and the row, somebody will
\* look at the group again.
SwitchesSoundly ==
    [][row'.active \notin {row.active, None} =>
         /\ row'.active \in fit
         /\ row'.active \in Fit' \/ Asked' \/ missed']_vars

\* However runs, transitions and faults interleave, the group settles on the
\* best member once the members do, and its record with it.
SettlesOnBest ==
    \A m \in Members : <>[](Best(m) /\ ActiveTakesPart) => <>[](row.active = m /\ (unsure \/ provider = m))

\* The panel says of the switch of a member (ForwardGroups.tsx:2588):
\* switched off, "the member takes no part in the group's switching".  The
\* code does not keep this when the member is the active one.
DisabledIsLeft == \A m \in Members : <>[]Best(m) => <>[](row.active = m)
=============================================================================
