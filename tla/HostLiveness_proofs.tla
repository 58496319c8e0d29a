------------------------ MODULE HostLiveness_proofs -------------------------
(***************************************************************************)
(* The host uses the keyed lock and the recovery coordinator by their own  *)
(* steps only: what is proved of them holds of the host, for any number of *)
(* transitions, changes and faults.  Its messages keep their order.        *)
(***************************************************************************)
EXTENDS HostLiveness, KeyedLock_proofs

-----------------------------------------------------------------------------
(* The recoveries of a host for any number of callers.                     *)

\* The call that runs is the one in flight, which all waiters await.
RunsInFlight == \A w \in Callers : call[w].pc = "runs" <=> inFlight = w

AwaitsInFlight == \A w \in Callers :
    IF call[w].pc = "waits" THEN call[w].on = inFlight /\ inFlight # Nobody ELSE call[w].on = Nobody

\* What has succeeded for a call is at least what the cooldown remembers.
SinceKept == \A w \in Callers : call[w].pc # "idle" => call[w].since >= success

RecoveryInv == RecoveryType /\ RunsInFlight /\ AwaitsInFlight /\ SinceKept /\ CoalescedIsCovered

Pcs == {"idle", "waits", "woken", "runs", "recovered", "coalesced", "failed"}

Call == [pc : Pcs, strength : Strengths, force : BOOLEAN, on : Callers \cup {Nobody},
         since : Strengths \cup {Never}]

\* What the invariant says of one caller.
Fits(w) ==
    /\ call[w] \in Call
    /\ call[w].pc = "runs" <=> inFlight = w
    /\ IF call[w].pc = "waits" THEN call[w].on = inFlight /\ inFlight # Nobody ELSE call[w].on = Nobody
    /\ call[w].pc # "idle" => call[w].since >= success
    /\ call[w].pc = "coalesced" => call[w].since >= call[w].strength

Shared ==
    /\ inFlight \in Callers \cup {Nobody}
    /\ success \in Strengths \cup {Never}
    /\ call = [w \in Callers |-> call[w]]

LEMMA InvParts == RecoveryInv <=> Shared /\ \A w \in Callers : Fits(w)
  BY DEF RecoveryInv, RecoveryType, RunsInFlight, AwaitsInFlight, SinceKept, CoalescedIsCovered,
         Fits, Shared, Call, Pcs

LEMMA InvPartsNext == RecoveryInv' <=> Shared' /\ \A w \in Callers : Fits(w)'
  BY DEF RecoveryInv, RecoveryType, RunsInFlight, AwaitsInFlight, SinceKept, CoalescedIsCovered,
         Fits, Shared, Call, Pcs

LEMMA InitRecovery == RecoveryInit => RecoveryInv
  BY NobodyIsNoCaller
     DEF RecoveryInit, NoCall, RecoveryInv, RecoveryType, RunsInFlight, AwaitsInFlight, SinceKept,
         CoalescedIsCovered, Strengths, Light, Full, Never

\* run() of a caller that is not running, with a call fit to go on.
LEMMA TriesInv == ASSUME RecoveryInv, NEW who \in Callers, NEW c \in Call, Tries(who, c),
                         call[who].pc \in {"idle", "woken"}, c.on = Nobody, c.since >= success
                  PROVE  RecoveryInv'
  <1> USE NobodyIsNoCaller
  <1>1. Shared /\ \A w \in Callers : Fits(w)
    BY InvParts
  <1>2. Shared'
    BY <1>1 DEF Shared, Tries
  <1>3. ASSUME NEW w \in Callers, w # who PROVE Fits(w)'
    <2>1. call'[w] = call[w] /\ success' = success /\ (inFlight' = w <=> inFlight = w)
      BY <1>1, <1>3 DEF Shared, Tries
    <2>2. inFlight # Nobody => inFlight' = inFlight
      BY <1>1 DEF Shared, Tries
    <2> QED BY <1>1, <2>1, <2>2 DEF Fits
  <1>4. Fits(who)'
    <2>1. inFlight # who
      BY <1>1 DEF Fits
    <2>2. CASE inFlight # Nobody
      <3>1. call'[who] = [c EXCEPT !.pc = "waits", !.on = inFlight] /\ inFlight' = inFlight /\ success' = success
        BY <1>1, <2>2 DEF Shared, Tries
      <3> QED BY <1>1, <2>1, <2>2, <3>1 DEF Shared, Fits, Call, Pcs
    <2>3. CASE inFlight = Nobody /\ Answered(c)
      <3>1. call'[who] = [c EXCEPT !.pc = "coalesced", !.on = Nobody] /\ inFlight' = inFlight /\ success' = success
        BY <1>1, <2>3 DEF Shared, Tries
      <3>2. c.since >= c.strength
        BY <1>1, <2>3 DEF Shared, Answered, Call, Strengths, Light, Full, Never
      <3> QED BY <1>1, <2>1, <2>3, <3>1, <3>2 DEF Fits, Call, Pcs
    <2>4. CASE inFlight = Nobody /\ ~Answered(c)
      <3>1. call'[who] = [c EXCEPT !.pc = "runs", !.on = Nobody] /\ inFlight' = who /\ success' = success
        BY <1>1, <2>4 DEF Shared, Tries
      <3> QED BY <3>1 DEF Fits, Call, Pcs
    <2> QED BY <2>2, <2>3, <2>4
  <1> QED BY <1>2, <1>3, <1>4, InvPartsNext

LEMMA AskInv == ASSUME RecoveryInv, NEW who \in Callers, NEW s \in Strengths, NEW force \in BOOLEAN,
                       Ask(who, s, force)
                PROVE  RecoveryInv'
  <1> DEFINE c == [NoCall EXCEPT !.strength = s, !.force = force, !.since = success]
  <1>1. success \in Strengths \cup {Never}
    BY DEF RecoveryInv, RecoveryType
  <1>2. c \in Call /\ c.on = Nobody /\ c.since = success
    BY <1>1 DEF NoCall, Call, Pcs
  <1>3. c.since >= success
    BY <1>1, <1>2 DEF Strengths, Light, Full, Never
  <1>4. Tries(who, c) /\ call[who].pc = "idle"
    BY DEF Ask
  <1> HIDE DEF c
  <1> QED BY <1>2, <1>3, <1>4, TriesInv

LEMMA ResumeInv == ASSUME RecoveryInv, NEW who \in Callers, Resume(who)
                   PROVE  RecoveryInv'
  <1>1. call[who] \in Call /\ call[who].on = Nobody /\ call[who].since >= success /\ call[who].pc = "woken"
    BY InvParts DEF Fits, Resume
  <1>2. Tries(who, call[who])
    BY DEF Resume
  <1> QED BY <1>1, <1>2, TriesInv

LEMMA SettleInv == ASSUME RecoveryInv, NEW who \in Callers, NEW ok \in BOOLEAN, Settle(who, ok)
                   PROVE  RecoveryInv'
  <1> USE NobodyIsNoCaller
  <1> DEFINE mine == call[who].strength
             pc(w) == IF w = who THEN IF ok THEN "recovered" ELSE "failed"
                      ELSE IF call[w].on # who THEN call[w].pc
                      ELSE IF ok /\ Joins(call[w], mine) THEN "coalesced" ELSE "woken"
             on(w) == IF call[w].on = who THEN Nobody ELSE call[w].on
             since(w) == IF ok /\ call[w].pc # "idle" THEN Stronger(call[w].since, mine) ELSE call[w].since
  <1>1. Shared /\ \A w \in Callers : Fits(w)
    BY InvParts
  <1>2. inFlight = who /\ inFlight' = Nobody /\ success' = (IF ok THEN mine ELSE success)
    BY DEF Settle, Committed
  <1>3. mine \in Strengths
    BY <1>1 DEF Fits, Call
  <1>4. Shared'
    <2>1. call' = [w \in Callers |-> call'[w]]
      BY DEF Settle
    <2> QED BY <1>1, <1>2, <1>3, <2>1 DEF Shared
  <1>5. ASSUME NEW w \in Callers PROVE Fits(w)'
    <2>1. call'[w] = [call[w] EXCEPT !.pc = pc(w), !.on = on(w), !.since = since(w)]
      BY DEF Settle
    <2>2. call[w] \in Call
      BY <1>1 DEF Fits
    <2>3. pc(w) \in Pcs /\ on(w) \in Callers \cup {Nobody}
      BY <2>2 DEF Pcs, Call
    <2>4. since(w) \in Strengths \cup {Never}
      BY <2>2, <1>3 DEF Call, Stronger, Strengths, Light, Full, Never
    <2>5. call'[w] \in Call /\ call'[w].pc = pc(w) /\ call'[w].on = on(w) /\ call'[w].since = since(w)
            /\ call'[w].strength = call[w].strength
      <3> HIDE DEF pc, on, since
      <3> QED BY <2>1, <2>2, <2>3, <2>4 DEF Call
    <2>6. pc(w) # "runs" /\ pc(w) # "waits" /\ on(w) = Nobody
      BY <1>1, <1>2, <2>2 DEF Fits, Call
    <2>7. pc(w) # "idle" => since(w) >= success'
      <3>1. pc(w) # "idle" => call[w].pc # "idle"
        BY <1>1, <1>2 DEF Fits
      <3> QED BY <1>1, <1>2, <1>3, <2>2, <3>1 DEF Fits, Shared, Stronger, Call, Strengths, Light, Full, Never
    <2>8. pc(w) = "coalesced" => since(w) >= call[w].strength
      <3>1. CASE w # who /\ call[w].on = who /\ ok /\ Joins(call[w], mine)
        <4>1. call[w].pc = "waits"
          BY <1>1, <3>1 DEF Fits
        <4> QED BY <1>3, <2>2, <3>1, <4>1 DEF Joins, Stronger, Call, Strengths, Light, Full, Never
      <3>2. CASE w # who /\ call[w].on # who /\ call[w].pc = "coalesced"
        <4>1. call[w].since >= call[w].strength
          BY <1>1, <3>2 DEF Fits
        <4> QED BY <1>3, <2>2, <3>2, <4>1 DEF Stronger, Call, Strengths, Light, Full, Never
      <3> QED BY <3>1, <3>2
    <2> HIDE DEF pc, on, since
    <2> QED BY <1>2, <2>5, <2>6, <2>7, <2>8 DEF Fits
  <1> QED BY <1>4, <1>5, InvPartsNext

LEMMA ReturnInv == ASSUME RecoveryInv, NEW who \in Callers, NEW a \in {"recovered", "coalesced", "failed"},
                          Return(who, a)
                   PROVE  RecoveryInv'
  <1> USE NobodyIsNoCaller
  <1>1. Shared /\ \A w \in Callers : Fits(w)
    BY InvParts
  <1>2. Shared'
    BY <1>1 DEF Shared, Return
  <1>3. ASSUME NEW w \in Callers PROVE Fits(w)'
    <2>1. call'[w] = IF w = who THEN NoCall ELSE call[w]
      BY <1>1 DEF Shared, Return
    <2> QED BY <1>1, <2>1 DEF Fits, Return, NoCall, Call, Pcs, Strengths, Light, Full, Never
  <1> QED BY <1>2, <1>3, InvPartsNext

LEMMA CoolsDownInv == RecoveryInv /\ CoolsDown => RecoveryInv'
  BY DEF RecoveryInv, RecoveryType, RunsInFlight, AwaitsInFlight, SinceKept, CoalescedIsCovered, CoolsDown,
         Strengths, Light, Full, Never

LEMMA StepRecovery == RecoveryInv /\ [RecoveryNext]_recoveryVars => RecoveryInv'
  <1> SUFFICES ASSUME RecoveryInv, [RecoveryNext]_recoveryVars PROVE RecoveryInv'
    OBVIOUS
  <1>1. CASE \E who \in Callers, s \in Strengths, force \in BOOLEAN : Ask(who, s, force)
    BY <1>1, AskInv
  <1>2. CASE \E who \in Callers, ok \in BOOLEAN : Settle(who, ok)
    BY <1>2, SettleInv
  <1>3. CASE \E who \in Callers : Resume(who)
    BY <1>3, ResumeInv
  <1>4. CASE \E who \in Callers : \E a \in {"recovered", "coalesced", "failed"} : Return(who, a)
    BY <1>4, ReturnInv
  <1>5. CASE CoolsDown
    BY <1>5, CoolsDownInv
  <1>6. CASE UNCHANGED recoveryVars
    BY <1>6 DEF recoveryVars, RecoveryInv, RecoveryType, RunsInFlight, AwaitsInFlight, SinceKept, CoalescedIsCovered
  <1> QED BY <1>1, <1>2, <1>3, <1>4, <1>5, <1>6 DEF RecoveryNext

\* The coordinator keeps its invariant (agentRuntimeRecovery.ts:61-119).
THEOREM RecoveryInvariant == RecoverySpec => []RecoveryInv
  BY InitRecovery, StepRecovery, PTL DEF RecoverySpec

\* No two recoveries of a host overlap, for any number of callers
\* (agentRuntimeRecovery.ts:78-97).
THEOREM RecoveriesExclusive == RecoverySpec => []OneRecovery
  <1>1. RecoveryInv => OneRecovery
    BY DEF RecoveryInv, RunsInFlight, OneRecovery
  <1> QED BY <1>1, RecoveryInvariant, PTL

\* A request answered without a task of its own was covered by a success of
\* its strength (agentRuntimeRecovery.ts:80-89, 99-105).
THEOREM CoalescingCovered == RecoverySpec => []CoalescedIsCovered
  <1>1. RecoveryInv => CoalescedIsCovered
    BY DEF RecoveryInv
  <1> QED BY <1>1, RecoveryInvariant, PTL

-----------------------------------------------------------------------------
(* The host.                                                               *)

\* The handlers of transitions leave the recoveries alone.
LEMMA HandleKeepsRecovery == ASSUME NEW e \in Epochs, Handle(e) PROVE UNCHANGED recoveryVars
  BY DEF Handle, Starts, Writes, Wrote, Schedules, Tells, Sends, Restored,
                RestoreReturns, Undone, Notifies, NoticeSent

LEMMA RecoverySteps == [Next]_vars => [RecoveryNext]_recoveryVars
  <1> SUFFICES ASSUME [Next]_vars PROVE [RecoveryNext]_recoveryVars
    OBVIOUS
  <1> USE CallersAreRoutes
  <1>1. CASE Cools
    BY <1>1 DEF Cools, RecoveryNext
  <1>2. CASE Recovery
    <2>1. CASE RecoverySettles
      BY <2>1 DEF RecoverySettles, RecoveryNext
    <2>2. CASE RecoveryResumes
      BY <2>2 DEF RecoveryResumes, RecoveryNext
    <2>3. CASE PresenceRecovered
      BY <2>3 DEF PresenceRecovered, RecoveryNext
    <2>4. CASE HeartbeatRecovered
      BY <2>4 DEF HeartbeatRecovered, RecoveryNext
    <2>5. CASE ReturnSent
      BY <2>5 DEF ReturnSent
    <2> QED BY <1>2, <2>1, <2>2, <2>3, <2>4, <2>5 DEF Recovery
  <1>3. CASE \E r \in Routes : Recovers(r)
    <2>1. Background \in Callers /\ Heartbeat \in Callers /\ Full \in Strengths
      BY DEF Strengths
    <2>2. UNCHANGED recoveryVars \/ Ask(Background, Full, FALSE) \/ \E s \in Strengths : Ask(Heartbeat, s, FALSE)
      BY <1>3 DEF Recovers
    <2> QED BY <2>1, <2>2 DEF RecoveryNext
  <1>4. CASE \E r \in Routes : Request(r) \/ Drops(r) \/ Observes(r) \/ Persists(r) \/ Reports(r)
    BY <1>4 DEF Request, Drops, Observes, Persists, Reports
  <1>5. CASE Change \/ Silence \/ RowAges \/ ActivityAges \/ Wakes \/ NoticeFires \/ Sweep
    BY <1>5 DEF Change, Silence, RowAges, ActivityAges, Wakes, NoticeFires, Sweep, SweepReads, SweepTouches, SweepMarks
  <1>6. CASE UNCHANGED vars
    BY <1>6 DEF vars
  <1> QED BY <1>1, <1>2, <1>3, <1>4, <1>5, <1>6, HandleKeepsRecovery DEF Next, Serve

LEMMA UsesRecovery == Spec => RecoverySpec
  <1>1. Init => RecoveryInit
    BY DEF Init
  <1> QED BY <1>1, RecoverySteps, PTL DEF Spec, RecoverySpec

\* Recoveries of the host never overlap (agentHeartbeatRoute.ts:768-797).
THEOREM HostRecoveriesExclusive == Spec => []OneRecovery
  BY UsesRecovery, RecoveriesExclusive, PTL

\* A route that is told its recovery was coalesced is covered by a success.
THEOREM HostCoalescingCovered == Spec => []CoalescedIsCovered
  BY UsesRecovery, CoalescingCovered, PTL

-----------------------------------------------------------------------------
EpochInBound == epoch \in 0..MaxEpoch

LEMMA TasksOfEpochs == \A e \in Epochs : Handler(e) \in Tasks /\ Notifier(e) \in Tasks
  BY TasksAreTransitions

LEMMA NextEpoch == ASSUME EpochInBound, epoch < MaxEpoch PROVE epoch + 1 \in Epochs
  BY BoundIsNumber DEF EpochInBound, Epochs

LEMMA ObservesInBound == ASSUME EpochInBound, NEW r \in Routes, Observes(r), Confirmed PROVE epoch < MaxEpoch
  BY BoundIsNumber DEF EpochInBound, Observes, AtBound

LEMMA StepEpoch == ASSUME EpochInBound, [Next]_vars
                   PROVE  epoch' = epoch \/ (epoch < MaxEpoch /\ Transits)
  <1>1. CASE Silence
    BY <1>1 DEF Silence
  <1>2. CASE \E r \in Routes : Observes(r)
    BY <1>2, ObservesInBound DEF Observes
  <1>3. CASE \E e \in Epochs : Handle(e)
    BY <1>3 DEF Handle, Starts, Writes, Wrote, Schedules, Tells, Sends, Restored,
                RestoreReturns, Undone, Notifies, NoticeSent
  <1>4. CASE \E r \in Routes : Request(r) \/ Drops(r) \/ Persists(r) \/ Reports(r) \/ Recovers(r)
    BY <1>4 DEF Request, Drops, Persists, Reports, Recovers
  <1>5. CASE Change \/ RowAges \/ ActivityAges \/ Cools \/ Wakes \/ NoticeFires
    BY <1>5 DEF Change, RowAges, ActivityAges, Cools, Wakes, NoticeFires
  <1>6. CASE Recovery \/ Sweep
    BY <1>6 DEF Recovery, RecoverySettles, RecoveryResumes, PresenceRecovered, HeartbeatRecovered, ReturnSent,
                Sweep, SweepReads, SweepTouches, SweepMarks
  <1>7. CASE UNCHANGED vars
    BY <1>7 DEF vars
  <1> QED BY <1>1, <1>2, <1>3, <1>4, <1>5, <1>6, <1>7 DEF Next, Serve

LEMMA EpochStays == EpochInBound /\ [Next]_vars => EpochInBound'
  BY StepEpoch, BoundIsNumber DEF EpochInBound, Transits

LEMMA EpochAlwaysInBound == Spec => []EpochInBound
  <1>1. Init => EpochInBound
    BY BoundIsNumber DEF Init, EpochInBound
  <1> QED BY <1>1, EpochStays, PTL DEF Spec

\* Every step enters, wakes or leaves by the lock's own actions.
Moves ==
    \/ UNCHANGED lockVars
    \/ epoch + 1 \in Epochs /\ epoch' = epoch + 1 /\ Enter(Handler(epoch + 1), Host)
    \/ notice = epoch /\ notice \in Epochs /\ Enter(Notifier(notice), Host)
    \/ \E t \in Tasks : Proceed(t) \/ Leave(t)

LEMMA LockMoves == ASSUME EpochInBound, [Next]_vars PROVE Moves
  <1>1. CASE Silence
    BY <1>1, NextEpoch DEF Silence, Transits, Moves
  <1>2. CASE \E r \in Routes : Observes(r)
    BY <1>2, ObservesInBound, NextEpoch DEF Observes, Transits, Moves
  <1>3. ASSUME NEW e \in Epochs, Handle(e) PROVE Moves
    <2>1. UNCHANGED lockVars \/ Leave(Handler(e)) \/ Leave(Notifier(e))
      BY <1>3 DEF Handle, Starts, Writes, Wrote, Schedules, Tells, Sends, Restored,
                RestoreReturns, Undone, Notifies, NoticeSent,
                  To, Ends, Throws, Superseded, Restores, Undoes
    <2> QED BY <1>3, <2>1, TasksOfEpochs DEF Moves
  <1>4. CASE \E r \in Routes : Request(r) \/ Drops(r) \/ Persists(r) \/ Reports(r) \/ Recovers(r)
    BY <1>4 DEF Request, Drops, Persists, Reports, Recovers, Moves
  <1>5. CASE Change \/ RowAges \/ ActivityAges \/ Cools
    BY <1>5 DEF Change, RowAges, ActivityAges, Cools, Moves
  <1>6. CASE Wakes
    BY <1>6 DEF Wakes, Moves
  <1>7. CASE NoticeFires
    <2>1. notice # 0 /\ (UNCHANGED lockVars \/ (epoch = notice /\ Enter(Notifier(notice), Host)))
      BY <1>7 DEF NoticeFires, Current, InTurn
    <2>2. epoch # 0 => epoch \in Epochs
      BY BoundIsNumber DEF EpochInBound, Epochs
    <2> QED BY <2>1, <2>2 DEF Moves
  <1>8. CASE Recovery \/ Sweep
    BY <1>8 DEF Recovery, RecoverySettles, RecoveryResumes, PresenceRecovered, HeartbeatRecovered, ReturnSent,
                Sweep, SweepReads, SweepTouches, SweepMarks, Moves
  <1>9. CASE UNCHANGED vars
    BY <1>9 DEF vars, Moves
  <1> QED BY <1>1, <1>2, <1>3, <1>4, <1>5, <1>6, <1>7, <1>8, <1>9 DEF Next, Serve

LEMMA LockSteps == EpochInBound /\ [Next]_vars => [LockNext]_lockVars
  BY LockMoves, HostIsKey, TasksOfEpochs DEF Moves, LockNext

LEMMA UsesLock == Spec => LockSpec
  <1>1. Init => LockInit
    BY DEF Init
  <1> QED BY <1>1, LockSteps, EpochAlwaysInBound, PTL DEF Spec, LockSpec

\* The transitions and notices of the host are served first come, first
\* served, one at a time (hostStatusNotifier.ts:231, 248).
THEOREM HostPromise == Spec => Promise
  BY UsesLock, LockRefinesFifo, PTL

-----------------------------------------------------------------------------
\* The tasks of a transition.
Own(e) == {Handler(e), Notifier(e)}

\* Tasks that wait or run are of transitions that have happened, and no
\* message has been sent of a transition after theirs.
TasksInTime == \A e \in Epochs : \A t \in Own(e) : at[t] # None => e <= epoch /\ told <= e

\* Who waits for another is of no earlier transition.
OlderAhead == \A d, e \in Epochs : \A t \in Own(e), u \in Own(d) : u \in ahead[t] => d <= e

MessageType == told \in 0..epoch /\ notifying \in 0..epoch /\ tails \subseteq Routes

OrderInv == TasksInTime /\ OlderAhead /\ MessageType

LEMMA OwnTasks == \A e \in Epochs : Own(e) \subseteq Tasks
  BY TasksOfEpochs DEF Own

\* A task is of one transition.
LEMMA OneOwner == ASSUME NEW d \in Epochs, NEW e \in Epochs, NEW t \in Own(d), t \in Own(e) PROVE d = e
  BY TasksDiffer DEF Own

\* A message counts as sent when its task leaves the lock.
LEMMA ToldSteps == ASSUME [Next]_vars
                   PROVE  told' = told \/ \E e \in Epochs : \E t \in Own(e) : told' = e /\ Leave(t)
  <1>1. ASSUME NEW e \in Epochs, Handle(e) PROVE told' = told \/ \E t \in Own(e) : told' = e /\ Leave(t)
    <2>1. Handler(e) \in Own(e) /\ Notifier(e) \in Own(e)
      BY DEF Own
    <2>2. CASE Sends(e)
      BY <2>1, <2>2 DEF Sends, Ends
    <2>3. CASE NoticeSent(e)
      BY <2>1, <2>3 DEF NoticeSent
    <2> QED BY <1>1, <2>2, <2>3 DEF Handle, Starts, Writes, Wrote, Schedules, Tells, Restored, RestoreReturns, Undone,
                                    Notifies, statusVars, messageVars
  <1>2. CASE \E r \in Routes : Request(r) \/ Serve(r)
    BY <1>2 DEF Serve, Request, Drops, Observes, Persists, Reports, Recovers, TellsReturned, statusVars, messageVars
  <1>3. CASE Recovery \/ Sweep
    BY <1>3 DEF Recovery, RecoverySettles, RecoveryResumes, PresenceRecovered, HeartbeatRecovered, ReturnSent,
                TellsReturned, Sweep, SweepReads, SweepTouches, SweepMarks, statusVars, messageVars
  <1>4. CASE Change \/ Silence \/ RowAges \/ ActivityAges \/ Cools \/ Wakes \/ NoticeFires
    BY <1>4 DEF Change, Silence, RowAges, ActivityAges, Cools, Wakes, NoticeFires, statusVars, messageVars
  <1>5. CASE UNCHANGED vars
    BY <1>5 DEF vars, statusVars, messageVars
  <1> QED BY <1>1, <1>2, <1>3, <1>4, <1>5 DEF Next

\* Whoever still waits when a task leaves the lock is of no earlier
\* transition.
LEMMA LeaverIsOldest == ASSUME LockInv, OrderInv, NEW d \in Epochs, NEW e \in Epochs, NEW u \in Own(d),
                               NEW t \in Own(e), Leave(u), at'[t] # None
                        PROVE  d <= e
  <1>1. u \in Tasks /\ t \in Tasks
    BY OwnTasks
  <1>2. t # u /\ at[t] # None
    BY <1>1 DEF Leave, LockInv, LockType
  <1>3. at[t] = Host /\ at[u] = Host
    BY <1>1, <1>2, HostIsKey DEF LockInv, LockType, InsideFirst, Leave
  <1>4. u \in ahead[t]
    BY <1>1, <1>2, <1>3, HolderIsFirst DEF Leave
  <1> QED BY <1>4 DEF OrderInv, OlderAhead

LEMMA TasksStayInTime == ASSUME EpochInBound, LockInv, OrderInv, [Next]_vars PROVE TasksInTime'
  <1> SUFFICES ASSUME NEW e \in Epochs, NEW t \in Own(e), at'[t] # None PROVE e <= epoch' /\ told' <= e
    BY DEF TasksInTime, Own
  <1>0. t \in Tasks /\ (at[t] # None => e <= epoch /\ told <= e) /\ told <= epoch /\ e \in Nat /\ epoch \in Nat
    BY OwnTasks, BoundIsNumber DEF OrderInv, TasksInTime, MessageType, EpochInBound, Epochs
  <1>1. epoch' = epoch \/ epoch' = epoch + 1
    BY StepEpoch DEF Transits
  <1>2. CASE told' = told /\ at[t] # None
    BY <1>0, <1>1, <1>2
  <1>3. CASE told' = told /\ at[t] = None
    <2>1. CASE epoch + 1 \in Epochs /\ epoch' = epoch + 1 /\ Enter(Handler(epoch + 1), Host)
      <3>1. t = Handler(epoch + 1) /\ Handler(epoch + 1) \in Own(epoch + 1)
        BY <1>0, <1>3, <2>1 DEF Enter, LockInv, LockType, Own
      <3>2. e = epoch + 1
        BY <2>1, <3>1, OneOwner
      <3> QED BY <1>0, <1>3, <2>1, <3>2 DEF OrderInv, MessageType
    <2>2. CASE notice = epoch /\ notice \in Epochs /\ Enter(Notifier(notice), Host)
      <3>1. t = Notifier(epoch) /\ Notifier(epoch) \in Own(epoch)
        BY <1>0, <1>3, <2>2 DEF Enter, LockInv, LockType, Own
      <3>2. e = epoch
        BY <2>2, <3>1, OneOwner
      <3> QED BY <1>0, <1>1, <1>3, <3>2
    <2>3. CASE UNCHANGED lockVars \/ \E u \in Tasks : Proceed(u) \/ Leave(u)
      BY <1>0, <1>3, <2>3 DEF lockVars, Proceed, Leave, LockInv, LockType
    <2> QED BY <2>1, <2>2, <2>3, LockMoves DEF Moves
  <1>4. ASSUME NEW d \in Epochs, NEW u \in Own(d), told' = d, Leave(u) PROVE e <= epoch' /\ told' <= e
    <2>1. d <= e
      BY <1>4, LeaverIsOldest
    <2>2. at[t] # None
      BY <1>0, <1>4 DEF Leave, LockInv, LockType
    <2> QED BY <1>0, <1>1, <1>4, <2>1, <2>2
  <1> QED BY <1>2, <1>3, <1>4, ToldSteps

LEMMA OlderStayAhead == ASSUME EpochInBound, LockInv, OrderInv, [Next]_vars PROVE OlderAhead'
  <1> SUFFICES ASSUME NEW d \in Epochs, NEW e \in Epochs, NEW t \in Own(e), NEW u \in Own(d), u \in ahead'[t]
               PROVE  d <= e
    BY DEF OlderAhead, Own
  <1>0. t \in Tasks /\ u \in Tasks
    BY OwnTasks
  <1>1. CASE u \in ahead[t]
    BY <1>1 DEF OrderInv, OlderAhead
  <1>2. CASE u \notin ahead[t]
    <2>1. ASSUME NEW c \in Epochs, NEW w \in Own(c), epoch <= c, Enter(w, Host) PROVE d <= e
      <3>1. t = w /\ at[u] = Host /\ at[u] # None
        BY <1>0, <1>2, <2>1, HostIsKey, NoneIsNoKey, OwnTasks DEF Enter, LockInv, LockType
      <3>2. c = e
        BY <3>1, OneOwner
      <3>3. d <= epoch
        BY <3>1 DEF OrderInv, TasksInTime
      <3> QED BY <2>1, <3>2, <3>3, BoundIsNumber DEF EpochInBound, Epochs
    <2>2. CASE epoch + 1 \in Epochs /\ Enter(Handler(epoch + 1), Host)
      BY <2>1, <2>2, BoundIsNumber DEF Own, EpochInBound
    <2>3. CASE notice = epoch /\ notice \in Epochs /\ Enter(Notifier(notice), Host)
      BY <2>1, <2>3, BoundIsNumber DEF Own, EpochInBound
    <2>4. CASE UNCHANGED lockVars \/ \E v \in Tasks : Proceed(v) \/ Leave(v)
      BY <1>0, <1>2, <2>4 DEF lockVars, Proceed, Leave
    <2> QED BY <2>2, <2>3, <2>4, LockMoves DEF Moves
  <1> QED BY <1>1, <1>2

\* A message begins or ends.
LEMMA MessageSteps == ASSUME [Next]_vars
                      PROVE  /\ \/ notifying' \in {0, notifying}
                                \/ \E e \in Epochs : notifying' = e /\ Notifier(e) \in inside
                             /\ tails' \subseteq tails \cup Routes
  <1>1. ASSUME NEW e \in Epochs, Handle(e)
        PROVE  tails' = tails /\ (notifying' \in {0, notifying} \/ (notifying' = e /\ Notifier(e) \in inside))
    BY <1>1 DEF Handle, Starts, Writes, Wrote, Schedules, Tells, Sends, Restored, RestoreReturns, Undone,
                Notifies, NoticeSent, statusVars, messageVars
  <1>2. CASE \E r \in Routes : Request(r) \/ Serve(r)
    BY <1>2 DEF Serve, Request, Drops, Observes, Persists, Reports, Recovers, TellsReturned, statusVars, messageVars
  <1>3. CASE Recovery \/ Sweep
    BY <1>3 DEF Recovery, RecoverySettles, RecoveryResumes, PresenceRecovered, HeartbeatRecovered, ReturnSent,
                TellsReturned, Sweep, SweepReads, SweepTouches, SweepMarks, statusVars, messageVars, Routes
  <1>4. CASE Change \/ Silence \/ RowAges \/ ActivityAges \/ Cools \/ Wakes \/ NoticeFires
    BY <1>4 DEF Change, Silence, RowAges, ActivityAges, Cools, Wakes, NoticeFires, statusVars, messageVars
  <1>5. CASE UNCHANGED vars
    BY <1>5 DEF vars, statusVars, messageVars
  <1> QED BY <1>1, <1>2, <1>3, <1>4, <1>5 DEF Next

LEMMA MessagesStay == ASSUME EpochInBound, LockInv, OrderInv, [Next]_vars PROVE MessageType'
  <1>1. epoch \in Nat /\ (epoch' = epoch \/ epoch' = epoch + 1)
    BY StepEpoch, BoundIsNumber DEF EpochInBound, Transits
  <1>2. ASSUME NEW e \in Epochs, NEW t \in Own(e), t \in inside PROVE e \in 0..epoch
    BY <1>2, BoundIsNumber DEF OrderInv, TasksInTime, LockInv, InsideFirst, Epochs, EpochInBound
  <1>3. told' \in 0..epoch
    BY <1>1, <1>2, ToldSteps DEF OrderInv, MessageType, Leave
  <1>4. notifying' \in 0..epoch
    BY <1>1, <1>2, MessageSteps DEF OrderInv, MessageType, Own
  <1> QED BY <1>1, <1>3, <1>4, MessageSteps DEF OrderInv, MessageType

LEMMA OrderAlways == Spec => []OrderInv
  <1>1. Init => OrderInv
    BY OwnTasks DEF Init, LockInit, OrderInv, TasksInTime, OlderAhead, MessageType
  <1>2. EpochInBound /\ LockInv /\ OrderInv /\ [Next]_vars => OrderInv'
    BY TasksStayInTime, OlderStayAhead, MessagesStay DEF OrderInv
  <1> QED BY <1>1, <1>2, EpochAlwaysInBound, UsesLock, LockInvariant, PTL DEF Spec

\* The messages of transitions are sent in the order of the transitions,
\* whatever is awaited while they are sent (hostStatusNotifier.ts:95-119,
\* 228-248): the task of each holds the lock until its message is sent.
THEOREM MessagesOrdered == Spec => MessagesInOrder
  <1>1. LockInv /\ OrderInv /\ [Next]_vars => [told' >= told]_vars
    <2> SUFFICES ASSUME LockInv, OrderInv, [Next]_vars PROVE told' >= told
      OBVIOUS
    <2>1. ASSUME NEW e \in Epochs, NEW t \in Own(e), told' = e, Leave(t) PROVE told' >= told
      <3>1. at[t] # None
        BY <2>1 DEF Leave, LockInv, InsideFirst
      <3> QED BY <2>1, <3>1 DEF OrderInv, TasksInTime, MessageType, Epochs
    <2> QED BY <2>1, ToldSteps DEF OrderInv, MessageType
  <1> QED BY <1>1, OrderAlways, UsesLock, LockInvariant, PTL DEF Spec, MessagesInOrder
-----------------------------------------------------------------------------
(* The types of the host.  A process the row or a request names is one the *)
(* Agent has had, and an Agent that may still restart has had fewer than   *)
(* the bound.                                                              *)

AgentType ==
    /\ agent \in [up : BOOLEAN, proc : Nat]
    /\ left \in [changes : Nat, faults : Nat]
    /\ agent.proc + left.changes <= MaxChanges

RowType == row \in [online : BOOLEAN, fresh : BOOLEAN, proc : 0..agent.proc]

RouteType == route \in [Routes -> [pc : {"idle", "read", "write", "wrote", "reported", "recovers"}, online : BOOLEAN,
                                   proc : 0..agent.proc, owes : BOOLEAN]]

Stages == {"start", "write", "wrote", "schedule", "tell", "send", "restore", "restored", "undo", "done"}

HandlerType == handler \in [Epochs -> [pc : Stages, attempt : 1..Attempts]]

StatusType == known \in {"online", "offline"} /\ sweep \in {"idle", "touch", "mark"}

AskedInBound == asked \in 0..MaxEpoch

\* A notice under way is that of the last transition, which was to offline.
NoticeOfLast == notice = 0 \/ (notice = epoch /\ Confirmed)

\* No handler has begun whose transition is to come.
NotBegun == \A e \in Epochs : e > epoch => handler[e].pc = "start" /\ at[Handler(e)] = None

HostTypes == AgentType /\ RowType /\ RouteType /\ HandlerType /\ StatusType /\ AskedInBound
HostInv == HostTypes /\ NoticeOfLast /\ NotBegun

\* Who uses up a fault, and who a change.
LEMMA AgentSteps == ASSUME [Next]_vars
                    PROVE  Change \/ (agent' = agent /\ (left' = left \/ Spend("faults")))
  <1>1. CASE \E e \in Epochs : Handle(e)
    BY <1>1 DEF Handle, Starts, Writes, Wrote, Schedules, Tells, Sends, Restored,
                RestoreReturns, Undone, Notifies, NoticeSent, Throws
  <1>2. CASE \E r \in Routes : Request(r) \/ Serve(r)
    BY <1>2 DEF Serve, Request, Drops, Observes, Persists, Reports, Recovers
  <1>3. CASE Recovery \/ Sweep
    BY <1>3 DEF Recovery, RecoverySettles, RecoveryResumes, PresenceRecovered, HeartbeatRecovered, ReturnSent,
                Sweep, SweepReads, SweepTouches, SweepMarks
  <1>4. CASE Silence \/ RowAges \/ ActivityAges \/ Cools \/ Wakes \/ NoticeFires
    BY <1>4 DEF Silence, RowAges, ActivityAges, Cools, Wakes, NoticeFires
  <1>5. CASE UNCHANGED vars
    BY <1>5 DEF vars
  <1> QED BY <1>1, <1>2, <1>3, <1>4, <1>5 DEF Next

LEMMA AgentStays == ASSUME AgentType, [Next]_vars
                    PROVE  AgentType' /\ agent'.proc >= agent.proc
  <1>1. CASE Change
    <2>1. left' = [left EXCEPT !["changes"] = @ - 1] /\ left.changes > 0
      BY <1>1 DEF Change, Spend
    <2>2. agent' \in [up : BOOLEAN, proc : Nat] /\ agent'.proc \in {agent.proc, agent.proc + 1}
      <3>1. CASE agent' = [agent EXCEPT !.up = FALSE]
        BY <3>1 DEF AgentType
      <3>2. CASE agent' \in [up : {TRUE}, proc : {agent.proc, agent.proc + 1}]
        <4>1. agent.proc \in Nat /\ agent.proc + 1 \in Nat
          BY DEF AgentType
        <4> QED BY <3>2, <4>1
      <3> QED BY <1>1, <3>1, <3>2 DEF Change
    <2> QED BY <2>1, <2>2, FaultsAreNumbers DEF AgentType
  <1>2. CASE agent' = agent /\ left' = left
    BY <1>2 DEF AgentType
  <1>3. CASE agent' = agent /\ Spend("faults")
    BY <1>3 DEF AgentType, Spend
  <1> QED BY <1>1, <1>2, <1>3, AgentSteps

\* What the writes of the row are.
LEMMA RowSteps == ASSUME [Next]_vars
                  PROVE  \/ row' \in {row, Touched, [row EXCEPT !.online = FALSE], [row EXCEPT !.fresh = FALSE]}
                         \/ \E r \in Routes : row' = [Touched EXCEPT !.proc = route[r].proc]
  <1>1. CASE \E e \in Epochs : Handle(e)
    BY <1>1 DEF Handle, Starts, Writes, Wrote, Schedules, Tells, Sends, Restored,
                RestoreReturns, Undone, Notifies, NoticeSent
  <1>2. CASE \E r \in Routes : Persists(r)
    BY <1>2 DEF Persists
  <1>3. CASE \E r \in Routes : Request(r) \/ Drops(r) \/ Observes(r) \/ Reports(r) \/ Recovers(r)
    BY <1>3 DEF Request, Drops, Observes, Reports, Recovers
  <1>4. CASE Recovery \/ Sweep
    BY <1>4 DEF Recovery, RecoverySettles, RecoveryResumes, PresenceRecovered, HeartbeatRecovered, ReturnSent,
                Sweep, SweepReads, SweepTouches, SweepMarks
  <1>5. CASE Change \/ Silence \/ RowAges \/ ActivityAges \/ Cools \/ Wakes \/ NoticeFires
    BY <1>5 DEF Change, Silence, RowAges, ActivityAges, Cools, Wakes, NoticeFires
  <1>6. CASE UNCHANGED vars
    BY <1>6 DEF vars
  <1> QED BY <1>1, <1>2, <1>3, <1>4, <1>5, <1>6 DEF Next, Serve

LEMMA RowStays == ASSUME AgentType, RowType, RouteType, [Next]_vars PROVE RowType'
  <1>1. agent.proc \in Nat /\ agent'.proc \in Nat /\ agent'.proc >= agent.proc
    BY AgentStays DEF AgentType
  <1>2. \A r \in Routes : route[r].proc \in 0..agent.proc
    BY DEF RouteType
  <1>3. row' \in [online : BOOLEAN, fresh : BOOLEAN, proc : 0..agent.proc]
    BY <1>2, RowSteps DEF RowType, Touched
  <1> QED BY <1>1, <1>3 DEF RowType

\* A step changes one request at most.
LEMMA RouteSteps == ASSUME AgentType, RowType, RouteType, [Next]_vars
                    PROVE  \/ route' = route
                           \/ \E r \in Routes, q \in [pc : {"idle", "read", "write", "wrote", "reported", "recovers"},
                                                      online : BOOLEAN, proc : 0..agent.proc, owes : BOOLEAN] :
                                 route' = [route EXCEPT ![r] = q]
  <1> DEFINE Q == [pc : {"idle", "read", "write", "wrote", "reported", "recovers"}, online : BOOLEAN,
                   proc : 0..agent.proc, owes : BOOLEAN]
  <1>0. NoRequest \in Q /\ \A r \in Routes : route[r] \in Q
    BY DEF AgentType, RouteType, NoRequest
  <1>1. CASE \E r \in Routes : Request(r)
    <2> PICK r \in Routes : Request(r)
      BY <1>1
    <2> DEFINE q == [pc |-> "read", online |-> row.online /\ row.fresh, owes |-> FALSE,
                     proc |-> IF r = "heartbeat" THEN row.proc ELSE 0]
    <2>1. row.online \in BOOLEAN /\ row.fresh \in BOOLEAN /\ row.proc \in 0..agent.proc /\ 0 \in 0..agent.proc
      BY DEF RowType, AgentType
    <2>2. (row.online /\ row.fresh) \in BOOLEAN
      OBVIOUS
    <2>3. q \in Q
      BY <2>1, <2>2
    <2>4. route' = [route EXCEPT ![r] = q]
      BY DEF Request
    <2> QED BY <2>3, <2>4
  <1>2. CASE \E r \in Routes : Observes(r)
    <2> PICK r \in Routes : Observes(r)
      BY <1>2
    <2> DEFINE was == route[r].online /\ ~Confirmed
               owes == ~was \/ (r = "heartbeat" /\ route[r].proc # agent.proc)
               q == [pc |-> "write", online |-> was, owes |-> owes,
                     proc |-> IF r = "heartbeat" THEN agent.proc ELSE 0]
    <2>1. agent.proc \in 0..agent.proc /\ 0 \in 0..agent.proc
      BY DEF AgentType
    <2>2. was \in BOOLEAN /\ owes \in BOOLEAN
      OBVIOUS
    <2>3. route' = [route EXCEPT ![r] = q]
      BY DEF Observes
    <2>4. q \in Q
      <3> HIDE DEF was, owes
      <3> QED BY <2>1, <2>2
    <2> QED BY <2>3, <2>4
  <1>3. CASE \E r \in Routes : Drops(r) \/ Persists(r) \/ Reports(r) \/ Recovers(r)
    <2> PICK r \in Routes : Drops(r) \/ Persists(r) \/ Reports(r) \/ Recovers(r)
      BY <1>3
    <2>1. \/ route' = [route EXCEPT ![r] = NoRequest]
          \/ route' = [route EXCEPT ![r] = [route[r] EXCEPT !.pc = "wrote"]]
          \/ route' = [route EXCEPT ![r] = [route[r] EXCEPT !.pc = "reported"]]
          \/ route' = [route EXCEPT ![r] = [route[r] EXCEPT !.pc = "recovers"]]
      BY DEF Drops, Persists, Reports, Recovers
    <2>2. [route[r] EXCEPT !.pc = "wrote"] \in Q /\ [route[r] EXCEPT !.pc = "reported"] \in Q
            /\ [route[r] EXCEPT !.pc = "recovers"] \in Q
      BY <1>0
    <2> QED BY <1>0, <2>1, <2>2
  <1>4. CASE HeartbeatRecovered
    <2>1. route' = [route EXCEPT !["heartbeat"] = NoRequest] /\ "heartbeat" \in Routes
      BY <1>4 DEF HeartbeatRecovered, Routes
    <2> QED BY <1>0, <2>1
  <1>5. CASE RecoverySettles \/ RecoveryResumes \/ PresenceRecovered \/ ReturnSent \/ Sweep
    BY <1>5 DEF RecoverySettles, RecoveryResumes, PresenceRecovered, ReturnSent, Sweep, SweepReads, SweepTouches, SweepMarks
  <1>6. CASE \E e \in Epochs : Handle(e)
    BY <1>6 DEF Handle, Starts, Writes, Wrote, Schedules, Tells, Sends, Restored,
                RestoreReturns, Undone, Notifies, NoticeSent
  <1>7. CASE Change \/ Silence \/ RowAges \/ ActivityAges \/ Cools \/ Wakes \/ NoticeFires
    BY <1>7 DEF Change, Silence, RowAges, ActivityAges, Cools, Wakes, NoticeFires
  <1>8. CASE UNCHANGED vars
    BY <1>8 DEF vars
  <1> QED BY <1>1, <1>2, <1>3, <1>4, <1>5, <1>6, <1>7, <1>8 DEF Next, Serve, Recovery

LEMMA RouteStays == ASSUME AgentType, RowType, RouteType, [Next]_vars PROVE RouteType'
  <1>1. agent.proc \in Nat /\ agent'.proc \in Nat /\ agent'.proc >= agent.proc
    BY AgentStays DEF AgentType
  <1>2. 0..agent.proc \subseteq 0..agent'.proc
    BY <1>1
  <1>3. route' \in [Routes -> [pc : {"idle", "read", "write", "wrote", "reported", "recovers"}, online : BOOLEAN,
                               proc : 0..agent.proc, owes : BOOLEAN]]
    BY RouteSteps DEF RouteType
  <1> QED BY <1>2, <1>3 DEF RouteType

LEMMA StatusStays == ASSUME StatusType, [Next]_vars PROVE StatusType'
  <1>1. CASE \E e \in Epochs : Handle(e)
    BY <1>1 DEF Handle, Starts, Writes, Wrote, Schedules, Tells, Sends, TellsOnline, Restored, RestoreReturns, Undone,
                Notifies, NoticeSent, statusVars, StatusType
  <1>2. CASE \E r \in Routes : Request(r) \/ Serve(r)
    BY <1>2 DEF Serve, Request, Drops, Observes, Persists, Reports, Recovers, TellsReturned, TellsOnline,
                statusVars, StatusType
  <1>3. CASE Recovery \/ Sweep
    BY <1>3 DEF Recovery, RecoverySettles, RecoveryResumes, PresenceRecovered, HeartbeatRecovered, ReturnSent,
                TellsReturned, TellsOnline, Sweep, SweepReads, SweepTouches, SweepMarks, statusVars, StatusType
  <1>4. CASE Change \/ Silence \/ RowAges \/ ActivityAges \/ Cools \/ Wakes \/ NoticeFires
    BY <1>4 DEF Change, Silence, RowAges, ActivityAges, Cools, Wakes, NoticeFires, statusVars, StatusType
  <1>5. CASE UNCHANGED vars
    BY <1>5 DEF vars, statusVars, StatusType
  <1> QED BY <1>1, <1>2, <1>3, <1>4, <1>5 DEF Next

LEMMA AskedStays == ASSUME EpochInBound, AskedInBound, [Next]_vars PROVE AskedInBound'
  <1> SUFFICES asked' \in {asked, epoch}
    BY DEF EpochInBound, AskedInBound
  <1>1. CASE \E e \in Epochs : Handle(e)
    BY <1>1 DEF Handle, Starts, Writes, Wrote, Schedules, Tells, Sends, Restored,
                RestoreReturns, Undone, Notifies, NoticeSent
  <1>2. CASE \E r \in Routes : Request(r) \/ Serve(r)
    BY <1>2 DEF Serve, Request, Drops, Observes, Persists, Reports, Recovers, TellsReturned
  <1>3. CASE Recovery \/ Sweep
    BY <1>3 DEF Recovery, RecoverySettles, RecoveryResumes, PresenceRecovered, HeartbeatRecovered, ReturnSent,
                TellsReturned, Sweep, SweepReads, SweepTouches, SweepMarks
  <1>4. CASE Change \/ Silence \/ RowAges \/ ActivityAges \/ Cools \/ Wakes \/ NoticeFires
    BY <1>4 DEF Change, Silence, RowAges, ActivityAges, Cools, Wakes, NoticeFires
  <1>5. CASE UNCHANGED vars
    BY <1>5 DEF vars
  <1> QED BY <1>1, <1>2, <1>3, <1>4, <1>5 DEF Next

\* A transition ends the notice of the last one, and a notice is put off
\* for the last transition only.
LEMMA NoticeStaysLast == ASSUME EpochInBound, NoticeOfLast, [Next]_vars PROVE NoticeOfLast'
  <1>1. CASE Transits
    BY <1>1, BoundIsNumber DEF Transits, NoticeOfLast, Confirmed, EpochInBound
  <1>2. CASE epoch' = epoch
    <2> SUFFICES notice' \in {0, notice} \/ (notice' = epoch /\ Confirmed)
      BY <1>2 DEF NoticeOfLast, Confirmed
    <2>1. CASE \E e \in Epochs : Handle(e)
      BY <2>1 DEF Handle, Starts, Writes, Wrote, Schedules, Tells, Sends, TellsOnline, Current, Confirmed, Restored,
                  RestoreReturns, Undone, Notifies, NoticeSent, statusVars
    <2>2. CASE \E r \in Routes : Request(r) \/ Serve(r)
      BY <2>2 DEF Serve, Request, Drops, Observes, Transits, Persists, Reports, Recovers, TellsReturned, TellsOnline, statusVars
    <2>3. CASE Recovery \/ Sweep
      BY <2>3 DEF Recovery, RecoverySettles, RecoveryResumes, PresenceRecovered, HeartbeatRecovered, ReturnSent,
                TellsReturned,   TellsOnline, Sweep, SweepReads, SweepTouches, SweepMarks, statusVars
    <2>4. CASE Change \/ Silence \/ RowAges \/ ActivityAges \/ Cools \/ Wakes \/ NoticeFires
      BY <2>4 DEF Change, Silence, Transits, RowAges, ActivityAges, Cools, Wakes, NoticeFires, statusVars
    <2>5. CASE UNCHANGED vars
      BY <2>5 DEF vars, statusVars
    <2> QED BY <2>1, <2>2, <2>3, <2>4, <2>5 DEF Next
  <1> QED BY <1>1, <1>2, StepEpoch

\* Only the handler that holds the lock goes on, by a stage or an attempt.
LEMMA HandlerSteps == ASSUME HandlerType, [Next]_vars
                      PROVE  \/ handler' = handler
                             \/ \E e \in Epochs, h \in [pc : Stages, attempt : 1..Attempts] :
                                   Handler(e) \in inside /\ handler' = [handler EXCEPT ![e] = h]
  <1>1. ASSUME NEW e \in Epochs, Handle(e), ~Notifies(e), ~NoticeSent(e)
        PROVE  \E h \in [pc : Stages, attempt : 1..Attempts] :
                   Handler(e) \in inside /\ handler' = [handler EXCEPT ![e] = h]
    <2> DEFINE H == [pc : Stages, attempt : 1..Attempts]
    <2>0. handler[e] \in H
      BY DEF HandlerType
    <2>1. Handler(e) \in inside
      BY <1>1 DEF Handle, Starts, Writes, Wrote, Schedules, Tells, Sends, Restored, RestoreReturns, Undone, At
    <2>2. \/ \E pc \in Stages : To(e, pc)
          \/ Ends(e)
          \/ Throws(e)
      BY <1>1 DEF Handle, Starts, Writes, Wrote, Schedules, Tells, Sends, Restored, RestoreReturns, Undone,
                  Superseded, Restores, Undoes, Stages
    <2>3. CASE \E pc \in Stages : To(e, pc)
      <3> PICK pc \in Stages : To(e, pc)
        BY <2>3
      <3>1. handler' = [handler EXCEPT ![e] = [handler[e] EXCEPT !.pc = pc]]
        BY DEF To
      <3>2. [handler[e] EXCEPT !.pc = pc] \in H
        BY <2>0
      <3> QED BY <2>1, <3>1, <3>2
    <2>4. [pc |-> "done", attempt |-> 1] \in H
      BY SomeAttempt DEF Stages
    <2>5. CASE Ends(e)
      BY <2>1, <2>4, <2>5 DEF Ends
    <2>6. CASE Throws(e) /\ ~Ends(e)
      <3>1. handler[e].attempt < Attempts
            /\ handler' = [handler EXCEPT ![e] = [pc |-> "start", attempt |-> handler[e].attempt + 1]]
        BY <2>6 DEF Throws
      <3>2. [pc |-> "start", attempt |-> handler[e].attempt + 1] \in H
        BY <2>0, <3>1, SomeAttempt DEF Stages
      <3> QED BY <2>1, <3>1, <3>2
    <2> QED BY <2>2, <2>3, <2>5, <2>6
  <1>2. CASE \E e \in Epochs : Notifies(e) \/ NoticeSent(e)
    BY <1>2 DEF Notifies, NoticeSent
  <1>3. CASE \E r \in Routes : Request(r) \/ Serve(r)
    BY <1>3 DEF Serve, Request, Drops, Observes, Persists, Reports, Recovers
  <1>4. CASE Recovery \/ Sweep
    BY <1>4 DEF Recovery, RecoverySettles, RecoveryResumes, PresenceRecovered, HeartbeatRecovered, ReturnSent,
                Sweep, SweepReads, SweepTouches, SweepMarks
  <1>5. CASE Change \/ Silence \/ RowAges \/ ActivityAges \/ Cools \/ Wakes \/ NoticeFires
    BY <1>5 DEF Change, Silence, RowAges, ActivityAges, Cools, Wakes, NoticeFires
  <1>6. CASE UNCHANGED vars
    BY <1>6 DEF vars
  <1> QED BY <1>1, <1>2, <1>3, <1>4, <1>5, <1>6 DEF Next

LEMMA HandlerStays == HandlerType /\ [Next]_vars => HandlerType'
  BY HandlerSteps DEF HandlerType

LEMMA NotBegunStays == ASSUME EpochInBound, LockInv, HandlerType, NotBegun, [Next]_vars PROVE NotBegun'
  <1> SUFFICES ASSUME NEW d \in Epochs, d > epoch' PROVE handler'[d].pc = "start" /\ at'[Handler(d)] = None
    BY DEF NotBegun
  <1>1. d > epoch /\ epoch' >= epoch
    BY StepEpoch, BoundIsNumber DEF EpochInBound, Epochs, Transits
  <1>2. handler[d].pc = "start" /\ at[Handler(d)] = None /\ Handler(d) \in Tasks
    BY <1>1, TasksOfEpochs DEF NotBegun
  <1>3. Handler(d) \notin inside
    BY <1>2 DEF LockInv, InsideFirst
  <1>4. handler'[d].pc = "start"
    BY <1>2, <1>3, HandlerSteps DEF HandlerType
  <1>5. at'[Handler(d)] = None
    <2>1. CASE UNCHANGED lockVars
      BY <1>2, <2>1 DEF lockVars
    <2>2. CASE epoch + 1 \in Epochs /\ epoch' = epoch + 1 /\ Enter(Handler(epoch + 1), Host)
      <3>1. d # epoch + 1
        BY <2>2, BoundIsNumber DEF EpochInBound, Epochs
      <3>2. Handler(d) # Handler(epoch + 1)
        BY <2>2, <3>1, TasksDiffer
      <3> QED BY <1>2, <2>2, <3>2 DEF LockInv, LockType, Enter
    <2>3. CASE notice = epoch /\ notice \in Epochs /\ Enter(Notifier(notice), Host)
      <3>1. Handler(d) # Notifier(notice)
        BY <2>3, TasksDiffer
      <3> QED BY <1>2, <2>3, <3>1 DEF LockInv, LockType, Enter
    <2>4. CASE \E t \in Tasks : Proceed(t) \/ Leave(t)
      BY <1>2, <2>4 DEF LockInv, LockType, Proceed, Leave
    <2> QED BY <2>1, <2>2, <2>3, <2>4, LockMoves DEF Moves
  <1> QED BY <1>4, <1>5

LEMMA InitHost == Init => HostInv
  <1> SUFFICES ASSUME Init PROVE HostInv
    OBVIOUS
  <1>1. AgentType
    BY FaultsAreNumbers DEF Init, AgentType
  <1>2. RowType /\ StatusType
    BY DEF Init, RowType, StatusType
  <1>3. RouteType
    BY DEF Init, RouteType, NoRequest
  <1>4. HandlerType
    BY SomeAttempt DEF Init, HandlerType, Stages
  <1>5. AskedInBound /\ NoticeOfLast
    BY BoundIsNumber DEF Init, AskedInBound, NoticeOfLast
  <1>6. NotBegun
    BY TasksOfEpochs DEF Init, LockInit, NotBegun
  <1> QED BY <1>1, <1>2, <1>3, <1>4, <1>5, <1>6 DEF HostInv, HostTypes

LEMMA HostStays == EpochInBound /\ LockInv /\ HostInv /\ [Next]_vars => HostInv'
  BY AgentStays, RowStays, RouteStays, HandlerStays, StatusStays, AskedStays, NoticeStaysLast, NotBegunStays
     DEF HostInv, HostTypes

\* The types of the host, for any number of transitions, changes and faults.
\* A notice under way is that of the last transition, since a transition
\* cancels the one before (agentFastLiveness.ts:295-313,
\* hostOfflineNotificationDebouncer.ts:42-78), and no handler has begun
\* without one.
THEOREM HostTypesOK == Spec => []TypeOK
  <1>1. LockInv /\ RecoveryInv /\ EpochInBound /\ OrderInv /\ HostInv => TypeOK
    <2> SUFFICES ASSUME LockInv, RecoveryInv, EpochInBound, OrderInv, HostInv PROVE TypeOK
      OBVIOUS
    <2>1. LockType /\ RecoveryType
      BY DEF LockInv, RecoveryInv
    <2>2. epoch \in 0..MaxEpoch /\ asked \in 0..MaxEpoch /\ notice \in {0, epoch}
      BY DEF EpochInBound, HostInv, HostTypes, AskedInBound, NoticeOfLast
    <2>3. row \in [online : BOOLEAN, fresh : BOOLEAN, proc : 0..MaxChanges]
      <3>1. agent.proc \in Nat /\ agent.proc <= MaxChanges
        BY FaultsAreNumbers DEF HostInv, HostTypes, AgentType
      <3> QED BY <3>1, FaultsAreNumbers DEF HostInv, HostTypes, RowType
    <2>4. \A e \in Epochs : handler[e].attempt \in 1..Attempts
      BY DEF HostInv, HostTypes, HandlerType
    <2> QED BY <2>1, <2>2, <2>3, <2>4 DEF HostInv, HostTypes, StatusType, NotBegun, OrderInv, MessageType, TypeOK
  <1> QED BY <1>1, InitHost, HostStays, EpochAlwaysInBound, OrderAlways, UsesLock, LockInvariant, UsesRecovery,
             RecoveryInvariant, PTL DEF Spec
=============================================================================
