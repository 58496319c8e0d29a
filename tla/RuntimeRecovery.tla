-------------------------- MODULE RuntimeRecovery --------------------------
(***************************************************************************)
(* server/agentRuntimeRecovery.ts: the recoveries of one host.  Presence,  *)
(* heartbeats and event streams ask for a recovery of the Agent's runtime; *)
(* one task runs at a time, a request may be answered by another's task or *)
(* by a recent success, and a failure answers nobody but its own caller.   *)
(* Left out: the order in which waiters of one task resume.                *)
(***************************************************************************)
EXTENDS Integers

CONSTANTS Callers, Nobody

ASSUME NobodyIsNoCaller == Nobody \notin Callers

Light == 0      \* recoveryStrength: preserveReportedRuntime
Full == 1
Never == -1     \* lastSuccessStrength, before any success or past the cooldown

Strengths == {Light, Full}

Stronger(s, t) == IF s >= t THEN s ELSE t

VARIABLES
    inFlight,   \* the caller whose task runs, or Nobody
    success,    \* the strength of the last success within the cooldown
    call        \* caller -> its call; since: history, what has succeeded for it

recoveryVars == <<inFlight, success, call>>

NoCall == [pc |-> "idle", strength |-> Light, force |-> FALSE, on |-> Nobody, since |-> Never]

RecoveryInit ==
    /\ inFlight = Nobody
    /\ success = Never
    /\ call = [c \in Callers |-> NoCall]

\* Mutant: a recent success of any strength answers.
MutantAnswered(c) == ~c.force /\ success # Never

Answered(c) == ~c.force /\ success >= c.strength

\* The body of run() once nothing is awaited; its caller goes on with `c`.
Tries(who, c) ==
    /\ UNCHANGED success
    /\ IF inFlight # Nobody
       THEN call' = [call EXCEPT ![who] = [c EXCEPT !.pc = "waits", !.on = inFlight]] /\ UNCHANGED inFlight
       ELSE IF Answered(c)
       THEN call' = [call EXCEPT ![who] = [c EXCEPT !.pc = "coalesced", !.on = Nobody]] /\ UNCHANGED inFlight
       ELSE call' = [call EXCEPT ![who] = [c EXCEPT !.pc = "runs", !.on = Nobody]] /\ inFlight' = who

\* run() of a request.
Ask(who, strength, force) ==
    /\ call[who].pc = "idle"
    /\ Tries(who, [NoCall EXCEPT !.strength = strength, !.force = force, !.since = success])

Joins(c, strength) == ~c.force /\ strength >= c.strength

\* Mutant: the cooldown is committed in the finally block.
MutantCommitted(ok, strength) == strength

Committed(ok, strength) == IF ok THEN strength ELSE success

\* The task of `who` ends.  Those that await it take its answer, or try
\* again in a later turn.
Settle(who, ok) ==
    /\ inFlight = who
    /\ inFlight' = Nobody
    /\ LET mine == call[who].strength
           outcome(w, c) ==
               IF w = who THEN IF ok THEN "recovered" ELSE "failed"
               ELSE IF c.on # who THEN c.pc
               ELSE IF ok /\ Joins(c, mine) THEN "coalesced" ELSE "woken"
       IN  /\ success' = Committed(ok, mine)
           /\ call' = [w \in Callers |->
                 [call[w] EXCEPT !.pc = outcome(w, call[w]), !.on = IF @ = who THEN Nobody ELSE @,
                                 !.since = IF ok /\ call[w].pc # "idle" THEN Stronger(@, mine) ELSE @]]

\* Mutant: the task awaited is over, so the waiter starts its own.
MutantResume(who) ==
    /\ call[who].pc = "woken"
    /\ inFlight' = who /\ call' = [call EXCEPT ![who].pc = "runs"]
    /\ UNCHANGED success

Resume(who) == call[who].pc = "woken" /\ Tries(who, call[who])

\* The caller takes the answer.
Return(who, answer) ==
    /\ call[who].pc = answer /\ answer \in {"recovered", "coalesced", "failed"}
    /\ call' = [call EXCEPT ![who] = NoCall]
    /\ UNCHANGED <<inFlight, success>>

\* The cooldown ends.
CoolsDown == success # Never /\ success' = Never /\ UNCHANGED <<inFlight, call>>

RecoveryNext ==
    \/ \E who \in Callers, s \in Strengths, force \in BOOLEAN : Ask(who, s, force)
    \/ \E who \in Callers, ok \in BOOLEAN : Settle(who, ok)
    \/ \E who \in Callers : Resume(who) \/ \E a \in {"recovered", "coalesced", "failed"} : Return(who, a)
    \/ CoolsDown

RecoverySpec == RecoveryInit /\ [][RecoveryNext]_recoveryVars

-----------------------------------------------------------------------------
RecoveryType ==
    /\ inFlight \in Callers \cup {Nobody}
    /\ success \in Strengths \cup {Never}
    /\ call \in [Callers -> [pc : {"idle", "waits", "woken", "runs", "recovered", "coalesced", "failed"},
                             strength : Strengths, force : BOOLEAN, on : Callers \cup {Nobody},
                             since : Strengths \cup {Never}]]

\* Two recoveries of a host never overlap, whoever waited for the first
\* (agentRuntimeRecovery.ts:80-101).
OneRecovery == \A who \in Callers : call[who].pc = "runs" => inFlight = who

\* A request that is answered without a task of its own is covered: a
\* recovery of at least its strength succeeded after it came, or had
\* succeeded recently when it came or later.  A failed task, a weaker one
\* and the cooldown of neither cover it (agentRuntimeRecovery.ts:5-13).
CoalescedIsCovered ==
    \A who \in Callers : call[who].pc = "coalesced" => call[who].since >= call[who].strength
=============================================================================
