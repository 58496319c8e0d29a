---------------------------- MODULE DesiredState ----------------------------
(***************************************************************************)
(* How one direct forwarding rule travels from the panel's database to one *)
(* host and back: an editor writes the rule and wakes the agent; the agent *)
(* sends heartbeats; a heartbeat is answered from the stable plan cache or *)
(* rebuilds the plan and sends a desired state in the response and, at the *)
(* same time, on the event stream; the agent turns it into jobs, executes  *)
(* them one at a time and reports each result, which the panel writes back *)
(* to the rule row.                                                        *)
(*                                                                         *)
(* Sources: server/agentHeartbeatRoute.ts, server/agentHeartbeatGate.ts,   *)
(* server/agentEvents.ts, server/agentStatusRoutes.ts, agent/actions.go,   *)
(* agent/action_status.go and the main loop of agent/main.go.              *)
(*                                                                         *)
(* A version stands for the whole content of the rule; Edits says, edit by *)
(* edit, whether the new content differs in a field the agent reports in   *)
(* its local state ("visible": the target address) or only in one it does  *)
(* not report ("quiet": PROXY protocol, TCP Fast Open, ...).               *)
(***************************************************************************)
EXTENDS Integers, Sequences, FiniteSets

CONSTANTS
    Edits,          \* the edits an operator makes, in order
    MaxLoss,        \* lost requests, replies, streams; panel restarts
    MaxFail,        \* failing executions
    MaxFaults,      \* both together
    MaxEvents,      \* pending frames of the event stream (16 in the code)
    MaxReissue      \* times an unchanged action list gets a new issuedAt

ASSUME EditsAssumption == Edits \in Seq({"visible", "quiet"})
ASSUME BoundsAssumption == /\ MaxLoss \in Nat
                           /\ MaxFail \in Nat
                           /\ MaxFaults \in Nat
                           /\ MaxEvents \in Nat \ {0}
                           /\ MaxReissue \in Nat

VARIABLES
    \* the panel's database
    rule,       \* the row: its version and isRunning
    revision,   \* latest configuration audit event
    editor,     \* where the operator's request is
    \* the panel's memory
    sent,       \* agentDesiredStateSendCache
    batch,      \* agentActionBatchCache
    clock,      \* the last issuedAt handed out
    order,      \* agentStatusOrderGuard: latest issuedAt expected or accepted
    plan,       \* agentStableHeartbeatPlanCache
    rebuild,    \* the heartbeat that holds the reconciliation gate
    status,     \* a report that passed the checks, about to be written
    stream,     \* the event stream: connected, and the frames under way
    \* the agent
    reply,      \* a heartbeat response under way
    wakes,      \* heartbeatWakeFromSSE, heartbeatForceReconcileWake
    recv,       \* desiredLastReceivedRevision and Hash
    applied,    \* desiredLastAppliedRevision and Hash
    record,     \* desiredActionRecords
    cooldown,   \* the failed record is younger than 30 s
    latest,     \* latestActionIssuedAt
    jobs,       \* actions accepted and not started
    working,    \* the action that holds the serial lock
    acks,       \* desired states whose actions have all completed
    runtime,    \* the version the local service runs, Down if none
    outbox,     \* actionStatusReports
    reported,   \* actionStatusLatestIssuedAt
    flight,     \* a status request under way
    \* what has been used up of MaxLoss, MaxFail and MaxReissue
    losses, failures, reissues

database == <<rule, revision, editor>>
caches == <<sent, batch, clock>>
agent == <<recv, applied, record, cooldown, latest, jobs, working, acks,
           runtime>>
reports == <<outbox, reported, flight>>
budget == <<losses, failures, reissues>>
vars == <<database, caches, order, plan, rebuild, status, stream,
          reply, wakes, agent, reports, budget>>

-----------------------------------------------------------------------------
Versions == 0 .. Len(Edits)
Down == -1
Runtimes == Versions \cup {Down}

\* What localRuleMatches can tell apart: the last visible edit.
Shown(v) == LET seen == {i \in 1 .. v : Edits[i] = "visible"}
            IN  IF seen = {} THEN 0 ELSE CHOOSE i \in seen : \A k \in seen : k <= i

Matches(v, local) == local # Down /\ Shown(v) = Shown(local)

\* The actions generated for version v, none or the single apply.
Actions(v, running, local) == IF running /\ Matches(v, local) THEN {} ELSE {v}

\* stableDesiredStateHash strips issuedAt; every action carries the revision.
Hash(acts, known, rev) ==
    IF acts = {} THEN <<{}, FALSE, 0>> ELSE <<acts, known, rev>>
Partial == <<>>                      \* the hash of a single action

Newest(a, b) == IF a > b THEN a ELSE b

Idle == [pc |-> "idle"]

Init ==
    /\ rule = [ver |-> 0, running |-> TRUE]
    /\ revision = 0
    /\ editor = "idle"
    /\ sent = {[acts |-> {}, rev |-> 0, due |-> FALSE]}
    /\ batch = {}
    /\ clock = 0
    /\ order = 0
    /\ plan = {}
    /\ rebuild = Idle
    /\ status = {}
    /\ stream = [up |-> TRUE, frames |-> <<>>]
    /\ reply = {}
    /\ wakes = [sse |-> FALSE, force |-> FALSE]
    /\ recv = [rev |-> 0, hash |-> Hash({}, FALSE, 0)]
    /\ applied = [rev |-> 0, hash |-> Hash({}, FALSE, 0)]
    /\ record = {}
    /\ cooldown = FALSE
    /\ latest = 0
    /\ jobs = {}
    /\ working = {}
    /\ acks = {}
    /\ runtime = 0
    /\ outbox = {}
    /\ reported = 0
    /\ flight = {}
    /\ losses = 0
    /\ failures = 0
    /\ reissues = 0

-----------------------------------------------------------------------------
\* The operator's request: write the row, record the audit event, refresh.

\* A frame for a connected agent; a stream with MaxEvents pending is closed.
Push(frame) ==
    stream' = IF ~stream.up THEN stream
              ELSE IF Len(stream.frames) = MaxEvents
                   THEN [up |-> FALSE, frames |-> <<>>]
                   ELSE [stream EXCEPT !.frames = Append(@, frame)]

Refresh == {}                \* an agent-refresh frame; a state is {state}

EditRule ==
    /\ editor = "idle"
    /\ rule.ver < Len(Edits)
    /\ rule' = [ver |-> rule.ver + 1, running |-> FALSE]
    /\ editor' = "audit"
    /\ UNCHANGED <<revision, caches, order, plan, rebuild, status,
                   stream, reply, wakes, agent, reports, budget>>

AuditEdit ==
    /\ editor = "audit"
    /\ revision' = revision + 1
    /\ plan' = {}
    /\ editor' = "refresh"
    /\ UNCHANGED <<rule, caches, order, rebuild, status, stream,
                   reply, wakes, agent, reports, budget>>

\* pushAgentRefresh: less than 1.5 s after another edit's, it sends no event.
RefreshAgent ==
    /\ editor = "refresh"
    /\ editor' = "idle"
    /\ plan' = {}
    /\ \/ Push(Refresh)
       \/ rule.ver > 1 /\ UNCHANGED stream
    /\ UNCHANGED <<rule, revision, caches, order, rebuild, status, reply,
                   wakes, agent, reports, budget>>

-----------------------------------------------------------------------------
\* Heartbeats.

Waiting == reply # {} \/ (rebuild.pc # "idle" /\ rebuild.awaited)

\* The agent's half of AgentStableHeartbeatPlanCache.match.
Stable(p) == /\ recv = [rev |-> p.rev, hash |-> p.hash]
             /\ applied = recv
             /\ p.local = runtime

Forced == wakes.sse \/ wakes.force

\* The main loop swaps the wake flags before it sends. The panel rebuilds the
\* plan unless another rebuild holds the gate (the reply is "coalesced" and
\* the agent ignores it) or the stable plan still matches.
Beat ==
    /\ ~Waiting
    /\ wakes' = [sse |-> FALSE, force |-> FALSE]
    /\ IF rebuild.pc # "idle" \/ (~Forced /\ \E p \in plan : Stable(p))
       THEN UNCHANGED rebuild
       ELSE rebuild' = [pc |-> "reading", local |-> runtime, awaited |-> TRUE,
                        row |-> {}, rev |-> {}]
    /\ UNCHANGED <<database, caches, order, plan, status, stream,
                   reply, agent, reports, budget>>

\* Woken by the stream while actions are pending: a light keepalive, which
\* does not reconcile, consumes the wake.
BusyBeat ==
    /\ ~Waiting
    /\ wakes.sse /\ ~wakes.force
    /\ jobs \cup working # {}
    /\ wakes' = [wakes EXCEPT !.sse = FALSE]
    /\ UNCHANGED <<database, caches, order, plan, rebuild, status,
                   stream, reply, agent, reports, budget>>

\* Promise.all starts both reads: they may see the database at two moments.
ReadRule ==
    /\ rebuild.pc = "reading"
    /\ rebuild.row = {}
    /\ rebuild' = [rebuild EXCEPT !.row = {rule}]
    /\ UNCHANGED <<database, caches, order, plan, status, stream,
                   reply, wakes, agent, reports, budget>>

ReadRevision ==
    /\ rebuild.pc = "reading"
    /\ rebuild.rev = {}
    /\ rebuild' = [rebuild EXCEPT !.rev = {revision}]
    /\ UNCHANGED <<database, caches, order, plan, status, stream,
                   reply, wakes, agent, reports, budget>>

\* The action list is built, then every rule whose listener the agent reports
\* is marked running in the database.
Recoverable(row, local) == ~row.running /\ Matches(row.ver, local)

Reconcile ==
    /\ rebuild.pc = "reading"
    /\ \E row \in rebuild.row, rev \in rebuild.rev :
        /\ rebuild' = [pc |-> "planned", local |-> rebuild.local,
                       awaited |-> rebuild.awaited, rev |-> rev,
                       ver |-> row.ver,
                       acts |-> Actions(row.ver, row.running, rebuild.local)]
        /\ rule' = [rule EXCEPT !.running =
                        @ \/ Recoverable(row, rebuild.local)]
    /\ UNCHANGED <<revision, editor, caches, order, plan, status,
                   stream, reply, wakes, agent, reports, budget>>

\* resolveActionBatchIssuedAt: an unchanged list keeps its issuedAt for 45 s.
Issue(acts, issued) ==
    IF acts = {}
    THEN /\ batch' = {}
         /\ issued = 0
         /\ UNCHANGED <<clock, reissues>>
    ELSE \/ /\ [acts |-> acts, issued |-> issued] \in batch
            /\ UNCHANGED <<batch, clock, reissues>>
         \/ /\ issued = clock + 1
            /\ clock' = issued
            /\ batch' = {[acts |-> acts, issued |-> issued]}
            /\ LET unchanged == \E b \in batch : b.acts = acts
               IN  /\ unchanged => reissues < MaxReissue
                   /\ reissues' = IF unchanged THEN reissues + 1 ELSE reissues

\* shouldSendDesiredState: on change, or again when work is left after 60 s.
MustSend(acts, rev, active) ==
    \A s \in sent : s.acts # acts \/ s.rev # rev \/ (active /\ s.due)

Finish ==
    /\ rebuild.pc = "planned"
    /\ rebuild' = Idle
    /\ LET acts   == rebuild.acts
           rev    == rebuild.rev
           known  == acts # {} /\ Matches(rebuild.ver, rebuild.local)
           active == acts # {} /\ ~known
           send   == MustSend(acts, rev, active)
       IN \E issued \in 0 .. clock + 1 :
            LET state == [acts |-> acts, known |-> known, rev |-> rev,
                          issued |-> issued]
            IN  /\ Issue(acts, issued)
                /\ plan' = IF active THEN {}
                           ELSE {[rev |-> rev, hash |-> Hash(acts, known, rev),
                                  local |-> rebuild.local]}
                /\ IF send
                   THEN /\ sent' = {[acts |-> acts, rev |-> rev, due |-> FALSE]}
                        /\ order' = IF acts = {} THEN order
                                    ELSE Newest(order, issued)
                        /\ Push({state})
                        /\ reply' = IF rebuild.awaited THEN {state} ELSE reply
                   ELSE UNCHANGED <<sent, order, stream, reply>>
    /\ UNCHANGED <<database, status, wakes, agent, reports, losses,
                   failures>>

-----------------------------------------------------------------------------
\* The agent: syncDesiredState.

Succeeded(v) == record = {[ver |-> v, ok |-> TRUE]}
Failed(v) == record = {[ver |-> v, ok |-> FALSE]}

WholeApplied(rev, hash) ==
    IF rev >= applied.rev THEN [rev |-> rev, hash |-> hash] ELSE applied

ActionApplied(rev) ==
    IF rev > applied.rev \/ (rev = applied.rev /\ applied.hash = Partial)
    THEN [rev |-> rev, hash |-> Partial] ELSE applied

\* enqueueActionStatusReport: one pending report for the rule, never older.
Report(issued, v, ok) ==
    IF issued < reported
    THEN UNCHANGED <<outbox, reported>>
    ELSE /\ outbox' = {[issued |-> issued, ver |-> v, ok |-> ok]}
         /\ reported' = issued

\* Mutant: nothing is reserved.
MutantUnreserved(issued) == FALSE

\* reserveQueuedAction: the same issuedAt is already accepted.
Reserved(issued) == \E j \in jobs \cup working : j.issued = issued

SyncNothing(s) ==
    /\ s.acts = {}
    /\ record' = {}
    /\ applied' = WholeApplied(s.rev, Hash(s.acts, s.known, s.rev))
    /\ UNCHANGED <<cooldown, latest, jobs, outbox, reported>>

\* The action is done already, or failed less than 30 s ago.
SyncKnown(s, v) ==
    /\ \/ Succeeded(v) /\ runtime = v
       \/ Failed(v) /\ cooldown
    /\ applied' = IF Succeeded(v)
                  THEN WholeApplied(s.rev, Hash(s.acts, s.known, s.rev))
                  ELSE applied
    /\ UNCHANGED <<record, cooldown, latest, jobs, outbox, reported>>

\* The local runtime is already what the action asks for.
SyncAdopt(s, v) ==
    /\ ~Succeeded(v) /\ ~(Failed(v) /\ cooldown)
    /\ runtime = v
    /\ record' = {[ver |-> v, ok |-> TRUE]}
    /\ applied' = WholeApplied(s.rev, Hash(s.acts, s.known, s.rev))
    /\ Report(s.issued, v, TRUE)
    /\ UNCHANGED <<cooldown, latest, jobs>>

SyncQueue(s, v) ==
    /\ runtime # v
    /\ ~(Failed(v) /\ cooldown)
    /\ record' = IF Succeeded(v) THEN {} ELSE record
    /\ IF s.issued < latest \/ Reserved(s.issued)
       THEN UNCHANGED <<latest, jobs>>
       ELSE /\ latest' = s.issued
            /\ jobs' = jobs \cup {[ver |-> v, issued |-> s.issued, rev |-> s.rev,
                                   hash |-> Hash(s.acts, s.known, s.rev)]}
    /\ UNCHANGED <<applied, cooldown, outbox, reported>>

Sync(s) ==
    /\ recv' = IF s.rev >= recv.rev
               THEN [rev |-> s.rev, hash |-> Hash(s.acts, s.known, s.rev)]
               ELSE recv
    /\ \/ SyncNothing(s)
       \/ \E v \in s.acts : SyncKnown(s, v) \/ SyncAdopt(s, v) \/ SyncQueue(s, v)
    /\ UNCHANGED <<working, acks, runtime, flight>>

Answered ==
    /\ \E s \in reply : Sync(s)
    /\ reply' = {}
    /\ UNCHANGED <<database, caches, order, plan, rebuild, status,
                   stream, wakes, budget>>

\* The scan loop of runAgentEventStream takes the next frame.
StreamEvent ==
    /\ stream.frames # <<>>
    /\ stream' = [stream EXCEPT !.frames = Tail(@)]
    /\ \/ /\ Head(stream.frames) = Refresh
          /\ wakes' = [wakes EXCEPT !.sse = TRUE]
          /\ UNCHANGED <<agent, reports>>
       \/ /\ \E s \in Head(stream.frames) : Sync(s)
          /\ UNCHANGED wakes
    /\ UNCHANGED <<database, caches, order, plan, rebuild, status,
                   reply, budget>>

-----------------------------------------------------------------------------
\* The agent: the action workers.

Ack(j) == [ver |-> j.ver, rev |-> j.rev, hash |-> j.hash]

\* finishActionJob: the last pending action wakes the main loop.
WakeIfLast(left) == wakes' = [wakes EXCEPT !.force = @ \/ left = {}]

\* Mutant: the worker does not look again after it got the lock.
MutantNeverOutdated(j) == FALSE

\* A worker holds the serial lock of the rule's port and finds that a newer
\* batch has been accepted.
Outdated(j) == j.issued < latest

DropOld(j) ==
    /\ Outdated(j)
    /\ jobs' = jobs \ {j}
    /\ acks' = acks \cup {Ack(j)}
    /\ WakeIfLast(jobs' \cup working)
    /\ UNCHANGED <<database, caches, order, plan, rebuild, status,
                   stream, reply, recv, applied, record, cooldown, latest,
                   working, runtime, reports, budget>>

Start(j) ==
    /\ working = {}
    /\ ~Outdated(j)
    /\ jobs' = jobs \ {j}
    /\ working' = {j}
    /\ UNCHANGED <<database, caches, order, plan, rebuild, status,
                   stream, reply, wakes, recv, applied, record, cooldown,
                   latest, acks, runtime, reports, budget>>

Execute(j, ok) ==
    /\ working' = working \ {j}
    /\ acks' = acks \cup {Ack(j)}
    /\ record' = {[ver |-> j.ver, ok |-> ok]}
    /\ Report(j.issued, j.ver, ok)
    /\ WakeIfLast(jobs)
    /\ UNCHANGED <<database, caches, order, plan, rebuild, status,
                   stream, reply, recv, latest, jobs, flight, losses, reissues>>

Succeed(j) ==
    /\ Execute(j, TRUE)
    /\ runtime' = j.ver
    /\ applied' = ActionApplied(j.rev)
    /\ UNCHANGED <<cooldown, failures>>

\* A failed execution leaves the old service, none, or the new one.
Fail(j) ==
    /\ failures < MaxFail /\ losses + failures < MaxFaults
    /\ failures' = failures + 1
    /\ Execute(j, FALSE)
    /\ runtime' \in {runtime, Down, j.ver}
    /\ cooldown' = TRUE
    /\ UNCHANGED applied

\* Mutant: completion of the actions is taken for success.
MutantMarkCompleted(a) ==
    /\ acks' = acks \ {a}
    /\ applied' = WholeApplied(a.rev, a.hash)
    /\ UNCHANGED <<database, caches, order, plan, rebuild, status,
                   stream, reply, wakes, recv, record, cooldown, latest, jobs,
                   working, runtime, reports, budget>>

\* rememberDesiredStateAppliedAfterActions, once all its actions completed.
MarkApplied(a) ==
    /\ acks' = acks \ {a}
    /\ applied' = IF Succeeded(a.ver) THEN WholeApplied(a.rev, a.hash) ELSE applied
    /\ UNCHANGED <<database, caches, order, plan, rebuild, status,
                   stream, reply, wakes, recv, record, cooldown, latest, jobs,
                   working, runtime, reports, budget>>

-----------------------------------------------------------------------------
\* Result reports.

SendReport ==
    /\ outbox # {}
    /\ flight = {} /\ status = {}
    /\ flight' = outbox
    /\ outbox' = {}
    /\ UNCHANGED <<database, caches, order, plan, rebuild, status,
                   stream, reply, wakes, agent, reported, budget>>

\* restoreActionStatusReports: unless a newer one is waiting.
Restored(r) == IF outbox = {} /\ r.issued >= reported THEN {r} ELSE outbox

\* AgentStatusOrderGuard.accept and the checks on the rule, which an edit of
\* the kinds modelled here passes.
Deliver ==
    /\ status = {}
    /\ \E r \in flight :
        IF r.issued < order
        THEN UNCHANGED <<order, status>>
        ELSE /\ order' = r.issued
             /\ status' = {r}
    /\ flight' = {}
    /\ UNCHANGED <<database, caches, plan, rebuild, stream, reply,
                   wakes, agent, outbox, reported, budget>>

\* updateRuleRunningStatus; the answer may be lost, and the report repeated.
WriteStatus ==
    /\ \E r \in status :
        /\ rule' = [rule EXCEPT !.running = r.ok]
        /\ \/ UNCHANGED <<outbox, losses>>
           \/ /\ losses < MaxLoss /\ losses + failures < MaxFaults
              /\ losses' = losses + 1
              /\ outbox' = Restored(r)
    /\ status' = {}
    /\ UNCHANGED <<revision, editor, caches, order, plan, rebuild,
                   stream, reply, wakes, agent, reported, flight, failures,
                   reissues>>

-----------------------------------------------------------------------------
\* What can be lost.

Loss == /\ losses < MaxLoss /\ losses + failures < MaxFaults
        /\ losses' = losses + 1
        /\ UNCHANGED <<failures, reissues>>

\* The request never arrives: the wake flags are gone with it.
LoseBeat ==
    /\ Loss
    /\ ~Waiting
    /\ Forced
    /\ wakes' = [sse |-> FALSE, force |-> FALSE]
    /\ UNCHANGED <<database, caches, order, plan, rebuild, status,
                   stream, reply, agent, reports>>

\* The agent gives up on the response; a rebuild under way continues.
LoseReply ==
    /\ Loss
    /\ Waiting
    /\ reply' = {}
    /\ rebuild' = IF rebuild.pc = "idle" THEN Idle
                  ELSE [rebuild EXCEPT !.awaited = FALSE]
    /\ UNCHANGED <<database, caches, order, plan, status, stream,
                   wakes, agent, reports>>

LoseStream ==
    /\ Loss
    /\ stream.up
    /\ stream' = [up |-> FALSE, frames |-> <<>>]
    /\ UNCHANGED <<database, caches, order, plan, rebuild, status,
                   reply, wakes, agent, reports>>

LoseReport ==
    /\ Loss
    /\ \E r \in flight : outbox' = Restored(r)
    /\ flight' = {}
    /\ UNCHANGED <<database, caches, order, plan, rebuild, status,
                   stream, reply, wakes, agent, reported>>

\* The panel restarts: everything it holds in memory is gone, and with it an
\* operator's request between two of its steps.
RestartPanel ==
    /\ Loss
    /\ editor' = "idle"
    /\ sent' = {} /\ batch' = {}
    /\ order' = 0
    /\ plan' = {}
    /\ rebuild' = Idle
    /\ status' = {}
    /\ stream' = [up |-> FALSE, frames |-> <<>>]
    /\ reply' = {}
    /\ flight' = {}
    /\ outbox' = IF flight \cup status = {} THEN outbox
                 ELSE Restored(CHOOSE r \in flight \cup status : TRUE)
    /\ UNCHANGED <<rule, revision, clock, wakes, agent, reported>>

\* A stream that comes up wakes the main loop urgently.
Reconnect ==
    /\ ~stream.up
    /\ stream' = [up |-> TRUE, frames |-> <<>>]
    /\ wakes' = [wakes EXCEPT !.force = TRUE]
    /\ UNCHANGED <<database, caches, order, plan, rebuild, status,
                   reply, agent, reports, budget>>

-----------------------------------------------------------------------------
\* Time.

ResendDue ==                 \* AGENT_DESIRED_STATE_ACTIVE_RESEND_MS, 60 s
    /\ \E s \in sent : ~s.due /\ s.acts # {} /\ sent' = {[s EXCEPT !.due = TRUE]}
    /\ UNCHANGED <<database, batch, clock, order, plan, rebuild, status,
                   stream, reply, wakes, agent, reports, budget>>

\* Mutant: a match renews the plan, which is never audited.
MutantNeverAudited == FALSE

AuditDue ==                  \* AGENT_STABLE_PLAN_AUDIT_INTERVAL_MS, 5 min
    /\ plan # {}
    /\ plan' = {}
    /\ UNCHANGED <<database, caches, order, rebuild, status, stream,
                   reply, wakes, agent, reports, budget>>

RetryDue ==                  \* desiredActionFailureRetryInterval, 30 s
    /\ cooldown
    /\ cooldown' = FALSE
    /\ UNCHANGED <<database, caches, order, plan, rebuild, status,
                   stream, reply, wakes, recv, applied, record, latest, jobs,
                   working, acks, runtime, reports, budget>>

-----------------------------------------------------------------------------
Edit == EditRule \/ AuditEdit \/ RefreshAgent
Rebuild == ReadRule \/ ReadRevision \/ Reconcile \/ Finish
Receive == Answered \/ StreamEvent
StartJob == \E j \in jobs : DropOld(j) \/ Start(j)
Finished == \E a \in acks : MarkApplied(a)
Tell == SendReport \/ Deliver \/ WriteStatus
Lose == LoseBeat \/ LoseReply \/ LoseStream \/ LoseReport \/ RestartPanel
Time == ResendDue \/ AuditDue \/ RetryDue

Next ==
    \/ Edit
    \/ Beat \/ BusyBeat
    \/ Rebuild
    \/ Receive
    \/ StartJob
    \/ \E j \in working : Succeed(j) \/ Fail(j)
    \/ Finished
    \/ Tell
    \/ Lose
    \/ Reconnect
    \/ Time

Spec == Init /\ [][Next]_vars

\* Requests, workers and timers go on; nobody has to edit, and nothing has to
\* be lost or to fail.
Fairness ==
    /\ WF_vars(AuditEdit) /\ WF_vars(RefreshAgent)
    /\ WF_vars(Beat)
    /\ WF_vars(ReadRule) /\ WF_vars(ReadRevision)
    /\ WF_vars(Reconcile) /\ WF_vars(Finish)
    /\ WF_vars(Answered) /\ WF_vars(StreamEvent)
    /\ WF_vars(StartJob)
    /\ WF_vars(\E j \in working : Succeed(j))
    /\ WF_vars(Finished)
    /\ WF_vars(SendReport) /\ WF_vars(Deliver) /\ WF_vars(WriteStatus)
    /\ WF_vars(Reconnect)
    /\ WF_vars(ResendDue) /\ WF_vars(AuditDue) /\ WF_vars(RetryDue)

FairSpec == Spec /\ Fairness

-----------------------------------------------------------------------------
(* Properties                                                              *)

States == [acts : SUBSET Versions, known : BOOLEAN, rev : Nat, issued : Nat]
Hashes == {Partial} \cup ((SUBSET Versions) \X BOOLEAN \X Nat)
Jobs == [ver : Versions, issued : Nat, rev : Nat, hash : Hashes]
Results == [issued : Nat, ver : Versions, ok : BOOLEAN]
AtMostOne(S) == \A x, y \in S : x = y

\* The rows, caches and messages have the shape the code gives them, and the
\* agent never holds more than one running action for the rule.
TypeOK ==
    /\ rule \in [ver : Versions, running : BOOLEAN]
    /\ revision \in Nat
    /\ editor \in {"idle", "audit", "refresh"}
    /\ \A s \in sent : s \in [acts : SUBSET Versions, rev : Nat, due : BOOLEAN]
    /\ \A b \in batch : b \in [acts : SUBSET Versions, issued : Nat]
    /\ clock \in Nat /\ order \in Nat
    /\ \A p \in plan : p \in [rev : Nat, hash : Hashes, local : Runtimes]
    /\ rebuild.pc \in {"idle", "reading", "planned"}
    /\ stream.up \in BOOLEAN /\ Len(stream.frames) <= MaxEvents
    /\ \A i \in 1 .. Len(stream.frames) :
         AtMostOne(stream.frames[i]) /\ \A s \in stream.frames[i] : s \in States
    /\ \A s \in reply : s \in States
    /\ wakes \in [sse : BOOLEAN, force : BOOLEAN]
    /\ recv \in [rev : Nat, hash : Hashes]
    /\ applied \in [rev : Nat, hash : Hashes]
    /\ \A r \in record : r \in [ver : Versions, ok : BOOLEAN]
    /\ cooldown \in BOOLEAN
    /\ latest \in Nat /\ reported \in Nat
    /\ \A j \in jobs \cup working : j \in Jobs
    /\ \A a \in acks : a \in [ver : Versions, rev : Nat, hash : Hashes]
    /\ runtime \in Runtimes
    /\ \A r \in outbox \cup flight \cup status : r \in Results
    /\ AtMostOne(sent) /\ AtMostOne(batch) /\ AtMostOne(plan) /\ AtMostOne(reply)
    /\ AtMostOne(record) /\ AtMostOne(working)
    /\ AtMostOne(outbox) /\ AtMostOne(flight \cup status)

\* A state that arrives twice, by the stream and by the response, is accepted
\* once: no waiting action has the issuedAt of the one being executed.
\* (reserveQueuedAction, handleAgentDesiredStatePush)
AcceptedOnce == \A j \in jobs, k \in working : j.issued # k.issued

\* Whatever the order in which states arrive, the service is never taken back
\* from a newer version to an older one. (isOlderAction)
NeverOlder == [][runtime' # Down => runtime' >= runtime]_vars

\* The agent claims a complete desired state only while its service runs the
\* version that state asks for. (rememberDesiredStateAppliedAfterActions)
ClaimsWhatRuns ==
    [][\A v \in Versions :
         (applied' # applied /\ applied'.hash # Partial /\ v \in applied'.hash[1])
            => runtime = v]_vars

\* Once the operator stops, the service runs the last version and the panel
\* shows it running, whatever was lost or failed before.
\* (the periodic heartbeat, the 60 s resend, the plan audit and the retry)
Converges == <>[](runtime = rule.ver /\ rule.running)

\* A result of an older version does not change the row of a newer one.
\* (agentStatusOrderGuard.accept, updateRuleRunningStatus)
LateResultIgnored ==
    [][\A r \in status :
         (status' = {} /\ r.ver < rule.ver) => rule'.running = rule.running]_vars

\* When no message, action or report is left and the next full rebuild would
\* neither generate nor send anything, the service runs the current version.
\* (recoverableRules, localRuleMatches, shouldSendDesiredState)
NothingForgotten ==
    ( /\ editor = "idle" /\ rebuild.pc = "idle" /\ reply = {}
      /\ stream = [up |-> TRUE, frames |-> <<>>]
      /\ jobs \cup working \cup acks = {}
      /\ outbox \cup flight \cup status = {}
      /\ Actions(rule.ver, rule.running, runtime) = {}
      /\ ~MustSend({}, revision, FALSE) )
    => runtime = rule.ver
=============================================================================
