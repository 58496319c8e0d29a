# Formal models of ForwardX

ForwardX is a port-forwarding control panel: operators describe forwarding
rules, tunnels and groups in a web panel; agents on many hosts turn them into
running services; a data plane of its own (FXP) carries the traffic of
multi-hop tunnels. This directory holds TLA+ models of the parts whose
correctness depends on the order in which things happen, the TLC
configurations that check them, and proofs checked by TLAPS.

    tlc -workers 2 -config HeartbeatGate.cfg MCHeartbeatGate
    tlapm Heartbeat_proofs.tla

Paths below are relative to the root of the repository. `PROJECT.json` lists
every run, the source lines each definition stands for, the mutants that show
that a property can fail, the hazards the properties are aimed at and the
disagreements found.

## 1. Inventory

The program has four processes: the panel server (`server/`, Express and tRPC
over MySQL or SQLite), the web client (`client/`), the agent (`agent/`, Go) and the
data plane (`forwardx-fxp/`, Go, also linked into the agent). Client and
server talk tRPC; agents poll the server over HTTP and hold one event stream
(SSE) open towards them; data-plane processes talk to each other over the
encrypted, multiplexed v3 protocol.

| Component | State it keeps | Operations | What is hard | What makes it correct |
| --- | --- | --- | --- | --- |
| Heartbeat gate (`agentHeartbeatGate.ts`) | active hosts, FIFO line and its timestamps, last completions | `tryAcquire`, release closure | forced and periodic beats of one host overlap; hosts vanish while they wait | one rebuild per host, a global limit, FIFO, no starvation |
| Desired state (`agentHeartbeatRoute.ts`, `agent/actions.go`, ...) | rule rows, audit revision, send and batch caches, stable-plan cache, order guard; the agent's records, jobs, applied revision | edit, heartbeat, rebuild, send, sync, execute, report | two delivery paths, results out of order, restarts, caches that decide not to send | a service never goes back to older content; it converges; late results are harmless |
| Event stream (`agentEvents.ts`) | one client per host, its pending frames and bytes | push, refresh, replace, close | bounded queues, reconnection, coalescing | a lost frame is never the only carrier |
| Action workers (`agent/actions.go`, `agent/main.go`, `agent/managed_configs.go`) | ingress buffer, dispatcher, bounded queue, reservations, epochs, job results with their dependents, transactions of the shared configuration, FXP handoffs | receive, enqueue, coalesce, dispatch, wait, run, resolve, roll back | a worker blocks on prerequisites, a gate and locks; an older state fails after a newer one has come | every job ends, reservations follow the jobs, a late rollback undoes nothing newer |
| Status reporter (`agent/action_status.go`, `agentStatusOrdering.ts`, `agentStatusRoutes.ts`) | one pending report per resource, last epochs | queue, send, restore, accept | retries after lost answers | newest result wins |
| Keyed lock and dispatcher (`keyedTaskLock.ts`, `keyedTaskDispatcher.ts`) | promise chain per key, pending task per key | run, enqueue | last-one-out clean-up | exclusion, order, no lost task |
| Forward groups (`forwardGroupRepository.ts`, `forwardGroupHealthRecheck.ts`, `agentTcpingReportGate.ts`) | members, failure windows, active member, published record; evaluation queue, recheck timer, memory of what was published | transition, report, evaluate, switch, publish, hold, sweep, edit | the provider's answer and the row are far apart; requests come while a batch runs; restarts | the group settles on its best member, looks again when what it chose no longer holds, and record, memory and row agree |
| Host liveness (`agentFastLiveness.ts`, `hostStatusNotifier.ts`, `hostOfflineNotificationDebouncer.ts`, `agentActivity.ts`) | transition epochs, row status, what administrators were told, debounced notices | silence, return, handle, retry, notify, sweep | handlers that are overtaken while they await; a sweep on old reads | the row ends up true, the groups follow the last transition, messages of transitions in their order |
| Runtime recovery (`agentRuntimeRecovery.ts`) | requests in flight per host, cooldowns | request, run, commit | a strong request during a weak one, failures | no two recoveries at once, none swallowed by one that fails |
| Display caches (`queryCache.ts`, `displayQueryCache.ts`, `backgroundSummaryCache.ts`, `requestWorkPool.ts`) | entries by key, loads in flight, slots, queue | get, invalidate, evict, run | a load that ends after an invalidation; failing loads | no stale refill, one load per key, no lost slot |
| Rule task queue (`ruleTaskQueue.ts`) | tasks per user, results | submit, run, cancel, evict | rotation, limits, deduplication | fairness, bounded memory |
| v3 session (`internal/v3/session.go`) | stream map, windows, write/control queues, drain flag | `Open`, `Accept`, `Read`, `Write`, `Close`, `Drain`, three loops | credit, half-close, slots, bounded queues both ways | windows and slots accounted, no stuck writer, nothing lost before EOF |
| v3 session pool (`v3_session.go`) | buckets, sessions, shared dial, count | open, dial, prune, close | waiting for another's dial, stale sessions | slots are returned once, one dial per endpoint |
| FXP relay, UDP, handshake (`main.go`, `udp_direct.go`, `internal/v3/*`) | sockets, UDP associations, keys | accept, relay | bytes, not orders | |
| Panel migration, plugin tasks, traffic accounting, payments and stock, reservations, authentication | tables and small in-memory maps | CRUD with transactions | mostly the database's isolation | |

How they interact: an operator's mutation writes rows (`forwardRuleRepository.ts`),
appends an audit event (`configAudit.ts`: the configuration revision) and asks
`agentEvents.ts` to refresh the affected hosts. A refresh makes the agent beat.
Every beat passes the stable-plan cache and the heartbeat gate; a full rebuild
reads rows and revision, generates actions, writes recovered rules back, and
sends the desired state both in the response and on the stream. The agent's
`syncDesiredState` queues jobs for its workers; their results go through
`action_status.go` back to `agentStatusRoutes.ts`, are ordered by
`agentStatusOrdering.ts` and written to the row. The services that the jobs
start use FXP, whose listeners open business streams on pooled v3 sessions.

Beside that loop runs the other one: heartbeats and presence requests feed the
liveness tracker; its transitions are handled one after another under a keyed
lock, write the host's row, tell the administrators and ask for an evaluation
of the forward groups of the host. The evaluation queue runs the failover of a
group under the group's keyed lock; the failover reads rows, liveness and
reported samples, asks a DNS provider to change a record and writes the row.
A host that returned is recovered: its runtime flags are reset so that the
next heartbeats reconcile it. The panel's display queries read all this
through caches that every mutation invalidates.

Every hazard of these parts that is hard to reach with a test is listed, at
the line where it bites, under `hazards` in `PROJECT.json`.

## 2. Modules

| Module | Models | Uses |
| --- | --- | --- |
| `HeartbeatGate`, `MCHeartbeatGate`, `Heartbeat_proofs` | the class `AgentHeartbeatGate` and the agents that poll it | |
| `V3Session`, `MCV3Session`, `V3Session_proofs` | the two ends of one v3 session and the connection between them | |
| `V3Pool`, `MCV3Pool`, `V3Pool_proofs` | the pool of outgoing sessions, the callers of `openAt` and the life of the sessions | |
| `DesiredState`, `MCDesiredState`, `Heartbeat_proofs` | one rule from the operator's edit to the result shown in the panel: panel, event stream, agent, reports | |
| `AgentActions`, `MCAgentActions`, `AgentActions_proofs` | the agent's action workers while ports move between runtimes | |
| `DisplayQueries`, `MCDisplayQueries`, `DisplayQueries_proofs` | a query cache, the work pool its loads run in, and the mutations that invalidate it | |
| `FifoLock` | the abstract lock: whoever asks for a key is served once, alone, first come first served | |
| `KeyedLock`, `KeyedLock_proofs` | `withKeyedTaskLock`, the chain of promises; implements `FifoLock` | `FifoLock` (INSTANCE) |
| `EvaluationQueue` | the evaluation queue: requests, one timer, one batch, retries | |
| `GroupFailover`, `MCGroupFailover`, `GroupFailover_proofs` | the failover of a group, asked for by the queue, the sweep and the administrator | `KeyedLock`, `EvaluationQueue` |
| `RuntimeRecovery` | the recovery coordinator of one host (its theorems stand in `HostLiveness_proofs`) | |
| `HostLiveness`, `MCHostLiveness`, `HostLiveness_proofs` | the status of one host: tracker, handlers, routes, notices, sweep | `KeyedLock`, `RuntimeRecovery` |

Definitions whose name starts with `Mutant` are plausible slips in the
definition that follows them. No action uses them; replacing the definition by
its mutant makes TLC report the property named in `PROJECT.json`.

### HeartbeatGate

`active`, `waiting`, `since` and `cooling` are the four private fields of the
class (`since` is `waitingSince`, as an age; `cooling` is what remains of the
coalescing window counted from `completedAt`). `holders` counts release
closures that have been handed out and not called, which is what the
properties compare `active` with. `TryAcquire` is one call of `tryAcquire`,
`pruneWaiting` included; its three disjuncts are its three ways to return.
`Release` is the closure, called once from the route's `finally`. `Tick` is
time: an agent in `Steady` sends its next heartbeat within `PollEvery`, the
`nextInterval` the route answers a coalesced beat with; the others may vanish.

### V3Session

Each end has the fields of `Session` (`err`, `draining`, the stream map `st`,
`writes`, `controls`, `creditWake`, ...) and the program counters of its
goroutines: `snd` for the call of `Open` or `Write` on a stream, `closing` for
a `Close` that waits in `control()`, `rd` for what the reader owes after a
frame, `owed` for a goroutine on its way to `fail(ErrDraining)`, `idleHit` for
the idle timer between its check and its `fail`. A step is what the code does
under one hold of `s.mu`; a step ends where the code unlocks, blocks on a
channel or writes to the connection. So the check in `idleLoop` and the `fail`
after it are two steps, and so are the reservation of credit, the hand-over to
the writer and the return of `Write`. Bytes are counted. A foreign end, one
that does not run this code, puts any frame on the wire: `ForeignFrame`.
`acked` and `consumed` are history: bytes whose `Write` returned without error
and bytes `Read` returned. `Bytes` sums the bytes of a queue or of the wire,
`Reserved` and `Outgoing` are the parts of the window that are between
`Write` and the peer; they serve the properties only.

### V3Pool

`buckets`, `count` and `closed` are the fields of `v3SessionPool`; `bucket`
holds the buckets themselves, since goroutines keep a bucket after the pool has
forgotten it. `phys` is a physical session as the pool sees it: working or
failed, the endpoint and bucket its `releaseWhenClosed` goroutine remembers,
whether it looks stale (`Alive`), whether it drains, and how many stream IDs it
has given out. `call` is where each caller of `openAt` stands. A step is what
the code does under one hold of `p.mu` or one call of a session: so a caller
that has selected a session under the lock may find it full, failed or drained
when it calls `Open`, and a dial ends in a pool that was closed meanwhile. The
loop that drops failed and stale sessions and the choice of the best one are
one step, as in the code. Identities of sessions and buckets are used again
once nothing refers to them, so any number of them may come and go.

The walk over several exit endpoints in `open` is left out (no caller passes a
selector), and so is what a stream carries. `V3Session` models the
session in detail; here it works, ages, drains and fails.

### DesiredState

The panel's row is `rule` (a version stands for all of its content) and
`revision` is the latest audit event. `sent`, `batch`, `order`, `plan` are the
caches `agentDesiredStateSendCache`, `agentActionBatchCache`,
`agentStatusOrderGuard` and `agentStableHeartbeatPlanCache`; sets of at most
one element stand for maps with one host. `rebuild` is the heartbeat request
that holds the gate (which is modelled in full by `HeartbeatGate`; here only
its exclusion matters): it reads row and revision at two moments
(`Promise.all`), then plans and writes recovered rules back, then caches and
sends. `recv`, `applied`, `record`, `latest`, `jobs`, `working` and `acks` are
the agent's variables in `actions.go`, `outbox` and `reported` those in
`action_status.go`. `runtime` is the version the local service really runs.
The frames of the stream, the response and a status request under way are
separate channels, so a state sent twice arrives in either order.

What is abstracted, deliberately:

- one host, one direct rule with a backend whose local state names its content
  (realm, socat, iptables). An edit is *visible* when it changes what the
  agent's local state carries and the panel compares (`localRuleMatches`: the
  target), *quiet* when it changes something else the action carries (PROXY
  protocol, TCP Fast Open);
- the local state of a beat is read when the panel receives it (request
  transit is merged with receipt); the agent sends it with every full beat;
- keepalives that carry only metrics do not reconcile and are left out, except
  the one that consumes a wake (`BusyBeat`); a coalesced beat is one that does
  not rebuild;
- `wakes.force` stands for the agent's two ways of asking for a full beat
  (force-reconcile and urgent);
- the service changes only by an action: no drift of the runtime, no restart
  of the agent, no removal of the rule, no tunnels and shared runtimes, no
  prerequisites between actions;
- the end of an execution, its record and its queued report are one step;
- a frame that carries a state is taken from the stream and synchronised in one step. In the
  code the scan loop hands it to a scheduler that runs one state at a time and keeps
  the newest that waits (`agent/main.go:4863`, 2511-2570). The delay is here that of a frame
  not yet taken, a state replaced there is one that was lost; what is left out is that a refresh
  behind it in the stream may wake the heartbeat before the state is synchronised;
- `issuedAt` is a counter; an unchanged action list may get a new one at most
  `MaxReissue` times (45 s in the code).

### AgentActions

A desired state that moves ports which FXP serves to the GOST runtime they all
share becomes a batch of jobs (`prepareDesiredActionJobs`): a *handoff* per
port stops its FXP listener, one *sync* writes the shared configuration and
starts it, an *apply* per port completes the move. `todo` is what the second
loop of `syncDesiredState` has still to enqueue, `ingress` and `queue` are the
bounded buffer and channel, `reserved` and `pending` are `queuedActionKeys`
and `actionPendingCount`, `latest` the epoch all keys of a batch have in
`latestActionIssuedAt`. `job` says where each job stands: made, entering,
ingress, queued, waiting (a worker blocks on its prerequisites), running
(under the gate and its serial locks), ending, settled, done. `conf` and `tx`
are the shared configuration and the transaction each sync keeps open until
its last dependent resolves; `hand` is the `actionHandoffState` of each move,
`fxp` the listeners that run.

The steps are those of the goroutines: an action is one step of its worker
(the locks are held before and after), `Settle` resolves the dependents,
`Finalize` asks for the port's locks again and looks at the epoch, `Restore`
starts the old listener while a newer state may arrive. The guards of the steps are
operators of their own (`CanEnqueue`, `CanPush`, `CanDispatch`, `CanTake`, `CanStart`,
`CanSettle`, `CanFinalize`, `CanClose`), so that a property can say that some
goroutine can go on (`CanGoOn`). What is abstracted:

- two direct ports, each behind an FXP tunnel of its own, so an entry-group
  batch has one participant; one shared runtime, so the Nginx gate and the link
  between two runtimes are left out;
- each state changes every action: no record matches and nothing is adopted
  (that is `DesiredState`'s part), nor does a job that was not run end well because its
  listener is ready in the shared runtime (`actions.go:1191-1195`); a state is not
  delivered twice;
- `Receive` is one step: its first loop holds `desiredActionRecordMu`;
- a job the dispatcher holds while the channel is full is the last of
  `queue`; the gate and the locks are taken in one step, and an apply holds the gate
  through the wait for its listener, before which the code opens it
  (`main.go:5185-5188`), so two waits of different runtimes do not overlap here;
- all `Workers` have been started; port protection, logging and a superseded
  agent are left out;
- a state names at least one port (a sync without moves is `Receive` with no
  handoffs), and the ports of `PortList` differ: `reserveQueuedAction` refuses a
  second action of a key (`actions.go:209-222`), so a port named twice would be
  moved once (`PortsDiffer`);
- any action may fail, any number of times; one that cannot succeed (FXP still
  holds a port the sync needs) has to.

### DisplayQueries

`entry`, `older` and `bytes` are the map of `queryCache.ts` with its LRU order
and byte count, `load` the refreshes that exist, `active` and `queue` the slots
of `requestWorkPool.ts`. `caller` is who awaits which load. A mutation
(`Begin`, `Commit`, `End`) invalidates the keys it matches before and after,
as `databaseSafeProcedure` does. A value is the version of the database its
load read, so staleness is a comparison of numbers; `floor` remembers, per key,
the version of the last finished mutation that matched it. Time is the age of an
entry, which may advance at any moment. The LRU order of the JavaScript map is
kept as `older`: for each key the keys whose entries were used before its own,
so that `trim` evicts an entry exactly when the ones before it do not suffice.

### FifoLock and KeyedLock

`FifoLock` is what a caller relies on: the users of a key, at most one of which
holds it, and the calls ahead of each; a free key is taken at once, and a waiter
starts when nobody is ahead of it. `KeyedLock` is what the code does: a map from key to the gate of the latest
caller only, each caller awaiting the gate before its own, and a `finally` that
deletes the entry when nobody has called since. `ahead` is history: the earlier
calls that are not done. `Promise` is `FifoLock`'s specification under the
mapping that reads holders and waiters off `inside` and `at`; that `KeyedLock` implements it is
proved, and checked again where the lock is used.

### EvaluationQueue and GroupFailover

`EvaluationQueue` is the class `ForwardGroupEvaluationQueue`: `pending`,
whether the flush timer is armed, the running `batch`, and the groups with a
`retry` timer. Delays are left out: an armed timer may fire at any time.

`GroupFailover` runs the failover of one group of members with templates and a
DNS record. The queue's flush, the scheduler's sweep and the administrator each run it
under the group's keyed lock. The administrator does so by a synchronisation (`Call`)
or by an edit that switches a member, both forced. An edit writes the members without the
lock (`Edit`) and asks for the run some awaits later (`EditRuns`), or fails between
the two (`EditFails`). A run reads group and members once (`Load`), looks at one member
after the other (`Look`: liveness, sample, failure window), decides, and checks that
its choice still holds. The check, `failoverAgentSelectionStillCurrent`, is two steps
each time, as it awaits between them: that the members take part (`Check`, `Confirm`), then that
their liveness is what the evaluation saw (`Settle`, `Compare`). Between the two checks the
provider is asked (`Publish`); after the second the memory is set and the row written
(`Write`, where the row may be written and the event of the switch fail). With nobody
healthy the record is kept on one value (`Hold`). Meanwhile members are switched,
agents fall silent, return and report, windows run out, the provider's answer is
lost, writes fail, the panel restarts. A restart registers every host anew, so a silence
begun before it is forgotten until its new deadline.

`fit` is history: the members that took part and were up at one moment since the provider
answered the run under way.

Left out: quotas, China health, groups of other modes, ports and chains, samples
of agents that do not decide, and a check that gives up because a read in it failed (it then
refuses the commit, as a changed epoch does). Merged: the decision with the
first reading of the members, and the two reads of liveness of one check; the delay between a
transition and its handler is part of the queue's delay. The group starts at rest. A
sweep runs only when something happened that no event announces (`missed`), so that it
cannot hide a lost request.

### RuntimeRecovery and HostLiveness

`RuntimeRecovery` is `AgentRuntimeRecoveryCoordinator.run` for one host:
`inFlight`, the strength of the last `success` within the cooldown, and the
callers. A caller that waited goes through the body again, since another may
have started meanwhile. `since` is history: the strongest recovery that
succeeded since a call began or that its cooldown still remembered.

`HostLiveness` composes it with the keyed lock. The tracker's `epoch` is odd
while the host is confirmed offline; every transition queues a handler under
`agent-liveness:<host>`. A handler checks the epoch, writes the row, checks
again, asks for the evaluation of the groups, checks again and tells the administrators; when
it was overtaken it restores or undoes (`restoreHostOnlineAfterStaleOfflineTransition`); an attempt that throws is repeated after its delay. An offline
notice waits for its delay, then for the lock. What the administrators are known to have
been told (`known`, `lastKnownStatus`) changes before a message is sent; the
sending awaits the settings, the host and the recipients, and looks at nothing again.
It is a step of its own: `Sends` in a handler, `NoticeSent` of an offline notice, both
under the lock, and `ReturnSent` of a route, without it; groups are asked for after that
one. `told` is history: the epoch of the last message sent under the lock.
Presence and heartbeat requests read the row, observe the liveness, write the row,
tell of a return and ask for a recovery, the presence in the background. The sweep
reads stale rows and writes them later; it sets `known`, and when its messages go
out is left out.

Bounds: a silence lasts at least as long as the tracker's; heartbeat, activity
and cooldown grow old only in a silence when handlers and requests are done;
one request at a time writes the row, and waits until the last one's message has been
sent; a presence waits for the recovery the last one asked for; a heartbeat that would find nothing new is left out, and a
request that would be one transition too many is dropped. Left out: event
streams, the recovery path of a coalesced heartbeat, registration, panel
restarts and priming.

## 3. Runs

| Run | Question | Bounds |
| --- | --- | --- |
| `gate` | is a host rebuilt once at a time, within the limit, in FIFO order, and is a host that keeps polling admitted? | 4 hosts, 2 of them steady, 2 slots, so the line holds two hosts and its head may be dead; a coalescing window longer than the polling interval and a timeout longer than both, as in the code |
| `session_flow` | do two ends that run this code keep credit and never misread each other, whatever fails? | one stream, 3 bytes, windows of 1 and 2, all queues and the connection hold one frame: every queue fills; both ends may close, the client drains, the connection breaks or stalls, write deadlines pass, the server idles or is shut; deadlock is checked |
| `session_foreign` | what can a peer that is not this code do to the windows and slots of a server that may also drain? | one slot, two IDs, windows of one byte, frames of every type with credits and sizes up to one more than allowed |
| `session_credit` | does a writer waiting for credit always get some, with one wake token for all streams? | two streams of one byte windows, one frame of room everywhere |
| `pool` | do callers share sessions without losing a slot, dialling twice or waiting for ever, and does `Close` end everything? | 3 callers that make 4 calls to one endpoint, a pool of 2 sessions of two streams and two stream IDs, one fault: sessions are full, drain under their users, fail and are replaced while others dial or wait. Endpoints meet only in the count, which the theorems cover for any number of them |
| `desired_safety` | can two edits, two delivery paths and late results make the agent go back or claim too much? | two visible edits, two pending frames, nothing lost |
| `desired_converge` | does the service end at the last version, and does the panel know? | one edit, one fault of any kind anywhere, room for one pending frame, so frames also close the stream |
| `agent_actions` | can the jobs of two states always go on, do the reservations follow them, and does a failure of the older state undo nothing of the newer? | two ports, two states, two workers, one place in the ingress and one in the queue, so every producer blocks, and failing actions anywhere; `AgentActions_end.cfg` checks `GuardsSuffice` and, under fairness, `EveryJobEnds` with one worker |
| `display_queries` | is nobody answered with what was read before a finished mutation, does no load run twice, are slots, bytes and entries counted, is every request answered? | three keys of which a mutation matches one, room for two entries and three bytes with results of one, three and four, one slot and one place in the queue, three loads at once |
| `failover` | does the group settle on its best member without the sweep's help, does it look again when a choice has become wrong before it is written, and do record, memory and row agree? | two members and any three of: silences, returns, changed reports, synchronisations, edits that switch a member, faults (a failing step or edit, a lost answer of the provider, a restart); the safety properties also hold with four (3,043,132 states) |
| `failover_disabled` | see *Findings* | the same with one change, call or fault |
| `host_liveness` | does the row end up true, do the groups follow the last transition, are messages of transitions sent in their order, do recoveries never overlap, is the lock served in order? | three transitions, three changes of the agent (a return may be a restarted process), two attempts per handler, one failing call |

Why these bounds are enough to be interesting: each hazard listed needs at
most two actors of a kind and a queue that is full; every capacity is set to
the smallest value at which both "full" and "not full" occur. They are no
argument for larger instances; the theorems below are.

`CHECK_DEADLOCK FALSE` appears where a system may stop by itself: a foreign
client may stop sending, the runs of V3Session without faults end with
quiet streams nobody closes, and the instances of V3Pool, AgentActions,
GroupFailover and HostLiveness end when their calls, states, changes and faults
are used up (`EveryCallReturns`, `NoJobStranded`, `SettlesOnBest` and
`StatusSettles` are what rules out a real deadlock there).

The type invariants of the gate, the session, the pool, DesiredState and HostLiveness
are proved, those of the lock, the coordinator, the failover and the query cache are
parts of proved invariants (the cache's is a conjunct of `Accounted`).

**Fairness.** `HeartbeatGate`: time passes; steady agents beat; a
reconciliation ends, since the route releases in a `finally`. `V3Session`:
the reader, the writer and the goroutines inside a call are scheduled, and the
business that accepted a stream reads it (the relay always has a copy loop per
direction); opening, writing and closing are never obliged. `V3Pool`: callers
go on, a dial ends (it has timeouts), failed sessions are released and
collected ones closed, each by a goroutine of its own; nobody has to call, hang
up or close the pool. `DesiredState`: periodic beats, request handlers, the
stream's scan loop, workers, the reporter and the timers go on, and an
execution that starts can succeed; nobody has to edit and nothing has to fail.
`AgentActions`: some goroutine that can go on does, which is less than Go's
scheduler gives each of them; no state has to arrive. `DisplayQueries`: the
event loop runs what is due and the database driver answers or fails.
`GroupFailover`: armed timers fire, the event loop runs what is due, the
provider answers or times out, and the scheduler sweeps; nobody has to call,
report or change. `HostLiveness`: timers fire, handlers, routes and database
calls go on, and an agent that is up sends its next presence and heartbeat;
nothing has to fail or fall silent. All of it is weak fairness.

**What the runs show.** All properties of the passing runs hold. The most
telling ones:

- `CreditConserved`: what a sender may still send, has under way and is being
  granted is exactly what the receiver will take, although grants may arrive
  before `Open` has marked its stream announced;
- `WorkingSessionsShared`: a bucket that is forgotten while a dial or a session
  still uses it would hide the session from the next caller and from `Close`;
- `SteadyAdmitted` and `SteadyKeepsPlace` together: pruning removes dead heads
  and nobody else;
- `NeverOlder` and `ClaimsWhatRuns`: the serial lock's second look at
  `latestActionIssuedAt`, and `rememberDesiredStateAppliedAfterActions` asking
  for records and not for completions. `Converges` showed what convergence rests
  on: a plan stored after its invalidation, with the current revision but
  older rows, is answered from until the 5-minute audit drops it; a wake
  consumed by a failed request is simply lost; an empty state that is lost is not
  sent again until the next change (which costs the fast path, not correctness);
- `NoJobStranded`: workers block, and may all block at once; they do not for
  ever only because a batch enters the queue with every job behind those it waits
  for, through coalescing and replaced jobs. Every step but `Receive` brings a job
  or a move nearer to its end, so under fairness each ends (`EveryJobEnds`).
  `SuccessStands` rests on the
  generation that every write of a shared configuration gets and on the epoch
  that `finalizeActionHandoffState` reads under the locks of the port;
- `ReadYourWrites`: a load that an invalidation meets is cut off from its entry,
  and a second invalidation after the commit is needed for loads that started in
  between;
- `NothingForgotten` and `SettlesOnBest`: `arm()` declines while a batch runs
  and the end of the batch makes up for it, and a failure window runs on through
  evaluations that have other reasons. `SwitchesSoundly` says what the two checks achieve: a
  member becomes active only if it took part and was up at one moment since the provider
  answered (which needs the epochs' signatures, not only the current status), and
  when that has ended before the row is written, another evaluation is certain or the sweep has
  something to recover. More does not hold: see *Findings*;
- `MessagesInOrder`: a message is sent some awaits after the last look at the epoch, so
  "offline" may go out when the host has already returned. What the lock gives is
  that the message of the return, sent by its handler, cannot overtake it;
- `StatusSettles`: with three writers of one row (handlers, routes, sweep) the
  last word belongs to whoever saw the last transition; `markStaleHostsOffline`
  looking at the heartbeat again does not suffice without the recent activity.

## 4. Findings

**Listed run.** `failover_disabled`: the panel says that a member that is
switched off "does not take part in the group's switching"
(`ForwardGroups.tsx:2588`). When it is the active member,
`failoverAgentSelectionStillCurrent` demands that the active member be enabled:
every commit is refused, also that of a forced synchronisation, the group is
evaluated again and again and never leaves the member.

**Configurations kept for reading.** All but the first refute what a comment or a document
says of the code; they are not part of the listed runs and are run by hand
(`tlc -config X.cfg MC...`):

- `V3Session_readers` (MCV3Session) passes, with 1,392,278 states in 80 seconds:
  `ReadersNotBothBlocked` with two streams, a draining server that refuses the
  second, and room for one CLOSE. The server's reader does wait there for room in
  `controls`; if readers answered frames for streams that have ended with a CLOSE, as other
  multiplexers do, both would wait for each other. The listed runs keep their
  readers free of that case (`session_credit` is quiet, `session_flow` has one stream), so
  they do not check the property; `SessionReadersGoOn` proves it for every instance;
- `V3Session_drain` (MCV3Session): `Drain` is documented to let existing streams
  finish (`session.go:179`, `PROTOCOL.md`). The end that closes its last stream
  fails the session at once, and with it the connection (`session.go:748-755`):
  its queued CLOSE and data already acknowledged to its writer may be discarded,
  and the peer's stream ends with an error. `Drain` has no caller in production
  today; the same path is taken when the stream IDs of a session are used up.
- `V3Session_idle` (MCV3Session): `PROTOCOL.md` lists idle expiry "when no
  streams remain"; the timer decides under the lock and fails after it
  (`session.go:505`), so a stream opened in between dies with `ErrIdle`.
- `V3Pool_stale` (MCV3Pool): a session without a successful write for 30 s is
  documented to get no new streams (`v3_session.go:21-22`). `openAt` closes it
  (243-248), and with it the streams that are only quiet, as soon as another
  caller asks for a stream to the same endpoint.
- `DesiredState_failed` (MCDesiredState): failed actions are documented to be
  resent (`docs/ARCHITECTURE_CN.md:95`). An edit the agent's local state does not
  show is planned and, in the same rebuild, its row is marked running from the
  old listener (`agentHeartbeatRoute.ts:6457`). If the execution fails, the
  following rebuilds no longer generate the action.
- `DesiredState_late` (MCDesiredState): late results are documented not to
  overwrite a newer state (`docs/ARCHITECTURE_CN.md:106`). The guard compares
  epochs of *sent* states; a result of the previous version that arrives after
  the edit, before the new state is sent, marks the edited row running.
- `AgentActions_restore` (MCAgentActions): `actions.go:1189-1191` says that on
  failure the replacement listener is released first, so that restoring FXP
  cannot race a GOST process that still runs on the port. A sync with several
  dependents rolls back when the *last* of them resolves
  (`main.go:738-752`); the handoff of the port that failed first is rolled back
  at once, while GOST still serves, and FXP cannot take its port. Nothing starts
  it later: the port is without a listener until a later state applies it.
- `HostLiveness_recovery` (MCHostLiveness): "a failed recovery must be retryable
  on the next heartbeat" (`agentRuntimeRecovery.ts:11-13`). The coordinator
  allows it, but the routes have already written the status and process that made
  the recovery due (`agentHeartbeatRoute.ts:1408`, 1671-1693): the next heartbeat
  finds nothing new and nobody asks again.
- `HostLiveness_notice` (MCHostLiveness): a presence's recovery that ends in a
  newer silence calls `notifyHostOnlineIfNeeded`
  (`agentHeartbeatRoute.ts:1414-1415`), which cancels the notice of that
  silence and tells the administrators that the host is online.

**Seen while modelling the failover.** An edit may switch a member off between the last
reading of the members (`forwardGroupRepository.ts:1851`) and the row (4692): the row
then makes a member active that takes no part. The edit's own forced run
follows, but every commit of it is refused, as in `failover_disabled`, and the group stays where
it is. This is why `SettlesOnBest` supposes an active member that takes part.

When the provider has taken a change and
the second `beforeCommit` refuses it, neither row nor memory is written
(`forwardGroupRepository.ts:4690`). If the next evaluation finds the old member
fit again, the branch "current" (4667-4677) compares row and memory, which both
name the old member, and leaves the provider on the new one. A forced
synchronisation, another switch or a restart repairs it. `RecordAgrees` and
`SettlesOnBest` say so by excluding exactly that case (`unsure`).

## 5. Proofs

`Heartbeat_proofs` holds the theorems of the two modules that a heartbeat meets,
the gate and the loop behind it.

*The gate*: `GateType`, `OneReconciliation`, `CapacityRespected` and
`LineConsistent` for any finite or infinite set of hosts and any limits that satisfy
`GateAssumption`. None but the first is inductive: the limit is about `holders`, the
guard about `active`, and a host is kept from entering twice only because the line
never holds an active host. The inductive invariant (`GateInv`) conjoins all four, with
finiteness of `active`; each action has one step per conjunct it can disturb, and facts
about `SubSeq`, `Append` and `Tail` of a line without repetitions are lemmas of their
own. Two action properties follow. `NoOvertaking` (`GateInOrder`): what is left after
an admission stood behind the admitted entry, because the head of the pruned line is
the host that enters. `SteadyKeepsPlace` (`GateKeepsPlace`) needs one hypothesis on the
constants, `CoalesceTicks + PollEvery <= WaitTimeout`, which the code meets with
5 s + 5 s against 30 s: a host in line that is still cooling is refused without a
refresh, so its entry ages during one coalescing window and one poll, and
`SteadyFresh`, the invariant behind the theorem, says that it ages no more than that.

*The loop* (`DesiredState`): `TypeOK`, `AcceptedOnce`, `NeverOlder` and
`ClaimsWhatRuns` for any sequence of edits, any number of losses, failures, panel
restarts and renewed numbers and any bound of the stream. TLC runs the two action
properties without faults; the theorems have them all. The inductive invariant
(`DesiredInv`) consists of `Types` and

- `OrderInv`. `Handed` is every pair of a number (`issuedAt`) and a version that the
  panel can still repeat, that is on its way, or that the agent has accepted. Later
  numbers stand for later versions and one number for one version (`InOrder`);
  numbers end at `clock`; nothing handed out and nothing that runs is newer than what
  the rebuild under way has read of the row (`ReadLast`), so the order it will
  issue is the newest; what may still be executed, that is what has a number of at
  least `latestActionIssuedAt` or holds the lock, is not older than what runs
  (`Behind`). `NeverOlder` is the step from `Behind`; the numbers are needed because a
  response and a frame may deliver two states in either order, twice, or after a
  restart of the panel. Every step but the end of a rebuild only takes from `Handed`:
  one lemma (`FollowsOrder`) treats all of them, and `FinishOrder` the one that adds.
- `AcceptInv`: no two accepted actions share a number;
- `ClaimInv`: a complete hash names the version of its job, and a recorded success is
  that of the version that runs, which is what `MarkApplied` relies on when it looks at
  the record after the actions have completed.

`V3Session_proofs` proves `TypeOK`, `WindowAccounted` and `SlotsBounded` for
any limits, windows, queue sizes and set of events, a foreign peer included.
`TypeOK` is inductive (with lemmas for the counters of a stream: each
subtraction stays in `Nat` by its guard). The two others rest on one lemma about the
shape of a step: every action either leaves the live streams of an end alone,
ends some of them, moves bytes between the three parts of one window, or opens
one stream below the limit with a full window. `DrainEnds` is proved with the
same generality (`SessionDrainEnds`): each of the four places that can remove the
last stream of a draining end, or make an empty end drain, leaves a goroutine
behind, and only `fail` takes it away.

The second part of `V3Session_proofs` proves what holds between two ends that both run this code,
which is its hypothesis `NoForeign` (no end has the event "foreign"; every other
event is allowed, and limits, windows, queue sizes, IDs and numbers of bytes are
any). The invariant `Conforms` describes the frames that are under way:

- each frame in a queue or on the wire is one its sender may send (`Proper`), a
  stream that has not been opened is untouched (`Untouched`), a grant is read only
  after the OPEN it answers (`GrantAfterOpen`, `OpenOnWire`), a `Write` is told
  "ok" only when its frame has been written (`ToldOnlyWhenDone`), and of each
  request there is at most one (`SendsOne`);
- the accept queue holds live streams once each and has room while a slot is free
  (`Queue`), and OPEN frames reach the wire in the order of their IDs (`IdOrder`);
- the ledger: what the sender may still send, has reserved and has under way, plus
  what the receiver has been granted and has not been told, equals the window the
  receiver keeps (`LedgerInv`); before the peer has seen the OPEN the ledger says
  what the first grant will be.

The ledger is kept step by step: a `Calm` step leaves both halves of the
ledger of every stream alone or only shrinks that of a stream nobody listens
to; the steps that move bytes (reserving, hand-over, writing, reading DATA and
CREDIT, granting, opening) have a lemma each. `PeersConform` and
`CreditConserved` follow. `EofAfterData` needs more: `Promised` (a CLOSE is behind every byte whose `Write`
succeeded), `CloseLast` (nothing of a stream follows its CLOSE), `Arrived`
(after the CLOSE has been read, what was acknowledged has been stored) and
`Delivered`. `ReadersNotBothBlocked` follows from `ClientReads`: the reader of
the client never owes a CLOSE, since only frames of a conforming server reach it.
Sums over queues and the wire are the recursive function `Total`. The induction
theorems of the library cannot be instantiated by the provers, so facts about it are
proved by the least counterexample (`LeastNumber`), with well-founded
induction's set form.

`V3Pool_proofs` proves `TypeOK`, `CountExact`, `OneDialPerEndpoint` and
`WorkingSessionsShared`, and that dials and sessions never exceed the limit,
for any finite set of callers and sessions and any endpoints and buckets. The count
alone would be inductive, given the types; that an endpoint is dialled once is
not: it needs that a dialler's bucket is the one its endpoint has now and is
marked as dialling, which a release or a failing dial could break only by forgetting
a bucket in use; and that no bucket in use is forgotten needs that every
working session is listed in the bucket it remembers. `PoolInv` conjoins them. Steps
that neither start nor end a dial nor touch a slot are handled once, by `Quiet`.

`KeyedLock_proofs` proves that the chain of promises implements `FifoLock`
(`LockRefinesFifo`), for any keys and tasks. The invariant says what the chain
is: a waiter's gate is that of the call just before its own, with exactly that
call's predecessors ahead of it (`Chained`); the map names the latest caller and
no entry means no caller (`LastKnown`); of two calls of a key one is ahead
(`Ordered`); whoever is inside has nobody ahead. Each step of the chain is then
a step of the abstract lock or, when a gate opens, the start of the first
waiter.

`HostLiveness_proofs` proves first of the recovery coordinator alone that
recoveries never overlap and that a coalesced request is covered by a success of its
strength, for any number of callers. The invariant adds that the running call is
the one in flight, that waiters await exactly it, and that what a call remembers is
at least what the cooldown does. It then carries these to the composition: every
step of the routes and handlers is a step of the coordinator and of the lock,
or leaves them alone, so the theorems about the parts hold of the whole
(`HostRecoveriesExclusive`, `HostCoalescingCovered`, `HostPromise`), for
any number of transitions. `MessagesOrdered` needs that no message is of a later transition than a task that
still waits or runs (`TasksInTime`), and that a task waits only for those of the same or of
earlier transitions (`OlderAhead`), since a notice is asked for while its transition
is the last; so when the lock admits a task, nobody of an earlier one is left.
`HostTypesOK` is `TypeOK`; its
last two parts are no matter of types: a notice under way is that of the last
transition, which needs that every transition after an offline one cancels it, and no
handler has begun whose transition is to come, since only the handler that holds the
lock goes on and only a transition queues one. The tasks of different transitions
differ (`TasksDiffer`).

`GroupFailover_proofs` proves that a request is never left without a timer, of
the queue alone for any set of groups, and inside the failover with its
restarts and its runs that ask for the next one. Then, for any members and any
order of priority, that runs exclude each other (`FailoverExclusive`), that nothing is
forgotten, that record, memory and provider agree, and that switches are sound
(`FailoverSwitches`). `FailoverExclusive` is the lock's: every step of the failover is a
step of the lock or the restart that forgets it. The others rest on
`FailoverInv`. Its heart is `AtRest`: when no run is inside, either a run
that will read the group anew is certain (`Asked`: a request waits, a batch
has not begun, or a run is about to load), or something unannounced happened
(`missed`), or the recheck timer or the queue's retry is armed, or the group is
`Settled` on its best member with its record published. So that a run may end in
`Settled` or armed, `RunFits` says what is known at each of its steps: what it has
looked at still holds unless a new request has come. The memory
agrees with the provider except while a run is between the provider's answer and
the memory (`Reconciled`). `SwitchesSoundly` has an invariant of its own (`SwitchInv`):
signatures are never newer than the epochs (`SigsPast`), after the provider's answer
`fit` contains whoever is fit now, a run before `Compare` has chosen a member that took part
at its look, which is in `fit` if its epoch is still the signature, and a run before `Write` has
chosen a member of `fit`, one that has ceased to be fit being announced by a
request, a run to come, or `missed`. The assumptions are those of the module: the
order lists every member once, there are three sources of runs, and
failing back is on or off (`NothingForgotten` claims the best member only for
groups that fail back).

`DisplayQueries_proofs` proves `ReadYourWrites`, `OneLoadPerKey` and `Accounted`
for any keys, callers, mutations and limits. The invariant has four
parts: the books (bytes and entries counted are those of the entries, at most
the limits), the order of use (a strict order of the keys present, which makes
`trim` stop at the limit), the versions (what an entry holds, or its load
will bring, is at least the floor of its key; a load that a mutation met is cut off
from its entry and from new callers), and the slots (the queue holds each waiting
load once; the pool's count is the loads that run). It assumes that `None` is no entry
and no number.

`AgentActions_proofs` proves `ReservedWhilePending` and `SuccessStands` for any
sequence of ports, any number of states and workers and any capacities
(`ActionsAssumption`: a state names at least one port, every capacity is at
least one; `PortsDiffer`). Neither is inductive. The invariant has three parts:

- `Placed`: the two queues hold jobs that are in the phase of the queue, each
  once, and how far a job has come says what it can show: none is counted before
  it has been enqueued or belongs to a state not yet received, and only one whose
  action has ended can have succeeded;
- `Booked`: a reservation is that of a job still to be enqueued or a counted one,
  the latest job of a key has it, and `pending` is the number of counted jobs.
  That a release is right even when it does nothing follows since two jobs of one key
  differ in their state (`SameJob`, `ReleaseBooks`);
- `Moves`: no apply resolves before its sync is done, and a sync that runs runs
  alone. Of the latest state, `Latest` says that its transaction counts down the
  applies that have not resolved, that it is marked as failed only if one did fail, and
  (`Stands`) that from the success of the sync until an apply fails the
  configuration is its own, FXP is stopped, and the transaction is open until
  the last apply resolves. An older state cannot touch it: its transaction is not
  that of the configuration's generation (`ResolveIs`), its sync cannot run any
  more, and a listener is restored only while nothing is served.

Steps that neither book nor resolve anything are handled once (`GoesOnFits`,
`MovesRest`); `Start`, `HandleSync`, `Enqueue`, `Settle` and `Receive` have an
argument each. The ports that FXP serves are chosen by a recursive function
(`Moved`); that it yields ports follows by the least counterexample, as for `Total`.

`ActionsGoOn` is freedom from deadlock, `NoJobStranded`: as long as a job has not
ended, some goroutine can go on, for any number of ports, states and workers and
any capacities, one worker and places for one job included. Bounded queues alone
would not give that: a worker that waits for prerequisites holds its slot, and if these
were behind it in the queue all workers could wait for jobs nobody takes. The
invariant `Ordered` excludes it: what a job may wait for has been made before
it, is not made twice, and is never overtaken between `todo`, ingress, queue and the
workers. So if nothing could go on, every worker would be idle or wait, in the end for a
handoff that no worker has; but that handoff is ahead of the job. Hence no worker waits,
queue, ingress and `todo` are empty, and what remains is done.
The property is stated with `CanGoOn`, the disjunction of the guards the actions
use; that it is `ENABLED` of a step, which the provers cannot show, is the invariant
`GuardsSuffice` of `AgentActions_end.cfg`.

Model-checked only: everything with fairness (`SteadyAdmitted`,
`WriterServed`, `EveryCallReturns`, `CloseEndsAll`, `Converges`,
`EveryJobEnds`, `EveryGetSettles`, `SettlesOnBest`, `StatusSettles`,
`LastTransitionAsked`) and `GuardsSuffice`, since liveness and ENABLED are out
of the prover's reach; `RestoredAfterRelease`, `NothingForgotten` and
`LateResultIgnored` of the configurations that show what the code does not keep.

## 6. Plan

1. Proofs: every invariant and every action property of the passing runs is a theorem;
   what is left are the liveness properties. New modules come with their proofs.
2. `AgentActions`: removals, entry groups of several ports, a second shared
   runtime with the link between the two; its composition with `DesiredState`'s
   records.
3. `RuleTasks` (`ruleTaskQueue.ts`: rotation, limits, cancellation, eviction) and
   `KeyedTaskDispatcher` on top of `FifoLock`.
4. `ActionStatus`: batches, the queue limit and the panel's keyed locks.
5. `V3Writer`: the two selects of `writeLoop`; `V3Session` lets controls go
   first.
6. Plugin tasks and panel migration.

## 7. Not modelled

Cryptography and framing of v3 (byte-level; the model starts where frames are
decoded), UDP relaying and socket pumps, the SQL of repositories, payments and
billing (their isolation is the database's), the React client, authentication,
and the effects of actions on systemd, iptables and files. `clear()` of the
gate and of the recovery coordinator and the `waiting` statistics change no
state of a live host. Most of the repository's lines are of these kinds:
pages, routers, SQL, shell generation. Each part is listed with its reason
under `components` in `PROJECT.json`.
