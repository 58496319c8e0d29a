---------------------------- MODULE AgentActions ----------------------------
(* The action workers of an agent (src/agent/actions.go) while the panel moves ports
   that FXP serves to the GOST runtime they all share.  A desired state becomes a batch of
   jobs: a handoff per port stops FXP, one sync writes and starts the shared
   configuration, an apply per port completes the move.  The jobs pass the bounded ingress,
   the dispatcher and the bounded queue to the workers; a failed apply undoes what the
   others did for it. *)
EXTENDS Integers, FiniteSets, SequencesExt

CONSTANTS
    PortList,          \* the ports of every desired state, in its order
    MaxIssue,          \* desired states, the later issued the larger
    Workers,           \* actionWorkerConcurrency
    IngressCapacity,   \* actionIngressCapacity
    QueueCapacity,     \* actionQueueCapacity
    None

Ports  == ToSet(PortList)
Issues == 1..MaxIssue

ASSUME ActionsAssumption ==
    /\ PortList \in Seq(Ports) \ {<<>>} /\ None \notin Ports
    /\ MaxIssue \in Nat
    /\ {Workers, IngressCapacity, QueueCapacity} \subseteq Nat \ {0}

\* A second action of a key is refused (reserveQueuedAction).
ASSUME PortsDiffer == \A m, n \in DOMAIN PortList : PortList[m] = PortList[n] => m = n

Job(kind, p, i) == [kind |-> kind, port |-> p, issue |-> i]
Jobs ==
    {Job("sync", None, i) : i \in Issues}
      \cup {Job(kind, p, i) : kind \in {"handoff", "apply"}, p \in Ports, i \in Issues}

\* actionQueueKey: what coalesces; a handoff has a key of its own.
Key(j) == <<j.kind, j.port>>

VARIABLES
    latest,     \* the epoch of latestActionIssuedAt, one for all keys of a batch
    reserved,   \* queuedActionKeys
    pending,    \* actionPendingCount
    todo,       \* the jobs that syncDesiredState has still to enqueue, per state
    ingress,    \* actionIngress.items
    queue,      \* actionQueue
    job,        \* where each job stands
    conf,       \* the shared configuration and its managedConfigCurrentGeneration
    tx,         \* the transaction of each sync, with the counters of its actionJobResult
    hand,       \* the actionHandoffState of each move: "idle" before and after it matters
    fxp         \* the ports whose FXP listener runs

queueVars == <<latest, reserved, pending, todo, ingress, queue>>
runtimeVars == <<conf, tx, hand, fxp>>
vars == <<queueVars, job, runtimeVars>>

Absent == [phase |-> "none", ok |-> FALSE, ran |-> FALSE, counted |-> FALSE]

\* Every port is served by FXP and nothing has been received.
Init ==
    /\ latest = 0 /\ pending = 0
    /\ reserved = [k \in {Key(j) : j \in Jobs} |-> 0]
    /\ todo = [i \in Issues |-> <<>>]
    /\ ingress = <<>> /\ queue = <<>>
    /\ job = [j \in Jobs |-> Absent]
    /\ conf = [content |-> 0, generation |-> 0]
    /\ tx = [i \in Issues |-> [open |-> FALSE, before |-> 0, left |-> 0, failed |-> FALSE]]
    /\ hand = [p \in Ports |-> [i \in Issues |-> "idle"]]
    /\ fxp = Ports

Phase(j) == job[j].phase

\* isOlderAction(a, false)
Older(j) == j.issue < latest

Prerequisites(j) ==
    CASE j.kind = "handoff" -> {}
      [] j.kind = "sync" ->
           {h \in Jobs : h.kind = "handoff" /\ h.issue = j.issue /\ Phase(h) # "none"}
      [] j.kind = "apply" -> {Job("sync", None, j.issue)}

PrerequisitesDone(j) == \A q \in Prerequisites(j) : Phase(q) = "done"
PrerequisitesOk(j)   == \A q \in Prerequisites(j) : job[q].ok

\* The worker waits for the outcome itself when the action has run; otherwise a goroutine
\* of its own does (finishActionJobOutcome).
Working(j) ==
    \/ Phase(j) \in {"waiting", "running"}
    \/ Phase(j) \in {"ending", "settled"} /\ job[j].ran

\* The holder of a port's serial locks: an action that runs, or a restoration.
Locked(p) ==
    \/ \E j \in Jobs : j.port = p /\ Phase(j) = "running"
    \/ p \in Ports /\ \E i \in Issues : hand[p][i] = "restoring"

\* sharedGostRuntimeSyncGate: a sync excludes every other action.
GateOpen(j) ==
    \A k \in Jobs : Phase(k) = "running" => j.kind # "sync" /\ k.kind # "sync"

Serving == conf.content > 0

-----------------------------------------------------------------------------
(* syncDesiredState *)

\* Mutant: the phase of the shared runtime comes after the ports.
MutantBatch(i, moved) ==
    [n \in 1..Len(moved) |-> Job("handoff", moved[n], i)]
      \o [n \in 1..Len(PortList) |-> Job("apply", PortList[n], i)]
      \o <<Job("sync", None, i)>>

\* prepareDesiredActionJobs
Batch(i, moved) ==
    [n \in 1..Len(moved) |-> Job("handoff", moved[n], i)]
      \o <<Job("sync", None, i)>>
      \o [n \in 1..Len(PortList) |-> Job("apply", PortList[n], i)]

\* The ports that FXP serves, in the order of the state.
Moved ==
    LET moved[n \in 0..Len(PortList)] ==
          IF n = 0 THEN <<>>
          ELSE IF PortList[n] \in fxp THEN Append(moved[n - 1], PortList[n]) ELSE moved[n - 1]
    IN  moved[Len(PortList)]

\* The first loop under desiredActionRecordMu, which remembers the epoch, reserves the keys
\* and captures which ports FXP serves; a state that is older by then has no jobs.
Receive(i) ==
    /\ i > latest
    /\ latest' = i
    /\ LET batch == Batch(i, Moved) IN
       /\ todo' = [todo EXCEPT ![i] = batch]
       /\ job' = [j \in Jobs |-> IF j \in ToSet(batch) THEN [Absent EXCEPT !.phase = "made"]
                                                       ELSE job[j]]
    /\ reserved' = [k \in DOMAIN reserved |-> IF k[1] = "handoff" THEN reserved[k] ELSE i]
    /\ tx' = [tx EXCEPT ![i].left = Cardinality(Ports)]
    /\ UNCHANGED <<pending, ingress, queue, conf, hand, fxp>>

\* Mutant: the reservation goes whoever holds it.
MutantReleased(j) == [reserved EXCEPT ![Key(j)] = 0]

\* releaseQueuedAction
Released(j) ==
    IF reserved[Key(j)] = j.issue THEN [reserved EXCEPT ![Key(j)] = 0] ELSE reserved

CanEnqueue(i) == todo[i] # <<>> /\ Phase(Head(todo[i])) = "made"

\* The second loop, up to the push.
Enqueue(i) ==
    /\ CanEnqueue(i)
    /\ LET j == Head(todo[i]) IN
       IF Older(j)
       THEN /\ job' = [job EXCEPT ![j].phase = "ending"]
            /\ reserved' = Released(j)
            /\ todo' = [todo EXCEPT ![i] = Tail(@)]
            /\ UNCHANGED pending
       ELSE /\ job' = [job EXCEPT ![j].phase = "entering", ![j].counted = TRUE]
            /\ reserved' = [reserved EXCEPT ![Key(j)] = j.issue]
            /\ pending' = pending + 1
            /\ UNCHANGED todo
    /\ UNCHANGED <<latest, ingress, queue, runtimeVars>>

\* byKey of the ingress, as places.
SameKey(j) == {n \in DOMAIN ingress : Key(ingress[n]) = Key(j)}

\* A push waits for space, unless it replaces a job of its key.
CanPush(i) ==
    /\ todo[i] # <<>> /\ Phase(Head(todo[i])) = "entering"
    /\ SameKey(Head(todo[i])) = {} => Len(ingress) < IngressCapacity

\* actionIngressBuffer.push: the replacement takes the last place, and enqueueActionJob
\* finishes the job that lost.
Push(i) ==
    /\ CanPush(i)
    /\ LET j == Head(todo[i]) IN
       \/ /\ SameKey(j) = {}
          /\ ingress' = Append(ingress, j)
          /\ job' = [job EXCEPT ![j].phase = "ingress"]
       \/ \E n \in SameKey(j) :
            IF ingress[n].issue > j.issue
            THEN job' = [job EXCEPT ![j].phase = "ending"] /\ UNCHANGED ingress
            ELSE /\ ingress' = Append(RemoveAt(ingress, n), j)
                 /\ job' = [job EXCEPT ![ingress[n]].phase = "ending", ![j].phase = "ingress"]
    /\ todo' = [todo EXCEPT ![i] = Tail(@)]
    /\ UNCHANGED <<latest, reserved, pending, queue, runtimeVars>>

-----------------------------------------------------------------------------
(* actionDispatcherLoop and actionWorkerLoop *)

\* The job that the dispatcher holds while the channel is full is the last of queue.
CanDispatch == ingress # <<>> /\ Len(queue) <= QueueCapacity

Dispatch ==
    /\ CanDispatch
    /\ ingress' = Tail(ingress)
    /\ LET j == Head(ingress) IN
       IF Older(j)
       THEN job' = [job EXCEPT ![j].phase = "ending"] /\ UNCHANGED queue
       ELSE job' = [job EXCEPT ![j].phase = "queued"] /\ queue' = Append(queue, j)
    /\ UNCHANGED <<latest, reserved, pending, todo, runtimeVars>>

CanTake == queue # <<>> /\ Cardinality({j \in Jobs : Working(j)}) < Workers

Take ==
    /\ CanTake
    /\ queue' = Tail(queue)
    /\ LET j == Head(queue) IN
       job' = [job EXCEPT ![j].phase = IF Older(j) THEN "ending" ELSE "waiting"]
    /\ UNCHANGED <<latest, reserved, pending, todo, ingress, runtimeVars>>

Runs(j) == PrerequisitesOk(j) /\ ~Older(j)

\* waitForActionPrerequisites, the gate, the locks, and the epoch again under the locks.
\* Gate and locks are taken in one step: who holds locks never waits for the gate.
CanStart(j) ==
    /\ Phase(j) = "waiting" /\ PrerequisitesDone(j)
    /\ Runs(j) => GateOpen(j) /\ ~Locked(j.port)

Start(j) ==
    /\ CanStart(j)
    /\ job' = [job EXCEPT ![j].phase = IF Runs(j) THEN "running" ELSE "ending"]
    /\ UNCHANGED <<queueVars, runtimeVars>>

\* The action ends; where it may succeed, it may as well fail.
Ran(j, ok, possible) ==
    /\ Phase(j) = "running" /\ (ok => possible)
    /\ job' = [job EXCEPT ![j].phase = "ending", ![j].ran = TRUE, ![j].ok = ok]

\* The FXP listener is stopped, and can be restored; a failure has put it back.
HandleHandoff(j, ok) ==
    LET p == j.port IN
    /\ j.kind = "handoff" /\ Ran(j, ok, TRUE)
    /\ fxp' = IF ok THEN fxp \ {p} ELSE fxp
    /\ hand' = [hand EXCEPT ![p][j.issue] = IF ok /\ p \in fxp THEN "stopped" ELSE @]
    /\ UNCHANGED <<queueVars, conf, tx>>

\* The configuration is written and its listeners come up, or what was written is restored
\* at once.  An invalid configuration writes nothing.
HandleSync(j, ok) ==
    LET i == j.issue IN
    /\ j.kind = "sync" /\ Ran(j, ok, fxp = {})
    /\ IF ok
       THEN /\ conf' = [content |-> i, generation |-> i]
            /\ tx' = [tx EXCEPT ![i].open = TRUE, ![i].before = conf.content]
       ELSE /\ \E g \in {conf.generation, 0} : conf' = [conf EXCEPT !.generation = g]
            /\ UNCHANGED tx
    /\ UNCHANGED <<queueVars, hand, fxp>>

\* The move of one port: its commands, then the wait for its listener.
HandleApply(j, ok) ==
    /\ j.kind = "apply" /\ Ran(j, ok, Serving /\ j.port \notin fxp)
    /\ UNCHANGED <<queueVars, runtimeVars>>

-----------------------------------------------------------------------------
(* finishActionJob *)

\* Mutant: whatever was written since is overwritten.
MutantUndone(i) == [content |-> tx[i].before, generation |-> 0]

\* managedConfigTransaction.rollback and commit
Undone(i) ==
    IF conf.generation = i THEN [content |-> tx[i].before, generation |-> 0] ELSE conf

Kept(i) == IF conf.generation = i THEN [conf EXCEPT !.generation = 0] ELSE conf

\* actionJobResult.resolveDependent of the sync: the last dependent decides.
Resolve(i, ok) ==
    LET last == tx[i].left = 1
        failed == tx[i].failed \/ ~ok IN
    /\ tx' = [tx EXCEPT ![i].left = @ - 1, ![i].failed = failed /\ ~last, ![i].open = @ /\ ~last,
                  ![i].before = IF last THEN 0 ELSE @]
    /\ conf' = IF ~tx[i].open \/ ~last THEN conf ELSE IF failed THEN Undone(i) ELSE Kept(i)

\* The outcome is published and the bookkeeping released.
Published(j, ok) ==
    /\ job' = [job EXCEPT ![j] = [Absent EXCEPT !.phase = "done", !.ok = ok]]
    /\ IF job[j].counted THEN reserved' = Released(j) /\ pending' = pending - 1
                         ELSE UNCHANGED <<reserved, pending>>

\* The moves whose finalizers the job has to call: each has effect once (sync.Once),
\* and none when FXP was not stopped.
Owed(j, ok) ==
    {p \in Ports : hand[p][j.issue] = "stopped" /\ (j.port = p \/ (j.kind = "sync" /\ ~ok))}

CanSettle(j) == Phase(j) = "ending" /\ PrerequisitesDone(j)

\* resolveFinalActionJobOutcome, up to the finalizers.
Settle(j) ==
    /\ CanSettle(j)
    /\ LET ok == job[j].ok /\ PrerequisitesOk(j)
           owed == IF j.kind = "handoff" THEN {} ELSE Owed(j, ok) IN
       /\ IF j.kind = "apply" THEN Resolve(j.issue, ok) ELSE UNCHANGED <<conf, tx>>
       /\ hand' = [p \in Ports |-> IF p \in owed
                     THEN [hand[p] EXCEPT ![j.issue] = IF ok THEN "commit" ELSE "rollback"]
                     ELSE hand[p]]
       /\ IF owed = {}
          THEN Published(j, ok)
          ELSE /\ job' = [job EXCEPT ![j].phase = "settled", ![j].ok = ok]
               /\ UNCHANGED <<reserved, pending>>
    /\ UNCHANGED <<latest, todo, ingress, queue, fxp>>

\* finalizeActionHandoffState: under the locks of the port, cancelled by a newer state.
CanFinalize(p, i) == hand[p][i] \in {"commit", "rollback"} /\ ~Locked(p)

Finalize(p, i) ==
    /\ CanFinalize(p, i)
    /\ hand' = [hand EXCEPT ![p][i] =
                   IF @ = "commit" \/ i < latest THEN "idle" ELSE "restoring"]
    /\ UNCHANGED <<queueVars, job, conf, tx, fxp>>

\* FXP starts again, unless its port is taken.
Restore(p, i) ==
    /\ hand[p][i] = "restoring"
    /\ hand' = [hand EXCEPT ![p][i] = "idle"]
    /\ fxp' = IF Serving THEN fxp ELSE fxp \cup {p}
    /\ UNCHANGED <<queueVars, job, conf, tx>>

CanClose(j) ==
    /\ Phase(j) = "settled"
    /\ \A p \in Ports : j.kind = "sync" \/ j.port = p =>
         hand[p][j.issue] \in {"idle", "stopped"}

Close(j) ==
    /\ CanClose(j)
    /\ Published(j, job[j].ok)
    /\ UNCHANGED <<latest, todo, ingress, queue, runtimeVars>>

Work(j) ==
    \/ Start(j) \/ Settle(j) \/ Close(j)
    \/ \E ok \in BOOLEAN : HandleHandoff(j, ok) \/ HandleSync(j, ok) \/ HandleApply(j, ok)

\* Whatever goroutine can go on.
Progress ==
    \/ Dispatch \/ Take
    \/ \E i \in Issues : Enqueue(i) \/ Push(i)
    \/ \E j \in Jobs : Work(j)
    \/ \E p \in Ports, i \in Issues : Finalize(p, i) \/ Restore(p, i)

Next == Progress \/ \E i \in Issues : Receive(i)

Spec == Init /\ [][Next]_vars

\* Some goroutine that can go on does; the panel need not send anything.
FairSpec == Spec /\ WF_vars(Progress)

-----------------------------------------------------------------------------
Unfinished(j) == Phase(j) \notin {"none", "done"}

\* Some goroutine can go on: Progress, with each action reduced to its guard.
CanGoOn ==
    \/ CanDispatch \/ CanTake
    \/ \E i \in Issues : CanEnqueue(i) \/ CanPush(i)
    \/ \E j \in Jobs : Phase(j) = "running" \/ CanStart(j) \/ CanSettle(j) \/ CanClose(j)
    \/ \E p \in Ports, i \in Issues : CanFinalize(p, i) \/ hand[p][i] = "restoring"

GuardsSuffice == CanGoOn <=> ENABLED Progress

\* actions.go:1925-1944: workers that wait for the jobs theirs rest on never wait for
\* a job that no worker is left to run, and producers that wait for room get it: while a
\* job is under way, some goroutine can go on.
NoJobStranded == (\E j \in Jobs : Unfinished(j)) => CanGoOn

\* actions.go:1925-1944: so whatever the desired states asked for ends, done or not.
EveryJobEnds == <>[](\A j \in Jobs : ~Unfinished(j))

\* actions.go:205-222, 2290: a key is reserved exactly as long as the latest job of
\* that key is under way: no state that is sent twice runs twice, and none is refused
\* for ever because of a job that is gone.
ReservedWhilePending ==
    /\ \A j \in Jobs : reserved[Key(j)] = j.issue => Unfinished(j)
    /\ \A j \in Jobs : Unfinished(j) /\ ~Older(j) =>
         \/ reserved[Key(j)] = j.issue
         \/ j.kind = "handoff" /\ Phase(j) = "made"
    /\ pending = Cardinality({j \in Jobs : Unfinished(j) /\ job[j].counted})

\* managed_configs.go:195, actions.go:1286: a move that has succeeded for every port of the
\* newest state is not undone by what fails, late, of an older one: neither its
\* configuration nor the listeners FXP had.
SuccessStands ==
    latest > 0 /\ (\A j \in Jobs : j.issue = latest /\ Phase(j) # "none" =>
                     Phase(j) = "done" /\ job[j].ok)
      => conf = [content |-> latest, generation |-> 0] /\ fxp = {}

\* actions.go:1189-1191 says that on a failure the replacement listener is released first,
\* so that restoring FXP cannot race a GOST process that still runs on the port.
RestoredAfterRelease ==
    [][\A p \in Ports, i \in Issues :
         hand'[p][i] = "restoring" /\ hand[p][i] # "restoring" => ~Serving]_vars
=============================================================================
