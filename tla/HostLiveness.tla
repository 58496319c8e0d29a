---------------------------- MODULE HostLiveness ----------------------------
(***************************************************************************)
(* The status of one host: the tracker of agentFastLiveness.ts, the        *)
(* handlers and the sweep of hostStatusNotifier.ts, the debounced offline  *)
(* notice, the presence and heartbeat routes that write the row, and the   *)
(* recoveries they ask for.  A database call takes effect in a step of its *)
(* own; what follows its answer, up to the next await, is one step.        *)
(* Left out: event streams, registration, panel restarts, and priming.     *)
(***************************************************************************)
EXTENDS Naturals, KeyedLock, RuntimeRecovery

CONSTANTS
    Host,                       \* the key agent-liveness:<host>
    MaxEpoch,                   \* bound: transitions of the tracker
    Attempts,                   \* length of FAST_LIVENESS_RETRY_DELAYS_MS
    Handler(_), Notifier(_),    \* Tasks: of the transition and of its notice
    Background, Heartbeat,      \* Callers: after a presence, in a heartbeat
    MaxChanges, MaxFaults

Epochs == 1..MaxEpoch
Routes == {"presence", "heartbeat"}

ASSUME TasksAreTransitions == Tasks = {Handler(e) : e \in Epochs} \cup {Notifier(e) : e \in Epochs}
ASSUME TasksDiffer ==
    \A d, e \in Epochs : Handler(d) # Notifier(e) /\ (Handler(d) = Handler(e) \/ Notifier(d) = Notifier(e) => d = e)
ASSUME BoundIsNumber == MaxEpoch \in Nat
ASSUME SomeAttempt == Attempts \in Nat \ {0}
ASSUME FaultsAreNumbers == MaxChanges \in Nat /\ MaxFaults \in Nat
ASSUME HostIsKey == Keys = {Host}
ASSUME CallersAreRoutes == Callers = {Background, Heartbeat}

VARIABLES
    agent,      \* up: it reaches the panel; proc: its process
    epoch,      \* transitionEpoch; odd: confirmedOffline
    row,        \* isOnline, lastHeartbeat within its TTL, agentProcessId
    active,     \* authenticated activity within the TTL
    known,      \* lastKnownStatus
    notice,     \* the epoch whose offline notice is debounced, or 0
    notifying,  \* the epoch whose offline notice is being sent, or 0
    tails,      \* the routes whose online message is being sent
    told,       \* history: the epoch of the last message sent under the lock
    handler,    \* epoch -> how far its transition is handled
    route,      \* route -> its request
    sweep,      \* what the sweep has read
    asked,      \* history: the epoch at which the groups were last scheduled
    owed,       \* history: a recovery failed and none has succeeded since
    left

messageVars == <<notifying, tails, told>>
statusVars == <<known, notice, messageVars>>
vars == <<lockVars, recoveryVars, agent, epoch, row, active, statusVars, handler, route, sweep,
          asked, owed, left>>

Confirmed == epoch % 2 = 1

NoRequest == [pc |-> "idle", online |-> FALSE, proc |-> 0, owes |-> FALSE]

\* A connected host at rest.
Init ==
    /\ LockInit /\ RecoveryInit
    /\ agent = [up |-> TRUE, proc |-> 0]
    /\ epoch = 0
    /\ row = [online |-> TRUE, fresh |-> TRUE, proc |-> 0]
    /\ active = TRUE
    /\ known = "online" /\ notice = 0
    /\ notifying = 0 /\ tails = {} /\ told = 0
    /\ handler = [e \in Epochs |-> [pc |-> "start", attempt |-> 1]]
    /\ route = [r \in Routes |-> NoRequest]
    /\ sweep = "idle"
    /\ asked = 0 /\ owed = FALSE
    /\ left = [changes |-> MaxChanges, faults |-> MaxFaults]

Spend(what) == left[what] > 0 /\ left' = [left EXCEPT ![what] = @ - 1]

Touched == [row EXCEPT !.online = TRUE, !.fresh = TRUE]

-----------------------------------------------------------------------------
(* The Agent and time. *)

\* It goes silent, or returns as it was or restarted.  Bound: a silence is
\* as long as the tracker's.
Change ==
    /\ Spend("changes")
    /\ \/ agent.up /\ agent' = [agent EXCEPT !.up = FALSE]
       \/ ~agent.up /\ Confirmed /\ epoch < MaxEpoch /\ agent' \in [up : {TRUE}, proc : {agent.proc, agent.proc + 1}]
    /\ UNCHANGED <<lockVars, recoveryVars, epoch, row, active, statusVars, handler, route, sweep, asked, owed>>

\* A transition: the listener cancels the notice of an offline transition
\* that ends, and queues under the host's lock.
Transits ==
    /\ epoch' = epoch + 1
    /\ Enter(Handler(epoch + 1), Host)
    /\ notice' = IF Confirmed THEN 0 ELSE notice

\* The timer of the tracker.
Silence ==
    /\ ~agent.up /\ ~Confirmed /\ epoch < MaxEpoch
    /\ Transits
    /\ UNCHANGED <<recoveryVars, agent, row, active, known, messageVars, handler, route, sweep, asked, owed, left>>

\* Bound: heartbeat, activity and cooldown grow old in a silence only, when
\* handlers and requests are done.
LongSilence == ~agent.up /\ Confirmed /\ inside = {} /\ tails = {} /\ \A r \in Routes : route[r].pc = "idle"

RowAges ==
    /\ LongSilence /\ row.fresh /\ row' = [row EXCEPT !.fresh = FALSE]
    /\ UNCHANGED <<lockVars, recoveryVars, agent, epoch, active, statusVars, handler, route, sweep, asked, owed, left>>

ActivityAges ==
    /\ LongSilence /\ active /\ active' = FALSE
    /\ UNCHANGED <<lockVars, recoveryVars, agent, epoch, row, statusVars, handler, route, sweep, asked, owed, left>>

Cools ==
    /\ LongSilence /\ CoolsDown
    /\ UNCHANGED <<lockVars, agent, epoch, row, active, statusVars, handler, route, sweep, asked, owed, left>>

-----------------------------------------------------------------------------
(* The handlers of transitions, under the lock. *)

Current(e) == epoch = e

To(e, pc) == handler' = [handler EXCEPT ![e].pc = pc] /\ UNCHANGED lockVars

Ends(e) == handler' = [handler EXCEPT ![e] = [pc |-> "done", attempt |-> 1]] /\ Leave(Handler(e))

\* Mutant: a failed attempt is the last.
MutantGivesUp(e) == Spend("faults") /\ Ends(e)

\* An attempt throws: the next one follows after its delay, or none does.
Throws(e) ==
    /\ Spend("faults")
    /\ IF handler[e].attempt < Attempts
       THEN handler' = [handler EXCEPT ![e] = [pc |-> "start", attempt |-> @.attempt + 1]] /\ UNCHANGED lockVars
       ELSE Ends(e)

At(e, pc) == Handler(e) \in inside /\ handler[e].pc = pc

Wakes ==
    /\ \E t \in Tasks : Proceed(t)
    /\ UNCHANGED <<recoveryVars, agent, epoch, row, active, statusVars, handler, route, sweep, asked, owed, left>>

\* Both handlers begin with the check of the epoch; the online one cancels
\* the notice.
Starts(e) ==
    /\ At(e, "start")
    /\ IF Current(e) THEN To(e, "write") /\ notice' = (IF Confirmed THEN notice ELSE 0)
       ELSE Ends(e) /\ UNCHANGED notice
    /\ UNCHANGED <<recoveryVars, agent, epoch, row, active, known, messageVars, route, sweep, asked, owed, left>>

\* markHostOffline or touchHostHeartbeat.
Writes(e) ==
    /\ At(e, "write")
    /\ \/ /\ row' = IF e % 2 = 1 THEN [row EXCEPT !.online = FALSE] ELSE Touched
          /\ To(e, "wrote") /\ UNCHANGED left
       \/ Throws(e) /\ UNCHANGED row
    /\ UNCHANGED <<recoveryVars, agent, epoch, active, statusVars, route, sweep, asked, owed>>

\* restoreHostOnlineAfterStaleOfflineTransition, if the host is back.
Restores(e) == IF Confirmed THEN Ends(e) ELSE To(e, "restore")

Superseded(e) == IF e % 2 = 1 THEN Restores(e) ELSE Ends(e)

Wrote(e) ==
    /\ At(e, "wrote")
    /\ IF Current(e) THEN To(e, "schedule") ELSE Superseded(e)
    /\ UNCHANGED <<recoveryVars, agent, epoch, row, active, statusVars, route, sweep, asked, owed, left>>

\* scheduleForwardGroupsForHostHealthChange
Schedules(e) ==
    /\ At(e, "schedule")
    /\ \/ asked' = epoch /\ To(e, "tell") /\ UNCHANGED left
       \/ Throws(e) /\ UNCHANGED asked
    /\ UNCHANGED <<recoveryVars, agent, epoch, row, active, statusVars, route, sweep, owed>>

\* notifyHostStatusChange(host, "online"), up to the sending.
TellsOnline == known' = "online" /\ notice' = 0

\* An offline transition puts its notice off; an online one is told unless
\* it is known.
Tells(e) ==
    /\ At(e, "tell")
    /\ \/ ~Current(e) /\ Superseded(e) /\ UNCHANGED <<known, notice>>
       \/ Current(e) /\ Confirmed /\ notice' = e /\ Ends(e) /\ UNCHANGED known
       \/ Current(e) /\ ~Confirmed /\ TellsOnline /\ IF known = "online" THEN Ends(e) ELSE To(e, "send")
    /\ UNCHANGED <<recoveryVars, agent, epoch, row, active, messageVars, route, sweep, asked, owed, left>>

\* sendHostStatusTelegram of an online transition.  It awaits the settings,
\* the host and the recipients, and does not look at the epoch again.
Sends(e) ==
    /\ At(e, "send")
    /\ \/ told' = e /\ Ends(e) /\ UNCHANGED left
       \/ Throws(e) /\ UNCHANGED told
    /\ UNCHANGED <<recoveryVars, agent, epoch, row, active, known, notice, notifying, tails, route, sweep, asked, owed>>

Restored(e) ==
    /\ At(e, "restore")
    /\ \/ row' = Touched /\ To(e, "restored") /\ UNCHANGED left
       \/ Throws(e) /\ UNCHANGED row
    /\ UNCHANGED <<recoveryVars, agent, epoch, active, statusVars, route, sweep, asked, owed>>

\* The newest transition wins.
Undoes(e) == IF Confirmed THEN To(e, "undo") ELSE Ends(e)

RestoreReturns(e) ==
    /\ At(e, "restored") /\ Undoes(e)
    /\ UNCHANGED <<recoveryVars, agent, epoch, row, active, statusVars, route, sweep, asked, owed, left>>

Undone(e) ==
    /\ At(e, "undo")
    /\ \/ row' = [row EXCEPT !.online = FALSE] /\ Ends(e) /\ UNCHANGED left
       \/ Throws(e) /\ UNCHANGED row
    /\ UNCHANGED <<recoveryVars, agent, epoch, active, statusVars, route, sweep, asked, owed>>

\* Mutant: the notice neither waits for the lock of the host nor holds it.
MutantInTurn(e) ==
    /\ at' = [at EXCEPT ![Notifier(e)] = Host] /\ inside' = inside \cup {Notifier(e)}
    /\ UNCHANGED <<pendingTasks, previous, ahead>>

\* The notice takes its place behind the handlers.
InTurn(e) == Enter(Notifier(e), Host)

\* The debounced notice is due.
NoticeFires ==
    /\ notice # 0 /\ notice' = 0
    /\ IF Current(notice) THEN InTurn(notice) ELSE UNCHANGED lockVars
    /\ UNCHANGED <<recoveryVars, agent, epoch, row, active, known, messageVars, handler, route, sweep, asked, owed, left>>

\* notifyHostStatusChange(host, "offline"), up to the sending.
Notifies(e) ==
    /\ Notifier(e) \in inside /\ notifying # e
    /\ IF Current(e) /\ known # "offline"
       THEN known' = "offline" /\ notifying' = e /\ UNCHANGED lockVars
       ELSE Leave(Notifier(e)) /\ UNCHANGED <<known, notifying>>
    /\ UNCHANGED <<recoveryVars, agent, epoch, row, active, notice, tails, told, handler, route, sweep, asked, owed, left>>

\* Its sending ends, or fails; either way it is not repeated.
NoticeSent(e) ==
    /\ notifying = e /\ notifying' = 0
    /\ Leave(Notifier(e))
    /\ \/ told' = e /\ UNCHANGED left
       \/ Spend("faults") /\ UNCHANGED told
    /\ UNCHANGED <<recoveryVars, agent, epoch, row, active, known, notice, tails, handler, route, sweep, asked, owed>>

-----------------------------------------------------------------------------
(* The routes.  Bounds: one request at a time writes the row, a presence   *)
(* waits until the recovery it asked for is over, and a heartbeat that     *)
(* would find nothing new is left out; the next request waits until the    *)
(* message of the last has been sent.                                      *)

Request(r) ==
    /\ agent.up /\ route[r].pc = "idle" /\ \A q \in Routes : route[q].pc \in {"idle", "recovers"}
    /\ tails = {}
    /\ IF r = "presence" THEN call[Background].pc = "idle"
       ELSE Confirmed \/ row # [online |-> TRUE, fresh |-> TRUE, proc |-> agent.proc]
    /\ route' = [route EXCEPT ![r] = [pc |-> "read", online |-> row.online /\ row.fresh, owes |-> FALSE,
                                      proc |-> IF r = "heartbeat" THEN row.proc ELSE 0]]
    /\ UNCHANGED <<lockVars, recoveryVars, agent, epoch, row, active, statusVars, handler, sweep, asked, owed, left>>

\* Bound: a request that would be one transition too many is dropped.
AtBound == Confirmed /\ epoch = MaxEpoch

Drops(r) ==
    /\ route[r].pc = "read" /\ AtBound
    /\ route' = [route EXCEPT ![r] = NoRequest]
    /\ UNCHANGED <<lockVars, recoveryVars, agent, epoch, row, active, statusVars, handler, sweep, asked, owed, left>>

\* isHostStatusOnline, the observation, and whether a recovery is due.
Observes(r) ==
    /\ route[r].pc = "read" /\ ~AtBound
    /\ LET was == route[r].online /\ ~Confirmed
           restarted == r = "heartbeat" /\ route[r].proc # agent.proc
       IN  route' = [route EXCEPT ![r] = [pc |-> "write", online |-> was, owes |-> ~was \/ restarted,
                                                     proc |-> IF r = "heartbeat" THEN agent.proc ELSE 0]]
    /\ active' = TRUE
    /\ IF Confirmed THEN Transits ELSE UNCHANGED <<lockVars, epoch, notice>>
    /\ UNCHANGED <<recoveryVars, agent, row, known, messageVars, handler, sweep, asked, owed, left>>

\* A presence writes the row of a host that was offline, or now and then;
\* a heartbeat writes it with the process.
Persists(r) ==
    /\ route[r].pc = "write"
    /\ \/ /\ row' \in IF r = "heartbeat" THEN {[Touched EXCEPT !.proc = route[r].proc]}
                      ELSE IF route[r].online THEN {row, Touched} ELSE {Touched}
          /\ route' = [route EXCEPT ![r].pc = "wrote"] /\ UNCHANGED left
       \/ Spend("faults") /\ UNCHANGED row /\ route' = [route EXCEPT ![r] = NoRequest]
    /\ UNCHANGED <<lockVars, recoveryVars, agent, epoch, active, statusVars, handler, sweep, asked, owed>>

\* notifyHostOnlineIfNeeded, up to the sending.
TellsReturned(r) ==
    /\ TellsOnline
    /\ IF known = "online" THEN asked' = epoch /\ UNCHANGED tails ELSE tails' = tails \cup {r} /\ UNCHANGED asked
    /\ UNCHANGED <<notifying, told>>

\* The groups are scheduled after the sending, unless it fails.
ReturnSent ==
    /\ \E r \in tails : tails' = tails \ {r}
    /\ \/ asked' = epoch /\ UNCHANGED left
       \/ Spend("faults") /\ UNCHANGED asked
    /\ UNCHANGED <<lockVars, recoveryVars, agent, epoch, row, active, known, notice, notifying, told,
                   handler, route, sweep, owed>>

\* A heartbeat of a host that was offline tells it before it goes on; a
\* presence tells it when its recovery is over.
MustReport(r) == r = "heartbeat" /\ ~route[r].online

Reports(r) ==
    /\ route[r].pc = "wrote" /\ MustReport(r)
    /\ TellsReturned(r)
    /\ route' = [route EXCEPT ![r].pc = "reported"]
    /\ UNCHANGED <<lockVars, recoveryVars, agent, epoch, row, active, handler, sweep, owed, left>>

Recovers(r) ==
    /\ route[r].pc = "reported" \/ (route[r].pc = "wrote" /\ ~MustReport(r))
    /\ IF ~route[r].owes
       THEN route' = [route EXCEPT ![r] = NoRequest] /\ UNCHANGED recoveryVars
       ELSE IF r = "presence"
       THEN route' = [route EXCEPT ![r] = NoRequest] /\ Ask(Background, Full, FALSE)
       ELSE route' = [route EXCEPT ![r].pc = "recovers"] /\ \E s \in Strengths : Ask(Heartbeat, s, FALSE)
    /\ UNCHANGED <<lockVars, agent, epoch, row, active, statusVars, handler, sweep, asked, owed, left>>

RecoverySettles ==
    /\ \E c \in Callers :
          \/ Settle(c, TRUE) /\ owed' = FALSE /\ UNCHANGED left
          \/ Settle(c, FALSE) /\ owed' = TRUE /\ Spend("faults")
    /\ UNCHANGED <<lockVars, agent, epoch, row, active, statusVars, handler, route, sweep, asked>>

RecoveryResumes ==
    /\ \E c \in Callers : Resume(c)
    /\ UNCHANGED <<lockVars, agent, epoch, row, active, statusVars, handler, route, sweep, asked, owed, left>>

\* The recovery after a presence is followed by the notice.
PresenceRecovered ==
    /\ \/ \E a \in {"recovered", "coalesced"} : Return(Background, a) /\ TellsReturned("presence")
       \/ Return(Background, "failed") /\ UNCHANGED <<statusVars, asked>>
    /\ UNCHANGED <<lockVars, agent, epoch, row, active, handler, route, sweep, owed, left>>

\* A failed recovery is the heartbeat's error.
HeartbeatRecovered ==
    /\ \E a \in {"recovered", "coalesced", "failed"} : Return(Heartbeat, a)
    /\ route' = [route EXCEPT !["heartbeat"] = NoRequest]
    /\ UNCHANGED <<lockVars, agent, epoch, row, active, statusVars, handler, sweep, asked, owed, left>>

-----------------------------------------------------------------------------
(* The sweep of the scheduler. *)

\* Mutant: the time of the last activity is not compared with the TTL.
MutantSeenRecently == TRUE

\* hasRecentAuthenticatedAgentActivity
SeenRecently == active

SweepReads ==
    /\ sweep = "idle" /\ row.online /\ ~row.fresh
    /\ sweep' = IF SeenRecently THEN "touch" ELSE "mark"
    /\ UNCHANGED <<lockVars, recoveryVars, agent, epoch, row, active, statusVars, handler, route, asked, owed, left>>

SweepTouches ==
    /\ sweep = "touch" /\ sweep' = "idle"
    /\ row' = Touched
    /\ UNCHANGED <<lockVars, recoveryVars, agent, epoch, active, statusVars, handler, route, asked, owed, left>>

\* markStaleHostsOffline looks at the heartbeat again.
StillStale == row.online /\ ~row.fresh

SweepMarks ==
    /\ sweep = "mark" /\ sweep' = "idle"
    /\ IF StillStale
       THEN row' = [row EXCEPT !.online = FALSE] /\ known' = "offline" /\ asked' = epoch
       ELSE UNCHANGED <<row, known, asked>>
    /\ UNCHANGED <<lockVars, recoveryVars, agent, epoch, active, notice, messageVars, handler, route, owed, left>>

-----------------------------------------------------------------------------
Handle(e) ==
    \/ Starts(e) \/ Writes(e) \/ Wrote(e) \/ Schedules(e) \/ Tells(e) \/ Sends(e)
    \/ Restored(e) \/ RestoreReturns(e) \/ Undone(e) \/ Notifies(e) \/ NoticeSent(e)

Serve(r) == Drops(r) \/ Observes(r) \/ Persists(r) \/ Reports(r) \/ Recovers(r)

Recovery == RecoverySettles \/ RecoveryResumes \/ PresenceRecovered \/ HeartbeatRecovered \/ ReturnSent

Sweep == SweepReads \/ SweepTouches \/ SweepMarks

Next ==
    \/ Change \/ Silence \/ RowAges \/ ActivityAges \/ Cools \/ Wakes \/ NoticeFires \/ Recovery \/ Sweep
    \/ \E e \in Epochs : Handle(e)
    \/ \E r \in Routes : Request(r) \/ Serve(r)

Spec == Init /\ [][Next]_vars

Fairness ==
    /\ WF_vars(Silence) /\ WF_vars(RowAges) /\ WF_vars(ActivityAges)
    /\ WF_vars(Wakes) /\ WF_vars(NoticeFires) /\ WF_vars(Recovery) /\ WF_vars(Sweep)
    /\ \A e \in Epochs : WF_vars(Handle(e))
    /\ \A r \in Routes : WF_vars(Request(r)) /\ WF_vars(Serve(r))

FairSpec == Spec /\ Fairness

-----------------------------------------------------------------------------
\* The types.  A notice under way is that of the last transition, and no
\* handler has begun that has no transition.
TypeOK ==
    /\ LockType /\ RecoveryType
    /\ epoch \in 0..MaxEpoch /\ asked \in 0..MaxEpoch /\ notice \in {0, epoch}
    /\ notifying \in 0..epoch /\ told \in 0..epoch /\ tails \subseteq Routes
    /\ row \in [online : BOOLEAN, fresh : BOOLEAN, proc : 0..MaxChanges]
    /\ known \in {"online", "offline"} /\ sweep \in {"idle", "touch", "mark"}
    /\ \A e \in Epochs : handler[e].attempt \in 1..Attempts
    /\ \A e \in Epochs : e > epoch => handler[e].pc = "start" /\ at[Handler(e)] = None

\* However transitions, stale handlers, requests and the sweep write the row
\* over one another: when the changes have come to an end, it says what is
\* the case.
StatusSettles ==
    <>[](/\ Confirmed => ~row.online
         /\ agent.up /\ ~Confirmed => row.online)

\* The groups of the host are evaluated for its last transition, although
\* handlers are superseded and fail: the forwarding must follow the status.
LastTransitionAsked == <>[](asked = epoch)

\* The messages of transitions reach the administrators in the order of the
\* transitions, although each is sent after awaits that do not look at the
\* epoch again: an offline notice that is still being sent when the host
\* returns is not overtaken by the message of the return, which would leave
\* the older news standing.  The messages of routes and of the sweep are
\* sent without the lock, and are not promised any order.
MessagesInOrder == [][told' >= told]_vars

\* "a failed recovery must be retryable on the next heartbeat instead of
\* being hidden for the whole cooldown window" (agentRuntimeRecovery.ts:
\* 11-13).  The coordinator allows it; nobody asks again.
FailedRecoveryIsRetried == owed /\ agent.up ~> ~owed \/ ~agent.up

\* What the administrators were told last is the case.  It does not hold: a
\* presence's recovery that ends in a newer silence cancels the notice of
\* that silence and tells them online (hostStatusNotifier.ts:170,
\* agentHeartbeatRoute.ts:1414-1415).
KnownSettles == <>[]Confirmed => <>[](known = "offline")
=============================================================================
