-------------------------- MODULE EvaluationQueue --------------------------
(***************************************************************************)
(* server/forwardGroupHealthRecheck.ts: ForwardGroupEvaluationQueue.       *)
(* Requests are collected for a debounce time and evaluated one batch at a *)
(* time; a group whose evaluation failed waits for a timer of its own.     *)
(* Delays are left out: an armed timer may fire at any moment.             *)
(***************************************************************************)
CONSTANT Groups

VARIABLES
    pending,    \* the groups requested and not yet taken
    armed,      \* the flush timer runs
    batch,      \* the groups of the running evaluation
    retry       \* the groups with a retry timer

queueVars == <<pending, armed, batch, retry>>

QueueInit == pending = {} /\ armed = FALSE /\ batch = {} /\ retry = {}

\* Mutant: arm() is called before the requests are added.
MutantArms(asked, running) == armed \/ (running = {} /\ pending # {})

Arms(asked, running) == armed \/ (running = {} /\ asked # {})

Enqueue(gs) ==
    /\ pending' = pending \cup gs
    /\ armed' = Arms(pending', batch)
    /\ UNCHANGED <<batch, retry>>

\* The timer: flush() takes all that is pending.
Flush ==
    /\ armed
    /\ armed' = FALSE
    /\ IF batch # {} \/ pending = {} THEN UNCHANGED <<pending, batch>>
       ELSE batch' = pending /\ pending' = {}
    /\ UNCHANGED retry

\* Mutant: a failed batch is not tried again.
MutantEvaluated(failed) ==
    /\ batch # {} /\ failed \subseteq batch
    /\ retry' = retry \ batch
    /\ batch' = {}
    /\ armed' = Arms(pending, {})
    /\ UNCHANGED pending

\* The end of flush(): clearRetry or scheduleRetry for every group of the
\* batch, then the next batch.
Evaluated(failed) ==
    /\ batch # {} /\ failed \subseteq batch
    /\ retry' = (retry \ batch) \cup failed
    /\ batch' = {}
    /\ armed' = Arms(pending, {})
    /\ UNCHANGED pending

RetryFires(g) ==
    /\ g \in retry
    /\ retry' = retry \ {g}
    /\ pending' = pending \cup {g}
    /\ armed' = Arms(pending', batch)
    /\ UNCHANGED batch

QueueNext ==
    \/ Flush
    \/ \E gs \in SUBSET Groups : Enqueue(gs) \/ Evaluated(gs)
    \/ \E g \in Groups : RetryFires(g)

QueueSpec == QueueInit /\ [][QueueNext]_queueVars

-----------------------------------------------------------------------------
QueueType ==
    /\ pending \in SUBSET Groups /\ armed \in BOOLEAN
    /\ batch \in SUBSET Groups /\ retry \in SUBSET Groups

\* A request is never left without a timer, whatever order it came in with
\* a running batch, a failure and the retries: arm() declines while a batch
\* runs, so the end of the batch must arm (forwardGroupHealthRecheck.ts:
\* 146-153, 225-228).
NeverStranded == pending # {} /\ batch = {} => armed
=============================================================================
