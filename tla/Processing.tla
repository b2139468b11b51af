------------------------------ MODULE Processing ------------------------------
(***************************************************************************)
(* The processing of uploaded versions, from the confirmation of the       *)
(* upload to the persisted result: the runs (processing_runs), the outbox  *)
(* publisher, the queue, the QueueEvents listener and the reconciler, over *)
(* the rows of module Documents.                                           *)
(*                                                                         *)
(* Transactions are READ COMMITTED.  persist and persistCompletion read    *)
(* the run without locking it, decide, and save the whole entity: each is  *)
(* a read step and a commit step, between which anything may happen.  A    *)
(* commit is one step, because its first UPDATE locks the run until the    *)
(* end.  All other transactions write without having read, or lock what    *)
(* they read, and are one step.                                            *)
(***************************************************************************)
EXTENDS RunStates, Documents, JobQueue, Outbox

CONSTANTS
  Handler,    \* concurrent executions of QueueEvents callbacks
  Reconciler, \* the execution of ProcessingReconcilerService.reconcile
  MaxFaults,  \* bound on failures: see Fault
  Lossy       \* whether the event stream may drop events

ASSUME ProcessingAssumption ==
  /\ Reconciler \notin Handler
  /\ MaxFaults \in Nat
  /\ Lossy \in BOOLEAN

VARIABLES
  runState,    \* runState[v]: processing_runs.state, "absent" if no row
  stamped,     \* stamped[v]: bull_job_id holds the id of the job
  completions, \* completions[v]: processing.completed/rejected audit events
  handler,     \* handler[a]: the transaction an actor has open
  listed,      \* listed[v]: v in the result of list_reconcilable_runs, to visit
  faults       \* failures so far

runVars == <<runState, stamped, completions>>
actorVars == <<handler, listed>>
vars == <<docVars, queueVars, outboxVars, runVars, actorVars, faults>>

Actor == Handler \cup {Reconciler}

\* step "mark": persist has read the run and will save target; "complete":
\* persistCompletion has, and read bull_job_id as it says in stamped;
\* "reset": the reconciler found no job; "recheck": the reconciler is about
\* to call handleCompleted.
Open(step, v, target, jobId) ==
  [step |-> step, version |-> v, target |-> target, stamped |-> jobId]

IdleHandler == Open("idle", NoVersion, "QUEUED", FALSE)
ReconcilerAt(step, v) == Open(step, v, "QUEUED", FALSE)

HandlerState ==
  [step : {"idle", "mark", "complete", "reset", "recheck"},
   version : Version \cup {NoVersion}, target : RunState, stamped : BOOLEAN]

TypeOK ==
  /\ DocTypeOK
  /\ QueueTypeOK
  /\ OutboxTypeOK
  /\ runState \in [Version -> RunState \cup {"absent"}]
  /\ stamped \in [Version -> BOOLEAN]
  /\ completions \in [Version -> Nat]
  /\ handler \in [Actor -> HandlerState]
  /\ listed \in [Version -> {"no", "stamped", "unstamped"}]
  /\ faults \in 0 .. MaxFaults

Init ==
  /\ DocInit /\ QueueInit /\ OutboxInit
  /\ runState = [v \in Version |-> "absent"]
  /\ stamped = [v \in Version |-> FALSE]
  /\ completions = [v \in Version |-> 0]
  /\ handler = [a \in Actor |-> IdleHandler]
  /\ listed = [v \in Version |-> "no"]
  /\ faults = 0

\* Crashes, failed calls, stalls, lost jobs and claims that outlive a live
\* cycle are counted, so that a behaviour has at most MaxFaults of them.
Fault == faults < MaxFaults /\ faults' = faults + 1

-----------------------------------------------------------------------------
(* Uploading.                                                              *)

Create(v) ==
  /\ CreateVersion(v)
  /\ UNCHANGED <<queueVars, outboxVars, runVars, actorVars, faults>>

\* Mutant: the state of the version is not checked.
ConfirmAgain(v) ==
  /\ versionState[v] # "absent"
  /\ versionState' = [versionState EXCEPT ![v] = "SCAN_QUEUED"]
  /\ status' = "PROCESSING"
  /\ InsertEvent(v)
  /\ runState' = [runState EXCEPT ![v] = "QUEUED"]
  /\ UNCHANGED <<current, reviewed, queueVars, stamped, completions, actorVars, faults>>

\* One transaction: the version, the run and the outbox row.
Confirm(v) ==
  /\ ConfirmVersion(v)
  /\ InsertEvent(v)
  /\ runState' = [runState EXCEPT ![v] = "QUEUED"]
  /\ UNCHANGED <<queueVars, stamped, completions, actorVars, faults>>

-----------------------------------------------------------------------------
(* publishPending: claim, then for each row add the job, stamp the run and *)
(* complete the row.                                                       *)

Claim(t) ==
  /\ ClaimEvents(t)
  /\ UNCHANGED <<docVars, queueVars, runVars, actorVars, faults>>

Add(t, v) ==
  /\ TakeEvent(t, v, "stamp")
  /\ Enqueue(v)
  /\ UNCHANGED <<docVars, rowVars, runVars, actorVars, faults>>

AddFails(t, v) ==
  /\ TakeEvent(t, v, "release")
  /\ Fault
  /\ UNCHANGED <<docVars, queueVars, rowVars, runVars, actorVars>>

Stamp(t) ==
  /\ MoveCycle(t, "stamp", "settle")
  /\ stamped' = [stamped EXCEPT ![cycle[t].event] = TRUE]
  /\ UNCHANGED <<docVars, queueVars, rowVars, runState, completions, actorVars, faults>>

\* Mutant: the failure of the stamp is swallowed.
StampSkipped(t) ==
  /\ MoveCycle(t, "stamp", "settle")
  /\ Fault
  /\ UNCHANGED <<docVars, queueVars, rowVars, runVars, actorVars>>

StampFails(t) ==
  /\ MoveCycle(t, "stamp", "release")
  /\ Fault
  /\ UNCHANGED <<docVars, queueVars, rowVars, runVars, actorVars>>

Settle(t) ==
  /\ SettleEvent(t)
  /\ UNCHANGED <<docVars, queueVars, runVars, actorVars, faults>>

CompleteCallFails(t) ==
  /\ SettleFails(t)
  /\ Fault
  /\ UNCHANGED <<docVars, queueVars, runVars, actorVars>>

Release(t) ==
  /\ ReleaseEvent(t)
  /\ UNCHANGED <<docVars, queueVars, runVars, actorVars, faults>>

PublisherDies(t) ==
  /\ AbortCycle(t)
  /\ Fault
  /\ UNCHANGED <<docVars, queueVars, runVars, actorVars>>

\* A claim nobody works on runs out by itself; one that a cycle still works
\* on runs out only if that cycle was held up for five minutes, a fault.
Expire(v) ==
  /\ ExpireClaim(v)
  /\ IF Abandoned(v) THEN UNCHANGED faults ELSE Fault
  /\ UNCHANGED <<docVars, queueVars, runVars, actorVars>>

-----------------------------------------------------------------------------
(* The worker and Redis.                                                   *)

WorkerStep(v) ==
  /\ TakeJob(v) \/ FinishJob(v) \/ FailAttempt(v) \/ RetryJob(v)
  /\ UNCHANGED <<docVars, outboxVars, runVars, actorVars, faults>>

QueueFault(v) ==
  /\ StallJob(v) \/ LoseJob(v)
  /\ Fault
  /\ UNCHANGED <<docVars, outboxVars, runVars, actorVars>>

LoseEvent(e) ==
  /\ Lossy
  /\ DropEvent(e)
  /\ UNCHANGED <<docVars, outboxVars, runVars, actorVars, faults>>

-----------------------------------------------------------------------------
(* persist and persistCompletion, the two writers of a run's state.        *)

\* persist finds the run, and goes on only if the table allows the target.
\* Without a transition it returns, after which the reconciler goes on.
ReadForMark(a, v, target) ==
  handler' = [handler EXCEPT ![a] =
    IF CanMove(runState[v], target) THEN Open("mark", v, target, TRUE)
    ELSE IF a = Reconciler THEN ReconcilerAt("recheck", v)
    ELSE IdleHandler]

\* persist saves the entity it read, with the state and the job id it set.
CommitMark(a) ==
  LET h == handler[a] IN
  /\ h.step = "mark"
  /\ runState' = [runState EXCEPT ![h.version] = h.target]
  /\ stamped' = [stamped EXCEPT ![h.version] = TRUE]
  /\ handler' = [handler EXCEPT ![a] =
       IF a = Reconciler THEN ReconcilerAt("recheck", h.version) ELSE IdleHandler]
  /\ UNCHANGED <<docVars, queueVars, outboxVars, completions, listed, faults>>

\* The state the result of version v asks for.
ResultState(v) == IF Verdict[v] = "completed" THEN "COMPLETED" ELSE "FAILED"

\* handleCompleted takes the result from the job and persistCompletion reads
\* the run.  A run already in that state is a redelivery and is returned as
\* it is; one that cannot move there makes it throw.
ReadForCompletion(a, v) ==
  handler' = [handler EXCEPT ![a] =
    IF job[v] = "completed" /\ CanMove(runState[v], ResultState(v))
      THEN Open("complete", v, ResultState(v), stamped[v])
      ELSE IdleHandler]

\* The rest of persistCompletion: run, audit, version, document, review.
CommitCompletion(a) ==
  LET h == handler[a] IN
  /\ h.step = "complete"
  /\ runState' = [runState EXCEPT ![h.version] = h.target]
  /\ stamped' = [stamped EXCEPT ![h.version] = h.stamped]
  /\ completions' = [completions EXCEPT ![h.version] = @ + 1]
  /\ IF h.target = "COMPLETED" THEN CompletedEffect(h.version)
                               ELSE RejectedEffect(h.version)
  /\ handler' = [handler EXCEPT ![a] = IdleHandler]
  /\ UNCHANGED <<queueVars, outboxVars, listed, faults>>

-----------------------------------------------------------------------------
(* The QueueEvents callbacks.  They are not awaited, so they overlap.      *)

\* The target handleFailure computes from the job as it is now.
FailureTarget(v) ==
  IF attempts[v] < MaxAttempts THEN "RETRY_SCHEDULED" ELSE "DEAD_LETTERED"

\* The callback of an event: it finds the job by id, or returns.
HandleEvent(a, e) ==
  LET v == e[2] IN
  /\ e \in events
  /\ handler[a].step = "idle"
  /\ events' = events \ {e}
  /\ \/ job[v] = "none" /\ UNCHANGED handler
     \/ job[v] # "none" /\ e[1] = "active" /\ ReadForMark(a, v, "ACTIVE")
     \/ job[v] # "none" /\ e[1] = "failed" /\ ReadForMark(a, v, FailureTarget(v))
     \/ job[v] # "none" /\ e[1] = "completed" /\ ReadForCompletion(a, v)
  /\ UNCHANGED <<docVars, job, attempts, lost, outboxVars, runVars, listed, faults>>

-----------------------------------------------------------------------------
(* The reconciler: list the runs, then visit them one by one.              *)

\* list_reconcilable_runs, with the bull_job_id each run has now.
ListRuns ==
  /\ handler[Reconciler].step = "idle"
  /\ \A v \in Version : listed[v] = "no"
  /\ \E v \in Version : runState[v] \in ReconcilableState
  /\ listed' = [v \in Version |->
       IF runState[v] \notin ReconcilableState THEN "no"
       ELSE IF stamped[v] THEN "stamped" ELSE "unstamped"]
  /\ UNCHANGED <<docVars, queueVars, outboxVars, runVars, handler, faults>>

\* Mutant: a completed job is handled at once, without the move to ACTIVE.
VisitWithoutActive(v) ==
  LET found == listed[v] = "stamped" /\ job[v] # "none" IN
  /\ listed[v] # "no"
  /\ handler[Reconciler].step = "idle"
  /\ listed' = [listed EXCEPT ![v] = "no"]
  /\ \/ found /\ job[v] = "completed" /\ ReadForCompletion(Reconciler, v)
     \/ found /\ job[v] # "completed" /\ UNCHANGED handler
     \/ ~found /\ handler' = [handler EXCEPT ![Reconciler] = ReconcilerAt("reset", v)]
  /\ UNCHANGED <<docVars, queueVars, outboxVars, runVars, faults>>

\* getJob: without a bull_job_id the key itself is looked up, which is the id
\* of no job.  A completed job is recovered, a missing one repaired, and any
\* other left alone.
VisitRun(v) ==
  LET found == listed[v] = "stamped" /\ job[v] # "none" IN
  /\ listed[v] # "no"
  /\ handler[Reconciler].step = "idle"
  /\ listed' = [listed EXCEPT ![v] = "no"]
  /\ \/ found /\ job[v] = "completed" /\ ReadForMark(Reconciler, v, "ACTIVE")
     \/ found /\ job[v] # "completed" /\ UNCHANGED handler
     \/ ~found /\ handler' = [handler EXCEPT ![Reconciler] = ReconcilerAt("reset", v)]
  /\ UNCHANGED <<docVars, queueVars, outboxVars, runVars, faults>>

\* The outbox row is made pending again.  The publishPending call after it
\* is one more Claim, which any cycle may take at any time.
ResetOutbox ==
  LET v == handler[Reconciler].version IN
  /\ handler[Reconciler].step = "reset"
  /\ ResetEvent(v)
  /\ lost' = [lost EXCEPT ![v] = FALSE]
  /\ handler' = [handler EXCEPT ![Reconciler] = IdleHandler]
  /\ UNCHANGED <<docVars, job, attempts, events, runVars, listed, faults>>

\* After persist, reconcileCompleted goes on with handleCompleted.
Recheck ==
  /\ handler[Reconciler].step = "recheck"
  /\ ReadForCompletion(Reconciler, handler[Reconciler].version)
  /\ UNCHANGED <<docVars, queueVars, outboxVars, runVars, listed, faults>>

-----------------------------------------------------------------------------
\* A transaction fails (lost connection, deadlock) and rolls back.
HandlerFails(a) ==
  /\ handler[a].step # "idle"
  /\ handler' = [handler EXCEPT ![a] = IdleHandler]
  /\ Fault
  /\ UNCHANGED <<docVars, queueVars, outboxVars, runVars, listed>>

\* The API process dies with everything it had open.
ApiCrashes ==
  /\ cycle' = [t \in Cycle |-> IdleCycle]
  /\ handler' = [a \in Actor |-> IdleHandler]
  /\ listed' = [v \in Version |-> "no"]
  /\ Fault
  /\ UNCHANGED <<docVars, queueVars, rowVars, runVars>>

CycleStep(t) ==
  \/ \E v \in Version : Add(t, v)
  \/ Stamp(t) \/ Settle(t) \/ Release(t)

ReconcilerStep ==
  \/ ListRuns \/ ResetOutbox \/ Recheck
  \/ \E v \in Version : VisitRun(v)

Next ==
  \/ \E v \in Version : Create(v) \/ Confirm(v)
  \/ \E t \in Cycle : Claim(t) \/ CycleStep(t)
  \/ \E t \in Cycle : \/ \E v \in Version : AddFails(t, v)
                      \/ StampFails(t) \/ CompleteCallFails(t) \/ PublisherDies(t)
  \/ \E v \in Version : Expire(v) \/ WorkerStep(v) \/ QueueFault(v)
  \/ \E e \in Event : LoseEvent(e) \/ \E a \in Handler : HandleEvent(a, e)
  \/ \E a \in Actor : CommitMark(a) \/ CommitCompletion(a) \/ HandlerFails(a)
  \/ ReconcilerStep
  \/ ApiCrashes

Spec == Init /\ [][Next]_vars

(***************************************************************************)
(* The timers of the publisher and of the reconciler keep firing, what     *)
(* they started goes on, workers keep taking jobs, transactions that are   *)
(* open end, time passes over an abandoned claim, and an event is lost or  *)
(* handled.  Nothing obliges a user to upload or confirm.                  *)
(***************************************************************************)
Fairness ==
  /\ WF_vars(\E t \in Cycle : Claim(t))
  /\ \A t \in Cycle : WF_vars(CycleStep(t))
  /\ \A v \in Version : WF_vars(WorkerStep(v)) /\ WF_vars(Abandoned(v) /\ Expire(v))
  /\ \A a \in Actor : WF_vars(CommitMark(a) \/ CommitCompletion(a))
  /\ WF_vars(ReconcilerStep)
  /\ \A e \in Event : WF_vars(\E a \in Handler : HandleEvent(a, e))

FairSpec == Spec /\ Fairness

-----------------------------------------------------------------------------
(* Safety.                                                                 *)

\* The outbox loses no job: a row is marked published only once its job is in
\* the queue.  This survives claims that expire under a slow publisher, rows
\* claimed twice, failed bookkeeping and the reconciler's reset; only Redis
\* losing the job afterwards (and no reset since) breaks the link.
\* (publishPending, complete_outbox_event and its claim_token comparison.)
PublishedJobIsQueuedOrLost ==
  \A v \in Version : outbox[v] = "published" => job[v] # "none" \/ lost[v]

\* A published run that the reconciler will list carries the id of its job,
\* so that the reconciler looks up the right job: neither a publisher that
\* died half-way nor a completion that saves the entity it read before the
\* stamp can leave a listed run without it.
PublishedRunIsFindable ==
  \A v \in Version :
    outbox[v] = "published" /\ runState[v] \in ReconcilableState => stamped[v]

\* A result is accepted once for each idempotency key: one processing.completed
\* or processing.rejected audit event for a run (processing-queue.md:55).
ResultAcceptedOnce == \A v \in Version : completions[v] <= 1

(* Liveness, under FairSpec.                                               *)

\* A confirmed upload is not forgotten: its result is persisted, or its job
\* used up its attempts.  Every event may be lost, publishers may die.
UploadIsProcessed ==
  \A v \in Version :
    versionState[v] = "SCAN_QUEUED" ~>
      versionState[v] \in {"READY_FOR_REVIEW", "REJECTED"} \/ job[v] = "failed"

\* The run of a completed job reaches the state of its result, again if a
\* late callback overwrote it, unless the job is lost or the run was
\* dead-lettered for an earlier job.
CompletionIsRecovered ==
  \A v \in Version :
    job[v] = "completed" ~>
      runState[v] \in {ResultState(v), "DEAD_LETTERED"} \/ job[v] # "completed"

\* "Falhas esgotadas geram registro DEAD_LETTERED" (processing-queue.md:62):
\* the run of a job that failed for good becomes DEAD_LETTERED.
ExhaustedIsDeadLettered ==
  \A v \in Version :
    job[v] = "failed" ~> runState[v] = "DEAD_LETTERED" \/ job[v] # "failed"

-----------------------------------------------------------------------------
(* The inductive invariant: what the parts rely on of each other.          *)

Confirmed(v) == versionState[v] \notin {"absent", "UPLOADING"}

\* Runs and outbox rows come from confirmation, and so does what is listed.
ConfirmationFirst ==
  \A v \in Version :
    ~Confirmed(v) => runState[v] = "absent" /\ outbox[v] = "absent" /\ listed[v] = "no"

\* Only pending rows are claimed.
ClaimedIsPending == \A v \in Version : claim[v] # NoCycle => outbox[v] = "pending"

\* A cycle works on rows that exist, and on one exactly between TakeEvent and
\* EndEvent.
CycleShape ==
  \A t \in Cycle :
    /\ cycle[t].event \in Version <=> cycle[t].step \in {"stamp", "settle", "release"}
    /\ \A v \in Version : v \in cycle[t].todo \/ v = cycle[t].event => outbox[v] # "absent"

\* A cycle that still holds the claim has its job in the queue, or saw it
\* lost: a reset, which forgets the loss, also takes the claim away.
AddedBeforeSettled ==
  \A t \in Cycle : \A v \in Version :
    /\ cycle[t].step \in {"stamp", "settle"}
    /\ cycle[t].event = v
    /\ claim[v] = t
    => job[v] # "none" \/ lost[v]

\* A cycle completes a row after it stamped the run, and only a completion
\* can take the stamp away.
StampedBeforeSettled ==
  \A t \in Cycle : \A v \in Version :
    cycle[t].step = "settle" /\ cycle[t].event = v
      => stamped[v] \/ runState[v] \notin ReconcilableState

MarkedIsStamped ==
  \A v \in Version : runState[v] \in {"ACTIVE", "RETRY_SCHEDULED"} => stamped[v]

AttemptsLeft ==
  \A v \in Version : job[v] \in {"waiting", "active", "delayed"} => attempts[v] < MaxAttempts

\* What an actor has open, a transaction or a visit, is about a confirmed
\* version; persist never asks for QUEUED, and persistCompletion asks for
\* the state of the version's result.
OpenTransactions ==
  \A a \in Actor :
    LET h == handler[a] IN
    /\ h.step # "idle" => h.version \in Version /\ Confirmed(h.version)
    /\ h.step = "mark" => h.target \in {"ACTIVE", "RETRY_SCHEDULED", "DEAD_LETTERED"}
    /\ h.step = "complete" => h.target = ResultState(h.version)

\* A version's final state is that of its result.
VerdictKept ==
  \A v \in Version :
    /\ versionState[v] = "READY_FOR_REVIEW" => Verdict[v] = "completed" /\ v \in reviewed
    /\ versionState[v] = "REJECTED" => Verdict[v] = "rejected"

IInv ==
  /\ TypeOK
  /\ ConfirmationFirst
  /\ ClaimedIsPending
  /\ CycleShape
  /\ AddedBeforeSettled
  /\ StampedBeforeSettled
  /\ MarkedIsStamped
  /\ AttemptsLeft
  /\ OpenTransactions
  /\ VerdictKept
  /\ CurrentIsNewestReady
  /\ PublishedJobIsQueuedOrLost
  /\ PublishedRunIsFindable
==============================================================================
