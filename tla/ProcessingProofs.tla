--------------------------- MODULE ProcessingProofs ---------------------------
(***************************************************************************)
(* Safety of the processing of versions, for any number of versions,       *)
(* publisher cycles, callbacks, attempts and failures, and that it         *)
(* implements module Documents.                                            *)
(***************************************************************************)
EXTENDS Processing, DocumentsProofs

USE MaxVersionAssumption, JobQueueAssumption, NoCycleAssumption, ProcessingAssumption
    DEF Version, NoVersion, Actor

-----------------------------------------------------------------------------
(* Which action writes which rows.                                         *)

\* The rows of the document change only when a user acts or a result commits.
LEMMA DocWriters ==
  Next => \/ UNCHANGED docVars
          \/ \E v \in Version : Create(v) \/ Confirm(v)
          \/ \E a \in Actor : CommitCompletion(a)
<1> SUFFICES ASSUME Next
             PROVE  \/ UNCHANGED docVars
                    \/ \E v \in Version : Create(v) \/ Confirm(v)
                    \/ \E a \in Actor : CommitCompletion(a)
  OBVIOUS
<1>1. ASSUME NEW t \in Cycle,
             \/ Claim(t) \/ Stamp(t) \/ StampFails(t) \/ Settle(t)
             \/ CompleteCallFails(t) \/ Release(t) \/ PublisherDies(t)
             \/ \E v \in Version : Add(t, v) \/ AddFails(t, v)
      PROVE  UNCHANGED docVars
  BY <1>1 DEF Claim, Add, AddFails, Stamp, StampFails, Settle, CompleteCallFails,
              Release, PublisherDies
<1>2. ASSUME NEW v \in Version, Expire(v) \/ WorkerStep(v) \/ QueueFault(v) \/ VisitRun(v)
      PROVE  UNCHANGED docVars
  BY <1>2 DEF Expire, WorkerStep, QueueFault, VisitRun
<1>3. ASSUME NEW a \in Actor,
             \/ \E e \in Event : LoseEvent(e) \/ HandleEvent(a, e)
             \/ CommitMark(a) \/ HandlerFails(a)
      PROVE  UNCHANGED docVars
  BY <1>3 DEF LoseEvent, HandleEvent, CommitMark, HandlerFails
<1>4. ASSUME ListRuns \/ ResetOutbox \/ Recheck \/ ApiCrashes
      PROVE  UNCHANGED docVars
  BY <1>4 DEF ListRuns, ResetOutbox, Recheck, ApiCrashes
<1> QED BY <1>1, <1>2, <1>3, <1>4 DEF Next, CycleStep, ReconcilerStep

\* Rows of the outbox and cycles change only in the publisher, by
\* confirmation, by the reconciler's reset and by a crash.
LEMMA OutboxWriters ==
  Next => \/ UNCHANGED outboxVars
          \/ \E v \in Version : Confirm(v) \/ Expire(v)
          \/ \E t \in Cycle :
               \/ Claim(t) \/ CycleStep(t)
               \/ \E v \in Version : AddFails(t, v)
               \/ StampFails(t) \/ CompleteCallFails(t) \/ PublisherDies(t)
          \/ ResetOutbox \/ ApiCrashes
<1> SUFFICES ASSUME Next
             PROVE  \/ UNCHANGED outboxVars
                    \/ \E v \in Version : Confirm(v) \/ Expire(v)
                    \/ \E t \in Cycle :
                         \/ Claim(t) \/ CycleStep(t)
                         \/ \E v \in Version : AddFails(t, v)
                         \/ StampFails(t) \/ CompleteCallFails(t) \/ PublisherDies(t)
                    \/ ResetOutbox \/ ApiCrashes
  OBVIOUS
<1>1. ASSUME NEW v \in Version, Create(v) \/ WorkerStep(v) \/ QueueFault(v) \/ VisitRun(v)
      PROVE  UNCHANGED outboxVars
  BY <1>1 DEF Create, WorkerStep, QueueFault, VisitRun
<1>2. ASSUME NEW a \in Actor,
             \/ \E e \in Event : LoseEvent(e) \/ HandleEvent(a, e)
             \/ CommitMark(a)
             \/ CommitCompletion(a) \/ HandlerFails(a)
      PROVE  UNCHANGED outboxVars
  BY <1>2 DEF LoseEvent, HandleEvent, CommitMark, CommitCompletion, HandlerFails
<1>3. ASSUME ListRuns \/ Recheck
      PROVE  UNCHANGED outboxVars
  BY <1>3 DEF ListRuns, Recheck
<1> QED BY <1>1, <1>2, <1>3 DEF Next, ReconcilerStep

\* A run changes only by confirmation, by the publisher's stamp and by the
\* two commits.
LEMMA RunWriters ==
  Next => \/ UNCHANGED runVars
          \/ \E v \in Version : Confirm(v)
          \/ \E t \in Cycle : Stamp(t)
          \/ \E a \in Actor : CommitMark(a) \/ CommitCompletion(a)
<1> SUFFICES ASSUME Next
             PROVE  \/ UNCHANGED runVars
                    \/ \E v \in Version : Confirm(v)
                    \/ \E t \in Cycle : Stamp(t)
                    \/ \E a \in Actor : CommitMark(a) \/ CommitCompletion(a)
  OBVIOUS
<1>1. ASSUME NEW t \in Cycle,
             \/ Claim(t) \/ StampFails(t) \/ Settle(t)
             \/ CompleteCallFails(t) \/ Release(t) \/ PublisherDies(t)
             \/ \E v \in Version : Add(t, v) \/ AddFails(t, v)
      PROVE  UNCHANGED runVars
  BY <1>1 DEF Claim, Add, AddFails, StampFails, Settle, CompleteCallFails, Release,
              PublisherDies
<1>2. ASSUME NEW v \in Version,
             Create(v) \/ Expire(v) \/ WorkerStep(v) \/ QueueFault(v) \/ VisitRun(v)
      PROVE  UNCHANGED runVars
  BY <1>2 DEF Create, Expire, WorkerStep, QueueFault, VisitRun
<1>3. ASSUME NEW a \in Actor,
             \/ \E e \in Event : LoseEvent(e) \/ HandleEvent(a, e)
             \/ HandlerFails(a)
      PROVE  UNCHANGED runVars
  BY <1>3 DEF LoseEvent, HandleEvent, HandlerFails
<1>4. ASSUME ListRuns \/ ResetOutbox \/ Recheck \/ ApiCrashes
      PROVE  UNCHANGED runVars
  BY <1>4 DEF ListRuns, ResetOutbox, Recheck, ApiCrashes
<1> QED BY <1>1, <1>2, <1>3, <1>4 DEF Next, CycleStep, ReconcilerStep

\* A job changes only when it is added, by the worker or by a fault; that it
\* was lost is forgotten by the reconciler's reset; events are also taken by
\* callbacks and dropped.
LEMMA QueueWriters ==
  Next => \/ UNCHANGED queueVars
          \/ UNCHANGED <<job, attempts, lost>> /\ events' \in SUBSET events
          \/ \E t \in Cycle, v \in Version : Add(t, v)
          \/ \E v \in Version : WorkerStep(v) \/ QueueFault(v)
          \/ ResetOutbox
<1> SUFFICES ASSUME Next
             PROVE  \/ UNCHANGED queueVars
                    \/ UNCHANGED <<job, attempts, lost>> /\ events' \in SUBSET events
                    \/ \E t \in Cycle, v \in Version : Add(t, v)
                    \/ \E v \in Version : WorkerStep(v) \/ QueueFault(v)
                    \/ ResetOutbox
  OBVIOUS
<1>1. ASSUME NEW t \in Cycle,
             \/ Claim(t) \/ Stamp(t) \/ StampFails(t) \/ Settle(t)
             \/ CompleteCallFails(t) \/ Release(t) \/ PublisherDies(t)
             \/ \E v \in Version : AddFails(t, v)
      PROVE  UNCHANGED queueVars
  BY <1>1 DEF Claim, AddFails, Stamp, StampFails, Settle, CompleteCallFails, Release,
              PublisherDies
<1>2. ASSUME NEW v \in Version, Create(v) \/ Confirm(v) \/ Expire(v) \/ VisitRun(v)
      PROVE  UNCHANGED queueVars
  BY <1>2 DEF Create, Confirm, Expire, VisitRun
<1>3. ASSUME NEW a \in Actor, CommitMark(a) \/ CommitCompletion(a) \/ HandlerFails(a)
      PROVE  UNCHANGED queueVars
  BY <1>3 DEF CommitMark, CommitCompletion, HandlerFails
<1>4. ASSUME ListRuns \/ Recheck \/ ApiCrashes
      PROVE  UNCHANGED queueVars
  BY <1>4 DEF ListRuns, Recheck, ApiCrashes
<1>5. ASSUME NEW e \in Event, LoseEvent(e) \/ \E a \in Handler : HandleEvent(a, e)
      PROVE  UNCHANGED <<job, attempts, lost>> /\ events' \in SUBSET events
  BY <1>5 DEF LoseEvent, DropEvent, HandleEvent
<1> QED BY <1>1, <1>2, <1>3, <1>4, <1>5 DEF Next, CycleStep, ReconcilerStep

\* What an actor has open and the reconciler's list change only in their own
\* steps and by a crash.
LEMMA ActorWriters ==
  Next => \/ UNCHANGED actorVars
          \/ \E e \in Event, a \in Handler : HandleEvent(a, e)
          \/ \E a \in Actor : CommitMark(a) \/ CommitCompletion(a) \/ HandlerFails(a)
          \/ ReconcilerStep
          \/ ApiCrashes
<1> SUFFICES ASSUME Next
             PROVE  \/ UNCHANGED actorVars
                    \/ \E e \in Event, a \in Handler : HandleEvent(a, e)
                    \/ \E a \in Actor : CommitMark(a) \/ CommitCompletion(a) \/ HandlerFails(a)
                    \/ ReconcilerStep
                    \/ ApiCrashes
  OBVIOUS
<1>1. ASSUME NEW t \in Cycle,
             \/ Claim(t) \/ Stamp(t) \/ StampFails(t) \/ Settle(t)
             \/ CompleteCallFails(t) \/ Release(t) \/ PublisherDies(t)
             \/ \E v \in Version : Add(t, v) \/ AddFails(t, v)
      PROVE  UNCHANGED actorVars
  BY <1>1 DEF Claim, Add, AddFails, Stamp, StampFails, Settle, CompleteCallFails,
              Release, PublisherDies
<1>2. ASSUME NEW v \in Version,
             Create(v) \/ Confirm(v) \/ Expire(v) \/ WorkerStep(v) \/ QueueFault(v)
      PROVE  UNCHANGED actorVars
  BY <1>2 DEF Create, Confirm, Expire, WorkerStep, QueueFault
<1>3. ASSUME NEW e \in Event, LoseEvent(e)
      PROVE  UNCHANGED actorVars
  BY <1>3 DEF LoseEvent
<1> QED BY <1>1, <1>2, <1>3 DEF Next, CycleStep

-----------------------------------------------------------------------------
(* Processing implements Documents.                                        *)

\* Every step is a step of the document or leaves it alone: a second
\* completion of a version, by the listener and the reconciler, changes
\* nothing, because it was completed from the same result.
LEMMA DocSteps == IInv /\ [Next]_vars => [DocNext]_docVars
<1> SUFFICES ASSUME IInv, Next
             PROVE  [DocNext]_docVars
  BY DEF vars
<1>1. ASSUME NEW v \in Version, Create(v) \/ Confirm(v)
      PROVE  DocNext
  BY <1>1 DEF Create, Confirm, DocNext
<1>2. ASSUME NEW a \in Actor, CommitCompletion(a)
      PROVE  [DocNext]_docVars
  <2> DEFINE v == handler[a].version
  <2>1. /\ handler[a].step = "complete"
        /\ v \in Version
        /\ Confirmed(v)
        /\ handler[a].target = ResultState(v)
    BY <1>2 DEF CommitCompletion, IInv, OpenTransactions
  <2>2. versionState[v] \in {"SCAN_QUEUED", "READY_FOR_REVIEW", "REJECTED"}
    BY <2>1 DEF Confirmed, IInv, TypeOK, DocTypeOK, VersionState
  <2>3. CASE handler[a].target = "COMPLETED"
    <3>1. CompletedEffect(v) /\ Verdict[v] = "completed"
      BY <1>2, <2>1, <2>3 DEF CommitCompletion, ResultState
    <3>2. versionState[v] # "REJECTED"
      BY <2>1, <3>1 DEF IInv, VerdictKept
    <3>3. CASE versionState[v] = "SCAN_QUEUED"
      BY <2>1, <3>1, <3>3 DEF DocNext, CompleteVersion
    <3>4. CASE versionState[v] = "READY_FOR_REVIEW"
      <4>1. v <= current /\ v \in reviewed
        BY <2>1, <3>4 DEF IInv, VerdictKept, CurrentIsNewestReady
      <4>2. versionState' = versionState /\ reviewed' = reviewed
        BY <2>1, <3>1, <3>4, <4>1 DEF CompletedEffect, IInv, TypeOK, DocTypeOK
      <4>3. current' = current /\ status' = status
        BY <2>1, <3>1, <4>1 DEF CompletedEffect, IInv, TypeOK, DocTypeOK
      <4> QED BY <4>2, <4>3 DEF docVars
    <3> QED BY <2>2, <3>2, <3>3, <3>4
  <2>4. CASE handler[a].target # "COMPLETED"
    <3>1. RejectedEffect(v) /\ Verdict[v] # "completed"
      BY <1>2, <2>1, <2>4 DEF CommitCompletion, ResultState
    <3>2. versionState[v] # "READY_FOR_REVIEW"
      BY <2>1, <3>1 DEF IInv, VerdictKept
    <3> QED BY <2>1, <2>2, <3>1, <3>2 DEF DocNext, RejectVersion
  <2> QED BY <2>3, <2>4
<1> QED BY <1>1, <1>2, DocWriters

\* A confirmed version stays confirmed.
LEMMA ConfirmedForGood ==
  ASSUME IInv, [Next]_vars, NEW v \in Version, Confirmed(v)
  PROVE  Confirmed(v)'
<1> USE DEF Confirmed, IInv, TypeOK, DocTypeOK
<1>1. ASSUME NEW w \in Version, CreateVersion(w) \/ ConfirmVersion(w)
      PROVE  Confirmed(v)'
  BY <1>1 DEF CreateVersion, ConfirmVersion
<1>2. ASSUME NEW w \in Version, CompleteVersion(w) \/ RejectVersion(w)
      PROVE  Confirmed(v)'
  BY <1>2 DEF CompleteVersion, RejectVersion, CompletedEffect, RejectedEffect
<1>3. CASE UNCHANGED docVars
  BY <1>3 DEF docVars
<1> QED BY <1>1, <1>2, <1>3, DocSteps DEF DocNext

-----------------------------------------------------------------------------
(* Types.                                                                  *)

\* The queue stays well typed; attempts stay within their bound because a job
\* that is still tried has attempts left.
LEMMA QueueTypeStep == IInv /\ [Next]_vars => QueueTypeOK' /\ AttemptsLeft'
<1> USE DEF QueueTypeOK, AttemptsLeft, JobState, Event
<1> SUFFICES ASSUME IInv, [Next]_vars
             PROVE  QueueTypeOK' /\ AttemptsLeft'
  OBVIOUS
<1>0. QueueTypeOK /\ AttemptsLeft
  BY DEF IInv, TypeOK
<1>1. ASSUME NEW t \in Cycle, NEW v \in Version, Add(t, v)
      PROVE  QueueTypeOK' /\ AttemptsLeft'
  <2>1. CASE job[v] = "none"
    <3>1. /\ job' = [job EXCEPT ![v] = "waiting"] /\ attempts' = [attempts EXCEPT ![v] = 0]
          /\ UNCHANGED <<events, lost>>
      BY <1>1, <2>1 DEF Add, Enqueue
    <3> QED BY <1>0, <3>1
  <2>2. CASE job[v] # "none"
    BY <1>0, <1>1, <2>2 DEF Add, Enqueue, queueVars
  <2> QED BY <2>1, <2>2
<1>2. ASSUME NEW v \in Version, WorkerStep(v)
      PROVE  QueueTypeOK' /\ AttemptsLeft'
  <2>1. CASE TakeJob(v)
    BY <1>0, <2>1 DEF TakeJob
  <2>2. CASE RetryJob(v)
    BY <1>0, <2>2 DEF RetryJob
  <2>3. CASE FinishJob(v) \/ FailAttempt(v)
    <3>1. attempts[v] + 1 \in 0 .. MaxAttempts
      BY <1>0, <2>3 DEF FinishJob, FailAttempt
    <3>2. /\ attempts' \in [Version -> 0 .. MaxAttempts]
          /\ attempts'[v] = attempts[v] + 1
          /\ \A w \in Version \ {v} : attempts'[w] = attempts[w]
      BY <1>0, <2>3, <3>1 DEF FinishJob, FailAttempt
    <3>3. /\ job' \in [Version -> JobState] /\ events' \in SUBSET Event /\ UNCHANGED lost
          /\ job'[v] = "delayed" => attempts[v] + 1 < MaxAttempts
          /\ job'[v] \in {"completed", "delayed", "failed"}
          /\ \A w \in Version \ {v} : job'[w] = job[w]
      <4>1. CASE FinishJob(v)
        BY <1>0, <4>1 DEF FinishJob
      <4>2. CASE FailAttempt(v)
        BY <1>0, <4>2 DEF FailAttempt
      <4> QED BY <2>3, <4>1, <4>2
    <3> QED BY <1>0, <3>2, <3>3
  <2> QED BY <1>2, <2>1, <2>2, <2>3 DEF WorkerStep
<1>3. ASSUME NEW v \in Version, QueueFault(v)
      PROVE  QueueTypeOK' /\ AttemptsLeft'
  <2>1. CASE StallJob(v)
    <3>1. UNCHANGED <<attempts, lost>> /\ attempts[v] < MaxAttempts
      BY <1>0, <2>1 DEF StallJob
    <3>2. /\ job' \in [Version -> JobState] /\ events' \in SUBSET Event
          /\ \A w \in Version \ {v} : job'[w] = job[w]
      <4>1. CASE job' = [job EXCEPT ![v] = "waiting"] /\ UNCHANGED events
        BY <1>0, <4>1
      <4>2. CASE job' = [job EXCEPT ![v] = "failed"] /\ events' = events \cup {<<"failed", v>>}
        BY <1>0, <4>2
      <4> QED BY <2>1, <4>1, <4>2 DEF StallJob
    <3> QED BY <1>0, <3>1, <3>2
  <2>2. CASE LoseJob(v)
    BY <1>0, <2>2 DEF LoseJob
  <2> QED BY <1>3, <2>1, <2>2 DEF QueueFault
<1>4. CASE ResetOutbox
  <2>1. handler[Reconciler].version \in Version
    BY <1>4 DEF ResetOutbox, IInv, OpenTransactions
  <2> QED BY <1>0, <1>4, <2>1 DEF ResetOutbox
<1>5. CASE UNCHANGED <<job, attempts, lost>> /\ events' \in SUBSET events
  BY <1>0, <1>5
<1>6. CASE UNCHANGED queueVars
  BY <1>0, <1>6 DEF queueVars
<1> QED BY <1>1, <1>2, <1>3, <1>4, <1>5, <1>6, QueueWriters DEF vars

\* A cycle stays in one of its steps, however it moves.
LEMMA CycleMoves ==
  ASSUME OutboxTypeOK, NEW t \in Cycle, NEW v \in Version,
         NEW step \in {"stamp", "settle", "release"}, NEW from,
         TakeEvent(t, v, step) \/ MoveCycle(t, from, step)
  PROVE  cycle' \in [Cycle -> CycleState]
<1> USE DEF OutboxTypeOK, CycleState
<1>1. CASE TakeEvent(t, v, step)
  BY <1>1 DEF TakeEvent
<1>2. CASE MoveCycle(t, from, step)
  <2>1. cycle[t] \in CycleState
    OBVIOUS
  <2>2. [cycle[t] EXCEPT !.step = step] \in CycleState
    BY ONLY <2>1, step \in {"stamp", "settle", "release"} DEF CycleState
  <2>3. cycle' = [cycle EXCEPT ![t] = [cycle[t] EXCEPT !.step = step]]
    BY <1>2 DEF MoveCycle
  <2> HIDE DEF CycleState
  <2> QED BY <2>2, <2>3 DEF OutboxTypeOK
<1> QED BY <1>1, <1>2

LEMMA CycleEnds ==
  ASSUME OutboxTypeOK, NEW t \in Cycle, NEW from, EndEvent(t, from)
  PROVE  cycle' \in [Cycle -> CycleState]
BY DEF EndEvent, IdleCycle, OutboxTypeOK, CycleState

LEMMA CompleteEventType ==
  ASSUME OutboxTypeOK, NEW t \in Cycle, NEW v, NEW success \in BOOLEAN,
         CompleteEvent(v, t, success)
  PROVE  /\ outbox' \in [Version -> {"absent", "pending", "published"}]
         /\ claim' \in [Version -> Cycle \cup {NoCycle}]
         /\ expired' \in [Version -> BOOLEAN]
<1>1. CASE claim[v] = t
  BY <1>1 DEF CompleteEvent, OutboxTypeOK
<1>2. CASE claim[v] # t
  BY <1>2 DEF CompleteEvent, OutboxTypeOK, rowVars
<1> QED BY <1>1, <1>2

\* Outbox rows and cycles stay well typed.
LEMMA OutboxTypeStep == IInv /\ [Next]_vars => OutboxTypeOK'
<1> SUFFICES ASSUME IInv, [Next]_vars
             PROVE  OutboxTypeOK'
  OBVIOUS
<1>0. OutboxTypeOK
  BY DEF IInv, TypeOK
<1>1. ASSUME NEW v \in Version, Confirm(v) \/ Expire(v)
      PROVE  OutboxTypeOK'
  BY <1>0, <1>1 DEF Confirm, Expire, InsertEvent, ExpireClaim, OutboxTypeOK
<1>2. ASSUME NEW t \in Cycle, Claim(t)
      PROVE  OutboxTypeOK'
  <2>1. Claimable \in SUBSET Version
    BY DEF Claimable
  <2>2. cycle' \in [Cycle -> CycleState]
    BY <1>0, <1>2, <2>1 DEF Claim, ClaimEvents, OutboxTypeOK, CycleState
  <2> QED BY <1>0, <1>2, <2>2 DEF Claim, ClaimEvents, OutboxTypeOK
<1>3. ASSUME NEW t \in Cycle, NEW v \in Version, Add(t, v) \/ AddFails(t, v)
      PROVE  OutboxTypeOK'
  <2>1. cycle' \in [Cycle -> CycleState]
    BY <1>0, <1>3, CycleMoves DEF Add, AddFails
  <2> QED BY <1>0, <1>3, <2>1 DEF Add, AddFails, rowVars, OutboxTypeOK
<1>4. ASSUME NEW t \in Cycle, Stamp(t) \/ StampFails(t) \/ CompleteCallFails(t)
      PROVE  OutboxTypeOK'
  <2>1. cycle' \in [Cycle -> CycleState]
    BY <1>0, <1>4, CycleMoves DEF Stamp, StampFails, CompleteCallFails, SettleFails
  <2> QED BY <1>0, <1>4, <2>1 DEF Stamp, StampFails, CompleteCallFails, SettleFails,
                                  rowVars, OutboxTypeOK
<1>5. ASSUME NEW t \in Cycle, Settle(t) \/ Release(t)
      PROVE  OutboxTypeOK'
  <2>1. cycle' \in [Cycle -> CycleState]
    BY <1>0, <1>5, CycleEnds DEF Settle, Release, SettleEvent, ReleaseEvent
  <2>2. CompleteEvent(cycle[t].event, t, TRUE) \/ CompleteEvent(cycle[t].event, t, FALSE)
    BY <1>5 DEF Settle, Release, SettleEvent, ReleaseEvent
  <2> QED BY <1>0, <2>1, <2>2, CompleteEventType DEF OutboxTypeOK
<1>6. ASSUME NEW t \in Cycle, PublisherDies(t)
      PROVE  OutboxTypeOK'
  BY <1>0, <1>6 DEF PublisherDies, AbortCycle, IdleCycle, rowVars, OutboxTypeOK, CycleState
<1>7. CASE ResetOutbox
  BY <1>0, <1>7 DEF ResetOutbox, ResetEvent, OutboxTypeOK
<1>8. CASE ApiCrashes
  BY <1>0, <1>8 DEF ApiCrashes, IdleCycle, rowVars, OutboxTypeOK, CycleState
<1>9. CASE UNCHANGED outboxVars
  BY <1>0, <1>9 DEF outboxVars, OutboxTypeOK
<1> QED BY <1>1, <1>2, <1>3, <1>4, <1>5, <1>6, <1>7, <1>8, <1>9, OutboxWriters
        DEF vars, CycleStep

\* Rows of runs stay well typed.
LEMMA RunTypeStep ==
  IInv /\ [Next]_vars => /\ runState' \in [Version -> RunState \cup {"absent"}]
                         /\ stamped' \in [Version -> BOOLEAN]
                         /\ completions' \in [Version -> Nat]
<1> SUFFICES ASSUME IInv, [Next]_vars
             PROVE  /\ runState' \in [Version -> RunState \cup {"absent"}]
                    /\ stamped' \in [Version -> BOOLEAN]
                    /\ completions' \in [Version -> Nat]
  OBVIOUS
<1>0. /\ runState \in [Version -> RunState \cup {"absent"}]
      /\ stamped \in [Version -> BOOLEAN]
      /\ completions \in [Version -> Nat]
      /\ handler \in [Actor -> HandlerState]
  BY DEF IInv, TypeOK
<1>1. ASSUME NEW v \in Version, Confirm(v)
      PROVE  /\ runState' \in [Version -> RunState \cup {"absent"}]
             /\ UNCHANGED <<stamped, completions>>
  BY <1>0, <1>1 DEF Confirm, RunState
<1>2. ASSUME NEW t \in Cycle, Stamp(t)
      PROVE  stamped' \in [Version -> BOOLEAN] /\ UNCHANGED <<runState, completions>>
  BY <1>0, <1>2 DEF Stamp
<1>3. ASSUME NEW a \in Actor, CommitMark(a)
      PROVE  /\ runState' \in [Version -> RunState \cup {"absent"}]
             /\ stamped' \in [Version -> BOOLEAN]
             /\ UNCHANGED completions
  BY <1>0, <1>3 DEF CommitMark, HandlerState
<1>4. ASSUME NEW a \in Actor, CommitCompletion(a)
      PROVE  /\ runState' \in [Version -> RunState \cup {"absent"}]
             /\ stamped' \in [Version -> BOOLEAN]
             /\ completions' \in [Version -> Nat]
  <2> DEFINE h == handler[a]
  <2>1. h.target \in RunState /\ h.stamped \in BOOLEAN /\ h.version \in Version
    BY <1>0, <1>4 DEF HandlerState, CommitCompletion, IInv, OpenTransactions
  <2>2. /\ runState' = [runState EXCEPT ![h.version] = h.target]
        /\ stamped' = [stamped EXCEPT ![h.version] = h.stamped]
        /\ completions' = [completions EXCEPT ![h.version] = @ + 1]
    BY <1>4 DEF CommitCompletion
  <2>3. completions' \in [Version -> Nat]
    BY <1>0, <2>1, <2>2
  <2>4. runState' \in [Version -> RunState \cup {"absent"}]
    BY <1>0, <2>1, <2>2
  <2> QED BY <1>0, <2>1, <2>2, <2>3, <2>4
<1>5. CASE UNCHANGED runVars
  BY <1>0, <1>5 DEF runVars
<1> QED BY <1>0, <1>1, <1>2, <1>3, <1>4, <1>5, RunWriters DEF vars

\* A step leaves the count of the failures alone, or is one and is counted.
LEMMA FaultsAddUp == Next => UNCHANGED faults \/ Fault
<1> SUFFICES ASSUME Next
             PROVE  UNCHANGED faults \/ Fault
  OBVIOUS
<1>1. ASSUME NEW t \in Cycle,
             \/ Claim(t) \/ Stamp(t) \/ StampFails(t) \/ Settle(t)
             \/ CompleteCallFails(t) \/ Release(t) \/ PublisherDies(t)
             \/ \E v \in Version : Add(t, v) \/ AddFails(t, v)
      PROVE  UNCHANGED faults \/ Fault
  BY <1>1 DEF Claim, Add, AddFails, Stamp, StampFails, Settle, CompleteCallFails,
              Release, PublisherDies
<1>2. ASSUME NEW v \in Version,
             \/ Create(v) \/ Confirm(v) \/ Expire(v) \/ WorkerStep(v) \/ QueueFault(v)
             \/ VisitRun(v)
      PROVE  UNCHANGED faults \/ Fault
  BY <1>2 DEF Create, Confirm, Expire, WorkerStep, QueueFault, VisitRun
<1>3. ASSUME NEW a \in Actor,
             \/ \E e \in Event : LoseEvent(e) \/ HandleEvent(a, e)
             \/ CommitMark(a) \/ CommitCompletion(a) \/ HandlerFails(a)
      PROVE  UNCHANGED faults \/ Fault
  BY <1>3 DEF LoseEvent, HandleEvent, CommitMark, CommitCompletion, HandlerFails
<1>4. ASSUME ListRuns \/ ResetOutbox \/ Recheck \/ ApiCrashes
      PROVE  UNCHANGED faults \/ Fault
  BY <1>4 DEF ListRuns, ResetOutbox, Recheck, ApiCrashes
<1> QED BY <1>1, <1>2, <1>3, <1>4 DEF Next, CycleStep, ReconcilerStep

\* No behaviour has more failures than its bound.
LEMMA FaultsCounted == IInv /\ [Next]_vars => faults' \in 0 .. MaxFaults
BY FaultsAddUp DEF vars, IInv, TypeOK, Fault

\* A run that may move, that may be listed or that an outbox row speaks of
\* belongs to a confirmed version.
LEMMA RunIsConfirmed ==
  ASSUME IInv, NEW v \in Version, runState[v] # "absent" \/ outbox[v] # "absent" \/ listed[v] # "no"
  PROVE  Confirmed(v)
BY DEF IInv, ConfirmationFirst

\* Opening a transaction for a confirmed version, or closing one, keeps
\* OpenTransactions.
LEMMA HandlerChange ==
  ASSUME IInv, [Next]_vars, NEW a \in Actor, NEW h \in HandlerState,
         handler' = [handler EXCEPT ![a] = h],
         h.step # "idle" => h.version \in Version /\ Confirmed(h.version),
         h.step = "mark" => h.target \in {"ACTIVE", "RETRY_SCHEDULED", "DEAD_LETTERED"},
         h.step = "complete" => h.target = ResultState(h.version)
  PROVE  handler' \in [Actor -> HandlerState] /\ OpenTransactions'
<1>1. handler \in [Actor -> HandlerState] /\ OpenTransactions
  BY DEF IInv, TypeOK
<1>2. handler' \in [Actor -> HandlerState]
  BY <1>1
<1>3. \A w \in Version : Confirmed(w) => Confirmed(w)'
  BY ConfirmedForGood
<1>4. ASSUME NEW b \in Actor
      PROVE  LET g == handler'[b] IN
             /\ g.step # "idle" => g.version \in Version /\ Confirmed(g.version)
             /\ g.step = "mark" => g.target \in {"ACTIVE", "RETRY_SCHEDULED", "DEAD_LETTERED"}
             /\ g.step = "complete" => g.target = ResultState(g.version)
  <2>1. CASE b = a
    BY <1>1, <2>1
  <2>2. CASE b # a
    BY <1>1, <2>2 DEF OpenTransactions
  <2> QED BY <2>1, <2>2
<1> QED BY <1>2, <1>3, <1>4 DEF OpenTransactions, ResultState, Confirmed

\* Ending a transaction, or leaving all as they are, keeps OpenTransactions.
LEMMA HandlerRest ==
  ASSUME IInv, [Next]_vars,
         \/ UNCHANGED handler
         \/ \E a \in Actor : handler' = [handler EXCEPT ![a] = IdleHandler]
         \/ handler' = [a \in Actor |-> IdleHandler]
  PROVE  handler' \in [Actor -> HandlerState] /\ OpenTransactions'
<1>0. handler \in [Actor -> HandlerState] /\ OpenTransactions
  BY DEF IInv, TypeOK
<1>1. IdleHandler \in HandlerState /\ IdleHandler.step = "idle"
  BY DEF IdleHandler, Open, HandlerState, RunState
<1>2. CASE UNCHANGED handler
  <2>1. \A w \in Version : Confirmed(w) => Confirmed(w)'
    BY ConfirmedForGood
  <2> QED BY <1>0, <1>2, <2>1 DEF OpenTransactions, ResultState, Confirmed
<1>3. CASE \E a \in Actor : handler' = [handler EXCEPT ![a] = IdleHandler]
  BY <1>1, <1>3, HandlerChange
<1>4. CASE handler' = [a \in Actor |-> IdleHandler]
  <2>1. \A a \in Actor : handler'[a] = IdleHandler
    BY <1>4
  <2> QED BY <1>1, <1>4, <2>1 DEF OpenTransactions
<1> QED BY <1>2, <1>3, <1>4

\* What persist opens: nothing, the save of a legal target, or the rest of
\* the reconciler's visit.
LEMMA MarkOpens ==
  ASSUME IInv, [Next]_vars, NEW a \in Actor, NEW v \in Version,
         NEW target \in {"ACTIVE", "RETRY_SCHEDULED", "DEAD_LETTERED"},
         a = Reconciler => Confirmed(v),
         ReadForMark(a, v, target)
  PROVE  handler' \in [Actor -> HandlerState] /\ OpenTransactions'
<1>1. CASE CanMove(runState[v], target)
  <2> DEFINE h == Open("mark", v, target, TRUE)
  <2>1. runState[v] # "absent"
    BY <1>1 DEF CanMove, RunTransition
  <2>2. Confirmed(v)
    BY <2>1, RunIsConfirmed
  <2>3. h \in HandlerState /\ h.step = "mark" /\ h.version = v /\ h.target = target
    BY DEF Open, HandlerState, RunState
  <2>4. handler' = [handler EXCEPT ![a] = h]
    BY <1>1 DEF ReadForMark
  <2> HIDE DEF h
  <2> QED BY <2>2, <2>3, <2>4, HandlerChange
<1>2. CASE ~CanMove(runState[v], target) /\ a = Reconciler
  <2> DEFINE h == ReconcilerAt("recheck", v)
  <2>1. h \in HandlerState /\ h.step = "recheck" /\ h.version = v
    BY DEF ReconcilerAt, Open, HandlerState, RunState
  <2>2. handler' = [handler EXCEPT ![a] = h]
    BY <1>2 DEF ReadForMark
  <2> HIDE DEF h
  <2> QED BY <1>2, <2>1, <2>2, HandlerChange
<1>3. CASE ~CanMove(runState[v], target) /\ a # Reconciler
  BY <1>3, HandlerRest DEF ReadForMark
<1> QED BY <1>1, <1>2, <1>3

\* What handleCompleted opens: nothing, or the completion the result asks for.
LEMMA CompletionOpens ==
  ASSUME IInv, [Next]_vars, NEW a \in Actor, NEW v \in Version, ReadForCompletion(a, v)
  PROVE  handler' \in [Actor -> HandlerState] /\ OpenTransactions'
<1>1. CASE job[v] = "completed" /\ CanMove(runState[v], ResultState(v))
  <2> DEFINE h == Open("complete", v, ResultState(v), stamped[v])
  <2>1. runState[v] # "absent"
    BY <1>1 DEF CanMove, RunTransition
  <2>2. Confirmed(v)
    BY <2>1, RunIsConfirmed
  <2>3. ResultState(v) \in RunState /\ stamped[v] \in BOOLEAN
    BY DEF ResultState, RunState, IInv, TypeOK
  <2>4. /\ h \in HandlerState
        /\ h.step = "complete" /\ h.version = v /\ h.target = ResultState(v)
    BY <2>3 DEF Open, HandlerState
  <2>5. handler' = [handler EXCEPT ![a] = h]
    BY <1>1 DEF ReadForCompletion
  <2> HIDE DEF h
  <2> QED BY <2>2, <2>4, <2>5, HandlerChange
<1>2. CASE ~(job[v] = "completed" /\ CanMove(runState[v], ResultState(v)))
  BY <1>2, HandlerRest DEF ReadForCompletion
<1> QED BY <1>1, <1>2

\* Every actor has nothing open, or a transaction about a confirmed version.
LEMMA ActorStep ==
  IInv /\ [Next]_vars => handler' \in [Actor -> HandlerState] /\ OpenTransactions'
<1> SUFFICES ASSUME IInv, [Next]_vars
             PROVE  handler' \in [Actor -> HandlerState] /\ OpenTransactions'
  OBVIOUS
<1>1. ASSUME NEW e \in Event, NEW a \in Handler, HandleEvent(a, e)
      PROVE  handler' \in [Actor -> HandlerState] /\ OpenTransactions'
  <2> DEFINE v == e[2]
  <2>0. v \in Version /\ a # Reconciler
    BY DEF Event
  <2>1. CASE ReadForMark(a, v, "ACTIVE") \/ ReadForMark(a, v, FailureTarget(v))
    <3>1. PICK target \in {"ACTIVE", "RETRY_SCHEDULED", "DEAD_LETTERED"} :
            ReadForMark(a, v, target)
      BY <2>1 DEF FailureTarget
    <3> QED BY <2>0, <3>1, MarkOpens
  <2>2. CASE ReadForCompletion(a, v)
    BY <2>0, <2>2, CompletionOpens
  <2>3. CASE UNCHANGED handler
    BY <2>3, HandlerRest
  <2> QED BY <1>1, <2>1, <2>2, <2>3 DEF HandleEvent
<1>2. ASSUME NEW a \in Actor, CommitMark(a)
      PROVE  handler' \in [Actor -> HandlerState] /\ OpenTransactions'
  <2> DEFINE v == handler[a].version
  <2>1. CASE a = Reconciler
    <3> DEFINE h == ReconcilerAt("recheck", v)
    <3>1. v \in Version /\ Confirmed(v)
      BY <1>2 DEF CommitMark, IInv, OpenTransactions
    <3>2. h \in HandlerState /\ h.step = "recheck" /\ h.version = v
      BY <3>1 DEF ReconcilerAt, Open, HandlerState, RunState
    <3>3. handler' = [handler EXCEPT ![a] = h]
      BY <1>2, <2>1 DEF CommitMark
    <3> HIDE DEF h
    <3> QED BY <3>1, <3>2, <3>3, HandlerChange
  <2>2. CASE a # Reconciler
    BY <1>2, <2>2, HandlerRest DEF CommitMark
  <2> QED BY <2>1, <2>2
<1>3. ASSUME NEW a \in Actor, CommitCompletion(a) \/ HandlerFails(a)
      PROVE  handler' \in [Actor -> HandlerState] /\ OpenTransactions'
  BY <1>3, HandlerRest DEF CommitCompletion, HandlerFails
<1>4. ASSUME NEW v \in Version, VisitRun(v)
      PROVE  handler' \in [Actor -> HandlerState] /\ OpenTransactions'
  <2>0. Confirmed(v)
    BY <1>4, RunIsConfirmed DEF VisitRun
  <2>1. CASE ReadForMark(Reconciler, v, "ACTIVE")
    BY <2>0, <2>1, MarkOpens
  <2>2. CASE UNCHANGED handler
    BY <2>2, HandlerRest
  <2>3. CASE handler' = [handler EXCEPT ![Reconciler] = ReconcilerAt("reset", v)]
    <3> DEFINE h == ReconcilerAt("reset", v)
    <3>1. h \in HandlerState /\ h.step = "reset" /\ h.version = v
      BY DEF ReconcilerAt, Open, HandlerState, RunState
    <3>2. handler' = [handler EXCEPT ![Reconciler] = h]
      BY <2>3
    <3> HIDE DEF h
    <3> QED BY <2>0, <3>1, <3>2, HandlerChange
  <2> QED BY <1>4, <2>1, <2>2, <2>3 DEF VisitRun
<1>5. CASE ListRuns \/ ResetOutbox \/ ApiCrashes
  BY <1>5, HandlerRest DEF ListRuns, ResetOutbox, ApiCrashes
<1>6. CASE Recheck
  <2>1. handler[Reconciler].version \in Version
    BY <1>6 DEF Recheck, IInv, OpenTransactions
  <2>2. ReadForCompletion(Reconciler, handler[Reconciler].version)
    BY <1>6 DEF Recheck
  <2> QED BY <2>1, <2>2, CompletionOpens
<1>7. CASE UNCHANGED actorVars
  BY <1>7, HandlerRest DEF actorVars
<1> QED BY <1>1, <1>2, <1>3, <1>4, <1>5, <1>6, <1>7, ActorWriters DEF vars, ReconcilerStep, actorVars

\* The reconciler's list stays well typed, and lists only what has a run.
LEMMA ListedStep ==
  IInv /\ [Next]_vars =>
    /\ listed' \in [Version -> {"no", "stamped", "unstamped"}]
    /\ \A v \in Version : listed'[v] # "no" => listed[v] # "no" \/ runState[v] # "absent"
<1> SUFFICES ASSUME IInv, [Next]_vars
             PROVE  /\ listed' \in [Version -> {"no", "stamped", "unstamped"}]
                    /\ \A v \in Version :
                         listed'[v] # "no" => listed[v] # "no" \/ runState[v] # "absent"
  OBVIOUS
<1>0. listed \in [Version -> {"no", "stamped", "unstamped"}]
  BY DEF IInv, TypeOK
<1>1. CASE ListRuns
  BY <1>0, <1>1 DEF ListRuns, ReconcilableState
<1>2. CASE \E v \in Version : VisitRun(v)
  BY <1>0, <1>2 DEF VisitRun
<1>3. CASE ApiCrashes
  BY <1>3 DEF ApiCrashes
<1>4. CASE UNCHANGED listed
  BY <1>0, <1>4
<1>5. ASSUME \/ \E e \in Event, a \in Handler : HandleEvent(a, e)
             \/ \E a \in Actor : CommitMark(a) \/ CommitCompletion(a) \/ HandlerFails(a)
             \/ ResetOutbox \/ Recheck
      PROVE  UNCHANGED listed
  BY <1>5 DEF HandleEvent, CommitMark, CommitCompletion, HandlerFails, ResetOutbox, Recheck
<1> QED BY <1>1, <1>2, <1>3, <1>4, <1>5, ActorWriters DEF vars, actorVars, ReconcilerStep

-----------------------------------------------------------------------------
(* The outbox.                                                             *)

\* What can happen to a row in a step: nothing, its insertion, a claim of a
\* pending row, the bookkeeping of the cycle that holds the claim, a reset.
LEMMA RowStep ==
  ASSUME IInv, [Next]_vars, NEW v \in Version
  PROVE  \/ outbox'[v] = outbox[v] /\ claim'[v] = claim[v]
         \/ Confirm(v) /\ outbox'[v] = "pending" /\ claim'[v] = claim[v]
         \/ /\ outbox[v] = "pending" /\ outbox'[v] = "pending"
            /\ \E t \in Cycle : claim'[v] = t /\ cycle'[t].step = "next"
         \/ /\ \E t \in Cycle : /\ claim[v] = t /\ cycle[t].event = v
                                /\ \/ cycle[t].step = "settle"
                                   \/ cycle[t].step = "release" /\ outbox'[v] = outbox[v]
            /\ outbox'[v] \in {outbox[v], "published"} /\ claim'[v] = NoCycle
         \/ /\ ResetOutbox /\ handler[Reconciler].version = v
            /\ outbox'[v] = "pending" /\ claim'[v] = NoCycle
<1> DEFINE Goal ==
      \/ outbox'[v] = outbox[v] /\ claim'[v] = claim[v]
      \/ Confirm(v) /\ outbox'[v] = "pending" /\ claim'[v] = claim[v]
      \/ /\ outbox[v] = "pending" /\ outbox'[v] = "pending"
         /\ \E t \in Cycle : claim'[v] = t /\ cycle'[t].step = "next"
      \/ /\ \E t \in Cycle : /\ claim[v] = t /\ cycle[t].event = v
                             /\ \/ cycle[t].step = "settle"
                                \/ cycle[t].step = "release" /\ outbox'[v] = outbox[v]
         /\ outbox'[v] \in {outbox[v], "published"} /\ claim'[v] = NoCycle
      \/ /\ ResetOutbox /\ handler[Reconciler].version = v
         /\ outbox'[v] = "pending" /\ claim'[v] = NoCycle
<1>0. OutboxTypeOK
  BY DEF IInv, TypeOK
<1>1. ASSUME NEW w \in Version, Confirm(w)
      PROVE  Goal
  BY <1>0, <1>1 DEF Confirm, InsertEvent, OutboxTypeOK
<1>2. ASSUME NEW t \in Cycle, Claim(t)
      PROVE  Goal
  <2>1. CASE v \in Claimable
    BY <1>0, <1>2, <2>1 DEF Claim, ClaimEvents, Claimable, OutboxTypeOK
  <2>2. CASE v \notin Claimable
    BY <1>0, <1>2, <2>2 DEF Claim, ClaimEvents, OutboxTypeOK
  <2> QED BY <2>1, <2>2
<1>3. ASSUME NEW t \in Cycle, Settle(t) \/ Release(t)
      PROVE  Goal
  <2>1. CASE claim[cycle[t].event] = t /\ cycle[t].event = v
    BY <1>0, <1>3, <2>1 DEF Settle, Release, SettleEvent, ReleaseEvent, EndEvent,
                            CompleteEvent, OutboxTypeOK
  <2>2. CASE claim[cycle[t].event] # t
    BY <1>3, <2>2 DEF Settle, Release, SettleEvent, ReleaseEvent, CompleteEvent, rowVars
  <2>3. CASE claim[cycle[t].event] = t /\ cycle[t].event # v
    <3>1. PICK success \in BOOLEAN : CompleteEvent(cycle[t].event, t, success)
      BY <1>3 DEF Settle, Release, SettleEvent, ReleaseEvent
    <3>2. outbox'[v] = outbox[v] /\ claim'[v] = claim[v]
      BY <1>0, <2>3, <3>1 DEF CompleteEvent, OutboxTypeOK
    <3> QED BY <3>2
  <2> QED BY <2>1, <2>2, <2>3
<1>4. CASE ResetOutbox
  BY <1>0, <1>4 DEF ResetOutbox, ResetEvent, OutboxTypeOK
<1>5. ASSUME \/ \E w \in Version : Expire(w)
             \/ \E t \in Cycle :
                  \/ \E w \in Version : Add(t, w) \/ AddFails(t, w)
                  \/ Stamp(t) \/ StampFails(t) \/ CompleteCallFails(t) \/ PublisherDies(t)
             \/ ApiCrashes
             \/ UNCHANGED outboxVars
      PROVE  UNCHANGED <<outbox, claim>>
  BY <1>5 DEF Expire, ExpireClaim, Add, AddFails, Stamp, StampFails, CompleteCallFails,
              SettleFails, PublisherDies, AbortCycle, ApiCrashes, rowVars, outboxVars
<1> QED BY <1>1, <1>2, <1>3, <1>4, <1>5, OutboxWriters DEF vars, CycleStep

\* Only pending rows are ever claimed.
LEMMA ClaimedIsPendingStep == IInv /\ [Next]_vars => ClaimedIsPending'
<1> SUFFICES ASSUME IInv, [Next]_vars, NEW v \in Version, claim'[v] # NoCycle
             PROVE  outbox'[v] = "pending"
  BY DEF ClaimedIsPending
<1> QED BY RowStep DEF IInv, ClaimedIsPending

\* Runs, outbox rows and visits exist only after confirmation.
LEMMA ConfirmationFirstStep == IInv /\ [Next]_vars => ConfirmationFirst'
<1> SUFFICES ASSUME IInv, [Next]_vars, NEW v \in Version, ~Confirmed(v)'
             PROVE  runState'[v] = "absent" /\ outbox'[v] = "absent" /\ listed'[v] = "no"
  BY DEF ConfirmationFirst
<1>1. /\ ~Confirmed(v) /\ runState[v] = "absent" /\ outbox[v] = "absent"
      /\ listed[v] = "no" /\ claim[v] = NoCycle
  BY ConfirmedForGood DEF IInv, ConfirmationFirst, ClaimedIsPending
<1>2. ~Confirm(v)
  BY DEF Confirm, ConfirmVersion, Confirmed, IInv, TypeOK, DocTypeOK
<1>3. ASSUME NEW a \in Actor, handler[a].step # "idle"
      PROVE  handler[a].version # v
  BY <1>1, <1>3 DEF IInv, OpenTransactions
<1>4. outbox'[v] = "absent"
  BY <1>1, <1>2, <1>3, RowStep DEF ResetOutbox
<1>5. listed'[v] = "no"
  BY <1>1, ListedStep
<1>6. runState'[v] = "absent"
  <2>1. runState \in [Version -> RunState \cup {"absent"}]
    BY DEF IInv, TypeOK
  <2>2. ASSUME NEW w \in Version, Confirm(w)
        PROVE  runState'[v] = runState[v]
    BY <1>2, <2>1, <2>2 DEF Confirm
  <2>3. ASSUME NEW a \in Actor, CommitMark(a) \/ CommitCompletion(a)
        PROVE  runState'[v] = runState[v]
    BY <1>3, <2>1, <2>3 DEF CommitMark, CommitCompletion
  <2>4. ASSUME NEW t \in Cycle, Stamp(t)
        PROVE  runState'[v] = runState[v]
    BY <2>4 DEF Stamp
  <2> QED BY <1>1, <2>2, <2>3, <2>4, RunWriters DEF vars, runVars
<1> QED BY <1>4, <1>5, <1>6

\* What can happen to a cycle in a step: nothing, an end, a start with the
\* rows it claims, the next row, or the next call for the row in hand.
LEMMA CycleChange ==
  ASSUME IInv, [Next]_vars, NEW t \in Cycle
  PROVE  \/ cycle'[t] = cycle[t]
         \/ cycle'[t].step = "idle" /\ cycle'[t].todo = {} /\ cycle'[t].event = NoVersion
         \/ /\ cycle'[t].step = "next" /\ cycle'[t].event = NoVersion
            /\ \A v \in cycle'[t].todo : v \in cycle[t].todo \/ outbox[v] = "pending"
         \/ \E v \in cycle[t].todo : /\ Add(t, v) \/ cycle'[t].step = "release"
                                     /\ cycle'[t].step \in {"stamp", "release"}
                                     /\ cycle'[t].todo = cycle[t].todo \ {v}
                                     /\ cycle'[t].event = v
         \/ /\ cycle[t].step \in {"stamp", "settle"}
            /\ cycle'[t].step \in {"settle", "release"}
            /\ cycle'[t].step = "settle" => Stamp(t)
            /\ cycle'[t].todo = cycle[t].todo /\ cycle'[t].event = cycle[t].event
<1> DEFINE Goal ==
         \/ cycle'[t] = cycle[t]
         \/ cycle'[t].step = "idle" /\ cycle'[t].todo = {} /\ cycle'[t].event = NoVersion
         \/ /\ cycle'[t].step = "next" /\ cycle'[t].event = NoVersion
            /\ \A v \in cycle'[t].todo : v \in cycle[t].todo \/ outbox[v] = "pending"
         \/ \E v \in cycle[t].todo : /\ Add(t, v) \/ cycle'[t].step = "release"
                                     /\ cycle'[t].step \in {"stamp", "release"}
                                     /\ cycle'[t].todo = cycle[t].todo \ {v}
                                     /\ cycle'[t].event = v
         \/ /\ cycle[t].step \in {"stamp", "settle"}
            /\ cycle'[t].step \in {"settle", "release"}
            /\ cycle'[t].step = "settle" => Stamp(t)
            /\ cycle'[t].todo = cycle[t].todo /\ cycle'[t].event = cycle[t].event
<1>0. cycle \in [Cycle -> CycleState]
  BY DEF IInv, TypeOK, OutboxTypeOK
<1>1. ASSUME NEW s \in Cycle, Claim(s)
      PROVE  Goal
  BY <1>0, <1>1 DEF Claim, ClaimEvents, Claimable, CycleState
<1>2. ASSUME NEW s \in Cycle, NEW v \in Version, Add(s, v) \/ AddFails(s, v)
      PROVE  Goal
  <2>1. CASE s # t
    BY <1>0, <1>2, <2>1 DEF Add, AddFails, TakeEvent, CycleState
  <2>2. CASE s = t
    BY <1>0, <1>2, <2>2 DEF Add, AddFails, TakeEvent, CycleState
  <2> QED BY <2>1, <2>2
<1>3. ASSUME NEW s \in Cycle, Stamp(s) \/ StampFails(s) \/ CompleteCallFails(s)
      PROVE  Goal
  <2>1. CASE s # t
    BY <1>0, <1>3, <2>1 DEF Stamp, StampFails, CompleteCallFails, SettleFails, MoveCycle
  <2>2. CASE s = t /\ Stamp(t)
    <3>1. cycle[t].step = "stamp" /\ cycle' = [cycle EXCEPT ![t].step = "settle"]
      BY <2>2 DEF Stamp, MoveCycle
    <3> QED BY <1>0, <2>2, <3>1 DEF CycleState
  <2>3. CASE s = t /\ (StampFails(t) \/ CompleteCallFails(t))
    <3>1. /\ cycle[t].step \in {"stamp", "settle"}
          /\ cycle' = [cycle EXCEPT ![t].step = "release"]
      BY <2>3 DEF StampFails, CompleteCallFails, SettleFails, MoveCycle
    <3> QED BY <1>0, <3>1 DEF CycleState
  <2>4. ASSUME s = t
        PROVE  Stamp(t) \/ StampFails(t) \/ CompleteCallFails(t)
    BY <1>3, <2>4, Zenon
  <2> QED BY <2>1, <2>2, <2>3, <2>4
<1>4. ASSUME NEW s \in Cycle, Settle(s) \/ Release(s)
      PROVE  Goal
  <2>1. cycle' = [cycle EXCEPT ![s] =
          IF @.todo = {} THEN IdleCycle ELSE [step |-> "next", todo |-> @.todo, event |-> NoVersion]]
    BY <1>4 DEF Settle, Release, SettleEvent, ReleaseEvent, EndEvent
  <2>2. CASE s # t
    BY <1>0, <2>1, <2>2
  <2>3. CASE s = t /\ cycle[t].todo = {}
    BY <1>0, <2>1, <2>3 DEF IdleCycle
  <2>4. CASE s = t /\ cycle[t].todo # {}
    BY <1>0, <2>1, <2>4 DEF IdleCycle
  <2> QED BY <2>2, <2>3, <2>4
<1>5. ASSUME NEW s \in Cycle, PublisherDies(s)
      PROVE  Goal
  BY <1>0, <1>5 DEF PublisherDies, AbortCycle, IdleCycle
<1>6. CASE ApiCrashes
  BY <1>6 DEF ApiCrashes, IdleCycle
<1>7. ASSUME \/ \E v \in Version : Confirm(v) \/ Expire(v)
             \/ ResetOutbox \/ UNCHANGED outboxVars
      PROVE  Goal
  BY <1>7 DEF Confirm, InsertEvent, Expire, ExpireClaim, ResetOutbox, ResetEvent, outboxVars
<1> QED BY <1>1, <1>2, <1>3, <1>4, <1>5, <1>6, <1>7, OutboxWriters DEF vars, CycleStep

\* A cycle works on one row exactly in the three calls, and only on rows that
\* exist.
LEMMA CycleShapeStep == IInv /\ [Next]_vars => CycleShape'
<1> SUFFICES ASSUME IInv, [Next]_vars, NEW t \in Cycle
             PROVE  /\ cycle'[t].event \in Version
                         <=> cycle'[t].step \in {"stamp", "settle", "release"}
                    /\ \A v \in Version :
                         v \in cycle'[t].todo \/ v = cycle'[t].event => outbox'[v] # "absent"
  BY DEF CycleShape
<1>1. \A v \in Version : outbox[v] # "absent" => outbox'[v] # "absent"
  BY RowStep
<1>2. /\ cycle[t].event \in Version <=> cycle[t].step \in {"stamp", "settle", "release"}
      /\ \A v \in Version : v \in cycle[t].todo \/ v = cycle[t].event => outbox[v] # "absent"
  BY DEF IInv, CycleShape
<1>3. cycle[t].todo \in SUBSET Version
  BY DEF IInv, TypeOK, OutboxTypeOK, CycleState
<1> QED BY <1>1, <1>2, <1>3, CycleChange

\* A job in the queue stays there or is lost; a loss is forgotten only when
\* the row is made pending and claimable again.
LEMMA JobKept ==
  ASSUME IInv, [Next]_vars, NEW v \in Version, job[v] # "none" \/ lost[v]
  PROVE  \/ job'[v] # "none" \/ lost'[v]
         \/ outbox'[v] = "pending" /\ claim'[v] = NoCycle
<1>0. QueueTypeOK /\ OutboxTypeOK
  BY DEF IInv, TypeOK
<1>1. ASSUME NEW t \in Cycle, NEW w \in Version, Add(t, w)
      PROVE  job'[v] # "none" \/ lost'[v]
  BY <1>0, <1>1 DEF Add, Enqueue, queueVars, QueueTypeOK
<1>2. ASSUME NEW w \in Version, WorkerStep(w)
      PROVE  job'[v] # "none" \/ lost'[v]
  BY <1>0, <1>2 DEF WorkerStep, TakeJob, FinishJob, FailAttempt, RetryJob, QueueTypeOK
<1>3. ASSUME NEW w \in Version, QueueFault(w)
      PROVE  job'[v] # "none" \/ lost'[v]
  BY <1>0, <1>3 DEF QueueFault, StallJob, LoseJob, QueueTypeOK
<1>4. CASE ResetOutbox
  <2>1. CASE handler[Reconciler].version = v
    BY <1>0, <1>4, <2>1 DEF ResetOutbox, ResetEvent, OutboxTypeOK
  <2>2. CASE handler[Reconciler].version # v
    BY <1>0, <1>4, <2>2 DEF ResetOutbox, QueueTypeOK
  <2> QED BY <2>1, <2>2
<1>5. CASE UNCHANGED <<job, attempts, lost>> \/ UNCHANGED queueVars
  BY <1>5 DEF queueVars
<1> QED BY <1>1, <1>2, <1>3, <1>4, <1>5, QueueWriters DEF vars

\* A cycle that holds its claim when it settles has added the job.
LEMMA AddedBeforeSettledStep == IInv /\ [Next]_vars => AddedBeforeSettled'
<1> SUFFICES ASSUME IInv, [Next]_vars, NEW t \in Cycle, NEW v \in Version,
                    cycle'[t].step \in {"stamp", "settle"}, cycle'[t].event = v,
                    claim'[v] = t
             PROVE  job'[v] # "none" \/ lost'[v]
  BY DEF AddedBeforeSettled
<1>0. claim'[v] # NoCycle
  OBVIOUS
<1>1. CASE \/ cycle'[t] = cycle[t]
           \/ /\ cycle[t].step = "stamp" /\ cycle'[t].step = "settle"
              /\ cycle'[t].event = cycle[t].event
  <2>1. cycle[t].step \in {"stamp", "settle"} /\ cycle[t].event = v
    BY <1>1
  <2>2. cycle'[t].step # "next"
    OBVIOUS
  <2>3. claim[v] = t
    BY <1>0, <2>2, RowStep
  <2> QED BY <1>0, <2>1, <2>3, JobKept DEF IInv, AddedBeforeSettled
<1>2. CASE Add(t, v)
  BY <1>2 DEF Add, Enqueue, IInv, TypeOK, QueueTypeOK, queueVars
<1>3. cycle'[t].step = "settle" /\ Stamp(t) => cycle[t].step = "stamp"
  BY DEF Stamp, MoveCycle
<1> QED BY <1>1, <1>2, <1>3, CycleChange

-----------------------------------------------------------------------------
(* The runs.                                                               *)

\* What can happen to a run in a step.
LEMMA RunStep ==
  ASSUME IInv, [Next]_vars, NEW v \in Version
  PROVE  \/ runState'[v] = runState[v] /\ stamped'[v] = stamped[v]
         \/ Confirm(v) /\ runState'[v] = "QUEUED"
         \/ stamped'[v] = TRUE
         \/ runState'[v] \in {"COMPLETED", "FAILED"}
<1> DEFINE Goal == \/ runState'[v] = runState[v] /\ stamped'[v] = stamped[v]
                   \/ Confirm(v) /\ runState'[v] = "QUEUED"
                   \/ stamped'[v] = TRUE
                   \/ runState'[v] \in {"COMPLETED", "FAILED"}
<1>0. runState \in [Version -> RunState \cup {"absent"}] /\ stamped \in [Version -> BOOLEAN]
  BY DEF IInv, TypeOK
<1>1. ASSUME NEW w \in Version, Confirm(w)
      PROVE  Goal
  BY <1>0, <1>1 DEF Confirm
<1>2. ASSUME NEW t \in Cycle, Stamp(t)
      PROVE  Goal
  BY <1>0, <1>2 DEF Stamp
<1>3. ASSUME NEW a \in Actor, CommitMark(a)
      PROVE  Goal
  BY <1>0, <1>3 DEF CommitMark
<1>4. ASSUME NEW a \in Actor, CommitCompletion(a)
      PROVE  Goal
  <2> DEFINE w == handler[a].version
  <2>1. handler[a].target \in {"COMPLETED", "FAILED"}
    BY <1>4 DEF CommitCompletion, IInv, OpenTransactions, ResultState
  <2>2. /\ runState' = [runState EXCEPT ![w] = handler[a].target]
        /\ stamped' = [stamped EXCEPT ![w] = handler[a].stamped]
    BY <1>4 DEF CommitCompletion
  <2> QED BY <1>0, <2>1, <2>2
<1>5. CASE UNCHANGED runVars
  BY <1>5 DEF runVars
<1> QED BY <1>1, <1>2, <1>3, <1>4, <1>5, RunWriters DEF vars

\* A run that persist has moved carries the id of its job.
LEMMA MarkedIsStampedStep == IInv /\ [Next]_vars => MarkedIsStamped'
<1> SUFFICES ASSUME IInv, [Next]_vars, NEW v \in Version,
                    runState'[v] \in {"ACTIVE", "RETRY_SCHEDULED"}
             PROVE  stamped'[v]
  BY DEF MarkedIsStamped
<1> QED BY RunStep DEF IInv, MarkedIsStamped

\* A row that exists is not confirmed again.
LEMMA ConfirmedOnce ==
  ASSUME IInv, NEW v \in Version, outbox[v] # "absent"
  PROVE  ~Confirm(v)
BY RunIsConfirmed DEF Confirm, ConfirmVersion, Confirmed

\* A cycle stamps the run before it settles the row, and the stamp stays
\* while the run can still be listed.
LEMMA StampedBeforeSettledStep == IInv /\ [Next]_vars => StampedBeforeSettled'
<1> SUFFICES ASSUME IInv, [Next]_vars, NEW t \in Cycle, NEW v \in Version,
                    cycle'[t].step = "settle", cycle'[t].event = v
             PROVE  stamped'[v] \/ runState'[v] \notin ReconcilableState
  BY DEF StampedBeforeSettled
<1>1. CASE cycle'[t] = cycle[t]
  <2>1. cycle[t].step = "settle" /\ cycle[t].event = v
    BY <1>1
  <2>2. stamped[v] \/ runState[v] \notin ReconcilableState
    BY <2>1 DEF IInv, StampedBeforeSettled
  <2>3. ~Confirm(v)
    BY <2>1, ConfirmedOnce DEF IInv, CycleShape
  <2> QED BY <2>2, <2>3, RunStep DEF ReconcilableState
<1>2. CASE Stamp(t) /\ cycle'[t].event = cycle[t].event
  BY <1>2 DEF Stamp, IInv, TypeOK
<1> QED BY <1>1, <1>2, CycleChange

\* The states a version ends in are those of its result.
LEMMA VerdictKeptStep == IInv /\ [Next]_vars => VerdictKept'
<1> SUFFICES ASSUME IInv, [Next]_vars
             PROVE  VerdictKept'
  OBVIOUS
<1>0. VerdictKept /\ DocTypeOK
  BY DEF IInv, TypeOK
<1>1. ASSUME NEW v \in Version, Create(v) \/ Confirm(v)
      PROVE  VerdictKept'
  BY <1>0, <1>1 DEF Create, Confirm, CreateVersion, ConfirmVersion, VerdictKept, DocTypeOK
<1>2. ASSUME NEW a \in Actor, CommitCompletion(a)
      PROVE  VerdictKept'
  <2> DEFINE v == handler[a].version
  <2>1. v \in Version /\ handler[a].target = ResultState(v)
    BY <1>2 DEF CommitCompletion, IInv, OpenTransactions
  <2>2. CASE Verdict[v] = "completed"
    <3>1. CompletedEffect(v)
      BY <1>2, <2>1, <2>2 DEF CommitCompletion, ResultState
    <3> QED BY <1>0, <2>1, <2>2, <3>1 DEF CompletedEffect, VerdictKept, DocTypeOK
  <2>3. CASE Verdict[v] # "completed"
    <3>1. RejectedEffect(v) /\ Verdict[v] = "rejected"
      BY <1>2, <2>1, <2>3 DEF CommitCompletion, ResultState
    <3> QED BY <1>0, <2>1, <3>1 DEF RejectedEffect, VerdictKept, DocTypeOK
  <2> QED BY <2>2, <2>3
<1>3. CASE UNCHANGED docVars
  BY <1>0, <1>3 DEF docVars, VerdictKept
<1> QED BY <1>1, <1>2, <1>3, DocWriters DEF vars

-----------------------------------------------------------------------------
(* Publication.                                                            *)

\* A row becomes published only with its job in the queue.
LEMMA PublishedJobStep == IInv /\ [Next]_vars => PublishedJobIsQueuedOrLost'
<1> SUFFICES ASSUME IInv, [Next]_vars, NEW v \in Version, outbox'[v] = "published"
             PROVE  job'[v] # "none" \/ lost'[v]
  BY DEF PublishedJobIsQueuedOrLost
<1>1. CASE outbox[v] = "published"
  BY <1>1, JobKept DEF IInv, PublishedJobIsQueuedOrLost
<1>2. CASE outbox[v] # "published"
  <2>1. PICK t \in Cycle : claim[v] = t /\ cycle[t].event = v /\ cycle[t].step = "settle"
    BY <1>2, RowStep
  <2>2. job[v] # "none" \/ lost[v]
    BY <2>1 DEF IInv, AddedBeforeSettled
  <2> QED BY <2>2, JobKept
<1> QED BY <1>1, <1>2

\* A row becomes published only with its run stamped, and the stamp stays.
LEMMA PublishedRunStep == IInv /\ [Next]_vars => PublishedRunIsFindable'
<1> SUFFICES ASSUME IInv, [Next]_vars, NEW v \in Version, outbox'[v] = "published",
                    runState'[v] \in ReconcilableState
             PROVE  stamped'[v]
  BY DEF PublishedRunIsFindable
<1>1. outbox[v] # "absent" /\ (runState[v] \in ReconcilableState => stamped[v])
  <2>1. CASE outbox[v] = "published"
    BY <2>1 DEF IInv, PublishedRunIsFindable
  <2>2. CASE outbox[v] # "published"
    <3>1. PICK t \in Cycle : claim[v] = t /\ cycle[t].event = v /\ cycle[t].step = "settle"
      BY <2>2, RowStep
    <3> QED BY <3>1 DEF IInv, ClaimedIsPending, StampedBeforeSettled
  <2> QED BY <2>1, <2>2
<1>2. ~Confirm(v)
  BY <1>1, ConfirmedOnce
<1> QED BY <1>1, <1>2, RunStep DEF ReconcilableState

-----------------------------------------------------------------------------
(* The theorems.                                                           *)

LEMMA InitIInv == Init => IInv
<1> SUFFICES ASSUME Init
             PROVE  IInv
  OBVIOUS
<1> USE DEF Init, DocInit, QueueInit, OutboxInit
<1>1. DocTypeOK /\ CurrentIsNewestReady
  BY DEF DocTypeOK, VersionState, DocumentStatus, CurrentIsNewestReady
<1>2. QueueTypeOK /\ AttemptsLeft
  BY DEF QueueTypeOK, JobState, AttemptsLeft
<1>3. OutboxTypeOK
  BY DEF OutboxTypeOK, CycleState, IdleCycle
<1>4. handler \in [Actor -> HandlerState] /\ OpenTransactions
  BY DEF HandlerState, IdleHandler, Open, RunState, OpenTransactions
<1>5. TypeOK
  BY <1>1, <1>2, <1>3, <1>4 DEF TypeOK, RunState
<1>6. ConfirmationFirst /\ ClaimedIsPending /\ CycleShape
  BY DEF ConfirmationFirst, ClaimedIsPending, CycleShape, IdleCycle
<1>7. AddedBeforeSettled /\ StampedBeforeSettled /\ MarkedIsStamped
  BY DEF AddedBeforeSettled, StampedBeforeSettled, MarkedIsStamped, IdleCycle
<1>8. VerdictKept /\ PublishedJobIsQueuedOrLost /\ PublishedRunIsFindable
  BY DEF VerdictKept, PublishedJobIsQueuedOrLost, PublishedRunIsFindable
<1> QED BY <1>1, <1>2, <1>4, <1>5, <1>6, <1>7, <1>8 DEF IInv

LEMMA StepIInv == IInv /\ [Next]_vars => IInv'
<1> SUFFICES ASSUME IInv, [Next]_vars
             PROVE  IInv'
  OBVIOUS
<1>1. DocTypeOK' /\ CurrentIsNewestReady'
  BY DocSteps, DocTypeStep, NewestReadyStep DEF IInv, TypeOK
<1>2. TypeOK'
  BY <1>1, QueueTypeStep, OutboxTypeStep, RunTypeStep, ActorStep, ListedStep, FaultsCounted
     DEF TypeOK
<1> QED BY <1>1, <1>2, QueueTypeStep, ConfirmationFirstStep, ClaimedIsPendingStep,
           CycleShapeStep, AddedBeforeSettledStep, StampedBeforeSettledStep,
           MarkedIsStampedStep, ActorStep, VerdictKeptStep, PublishedJobStep,
           PublishedRunStep
        DEF IInv

\* In every reachable state the parts may rely on what they rely on.
THEOREM Invariant == Spec => []IInv
<1> QED BY InitIInv, StepIInv, PTL DEF Spec

\* Every variable keeps its type: no attempt beyond MaxAttempts, no state
\* outside the tables.
THEOREM TypeCorrect == Spec => []TypeOK
<1>1. IInv => TypeOK
  BY DEF IInv
<1> QED BY <1>1, Invariant, PTL

\* The outbox never loses a job: whatever claims expire, calls fail and
\* processes die, a published row has its job in the queue unless Redis lost
\* it and the reconciler has not answered yet.
THEOREM OutboxLosesNoJob == Spec => []PublishedJobIsQueuedOrLost
<1>1. IInv => PublishedJobIsQueuedOrLost
  BY DEF IInv
<1> QED BY <1>1, Invariant, PTL

\* The reconciler can find the job of every published run it lists.
THEOREM ListedRunsAreFindable == Spec => []PublishedRunIsFindable
<1>1. IInv => PublishedRunIsFindable
  BY DEF IInv
<1> QED BY <1>1, Invariant, PTL

\* Processing, with its redeliveries, races and crashes, implements the
\* document's specification.
THEOREM ProcessingImplementsDocuments == Spec => DocSpec
<1>1. Init => DocInit
  BY DEF Init
<1> QED BY <1>1, DocSteps, Invariant, PTL DEF Spec, DocSpec

\* So the current version is always the newest ready one, and never goes back.
THEOREM CurrentVersionIsSafe ==
  Spec => []CurrentIsNewestReady /\ []StatusIsJustified /\ CurrentNeverRegresses
BY ProcessingImplementsDocuments, CurrentIsNewest, StatusJustified, CurrentOnlyAdvances
-----------------------------------------------------------------------------
(* What UploadIsProcessed and CompletionIsRecovered rest on.               *)

\* The records of a confirmed version agree: its run is at the state of the
\* result exactly with a version that shows it, and the audit trail tells of
\* a result exactly if the version shows one; an outbox row stays for good.
RecordsAgree ==
  \A v \in Version :
    /\ completions[v] > 0 <=> versionState[v] \in {"READY_FOR_REVIEW", "REJECTED"}
    /\ Confirmed(v) =>
         /\ outbox[v] # "absent"
         /\ \/ runState[v] = "COMPLETED" /\ versionState[v] = "READY_FOR_REVIEW"
            \/ runState[v] = "FAILED" /\ versionState[v] = "REJECTED"
            \/ runState[v] \in ReconcilableState \cup {"DEAD_LETTERED"}

\* No confirmed version is out of everybody's sight: it shows its result, its
\* run was dead-lettered, or the reconciler lists the run and either a
\* publisher will claim its row or the job can be looked up.
NoRunIsForgotten ==
  \A v \in Version : Confirmed(v) =>
    \/ runState[v] = ResultState(v) /\ versionState[v] \in {"READY_FOR_REVIEW", "REJECTED"}
    \/ runState[v] = "DEAD_LETTERED"
    \/ runState[v] \in ReconcilableState /\ (outbox[v] = "pending" \/ stamped[v])

\* What can happen to the records of a version in a step: nothing, its
\* creation, its confirmation, a mark on its run, or its result as a whole.
LEMMA RecordStep ==
  ASSUME IInv, [Next]_vars, NEW v \in Version
  PROVE  \/ UNCHANGED <<versionState[v], runState[v], completions[v]>>
         \/ /\ versionState[v] = "absent" /\ versionState'[v] = "UPLOADING"
            /\ UNCHANGED <<runState[v], completions[v]>>
         \/ /\ Confirm(v) /\ versionState'[v] = "SCAN_QUEUED" /\ runState'[v] = "QUEUED"
            /\ UNCHANGED completions[v]
         \/ /\ runState'[v] \in {"ACTIVE", "RETRY_SCHEDULED", "DEAD_LETTERED"}
            /\ UNCHANGED <<versionState[v], completions[v]>>
         \/ /\ \/ runState'[v] = "COMPLETED" /\ versionState'[v] = "READY_FOR_REVIEW"
               \/ runState'[v] = "FAILED" /\ versionState'[v] = "REJECTED"
            /\ completions'[v] = completions[v] + 1 /\ Confirmed(v)
<1> DEFINE Goal ==
      \/ UNCHANGED <<versionState[v], runState[v], completions[v]>>
      \/ /\ versionState[v] = "absent" /\ versionState'[v] = "UPLOADING"
         /\ UNCHANGED <<runState[v], completions[v]>>
      \/ /\ Confirm(v) /\ versionState'[v] = "SCAN_QUEUED" /\ runState'[v] = "QUEUED"
         /\ UNCHANGED completions[v]
      \/ /\ runState'[v] \in {"ACTIVE", "RETRY_SCHEDULED", "DEAD_LETTERED"}
         /\ UNCHANGED <<versionState[v], completions[v]>>
      \/ /\ \/ runState'[v] = "COMPLETED" /\ versionState'[v] = "READY_FOR_REVIEW"
            \/ runState'[v] = "FAILED" /\ versionState'[v] = "REJECTED"
         /\ completions'[v] = completions[v] + 1 /\ Confirmed(v)
<1>0. /\ versionState \in [Version -> VersionState]
      /\ runState \in [Version -> RunState \cup {"absent"}]
      /\ completions \in [Version -> Nat]
  BY DEF IInv, TypeOK, DocTypeOK
<1>1. ASSUME NEW w \in Version, Create(w)
      PROVE  Goal
  BY <1>0, <1>1 DEF Create, CreateVersion, runVars
<1>2. ASSUME NEW w \in Version, Confirm(w)
      PROVE  Goal
  BY <1>0, <1>2 DEF Confirm, ConfirmVersion
<1>3. ASSUME NEW a \in Actor, CommitMark(a)
      PROVE  Goal
  <2>1. /\ handler[a].target \in {"ACTIVE", "RETRY_SCHEDULED", "DEAD_LETTERED"}
        /\ runState' = [runState EXCEPT ![handler[a].version] = handler[a].target]
        /\ UNCHANGED <<versionState, completions>>
    BY <1>3 DEF CommitMark, IInv, OpenTransactions, docVars
  <2> QED BY <1>0, <2>1
<1>4. ASSUME NEW a \in Actor, CommitCompletion(a)
      PROVE  Goal
  <2>1. PICK w \in Version : w = handler[a].version /\ Confirmed(w)
    BY <1>4 DEF CommitCompletion, IInv, OpenTransactions
  <2>2. /\ completions' = [completions EXCEPT ![w] = @ + 1]
        /\ runState' = [runState EXCEPT ![w] = ResultState(w)]
        /\ IF ResultState(w) = "COMPLETED" THEN CompletedEffect(w) ELSE RejectedEffect(w)
    BY <1>4, <2>1 DEF CommitCompletion, IInv, OpenTransactions
  <2>3. \/ /\ runState' = [runState EXCEPT ![w] = "COMPLETED"]
           /\ versionState' = [versionState EXCEPT ![w] = "READY_FOR_REVIEW"]
        \/ /\ runState' = [runState EXCEPT ![w] = "FAILED"]
           /\ versionState' = [versionState EXCEPT ![w] = "REJECTED"]
    BY <2>2 DEF ResultState, CompletedEffect, RejectedEffect
  <2> QED BY <1>0, <2>1, <2>2, <2>3
<1>5. ASSUME NEW t \in Cycle, Stamp(t)
      PROVE  Goal
  BY <1>5 DEF Stamp, docVars
<1>6. CASE UNCHANGED runVars /\ UNCHANGED docVars
  BY <1>6 DEF runVars, docVars
<1> QED BY <1>1, <1>2, <1>3, <1>4, <1>5, <1>6, RunWriters, DocWriters DEF vars

LEMMA RecordsAgreeStep == IInv /\ RecordsAgree /\ [Next]_vars => RecordsAgree'
<1> SUFFICES ASSUME IInv, RecordsAgree, [Next]_vars, NEW v \in Version
             PROVE  /\ completions'[v] > 0 <=> versionState'[v] \in {"READY_FOR_REVIEW", "REJECTED"}
                    /\ Confirmed(v)' =>
                         /\ outbox'[v] # "absent"
                         /\ \/ runState'[v] = "COMPLETED" /\ versionState'[v] = "READY_FOR_REVIEW"
                            \/ runState'[v] = "FAILED" /\ versionState'[v] = "REJECTED"
                            \/ runState'[v] \in ReconcilableState \cup {"DEAD_LETTERED"}
  BY DEF RecordsAgree
<1>0. completions[v] \in Nat /\ (Confirm(v) => versionState[v] = "UPLOADING")
  BY DEF IInv, TypeOK, Confirm, ConfirmVersion
<1>1. completions'[v] > 0 <=> versionState'[v] \in {"READY_FOR_REVIEW", "REJECTED"}
  BY <1>0, RecordStep DEF RecordsAgree
<1>2. ASSUME Confirmed(v)'
      PROVE  outbox'[v] # "absent"
  <2>1. CASE Confirm(v)
    BY <2>1 DEF Confirm, InsertEvent, IInv, TypeOK, OutboxTypeOK
  <2>2. CASE ~Confirm(v)
    <3>1. Confirmed(v)
      BY <1>2, <2>2, RecordStep DEF Confirmed
    <3>2. outbox[v] # "absent"
      BY <3>1 DEF RecordsAgree
    <3> QED BY <3>2, RowStep
  <2> QED BY <2>1, <2>2
<1>3. ASSUME Confirmed(v)'
      PROVE  \/ runState'[v] = "COMPLETED" /\ versionState'[v] = "READY_FOR_REVIEW"
             \/ runState'[v] = "FAILED" /\ versionState'[v] = "REJECTED"
             \/ runState'[v] \in ReconcilableState \cup {"DEAD_LETTERED"}
  BY <1>3, RecordStep DEF RecordsAgree, Confirmed, ReconcilableState
<1> QED BY <1>1, <1>2, <1>3

\* For any number of versions, actors and failures, the run, the version and
\* the audit trail of a version tell the same (persistCompletion writes them in
\* one transaction; persist never writes a result).
THEOREM RecordsTellTheSame == Spec => []RecordsAgree
<1>1. Init => RecordsAgree
  BY DEF Init, DocInit, RecordsAgree, Confirmed
<1> QED BY <1>1, RecordsAgreeStep, Invariant, PTL DEF Spec

\* No confirmed upload is forgotten: whatever is lost, dies or runs late, it
\* shows its result, was dead-lettered, or is where publisher or reconciler
\* look for it.  That they arrive is UploadIsProcessed and CompletionIsRecovered.
THEOREM NoUploadIsForgotten == Spec => []NoRunIsForgotten
<1>1. ASSUME IInv, RecordsAgree, NEW v \in Version, Confirmed(v)
      PROVE  \/ runState[v] = ResultState(v) /\ versionState[v] \in {"READY_FOR_REVIEW", "REJECTED"}
             \/ runState[v] = "DEAD_LETTERED"
             \/ runState[v] \in ReconcilableState /\ (outbox[v] = "pending" \/ stamped[v])
  <2>1. outbox[v] \in {"pending", "published"}
    BY <1>1 DEF IInv, TypeOK, OutboxTypeOK, RecordsAgree
  <2>2. CASE runState[v] \in ReconcilableState \cup {"DEAD_LETTERED"}
    BY <1>1, <2>1, <2>2 DEF IInv, PublishedRunIsFindable
  <2>3. CASE \/ runState[v] = "COMPLETED" /\ versionState[v] = "READY_FOR_REVIEW"
             \/ runState[v] = "FAILED" /\ versionState[v] = "REJECTED"
    BY <1>1, <2>3 DEF IInv, VerdictKept, ResultState
  <2> QED BY <1>1, <2>2, <2>3 DEF RecordsAgree
<1>2. IInv /\ RecordsAgree => NoRunIsForgotten
  BY <1>1 DEF NoRunIsForgotten
<1> QED BY <1>2, RecordsTellTheSame, Invariant, PTL

-----------------------------------------------------------------------------
(* What persist and persistCompletion would keep if they locked the run.   *)

Writing(a) == handler[a].step \in {"mark", "complete"}

\* At most one of the transactions that have read a run and will save it is
\* open for each version, which SELECT ... FOR UPDATE would bring about.
\* findOne takes no lock.
RunIsLocked ==
  \A a \in Actor : \A b \in Actor \ {a} :
    Writing(a) /\ Writing(b) => handler[a].version # handler[b].version

\* What an open transaction will save is still a legal move of the run.
OpenMoveIsLegal ==
  \A a \in Actor : Writing(a) => CanMove(runState[handler[a].version], handler[a].target)

\* A run whose result was accepted is in a state that nothing leaves.
AcceptedIsFinal ==
  \A v \in Version :
    completions[v] > 0 => completions[v] = 1 /\ runState[v] \in {"COMPLETED", "FAILED"}

\* A run follows PROCESSING_RUN_TRANSITIONS.
RunFollowsTable ==
  [][\A v \in Version : \/ runState'[v] = runState[v]
                        \/ runState[v] = "absent" /\ runState'[v] = "QUEUED"
                        \/ CanMove(runState[v], runState'[v])]_vars

\* Actor a opens a transaction that will save the run of version v, which it
\* has just read.
Opens(a, v) ==
  /\ handler'[a].version = v
  /\ CanMove(runState[v], handler'[a].target)
  /\ runState' = runState
  /\ \/ handler'[a].step = "complete"
     \/ handler'[a].target = "ACTIVE"
     \/ <<"failed", v>> \in events /\ handler'[a].target = FailureTarget(v)

\* Actor a commits such a transaction.
Commits(a, v) ==
  /\ Writing(a)
  /\ handler[a].version = v
  /\ handler'[a].step \notin {"mark", "complete"}
  /\ runState'[v] = handler[a].target
  /\ \/ handler[a].step = "mark" /\ completions'[v] = completions[v]
     \/ handler[a].step = "complete" /\ completions'[v] = completions[v] + 1

\* What can happen to what an actor has open: nothing, an end or a part that
\* saves nothing, or a transaction that has just read the run it will save.
LEMMA ActorOpens ==
  ASSUME IInv, [Next]_vars, NEW a \in Actor
  PROVE  \/ handler'[a] = handler[a]
         \/ handler'[a].step \notin {"mark", "complete"}
         \/ \E v \in Version : Opens(a, v)
<1> DEFINE Goal == \/ handler'[a] = handler[a]
                   \/ handler'[a].step \notin {"mark", "complete"}
                   \/ \E v \in Version : Opens(a, v)
<1>0. handler \in [Actor -> HandlerState]
  BY DEF IInv, TypeOK
<1>1. ASSUME NEW b \in Actor, NEW v \in Version, NEW target, ReadForMark(b, v, target),
             runState' = runState,
             \/ target = "ACTIVE"
             \/ <<"failed", v>> \in events /\ target = FailureTarget(v)
      PROVE  Goal
  <2>1. CASE a # b
    BY <1>0, <1>1, <2>1 DEF ReadForMark
  <2>2. CASE a = b /\ CanMove(runState[v], target)
    <3>1. handler'[a] = Open("mark", v, target, TRUE)
      BY <1>0, <1>1, <2>2 DEF ReadForMark
    <3>2. handler'[a].version = v /\ handler'[a].target = target
      BY <3>1 DEF Open
    <3> QED BY <1>1, <2>2, <3>2 DEF Opens
  <2>3. CASE a = b /\ ~CanMove(runState[v], target)
    <3>1. handler'[a] = ReconcilerAt("recheck", v) \/ handler'[a] = IdleHandler
      BY <1>0, <1>1, <2>3 DEF ReadForMark
    <3> QED BY <3>1 DEF ReconcilerAt, IdleHandler, Open
  <2> QED BY <2>1, <2>2, <2>3
<1>2. ASSUME NEW b \in Actor, NEW v \in Version, ReadForCompletion(b, v), runState' = runState
      PROVE  Goal
  <2>1. CASE a # b
    BY <1>0, <1>2, <2>1 DEF ReadForCompletion
  <2>2. CASE a = b /\ job[v] = "completed" /\ CanMove(runState[v], ResultState(v))
    <3>1. handler'[a] = Open("complete", v, ResultState(v), stamped[v])
      BY <1>0, <1>2, <2>2 DEF ReadForCompletion
    <3>2. /\ handler'[a].step = "complete" /\ handler'[a].version = v
          /\ handler'[a].target = ResultState(v)
      BY <3>1 DEF Open
    <3> QED BY <1>2, <2>2, <3>2 DEF Opens
  <2>3. CASE a = b /\ ~(job[v] = "completed" /\ CanMove(runState[v], ResultState(v)))
    <3>1. handler'[a] = IdleHandler
      BY <1>0, <1>2, <2>3 DEF ReadForCompletion
    <3> QED BY <3>1 DEF IdleHandler, Open
  <2> QED BY <2>1, <2>2, <2>3
<1>3. ASSUME NEW b \in Handler, NEW e \in Event, HandleEvent(b, e)
      PROVE  Goal
  <2>1. PICK v \in Version : e[2] = v /\ e = <<e[1], v>>
    BY DEF Event
  <2>2. runState' = runState /\ e \in events
    BY <1>3 DEF HandleEvent, runVars
  <2>3. CASE UNCHANGED handler
    BY <2>3
  <2>4. CASE ReadForMark(b, v, "ACTIVE")
    BY <1>1, <2>2, <2>4
  <2>5. CASE e[1] = "failed" /\ ReadForMark(b, v, FailureTarget(v))
    <3>1. <<"failed", v>> \in events
      BY <2>1, <2>2, <2>5
    <3> QED BY <1>1, <2>2, <2>5, <3>1
  <2>6. CASE ReadForCompletion(b, v)
    BY <1>2, <2>2, <2>6
  <2> QED BY <1>3, <2>1, <2>3, <2>4, <2>5, <2>6 DEF HandleEvent
<1>4. ASSUME NEW v \in Version, VisitRun(v)
      PROVE  Goal
  <2>1. runState' = runState
    BY <1>4 DEF VisitRun, runVars
  <2>2. CASE ReadForMark(Reconciler, v, "ACTIVE")
    BY <1>1, <2>1, <2>2
  <2>3. CASE UNCHANGED handler
    BY <2>3
  <2>4. CASE handler' = [handler EXCEPT ![Reconciler] = ReconcilerAt("reset", v)]
    BY <1>0, <2>4 DEF ReconcilerAt, Open
  <2> QED BY <1>4, <2>2, <2>3, <2>4 DEF VisitRun
<1>5. CASE Recheck
  <2>1. PICK v \in Version : v = handler[Reconciler].version
    BY <1>5 DEF Recheck, IInv, OpenTransactions
  <2>2. ReadForCompletion(Reconciler, v) /\ runState' = runState
    BY <1>5, <2>1 DEF Recheck, runVars
  <2> QED BY <1>2, <2>2
<1>6. ASSUME NEW b \in Actor, CommitMark(b) \/ CommitCompletion(b) \/ HandlerFails(b)
      PROVE  Goal
  <2>1. \/ handler' = [handler EXCEPT ![b] = ReconcilerAt("recheck", handler[b].version)]
        \/ handler' = [handler EXCEPT ![b] = IdleHandler]
    BY <1>6 DEF CommitMark, CommitCompletion, HandlerFails
  <2> QED BY <1>0, <2>1 DEF ReconcilerAt, IdleHandler, Open
<1>7. CASE ListRuns \/ ResetOutbox \/ ApiCrashes \/ UNCHANGED actorVars
  BY <1>0, <1>7 DEF ListRuns, ResetOutbox, ApiCrashes, IdleHandler, Open, actorVars
<1> QED BY <1>3, <1>4, <1>5, <1>6, <1>7, ActorWriters DEF vars, ReconcilerStep

\* What can happen to a run and its result: nothing, confirmation, or the
\* commit of a transaction that was open for it.
LEMMA RunMoves ==
  ASSUME IInv, [Next]_vars, NEW v \in Version
  PROVE  \/ UNCHANGED <<runState[v], completions[v]>>
         \/ /\ runState[v] = "absent" /\ runState'[v] = "QUEUED"
            /\ UNCHANGED completions[v]
         \/ \E a \in Actor : Commits(a, v)
<1> DEFINE Goal == \/ UNCHANGED <<runState[v], completions[v]>>
                   \/ /\ runState[v] = "absent" /\ runState'[v] = "QUEUED"
                      /\ UNCHANGED completions[v]
                   \/ \E a \in Actor : Commits(a, v)
<1>0. /\ runState \in [Version -> RunState \cup {"absent"}]
      /\ completions \in [Version -> Nat]
      /\ handler \in [Actor -> HandlerState]
  BY DEF IInv, TypeOK
<1>1. ASSUME NEW w \in Version, Confirm(w)
      PROVE  Goal
  <2>1. runState[w] = "absent"
    BY <1>1, RunIsConfirmed DEF Confirm, ConfirmVersion, Confirmed
  <2> QED BY <1>0, <1>1, <2>1 DEF Confirm
<1>2. ASSUME NEW a \in Actor, CommitMark(a)
      PROVE  Goal
  <2>1. /\ runState' = [runState EXCEPT ![handler[a].version] = handler[a].target]
        /\ completions' = completions /\ handler[a].step = "mark"
    BY <1>2 DEF CommitMark
  <2>2. handler'[a].step \notin {"mark", "complete"}
    BY <1>0, <1>2 DEF CommitMark, ReconcilerAt, IdleHandler, Open
  <2> QED BY <1>0, <2>1, <2>2 DEF Writing, Commits
<1>3. ASSUME NEW a \in Actor, CommitCompletion(a)
      PROVE  Goal
  <2>1. /\ runState' = [runState EXCEPT ![handler[a].version] = handler[a].target]
        /\ completions' = [completions EXCEPT ![handler[a].version] = @ + 1]
        /\ handler[a].step = "complete"
    BY <1>3 DEF CommitCompletion
  <2>2. handler'[a].step \notin {"mark", "complete"}
    BY <1>0, <1>3 DEF CommitCompletion, IdleHandler, Open
  <2> QED BY <1>0, <2>1, <2>2 DEF Writing, Commits
<1>4. ASSUME NEW t \in Cycle, Stamp(t)
      PROVE  Goal
  BY <1>4 DEF Stamp
<1>5. CASE UNCHANGED runVars
  BY <1>5 DEF runVars
<1> QED BY <1>1, <1>2, <1>3, <1>4, <1>5, RunWriters DEF vars

\* Under the lock nobody else moves the run between the read and the save.
LEMMA OpenMoveStep ==
  ASSUME IInv, OpenMoveIsLegal, RunIsLocked, [Next]_vars
  PROVE  OpenMoveIsLegal'
<1> SUFFICES ASSUME NEW a \in Actor, handler'[a].step \in {"mark", "complete"}
             PROVE  CanMove(runState'[handler'[a].version], handler'[a].target)
  BY DEF OpenMoveIsLegal, Writing, CanMove
<1>1. CASE handler'[a] = handler[a]
  <2>1. PICK v \in Version : handler[a].version = v
    BY <1>1 DEF IInv, OpenTransactions
  <2>2. CanMove(runState[v], handler[a].target)
    BY <1>1, <2>1 DEF OpenMoveIsLegal, Writing
  <2>3. runState[v] # "absent"
    BY <2>2 DEF CanMove, RunTransition
  <2>4. ASSUME NEW b \in Actor, Commits(b, v)
        PROVE  FALSE
    BY <1>1, <2>1, <2>4 DEF RunIsLocked, Writing, Commits
  <2>5. runState'[v] = runState[v]
    BY <2>3, <2>4, RunMoves
  <2> QED BY <1>1, <2>1, <2>2, <2>5
<1>2. CASE \E v \in Version : Opens(a, v)
  BY <1>2 DEF Opens
<1> QED BY <1>1, <1>2, ActorOpens

\* A run in a final state has no legal move, so no second result.
LEMMA AcceptedStep ==
  ASSUME IInv, OpenMoveIsLegal, AcceptedIsFinal, [Next]_vars
  PROVE  AcceptedIsFinal'
<1> SUFFICES ASSUME NEW v \in Version, completions'[v] > 0
             PROVE  completions'[v] = 1 /\ runState'[v] \in {"COMPLETED", "FAILED"}
  BY DEF AcceptedIsFinal
<1>0. completions[v] \in Nat
  BY DEF IInv, TypeOK
<1>1. CASE completions[v] = 0
  BY <1>0, <1>1, RecordStep
<1>2. CASE completions[v] # 0
  <2>1. completions[v] = 1 /\ runState[v] \in {"COMPLETED", "FAILED"}
    BY <1>0, <1>2 DEF AcceptedIsFinal
  <2>2. ASSUME NEW a \in Actor, Commits(a, v)
        PROVE  FALSE
    BY <2>1, <2>2 DEF Commits, OpenMoveIsLegal, CanMove, RunTransition
  <2> QED BY <2>1, <2>2, RunMoves
<1> QED BY <1>1, <1>2

LEMMA LockedInvariant == Spec /\ []RunIsLocked => [](OpenMoveIsLegal /\ AcceptedIsFinal)
<1>1. Init => OpenMoveIsLegal /\ AcceptedIsFinal
  BY DEF Init, OpenMoveIsLegal, AcceptedIsFinal, Writing, IdleHandler, Open
<1>2. /\ OpenMoveIsLegal /\ AcceptedIsFinal
      /\ IInv /\ RunIsLocked /\ [Next]_vars
      => (OpenMoveIsLegal /\ AcceptedIsFinal)'
  BY OpenMoveStep, AcceptedStep
<1> QED BY <1>1, <1>2, Invariant, PTL DEF Spec

\* With the lock the code does not take, a result would be accepted once: the
\* race of run accepted_twice is the only way to a second audit event.
THEOREM LockedResultIsAcceptedOnce == Spec /\ []RunIsLocked => []ResultAcceptedOnce
<1>1. IInv /\ AcceptedIsFinal => ResultAcceptedOnce
  BY DEF IInv, TypeOK, AcceptedIsFinal, ResultAcceptedOnce
<1> QED BY <1>1, LockedInvariant, Invariant, PTL

\* With that lock, checking the table on what was read would be enough for
\* every run to follow it, however callbacks and reconciler interleave.
THEOREM LockedRunFollowsTable == Spec /\ []RunIsLocked => RunFollowsTable
<1>1. ASSUME IInv, OpenMoveIsLegal, [Next]_vars, NEW v \in Version
      PROVE  \/ runState'[v] = runState[v]
             \/ runState[v] = "absent" /\ runState'[v] = "QUEUED"
             \/ CanMove(runState[v], runState'[v])
  BY <1>1, RunMoves DEF Commits, OpenMoveIsLegal
<1>2. IInv /\ OpenMoveIsLegal /\ [Next]_vars =>
        [\A v \in Version : \/ runState'[v] = runState[v]
                            \/ runState[v] = "absent" /\ runState'[v] = "QUEUED"
                            \/ CanMove(runState[v], runState'[v])]_vars
  BY <1>1
<1> QED BY <1>2, LockedInvariant, Invariant, PTL DEF Spec, RunFollowsTable

-----------------------------------------------------------------------------
(* Why ExhaustedIsDeadLettered fails.                                      *)

\* While nothing fails but attempts, a job fails only when it has used them
\* up, and stays failed; so what is announced of it is never a retry.
FailuresAreExhaustions ==
  faults = 0 =>
    \A v \in Version : /\ job[v] = "failed" => attempts[v] = MaxAttempts
                       /\ <<"failed", v>> \in events => job[v] = "failed"

\* While nothing else fails, no run is moved to RETRY_SCHEDULED, from which
\* alone the table leads to DEAD_LETTERED.
NothingIsDeadLettered ==
  faults = 0 => \A v \in Version : runState[v] \notin {"RETRY_SCHEDULED", "DEAD_LETTERED"}

\* Nor is anybody about to.
OnlyActiveIsMarked ==
  faults = 0 => \A a \in Actor : handler[a].step = "mark" => handler[a].target = "ACTIVE"

\* No step takes a failure back.
LEMMA FaultsStay == ASSUME IInv, [Next]_vars, faults' = 0 PROVE faults = 0 /\ ~Fault
BY FaultsAddUp DEF Fault, IInv, TypeOK, vars

LEMMA FailuresAreExhaustionsStep ==
  ASSUME IInv, FailuresAreExhaustions, [Next]_vars
  PROVE  FailuresAreExhaustions'
<1> SUFFICES ASSUME faults' = 0, NEW v \in Version
             PROVE  /\ job'[v] = "failed" => attempts'[v] = MaxAttempts
                    /\ <<"failed", v>> \in events' => job'[v] = "failed"
  BY DEF FailuresAreExhaustions
<1> DEFINE Goal == /\ job'[v] = "failed" => attempts'[v] = MaxAttempts
                   /\ <<"failed", v>> \in events' => job'[v] = "failed"
<1>0. /\ QueueTypeOK
      /\ job[v] = "failed" => attempts[v] = MaxAttempts
      /\ <<"failed", v>> \in events => job[v] = "failed"
      /\ ~Fault
  BY FaultsStay DEF FailuresAreExhaustions, IInv, TypeOK
<1>1. ASSUME NEW t \in Cycle, NEW w \in Version, Add(t, w)
      PROVE  Goal
  <2>1. CASE job[w] = "none"
    BY <1>0, <1>1, <2>1 DEF Add, Enqueue, QueueTypeOK
  <2>2. CASE job[w] # "none"
    BY <1>0, <1>1, <2>2 DEF Add, Enqueue, queueVars
  <2> QED BY <2>1, <2>2
<1>2. ASSUME NEW w \in Version, WorkerStep(w)
      PROVE  Goal
  <2>1. CASE TakeJob(w)
    BY <1>0, <2>1 DEF TakeJob, QueueTypeOK
  <2>2. CASE RetryJob(w)
    BY <1>0, <2>2 DEF RetryJob, QueueTypeOK
  <2>3. CASE FinishJob(w)
    BY <1>0, <2>3 DEF FinishJob, QueueTypeOK
  <2>4. CASE FailAttempt(w) /\ attempts[w] + 1 < MaxAttempts
    BY <1>0, <2>4 DEF FailAttempt, QueueTypeOK
  <2>5. CASE FailAttempt(w) /\ ~(attempts[w] + 1 < MaxAttempts)
    <3>1. attempts[w] + 1 = MaxAttempts
      BY <1>0, <2>5 DEF FailAttempt, IInv, AttemptsLeft, QueueTypeOK
    <3>2. /\ job' = [job EXCEPT ![w] = "failed"]
          /\ attempts' = [attempts EXCEPT ![w] = attempts[w] + 1]
          /\ events' = events \cup {<<"failed", w>>}
      BY <2>5 DEF FailAttempt
    <3>3. CASE v = w
      BY <1>0, <3>1, <3>2, <3>3 DEF QueueTypeOK
    <3>4. CASE v # w
      BY <1>0, <3>2, <3>4 DEF QueueTypeOK
    <3> QED BY <3>3, <3>4
  <2> QED BY <1>2, <2>1, <2>2, <2>3, <2>4, <2>5 DEF WorkerStep
<1>3. ASSUME NEW w \in Version
      PROVE  ~QueueFault(w)
  BY <1>0 DEF QueueFault
<1>4. CASE \/ ResetOutbox \/ UNCHANGED queueVars
           \/ UNCHANGED <<job, attempts, lost>> /\ events' \in SUBSET events
  BY <1>0, <1>4 DEF ResetOutbox, queueVars
<1> QED BY <1>1, <1>2, <1>3, <1>4, QueueWriters DEF vars

LEMMA OnlyActiveIsMarkedStep ==
  ASSUME IInv, FailuresAreExhaustions, NothingIsDeadLettered, OnlyActiveIsMarked,
         [Next]_vars
  PROVE  OnlyActiveIsMarked'
<1> SUFFICES ASSUME faults' = 0, NEW a \in Actor, handler'[a].step = "mark"
             PROVE  handler'[a].target = "ACTIVE"
  BY DEF OnlyActiveIsMarked
<1>0. faults = 0
  BY FaultsStay
<1>1. CASE handler'[a] = handler[a]
  BY <1>0, <1>1 DEF OnlyActiveIsMarked
<1>2. ASSUME NEW v \in Version, Opens(a, v)
      PROVE  handler'[a].target = "ACTIVE"
  <2>1. ASSUME <<"failed", v>> \in events, handler'[a].target = FailureTarget(v)
        PROVE  FALSE
    <3>1. attempts[v] = MaxAttempts
      BY <1>0, <2>1 DEF FailuresAreExhaustions
    <3>2. handler'[a].target = "DEAD_LETTERED"
      BY <2>1, <3>1 DEF FailureTarget
    <3>3. runState[v] = "RETRY_SCHEDULED"
      BY <1>2, <3>2 DEF Opens, CanMove, RunTransition
    <3> QED BY <1>0, <3>3 DEF NothingIsDeadLettered
  <2> QED BY <1>2, <2>1 DEF Opens
<1> QED BY <1>1, <1>2, ActorOpens

LEMMA NothingIsDeadLetteredStep ==
  ASSUME IInv, NothingIsDeadLettered, OnlyActiveIsMarked, [Next]_vars
  PROVE  NothingIsDeadLettered'
<1> SUFFICES ASSUME faults' = 0, NEW v \in Version
             PROVE  runState'[v] \notin {"RETRY_SCHEDULED", "DEAD_LETTERED"}
  BY DEF NothingIsDeadLettered
<1>0. faults = 0
  BY FaultsStay
<1>1. ASSUME NEW a \in Actor, Commits(a, v)
      PROVE  runState'[v] \in {"ACTIVE", "COMPLETED", "FAILED"}
  BY <1>0, <1>1 DEF Commits, OnlyActiveIsMarked, IInv, OpenTransactions, ResultState
<1> QED BY <1>0, <1>1, RunMoves DEF NothingIsDeadLettered

\* Finding dead_letter for any number of versions, attempts and callbacks, and
\* whether or not events are lost: while nothing fails but attempts, no run ever
\* becomes DEAD_LETTERED.  "failed" is announced after the last attempt only,
\* asks for DEAD_LETTERED at once, and the table allows that from
\* RETRY_SCHEDULED alone.
THEOREM ExhaustionDeadLettersNothing == Spec => []NothingIsDeadLettered
<1> DEFINE Inv == FailuresAreExhaustions /\ OnlyActiveIsMarked /\ NothingIsDeadLettered
<1>1. Init => Inv
  BY DEF Init, QueueInit, IdleHandler, Open, FailuresAreExhaustions, OnlyActiveIsMarked,
         NothingIsDeadLettered
<1>2. IInv /\ Inv /\ [Next]_vars => Inv'
  BY FailuresAreExhaustionsStep, OnlyActiveIsMarkedStep, NothingIsDeadLetteredStep
<1> QED BY <1>1, <1>2, Invariant, PTL DEF Spec
==============================================================================
