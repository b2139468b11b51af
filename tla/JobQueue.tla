------------------------------- MODULE JobQueue -------------------------------
(***************************************************************************)
(* The BullMQ queue "document-processing.v1" as the API and the worker use *)
(* it.  Redis and BullMQ are not under src/; their behaviour is modelled   *)
(* from the calls: a job is found by its deterministic jobId, so there is  *)
(* one per version; it is tried MaxAttempts times with a backoff; a job    *)
(* whose worker dies is stalled and taken again or failed; and "active",   *)
(* "completed" and "failed" are announced on a stream that QueueEvents     *)
(* reads.  "failed" is announced only when the job will not be tried       *)
(* again.  What the worker does inside one attempt is a single step: it    *)
(* either returns a result or raises (consume, main.py process).           *)
(***************************************************************************)
EXTENDS Versions

CONSTANTS
  MaxAttempts, \* the attempts option of queue.add (5 in the code)
  Verdict      \* Verdict[v]: the outcome the worker returns for version v

ASSUME JobQueueAssumption ==
  /\ MaxAttempts \in Nat \ {0}
  /\ Verdict \in [Version -> {"completed", "rejected"}]

VARIABLES
  job,      \* job[v]: where the job of version v is in Redis
  attempts, \* attempts[v]: attemptsMade
  events,   \* announced and not yet handled, as <<name, version>>
  lost      \* history: the job vanished and no reconciler reset answered yet

queueVars == <<job, attempts, events, lost>>

JobState == {"none", "waiting", "active", "delayed", "completed", "failed"}
Event == {"active", "completed", "failed"} \X Version

QueueTypeOK ==
  /\ job \in [Version -> JobState]
  /\ attempts \in [Version -> 0 .. MaxAttempts]
  /\ events \in SUBSET Event
  /\ lost \in [Version -> BOOLEAN]

QueueInit ==
  /\ job = [v \in Version |-> "none"]
  /\ attempts = [v \in Version |-> 0]
  /\ events = {}
  /\ lost = [v \in Version |-> FALSE]

-----------------------------------------------------------------------------
\* queue.add with a jobId: nothing happens while a job with that id exists.
Enqueue(v) ==
  IF job[v] = "none"
    THEN /\ job' = [job EXCEPT ![v] = "waiting"]
         /\ attempts' = [attempts EXCEPT ![v] = 0]
         /\ UNCHANGED <<events, lost>>
    ELSE UNCHANGED queueVars

\* A worker takes the job.
TakeJob(v) ==
  /\ job[v] = "waiting"
  /\ job' = [job EXCEPT ![v] = "active"]
  /\ events' = events \cup {<<"active", v>>}
  /\ UNCHANGED <<attempts, lost>>

\* The attempt returns a compact result, whichever its outcome.
FinishJob(v) ==
  /\ job[v] = "active"
  /\ job' = [job EXCEPT ![v] = "completed"]
  /\ attempts' = [attempts EXCEPT ![v] = @ + 1]
  /\ events' = events \cup {<<"completed", v>>}
  /\ UNCHANGED lost

\* Mutant: one attempt too many.
FailAttemptOffByOne(v) ==
  /\ job[v] = "active"
  /\ attempts' = [attempts EXCEPT ![v] = @ + 1]
  /\ IF attempts[v] <= MaxAttempts
       THEN job' = [job EXCEPT ![v] = "delayed"] /\ UNCHANGED events
       ELSE job' = [job EXCEPT ![v] = "failed"] /\ events' = events \cup {<<"failed", v>>}
  /\ UNCHANGED lost

\* Mutant: the failure is not counted.
FailAttemptUncounted(v) ==
  /\ job[v] = "active"
  /\ job' = [job EXCEPT ![v] = "delayed"]
  /\ UNCHANGED <<attempts, events, lost>>

\* The attempt raises.  Every failure, permanent or not, is raised the same
\* way, so BullMQ retries until the attempts are exhausted.
FailAttempt(v) ==
  /\ job[v] = "active"
  /\ attempts' = [attempts EXCEPT ![v] = @ + 1]
  /\ IF attempts[v] + 1 < MaxAttempts
       THEN job' = [job EXCEPT ![v] = "delayed"] /\ UNCHANGED events
       ELSE job' = [job EXCEPT ![v] = "failed"] /\ events' = events \cup {<<"failed", v>>}
  /\ UNCHANGED lost

\* The backoff delay is over.
RetryJob(v) ==
  /\ job[v] = "delayed"
  /\ job' = [job EXCEPT ![v] = "waiting"]
  /\ UNCHANGED <<attempts, events, lost>>

\* The worker died holding the job: the lock expires and the job waits again,
\* or it stalled too often and fails with attempts to spare.
StallJob(v) ==
  /\ job[v] = "active"
  /\ \/ job' = [job EXCEPT ![v] = "waiting"] /\ UNCHANGED events
     \/ job' = [job EXCEPT ![v] = "failed"] /\ events' = events \cup {<<"failed", v>>}
  /\ UNCHANGED <<attempts, lost>>

\* Redis loses the job.  What its stream announced may outlive it.
LoseJob(v) ==
  /\ job[v] # "none"
  /\ job' = [job EXCEPT ![v] = "none"]
  /\ attempts' = [attempts EXCEPT ![v] = 0]
  /\ lost' = [lost EXCEPT ![v] = TRUE]
  /\ UNCHANGED events

\* The stream is trimmed, or read while no API process listens.
DropEvent(e) ==
  /\ e \in events
  /\ events' = events \ {e}
  /\ UNCHANGED <<job, attempts, lost>>
==============================================================================
