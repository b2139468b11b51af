------------------------------- MODULE Reviews -------------------------------
(***************************************************************************)
(* The review of one processed version: its decision, its pendencies       *)
(* (review_tasks) and one of its extracted fields, written by requests of  *)
(* ReviewsService and by results persisted again                           *)
(* (reviews.service.ts, extracted-fields.service.ts).                      *)
(*                                                                         *)
(* Every request is a READ COMMITTED transaction that reads an entity      *)
(* without locking, checks, changes it and saves it.  manager.save reads   *)
(* the row again and then updates the columns in which the entity differs  *)
(* from what it read: one step for each read, and a commit.  The UPDATE    *)
(* locks the row until the commit, so the two are one step.  A request     *)
(* whose check fails changes nothing.                                      *)
(*                                                                         *)
(* Every request appends to the organization's audit trail, whose lock it  *)
(* then holds until it commits: the requests of reviewers do so after they *)
(* saved, persistCompletion before it reads the fields.  Permissions,      *)
(* justifications, due dates, comments on the review and notifications     *)
(* decide nothing stated here: left out.                                   *)
(***************************************************************************)
EXTENDS Naturals

CONSTANTS
  Request,   \* transactions that may be open at once
  Task,      \* pendencies of the review, created or not
  Extracted, \* values a result may carry for the field
  Corrected  \* values reviewers may enter

ASSUME ReviewsAssumption == Extracted # {}

VARIABLES
  review,      \* the row of reviews: its state and decision
  tasks,       \* tasks[k]: review_tasks.state, "absent" if no row
  comments,    \* comments[k]: how many rows of review_comments resolve task k
  field,       \* the row of extracted_fields
  transaction, \* transaction[r]: what request r has read and will save
  corrections, \* history: the corrections that were accepted
  overtaken    \* history: the open requests that were overtaken

vars == <<review, tasks, comments, field, transaction, corrections, overtaken>>

Decision == {"APPROVED", "REJECTED", "RETURNED_FOR_COMPLEMENT"}
ReviewState == {"PENDING", "IN_REVIEW", "APPROVED", "REJECTED", "CHANGES_REQUESTED"}
FinalState == {"APPROVED", "REJECTED"}

\* Mutant: the decision is taken for the state.
DecisionAsState(d) == d

\* stateByDecision
DecidedState(d) == IF d = "RETURNED_FOR_COMPLEMENT" THEN "CHANGES_REQUESTED" ELSE d

Review == [state : ReviewState, decision : Decision \cup {"none"}]
Resolution == {"RESOLVED", "CANCELLED"}
TaskState == {"absent", "OPEN"} \cup Resolution

\* previous stands for previous_values: which values, not in which order.
FieldOf(values, sources) ==
  [value : values, source : sources, previous : SUBSET (Extracted \cup Corrected)]
Field == FieldOf(Extracted \cup Corrected, {"worker", "human"})

Idle == [kind |-> "none", step |-> "idle"]

\* A request carries the entity it is going to save and the row as it was read
\* last.
Transaction ==
  {Idle}
    \cup [kind : {"decide"}, step : {"count", "reload", "save"}, entity : Review, loaded : Review]
    \cup [kind : {"create"}, step : {"reload", "save"}, entity : Review, loaded : Review, task : Task]
    \cup [kind : {"resolve"}, step : {"reload", "save"}, entity : Resolution, loaded : TaskState,
          task : Task]
    \cup [kind : {"correct"}, step : {"reload", "save"}, entity : FieldOf(Corrected, {"human"}),
          loaded : Field]
    \cup [kind : {"refresh"}, step : {"reload", "save"}, entity : FieldOf(Extracted, {"worker"}),
          loaded : Field]

ReviewTypeOK ==
  /\ review \in Review
  /\ tasks \in [Task -> TaskState]
  /\ comments \in [Task -> Nat]
  /\ field \in Field
  /\ transaction \in [Request -> Transaction]
  /\ corrections \subseteq Corrected
  /\ overtaken \subseteq {r \in Request : transaction[r] # Idle}

\* The first result has been persisted: a pending review, and the field.
Init ==
  /\ review = [state |-> "PENDING", decision |-> "none"]
  /\ tasks = [k \in Task |-> "absent"]
  /\ comments = [k \in Task |-> 0]
  /\ \E x \in Extracted : field = [value |-> x, source |-> "worker", previous |-> {}]
  /\ transaction = [r \in Request |-> Idle]
  /\ corrections = {}
  /\ overtaken = {}

-----------------------------------------------------------------------------
(* Transactions.                                                           *)

rows == <<review, tasks, comments, field, corrections>>

Begin(r, t) ==
  /\ transaction[r] = Idle
  /\ transaction' = [transaction EXCEPT ![r] = t]
  /\ UNCHANGED <<rows, overtaken>>

\* The request is over.
End(r) ==
  /\ transaction' = [transaction EXCEPT ![r] = Idle]
  /\ overtaken' = overtaken \ {r}

\* The row a transaction is about.
RowOf(t) ==
  CASE t.kind \in {"decide", "create"}   -> review
    [] t.kind = "resolve"                -> tasks[t.task]
    [] t.kind \in {"correct", "refresh"} -> field

\* save: the row is read again.
Reload(r) ==
  /\ transaction[r].step = "reload"
  /\ transaction' = [transaction EXCEPT ![r].step = "save", ![r].loaded = RowOf(transaction[r])]
  /\ UNCHANGED <<rows, overtaken>>

\* save: the columns in which the entity differs from what was loaded replace
\* those of the row as it is now.
Saved(t, row) ==
  [c \in DOMAIN row |-> IF t.entity[c] = t.loaded[c] THEN row[c] ELSE t.entity[c]]

\* Mutant: the trail is locked only for the commit, as if persistCompletion
\* appended its event after it stored the fields.
TrailIsNeverHeld(r) == TRUE

\* No other transaction holds the lock of the trail (AuditService.append).
TrailIsFree(r) == \A q \in Request \ {r} : transaction[q].kind # "refresh"

\* t writes a row that u has read: the review, or its set of open tasks; the
\* field; the same task.
Touches(t, u) ==
  \/ {t.kind, u.kind} \subseteq {"decide", "create"}
  \/ {t.kind, u.kind} \subseteq {"correct", "refresh"}
  \/ t.kind = "resolve" /\ u.kind = "resolve" /\ t.task = u.task

\* Whoever commits has had the trail, and overtakes the requests that have read
\* what it writes.
Commit(r, kind) ==
  /\ transaction[r].kind = kind /\ transaction[r].step = "save"
  /\ TrailIsFree(r)
  /\ transaction' = [transaction EXCEPT ![r] = Idle]
  /\ overtaken' = {q \in Request \ {r} : q \in overtaken \/ Touches(transaction[r], transaction[q])}

\* The connection or the process is lost, or two transactions deadlock: the
\* transaction rolls back.
Abort(r) ==
  /\ transaction[r] # Idle
  /\ End(r)
  /\ UNCHANGED rows

-----------------------------------------------------------------------------
(* decide                                                                  *)

Decide(d) ==
  [kind   |-> "decide", step |-> "count", loaded |-> review,
   entity |-> [state |-> DecidedState(d), decision |-> d]]

\* Mutant: a final decision may be taken again.
DecideAnyReview(r, d) == Begin(r, Decide(d))

ReadReview(r, d) ==
  /\ review.state \notin FinalState
  /\ Begin(r, Decide(d))

\* Mutant: the pendencies are not looked at.
SkipCount(r) ==
  /\ transaction[r].step = "count"
  /\ transaction' = [transaction EXCEPT ![r].step = "reload"]
  /\ UNCHANGED <<rows, overtaken>>

CountOpenTasks(r) ==
  /\ transaction[r].step = "count"
  /\ IF \E k \in Task : tasks[k] = "OPEN"
       THEN End(r)
       ELSE /\ transaction' = [transaction EXCEPT ![r].step = "reload"]
            /\ UNCHANGED overtaken
  /\ UNCHANGED rows

SaveDecision(r) ==
  /\ Commit(r, "decide")
  /\ review' = Saved(transaction[r], review)
  /\ UNCHANGED <<tasks, comments, field, corrections>>

-----------------------------------------------------------------------------
(* createTask and resolveTask                                              *)

\* The first task of a pending review also saves the review.
Create(k) ==
  [kind   |-> "create", task |-> k, loaded |-> review,
   step   |-> IF review.state = "PENDING" THEN "reload" ELSE "save",
   entity |-> IF review.state = "PENDING" THEN [review EXCEPT !.state = "IN_REVIEW"] ELSE review]

\* A new task has a new id.  The state of the review is not checked.
ReadReviewForTask(r, k) ==
  /\ tasks[k] = "absent"
  /\ \A q \in Request : transaction[q].kind = "create" => transaction[q].task # k
  /\ Begin(r, Create(k))

SaveTask(r) ==
  LET t == transaction[r] IN
  /\ Commit(r, "create")
  /\ tasks' = [tasks EXCEPT ![t.task] = "OPEN"]
  /\ review' = Saved(t, review)
  /\ UNCHANGED <<comments, field, corrections>>

Resolve(k, s) ==
  [kind |-> "resolve", step |-> "reload", task |-> k, entity |-> s, loaded |-> tasks[k]]

\* Mutant: a task may be resolved again.
ReadAnyTask(r, k, s) ==
  /\ tasks[k] # "absent"
  /\ Begin(r, Resolve(k, s))

ReadOpenTask(r, k, s) ==
  /\ tasks[k] = "OPEN"
  /\ Begin(r, Resolve(k, s))

\* Of the columns of the task only the state is modelled.
SaveResolution(r) ==
  LET t == transaction[r] IN
  /\ Commit(r, "resolve")
  /\ tasks' = [tasks EXCEPT ![t.task] = IF t.entity = t.loaded THEN @ ELSE t.entity]
  /\ comments' = [comments EXCEPT ![t.task] = @ + 1]
  /\ UNCHANGED <<review, field, corrections>>

-----------------------------------------------------------------------------
(* correctField, and ExtractedFieldsService.persist for a second result.   *)

\* The value that was read joins the history that was read.
Correct(x) ==
  [kind   |-> "correct", step |-> "reload", loaded |-> field,
   entity |-> [value |-> x, source |-> "human", previous |-> field.previous \cup {field.value}]]

ReadField(r, x) == Begin(r, Correct(x))

\* Mutant: the history keeps what the worker extracted, not corrections.
SaveCorrectionOnly(r) ==
  LET t == transaction[r] IN
  /\ Commit(r, "correct")
  /\ field' = [Saved(t, field) EXCEPT !.previous = t.loaded.previous]
  /\ corrections' = corrections \cup {t.entity.value}
  /\ UNCHANGED <<review, tasks, comments>>

\* The new entry of the history has its time, so the history always differs.
SaveCorrection(r) ==
  LET t == transaction[r] IN
  /\ Commit(r, "correct")
  /\ field' = [Saved(t, field) EXCEPT !.previous = t.entity.previous]
  /\ corrections' = corrections \cup {t.entity.value}
  /\ UNCHANGED <<review, tasks, comments>>

Refresh(x) ==
  [kind   |-> "refresh", step |-> "reload", loaded |-> field,
   entity |-> [field EXCEPT !.value = x, !.source = "worker"]]

\* persistCompletion has the trail.  A field a human wrote is skipped.
ReadFieldForResult(r, x) ==
  /\ TrailIsFree(r)
  /\ field.source # "human"
  /\ Begin(r, Refresh(x))

SaveResult(r) ==
  /\ Commit(r, "refresh")
  /\ field' = Saved(transaction[r], field)
  /\ UNCHANGED <<review, tasks, comments, corrections>>

-----------------------------------------------------------------------------
Next ==
  \E r \in Request :
    \/ \E d \in Decision : ReadReview(r, d)
    \/ CountOpenTasks(r) \/ Reload(r) \/ SaveDecision(r)
    \/ \E k \in Task : ReadReviewForTask(r, k)
    \/ SaveTask(r)
    \/ \E k \in Task, s \in Resolution : ReadOpenTask(r, k, s)
    \/ SaveResolution(r)
    \/ \E x \in Corrected : ReadField(r, x)
    \/ SaveCorrection(r)
    \/ \E x \in Extracted : ReadFieldForResult(r, x)
    \/ SaveResult(r)
    \/ Abort(r)

Spec == Init /\ [][Next]_vars

-----------------------------------------------------------------------------
(* What decide, createTask, resolveTask and correctField promise fails when *)
(* requests overlap: TLC finds a final decision with an open task and a     *)
(* lost correction.  What holds is that only a request that was overtaken,  *)
(* and saves what it read although another wrote it since, breaks a promise.*)

\* "No decision is allowed while pendencies remain open" (decide,
\* reviews.service.ts:130): a review becomes final only with no open task.
NoDecisionWithOpenTasks ==
  [][review.state \notin FinalState /\ review'.state \in FinalState
       => \A k \in Task : tasks[k] # "OPEN"]_vars

\* "The extraction history remains reconstructable" (correctField,
\* reviews.service.ts:46-50): a correction that was accepted is the value of
\* the field or is in its history, whatever was written after it.
Kept(x) == x = field.value \/ x \in field.previous
CorrectionsAreKept == \A x \in corrections : Kept(x)

\* "Only open tasks can be resolved" and "a resolution message [is] always
\* required" (resolveTask, reviews.service.ts:97-109): a resolved or cancelled
\* task has the one comment that says why, and an open one has none.
Explained(k) == comments[k] = IF tasks[k] \in Resolution THEN 1 ELSE 0

\* Request r commits although what it read has been written since.
CommitsLate(r) == r \in overtaken /\ transaction'[r] = Idle

\* A task that createTask opens while a decision is taken is the only way to a
\* final decision beside an open task: decide's count stands until it commits
\* unless it was overtaken (decide, reviews.service.ts:139-147).
OnlyOvertakenDecideBesideTasks ==
  [][review.state \notin FinalState /\ review'.state \in FinalState /\ (\E k \in Task : tasks[k] = "OPEN")
       => \E r \in Request : CommitsLate(r) /\ transaction[r].kind = "decide"]_vars

\* "Review already has a final decision" (decide, reviews.service.ts:138):
\* neither another decision nor a pendency changes a final decision, but one
\* that read the review before it was taken.
OnlyOvertakenChangeDecision ==
  [][review.state \in FinalState /\ review' # review
       => \E r \in Request : CommitsLate(r) /\ transaction[r].kind \in {"decide", "create"}]_vars

\* No write of the field drops a correction from its value and history, and
\* none fails to enter the one it was asked to, but a correction that another
\* request overtook (correctField, reviews.service.ts:54-64).
OnlyOvertakenLoseCorrections ==
  [][(\A x \in corrections' : (x \in corrections => Kept(x)) => Kept(x)')
       \/ \E r \in Request : CommitsLate(r) /\ transaction[r].kind = "correct"]_vars

\* A task keeps the one comment that explains it, whatever is resolved and
\* created beside it, unless two resolutions of that task overlap (resolveTask,
\* reviews.service.ts:100-109).
OnlyOvertakenResolveTwice ==
  [][\A k \in Task : Explained(k) =>
       \/ Explained(k)'
       \/ \E r \in Request :
            CommitsLate(r) /\ transaction[r].kind = "resolve" /\ transaction[r].task = k]_vars

\* "An automatic re-run never overwrites a human-authored correction"
\* (extracted-fields.service.ts:70-74): a field that is a reviewer's stays so,
\* however the transactions of a second result and of corrections overlap.
HumanValueStands ==
  [][field.source = "human" => field'.source = "human"]_vars
==============================================================================
