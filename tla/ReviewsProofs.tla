---------------------------- MODULE ReviewsProofs ----------------------------
(***************************************************************************)
(* What the checks of ReviewsService and of ExtractedFieldsService are     *)
(* worth, with any number of tasks, values and requests: what holds        *)
(* however requests overlap, which requests alone break each of the other  *)
(* promises, and that refusing those requests would keep all of them.      *)
(***************************************************************************)
EXTENDS Reviews, TLAPS

USE ReviewsAssumption

-----------------------------------------------------------------------------
(* Columns and transactions.                                               *)

\* What an open transaction holds, by its kind.
LEMMA OpenTransaction ==
  ASSUME ReviewTypeOK, NEW r \in Request
  PROVE  LET t == transaction[r] IN
         /\ t.kind \in {"none", "decide", "create", "resolve", "correct", "refresh"}
         /\ t.step \in {"idle", "count", "reload", "save"}
         /\ t.step = "idle" <=> t.kind = "none"
         /\ t.step = "count" => t.kind = "decide"
         /\ t.kind \in {"decide", "create"} => t.entity \in Review /\ t.loaded \in Review
         /\ t.kind \in {"create", "resolve"} => t.task \in Task
         /\ t.kind = "resolve" => t.entity \in Resolution /\ t.loaded \in TaskState
         /\ t.kind \in {"correct", "refresh"} => t.entity \in Field /\ t.loaded \in Field
         /\ t.kind = "correct" => t.entity.value \in Corrected /\ t.entity.source = "human"
         /\ t.kind = "refresh" => t.entity.value \in Extracted /\ t.entity.source = "worker"
BY DEF ReviewTypeOK, Transaction, Idle, Field, FieldOf

\* A saved review has each column of the entity that was changed since it was
\* loaded, and each other column of the row.
LEMMA SavedReview ==
  ASSUME NEW t, NEW row \in Review, t.entity \in Review, t.loaded \in Review
  PROVE  LET s == Saved(t, row) IN
         /\ s \in Review
         /\ s.state = IF t.entity.state = t.loaded.state THEN row.state ELSE t.entity.state
         /\ s.decision = IF t.entity.decision = t.loaded.decision THEN row.decision ELSE t.entity.decision
         /\ t.loaded = row => s = t.entity
<1>1. DOMAIN row = {"state", "decision"}
  BY DEF Review
<1>2. PICK s : s = Saved(t, row)
  OBVIOUS
<1>3. s = [c \in {"state", "decision"} |-> IF t.entity[c] = t.loaded[c] THEN row[c] ELSE t.entity[c]]
  BY <1>1, <1>2 DEF Saved
<1>4. /\ s["state"] = IF t.entity["state"] = t.loaded["state"] THEN row["state"] ELSE t.entity["state"]
      /\ s["decision"] = IF t.entity["decision"] = t.loaded["decision"] THEN row["decision"] ELSE t.entity["decision"]
  BY <1>3
<1>5. s = [state |-> s["state"], decision |-> s["decision"]]
  BY <1>3
<1> QED BY <1>2, <1>4, <1>5 DEF Review

\* So has a saved field.
LEMMA SavedField ==
  ASSUME NEW t, NEW row \in Field, t.entity \in Field, t.loaded \in Field
  PROVE  LET s == Saved(t, row) IN
         /\ s \in Field
         /\ s.value = IF t.entity.value = t.loaded.value THEN row.value ELSE t.entity.value
         /\ s.source = IF t.entity.source = t.loaded.source THEN row.source ELSE t.entity.source
<1>1. DOMAIN row = {"value", "source", "previous"}
  BY DEF Field, FieldOf
<1>2. PICK s : s = Saved(t, row)
  OBVIOUS
<1>3. s = [c \in {"value", "source", "previous"} |-> IF t.entity[c] = t.loaded[c] THEN row[c] ELSE t.entity[c]]
  BY <1>1, <1>2 DEF Saved
<1>4. /\ s["value"] = IF t.entity["value"] = t.loaded["value"] THEN row["value"] ELSE t.entity["value"]
      /\ s["source"] = IF t.entity["source"] = t.loaded["source"] THEN row["source"] ELSE t.entity["source"]
      /\ s["previous"] = IF t.entity["previous"] = t.loaded["previous"] THEN row["previous"] ELSE t.entity["previous"]
  BY <1>3
<1>5. s = [value |-> s["value"], source |-> s["source"], previous |-> s["previous"]]
  BY <1>3
<1> QED BY <1>2, <1>4, <1>5 DEF Field, FieldOf

\* A request that begins has read what it carries, and writes nothing.
LEMMA BeginMoves ==
  ASSUME ReviewTypeOK, NEW r \in Request, NEW t, Begin(r, t)
  PROVE  /\ UNCHANGED <<review, tasks, comments, field, corrections, overtaken>>
         /\ transaction'[r] = t /\ \A q \in Request \ {r} : transaction'[q] = transaction[q]
BY DEF ReviewTypeOK, Begin, rows

\* A request that ends leaves the others open.
LEMMA EndMoves ==
  ASSUME ReviewTypeOK, NEW r \in Request, transaction' = [transaction EXCEPT ![r] = Idle]
  PROVE  /\ transaction' \in [Request -> Transaction]
         /\ transaction'[r].kind = "none"
         /\ \A q \in Request \ {r} : transaction'[q] = transaction[q]
BY DEF ReviewTypeOK, Idle, Transaction

\* A save that reads its row again remembers it.
LEMMA ReloadMoves ==
  ASSUME ReviewTypeOK, NEW r \in Request, Reload(r)
  PROVE  /\ UNCHANGED <<review, tasks, comments, field, corrections, overtaken>>
         /\ transaction' \in [Request -> Transaction]
         /\ \A q \in Request \ {r} : transaction'[q] = transaction[q]
         /\ LET t == transaction[r]
                u == transaction'[r]
            IN /\ u.kind = t.kind /\ t.step = "reload" /\ u.step = "save"
               /\ u.entity = t.entity /\ u.loaded = RowOf(t)
               /\ t.kind \in {"create", "resolve"} => u.task = t.task
<1>1. PICK t : t = transaction[r]
  OBVIOUS
<1>2. PICK u : u = [t EXCEPT !.step = "save", !.loaded = RowOf(t)]
  OBVIOUS
<1>3. transaction' = [transaction EXCEPT ![r] = u]
  BY <1>1, <1>2 DEF Reload, ReviewTypeOK
<1>4. t \in Transaction /\ t.step = "reload"
  BY <1>1 DEF Reload, ReviewTypeOK
<1>5. t.kind \in {"decide", "create"} => RowOf(t) = review
  BY DEF RowOf
<1>6. t.kind = "resolve" => RowOf(t) = tasks[t.task] /\ t.task \in Task
  BY <1>4 DEF RowOf, Transaction, Idle
<1>7. t.kind \in {"correct", "refresh"} => RowOf(t) = field
  BY DEF RowOf
<1>8. /\ u \in Transaction /\ u.kind = t.kind /\ u.step = "save"
      /\ u.entity = t.entity /\ u.loaded = RowOf(t)
      /\ t.kind \in {"create", "resolve"} => u.task = t.task
  <2>1. CASE t \in [kind : {"decide"}, step : {"count", "reload", "save"}, entity : Review, loaded : Review]
    BY <1>2, <1>5, <2>1 DEF Transaction, ReviewTypeOK
  <2>2. CASE t \in [kind : {"create"}, step : {"reload", "save"}, entity : Review, loaded : Review, task : Task]
    BY <1>2, <1>5, <2>2 DEF Transaction, ReviewTypeOK
  <2>3. CASE t \in [kind : {"resolve"}, step : {"reload", "save"}, entity : Resolution, loaded : TaskState, task : Task]
    BY <1>2, <1>6, <2>3 DEF Transaction, ReviewTypeOK
  <2>4. CASE t \in [kind : {"correct"}, step : {"reload", "save"}, entity : FieldOf(Corrected, {"human"}), loaded : Field]
    BY <1>2, <1>7, <2>4 DEF Transaction, ReviewTypeOK
  <2>5. CASE t \in [kind : {"refresh"}, step : {"reload", "save"}, entity : FieldOf(Extracted, {"worker"}), loaded : Field]
    BY <1>2, <1>7, <2>5 DEF Transaction, ReviewTypeOK
  <2> QED BY <1>4, <2>1, <2>2, <2>3, <2>4, <2>5 DEF Transaction, Idle
<1> QED BY <1>1, <1>3, <1>4, <1>8 DEF Reload, rows, ReviewTypeOK

\* A count ends the decision or lets it go on.
LEMMA CountMoves ==
  ASSUME ReviewTypeOK, NEW r \in Request, CountOpenTasks(r)
  PROVE  /\ UNCHANGED <<review, tasks, comments, field, corrections>>
         /\ transaction' \in [Request -> Transaction]
         /\ \A q \in Request \ {r} : transaction'[q] = transaction[q]
         /\ transaction[r].kind = "decide"
         /\ \/ transaction'[r].kind = "none" /\ overtaken' = overtaken \ {r}
            \/ /\ transaction'[r].kind = "decide" /\ UNCHANGED overtaken
               /\ transaction'[r].entity = transaction[r].entity
               /\ transaction'[r].loaded = transaction[r].loaded
               /\ \A k \in Task : tasks[k] # "OPEN"
<1>1. /\ UNCHANGED <<review, tasks, comments, field, corrections>>
      /\ transaction[r].step = "count" /\ transaction[r].kind = "decide"
  BY OpenTransaction DEF CountOpenTasks, rows
<1>2. CASE \E k \in Task : tasks[k] = "OPEN"
  BY <1>1, <1>2, EndMoves DEF CountOpenTasks, End
<1>3. CASE ~\E k \in Task : tasks[k] = "OPEN"
  <2>1. PICK t : t = transaction[r]
    OBVIOUS
  <2>2. t \in [kind : {"decide"}, step : {"count", "reload", "save"}, entity : Review, loaded : Review]
    BY <1>1, <2>1 DEF ReviewTypeOK, Transaction, Idle
  <2>3. PICK u : u = [t EXCEPT !.step = "reload"]
    OBVIOUS
  <2>4. u \in Transaction /\ u.kind = "decide" /\ u.entity = t.entity /\ u.loaded = t.loaded
    BY <2>2, <2>3 DEF Transaction
  <2>5. transaction' = [transaction EXCEPT ![r] = u]
    BY <1>3, <2>1, <2>3 DEF CountOpenTasks, ReviewTypeOK
  <2>6. UNCHANGED overtaken
    BY <1>3 DEF CountOpenTasks
  <2> QED BY <1>1, <1>3, <2>1, <2>4, <2>5, <2>6 DEF ReviewTypeOK
<1> QED BY <1>2, <1>3

\* What the requests read first is what a transaction can hold.
LEMMA ReadsAreTransactions ==
  ASSUME ReviewTypeOK
  PROVE  /\ \A d \in Decision : Decide(d) \in Transaction \ {Idle}
         /\ \A k \in Task : Create(k) \in Transaction \ {Idle}
         /\ \A k \in Task, s \in Resolution : Resolve(k, s) \in Transaction \ {Idle}
         /\ \A x \in Corrected : Correct(x) \in Transaction \ {Idle}
         /\ \A x \in Extracted : Refresh(x) \in Transaction \ {Idle}
<1>1. review \in Review /\ field \in Field /\ \A k \in Task : tasks[k] \in TaskState
  BY DEF ReviewTypeOK
<1>2. ASSUME NEW d \in Decision PROVE Decide(d) \in Transaction \ {Idle}
  BY <1>1 DEF Decide, DecidedState, Decision, Review, ReviewState, Transaction, Idle
<1>3. ASSUME NEW k \in Task PROVE Create(k) \in Transaction \ {Idle}
  BY <1>1 DEF Create, Review, ReviewState, Transaction, Idle
<1>4. ASSUME NEW k \in Task, NEW s \in Resolution PROVE Resolve(k, s) \in Transaction \ {Idle}
  BY <1>1 DEF Resolve, Transaction, Idle
<1>5. ASSUME NEW x \in Corrected PROVE Correct(x) \in Transaction \ {Idle}
  BY <1>1 DEF Correct, Field, FieldOf, Transaction, Idle
<1>6. ASSUME NEW x \in Extracted PROVE Refresh(x) \in Transaction \ {Idle}
  BY <1>1 DEF Refresh, Field, FieldOf, Transaction, Idle
<1> QED BY <1>2, <1>3, <1>4, <1>5, <1>6

\* A commit overtakes whoever has read what it writes.
LEMMA CommitMoves ==
  ASSUME ReviewTypeOK, NEW r \in Request, NEW kind, Commit(r, kind)
  PROVE  /\ transaction' \in [Request -> Transaction]
         /\ transaction'[r] = Idle /\ transaction'[r].kind = "none"
         /\ \A q \in Request \ {r} :
              /\ transaction'[q] = transaction[q]
              /\ q \notin overtaken' => q \notin overtaken /\ ~Touches(transaction[r], transaction[q])
BY EndMoves DEF Commit, ReviewTypeOK

\* Only an open request is overtaken, and it stays so until it ends.
LEMMA OvertakenStep ==
  ASSUME ReviewTypeOK, [Next]_vars
  PROVE  /\ overtaken' \subseteq {r \in Request : transaction'[r] # Idle}
         /\ \A r \in overtaken : r \in overtaken' \/ transaction'[r].kind = "none"
<1> DEFINE Open == overtaken' \subseteq {r \in Request : transaction'[r] # Idle}
           Stay == \A r \in overtaken : r \in overtaken' \/ transaction'[r].kind = "none"
<1>0. Idle.kind = "none" /\ \A r \in overtaken : r \in Request /\ transaction[r] # Idle
  BY DEF Idle, ReviewTypeOK
<1>1. ASSUME NEW r \in Request, NEW t \in Transaction \ {Idle}, Begin(r, t) PROVE Open /\ Stay
  BY <1>0, <1>1, BeginMoves DEF ReviewTypeOK
<1>2. ASSUME NEW r \in Request,
             \/ \E d \in Decision : ReadReview(r, d)
             \/ \E k \in Task : ReadReviewForTask(r, k)
             \/ \E k \in Task, s \in Resolution : ReadOpenTask(r, k, s)
             \/ \E x \in Corrected : ReadField(r, x)
             \/ \E x \in Extracted : ReadFieldForResult(r, x)
      PROVE  Open /\ Stay
  BY <1>1, <1>2, ReadsAreTransactions
     DEF ReadReview, ReadReviewForTask, ReadOpenTask, ReadField, ReadFieldForResult
<1>3. ASSUME NEW r \in Request, Reload(r) PROVE Open /\ Stay
  <2>1. transaction'[r].step = "save"
    BY <1>3, ReloadMoves
  <2>2. transaction'[r] # Idle
    BY <2>1 DEF Idle
  <2> QED BY <1>0, <1>3, <2>2, ReloadMoves
<1>4. ASSUME NEW r \in Request, CountOpenTasks(r) PROVE Open /\ Stay
  BY <1>0, <1>4, CountMoves
<1>5. ASSUME NEW r \in Request, NEW kind, Commit(r, kind) PROVE Open /\ Stay
  <2>1. \A q \in Request : Touches(transaction[r], transaction[q]) => transaction[q] # Idle
    BY <1>0 DEF Touches
  <2>2. overtaken' = {q \in Request \ {r} : q \in overtaken \/ Touches(transaction[r], transaction[q])}
    BY <1>5 DEF Commit
  <2> QED BY <1>0, <1>5, <2>1, <2>2, CommitMoves
<1>6. ASSUME NEW r \in Request,
             SaveDecision(r) \/ SaveTask(r) \/ SaveResolution(r) \/ SaveCorrection(r) \/ SaveResult(r)
      PROVE  Open /\ Stay
  BY <1>5, <1>6 DEF SaveDecision, SaveTask, SaveResolution, SaveCorrection, SaveResult
<1>7. ASSUME NEW r \in Request, Abort(r) PROVE Open /\ Stay
  BY <1>0, <1>7, EndMoves DEF Abort, End
<1>8. CASE UNCHANGED vars
  BY <1>0, <1>8 DEF vars
<1> QED BY <1>2, <1>3, <1>4, <1>6, <1>7, <1>8 DEF Next

\* Every step keeps the rows and the open transactions well typed, whatever
\* other requests have done since they were read.
LEMMA ReviewTypeStep == ReviewTypeOK /\ [Next]_vars => ReviewTypeOK'
<1> SUFFICES ASSUME ReviewTypeOK, [Next]_vars PROVE ReviewTypeOK'
  OBVIOUS
<1>0. review \in Review /\ field \in Field
  BY DEF ReviewTypeOK
<1> overtaken' \subseteq {r \in Request : transaction'[r] # Idle}
  BY OvertakenStep
<1>1. ASSUME NEW r \in Request, NEW t \in Transaction, Begin(r, t) PROVE ReviewTypeOK'
  BY <1>1 DEF Begin, rows, ReviewTypeOK
<1>2. ASSUME NEW r \in Request,
             \/ \E d \in Decision : ReadReview(r, d)
             \/ \E k \in Task : ReadReviewForTask(r, k)
             \/ \E k \in Task, s \in Resolution : ReadOpenTask(r, k, s)
             \/ \E x \in Corrected : ReadField(r, x)
             \/ \E x \in Extracted : ReadFieldForResult(r, x)
      PROVE  ReviewTypeOK'
  BY <1>1, <1>2, ReadsAreTransactions
     DEF ReadReview, ReadReviewForTask, ReadOpenTask, ReadField, ReadFieldForResult
<1>3. ASSUME NEW r \in Request, Reload(r) PROVE ReviewTypeOK'
  BY <1>3, ReloadMoves DEF ReviewTypeOK
<1>4. ASSUME NEW r \in Request, CountOpenTasks(r) PROVE ReviewTypeOK'
  BY <1>4, CountMoves DEF ReviewTypeOK
<1>5. ASSUME NEW r \in Request, SaveDecision(r) PROVE ReviewTypeOK'
  <2>1. review' \in Review
    BY <1>0, <1>5, OpenTransaction, SavedReview DEF SaveDecision, Commit
  <2> QED BY <1>5, <2>1, EndMoves DEF SaveDecision, Commit, ReviewTypeOK
<1>6. ASSUME NEW r \in Request, SaveTask(r) PROVE ReviewTypeOK'
  <2>1. review' \in Review
    BY <1>0, <1>6, OpenTransaction, SavedReview DEF SaveTask, Commit
  <2>2. tasks' \in [Task -> TaskState]
    BY <1>6 DEF SaveTask, ReviewTypeOK, TaskState
  <2> QED BY <1>6, <2>1, <2>2, EndMoves DEF SaveTask, Commit, ReviewTypeOK
<1>7. ASSUME NEW r \in Request, SaveResolution(r) PROVE ReviewTypeOK'
  <2>1. transaction[r].task \in Task /\ transaction[r].entity \in Resolution
    BY <1>7, OpenTransaction DEF SaveResolution, Commit
  <2>2. tasks' \in [Task -> TaskState] /\ comments' \in [Task -> Nat]
    BY <1>7, <2>1 DEF SaveResolution, ReviewTypeOK, TaskState
  <2> QED BY <1>7, <2>2, EndMoves DEF SaveResolution, Commit, ReviewTypeOK
<1>8. ASSUME NEW r \in Request, SaveCorrection(r) PROVE ReviewTypeOK'
  <2>1. /\ Saved(transaction[r], field) \in Field
        /\ transaction[r].entity \in Field /\ transaction[r].entity.value \in Corrected
    BY <1>0, <1>8, OpenTransaction, SavedField DEF SaveCorrection, Commit
  <2>2. field' \in Field
    BY <1>8, <2>1 DEF SaveCorrection, Field, FieldOf
  <2>3. corrections' \subseteq Corrected
    BY <1>8, <2>1 DEF SaveCorrection, ReviewTypeOK
  <2> QED BY <1>8, <2>2, <2>3, EndMoves DEF SaveCorrection, Commit, ReviewTypeOK
<1>9. ASSUME NEW r \in Request, SaveResult(r) PROVE ReviewTypeOK'
  <2>1. field' \in Field
    BY <1>0, <1>9, OpenTransaction, SavedField DEF SaveResult, Commit
  <2> QED BY <1>9, <2>1, EndMoves DEF SaveResult, Commit, ReviewTypeOK
<1>10. ASSUME NEW r \in Request, Abort(r) PROVE ReviewTypeOK'
  BY <1>10, EndMoves DEF Abort, End, rows, ReviewTypeOK
<1>11. CASE UNCHANGED vars
  BY <1>11 DEF vars, ReviewTypeOK
<1> QED BY <1>2, <1>3, <1>4, <1>5, <1>6, <1>7, <1>8, <1>9, <1>10, <1>11 DEF Next

\* The rows of a review are well typed however requests overlap.
THEOREM ReviewTyped == Spec => []ReviewTypeOK
<1>1. Init => ReviewTypeOK
  BY DEF Init, ReviewTypeOK, Review, ReviewState, Decision, TaskState, Resolution, Field, FieldOf, Transaction, Idle
<1> QED BY <1>1, ReviewTypeStep, PTL DEF Spec

-----------------------------------------------------------------------------
(* Which request does what.                                                *)

\* A step that begins, reloads or ends requests of other kinds.
Others(kinds) ==
  \A q \in Request : transaction'[q] = transaction[q] \/ transaction'[q].kind \notin kinds

\* The field is written by corrections and results; every other step leaves it
\* alone and begins neither.
LEMMA FieldWriters ==
  ASSUME ReviewTypeOK, [Next]_vars
  PROVE  \/ UNCHANGED <<field, corrections>> /\ Others({"correct", "refresh"})
         \/ \E r \in Request :
              \/ \E x \in Corrected : ReadField(r, x)
              \/ \E x \in Extracted : ReadFieldForResult(r, x)
              \/ Reload(r) /\ transaction[r].kind \in {"correct", "refresh"}
              \/ SaveCorrection(r) \/ SaveResult(r)
<1> DEFINE Other == UNCHANGED <<field, corrections>> /\ Others({"correct", "refresh"})
<1> USE DEF Others
<1>1. ASSUME NEW r \in Request, NEW t, Begin(r, t), t.kind \notin {"correct", "refresh"} PROVE Other
  BY <1>1, BeginMoves
<1>2. ASSUME NEW r \in Request, transaction' = [transaction EXCEPT ![r] = Idle],
             UNCHANGED <<field, corrections>>
      PROVE  Other
  BY <1>2, EndMoves
<1>3. ASSUME NEW r \in Request,
             \/ \E d \in Decision : ReadReview(r, d)
             \/ \E k \in Task : ReadReviewForTask(r, k)
             \/ \E k \in Task, s \in Resolution : ReadOpenTask(r, k, s)
      PROVE  Other
  BY <1>1, <1>3 DEF ReadReview, ReadReviewForTask, ReadOpenTask, Decide, Create, Resolve
<1>4. ASSUME NEW r \in Request, CountOpenTasks(r) PROVE Other
  BY <1>4, CountMoves
<1>5. ASSUME NEW r \in Request, Reload(r), transaction[r].kind \notin {"correct", "refresh"} PROVE Other
  BY <1>5, ReloadMoves
<1>6. ASSUME NEW r \in Request, SaveDecision(r) \/ SaveTask(r) \/ SaveResolution(r) \/ Abort(r) PROVE Other
  BY <1>2, <1>6 DEF SaveDecision, SaveTask, SaveResolution, Abort, End, Commit, rows
<1>7. CASE UNCHANGED vars
  BY <1>7 DEF vars
<1> QED BY <1>3, <1>4, <1>5, <1>6, <1>7 DEF Next

\* The review is written by decisions and by first tasks, and only a new task
\* is open that was not; every other step leaves the review alone and begins
\* neither.
LEMMA ReviewWriters ==
  ASSUME ReviewTypeOK, [Next]_vars
  PROVE  \/ /\ UNCHANGED review
            /\ \A k \in Task : tasks'[k] = "OPEN" => tasks[k] = "OPEN"
            /\ Others({"decide", "create"})
         \/ \E r \in Request :
              \/ \E d \in Decision : ReadReview(r, d)
              \/ \E k \in Task : ReadReviewForTask(r, k)
              \/ Reload(r) /\ transaction[r].kind \in {"decide", "create"}
              \/ CountOpenTasks(r) \/ SaveDecision(r) \/ SaveTask(r)
<1> DEFINE Other == /\ UNCHANGED review
                    /\ \A k \in Task : tasks'[k] = "OPEN" => tasks[k] = "OPEN"
                    /\ Others({"decide", "create"})
<1> USE DEF Others
<1>1. ASSUME NEW r \in Request, NEW t, Begin(r, t), t.kind \notin {"decide", "create"} PROVE Other
  BY <1>1, BeginMoves
<1>2. ASSUME NEW r \in Request, transaction' = [transaction EXCEPT ![r] = Idle],
             UNCHANGED review, \A k \in Task : tasks'[k] = "OPEN" => tasks[k] = "OPEN"
      PROVE  Other
  BY <1>2, EndMoves
<1>3. ASSUME NEW r \in Request,
             \/ \E x \in Corrected : ReadField(r, x)
             \/ \E x \in Extracted : ReadFieldForResult(r, x)
             \/ \E k \in Task, s \in Resolution : ReadOpenTask(r, k, s)
      PROVE  Other
  BY <1>1, <1>3 DEF ReadField, ReadFieldForResult, ReadOpenTask, Correct, Refresh, Resolve
<1>4. ASSUME NEW r \in Request, SaveResolution(r) PROVE Other
  <2>1. /\ transaction[r].entity \in Resolution
        /\ tasks' = [tasks EXCEPT ![transaction[r].task] =
                       IF transaction[r].entity = transaction[r].loaded THEN @ ELSE transaction[r].entity]
    BY <1>4, OpenTransaction DEF SaveResolution, Commit
  <2>2. \A k \in Task : tasks'[k] = "OPEN" => tasks[k] = "OPEN"
    BY <2>1 DEF ReviewTypeOK, Resolution
  <2> QED BY <1>2, <1>4, <2>2 DEF SaveResolution, Commit
<1>5. ASSUME NEW r \in Request, Reload(r), transaction[r].kind \notin {"decide", "create"} PROVE Other
  BY <1>5, ReloadMoves
<1>6. ASSUME NEW r \in Request, SaveCorrection(r) \/ SaveResult(r) \/ Abort(r) PROVE Other
  BY <1>2, <1>6 DEF SaveCorrection, SaveResult, Abort, End, Commit, rows
<1>7. CASE UNCHANGED vars
  BY <1>7 DEF vars
<1> QED BY <1>3, <1>4, <1>5, <1>6, <1>7 DEF Next

\* Tasks are written when they are created and resolved.
LEMMA TaskWriters ==
  ASSUME ReviewTypeOK, [Next]_vars
  PROVE  \/ UNCHANGED <<tasks, comments>> /\ Others({"create", "resolve"})
         \/ \E r \in Request :
              \/ \E k \in Task : ReadReviewForTask(r, k)
              \/ \E k \in Task, s \in Resolution : ReadOpenTask(r, k, s)
              \/ Reload(r) /\ transaction[r].kind \in {"create", "resolve"}
              \/ SaveTask(r) \/ SaveResolution(r)
<1> DEFINE Other == UNCHANGED <<tasks, comments>> /\ Others({"create", "resolve"})
<1> USE DEF Others
<1>1. ASSUME NEW r \in Request, NEW t, Begin(r, t), t.kind \notin {"create", "resolve"} PROVE Other
  BY <1>1, BeginMoves
<1>2. ASSUME NEW r \in Request, transaction' = [transaction EXCEPT ![r] = Idle],
             UNCHANGED <<tasks, comments>>
      PROVE  Other
  BY <1>2, EndMoves
<1>3. ASSUME NEW r \in Request,
             \/ \E d \in Decision : ReadReview(r, d)
             \/ \E x \in Corrected : ReadField(r, x)
             \/ \E x \in Extracted : ReadFieldForResult(r, x)
      PROVE  Other
  BY <1>1, <1>3 DEF ReadReview, ReadField, ReadFieldForResult, Decide, Correct, Refresh
<1>4. ASSUME NEW r \in Request, CountOpenTasks(r) PROVE Other
  BY <1>4, CountMoves
<1>5. ASSUME NEW r \in Request, Reload(r), transaction[r].kind \notin {"create", "resolve"} PROVE Other
  BY <1>5, ReloadMoves
<1>6. ASSUME NEW r \in Request, SaveDecision(r) \/ SaveCorrection(r) \/ SaveResult(r) \/ Abort(r) PROVE Other
  BY <1>2, <1>6 DEF SaveDecision, SaveCorrection, SaveResult, Abort, End, Commit, rows
<1>7. CASE UNCHANGED vars
  BY <1>7 DEF vars
<1> QED BY <1>3, <1>4, <1>5, <1>6, <1>7 DEF Next

-----------------------------------------------------------------------------
(* What holds however requests overlap.                                    *)

\* While a result is being persisted, and holds the trail, no field becomes a
\* reviewer's; a correction that found the field a reviewer's still does.
HumanInv ==
  \A r \in Request :
    /\ transaction[r].kind = "refresh" => field.source # "human"
    /\ transaction[r].kind = "correct" /\ transaction[r].loaded.source = "human" =>
         field.source = "human"

LEMMA HumanStep ==
  ASSUME ReviewTypeOK, HumanInv, [Next]_vars
  PROVE  HumanInv' /\ (field.source = "human" => field'.source = "human")
<1> USE DEF HumanInv
<1>0. field \in Field
  BY DEF ReviewTypeOK
<1>1. CASE UNCHANGED <<field, corrections>> /\ Others({"correct", "refresh"})
  BY <1>1 DEF Others
<1>2. ASSUME NEW r \in Request,
             \/ \E x \in Corrected : ReadField(r, x)
             \/ \E x \in Extracted : ReadFieldForResult(r, x)
      PROVE  HumanInv' /\ UNCHANGED field
  <2>1. PICK t : Begin(r, t) /\ t.loaded = field /\ (t.kind = "refresh" => field.source # "human")
    <3>1. \A x : Correct(x).kind = "correct" /\ Correct(x).loaded = field
      BY DEF Correct
    <3>2. \A x : Refresh(x).kind = "refresh" /\ Refresh(x).loaded = field
      BY DEF Refresh
    <3> QED BY <1>2, <3>1, <3>2 DEF ReadField, ReadFieldForResult
  <2> QED BY <2>1, BeginMoves
<1>3. ASSUME NEW r \in Request, Reload(r), transaction[r].kind \in {"correct", "refresh"}
      PROVE  HumanInv' /\ UNCHANGED field
  BY <1>3, ReloadMoves DEF RowOf
<1>4. ASSUME NEW r \in Request, SaveCorrection(r)
      PROVE  HumanInv' /\ field'.source = "human"
  <2>1. /\ transaction[r].kind = "correct" /\ transaction[r].entity.source = "human"
        /\ \A q \in Request : transaction[q].kind # "refresh"
        /\ transaction'[r].kind = "none" /\ \A q \in Request \ {r} : transaction'[q] = transaction[q]
    BY <1>4, OpenTransaction, EndMoves DEF SaveCorrection, Commit, TrailIsFree
  <2>2. /\ Saved(transaction[r], field) \in Field
        /\ Saved(transaction[r], field).source = "human"
    BY <1>0, <2>1, OpenTransaction, SavedField
  <2>3. field'.source = "human"
    BY <1>4, <2>2 DEF SaveCorrection, Field, FieldOf
  <2> QED BY <2>1, <2>3
<1>5. ASSUME NEW r \in Request, SaveResult(r)
      PROVE  HumanInv' /\ field.source # "human"
  <2>1. /\ field.source # "human" /\ \A q \in Request \ {r} : transaction[q].kind # "refresh"
        /\ transaction'[r].kind = "none" /\ \A q \in Request \ {r} : transaction'[q] = transaction[q]
    BY <1>5, EndMoves DEF SaveResult, Commit, TrailIsFree
  <2> QED BY <2>1
<1> QED BY <1>1, <1>2, <1>3, <1>4, <1>5, FieldWriters

LEMMA HumanInvariant == Spec => []HumanInv
<1>1. Init => HumanInv
  <2>1. Idle.kind = "none"
    BY DEF Idle
  <2>2. Init => \A r \in Request : transaction[r] = Idle
    BY DEF Init
  <2> QED BY <2>1, <2>2 DEF HumanInv
<1> QED BY <1>1, HumanStep, ReviewTyped, PTL DEF Spec

\* No result replaces what a reviewer entered, however its transaction and
\* corrections overlap: persistCompletion has the trail before it reads the
\* fields, and correctField commits only with the trail
\* (processing-results.service.ts:115, reviews.service.ts:65).
THEOREM HumanValuesStand == Spec => HumanValueStands
<1>1. ReviewTypeOK /\ HumanInv /\ [Next]_vars =>
        [field.source = "human" => field'.source = "human"]_vars
  BY HumanStep
<1> QED BY <1>1, HumanInvariant, ReviewTyped, PTL DEF Spec, HumanValueStands

\* A task that is being created is not there yet, and nobody else's; one that
\* is being resolved is, and stays resolved once it was found so; a comment
\* tells of each resolution and of no other.
TaskInv ==
  /\ \A r \in Request :
       LET t == transaction[r] IN
       /\ t.kind = "create" => tasks[t.task] = "absent"
       /\ t.kind = "resolve" => tasks[t.task] # "absent"
       /\ t.kind = "resolve" /\ t.loaded \in Resolution => tasks[t.task] \in Resolution
       /\ \A q \in Request \ {r} :
            t.kind = "create" /\ transaction[q].kind = "create" => t.task # transaction[q].task
  /\ \A k \in Task : comments[k] > 0 <=> tasks[k] \in Resolution

\* A resolved or cancelled task is not open again, nor does it vanish: what a
\* step may do to the tasks.
TasksStayClosed == \A k \in Task : tasks[k] \in Resolution => tasks'[k] \in Resolution

LEMMA TaskStep ==
  ASSUME ReviewTypeOK, TaskInv, [Next]_vars
  PROVE  TaskInv' /\ TasksStayClosed
<1> USE DEF TaskInv, TasksStayClosed
<1>1. CASE UNCHANGED <<tasks, comments>> /\ Others({"create", "resolve"})
  BY <1>1 DEF Others
<1>2. ASSUME NEW r \in Request, NEW k \in Task, ReadReviewForTask(r, k)
      PROVE  TaskInv' /\ TasksStayClosed
  <2>1. PICK t : t = Create(k)
    OBVIOUS
  <2>2. /\ transaction'[r] = t /\ t.kind = "create" /\ t.task = k /\ tasks[k] = "absent"
        /\ \A q \in Request \ {r} : transaction'[q] = transaction[q]
        /\ \A q \in Request : transaction[q].kind = "create" => transaction[q].task # k
        /\ UNCHANGED <<tasks, comments>>
    BY <1>2, <2>1, BeginMoves DEF ReadReviewForTask, Create
  <2> QED BY <2>2
<1>3. ASSUME NEW r \in Request, NEW k \in Task, NEW s \in Resolution, ReadOpenTask(r, k, s)
      PROVE  TaskInv' /\ TasksStayClosed
  <2>1. PICK t : t = Resolve(k, s)
    OBVIOUS
  <2>2. /\ transaction'[r] = t /\ t.kind = "resolve" /\ t.task = k /\ t.loaded = "OPEN" /\ tasks[k] = "OPEN"
        /\ \A q \in Request \ {r} : transaction'[q] = transaction[q]
        /\ UNCHANGED <<tasks, comments>>
    BY <1>3, <2>1, BeginMoves DEF ReadOpenTask, Resolve
  <2> QED BY <2>2 DEF Resolution
<1>4. ASSUME NEW r \in Request, Reload(r), transaction[r].kind \in {"create", "resolve"}
      PROVE  TaskInv' /\ TasksStayClosed
  BY <1>4, ReloadMoves DEF RowOf
<1>5. ASSUME NEW r \in Request, SaveTask(r)
      PROVE  TaskInv' /\ TasksStayClosed
  <2>1. PICK k \in Task : k = transaction[r].task /\ transaction[r].kind = "create"
    BY <1>5, OpenTransaction DEF SaveTask, Commit
  <2>2. /\ tasks' = [tasks EXCEPT ![k] = "OPEN"] /\ UNCHANGED comments /\ tasks[k] = "absent"
        /\ transaction'[r].kind = "none"
        /\ \A q \in Request \ {r} : transaction'[q] = transaction[q]
    BY <1>5, <2>1, EndMoves DEF SaveTask, Commit
  <2> QED BY <2>1, <2>2 DEF ReviewTypeOK, Resolution
<1>6. ASSUME NEW r \in Request, SaveResolution(r)
      PROVE  TaskInv' /\ TasksStayClosed
  <2>1. PICK k \in Task : k = transaction[r].task /\ transaction[r].kind = "resolve"
    BY <1>6, OpenTransaction DEF SaveResolution, Commit
  <2>2. PICK s : s = IF transaction[r].entity = transaction[r].loaded THEN tasks[k] ELSE transaction[r].entity
    OBVIOUS
  <2>3. s \in Resolution
    BY <2>1, <2>2, OpenTransaction
  <2>4. /\ tasks' = [tasks EXCEPT ![k] = s] /\ comments' = [comments EXCEPT ![k] = @ + 1]
        /\ tasks[k] # "absent" /\ transaction'[r].kind = "none"
        /\ \A q \in Request \ {r} : transaction'[q] = transaction[q]
    BY <1>6, <2>1, <2>2, EndMoves DEF SaveResolution, Commit, ReviewTypeOK
  <2>5. \A l \in Task : comments'[l] > 0 <=> tasks'[l] \in Resolution
    BY <2>1, <2>3, <2>4 DEF ReviewTypeOK
  <2>6. \A l \in Task : (tasks'[l] = "absent" <=> tasks[l] = "absent") /\
                        (tasks[l] \in Resolution => tasks'[l] \in Resolution)
    BY <2>1, <2>3, <2>4 DEF ReviewTypeOK, Resolution
  <2>7. \A q \in Request : transaction[q].kind \in {"create", "resolve"} => transaction[q].task \in Task
    BY OpenTransaction
  <2> QED BY <2>4, <2>5, <2>6, <2>7
<1> QED BY <1>1, <1>2, <1>3, <1>4, <1>5, <1>6, TaskWriters

LEMMA TaskInvariant == Spec => []TaskInv
<1>1. Init => TaskInv
  BY DEF Init, TaskInv, Idle, Resolution
<1> QED BY <1>1, TaskStep, ReviewTyped, PTL DEF Spec

ClosedTasksStay == [][TasksStayClosed]_vars

\* However requests overlap, a pendency that was resolved or cancelled is never
\* open again, so a decision it no longer blocks stays unblocked by it
\* (resolveTask, createTask).
THEOREM ClosedTasksAreKept == Spec => ClosedTasksStay
<1>1. ReviewTypeOK /\ TaskInv /\ [Next]_vars => [TasksStayClosed]_vars
  BY TaskStep
<1> QED BY <1>1, ReviewTyped, TaskInvariant, PTL DEF Spec, ClosedTasksStay

-----------------------------------------------------------------------------
(* Which requests break a promise: those that were overtaken.              *)

\* What a correction read of the field is still so unless it was overtaken,
\* and a field the worker wrote was never corrected.
FieldInv ==
  /\ \A r \in Request \ overtaken :
       LET t == transaction[r] IN
       t.kind = "correct" => t.loaded = field /\ t.entity.previous = field.previous \cup {field.value}
  /\ field.source = "worker" => corrections = {}

\* What a step does to the corrections.
NoneIsLost == \A x \in corrections' : (x \in corrections => Kept(x)) => Kept(x)'

LEMMA FieldStep ==
  ASSUME ReviewTypeOK, HumanInv, FieldInv, [Next]_vars
  PROVE  /\ FieldInv'
         /\ NoneIsLost \/ \E r \in Request : CommitsLate(r) /\ transaction[r].kind = "correct"
<1> USE DEF FieldInv, NoneIsLost, Kept
<1>0. field \in Field
  BY DEF ReviewTypeOK
<1>1. CASE UNCHANGED <<field, corrections>> /\ Others({"correct", "refresh"})
  <2>1. NoneIsLost
    BY <1>1
  <2>2. ASSUME NEW q \in Request \ overtaken', transaction'[q].kind = "correct"
        PROVE  transaction'[q] = transaction[q] /\ q \notin overtaken
    BY <1>1, <2>2, OvertakenStep DEF Others
  <2> QED BY <1>1, <2>1, <2>2
<1>2. ASSUME NEW r \in Request,
             \/ \E x \in Corrected : ReadField(r, x)
             \/ \E x \in Extracted : ReadFieldForResult(r, x)
      PROVE  FieldInv' /\ NoneIsLost
  <2>1. PICK t : /\ Begin(r, t)
                 /\ t.kind = "correct" => t.loaded = field /\ t.entity.previous = field.previous \cup {field.value}
    <3>1. \A x : Correct(x).loaded = field /\ Correct(x).entity.previous = field.previous \cup {field.value}
      BY DEF Correct
    <3>2. \A x : Refresh(x).kind = "refresh"
      BY DEF Refresh
    <3> QED BY <1>2, <3>1, <3>2 DEF ReadField, ReadFieldForResult
  <2> QED BY <2>1, BeginMoves
<1>3. ASSUME NEW r \in Request, Reload(r), transaction[r].kind \in {"correct", "refresh"}
      PROVE  FieldInv' /\ NoneIsLost
  BY <1>3, ReloadMoves DEF RowOf
<1>4. ASSUME NEW r \in Request, NEW kind \in {"correct", "refresh"}, Commit(r, kind)
      PROVE  \A q \in Request \ overtaken' : transaction'[q].kind # "correct"
  <2>1. \A q \in Request : transaction[q].kind = "correct" => Touches(transaction[r], transaction[q])
    BY <1>4 DEF Commit, Touches
  <2> QED BY <1>4, <2>1, CommitMoves
<1>5. ASSUME NEW r \in Request, SaveCorrection(r)
      PROVE  FieldInv' /\ (NoneIsLost \/ (CommitsLate(r) /\ transaction[r].kind = "correct"))
  <2>1. PICK t : t = transaction[r] /\ t.kind = "correct" /\ t.loaded \in Field
                 /\ t.entity \in Field /\ t.entity.source = "human" /\ Commit(r, "correct")
    BY <1>5, OpenTransaction DEF SaveCorrection, Commit
  <2>2. PICK s \in Field : /\ s = Saved(t, field)
                           /\ s.value = IF t.entity.value = t.loaded.value THEN field.value ELSE t.entity.value
                           /\ s.source = IF t.entity.source = t.loaded.source THEN field.source ELSE t.entity.source
    BY <1>0, <2>1, SavedField
  <2>3. s.source = "human"
    BY <2>1, <2>2 DEF HumanInv
  <2>4. field' = [s EXCEPT !.previous = t.entity.previous] /\ corrections' = corrections \cup {t.entity.value}
    BY <1>5, <2>1, <2>2 DEF SaveCorrection
  <2>5. field'.value = s.value /\ field'.source = "human" /\ field'.previous = t.entity.previous
    BY <2>1, <2>2, <2>3, <2>4 DEF Field, FieldOf
  <2>6. FieldInv'
    BY <1>4, <2>1, <2>5
  <2>7. CASE r \in overtaken
    BY <2>1, <2>6, <2>7, CommitMoves DEF CommitsLate
  <2>8. CASE r \notin overtaken
    <3>1. t.loaded = field /\ t.entity.previous = field.previous \cup {field.value}
      BY <2>1, <2>8
    <3>2. field'.value = t.entity.value
      BY <2>2, <2>5, <3>1
    <3> QED BY <2>4, <2>5, <2>6, <3>1, <3>2
  <2> QED BY <2>7, <2>8
<1>6. ASSUME NEW r \in Request, SaveResult(r)
      PROVE  FieldInv' /\ NoneIsLost
  <2>1. transaction[r].kind = "refresh" /\ Commit(r, "refresh") /\ UNCHANGED corrections
    BY <1>6 DEF SaveResult, Commit
  <2>2. corrections = {}
    BY <1>0, <2>1 DEF HumanInv, Field, FieldOf
  <2> QED BY <1>4, <2>1, <2>2
<1> QED BY <1>1, <1>2, <1>3, <1>5, <1>6, FieldWriters

LEMMA FieldInvariant == Spec => []FieldInv
<1>1. Init => FieldInv
  BY DEF Init, FieldInv, Idle
<1> QED BY <1>1, FieldStep, ReviewTyped, HumanInvariant, PTL DEF Spec

\* However corrections, results and decisions overlap, a correction is lost, or
\* is not entered, only when a correction commits that another write of the
\* field overtook; no result loses one (correctField, persistCompletion).
THEOREM OnlyLateCorrectionsLose == Spec => OnlyOvertakenLoseCorrections
<1>1. ReviewTypeOK /\ HumanInv /\ FieldInv /\ [Next]_vars =>
        [NoneIsLost \/ \E r \in Request : CommitsLate(r) /\ transaction[r].kind = "correct"]_vars
  BY FieldStep
<1>2. NoneIsLost <=> \A x \in corrections' : (x \in corrections => Kept(x)) => Kept(x)'
  BY DEF NoneIsLost
<1> QED BY <1>1, <1>2, FieldInvariant, HumanInvariant, ReviewTyped, PTL DEF Spec, OnlyOvertakenLoseCorrections

\* A review is undecided, or its state is that of its decision.
ReviewIsWhole ==
  /\ review.state \in {"PENDING", "IN_REVIEW"} <=> review.decision = "none"
  /\ review.decision # "none" => review.state = DecidedState(review.decision)

\* What a decision saves, and what a task does.
IsDecision(w) == \E d \in Decision : w.decision = d /\ w.state = DecidedState(d)
IsBegun(w) == w.state = "IN_REVIEW" /\ w.decision = review.decision /\ review.state = "PENDING"

\* What was read of a review, and counted, is still so unless the request was
\* overtaken; a task never saves a state but IN_REVIEW.
ReviewInv ==
  /\ \A r \in Request \ overtaken :
       LET t == transaction[r] IN
       /\ t.kind \in {"decide", "create"} => t.loaded = review
       /\ t.kind = "decide" => review.state \notin FinalState
       /\ t.kind = "decide" /\ t.step # "count" => \A k \in Task : tasks[k] # "OPEN"
       /\ t.kind = "create" => t.entity = review \/ IsBegun(t.entity)
  /\ \A r \in Request :
       LET t == transaction[r] IN
       /\ t.kind = "decide" => IsDecision(t.entity)
       /\ t.kind = "create" =>
            t.entity.state = "IN_REVIEW" \/ (t.step = "save" /\ t.entity.state = t.loaded.state)

\* What a step does to the review.
NoOpenTask ==
  review.state \notin FinalState /\ review'.state \in FinalState => \A k \in Task : tasks[k] # "OPEN"
FinalStands == review.state \in FinalState => review' = review

LEMMA ReviewStep ==
  ASSUME ReviewTypeOK, ReviewInv, [Next]_vars
  PROVE  /\ ReviewInv'
         /\ NoOpenTask \/ \E r \in Request : CommitsLate(r) /\ transaction[r].kind = "decide"
         /\ \/ FinalStands /\ (ReviewIsWhole => ReviewIsWhole')
            \/ \E r \in Request : CommitsLate(r) /\ transaction[r].kind \in {"decide", "create"}
<1> USE DEF ReviewInv, IsBegun, NoOpenTask, FinalStands
<1>0. review \in Review
  BY DEF ReviewTypeOK
<1>1. CASE /\ UNCHANGED review
           /\ \A k \in Task : tasks'[k] = "OPEN" => tasks[k] = "OPEN"
           /\ Others({"decide", "create"})
  <2>1. \A q \in Request : transaction'[q].kind \in {"decide", "create"} =>
          transaction'[q] = transaction[q] /\ (q \notin overtaken' => q \notin overtaken)
    BY <1>1, OvertakenStep DEF Others
  <2>2. ReviewInv'
    BY <1>1, <2>1 DEF IsDecision
  <2> QED BY <1>1, <2>2 DEF ReviewIsWhole
<1>2. ASSUME NEW r \in Request,
             \/ \E d \in Decision : ReadReview(r, d)
             \/ \E k \in Task : ReadReviewForTask(r, k)
      PROVE  ReviewInv' /\ UNCHANGED review
  <2>1. PICK t : /\ Begin(r, t) /\ t.loaded = review
                 /\ t.kind = "decide" => review.state \notin FinalState /\ IsDecision(t.entity) /\ t.step = "count"
                 /\ t.kind = "create" =>
                      /\ t.entity = review \/ IsBegun(t.entity)
                      /\ t.entity.state = "IN_REVIEW" \/ (t.step = "save" /\ t.entity = t.loaded)
    <3>1. \A d \in Decision : /\ Decide(d).kind = "decide" /\ Decide(d).step = "count"
                              /\ Decide(d).loaded = review /\ IsDecision(Decide(d).entity)
      BY DEF Decide, IsDecision
    <3>2. \A k \in Task :
            /\ Create(k).kind = "create" /\ Create(k).loaded = review
            /\ Create(k).entity = review \/ IsBegun(Create(k).entity)
            /\ \/ Create(k).entity.state = "IN_REVIEW"
               \/ Create(k).step = "save" /\ Create(k).entity = Create(k).loaded
      BY <1>0 DEF Create, Review
    <3> QED BY <1>2, <3>1, <3>2 DEF ReadReview, ReadReviewForTask
  <2> QED BY <2>1, BeginMoves DEF IsDecision
<1>3. ASSUME NEW r \in Request, CountOpenTasks(r)
      PROVE  ReviewInv' /\ UNCHANGED review
  BY <1>3, CountMoves DEF IsDecision
<1>4. ASSUME NEW r \in Request, Reload(r), transaction[r].kind \in {"decide", "create"}
      PROVE  ReviewInv' /\ UNCHANGED review
  BY <1>4, ReloadMoves DEF RowOf, IsDecision
<1>5. ASSUME NEW r \in Request, NEW kind \in {"decide", "create"}, Commit(r, kind)
      PROVE  ReviewInv'
  <2>1. \A q \in Request : transaction[q].kind \in {"decide", "create"} => Touches(transaction[r], transaction[q])
    BY <1>5 DEF Commit, Touches
  <2>2. \A q \in Request \ overtaken' : transaction'[q].kind \notin {"decide", "create"}
    BY <1>5, <2>1, CommitMoves
  <2> QED BY <1>5, <2>2, CommitMoves DEF IsDecision
<1>6. ASSUME NEW r \in Request, SaveDecision(r)
      PROVE  \/ CommitsLate(r) /\ transaction[r].kind = "decide"
             \/ /\ review.state \notin FinalState /\ \A k \in Task : tasks[k] # "OPEN"
                /\ ReviewIsWhole'
  <2>1. PICK t : /\ t = transaction[r] /\ t.kind = "decide" /\ t.step = "save"
                 /\ t.entity \in Review /\ t.loaded \in Review /\ Commit(r, "decide")
    BY <1>6, OpenTransaction DEF SaveDecision, Commit
  <2>2. CASE r \in overtaken
    BY <2>1, <2>2, CommitMoves DEF CommitsLate
  <2>3. CASE r \notin overtaken
    <3>1. t.loaded = review /\ review.state \notin FinalState /\ \A k \in Task : tasks[k] # "OPEN"
      BY <2>1, <2>3
    <3>2. review' = t.entity
      BY <1>0, <1>6, <2>1, <3>1, SavedReview DEF SaveDecision
    <3>3. IsDecision(t.entity)
      BY <2>1
    <3>4. ReviewIsWhole'
      BY <3>2, <3>3 DEF IsDecision, ReviewIsWhole, DecidedState, Decision
    <3> QED BY <3>1, <3>4
  <2> QED BY <2>2, <2>3
<1>7. ASSUME NEW r \in Request, SaveTask(r)
      PROVE  /\ review.state \notin FinalState => review'.state \notin FinalState
             /\ \/ FinalStands /\ (ReviewIsWhole => ReviewIsWhole')
                \/ CommitsLate(r) /\ transaction[r].kind = "create"
  <2>1. PICK t : /\ t = transaction[r] /\ t.kind = "create"
                 /\ t.entity \in Review /\ t.loaded \in Review /\ Commit(r, "create")
    BY <1>7, OpenTransaction DEF SaveTask, Commit
  <2>2. review'.state = IF t.entity.state = t.loaded.state THEN review.state ELSE t.entity.state
    BY <1>0, <1>7, <2>1, SavedReview DEF SaveTask
  <2>3. review.state \notin FinalState => review'.state \notin FinalState
    BY <2>1, <2>2 DEF FinalState
  <2>4. CASE r \in overtaken
    BY <2>1, <2>3, <2>4, CommitMoves DEF CommitsLate
  <2>5. CASE r \notin overtaken
    <3>1. t.loaded = review /\ (t.entity = review \/ IsBegun(t.entity))
      BY <2>1, <2>5
    <3>2. review' = t.entity
      BY <1>0, <1>7, <2>1, <3>1, SavedReview DEF SaveTask
    <3>3. FinalStands /\ (ReviewIsWhole => ReviewIsWhole')
      BY <3>1, <3>2 DEF ReviewIsWhole, Decision, FinalState
    <3> QED BY <2>3, <3>3
  <2> QED BY <2>4, <2>5
<1>8. ASSUME NEW r \in Request, SaveDecision(r) \/ SaveTask(r)
      PROVE  ReviewInv'
  BY <1>5, <1>8 DEF SaveDecision, SaveTask
<1>9. ASSUME UNCHANGED review PROVE NoOpenTask /\ FinalStands /\ (ReviewIsWhole => ReviewIsWhole')
  BY <1>9 DEF ReviewIsWhole
<1> QED BY <1>1, <1>2, <1>3, <1>4, <1>6, <1>7, <1>8, <1>9, ReviewWriters

LEMMA ReviewInvariant == Spec => []ReviewInv
<1>1. Init => ReviewInv
  <2>1. Idle.kind = "none"
    BY DEF Idle
  <2>2. Init => \A r \in Request : transaction[r] = Idle
    BY DEF Init
  <2> QED BY <2>1, <2>2 DEF ReviewInv
<1> QED BY <1>1, ReviewStep, ReviewTyped, PTL DEF Spec

\* A review is decided with an open task only when a decision commits after
\* another decision or a new task that it had not seen (decide, createTask).
THEOREM OnlyLateDecisionsIgnoreTasks == Spec => OnlyOvertakenDecideBesideTasks
<1>1. ReviewTypeOK /\ ReviewInv /\ [Next]_vars =>
        [review.state \notin FinalState /\ review'.state \in FinalState /\ (\E k \in Task : tasks[k] = "OPEN")
           => \E r \in Request : CommitsLate(r) /\ transaction[r].kind = "decide"]_vars
  BY ReviewStep DEF NoOpenTask
<1> QED BY <1>1, ReviewInvariant, ReviewTyped, PTL DEF Spec, OnlyOvertakenDecideBesideTasks

\* Only a decision or a first task that read the review before it was decided
\* changes a final decision (decide, createTask).
THEOREM OnlyLateRequestsChangeDecisions == Spec => OnlyOvertakenChangeDecision
<1>1. ReviewTypeOK /\ ReviewInv /\ [Next]_vars =>
        [review.state \in FinalState /\ review' # review
           => \E r \in Request : CommitsLate(r) /\ transaction[r].kind \in {"decide", "create"}]_vars
  BY ReviewStep DEF FinalStands
<1> QED BY <1>1, ReviewInvariant, ReviewTyped, PTL DEF Spec, OnlyOvertakenChangeDecision

\* A task that is being resolved is open unless the request was overtaken.
ResolveInv ==
  \A r \in Request \ overtaken :
    LET t == transaction[r] IN t.kind = "resolve" => t.loaded = "OPEN" /\ tasks[t.task] = "OPEN"

LEMMA ResolveStep ==
  ASSUME ReviewTypeOK, TaskInv, ResolveInv, [Next]_vars
  PROVE  /\ ResolveInv'
         /\ \A k \in Task : Explained(k) =>
              \/ Explained(k)'
              \/ \E r \in Request :
                   CommitsLate(r) /\ transaction[r].kind = "resolve" /\ transaction[r].task = k
<1> USE DEF ResolveInv, Explained
<1>1. CASE UNCHANGED <<tasks, comments>> /\ Others({"create", "resolve"})
  <2>1. \A q \in Request \ overtaken' : transaction'[q].kind = "resolve" =>
          transaction'[q] = transaction[q] /\ q \notin overtaken
    BY <1>1, OvertakenStep DEF Others
  <2> QED BY <1>1, <2>1
<1>2. ASSUME NEW r \in Request,
             \/ \E k \in Task : ReadReviewForTask(r, k)
             \/ \E k \in Task, s \in Resolution : ReadOpenTask(r, k, s)
      PROVE  ResolveInv' /\ UNCHANGED <<tasks, comments>>
  <2>1. PICK t : Begin(r, t) /\ (t.kind = "resolve" => t.loaded = "OPEN" /\ tasks[t.task] = "OPEN")
    <3>1. \A k : Create(k).kind = "create"
      BY DEF Create
    <3>2. \A k, s : Resolve(k, s).task = k /\ Resolve(k, s).loaded = tasks[k]
      BY DEF Resolve
    <3> QED BY <1>2, <3>1, <3>2 DEF ReadReviewForTask, ReadOpenTask
  <2> QED BY <2>1, BeginMoves
<1>3. ASSUME NEW r \in Request, Reload(r), transaction[r].kind \in {"create", "resolve"}
      PROVE  ResolveInv' /\ UNCHANGED <<tasks, comments>>
  BY <1>3, ReloadMoves DEF RowOf
<1>4. ASSUME NEW r \in Request, SaveTask(r)
      PROVE  ResolveInv' /\ \A k \in Task : Explained(k) => Explained(k)'
  <2>1. PICK k \in Task : k = transaction[r].task /\ transaction[r].kind = "create" /\ Commit(r, "create")
    BY <1>4, OpenTransaction DEF SaveTask, Commit
  <2>2. tasks' = [tasks EXCEPT ![k] = "OPEN"] /\ UNCHANGED comments /\ tasks[k] = "absent"
    BY <1>4, <2>1 DEF SaveTask, TaskInv
  <2> QED BY <2>1, <2>2, CommitMoves DEF ReviewTypeOK, Resolution
<1>5. ASSUME NEW r \in Request, SaveResolution(r)
      PROVE  /\ ResolveInv'
             /\ \A k \in Task : Explained(k) =>
                  \/ Explained(k)'
                  \/ CommitsLate(r) /\ transaction[r].kind = "resolve" /\ transaction[r].task = k
  <2>1. PICK k \in Task : k = transaction[r].task /\ transaction[r].kind = "resolve" /\ Commit(r, "resolve")
    BY <1>5, OpenTransaction DEF SaveResolution, Commit
  <2>2. PICK s : s = IF transaction[r].entity = transaction[r].loaded THEN tasks[k] ELSE transaction[r].entity
    OBVIOUS
  <2>3. /\ tasks' = [tasks EXCEPT ![k] = s] /\ comments' = [comments EXCEPT ![k] = @ + 1]
        /\ tasks \in [Task -> TaskState] /\ comments \in [Task -> Nat]
    BY <1>5, <2>1, <2>2 DEF SaveResolution, ReviewTypeOK
  <2>4. ResolveInv'
    <3>1. ASSUME NEW q \in Request \ overtaken', transaction'[q].kind = "resolve"
          PROVE  /\ transaction'[q] = transaction[q] /\ q \notin overtaken
                 /\ transaction[q].task \in Task \ {k}
      <4>1. /\ transaction'[q] = transaction[q] /\ q \notin overtaken
            /\ ~Touches(transaction[r], transaction[q])
        BY <2>1, <3>1, CommitMoves
      <4> QED BY <2>1, <3>1, <4>1, OpenTransaction DEF Touches
    <3> QED BY <2>3, <3>1
  <2>5. \A l \in Task \ {k} : Explained(l) => Explained(l)'
    BY <2>3
  <2>6. CASE r \in overtaken
    BY <2>1, <2>4, <2>5, <2>6, CommitMoves DEF CommitsLate
  <2>7. CASE r \notin overtaken
    <3>1. tasks[k] = "OPEN" /\ s \in Resolution
      BY <2>1, <2>2, <2>7, OpenTransaction DEF Resolution
    <3>2. Explained(k) => Explained(k)'
      BY <2>3, <3>1 DEF Resolution
    <3> QED BY <2>4, <2>5, <3>2
  <2> QED BY <2>6, <2>7
<1>6. ASSUME UNCHANGED <<tasks, comments>> PROVE \A k \in Task : Explained(k) => Explained(k)'
  BY <1>6
<1> QED BY <1>1, <1>2, <1>3, <1>4, <1>5, <1>6, TaskWriters

LEMMA ResolveInvariant == Spec => []ResolveInv
<1>1. Init => ResolveInv
  BY DEF Init, ResolveInv, Idle
<1> QED BY <1>1, ResolveStep, ReviewTyped, TaskInvariant, PTL DEF Spec

\* Each resolved task has the one comment that says why, unless two resolutions
\* of that task overlap: tasks of one review may be resolved together, beside
\* decisions and new tasks (resolveTask).
THEOREM OnlyLateResolutionsRepeat == Spec => OnlyOvertakenResolveTwice
<1>1. ReviewTypeOK /\ TaskInv /\ ResolveInv /\ [Next]_vars =>
        [\A k \in Task : Explained(k) =>
           \/ Explained(k)'
           \/ \E r \in Request :
                CommitsLate(r) /\ transaction[r].kind = "resolve" /\ transaction[r].task = k]_vars
  BY ResolveStep DEF vars, Explained
<1> QED BY <1>1, ResolveInvariant, TaskInvariant, ReviewTyped, PTL DEF Spec, OnlyOvertakenResolveTwice

-----------------------------------------------------------------------------
(* What a check of the version of each row at the commit would be worth.   *)

\* A request that was overtaken is refused: it may end, and writes nothing.
RefusedStep == \A r \in Request : CommitsLate(r) => UNCHANGED rows
RefusesOvertaken == [][RefusedStep]_vars

\* If every request that was overtaken were refused, all the promises would
\* hold together, whatever else overlaps: no decision with an open task, no
\* lost correction, one comment for each resolved task, and a review whose
\* columns are those of one decision or of none (decide, createTask,
\* resolveTask, correctField).
THEOREM RefusingKeepsPromises ==
  Spec /\ RefusesOvertaken =>
    /\ NoDecisionWithOpenTasks
    /\ []CorrectionsAreKept
    /\ [](\A k \in Task : Explained(k))
    /\ []ReviewIsWhole
<1> DEFINE Promises == CorrectionsAreKept /\ (\A k \in Task : Explained(k)) /\ ReviewIsWhole
           IInv == ReviewTypeOK /\ HumanInv /\ TaskInv /\ FieldInv /\ ReviewInv /\ ResolveInv
<1>1. Init => Promises
  BY DEF Init, CorrectionsAreKept, Explained, ReviewIsWhole, Resolution
<1>2. UNCHANGED rows => /\ NoneIsLost \/ ~CorrectionsAreKept
                        /\ NoOpenTask
                        /\ \A k \in Task : Explained(k) => Explained(k)'
                        /\ ReviewIsWhole => ReviewIsWhole'
  BY DEF rows, NoneIsLost, Kept, CorrectionsAreKept, NoOpenTask, Explained, ReviewIsWhole
<1>3. IInv /\ Promises /\ [Next]_vars /\ [RefusedStep]_vars => Promises' /\ NoOpenTask
  <2> SUFFICES ASSUME IInv, Promises, [Next]_vars, [RefusedStep]_vars PROVE Promises' /\ NoOpenTask
    OBVIOUS
  <2>1. CASE UNCHANGED vars
    BY <1>2, <2>1 DEF vars, rows, CorrectionsAreKept, Kept
  <2>2. CASE \E r \in Request : CommitsLate(r)
    <3>1. UNCHANGED rows
      BY <2>1, <2>2 DEF RefusedStep, vars, rows
    <3> QED BY <1>2, <3>1 DEF CorrectionsAreKept, Kept, rows
  <2>3. CASE ~\E r \in Request : CommitsLate(r)
    <3>1. NoneIsLost /\ NoOpenTask /\ ReviewIsWhole' /\ \A k \in Task : Explained(k)'
      BY <2>3, FieldStep, ReviewStep, ResolveStep
    <3> QED BY <3>1 DEF NoneIsLost, CorrectionsAreKept
  <2> QED BY <2>2, <2>3
<1>4. NoOpenTask <=> (review.state \notin FinalState /\ review'.state \in FinalState
                        => \A k \in Task : tasks[k] # "OPEN")
  BY DEF NoOpenTask
<1>5. Spec => []IInv
  BY ReviewTyped, HumanInvariant, TaskInvariant, FieldInvariant, ReviewInvariant, ResolveInvariant, PTL
<1>6. Spec /\ RefusesOvertaken => []Promises
  BY <1>1, <1>3, <1>5, PTL DEF Spec, RefusesOvertaken
<1>7. Spec /\ RefusesOvertaken => NoDecisionWithOpenTasks
  BY <1>3, <1>4, <1>5, <1>6, PTL DEF Spec, RefusesOvertaken, NoDecisionWithOpenTasks
<1> QED BY <1>6, <1>7, PTL
==============================================================================
