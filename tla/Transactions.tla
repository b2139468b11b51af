----------------------------- MODULE Transactions ------------------------------
(***************************************************************************)
(* The transactions that write one document, statement by statement, with  *)
(* the locks PostgreSQL takes for them, and the audit trail of the         *)
(* organization: every transaction appends one event to it, under an       *)
(* advisory lock that is held to the end (audit.service.ts, append).       *)
(*                                                                         *)
(* Creating a version locks the document before the trail; so does         *)
(* confirming an upload; a result locks the trail first.  Such             *)
(* transactions can wait for each other; PostgreSQL finds that and rolls   *)
(* one of them back.                                                       *)
(*                                                                         *)
(* The isolation level is READ COMMITTED: a statement sees what was        *)
(* committed before it.  What a transaction writes is applied when it      *)
(* commits, which nobody can tell from writing it under locks held until   *)
(* then.  Module Processing takes each of them as one step, Documents says *)
(* what they promise.                                                      *)
(***************************************************************************)
EXTENDS Documents, Sequences, FiniteSets

CONSTANTS
  Transaction,   \* database connections, each running one transaction at a time
  NoTransaction, \* the holder of a free lock
  MaxFailures    \* bound on connections lost in the middle of a transaction

ASSUME TransactionsAssumption ==
  /\ NoTransaction \notin Transaction
  /\ MaxFailures \in Nat

VARIABLES
  transaction, \* transaction[t]: what runs on connection t
  holder,      \* holder[r]: the transaction that has the lock r
  ahead,       \* ahead[t]: those before t in the queue for the lock it waits for
  run,         \* run[v]: "none", "open" until its result is persisted, "settled"
  outcome,     \* outcome[v]: what the worker reports of version v
  trail,       \* audit_events of the organization, by their sequence
  failures     \* connections lost so far

locks == <<holder, ahead>>
txnVars == <<transaction, locks, run, outcome, trail, failures>>
vars == <<docVars, txnVars>>

\* Locks are on the rows of the document, its versions and runs, and the
\* advisory lock of the trail.
Row(table, v) == <<table, v>>
DocumentRow == Row("document", NoVersion)
VersionRow(v) == Row("version", v)
RunRow(v) == Row("run", v)
Trail == Row("trail", NoVersion)

Resource == {DocumentRow, Trail} \cup {VersionRow(v) : v \in Version}
                                 \cup {RunRow(v) : v \in Version}

Outcome == {"completed", "rejected"}
Kind == {"create", "confirm"} \cup Outcome

\* version is NoVersion until a new one got its number; seen is the current
\* version a result read; sequence is the place in the trail, 0 before append.
Started(kind, step, v) ==
  [kind |-> kind, step |-> step, version |-> v, seen |-> NoVersion, sequence |-> 0]

Idle == Started("none", "idle", NoVersion)

Event(kind, v) == [action |-> kind, version |-> v]

Init ==
  /\ DocInit
  /\ transaction = [t \in Transaction |-> Idle]
  /\ holder = [r \in Resource |-> NoTransaction]
  /\ ahead = [t \in Transaction |-> {}]
  /\ run = [v \in Version |-> "none"]
  /\ outcome \in [Version -> Outcome]
  /\ trail = <<Event("create", 1)>>
  /\ failures = 0

-----------------------------------------------------------------------------
(* Locks.                                                                  *)

\* The lock that the next statement of t needs, if it needs one.
Needed(t) ==
  LET v == transaction[t].version IN
  CASE transaction[t].step \in {"lock document", "save status"} -> {DocumentRow}
    [] transaction[t].step = "append" -> {Trail}
    [] transaction[t].step = "save version" -> {VersionRow(v)}
    [] transaction[t].step = "save run" -> {RunRow(v)}
    [] OTHER -> {}

\* The statement has the lock, or takes it and keeps it.
Obtain(t, r) ==
  /\ holder[r] \in {NoTransaction, t}
  /\ holder' = [holder EXCEPT ![r] = t]
  /\ UNCHANGED ahead

\* The lock is another's: t queues behind it and behind those that wait already.
Queue(t) ==
  /\ ahead[t] = {}
  /\ \E r \in Needed(t) :
       /\ holder[r] \notin {NoTransaction, t}
       /\ ahead' = [ahead EXCEPT ![t] =
            {holder[r]} \cup {u \in Transaction : ahead[u] # {} /\ r \in Needed(u)}]
  /\ UNCHANGED <<docVars, transaction, holder, run, outcome, trail, failures>>

\* Those that wait for a lock of t and for nobody else.
FirstInLine(t, r) == {u \in Transaction : ahead[u] = {t} /\ r \in Needed(u)}

Granted(t, r) ==
  IF FirstInLine(t, r) = {} THEN NoTransaction ELSE CHOOSE u \in FirstInLine(t, r) : TRUE

LeaveQueues(t) == ahead' = [u \in Transaction |-> IF u = t THEN {} ELSE ahead[u] \ {t}]

\* Mutant: the advisory lock belongs to the session, not to the transaction.
ReleaseRows(t) ==
  /\ holder' = [r \in Resource |-> IF holder[r] = t /\ r # Trail THEN Granted(t, r) ELSE holder[r]]
  /\ LeaveQueues(t)

\* COMMIT and ROLLBACK release all locks; each goes to the first that waits for it.
Release(t) ==
  /\ holder' = [r \in Resource |-> IF holder[r] = t THEN Granted(t, r) ELSE holder[r]]
  /\ LeaveQueues(t)

-----------------------------------------------------------------------------
(* Statements.                                                             *)

At(t, kinds, step) == transaction[t].kind \in kinds /\ transaction[t].step = step

Goto(t, step) == transaction' = [transaction EXCEPT ![t].step = step]

Rollback(t) ==
  /\ transaction' = [transaction EXCEPT ![t] = Idle]
  /\ Release(t)
  /\ UNCHANGED <<docVars, run, outcome, trail>>

\* A statement that locks and leaves no other trace before the commit.
Unseen == UNCHANGED <<docVars, run, outcome, trail, failures>>

AfterAppend(t) == IF transaction[t].kind \in Outcome THEN "save version" ELSE "commit"

\* Mutant: the last event is read without the lock.
AppendUnlocked(t) ==
  /\ transaction[t].step = "append"
  /\ transaction' = [transaction EXCEPT ![t].step = AfterAppend(t), ![t].sequence = Len(trail) + 1]
  /\ UNCHANGED locks
  /\ Unseen

\* append: the advisory lock, then the last event, then the insert.
AppendEvent(t) ==
  /\ transaction[t].step = "append"
  /\ Obtain(t, Trail)
  /\ transaction' = [transaction EXCEPT ![t].step = AfterAppend(t), ![t].sequence = Len(trail) + 1]
  /\ Unseen

Committed(t) ==
  /\ transaction' = [transaction EXCEPT ![t] = Idle]
  /\ Release(t)
  /\ trail' = Append(trail, Event(transaction[t].kind, transaction[t].version))
  /\ UNCHANGED <<outcome, failures>>

-----------------------------------------------------------------------------
(* POST /documents/:id/versions.                                           *)

Unused == {v \in Version : versionState[v] = "absent"}

BeginCreate(t) ==
  /\ transaction[t] = Idle
  /\ Unused # {}
  /\ transaction' = [transaction EXCEPT ![t] = Started("create", "lock document", NoVersion)]
  /\ UNCHANGED locks
  /\ Unseen

\* The latest number, plus one.
NextNumber == CHOOSE v \in Unused : \A w \in Version : w < v => w \notin Unused

\* Mutant: the document is not locked for the number.
NumberUnlocked(t) ==
  /\ At(t, {"create"}, "lock document")
  /\ Unused # {}
  /\ transaction' = [transaction EXCEPT ![t].step = "append", ![t].version = NextNumber]
  /\ UNCHANGED locks
  /\ Unseen

\* SELECT ... FOR UPDATE, then the latest number.
LockForNumber(t) ==
  /\ At(t, {"create"}, "lock document")
  /\ Unused # {}
  /\ Obtain(t, DocumentRow)
  /\ transaction' = [transaction EXCEPT ![t].step = "append", ![t].version = NextNumber]
  /\ Unseen

\* Bound: once MaxVersion versions exist another request ends with nothing.
NoNumberLeft(t) ==
  /\ At(t, {"create"}, "lock document")
  /\ Unused = {}
  /\ holder[DocumentRow] \in {NoTransaction, t}
  /\ Rollback(t)
  /\ UNCHANGED failures

CommitCreate(t) ==
  /\ At(t, {"create"}, "commit")
  /\ versionState' = [versionState EXCEPT ![transaction[t].version] = "UPLOADING"]
  /\ UNCHANGED <<current, status, reviewed, run>>
  /\ Committed(t)

-----------------------------------------------------------------------------
(* POST /document-versions/:id/confirm.                                    *)

\* The state is read without a lock.  The answers 400 and 404 write nothing.
BeginConfirm(t, v) ==
  /\ transaction[t] = Idle
  /\ versionState[v] = "UPLOADING"
  /\ transaction' = [transaction EXCEPT ![t] = Started("confirm", "save version", v)]
  /\ UNCHANGED locks
  /\ Unseen

SaveVersion(t) ==
  /\ At(t, {"confirm"} \cup Outcome, "save version")
  /\ Obtain(t, VersionRow(transaction[t].version))
  /\ Goto(t, IF transaction[t].kind = "confirm" THEN "save status" ELSE "lock document")
  /\ Unseen

SaveStatus(t) ==
  /\ At(t, {"confirm"}, "save status")
  /\ Obtain(t, DocumentRow)
  /\ Goto(t, "insert rows")
  /\ Unseen

\* Mutant: with neither of the unique constraints.
InsertAnyRows(t) ==
  /\ At(t, {"confirm"}, "insert rows")
  /\ Goto(t, "append")
  /\ UNCHANGED locks
  /\ Unseen

\* The rows of stored_artifacts, processing_runs and outbox_events.  A confirmed
\* version has all three, and the key of each is unique (uq_stored_artifact_key
\* is the first to refuse): of two confirmations of one version the later one is
\* rolled back, whatever it wrote before.
InsertRows(t) ==
  /\ At(t, {"confirm"}, "insert rows")
  /\ IF run[transaction[t].version] = "none"
       THEN Goto(t, "append") /\ UNCHANGED <<docVars, locks, run, outcome, trail>>
       ELSE Rollback(t)
  /\ UNCHANGED failures

CommitConfirm(t) ==
  /\ At(t, {"confirm"}, "commit")
  /\ versionState' = [versionState EXCEPT ![transaction[t].version] = "SCAN_QUEUED"]
  /\ status' = "PROCESSING"
  /\ run' = [run EXCEPT ![transaction[t].version] = "open"]
  /\ UNCHANGED <<current, reviewed>>
  /\ Committed(t)

-----------------------------------------------------------------------------
(* persistCompletion, called by an event and by the reconciler.            *)

\* The run is read without a lock: several executions may find it open.
BeginResult(t, v) ==
  /\ transaction[t] = Idle
  /\ run[v] = "open"
  /\ transaction' = [transaction EXCEPT ![t] = Started(outcome[v], "save run", v)]
  /\ UNCHANGED locks
  /\ Unseen

SaveRun(t) ==
  /\ At(t, Outcome, "save run")
  /\ Obtain(t, RunRow(transaction[t].version))
  /\ Goto(t, "append")
  /\ Unseen

\* SELECT ... FOR UPDATE, then the current version.
LockForResult(t) ==
  /\ At(t, Outcome, "lock document")
  /\ Obtain(t, DocumentRow)
  /\ transaction' = [transaction EXCEPT ![t].step = "commit", ![t].seen = current]
  /\ Unseen

SettleRun(t) == run' = [run EXCEPT ![transaction[t].version] = "settled"]

\* Mutant: the last result to arrive makes its version current.
CommitInAnyOrder(t) ==
  LET v == transaction[t].version IN
  /\ At(t, {"completed"}, "commit")
  /\ versionState' = [versionState EXCEPT ![v] = "READY_FOR_REVIEW"]
  /\ current' = v
  /\ status' = "READY_FOR_REVIEW"
  /\ reviewed' = reviewed \cup {v}
  /\ SettleRun(t)
  /\ Committed(t)

\* The version becomes current only if no newer one is.
CommitCompleted(t) ==
  LET v == transaction[t].version IN
  /\ At(t, {"completed"}, "commit")
  /\ versionState' = [versionState EXCEPT ![v] = "READY_FOR_REVIEW"]
  /\ IF v > transaction[t].seen
       THEN current' = v /\ status' = "READY_FOR_REVIEW"
       ELSE UNCHANGED <<current, status>>
  /\ reviewed' = reviewed \cup {v}
  /\ SettleRun(t)
  /\ Committed(t)

\* Mutant: a rejected version rejects the document.
CommitRejectedOnly(t) ==
  /\ At(t, {"rejected"}, "commit")
  /\ versionState' = [versionState EXCEPT ![transaction[t].version] = "REJECTED"]
  /\ status' = "REJECTED"
  /\ UNCHANGED <<current, reviewed>>
  /\ SettleRun(t)
  /\ Committed(t)

\* The document falls back to the state of its current version.
CommitRejected(t) ==
  LET seen == transaction[t].seen IN
  /\ At(t, {"rejected"}, "commit")
  /\ versionState' = [versionState EXCEPT ![transaction[t].version] = "REJECTED"]
  /\ status' = IF seen = NoVersion THEN "REJECTED" ELSE versionState[seen]
  /\ UNCHANGED <<current, reviewed>>
  /\ SettleRun(t)
  /\ Committed(t)

-----------------------------------------------------------------------------
(* Rollbacks.                                                              *)

WaitsFor(s, t) == ahead[s] # {} /\ \E r \in Needed(s) : holder[r] = t

\* A transaction waits for at most one holder, so this is a set of cycles.
Cycle(cycle) ==
  \A s \in cycle : (\E u \in cycle : WaitsFor(s, u)) /\ (\E u \in cycle : WaitsFor(u, s))

Deadlocked(t) == \E cycle \in SUBSET Transaction : t \in cycle /\ Cycle(cycle)

\* PostgreSQL looks for a cycle when a statement has waited for a second, and
\* rolls its transaction back.
BreakDeadlock(t) ==
  /\ Deadlocked(t)
  /\ Rollback(t)
  /\ UNCHANGED failures

\* The process dies or loses its connection.
Disconnect(t) ==
  /\ transaction[t] # Idle
  /\ failures < MaxFailures
  /\ failures' = failures + 1
  /\ Rollback(t)

-----------------------------------------------------------------------------
Begin(t) == BeginCreate(t) \/ \E v \in Version : BeginConfirm(t, v) \/ BeginResult(t, v)

Statement(t) ==
  \/ LockForNumber(t) \/ NoNumberLeft(t) \/ SaveVersion(t) \/ SaveStatus(t) \/ InsertRows(t)
  \/ SaveRun(t) \/ LockForResult(t) \/ AppendEvent(t)

Commit(t) == CommitCreate(t) \/ CommitConfirm(t) \/ CommitCompleted(t) \/ CommitRejected(t)

Progress(t) == Queue(t) \/ Statement(t) \/ Commit(t) \/ BreakDeadlock(t)

Next == \E t \in Transaction : Begin(t) \/ Progress(t) \/ Disconnect(t)

Spec == Init /\ [][Next]_vars

\* A transaction goes on when it has its lock, a deadlock is found, and while its
\* run is open a result is delivered again (module Processing).  Users are under
\* no obligation.
Fairness ==
  /\ \A t \in Transaction : WF_vars(Progress(t))
  /\ \A v \in Version : WF_vars(\E t \in Transaction : BeginResult(t, v))

FairSpec == Spec /\ Fairness

-----------------------------------------------------------------------------
Step == {"idle", "lock document", "save version", "save status", "insert rows", "save run",
         "append", "commit"}

TransactionRecord ==
  [kind : Kind \cup {"none"}, step : Step,
   version : Version \cup {NoVersion}, seen : Version \cup {NoVersion}, sequence : Nat]

TypeOK ==
  /\ DocTypeOK
  /\ transaction \in [Transaction -> TransactionRecord]
  /\ holder \in [Resource -> Transaction \cup {NoTransaction}]
  /\ ahead \in [Transaction -> SUBSET Transaction]
  /\ run \in [Version -> {"none", "open", "settled"}]
  /\ outcome \in [Version -> Outcome]
  /\ trail \in Seq([action : Kind, version : Version])
  /\ failures \in 0 .. MaxFailures

\* Until its transaction ends an event's place in the trail is still the next
\* one: the chain does not fork and no append fails on the unique sequence.
\* (append in audit.service.ts: lock, last event, insert.)
TrailDoesNotFork ==
  \A t \in Transaction :
    transaction[t].sequence # 0 => transaction[t].sequence = Len(trail) + 1

\* The number a new version was given is still free, and the next one, when its
\* transaction ends: no creation fails on the unique number.
\* (create in document-versions.service.ts: lock, latest number, insert.)
NumberIsNext ==
  \A t \in Transaction :
    transaction[t].kind = "create" /\ transaction[t].version # NoVersion =>
      /\ versionState[transaction[t].version] = "absent"
      /\ \A w \in Version : w < transaction[t].version => versionState[w] # "absent"

EventsOf(v, actions) ==
  {i \in DOMAIN trail : trail[i].version = v /\ trail[i].action \in actions}

\* The trail tells the history of every version: it was created and confirmed
\* exactly once and has a result if and only if the trail has one.
\* (Every transaction appends its own event and is rolled back with it.)
TrailTellsHistory ==
  \A v \in Version :
    /\ versionState[v] # "absent" <=> Cardinality(EventsOf(v, {"create"})) = 1
    /\ versionState[v] \notin {"absent", "UPLOADING"} <=> Cardinality(EventsOf(v, {"confirm"})) = 1
    /\ versionState[v] = "READY_FOR_REVIEW" <=> EventsOf(v, {"completed"}) # {}
    /\ versionState[v] = "REJECTED" <=> EventsOf(v, {"rejected"}) # {}

\* Only a result and another transaction can wait for each other, and only over
\* the document: the result has the trail, as in every deadlock, and the other has
\* the document.  (audit.append comes last in create and confirm, and first in
\* persistCompletion; everything else is locked in one order.)
DeadlockIsOverTheTrail ==
  \A cycle \in SUBSET Transaction :
    cycle # {} /\ Cycle(cycle) =>
      \E s, u \in cycle :
        /\ transaction[s].kind \in Outcome /\ holder[Trail] = s
        /\ transaction[u].kind \in {"create", "confirm"} /\ holder[DocumentRow] = u
        /\ WaitsFor(u, s)

\* Whatever waits for whatever, every transaction ends.
\* (Locks that last as long as the transaction; deadlocks are rolled back.)
EveryTransactionEnds == \A t \in Transaction : transaction[t] # Idle ~> transaction[t] = Idle

\* The result of a confirmed version is stored in the end, although the
\* transaction that stores it may be the one that a deadlock rolls back.
\* (The reconciler calls persistCompletion again while the run is open.)
ResultIsStored ==
  \A v \in Version : run[v] = "open" ~> versionState[v] \in {"READY_FOR_REVIEW", "REJECTED"}
==============================================================================
