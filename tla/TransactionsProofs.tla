-------------------------- MODULE TransactionsProofs --------------------------
(***************************************************************************)
(* The locks are enough: for any number of connections and versions, with  *)
(* any deadlocks and lost connections, the transactions behave as the      *)
(* document's specification says, and the audit trail does not fork.       *)
(* Nobody waits for a lock that nobody has, and only a result can wait in  *)
(* a circle with others.                                                   *)
(***************************************************************************)
EXTENDS Transactions, DocumentsProofs, FiniteSetTheorems, SequenceTheorems,
        WellFoundedInduction

USE MaxVersionAssumption, TransactionsAssumption

\* The transactions that have the lock on the document's row.
PastDocument(t) ==
  \/ At(t, {"create"}, "append") \/ At(t, {"create"}, "commit")
  \/ At(t, {"confirm"}, "insert rows") \/ At(t, {"confirm"}, "append") \/ At(t, {"confirm"}, "commit")
  \/ At(t, Outcome, "commit")

\* The steps of each kind, and what is set at them.
WellFormed(t) ==
  LET x == transaction[t] IN
  \/ x = Idle
  \/ /\ x.kind = "create"
     /\ x.step \in {"lock document", "append", "commit"}
     /\ x.step # "lock document" <=> x.version \in Version
     /\ x.sequence # 0 <=> x.step = "commit"
  \/ /\ x.kind = "confirm"
     /\ x.step \in {"save version", "save status", "insert rows", "append", "commit"}
     /\ x.version \in Version
     /\ x.sequence # 0 <=> x.step = "commit"
  \/ /\ x.kind \in Outcome
     /\ x.step \in {"save run", "append", "save version", "lock document", "commit"}
     /\ x.version \in Version
     /\ x.sequence # 0 <=> x.step \notin {"save run", "append"}

\* A transaction that is past a lock has it until it ends.
Locked(t) ==
  /\ PastDocument(t) => holder[DocumentRow] = t
  /\ transaction[t].sequence # 0 => /\ holder[Trail] = t
                                    /\ transaction[t].sequence = Len(trail) + 1

\* What a transaction has read is still so.
Knows(t) ==
  LET x == transaction[t] IN
  /\ x.kind = "create" /\ x.version # NoVersion =>
       /\ versionState[x.version] = "absent"
       /\ \A w \in Version : w < x.version => versionState[w] # "absent"
  /\ x.kind = "confirm" =>
       /\ versionState[x.version] # "absent"
       /\ x.step \in {"append", "commit"} => run[x.version] = "none"
  /\ x.kind \in Outcome =>
       /\ x.kind = outcome[x.version]
       /\ run[x.version] # "none"
       /\ x.step = "commit" => x.seen = current

\* A version, its run and its review go together.
Agree(v) ==
  /\ run[v] = "none" <=> versionState[v] \in {"absent", "UPLOADING"}
  /\ run[v] = "open" <=> versionState[v] = "SCAN_QUEUED"
  /\ run[v] = "settled" =>
       versionState[v] = IF outcome[v] = "completed" THEN "READY_FOR_REVIEW" ELSE "REJECTED"
  /\ versionState[v] = "READY_FOR_REVIEW" => v <= current /\ v \in reviewed

\* Versions are numbered without gaps.
NoGap ==
  \E n \in Version : \A v \in Version : versionState[v] # "absent" <=> v <= n

TInv ==
  /\ TypeOK
  /\ \A t \in Transaction : WellFormed(t) /\ Locked(t) /\ Knows(t)
  /\ \A v \in Version : Agree(v)
  /\ NoGap
  /\ current # NoVersion => versionState[current] = "READY_FOR_REVIEW"

\* What an idle connection holds.
LEMMA IdleFields ==
  ASSUME NEW x, x = Idle
  PROVE  x.kind = "none" /\ x.step = "idle" /\ x.sequence = 0
BY DEF Idle, Started

\* NULL is no version.
LEMMA NoVersionIsNone == NoVersion \notin Version
BY DEF Version, NoVersion

-----------------------------------------------------------------------------
(* Locks.                                                                  *)

\* Whoever has a lock keeps it while another's statement takes or gives back its own.
OthersKeepLocks(t) ==
  /\ holder' \in [Resource -> Transaction \cup {NoTransaction}]
  /\ ahead' \in [Transaction -> SUBSET Transaction]
  /\ \A u \in Transaction \ {t} : \A r \in Resource : holder[r] = u => holder'[r] = u

\* A lock is taken only from nobody.
LEMMA ObtainIsSafe ==
  ASSUME TypeOK, NEW t \in Transaction, NEW r \in Resource, Obtain(t, r)
  PROVE  OthersKeepLocks(t) /\ holder'[r] = t
                            /\ \A q \in Resource : holder[q] = t => holder'[q] = t
BY DEF TypeOK, Obtain, OthersKeepLocks

\* The end of a transaction gives away its own locks only.
LEMMA ReleaseIsSafe ==
  ASSUME TypeOK, NEW t \in Transaction, Release(t)
  PROVE  OthersKeepLocks(t)
<1>1. \A r \in Resource : Granted(t, r) \in Transaction \cup {NoTransaction}
  <2> SUFFICES ASSUME NEW r \in Resource
               PROVE  Granted(t, r) \in Transaction \cup {NoTransaction}
    OBVIOUS
  <2>1. CASE FirstInLine(t, r) = {}
    BY <2>1 DEF Granted
  <2>2. CASE FirstInLine(t, r) # {}
    <3>1. (CHOOSE u \in FirstInLine(t, r) : TRUE) \in FirstInLine(t, r)
      BY <2>2
    <3> QED BY <2>2, <3>1 DEF Granted, FirstInLine
  <2> QED BY <2>1, <2>2
<1>2. holder' \in [Resource -> Transaction \cup {NoTransaction}]
  BY <1>1 DEF TypeOK, Release
<1>3. ahead' \in [Transaction -> SUBSET Transaction]
  BY DEF TypeOK, Release, LeaveQueues
<1>4. \A u \in Transaction \ {t} : \A r \in Resource : holder[r] = u => holder'[r] = u
  BY DEF Release
<1> QED BY <1>2, <1>3, <1>4 DEF OthersKeepLocks

\* The locks are distinct.
LEMMA ResourceFacts ==
  /\ DocumentRow \in Resource /\ Trail \in Resource /\ DocumentRow # Trail
  /\ \A v \in Version : VersionRow(v) \in Resource /\ RunRow(v) \in Resource
BY DEF Resource, DocumentRow, Trail, VersionRow, RunRow, Row

-----------------------------------------------------------------------------
(* Statements: nobody else sees anything of them but the locks.            *)

\* What the others have read is still so after a statement of t.
LEMMA OthersAfterStatement ==
  ASSUME TInv, NEW t \in Transaction, OthersKeepLocks(t),
         NEW u \in Transaction \ {t}, transaction'[u] = transaction[u],
         UNCHANGED <<docVars, run, outcome, trail>>
  PROVE  WellFormed(u)' /\ Locked(u)' /\ Knows(u)'
<1>1. WellFormed(u) /\ Locked(u) /\ Knows(u)
  BY DEF TInv
<1>2. \A r \in Resource : holder[r] = u => holder'[r] = u
  BY DEF OthersKeepLocks
<1>3. PastDocument(u)' <=> PastDocument(u)
  BY DEF PastDocument, At
<1>4. WellFormed(u)'
  BY <1>1 DEF WellFormed
<1>5. Locked(u)'
  BY <1>1, <1>2, <1>3, ResourceFacts DEF Locked
<1>6. Knows(u)'
  BY <1>1 DEF Knows, docVars
<1> QED BY <1>4, <1>5, <1>6

\* A statement keeps the invariant if it does for its own transaction.
LEMMA StatementKeeps ==
  ASSUME TInv, NEW t \in Transaction, OthersKeepLocks(t),
         transaction' \in [Transaction -> TransactionRecord],
         \A u \in Transaction \ {t} : transaction'[u] = transaction[u],
         UNCHANGED <<docVars, run, outcome, trail>>,
         failures' \in 0 .. MaxFailures,
         WellFormed(t)', Locked(t)', Knows(t)'
  PROVE  TInv'
<1>1. TypeOK'
  BY DEF TInv, TypeOK, DocTypeOK, docVars, OthersKeepLocks
<1>2. (\A u \in Transaction : WellFormed(u) /\ Locked(u) /\ Knows(u))'
  BY OthersAfterStatement
<1>3. (\A v \in Version : Agree(v))'
  BY DEF TInv, Agree, docVars
<1>4. NoGap'
  BY DEF TInv, NoGap, docVars
<1>5. (current # NoVersion => versionState[current] = "READY_FOR_REVIEW")'
  BY DEF TInv, docVars
<1> QED BY <1>1, <1>2, <1>3, <1>4, <1>5 DEF TInv

\* A transaction that is rolled back leaves nothing.
LEMMA RollbackKeeps ==
  ASSUME TInv, NEW t \in Transaction, Rollback(t), failures' \in 0 .. MaxFailures
  PROVE  TInv'
<1>1. TypeOK /\ Release(t)
  BY DEF TInv, Rollback
<1>2. OthersKeepLocks(t)
  BY <1>1, ReleaseIsSafe
<1>3. Idle \in TransactionRecord
  BY DEF Idle, Started, TransactionRecord, Step, Kind
<1>4. /\ transaction' \in [Transaction -> TransactionRecord]
      /\ transaction'[t] = Idle
      /\ \A u \in Transaction \ {t} : transaction'[u] = transaction[u]
  BY <1>1, <1>3 DEF TypeOK, Rollback
<1>5. WellFormed(t)' /\ Locked(t)' /\ Knows(t)'
  BY <1>4 DEF WellFormed, Locked, Knows, PastDocument, At, Idle, Started, Outcome
<1> QED BY <1>2, <1>4, <1>5, StatementKeeps DEF Rollback

\* The record that t becomes, when only its own changes.
LEMMA Becomes ==
  ASSUME TypeOK, NEW t \in Transaction, NEW x \in TransactionRecord,
         transaction' = [transaction EXCEPT ![t] = x]
  PROVE  /\ transaction' \in [Transaction -> TransactionRecord]
         /\ transaction'[t] = x
         /\ \A u \in Transaction \ {t} : transaction'[u] = transaction[u]
BY DEF TypeOK

\* A transaction begins with nothing read but that its version is there.
LEMMA BeginKeeps ==
  ASSUME TInv, NEW t \in Transaction, Begin(t)
  PROVE  TInv' /\ UNCHANGED docVars
<1>1. TypeOK /\ failures' \in 0 .. MaxFailures /\ UNCHANGED <<docVars, holder, ahead>>
  <2>1. UNCHANGED <<docVars, failures, holder, ahead>>
    BY DEF Begin, BeginCreate, BeginConfirm, BeginResult, Unseen, locks
  <2> QED BY <2>1 DEF TInv, TypeOK
<1>2. OthersKeepLocks(t)
  BY <1>1 DEF TypeOK, OthersKeepLocks
<1> USE DEF TransactionRecord, Step, Kind, Outcome, Idle, Started, WellFormed, Locked, Knows,
            PastDocument, At, Unseen, locks, docVars
<1>3. CASE BeginCreate(t)
  <2>1. transaction' = [transaction EXCEPT ![t] = Started("create", "lock document", NoVersion)]
    BY <1>3 DEF BeginCreate
  <2>2. Started("create", "lock document", NoVersion) \in TransactionRecord
    OBVIOUS
  <2>3. /\ transaction' \in [Transaction -> TransactionRecord]
        /\ transaction'[t] = Started("create", "lock document", NoVersion)
        /\ \A u \in Transaction \ {t} : transaction'[u] = transaction[u]
    BY ONLY <1>1, <2>1, <2>2, Becomes
  <2>4. LET x == transaction'[t] IN
        x.kind = "create" /\ x.step = "lock document" /\ x.version = NoVersion /\ x.sequence = 0
    <3> DEFINE x == transaction'[t]
    <3> HIDE DEF x
    <3>1. x = Started("create", "lock document", NoVersion)
      BY <2>3 DEF x
    <3>2. x.kind = "create" /\ x.step = "lock document" /\ x.version = NoVersion /\ x.sequence = 0
      BY <3>1
    <3> QED BY <3>2 DEF x
  <2>5. WellFormed(t)' /\ Locked(t)' /\ Knows(t)'
    BY ONLY <2>4, NoVersionIsNone DEF WellFormed, Locked, Knows, PastDocument, At, Outcome
  <2> QED BY <1>1, <1>2, <1>3, <2>3, <2>5, StatementKeeps DEF BeginCreate
<1>4. ASSUME NEW v \in Version, BeginConfirm(t, v)
      PROVE  TInv' /\ UNCHANGED docVars
  <2>1. transaction' = [transaction EXCEPT ![t] = Started("confirm", "save version", v)]
    BY <1>4 DEF BeginConfirm
  <2>2. Started("confirm", "save version", v) \in TransactionRecord
    OBVIOUS
  <2>3. /\ transaction' \in [Transaction -> TransactionRecord]
        /\ transaction'[t] = Started("confirm", "save version", v)
        /\ \A u \in Transaction \ {t} : transaction'[u] = transaction[u]
    BY ONLY <1>1, <2>1, <2>2, Becomes
  <2>4. WellFormed(t)' /\ Locked(t)' /\ Knows(t)'
    BY <1>4, <2>3 DEF BeginConfirm
  <2> QED BY <1>1, <1>2, <1>4, <2>3, <2>4, StatementKeeps DEF BeginConfirm
<1>5. ASSUME NEW v \in Version, BeginResult(t, v)
      PROVE  TInv' /\ UNCHANGED docVars
  <2>1. transaction' = [transaction EXCEPT ![t] = Started(outcome[v], "save run", v)]
    BY <1>5 DEF BeginResult
  <2>2. outcome[v] \in Outcome
    BY <1>1 DEF TypeOK
  <2>3. Started(outcome[v], "save run", v) \in TransactionRecord
    BY <2>2
  <2>4. /\ transaction' \in [Transaction -> TransactionRecord]
        /\ transaction'[t] = Started(outcome[v], "save run", v)
        /\ \A u \in Transaction \ {t} : transaction'[u] = transaction[u]
    BY ONLY <1>1, <2>1, <2>3, Becomes
  <2>5. WellFormed(t)' /\ Locked(t)' /\ Knows(t)'
    BY <1>5, <2>2, <2>4 DEF BeginResult
  <2> QED BY <1>1, <1>2, <1>5, <2>4, <2>5, StatementKeeps DEF BeginResult
<1> QED BY <1>3, <1>4, <1>5 DEF Begin

\* A statement that goes on to a step with one more lock.
LEMMA NumberKeeps ==
  ASSUME TInv, NEW t \in Transaction, LockForNumber(t)
  PROVE  TInv'
<1> DEFINE n == NextNumber
           x == [transaction[t] EXCEPT !.step = "append", !.version = n]
<1> USE DEF TransactionRecord, Step, Kind, Outcome, Idle, At
<1>1. TypeOK /\ WellFormed(t) /\ Locked(t) /\ Knows(t) /\ NoGap
  BY DEF TInv
<1>2. OthersKeepLocks(t) /\ holder'[DocumentRow] = t
  BY <1>1, ObtainIsSafe, ResourceFacts DEF LockForNumber
<1>3. /\ NextNumber \in Version
      /\ versionState[NextNumber] = "absent"
      /\ \A w \in Version : w < NextNumber => versionState[w] # "absent"
  <2>1. PICK k \in Version : \A v \in Version : versionState[v] # "absent" <=> v <= k
    BY <1>1 DEF NoGap
  <2>2. PICK m \in Version : versionState[m] = "absent"
    BY DEF Unused, LockForNumber
  <2>3. k + 1 \in Version /\ ~(k + 1 <= k)
    BY <2>1, <2>2 DEF Version
  <2>4. k + 1 \in Unused
    BY <2>1, <2>3 DEF Unused
  <2>5. \A w \in Version : w < k + 1 => w \notin Unused
    BY <2>1 DEF Unused, Version
  <2>6. NextNumber \in Unused /\ \A w \in Version : w < NextNumber => w \notin Unused
    BY <2>4, <2>5 DEF NextNumber
  <2> QED BY <2>6 DEF Unused
<1>4. /\ x \in TransactionRecord
      /\ x.kind = transaction[t].kind /\ x.sequence = transaction[t].sequence
      /\ x.step = "append" /\ x.version = n
  <2>1. transaction[t] \in TransactionRecord /\ n \in Version
    BY <1>1, <1>3 DEF TypeOK
  <2> HIDE DEF n
  <2> QED BY ONLY <2>1 DEF TransactionRecord, Step
<1>5. transaction' = [transaction EXCEPT ![t] = x]
  BY DEF LockForNumber, n
<1> HIDE DEF x
<1>6. /\ transaction' \in [Transaction -> TransactionRecord]
      /\ transaction'[t] = x
      /\ \A u \in Transaction \ {t} : transaction'[u] = transaction[u]
  BY ONLY <1>1, <1>4, <1>5, Becomes
<1>7. x.kind = "create" /\ x.step = "append" /\ x.version = n /\ x.sequence = 0
  <2>1. transaction[t].kind = "create" /\ transaction[t].step = "lock document"
    BY DEF LockForNumber
  <2>2. transaction[t] # Idle
    BY ONLY <2>1, IdleFields
  <2>3. transaction[t].sequence = 0
    BY ONLY <1>1, <2>1, <2>2 DEF WellFormed, Outcome
  <2> QED BY ONLY <1>4, <2>1, <2>3
<1>8. failures' \in 0 .. MaxFailures /\ UNCHANGED <<docVars, run, outcome, trail>>
  BY <1>1 DEF TypeOK, LockForNumber, Unseen
<1>9. WellFormed(t)' /\ Locked(t)' /\ Knows(t)'
  <2>1. /\ transaction'[t].kind = "create" /\ transaction'[t].step = "append"
        /\ transaction'[t].version = n /\ transaction'[t].sequence = 0
    BY ONLY <1>6, <1>7
  <2>2. WellFormed(t)'
    BY ONLY <1>3, <2>1 DEF WellFormed, n
  <2>3. Locked(t)'
    BY ONLY <1>2, <2>1 DEF Locked
  <2>4. Knows(t)'
    BY ONLY <1>3, <1>8, <2>1 DEF Knows, Outcome, docVars, n
  <2> QED BY <2>2, <2>3, <2>4
<1> QED BY <1>2, <1>6, <1>8, <1>9, StatementKeeps

\* What t is after a statement that only goes to the next step.
LEMMA GotoFields ==
  ASSUME TypeOK, NEW t \in Transaction, NEW s \in Step, Goto(t, s)
  PROVE  /\ transaction' \in [Transaction -> TransactionRecord]
         /\ \A u \in Transaction \ {t} : transaction'[u] = transaction[u]
         /\ transaction'[t].kind = transaction[t].kind
         /\ transaction'[t].step = s
         /\ transaction'[t].version = transaction[t].version
         /\ transaction'[t].seen = transaction[t].seen
         /\ transaction'[t].sequence = transaction[t].sequence
<1> DEFINE x == [transaction[t] EXCEPT !.step = s]
<1>1. transaction[t] \in TransactionRecord
  BY DEF TypeOK
<1>2. /\ x \in TransactionRecord /\ x.step = s
      /\ x.kind = transaction[t].kind /\ x.version = transaction[t].version
      /\ x.seen = transaction[t].seen /\ x.sequence = transaction[t].sequence
  BY ONLY <1>1, s \in Step DEF TransactionRecord
<1>3. transaction' = [transaction EXCEPT ![t] = x]
  BY DEF Goto
<1> HIDE DEF x
<1> QED BY <1>2, <1>3, Becomes

\* A version and a step that are not those of an idle connection.
LEMMA AtIsNotIdle ==
  ASSUME NEW t \in Transaction, transaction[t].kind # "none"
  PROVE  transaction[t] # Idle
BY IdleFields

\* The version is saved under its row's lock; the document is locked next.
LEMMA SaveVersionKeeps ==
  ASSUME TInv, NEW t \in Transaction, SaveVersion(t)
  PROVE  TInv'
<1>1. TypeOK /\ WellFormed(t) /\ Locked(t) /\ Knows(t)
  BY DEF TInv
<1>2. transaction[t].kind \in {"confirm"} \cup Outcome /\ transaction[t].step = "save version"
  BY DEF SaveVersion, At
<1>3. transaction[t] # Idle
  BY <1>2, AtIsNotIdle DEF Outcome
<1>4. transaction[t].version \in Version
  BY <1>1, <1>2, <1>3 DEF WellFormed, Outcome
<1>5. OthersKeepLocks(t) /\ \A q \in Resource : holder[q] = t => holder'[q] = t
  BY <1>1, <1>4, ObtainIsSafe, ResourceFacts DEF SaveVersion
<1>6. failures' \in 0 .. MaxFailures /\ UNCHANGED <<docVars, run, outcome, trail>>
  BY <1>1 DEF TypeOK, SaveVersion, Unseen
<1>7. CASE transaction[t].kind = "confirm"
  <2>1. Goto(t, "save status")
    BY <1>7 DEF SaveVersion
  <2>2. "save status" \in Step
    BY DEF Step
  <2>3. WellFormed(t)' /\ Locked(t)' /\ Knows(t)'
    BY <1>1, <1>2, <1>3, <1>4, <1>6, <1>7, <2>1, <2>2, GotoFields
       DEF WellFormed, Locked, Knows, PastDocument, At, Outcome, docVars
  <2> QED BY <1>1, <1>5, <1>6, <2>1, <2>2, <2>3, GotoFields, StatementKeeps
<1>8. CASE transaction[t].kind \in Outcome
  <2>1. Goto(t, "lock document")
    BY <1>8 DEF SaveVersion, Outcome
  <2>2. "lock document" \in Step
    BY DEF Step
  <2>3. WellFormed(t)' /\ Locked(t)' /\ Knows(t)'
    BY <1>1, <1>2, <1>3, <1>4, <1>5, <1>6, <1>8, <2>1, <2>2, GotoFields, ResourceFacts
       DEF WellFormed, Locked, Knows, PastDocument, At, Outcome, docVars
  <2> QED BY <1>1, <1>5, <1>6, <2>1, <2>2, <2>3, GotoFields, StatementKeeps
<1> QED BY <1>2, <1>7, <1>8

\* From here a confirmation has the lock on the document.
LEMMA SaveStatusKeeps ==
  ASSUME TInv, NEW t \in Transaction, SaveStatus(t)
  PROVE  TInv'
<1>1. TypeOK /\ WellFormed(t) /\ Locked(t) /\ Knows(t)
  BY DEF TInv
<1>2. transaction[t].kind = "confirm" /\ transaction[t].step = "save status"
  BY DEF SaveStatus, At
<1>3. transaction[t] # Idle
  BY <1>2, AtIsNotIdle
<1>4. OthersKeepLocks(t) /\ holder'[DocumentRow] = t
  BY <1>1, ObtainIsSafe, ResourceFacts DEF SaveStatus
<1>5. failures' \in 0 .. MaxFailures /\ UNCHANGED <<docVars, run, outcome, trail>>
  BY <1>1 DEF TypeOK, SaveStatus, Unseen
<1>6. Goto(t, "insert rows") /\ "insert rows" \in Step
  BY DEF SaveStatus, Step
<1>7. WellFormed(t)' /\ Locked(t)' /\ Knows(t)'
  BY <1>1, <1>2, <1>3, <1>4, <1>5, <1>6, GotoFields
     DEF WellFormed, Locked, Knows, PastDocument, At, Outcome, docVars
<1> QED BY <1>1, <1>4, <1>5, <1>6, <1>7, GotoFields, StatementKeeps

\* The run is saved under its row's lock; the trail is locked next.
LEMMA SaveRunKeeps ==
  ASSUME TInv, NEW t \in Transaction, SaveRun(t)
  PROVE  TInv'
<1>1. TypeOK /\ WellFormed(t) /\ Locked(t) /\ Knows(t)
  BY DEF TInv
<1>2. transaction[t].kind \in Outcome /\ transaction[t].step = "save run"
  BY DEF SaveRun, At
<1>3. transaction[t] # Idle
  BY <1>2, AtIsNotIdle DEF Outcome
<1>4. transaction[t].version \in Version
  BY <1>1, <1>2, <1>3 DEF WellFormed, Outcome
<1>5. OthersKeepLocks(t)
  BY <1>1, <1>4, ObtainIsSafe, ResourceFacts DEF SaveRun
<1>6. failures' \in 0 .. MaxFailures /\ UNCHANGED <<docVars, run, outcome, trail>>
  BY <1>1 DEF TypeOK, SaveRun, Unseen
<1>7. Goto(t, "append") /\ "append" \in Step
  BY DEF SaveRun, Step
<1>8. WellFormed(t)' /\ Locked(t)' /\ Knows(t)'
  BY <1>1, <1>2, <1>3, <1>4, <1>6, <1>7, GotoFields
     DEF WellFormed, Locked, Knows, PastDocument, At, Outcome, docVars
<1> QED BY <1>1, <1>5, <1>6, <1>7, <1>8, GotoFields, StatementKeeps

\* The lock on the document keeps the key of the run free until the commit.
LEMMA InsertRunKeeps ==
  ASSUME TInv, NEW t \in Transaction, InsertRows(t)
  PROVE  TInv' /\ UNCHANGED docVars
<1>1. TypeOK /\ WellFormed(t) /\ Locked(t) /\ Knows(t)
  BY DEF TInv
<1>2. transaction[t].kind = "confirm" /\ transaction[t].step = "insert rows"
  BY DEF InsertRows, At
<1>3. transaction[t] # Idle
  BY <1>2, AtIsNotIdle
<1>4. failures' \in 0 .. MaxFailures
  BY <1>1 DEF TypeOK, InsertRows
<1>5. CASE run[transaction[t].version] # "none"
  BY <1>4, <1>5, RollbackKeeps DEF InsertRows, Rollback
<1>6. CASE run[transaction[t].version] = "none"
  <2>1. Goto(t, "append") /\ "append" \in Step
    BY <1>6 DEF InsertRows, Step
  <2>2. UNCHANGED <<docVars, locks, run, outcome, trail>>
    BY <1>6 DEF InsertRows
  <2>3. OthersKeepLocks(t)
    BY <1>1, <2>2 DEF OthersKeepLocks, TypeOK, locks
  <2>4. WellFormed(t)' /\ Locked(t)' /\ Knows(t)'
    BY <1>1, <1>2, <1>3, <1>6, <2>1, <2>2, GotoFields
       DEF WellFormed, Locked, Knows, PastDocument, At, Outcome, docVars, locks
  <2> QED BY <1>1, <1>4, <2>1, <2>2, <2>3, <2>4, GotoFields, StatementKeeps
<1> QED BY <1>5, <1>6

\* Under the lock on the trail the next place in it stays the next one.
LEMMA AppendKeeps ==
  ASSUME TInv, NEW t \in Transaction, AppendEvent(t)
  PROVE  TInv'
<1> DEFINE s == AfterAppend(t)
           n == Len(trail) + 1
           x == [transaction[t] EXCEPT !.step = s, !.sequence = n]
<1>1. TypeOK /\ WellFormed(t) /\ Locked(t) /\ Knows(t)
  BY DEF TInv
<1>2. transaction[t].step = "append" /\ transaction[t] \in TransactionRecord
  BY <1>1 DEF AppendEvent, TypeOK
<1>3. transaction[t] # Idle
  BY <1>2, IdleFields
<1>4. Len(trail) \in Nat /\ n \in Nat /\ n # 0
  BY <1>1 DEF TypeOK
<1>5. s \in Step /\ s = IF transaction[t].kind \in Outcome THEN "save version" ELSE "commit"
  BY DEF AfterAppend, Step
<1> HIDE DEF s, n
<1>6. /\ x \in TransactionRecord
      /\ x.kind = transaction[t].kind /\ x.version = transaction[t].version
      /\ x.step = s /\ x.sequence = n
  BY <1>2, <1>4, <1>5 DEF TransactionRecord
<1>7. transaction' = [transaction EXCEPT ![t] = x]
  BY DEF AppendEvent, s, n
<1> HIDE DEF x
<1>8. /\ transaction' \in [Transaction -> TransactionRecord]
      /\ transaction'[t] = x
      /\ \A u \in Transaction \ {t} : transaction'[u] = transaction[u]
  BY ONLY <1>1, <1>6, <1>7, Becomes
<1>9. /\ OthersKeepLocks(t) /\ holder'[Trail] = t
      /\ \A q \in Resource : holder[q] = t => holder'[q] = t
  BY <1>1, ObtainIsSafe, ResourceFacts DEF AppendEvent
<1>10. failures' \in 0 .. MaxFailures /\ UNCHANGED <<docVars, run, outcome, trail>>
  BY <1>1 DEF TypeOK, AppendEvent, Unseen
<1>11. WellFormed(t)'
  <2>1. CASE x.kind \in Outcome
    BY ONLY <1>1, <1>2, <1>3, <1>4, <1>5, <1>6, <1>8, <2>1 DEF WellFormed, Outcome
  <2>2. CASE x.kind \notin Outcome
    BY ONLY <1>1, <1>2, <1>3, <1>4, <1>5, <1>6, <1>8, <2>2 DEF WellFormed, Outcome
  <2> QED BY <2>1, <2>2
<1>12. Locked(t)'
  BY <1>1, <1>2, <1>3, <1>4, <1>5, <1>6, <1>8, <1>9, <1>10, ResourceFacts
     DEF WellFormed, Locked, PastDocument, At, Outcome, n
<1>13. Knows(t)'
  BY <1>1, <1>2, <1>5, <1>6, <1>8, <1>10 DEF Knows, Outcome, docVars
<1> QED BY <1>8, <1>9, <1>10, <1>11, <1>12, <1>13, StatementKeeps

\* Under the lock on the document its current version stays the one read.
LEMMA LockForResultKeeps ==
  ASSUME TInv, NEW t \in Transaction, LockForResult(t)
  PROVE  TInv'
<1> DEFINE x == [transaction[t] EXCEPT !.step = "commit", !.seen = current]
<1>1. TypeOK /\ WellFormed(t) /\ Locked(t) /\ Knows(t)
  BY DEF TInv
<1>2. /\ transaction[t].kind \in Outcome /\ transaction[t].step = "lock document"
      /\ transaction[t] \in TransactionRecord
  BY <1>1 DEF LockForResult, At, TypeOK
<1>3. transaction[t] # Idle
  BY <1>2, IdleFields
<1>4. /\ x \in TransactionRecord
      /\ x.kind = transaction[t].kind /\ x.version = transaction[t].version
      /\ x.step = "commit" /\ x.sequence = transaction[t].sequence /\ x.seen = current
  BY <1>1, <1>2 DEF TransactionRecord, TypeOK, DocTypeOK, Step
<1>5. transaction' = [transaction EXCEPT ![t] = x]
  BY DEF LockForResult
<1> HIDE DEF x
<1>6. /\ transaction' \in [Transaction -> TransactionRecord]
      /\ transaction'[t] = x
      /\ \A u \in Transaction \ {t} : transaction'[u] = transaction[u]
  BY ONLY <1>1, <1>4, <1>5, Becomes
<1>7. /\ OthersKeepLocks(t) /\ holder'[DocumentRow] = t
      /\ \A q \in Resource : holder[q] = t => holder'[q] = t
  BY <1>1, ObtainIsSafe, ResourceFacts DEF LockForResult
<1>8. failures' \in 0 .. MaxFailures /\ UNCHANGED <<docVars, run, outcome, trail>>
  BY <1>1 DEF TypeOK, LockForResult, Unseen
<1>9. WellFormed(t)'
  BY <1>1, <1>2, <1>3, <1>4, <1>6 DEF WellFormed, Outcome
<1>10. Locked(t)'
  BY <1>1, <1>2, <1>4, <1>6, <1>7, <1>8, ResourceFacts DEF Locked, PastDocument, At, Outcome
<1>11. Knows(t)'
  BY <1>1, <1>2, <1>4, <1>6, <1>8 DEF Knows, Outcome, docVars
<1> QED BY <1>6, <1>7, <1>8, <1>9, <1>10, <1>11, StatementKeeps

\* A transaction that waits has done nothing.
LEMMA QueueKeeps ==
  ASSUME TInv, NEW t \in Transaction, Queue(t)
  PROVE  TInv' /\ UNCHANGED docVars
<1>1. TypeOK /\ WellFormed(t) /\ Locked(t) /\ Knows(t)
  BY DEF TInv
<1>2. UNCHANGED <<docVars, transaction, holder, run, outcome, trail, failures>>
  BY DEF Queue
<1>3. ahead' \in [Transaction -> SUBSET Transaction]
  <2>1. PICK r \in Needed(t) :
          /\ holder[r] \notin {NoTransaction, t}
          /\ ahead' = [ahead EXCEPT ![t] =
               {holder[r]} \cup {u \in Transaction : ahead[u] # {} /\ r \in Needed(u)}]
    BY DEF Queue
  <2>2. r \in Resource
    <3>1. transaction[t].step = "save version" \/ transaction[t].step = "save run"
            => transaction[t].version \in Version
      BY <1>1, IdleFields DEF WellFormed
    <3> QED BY <2>1, <3>1, ResourceFacts DEF Needed
  <2> QED BY <1>1, <2>1, <2>2 DEF TypeOK
<1>4. OthersKeepLocks(t)
  BY <1>1, <1>2, <1>3 DEF OthersKeepLocks, TypeOK
<1>5. WellFormed(t)' /\ Locked(t)' /\ Knows(t)'
  BY <1>1, <1>2 DEF WellFormed, Locked, Knows, PastDocument, At, docVars
<1> QED BY <1>1, <1>2, <1>4, <1>5, StatementKeeps DEF TypeOK

-----------------------------------------------------------------------------
(* Commits.                                                                *)

\* What a transaction that commits has and knows.
LEMMA AtCommit ==
  ASSUME TInv, NEW t \in Transaction, transaction[t].step = "commit"
  PROVE  /\ transaction[t].kind \in Kind /\ transaction[t].version \in Version
         /\ holder[DocumentRow] = t /\ holder[Trail] = t
         /\ transaction[t].sequence = Len(trail) + 1
<1>1. WellFormed(t) /\ Locked(t)
  BY DEF TInv
<1>2. transaction[t] # Idle
  BY IdleFields
<1> QED BY <1>1, <1>2 DEF WellFormed, Locked, PastDocument, At, Outcome, Kind

\* The others have read neither the trail nor, under a lock, the document: what
\* they know does not change with a commit.
LEMMA OthersAfterCommit ==
  ASSUME TInv, NEW t \in Transaction, transaction[t].step = "commit", OthersKeepLocks(t),
         NEW u \in Transaction \ {t}, transaction'[u] = transaction[u], outcome' = outcome,
         \A v \in Version : versionState[v] # "absent" => versionState'[v] # "absent",
         \A v \in Version : run[v] # "none" => run'[v] # "none"
  PROVE  WellFormed(u)' /\ Locked(u)' /\ Knows(u)'
<1>1. WellFormed(u) /\ Locked(u) /\ Knows(u)
  BY DEF TInv
<1>2. holder[DocumentRow] = t /\ holder[Trail] = t
  BY AtCommit
<1>3. ~PastDocument(u) /\ transaction[u].sequence = 0
  BY <1>1, <1>2 DEF Locked
<1>4. WellFormed(u)'
  BY <1>1 DEF WellFormed
<1>5. Locked(u)'
  BY <1>3 DEF Locked, PastDocument, At
<1>6. transaction[u].kind # "none" => transaction[u] # Idle
  BY IdleFields
<1>7. /\ transaction[u].kind = "create" => transaction[u].version = NoVersion
      /\ transaction[u].kind = "confirm" =>
           transaction[u].version \in Version /\ transaction[u].step \notin {"append", "commit"}
      /\ transaction[u].kind \in Outcome =>
           transaction[u].version \in Version /\ transaction[u].step # "commit"
  <2>1. transaction[u].version \in Version \cup {NoVersion}
    BY DEF TInv, TypeOK, TransactionRecord
  <2>2. CASE transaction[u].kind = "create"
    BY <1>1, <1>3, <1>6, <2>1, <2>2 DEF WellFormed, PastDocument, At, Outcome
  <2>3. CASE transaction[u].kind = "confirm"
    BY <1>1, <1>3, <1>6, <2>3 DEF WellFormed, PastDocument, At, Outcome
  <2>4. CASE transaction[u].kind \in Outcome
    BY <1>1, <1>3, <1>6, <2>4 DEF WellFormed, PastDocument, At, Outcome
  <2> QED BY <2>2, <2>3, <2>4
<1>8. Knows(u)'
  BY <1>1, <1>7 DEF Knows
<1> QED BY <1>4, <1>5, <1>8

\* A commit keeps the invariant if what it writes does.
LEMMA CommitKeeps ==
  ASSUME TInv, NEW t \in Transaction, transaction[t].step = "commit", Committed(t),
         DocTypeOK', run' \in [Version -> {"none", "open", "settled"}],
         \A v \in Version : versionState[v] # "absent" => versionState'[v] # "absent",
         \A v \in Version : run[v] # "none" => run'[v] # "none",
         \A v \in Version : Agree(v)',
         NoGap',
         current' # NoVersion => versionState'[current'] = "READY_FOR_REVIEW"
  PROVE  TInv'
<1>1. TypeOK
  BY DEF TInv
<1>2. OthersKeepLocks(t)
  BY <1>1, ReleaseIsSafe DEF Committed
<1>3. Idle \in TransactionRecord
  BY DEF Idle, Started, TransactionRecord, Step, Kind
<1>4. /\ transaction' \in [Transaction -> TransactionRecord]
      /\ transaction'[t] = Idle
      /\ \A u \in Transaction \ {t} : transaction'[u] = transaction[u]
  BY ONLY <1>1, <1>3, Becomes, Committed(t) DEF Committed
<1>5. trail' \in Seq([action : Kind, version : Version])
  <2>1. Event(transaction[t].kind, transaction[t].version) \in [action : Kind, version : Version]
    BY AtCommit DEF Event
  <2>2. trail \in Seq([action : Kind, version : Version])
    BY <1>1 DEF TypeOK
  <2> QED BY <2>1, <2>2 DEF Committed
<1>6. TypeOK'
  BY <1>1, <1>2, <1>4, <1>5 DEF TypeOK, OthersKeepLocks, Committed
<1>7. WellFormed(t)' /\ Locked(t)' /\ Knows(t)'
  BY <1>4, IdleFields DEF WellFormed, Locked, Knows, PastDocument, At, Outcome
<1>8. ASSUME NEW u \in Transaction \ {t}
      PROVE  WellFormed(u)' /\ Locked(u)' /\ Knows(u)'
  BY <1>2, <1>4, OthersAfterCommit DEF Committed
<1> QED BY <1>6, <1>7, <1>8 DEF TInv

\* A new version has the next number.
LEMMA CommitCreateKeeps ==
  ASSUME TInv, NEW t \in Transaction, CommitCreate(t)
  PROVE  TInv' /\ DocNext
<1> DEFINE v == transaction[t].version
<1>1. TypeOK /\ Knows(t) /\ NoGap
  BY DEF TInv
<1>2. /\ transaction[t].kind = "create" /\ transaction[t].step = "commit"
      /\ versionState' = [versionState EXCEPT ![v] = "UPLOADING"]
      /\ UNCHANGED <<current, status, reviewed, run, outcome>> /\ Committed(t)
  BY DEF CommitCreate, At, Committed
<1>3. v \in Version
  BY <1>2, AtCommit
<1>4. versionState[v] = "absent" /\ \A w \in Version : w < v => versionState[w] # "absent"
  BY <1>1, <1>2, <1>3, NoVersionIsNone DEF Knows
<1> HIDE DEF v
<1>5. CreateVersion(v)
  BY <1>2, <1>4 DEF CreateVersion
<1>6. DocNext
  BY <1>3, <1>5 DEF DocNext
<1>7. DocTypeOK'
  BY <1>1, <1>6, DocTypeStep DEF TypeOK
<1>8. /\ \A w \in Version : versionState'[w] = IF w = v THEN "UPLOADING" ELSE versionState[w]
  BY <1>1, <1>2 DEF TypeOK, DocTypeOK
<1>9. \A w \in Version : Agree(w)'
  BY <1>2, <1>4, <1>8 DEF TInv, Agree
<1>10. NoGap'
  <2>1. PICK n \in Version : \A w \in Version : versionState[w] # "absent" <=> w <= n
    BY <1>1 DEF NoGap
  <2>2. v = n + 1
    BY <1>3, <1>4, <2>1 DEF Version
  <2>3. \A w \in Version : versionState'[w] # "absent" <=> w <= v
    BY <1>3, <1>8, <2>1, <2>2 DEF Version
  <2> QED BY <1>3, <2>3 DEF NoGap
<1>11. current' # NoVersion => versionState'[current'] = "READY_FOR_REVIEW"
  BY <1>1, <1>2, <1>4, <1>8 DEF TInv, TypeOK, DocTypeOK
<1> QED BY <1>1, <1>2, <1>6, <1>7, <1>8, <1>9, <1>10, <1>11, CommitKeeps DEF TypeOK

\* A version is confirmed once: the key of its run is free.
LEMMA CommitConfirmKeeps ==
  ASSUME TInv, NEW t \in Transaction, CommitConfirm(t)
  PROVE  TInv' /\ DocNext
<1> DEFINE v == transaction[t].version
<1>1. TypeOK /\ Knows(t) /\ NoGap
  BY DEF TInv
<1>2. /\ transaction[t].kind = "confirm" /\ transaction[t].step = "commit"
      /\ versionState' = [versionState EXCEPT ![v] = "SCAN_QUEUED"]
      /\ status' = "PROCESSING"
      /\ run' = [run EXCEPT ![v] = "open"]
      /\ UNCHANGED <<current, reviewed, outcome>> /\ Committed(t)
  BY DEF CommitConfirm, At, Committed
<1>3. v \in Version
  BY <1>2, AtCommit
<1>4. versionState[v] # "absent" /\ run[v] = "none"
  BY <1>1, <1>2 DEF Knows
<1> HIDE DEF v
<1>5. versionState[v] = "UPLOADING"
  BY <1>3, <1>4 DEF TInv, Agree
<1>6. ConfirmVersion(v) /\ DocNext
  BY <1>2, <1>3, <1>5 DEF ConfirmVersion, DocNext
<1>7. DocTypeOK'
  BY <1>1, <1>6, DocTypeStep DEF TypeOK
<1>8. /\ \A w \in Version \ {v} : versionState'[w] = versionState[w] /\ run'[w] = run[w]
      /\ versionState'[v] = "SCAN_QUEUED" /\ run'[v] = "open"
  <2>1. versionState \in [Version -> VersionState] /\ run \in [Version -> {"none", "open", "settled"}]
    BY <1>1 DEF TypeOK, DocTypeOK
  <2>2. \A w \in Version \ {v} : versionState'[w] = versionState[w]
    BY <1>2, <2>1
  <2>3. \A w \in Version \ {v} : run'[w] = run[w]
    BY <1>2, <2>1
  <2>4. versionState'[v] = "SCAN_QUEUED" /\ run'[v] = "open"
    BY <1>2, <1>3, <2>1
  <2> QED BY <2>2, <2>3, <2>4
<1>9. \A w \in Version : Agree(w)'
  <2>1. ASSUME NEW w \in Version, w = v
        PROVE  Agree(w)'
    BY <1>8, <2>1 DEF Agree
  <2>2. ASSUME NEW w \in Version \ {v}
        PROVE  Agree(w)'
    BY <1>2, <1>8 DEF TInv, Agree
  <2> QED BY <2>1, <2>2
<1>10. NoGap'
  <2>1. \A w \in Version : versionState'[w] # "absent" <=> versionState[w] # "absent"
    BY <1>4, <1>8
  <2> QED BY <1>1, <2>1 DEF NoGap
<1>11. current' # NoVersion => versionState'[current'] = "READY_FOR_REVIEW"
  BY <1>1, <1>2, <1>5, <1>8 DEF TInv, TypeOK, DocTypeOK
<1>12. run' \in [Version -> {"none", "open", "settled"}]
  BY <1>1, <1>2 DEF TypeOK
<1> QED BY <1>2, <1>6, <1>7, <1>8, <1>9, <1>10, <1>11, <1>12, CommitKeeps

\* A result is stored once; what a second transaction writes is there already.
LEMMA ResultFacts ==
  ASSUME TInv, NEW t \in Transaction, NEW v \in Version, v = transaction[t].version,
         transaction[t].kind \in Outcome, transaction[t].step = "commit"
  PROVE  /\ transaction[t].kind = outcome[v] /\ transaction[t].seen = current
         /\ \/ run[v] = "open" /\ versionState[v] = "SCAN_QUEUED"
            \/ /\ run[v] = "settled"
               /\ versionState[v] =
                    IF outcome[v] = "completed" THEN "READY_FOR_REVIEW" ELSE "REJECTED"
<1>1. Knows(t) /\ Agree(v) /\ run[v] \in {"none", "open", "settled"}
  BY DEF TInv, TypeOK
<1> QED BY <1>1 DEF Knows, Agree

\* A completed version is a step of the document, or was stored already.
LEMMA CommitCompletedKeeps ==
  ASSUME TInv, NEW t \in Transaction, CommitCompleted(t)
  PROVE  TInv' /\ [DocNext]_docVars
<1>1. TypeOK /\ NoGap
  BY DEF TInv
<1>2. transaction[t].kind = "completed" /\ transaction[t].step = "commit"
  BY DEF CommitCompleted, At
<1>3. PICK v \in Version : v = transaction[t].version
  BY <1>2, AtCommit
<1>4. /\ versionState' = [versionState EXCEPT ![v] = "READY_FOR_REVIEW"]
      /\ IF v > transaction[t].seen
           THEN current' = v /\ status' = "READY_FOR_REVIEW"
           ELSE UNCHANGED <<current, status>>
      /\ reviewed' = reviewed \cup {v}
      /\ run' = [run EXCEPT ![v] = "settled"]
      /\ Committed(t) /\ outcome' = outcome
  BY <1>3 DEF CommitCompleted, SettleRun, Committed
<1>5. transaction[t].seen = current /\ outcome[v] = "completed"
  BY <1>2, <1>3, ResultFacts DEF Outcome
<1>6. \/ run[v] = "open" /\ versionState[v] = "SCAN_QUEUED"
      \/ run[v] = "settled" /\ versionState[v] = "READY_FOR_REVIEW"
  BY <1>2, <1>3, <1>5, ResultFacts DEF Outcome
<1>7. CompletedEffect(v)
  BY <1>4, <1>5 DEF CompletedEffect
<1>8. [DocNext]_docVars
  <2>1. CASE versionState[v] = "SCAN_QUEUED"
    BY <1>7, <2>1 DEF DocNext, CompleteVersion
  <2>2. CASE versionState[v] = "READY_FOR_REVIEW"
    <3>1. v <= current /\ v \in reviewed
      BY <2>2 DEF TInv, Agree
    <3>2. ~(v > current)
      BY <1>1, <3>1 DEF TypeOK, DocTypeOK, Version, NoVersion
    <3>3. versionState' = versionState
      BY <1>1, <1>4, <2>2 DEF TypeOK, DocTypeOK
    <3> QED BY <1>4, <1>5, <3>1, <3>2, <3>3 DEF docVars
  <2> QED BY <1>6, <2>1, <2>2
<1>9. DocTypeOK'
  BY <1>1, <1>8, DocTypeStep DEF TypeOK
<1>10. /\ \A w \in Version \ {v} : versionState'[w] = versionState[w]
       /\ versionState'[v] = "READY_FOR_REVIEW"
  BY <1>1, <1>4 DEF TypeOK, DocTypeOK
<1>11. /\ run' \in [Version -> {"none", "open", "settled"}]
       /\ \A w \in Version \ {v} : run'[w] = run[w]
       /\ run'[v] = "settled"
  BY <1>1, <1>4 DEF TypeOK
<1>12. current' >= current /\ v <= current' /\ (current' = v \/ current' = current)
  BY <1>1, <1>4, <1>5 DEF TypeOK, DocTypeOK, Version, NoVersion
<1>13. \A w \in Version : Agree(w)'
  <2>1. Agree(v)'
    BY <1>4, <1>5, <1>10, <1>11, <1>12 DEF Agree
  <2>2. ASSUME NEW w \in Version \ {v}
        PROVE  Agree(w)'
    <3>1. Agree(w)
      BY DEF TInv
    <3>2. w <= current => w <= current'
      BY <1>1, <1>9, <1>12 DEF TypeOK, DocTypeOK, Version, NoVersion
    <3> QED BY <1>4, <1>10, <1>11, <3>1, <3>2 DEF Agree
  <2> QED BY <2>1, <2>2
<1>14. NoGap'
  <2>1. \A w \in Version : versionState'[w] # "absent" <=> versionState[w] # "absent"
    BY <1>6, <1>10
  <2> QED BY <1>1, <2>1 DEF NoGap
<1>15. current' # NoVersion => versionState'[current'] = "READY_FOR_REVIEW"
  BY <1>1, <1>10, <1>12 DEF TInv, TypeOK, DocTypeOK
<1> QED BY <1>2, <1>4, <1>8, <1>9, <1>10, <1>11, <1>13, <1>14, <1>15, CommitKeeps

\* A rejected version is a step of the document.
LEMMA CommitRejectedKeeps ==
  ASSUME TInv, NEW t \in Transaction, CommitRejected(t)
  PROVE  TInv' /\ [DocNext]_docVars
<1>1. TypeOK /\ NoGap
  BY DEF TInv
<1>2. transaction[t].kind = "rejected" /\ transaction[t].step = "commit"
  BY DEF CommitRejected, At
<1>3. PICK v \in Version : v = transaction[t].version
  BY <1>2, AtCommit
<1>4. /\ versionState' = [versionState EXCEPT ![v] = "REJECTED"]
      /\ status' = IF transaction[t].seen = NoVersion
                     THEN "REJECTED" ELSE versionState[transaction[t].seen]
      /\ UNCHANGED <<current, reviewed, outcome>>
      /\ run' = [run EXCEPT ![v] = "settled"]
      /\ Committed(t)
  BY <1>3 DEF CommitRejected, SettleRun, Committed
<1>5. transaction[t].seen = current /\ outcome[v] = "rejected"
  BY <1>2, <1>3, ResultFacts DEF Outcome
<1>6. \/ run[v] = "open" /\ versionState[v] = "SCAN_QUEUED"
      \/ run[v] = "settled" /\ versionState[v] = "REJECTED"
  BY <1>2, <1>3, <1>5, ResultFacts DEF Outcome
<1>7. current # NoVersion => current # v /\ current \in Version
  BY <1>1, <1>6 DEF TInv, TypeOK, DocTypeOK
<1>8. /\ \A w \in Version \ {v} : versionState'[w] = versionState[w]
      /\ versionState'[v] = "REJECTED"
  BY <1>1, <1>4 DEF TypeOK, DocTypeOK
<1>9. RejectedEffect(v)
  BY <1>4, <1>5, <1>7, <1>8 DEF RejectedEffect
<1>10. DocNext
  BY <1>6, <1>9 DEF DocNext, RejectVersion
<1>11. DocTypeOK'
  BY <1>1, <1>10, DocTypeStep DEF TypeOK
<1>12. /\ run' \in [Version -> {"none", "open", "settled"}]
       /\ \A w \in Version \ {v} : run'[w] = run[w]
       /\ run'[v] = "settled"
  BY <1>1, <1>4 DEF TypeOK
<1>13. \A w \in Version : Agree(w)'
  <2>1. Agree(v)'
    BY <1>4, <1>5, <1>8, <1>12 DEF Agree
  <2>2. ASSUME NEW w \in Version \ {v}
        PROVE  Agree(w)'
    BY <1>4, <1>8, <1>12 DEF TInv, Agree
  <2> QED BY <2>1, <2>2
<1>14. NoGap'
  <2>1. \A w \in Version : versionState'[w] # "absent" <=> versionState[w] # "absent"
    BY <1>6, <1>8
  <2> QED BY <1>1, <2>1 DEF NoGap
<1>15. current' # NoVersion => versionState'[current'] = "READY_FOR_REVIEW"
  BY <1>4, <1>7, <1>8 DEF TInv
<1> QED BY <1>2, <1>4, <1>8, <1>10, <1>11, <1>12, <1>13, <1>14, <1>15, CommitKeeps

-----------------------------------------------------------------------------
\* No transaction runs at first.
LEMMA InitTInv == Init => TInv /\ DocInit
<1> SUFFICES ASSUME Init
             PROVE  TInv /\ DocInit
  OBVIOUS
<1>1. 1 \in Version
  BY DEF Version
<1>2. DocTypeOK /\ DocInit
  BY DocInitially DEF Init
<1>3. Idle \in TransactionRecord
  BY DEF Idle, Started, TransactionRecord, Step, Kind
<1>4. trail \in Seq([action : Kind, version : Version])
  BY <1>1 DEF Init, Event, Kind
<1>5. TypeOK
  BY <1>2, <1>3, <1>4 DEF Init, TypeOK
<1>6. \A t \in Transaction : transaction[t] = Idle
  BY DEF Init
<1>7. \A t \in Transaction : WellFormed(t) /\ Locked(t) /\ Knows(t)
  BY <1>6, IdleFields DEF WellFormed, Locked, Knows, PastDocument, At, Outcome
<1>8. \A v \in Version : Agree(v)
  BY DEF Init, DocInit, Agree
<1>9. NoGap
  <2>1. \A v \in Version : v <= 1 <=> v = 1
    BY DEF Version
  <2>2. \A v \in Version : versionState[v] # "absent" <=> v <= 1
    BY <1>2, <2>1 DEF DocInit
  <2> QED BY <1>1, <2>2 DEF NoGap
<1> QED BY <1>2, <1>5, <1>7, <1>8, <1>9 DEF TInv, DocInit

\* Every step keeps what was read, and is a step of the document or none of its.
LEMMA NextTInv == TInv /\ [Next]_vars => TInv' /\ [DocNext]_docVars
<1> SUFFICES ASSUME TInv, [Next]_vars
             PROVE  TInv' /\ [DocNext]_docVars
  OBVIOUS
<1>1. ASSUME NEW t \in Transaction, Begin(t)
      PROVE  TInv' /\ [DocNext]_docVars
  BY <1>1, BeginKeeps
<1>2. ASSUME NEW t \in Transaction, Statement(t)
      PROVE  TInv' /\ [DocNext]_docVars
  <2>1. failures' \in 0 .. MaxFailures
    BY <1>2 DEF TInv, TypeOK, Statement, LockForNumber, NoNumberLeft, SaveVersion, SaveStatus,
                InsertRows, SaveRun, LockForResult, AppendEvent, Unseen
  <2>2. CASE LockForNumber(t)
    BY <2>2, NumberKeeps DEF LockForNumber, Unseen
  <2>3. CASE NoNumberLeft(t)
    BY <2>1, <2>3, RollbackKeeps DEF NoNumberLeft, Rollback
  <2>4. CASE SaveVersion(t)
    BY <2>4, SaveVersionKeeps DEF SaveVersion, Unseen
  <2>5. CASE SaveStatus(t)
    BY <2>5, SaveStatusKeeps DEF SaveStatus, Unseen
  <2>6. CASE InsertRows(t)
    BY <2>6, InsertRunKeeps
  <2>7. CASE SaveRun(t)
    BY <2>7, SaveRunKeeps DEF SaveRun, Unseen
  <2>8. CASE LockForResult(t)
    BY <2>8, LockForResultKeeps DEF LockForResult, Unseen
  <2>9. CASE AppendEvent(t)
    BY <2>9, AppendKeeps DEF AppendEvent, Unseen
  <2> QED
    BY <1>2, <2>2, <2>3, <2>4, <2>5, <2>6, <2>7, <2>8, <2>9 DEF Statement
<1>3. ASSUME NEW t \in Transaction, Commit(t)
      PROVE  TInv' /\ [DocNext]_docVars
  BY <1>3, CommitCreateKeeps, CommitConfirmKeeps, CommitCompletedKeeps, CommitRejectedKeeps
     DEF Commit
<1>4. ASSUME NEW t \in Transaction, BreakDeadlock(t) \/ Disconnect(t)
      PROVE  TInv' /\ [DocNext]_docVars
  <2>1. failures' \in 0 .. MaxFailures
    BY <1>4 DEF TInv, TypeOK, BreakDeadlock, Disconnect
  <2> QED BY <1>4, <2>1, RollbackKeeps DEF BreakDeadlock, Disconnect, Rollback
<1>5. ASSUME NEW t \in Transaction, Queue(t)
      PROVE  TInv' /\ [DocNext]_docVars
  BY <1>5, QueueKeeps
<1>6. CASE UNCHANGED vars
  <2> USE <1>6 DEF vars, docVars, txnVars, locks
  <2>1. TypeOK'
    BY DEF TInv, TypeOK, DocTypeOK
  <2>2. ASSUME NEW t \in Transaction
        PROVE  WellFormed(t)' /\ Locked(t)' /\ Knows(t)'
    BY DEF TInv, WellFormed, Locked, Knows, PastDocument, At
  <2>3. ASSUME NEW v \in Version
        PROVE  Agree(v)'
    BY DEF TInv, Agree
  <2>4. NoGap' /\ (current # NoVersion => versionState[current] = "READY_FOR_REVIEW")'
    BY DEF TInv, NoGap
  <2> QED BY <2>1, <2>2, <2>3, <2>4 DEF TInv
<1> QED BY <1>1, <1>2, <1>3, <1>4, <1>5, <1>6 DEF Next, Progress

\* Whatever waits, deadlocks or loses its connection, what a transaction has
\* read under a lock is still so when it commits.
THEOREM ReadIsStillSo == Spec => []TInv
BY InitTInv, NextTInv, PTL DEF Spec

\* Every variable keeps its type, with any number of connections and versions.
THEOREM TransactionsTypeCorrect == Spec => []TypeOK
BY ReadIsStillSo, PTL DEF TInv

\* The transactions, interleaved statement by statement, implement the
\* document's specification, in which each of them is one step.
THEOREM TransactionsImplementDocuments == Spec => DocSpec
BY InitTInv, NextTInv, PTL DEF Spec, DocSpec

\* So the newest ready version is current, in every interleaving of statements.
THEOREM TransactionsKeepNewest == Spec => []CurrentIsNewestReady
BY TransactionsImplementDocuments, CurrentIsNewest, PTL

\* The next place in the audit trail is still free when its transaction ends.
THEOREM TrailIsLinear == Spec => []TrailDoesNotFork
<1>1. TInv => TrailDoesNotFork
  BY DEF TInv, Locked, TrailDoesNotFork
<1> QED BY <1>1, ReadIsStillSo, PTL

\* No two versions get one number, and none is left out.
THEOREM NumbersAreNext == Spec => []NumberIsNext
<1>1. TInv => NumberIsNext
  BY DEF TInv, Knows, NumberIsNext
<1> QED BY <1>1, ReadIsStillSo, PTL

-----------------------------------------------------------------------------
(* The trail and the rows it tells of.                                     *)

\* TrailTellsHistory without counting: what an event adds to keeps this.
Told(v) ==
  /\ versionState[v] = "absent" => EventsOf(v, {"create"}) = {}
  /\ versionState[v] # "absent" => \E i : EventsOf(v, {"create"}) = {i}
  /\ versionState[v] \in {"absent", "UPLOADING"} => EventsOf(v, {"confirm"}) = {}
  /\ versionState[v] \notin {"absent", "UPLOADING"} => \E i : EventsOf(v, {"confirm"}) = {i}
  /\ versionState[v] = "READY_FOR_REVIEW" <=> EventsOf(v, {"completed"}) # {}
  /\ versionState[v] = "REJECTED" <=> EventsOf(v, {"rejected"}) # {}

\* The places in s of the events of one version and kind.
Places(s, v, b) == {i \in DOMAIN s : s[i].version = v /\ s[i].action \in {b}}

\* An event is told of its own version and kind, and of no other.
LEMMA PlacesAfter ==
  ASSUME NEW s \in Seq([action : Kind, version : Version]), NEW v \in Version, NEW a \in Kind,
         NEW w \in Version, NEW b \in Kind
  PROVE  /\ w = v /\ b = a => Places(Append(s, Event(a, v)), w, b) = Places(s, w, b) \cup {Len(s) + 1}
         /\ ~(w = v /\ b = a) => Places(Append(s, Event(a, v)), w, b) = Places(s, w, b)
<1> DEFINE z == Append(s, Event(a, v))
<1>1. Event(a, v) \in [action : Kind, version : Version]
  BY DEF Event
<1>2. /\ DOMAIN s = 1 .. Len(s) /\ Len(s) \in Nat
      /\ DOMAIN z = 1 .. Len(s) + 1
      /\ \A i \in 1 .. Len(s) : z[i] = s[i]
      /\ z[Len(s) + 1] = Event(a, v)
  BY <1>1, AppendProperties, LenProperties
<1>3. Event(a, v).action = a /\ Event(a, v).version = v
  BY DEF Event
<1>4. DOMAIN z = DOMAIN s \cup {Len(s) + 1} /\ Len(s) + 1 \notin DOMAIN s
  BY <1>2
<1> HIDE DEF z
<1>5. Places(z, w, b) = IF w = v /\ b = a THEN Places(s, w, b) \cup {Len(s) + 1} ELSE Places(s, w, b)
  BY <1>2, <1>3, <1>4 DEF Places
<1> QED BY <1>5 DEF z

\* The events of a commit and the state it writes agree, for each kind.
LEMMA CommitTells ==
  ASSUME TInv, \A v \in Version : Told(v), NEW t \in Transaction, Commit(t)
  PROVE  \A w \in Version : Told(w)'
<1>1. TypeOK /\ Knows(t)
  BY DEF TInv
<1>2. transaction[t].step = "commit" /\ Committed(t)
  BY DEF Commit, CommitCreate, CommitConfirm, CommitCompleted, CommitRejected, At
<1>3. PICK v \in Version, a \in Kind : v = transaction[t].version /\ a = transaction[t].kind
  BY <1>2, AtCommit DEF Commit, CommitCreate, CommitConfirm, CommitCompleted, CommitRejected, At,
                        Kind, Outcome
<1>4. trail' = Append(trail, Event(a, v))
  BY <1>2, <1>3 DEF Committed
<1>5. PICK x \in {"UPLOADING", "SCAN_QUEUED", "READY_FOR_REVIEW", "REJECTED"} :
        /\ versionState' = [versionState EXCEPT ![v] = x]
        /\ \/ a = "create" /\ x = "UPLOADING" /\ versionState[v] = "absent"
           \/ a = "confirm" /\ x = "SCAN_QUEUED" /\ versionState[v] = "UPLOADING"
           \/ a = "completed" /\ x = "READY_FOR_REVIEW" /\ versionState[v] \in {"SCAN_QUEUED", x}
           \/ a = "rejected" /\ x = "REJECTED" /\ versionState[v] \in {"SCAN_QUEUED", x}
  <2>1. CASE CommitCreate(t)
    BY <1>1, <1>3, <2>1, NoVersionIsNone DEF CommitCreate, At, Knows
  <2>2. CASE CommitConfirm(t)
    <3>1. versionState[v] # "absent" /\ run[v] = "none"
      BY <1>1, <1>3, <2>2 DEF CommitConfirm, At, Knows
    <3>2. versionState[v] = "UPLOADING"
      BY <1>3, <3>1 DEF TInv, Agree
    <3> QED BY <1>3, <2>2, <3>2 DEF CommitConfirm, At
  <2>3. CASE CommitCompleted(t)
    <3>1. a = outcome[v] /\ a = "completed"
      BY <1>2, <1>3, <2>3, ResultFacts DEF CommitCompleted, At, Outcome
    <3>2. versionState[v] \in {"SCAN_QUEUED", "READY_FOR_REVIEW"}
      <4>1. transaction[t].kind \in Outcome
        BY <1>3, <3>1 DEF Outcome
      <4>2. versionState[v] = "SCAN_QUEUED"
              \/ versionState[v] = IF outcome[v] = "completed" THEN "READY_FOR_REVIEW" ELSE "REJECTED"
        BY <1>2, <1>3, <4>1, ResultFacts
      <4> QED BY ONLY <3>1, <4>2
    <3>3. versionState' = [versionState EXCEPT ![v] = "READY_FOR_REVIEW"]
      BY <1>3, <2>3 DEF CommitCompleted
    <3> QED BY ONLY <3>1, <3>2, <3>3
  <2>4. CASE CommitRejected(t)
    <3>1. a = outcome[v] /\ a = "rejected"
      BY <1>2, <1>3, <2>4, ResultFacts DEF CommitRejected, At, Outcome
    <3>2. versionState[v] \in {"SCAN_QUEUED", "REJECTED"}
      <4>1. transaction[t].kind \in Outcome
        BY <1>3, <3>1 DEF Outcome
      <4>2. versionState[v] = "SCAN_QUEUED"
              \/ versionState[v] = IF outcome[v] = "completed" THEN "READY_FOR_REVIEW" ELSE "REJECTED"
        BY <1>2, <1>3, <4>1, ResultFacts
      <4> QED BY ONLY <3>1, <4>2
    <3>3. versionState' = [versionState EXCEPT ![v] = "REJECTED"]
      BY <1>3, <2>4 DEF CommitRejected
    <3> QED BY ONLY <3>1, <3>2, <3>3
  <2> QED BY <2>1, <2>2, <2>3, <2>4 DEF Commit
<1>6. /\ versionState'[v] = x
      /\ \A w \in Version \ {v} : versionState'[w] = versionState[w]
  BY <1>1, <1>3, <1>5 DEF TypeOK, DocTypeOK
<1>7. ASSUME NEW w \in Version, NEW b \in Kind
      PROVE  EventsOf(w, {b})' = IF w = v /\ b = a THEN EventsOf(w, {b}) \cup {Len(trail) + 1}
                                                   ELSE EventsOf(w, {b})
  <2>1. Places(Append(trail, Event(a, v)), w, b) =
          IF w = v /\ b = a THEN Places(trail, w, b) \cup {Len(trail) + 1} ELSE Places(trail, w, b)
    <3>1. trail \in Seq([action : Kind, version : Version])
      BY <1>1 DEF TypeOK
    <3>2. \A s \in Seq([action : Kind, version : Version]) :
            /\ w = v /\ b = a => Places(Append(s, Event(a, v)), w, b) = Places(s, w, b) \cup {Len(s) + 1}
            /\ ~(w = v /\ b = a) => Places(Append(s, Event(a, v)), w, b) = Places(s, w, b)
      BY PlacesAfter
    <3> QED BY ONLY <3>1, <3>2
  <2>2. EventsOf(w, {b}) = Places(trail, w, b) /\ EventsOf(w, {b})' = Places(trail', w, b)
    BY DEF EventsOf, Places
  <2> QED BY <1>4, <2>1, <2>2
<1>8. ASSUME NEW w \in Version \ {v} PROVE Told(w)'
  <2>1. Told(w)
    OBVIOUS
  <2>2. \A b \in Kind : EventsOf(w, {b})' = EventsOf(w, {b})
    BY <1>7
  <2> QED BY <1>6, <2>1, <2>2 DEF Told, Kind, Outcome
<1>9. Told(v)'
  <2>1. Told(v)
    BY <1>3
  <2>2. \A b \in Kind \ {a} : EventsOf(v, {b})' = EventsOf(v, {b})
    BY <1>3, <1>7
  <2>3. EventsOf(v, {a})' = EventsOf(v, {a}) \cup {Len(trail) + 1}
    BY <1>3, <1>7
  <2>4. CASE a = "create"
    BY <1>5, <1>6, <2>1, <2>2, <2>3, <2>4 DEF Told, Kind, Outcome
  <2>5. CASE a = "confirm"
    BY <1>5, <1>6, <2>1, <2>2, <2>3, <2>5 DEF Told, Kind, Outcome
  <2>6. CASE a = "completed"
    BY <1>5, <1>6, <2>1, <2>2, <2>3, <2>6 DEF Told, Kind, Outcome
  <2>7. CASE a = "rejected"
    BY <1>5, <1>6, <2>1, <2>2, <2>3, <2>7 DEF Told, Kind, Outcome
  <2> QED BY <1>5, <2>4, <2>5, <2>6, <2>7
<1> QED BY <1>8, <1>9

LEMMA ToldStep ==
  TInv /\ (\A v \in Version : Told(v)) /\ [Next]_vars => (\A v \in Version : Told(v))'
<1> SUFFICES ASSUME TInv, \A v \in Version : Told(v), [Next]_vars
             PROVE  (\A v \in Version : Told(v))'
  OBVIOUS
<1>1. CASE \E t \in Transaction : Commit(t)
  BY <1>1, CommitTells
<1>2. CASE UNCHANGED <<versionState, trail>>
  <2> SUFFICES ASSUME NEW v \in Version PROVE Told(v)'
    OBVIOUS
  <2>1. \A actions : EventsOf(v, actions)' = EventsOf(v, actions)
    BY <1>2 DEF EventsOf
  <2>2. versionState'[v] = versionState[v] /\ Told(v)
    BY <1>2
  <2> QED BY <2>1, <2>2 DEF Told
<1>3. ASSUME NEW t \in Transaction, Begin(t) \/ Queue(t) \/ Statement(t) \/ BreakDeadlock(t)
                                             \/ Disconnect(t)
      PROVE  UNCHANGED <<versionState, trail>>
  BY <1>3 DEF Begin, BeginCreate, BeginConfirm, BeginResult, Queue, Statement, LockForNumber,
              NoNumberLeft, SaveVersion, SaveStatus, InsertRows, SaveRun, LockForResult, AppendEvent,
              BreakDeadlock, Disconnect, Rollback, Unseen, docVars
<1>4. UNCHANGED vars => UNCHANGED <<versionState, trail>>
  BY DEF vars, docVars, txnVars
<1> QED BY <1>1, <1>2, <1>3, <1>4 DEF Next, Progress

LEMMA ToldInit == Init => \A v \in Version : Told(v)
<1> SUFFICES ASSUME Init, NEW v \in Version PROVE Told(v)
  OBVIOUS
<1>1. trail = <<Event("create", 1)>> /\ DOMAIN trail = {1}
  BY DEF Init
<1>2. trail[1].action = "create" /\ trail[1].version = 1
  BY <1>1 DEF Event
<1>3. \A A : EventsOf(v, A) = IF v = 1 /\ "create" \in A THEN {1} ELSE {}
  BY <1>1, <1>2 DEF EventsOf
<1> QED BY <1>3 DEF Init, DocInit, Told

\* With any number of connections, deadlocks and rollbacks, the trail tells of
\* every version what happened to it and how often (append, rolled back with
\* the rows it tells of).
THEOREM TrailIsTrue == Spec => []TrailTellsHistory
<1>1. ASSUME NEW v \in Version, Told(v)
      PROVE  /\ versionState[v] # "absent" <=> Cardinality(EventsOf(v, {"create"})) = 1
             /\ versionState[v] \notin {"absent", "UPLOADING"}
                  <=> Cardinality(EventsOf(v, {"confirm"})) = 1
  <2>1. Cardinality({}) = 0 /\ \A i : Cardinality({i}) = 1
    BY FS_EmptySet, FS_Singleton
  <2>2. CASE versionState[v] = "absent"
    BY <1>1, <2>1, <2>2 DEF Told
  <2>3. CASE versionState[v] = "UPLOADING"
    BY <1>1, <2>1, <2>3 DEF Told
  <2>4. CASE versionState[v] \notin {"absent", "UPLOADING"}
    BY <1>1, <2>1, <2>4 DEF Told
  <2> QED BY <2>2, <2>3, <2>4
<1>2. (\A v \in Version : Told(v)) => TrailTellsHistory
  <2> SUFFICES ASSUME \A v \in Version : Told(v), NEW v \in Version
               PROVE  /\ versionState[v] # "absent" <=> Cardinality(EventsOf(v, {"create"})) = 1
                      /\ versionState[v] \notin {"absent", "UPLOADING"}
                           <=> Cardinality(EventsOf(v, {"confirm"})) = 1
                      /\ versionState[v] = "READY_FOR_REVIEW" <=> EventsOf(v, {"completed"}) # {}
                      /\ versionState[v] = "REJECTED" <=> EventsOf(v, {"rejected"}) # {}
    BY DEF TrailTellsHistory
  <2> QED BY <1>1 DEF Told
<1> QED BY <1>2, ToldInit, ToldStep, ReadIsStillSo, PTL DEF Spec
-----------------------------------------------------------------------------
(* Who waits for whom.                                                     *)

\* The locks that t has taken by a statement, which it keeps to its end.
HasTaken(t, r) ==
  LET x == transaction[t] IN
  \/ r = RunRow(x.version) /\ x.kind \in Outcome /\ x.step # "save run"
  \/ r = Trail /\ x.sequence # 0
  \/ r = VersionRow(x.version) /\ \/ x.kind = "confirm" /\ x.step # "save version"
                                  \/ x.kind \in Outcome /\ x.step \in {"lock document", "commit"}
  \/ r = DocumentRow /\ PastDocument(t)

\* A lock is had by who took it, or was given to who waited for it; nobody waits
\* for itself.
HeldByTaker ==
  \A t \in Transaction :
    /\ t \notin ahead[t]
    /\ \A r \in Resource :
         holder[r] = t => HasTaken(t, r) \/ (r \in Needed(t) /\ ahead[t] = {})

\* A statement needs one lock at most.
LEMMA NeedsOne ==
  ASSUME TInv, NEW t \in Transaction
  PROVE  Needed(t) \subseteq Resource /\ \A q, r \in Needed(t) : q = r
<1>1. WellFormed(t)
  BY DEF TInv
<1>2. transaction[t].step \in {"save version", "save run"} => transaction[t].version \in Version
  BY <1>1, IdleFields DEF WellFormed
<1> QED BY <1>2, ResourceFacts DEF Needed

\* The locks are told apart by what they lock.
LEMMA ResourcesDiffer ==
  ASSUME NEW v, NEW w
  PROVE  /\ RunRow(v) # Trail /\ RunRow(v) # DocumentRow /\ RunRow(v) # VersionRow(w)
         /\ VersionRow(v) # Trail /\ VersionRow(v) # DocumentRow /\ DocumentRow # Trail
BY DEF RunRow, VersionRow, Trail, DocumentRow, Row

\* A statement that takes a lock takes the one it needs and keeps the others.
TakesNeeded(t) ==
  \E r \in Needed(t) :
    /\ Obtain(t, r)
    /\ HasTaken(t, r)'
    /\ \A q \in Resource : HasTaken(t, q) => HasTaken(t, q)'
    /\ \A u \in Transaction \ {t} : transaction'[u] = transaction[u]

LEMMA StatementTakes ==
  ASSUME TInv, NEW t \in Transaction,
         \/ LockForNumber(t) \/ SaveVersion(t) \/ SaveStatus(t)
         \/ SaveRun(t) \/ AppendEvent(t) \/ LockForResult(t)
  PROVE  TakesNeeded(t)
<1> DEFINE x == transaction[t]
           y == transaction'[t]
<1>1. TypeOK /\ WellFormed(t) /\ x \in TransactionRecord
  BY DEF TInv, TypeOK
<1>2. x # Idle
  BY IdleFields DEF LockForNumber, SaveVersion, SaveStatus, SaveRun, AppendEvent, LockForResult, At
<1>3. /\ y.kind = x.kind
      /\ y.version = x.version \/ x.kind = "create"
      /\ \A u \in Transaction \ {t} : transaction'[u] = transaction[u]
  <2>1. CASE LockForNumber(t)
    BY <1>1, <2>1 DEF LockForNumber, At, TypeOK, TransactionRecord
  <2>2. CASE SaveVersion(t) \/ SaveStatus(t) \/ SaveRun(t)
    <3>1. \E st \in Step : Goto(t, st)
      BY <2>2 DEF SaveVersion, SaveStatus, SaveRun, Step
    <3> QED BY <1>1, <3>1, GotoFields
  <2>3. CASE AppendEvent(t)
    BY <1>1, <2>3 DEF AppendEvent, TypeOK, TransactionRecord
  <2>4. CASE LockForResult(t)
    BY <1>1, <2>4 DEF LockForResult, TypeOK, TransactionRecord
  <2> QED BY <2>1, <2>2, <2>3, <2>4
<1>4. CASE LockForNumber(t)
  <2>1. x.kind = "create" /\ x.step = "lock document" /\ y.step = "append" /\ x.sequence = 0
    BY <1>1, <1>2, <1>4 DEF LockForNumber, At, TypeOK, WellFormed, Outcome, TransactionRecord
  <2>2. DocumentRow \in Needed(t) /\ Obtain(t, DocumentRow)
    BY <1>4, <2>1 DEF Needed, LockForNumber
  <2>3. HasTaken(t, DocumentRow)'
    BY <1>3, <2>1 DEF HasTaken, PastDocument, At
  <2>4. \A q \in Resource : ~HasTaken(t, q)
    BY <2>1 DEF HasTaken, PastDocument, At, Outcome
  <2> QED BY <1>3, <2>2, <2>3, <2>4 DEF TakesNeeded
<1>5. CASE SaveVersion(t)
  <2>1. /\ x.step = "save version" /\ x.kind \in {"confirm"} \cup Outcome
        /\ y.step = IF x.kind = "confirm" THEN "save status" ELSE "lock document"
        /\ y.sequence = x.sequence /\ y.version = x.version
    BY <1>1, <1>3, <1>5 DEF SaveVersion, At, Goto, TypeOK, Outcome, TransactionRecord
  <2>2. VersionRow(x.version) \in Needed(t) /\ Obtain(t, VersionRow(x.version))
    BY <1>5, <2>1 DEF Needed, SaveVersion
  <2>3. HasTaken(t, VersionRow(x.version))'
    BY <1>3, <2>1 DEF HasTaken, VersionRow, Row, Outcome
  <2>4. \A q \in Resource : HasTaken(t, q) => HasTaken(t, q)'
    BY <1>3, <2>1 DEF HasTaken, PastDocument, At, Outcome, RunRow, VersionRow, Row
  <2> QED BY <1>3, <2>1, <2>2, <2>3, <2>4 DEF TakesNeeded
<1>6. CASE SaveStatus(t)
  <2>1. /\ x.step = "save status" /\ x.kind = "confirm" /\ y.step = "insert rows"
        /\ y.sequence = x.sequence /\ y.version = x.version
    BY <1>1, <1>3, <1>6 DEF SaveStatus, At, Goto, TypeOK, TransactionRecord
  <2>2. DocumentRow \in Needed(t) /\ Obtain(t, DocumentRow)
    BY <1>6, <2>1 DEF Needed, SaveStatus
  <2>3. HasTaken(t, DocumentRow)'
    BY <1>3, <2>1 DEF HasTaken, PastDocument, At
  <2>4. \A q \in Resource : HasTaken(t, q) => HasTaken(t, q)'
    BY <1>3, <2>1 DEF HasTaken, PastDocument, At, Outcome, RunRow, VersionRow, Row
  <2> QED BY <1>3, <2>2, <2>3, <2>4 DEF TakesNeeded
<1>7. CASE SaveRun(t)
  <2>1. /\ x.step = "save run" /\ x.kind \in Outcome /\ y.step = "append"
        /\ y.sequence = x.sequence /\ y.version = x.version
    BY <1>1, <1>3, <1>7 DEF SaveRun, At, Goto, TypeOK, Outcome, TransactionRecord
  <2>2. RunRow(x.version) \in Needed(t) /\ Obtain(t, RunRow(x.version))
    BY <1>7, <2>1 DEF Needed, SaveRun
  <2>3. HasTaken(t, RunRow(x.version))'
    BY <1>3, <2>1 DEF HasTaken, RunRow, Row
  <2>4. \A q \in Resource : HasTaken(t, q) => HasTaken(t, q)'
    BY <1>3, <2>1 DEF HasTaken, PastDocument, At, Outcome, RunRow, VersionRow, Row
  <2> QED BY <1>3, <2>1, <2>2, <2>3, <2>4 DEF TakesNeeded
<1>8. CASE AppendEvent(t)
  <2>1. /\ x.step = "append"
        /\ y.step = IF x.kind \in Outcome THEN "save version" ELSE "commit"
        /\ y.sequence = Len(trail) + 1 /\ y.version = x.version
    BY <1>1, <1>8 DEF AppendEvent, AfterAppend, TypeOK, TransactionRecord
  <2>2. y.sequence # 0
    <3>1. Len(trail) \in Nat
      BY <1>1 DEF TypeOK
    <3>2. Len(trail) + 1 # 0
      BY <3>1
    <3>3. y.sequence = Len(trail) + 1
      BY <2>1
    <3> HIDE DEF y
    <3> QED BY ONLY <3>2, <3>3
  <2>3. Trail \in Needed(t) /\ Obtain(t, Trail)
    BY <1>8, <2>1 DEF Needed, AppendEvent
  <2>4. HasTaken(t, Trail)'
    BY <2>2 DEF HasTaken
  <2>5. \A q \in Resource : HasTaken(t, q) => HasTaken(t, q)'
    BY <1>1, <1>2, <1>3, <2>1, <2>2
       DEF WellFormed, HasTaken, PastDocument, At, Outcome, RunRow, VersionRow, Row
  <2> QED BY <1>3, <2>3, <2>4, <2>5 DEF TakesNeeded
<1>9. CASE LockForResult(t)
  <2>1. /\ x.step = "lock document" /\ x.kind \in Outcome /\ y.step = "commit"
        /\ y.sequence = x.sequence /\ y.version = x.version
    BY <1>1, <1>9 DEF LockForResult, At, TypeOK, TransactionRecord
  <2>2. DocumentRow \in Needed(t) /\ Obtain(t, DocumentRow)
    BY <1>9, <2>1 DEF Needed, LockForResult
  <2>3. HasTaken(t, DocumentRow)'
    BY <1>3, <2>1 DEF HasTaken, PastDocument, At
  <2>4. \A q \in Resource : HasTaken(t, q) => HasTaken(t, q)'
    BY <1>3, <2>1 DEF HasTaken, PastDocument, At, Outcome, RunRow, VersionRow, Row
  <2> QED BY <1>3, <2>2, <2>3, <2>4 DEF TakesNeeded
<1> QED BY <1>4, <1>5, <1>6, <1>7, <1>8, <1>9

\* A step that takes no lock and gives none back.
GoesOn(t) ==
  /\ Needed(t) = {}
  /\ UNCHANGED locks
  /\ \A q \in Resource : HasTaken(t, q) => HasTaken(t, q)'
  /\ \A u \in Transaction \ {t} : transaction'[u] = transaction[u]

\* The end of a transaction.
Ends(t) == Release(t) /\ transaction' = [transaction EXCEPT ![t] = Idle]

\* All that a step can do to the locks.
LEMMA LockSteps ==
  ASSUME TInv, [Next]_vars
  PROVE  \/ \E t \in Transaction : Queue(t) \/ TakesNeeded(t) \/ GoesOn(t) \/ Ends(t)
         \/ UNCHANGED vars
<1>1. ASSUME NEW t \in Transaction, Begin(t) PROVE GoesOn(t)
  <2>1. transaction[t] = Idle /\ UNCHANGED locks
    BY <1>1 DEF Begin, BeginCreate, BeginConfirm, BeginResult
  <2>2. Needed(t) = {}
    BY <2>1, IdleFields DEF Needed
  <2>3. \A q \in Resource : ~HasTaken(t, q)
    BY <2>1, IdleFields DEF HasTaken, PastDocument, At, Outcome
  <2>4. \A u \in Transaction \ {t} : transaction'[u] = transaction[u]
    BY <1>1 DEF Begin, BeginCreate, BeginConfirm, BeginResult, TInv, TypeOK
  <2> QED BY <2>1, <2>2, <2>3, <2>4 DEF GoesOn
<1>2. ASSUME NEW t \in Transaction, InsertRows(t) PROVE GoesOn(t) \/ Ends(t)
  <2>1. transaction[t].kind = "confirm" /\ transaction[t].step = "insert rows"
    BY <1>2 DEF InsertRows, At
  <2>2. CASE run[transaction[t].version] # "none"
    BY <1>2, <2>2 DEF InsertRows, Rollback, Ends
  <2>3. CASE run[transaction[t].version] = "none"
    <3>1. Goto(t, "append") /\ "append" \in Step /\ UNCHANGED locks
      BY <1>2, <2>3 DEF InsertRows, Step
    <3>2. /\ transaction'[t].kind = "confirm" /\ transaction'[t].step = "append"
          /\ transaction'[t].version = transaction[t].version
          /\ transaction'[t].sequence = transaction[t].sequence
          /\ \A u \in Transaction \ {t} : transaction'[u] = transaction[u]
      BY <2>1, <3>1, GotoFields DEF TInv
    <3>3. Needed(t) = {}
      BY <2>1 DEF Needed
    <3>4. \A q \in Resource : HasTaken(t, q) => HasTaken(t, q)'
      BY <2>1, <3>2 DEF HasTaken, PastDocument, At, Outcome, RunRow, VersionRow, Row
    <3> QED BY <3>1, <3>2, <3>3, <3>4 DEF GoesOn
  <2> QED BY <2>2, <2>3
<1>3. ASSUME NEW t \in Transaction, Commit(t) \/ NoNumberLeft(t) \/ BreakDeadlock(t) \/ Disconnect(t)
      PROVE  Ends(t)
  BY <1>3 DEF Ends, Commit, CommitCreate, CommitConfirm, CommitCompleted, CommitRejected, Committed,
              NoNumberLeft, BreakDeadlock, Disconnect, Rollback
<1> QED BY <1>1, <1>2, <1>3, StatementTakes DEF Next, Progress, Statement

\* The end of a transaction gives its locks to those first in line.
LEMMA GrantedWaits ==
  ASSUME NEW t \in Transaction, NEW r \in Resource, Granted(t, r) # NoTransaction
  PROVE  /\ Granted(t, r) \in Transaction /\ ahead[Granted(t, r)] = {t}
         /\ r \in Needed(Granted(t, r))
<1>1. FirstInLine(t, r) # {}
  BY DEF Granted
<1>2. Granted(t, r) \in FirstInLine(t, r)
  BY <1>1 DEF Granted
<1> QED BY <1>2 DEF FirstInLine

LEMMA NeededOfOthers ==
  ASSUME NEW u, transaction'[u] = transaction[u]
  PROVE  /\ Needed(u)' = Needed(u)
         /\ \A r \in Resource : HasTaken(u, r)' <=> HasTaken(u, r)
BY DEF Needed, HasTaken, PastDocument, At

LEMMA HeldByTakerStep ==
  ASSUME TInv, HeldByTaker, [Next]_vars PROVE HeldByTaker'
<1>0. ASSUME NEW u \in Transaction PROVE u \notin ahead'[u]
  <2>1. u \notin ahead[u] /\ TypeOK
    BY DEF HeldByTaker, TInv
  <2>2. ASSUME NEW t \in Transaction, Queue(t) PROVE u \notin ahead'[u]
    BY <2>1, <2>2 DEF Queue, TypeOK
  <2>3. ASSUME NEW t \in Transaction, Ends(t) PROVE u \notin ahead'[u]
    BY <2>1, <2>3 DEF Ends, Release, LeaveQueues
  <2>4. ASSUME NEW t \in Transaction, TakesNeeded(t) \/ GoesOn(t) PROVE ahead' = ahead
    BY <2>4 DEF TakesNeeded, Obtain, GoesOn, locks
  <2>5. UNCHANGED vars => ahead' = ahead
    BY DEF vars, txnVars, locks
  <2> QED BY <2>1, <2>2, <2>3, <2>4, <2>5, LockSteps
<1> SUFFICES ASSUME NEW u \in Transaction, NEW r \in Resource, holder'[r] = u
             PROVE  HasTaken(u, r)' \/ (r \in Needed(u)' /\ ahead'[u] = {})
  BY <1>0 DEF HeldByTaker
<1>1. /\ u \notin ahead[u]
      /\ holder[r] = u => HasTaken(u, r) \/ (r \in Needed(u) /\ ahead[u] = {})
  BY DEF HeldByTaker
<1>2. TypeOK /\ NoTransaction # u
  BY DEF TInv
<1>3. ASSUME NEW t \in Transaction, Queue(t)
      PROVE  HasTaken(u, r)' \/ (r \in Needed(u)' /\ ahead'[u] = {})
  <2>1. holder' = holder /\ transaction' = transaction
    BY <1>3 DEF Queue
  <2>2. \A q \in Needed(t) : holder[q] # t
    BY <1>3, NeedsOne DEF Queue
  <2>3. u # t => ahead'[u] = ahead[u]
    BY <1>2, <1>3 DEF Queue, TypeOK
  <2> QED BY <1>1, <2>1, <2>2, <2>3, NeededOfOthers
<1>4. ASSUME NEW t \in Transaction, TakesNeeded(t)
      PROVE  HasTaken(u, r)' \/ (r \in Needed(u)' /\ ahead'[u] = {})
  <2> PICK q \in Needed(t) : /\ Obtain(t, q) /\ HasTaken(t, q)'
                             /\ \A p \in Resource : HasTaken(t, p) => HasTaken(t, p)'
                             /\ \A w \in Transaction \ {t} : transaction'[w] = transaction[w]
    BY <1>4 DEF TakesNeeded
  <2>1. q \in Resource /\ holder' = [holder EXCEPT ![q] = t] /\ ahead' = ahead
    BY NeedsOne DEF Obtain
  <2>2. CASE u = t
    <3>1. r = q \/ holder[r] = t
      BY <1>2, <2>1, <2>2 DEF TypeOK
    <3>2. r # q => r \notin Needed(t)
      BY NeedsOne
    <3> QED BY <1>1, <2>2, <3>1, <3>2
  <2>3. CASE u # t
    <3>1. holder[r] = u
      BY <1>2, <2>1, <2>3 DEF TypeOK
    <3> QED BY <1>1, <2>1, <2>3, <3>1, NeededOfOthers
  <2> QED BY <2>2, <2>3
<1>5. ASSUME NEW t \in Transaction, GoesOn(t)
      PROVE  HasTaken(u, r)' \/ (r \in Needed(u)' /\ ahead'[u] = {})
  BY <1>1, <1>5, NeededOfOthers DEF GoesOn, locks
<1>6. ASSUME NEW t \in Transaction, Ends(t)
      PROVE  HasTaken(u, r)' \/ (r \in Needed(u)' /\ ahead'[u] = {})
  <2>1. /\ ahead' = [w \in Transaction |-> IF w = t THEN {} ELSE ahead[w] \ {t}]
        /\ holder'[r] = IF holder[r] = t THEN Granted(t, r) ELSE holder[r]
    BY <1>6 DEF Ends, Release, LeaveQueues
  <2>2. u # t => Needed(u)' = Needed(u) /\ (HasTaken(u, r)' <=> HasTaken(u, r))
    BY <1>2, <1>6, NeededOfOthers DEF Ends, TypeOK
  <2>3. CASE holder[r] = t
    <3>1. ahead[u] = {t} /\ r \in Needed(u)
      BY <1>2, <2>1, <2>3, GrantedWaits
    <3>2. CASE u # t
      BY <2>1, <2>2, <3>1, <3>2
    <3>3. CASE u = t
      BY <1>1, <2>3, <3>1, <3>3
    <3> QED BY <3>2, <3>3
  <2>4. CASE holder[r] # t
    BY <1>1, <2>1, <2>2, <2>4
  <2> QED BY <2>3, <2>4
<1>7. CASE UNCHANGED vars
  <2>1. UNCHANGED <<holder, ahead, transaction>>
    BY <1>7 DEF vars, txnVars, locks
  <2> QED BY <1>1, <2>1, NeededOfOthers
<1> QED BY <1>3, <1>4, <1>5, <1>6, <1>7, LockSteps

LEMMA InitHeldByTaker == Init => HeldByTaker
BY DEF Init, HeldByTaker

LEMMA TakersHold == Spec => [](TInv /\ HeldByTaker)
<1>1. TInv /\ HeldByTaker /\ [Next]_vars => HeldByTaker'
  BY HeldByTakerStep
<1> QED BY <1>1, InitHeldByTaker, ReadIsStillSo, PTL DEF Spec

\* What waits for a lock another waits with: that one took the lock before it
\* went to wait, and is at a step that tells which.
LEMMA WaitsForTaker ==
  ASSUME TInv, HeldByTaker, NEW s \in Transaction, NEW u \in Transaction,
         WaitsFor(s, u), ahead[u] # {}
  PROVE  \E r \in Needed(s) : r \in Resource /\ holder[r] = u /\ HasTaken(u, r)
BY NeedsOne DEF WaitsFor, HeldByTaker

\* Where a transaction that waits is.
LEMMA WaitingSteps ==
  ASSUME TInv, NEW t \in Transaction, NEW u \in Transaction, WaitsFor(t, u)
  PROVE  LET x == transaction[t] IN
         \/ x.kind = "create" /\ x.step \in {"lock document", "append"}
         \/ x.kind = "confirm" /\ x.step \in {"save version", "save status", "append"}
         \/ x.kind \in Outcome /\ x.step \in {"save run", "append", "save version", "lock document"}
<1>1. WellFormed(t) /\ Needed(t) # {}
  BY DEF TInv, WaitsFor
<1>2. transaction[t].step \in {"lock document", "save status", "append", "save version", "save run"}
  BY <1>1 DEF Needed
<1> QED BY <1>1, <1>2, IdleFields DEF WellFormed

\* A waiting transaction that has the document waits for the trail, and is no
\* result: a result takes the document last.
LEMMA DocumentHolder ==
  ASSUME TInv, HeldByTaker, NEW s \in Transaction, NEW u \in Transaction, NEW z \in Transaction,
         WaitsFor(s, u), WaitsFor(u, z), DocumentRow \in Needed(s)
  PROVE  /\ transaction[u].kind \in {"create", "confirm"} /\ transaction[u].step = "append"
         /\ holder[DocumentRow] = u
<1>1. holder[DocumentRow] = u /\ HasTaken(u, DocumentRow)
  BY WaitsForTaker, NeedsOne DEF WaitsFor
<1>2. PastDocument(u)
  BY <1>1, ResourcesDiffer DEF HasTaken
<1> QED BY <1>1, <1>2, WaitingSteps DEF PastDocument, At, Outcome

\* A waiting transaction that has the trail is a result, and waits for the
\* version or the document: the others take the trail last.
LEMMA TrailHolder ==
  ASSUME TInv, HeldByTaker, NEW s \in Transaction, NEW u \in Transaction, NEW z \in Transaction,
         WaitsFor(s, u), WaitsFor(u, z), Trail \in Needed(s)
  PROVE  /\ transaction[u].kind \in Outcome
         /\ transaction[u].step \in {"save version", "lock document"}
         /\ holder[Trail] = u
<1>1. holder[Trail] = u /\ HasTaken(u, Trail)
  BY WaitsForTaker, NeedsOne DEF WaitsFor
<1>2. transaction[u].sequence # 0
  BY <1>1, ResourcesDiffer DEF HasTaken
<1>3. WellFormed(u) /\ transaction[u] # Idle
  BY <1>2, IdleFields DEF TInv
<1>4. transaction[u].step # "commit"
  BY WaitingSteps DEF Outcome
<1>5. transaction[u].kind \in Outcome /\ transaction[u].step \notin {"save run", "append"}
  BY <1>2, <1>3, <1>4 DEF WellFormed, Outcome
<1> QED BY <1>1, <1>5, WaitingSteps DEF Outcome

\* A waiting transaction that has a run has it for a result that waits for more.
LEMMA RunHolder ==
  ASSUME TInv, HeldByTaker, NEW s \in Transaction, NEW u \in Transaction, NEW z \in Transaction,
         WaitsFor(s, u), WaitsFor(u, z), transaction[s].step = "save run"
  PROVE  transaction[u].step \in {"append", "save version", "lock document"}
<1>1. HasTaken(u, RunRow(transaction[s].version))
  <2>1. Needed(s) = {RunRow(transaction[s].version)}
    BY DEF Needed
  <2>2. PICK r \in Needed(s) : HasTaken(u, r)
    BY WaitsForTaker DEF WaitsFor
  <2> QED BY <2>1, <2>2
<1>2. transaction[u].kind \in Outcome /\ transaction[u].step # "save run"
  BY <1>1, ResourcesDiffer DEF HasTaken
<1> QED BY <1>2, WaitingSteps DEF Outcome

\* A waiting transaction that has a version waits for the document or, being a
\* confirmation, has that too and waits for the trail.
LEMMA VersionHolder ==
  ASSUME TInv, HeldByTaker, NEW s \in Transaction, NEW u \in Transaction, NEW z \in Transaction,
         WaitsFor(s, u), WaitsFor(u, z), transaction[s].step = "save version"
  PROVE  \/ transaction[u].step \in {"save status", "lock document"}
         \/ At(u, {"create", "confirm"}, "append") /\ holder[DocumentRow] = u
<1>1. HasTaken(u, VersionRow(transaction[s].version))
  <2>1. Needed(s) = {VersionRow(transaction[s].version)}
    BY DEF Needed
  <2>2. PICK r \in Needed(s) : HasTaken(u, r)
    BY WaitsForTaker DEF WaitsFor
  <2> QED BY <2>1, <2>2
<1>2. \/ transaction[u].kind = "confirm" /\ transaction[u].step # "save version"
      \/ transaction[u].kind \in Outcome /\ transaction[u].step \in {"lock document", "commit"}
  BY <1>1, ResourcesDiffer DEF HasTaken
<1>3. At(u, {"confirm"}, "append") => holder[DocumentRow] = u
  BY DEF TInv, Locked, PastDocument
<1> QED BY <1>2, <1>3, WaitingSteps DEF At, Outcome

\* However many transactions wait for each other, the document and the trail are
\* among what they wait for: a deadlock takes a result, which has the trail, and a
\* creation or a confirmation, which has the document and waits for that result.
\* (audit.append is the last statement of create and confirm and the second of
\* persistCompletion; all other locks are taken in one order.)
THEOREM OnlyResultsDeadlock == Spec => []DeadlockIsOverTheTrail
<1>1. ASSUME TInv, HeldByTaker PROVE DeadlockIsOverTheTrail
  <2> SUFFICES ASSUME NEW cycle \in SUBSET Transaction, cycle # {}, Cycle(cycle)
               PROVE  \E s, u \in cycle :
                        /\ transaction[s].kind \in Outcome /\ holder[Trail] = s
                        /\ transaction[u].kind \in {"create", "confirm"} /\ holder[DocumentRow] = u
                        /\ WaitsFor(u, s)
    BY DEF DeadlockIsOverTheTrail
  <2>1. \A s \in cycle : s \in Transaction /\ \E u \in cycle : WaitsFor(s, u)
    BY DEF Cycle
  <2>2. \A s \in cycle : transaction[s].step \in {"save run", "append", "save version",
                                                 "save status", "lock document"}
    BY <2>1, <1>1, WaitingSteps
  <2> DEFINE Mixed == \E s, u \in cycle :
                        /\ transaction[s].kind \in Outcome /\ holder[Trail] = s
                        /\ transaction[u].kind \in {"create", "confirm"} /\ holder[DocumentRow] = u
                        /\ WaitsFor(u, s)
  <2>3. ASSUME NEW u \in cycle, At(u, {"create", "confirm"}, "append"), holder[DocumentRow] = u
        PROVE  Mixed
    <3>1. PICK s \in cycle : WaitsFor(u, s)
      BY <2>1
    <3>2. PICK z \in cycle : WaitsFor(s, z)
      BY <2>1
    <3>3. Trail \in Needed(u)
      BY <2>3 DEF Needed, At
    <3>4. transaction[s].kind \in Outcome /\ holder[Trail] = s
      BY <1>1, <2>1, <3>1, <3>2, <3>3, TrailHolder
    <3> QED BY <2>3, <3>1, <3>4 DEF At
  <2>4. ASSUME NEW d \in cycle, transaction[d].step \in {"save status", "lock document"}
        PROVE  Mixed
    <3>1. PICK u \in cycle : WaitsFor(d, u)
      BY <2>1
    <3>2. PICK z \in cycle : WaitsFor(u, z)
      BY <2>1
    <3>3. DocumentRow \in Needed(d)
      BY <2>4 DEF Needed
    <3>4. At(u, {"create", "confirm"}, "append") /\ holder[DocumentRow] = u
      BY <1>1, <2>1, <3>1, <3>2, <3>3, DocumentHolder DEF At
    <3> QED BY <2>3, <3>4
  <2>5. ASSUME NEW v \in cycle, transaction[v].step = "save version" PROVE Mixed
    <3>1. PICK u \in cycle : WaitsFor(v, u)
      BY <2>1
    <3>2. PICK z \in cycle : WaitsFor(u, z)
      BY <2>1
    <3>3. \/ transaction[u].step \in {"save status", "lock document"}
          \/ At(u, {"create", "confirm"}, "append") /\ holder[DocumentRow] = u
      BY <1>1, <2>1, <2>5, <3>1, <3>2, VersionHolder
    <3> QED BY <2>3, <2>4, <3>3
  <2>6. ASSUME NEW a \in cycle, transaction[a].step = "append" PROVE Mixed
    <3>1. PICK s \in cycle : WaitsFor(a, s)
      BY <2>1
    <3>2. PICK z \in cycle : WaitsFor(s, z)
      BY <2>1
    <3>3. Trail \in Needed(a)
      BY <2>6 DEF Needed
    <3>4. transaction[s].step \in {"save version", "lock document"}
      BY <1>1, <2>1, <3>1, <3>2, <3>3, TrailHolder
    <3> QED BY <2>4, <2>5, <3>4
  <2>7. ASSUME NEW r \in cycle, transaction[r].step = "save run" PROVE Mixed
    <3>1. PICK s \in cycle : WaitsFor(r, s)
      BY <2>1
    <3>2. PICK z \in cycle : WaitsFor(s, z)
      BY <2>1
    <3>3. transaction[s].step \in {"append", "save version", "lock document"}
      BY <1>1, <2>1, <2>7, <3>1, <3>2, RunHolder
    <3> QED BY <2>4, <2>5, <2>6, <3>3
  <2> QED BY <2>2, <2>4, <2>5, <2>6, <2>7
<1> QED BY <1>1, TakersHold, PTL
-----------------------------------------------------------------------------
(* The queues.                                                             *)

Waits(t, r) == ahead[t] # {} /\ r \in Needed(t)

\* Who waits for a lock is behind the one that has it, and of two that wait for
\* one lock each knows whether it is behind the other, and behind whom.
Queued ==
  /\ \A t \in Transaction : ahead[t] # {} => Needed(t) # {}
  /\ \A t \in Transaction : \A r \in Resource : Waits(t, r) =>
       /\ holder[r] \in ahead[t]
       /\ \A u \in ahead[t] : u = holder[r] \/ (Waits(u, r) /\ ahead[u] \subseteq ahead[t])
       /\ \A u \in Transaction \ {t} : Waits(u, r) => u \in ahead[t] \/ t \in ahead[u]

\* Where connections are finitely many, one of those that wait is the first.
LEMMA SomebodyIsFirst ==
  ASSUME IsFiniteSet(Transaction), TInv, HeldByTaker, Queued,
         NEW t \in Transaction, NEW r \in Resource, holder[r] = t,
         NEW x \in Transaction, Waits(x, r)
  PROVE  FirstInLine(t, r) # {}
<1> DEFINE W == {u \in Transaction : Waits(u, r)}
           A == {ahead[u] : u \in W}
<1>1. A \subseteq SUBSET Transaction /\ A # {}
  BY DEF TInv, TypeOK
<1>2. PICK a \in A : \A b \in A : ~(<<b, a>> \in StrictSubsetOrdering(Transaction))
  <2>1. IsWellFoundedOn(StrictSubsetOrdering(Transaction), SUBSET Transaction)
    BY FS_StrictSubsetOrderingWellFounded, FS_FiniteSubsetsOfFinite
  <2> HIDE DEF A
  <2> QED BY <1>1, <2>1, WFMin
<1>3. PICK w \in W : a = ahead[w]
  OBVIOUS
<1>4. w \in Transaction /\ Waits(w, r)
  OBVIOUS
<1>5. \A u \in ahead[w] : u = t
  <2> SUFFICES ASSUME NEW u \in ahead[w], u # t PROVE FALSE
    OBVIOUS
  <2>1. u \in Transaction /\ Waits(u, r) /\ ahead[u] \subseteq ahead[w]
    BY <1>4 DEF Queued, TInv, TypeOK
  <2>2. u \notin ahead[u]
    BY <2>1 DEF HeldByTaker
  <2>3. ahead[u] \in A /\ ahead[u] \in SUBSET Transaction /\ ahead[w] \in SUBSET Transaction
    BY <1>4, <2>1 DEF TInv, TypeOK
  <2>4. <<ahead[u], ahead[w]>> \in StrictSubsetOrdering(Transaction)
    BY <2>1, <2>2, <2>3 DEF StrictSubsetOrdering
  <2> QED BY <1>2, <1>3, <2>3, <2>4
<1>6. ahead[w] = {t}
  BY <1>4, <1>5 DEF Queued
<1> QED BY <1>4, <1>6 DEF FirstInLine, Waits

\* A transaction takes a lock only when it does not wait.
LEMMA TakerDoesNotWait ==
  ASSUME TInv, HeldByTaker, Queued, NEW t \in Transaction, NEW r \in Needed(t), Obtain(t, r)
  PROVE  ahead[t] = {}
<1>1. r \in Resource
  BY NeedsOne
<1>2. ahead[t] # {} => holder[r] \in Transaction /\ holder[r] # t
  BY <1>1 DEF Queued, Waits, HeldByTaker, TInv, TypeOK
<1> QED BY <1>2 DEF Obtain

LEMMA QueueKeepsQueued ==
  ASSUME TInv, HeldByTaker, Queued, NEW t \in Transaction, Queue(t) PROVE Queued'
<1>1. PICK q \in Needed(t) :
        /\ ahead[t] = {} /\ holder[q] \notin {NoTransaction, t}
        /\ ahead' = [ahead EXCEPT ![t] =
             {holder[q]} \cup {u \in Transaction : ahead[u] # {} /\ q \in Needed(u)}]
        /\ UNCHANGED <<holder, transaction>>
  BY DEF Queue
<1>2. /\ q \in Resource /\ Needed(t) = {q}
      /\ ahead'[t] = {holder[q]} \cup {u \in Transaction : Waits(u, q)}
      /\ \A u \in Transaction \ {t} : ahead'[u] = ahead[u]
  BY <1>1, NeedsOne DEF TInv, TypeOK, Waits
<1>3. \A u \in Transaction : Needed(u)' = Needed(u)
  BY <1>1, NeededOfOthers
<1>4. \A u \in Transaction \ {t}, r \in Resource : Waits(u, r)' <=> Waits(u, r)
  BY <1>2, <1>3 DEF Waits
<1>5. \A r \in Resource : Waits(t, r)' <=> r = q
  BY <1>1, <1>2, <1>3 DEF Waits
<1>6. \A r \in Resource : ~Waits(t, r)
  BY <1>1 DEF Waits
<1>7. \A u \in Transaction : ahead'[u] # {} => Needed(u)' # {}
  BY <1>1, <1>2, <1>3 DEF Queued
<1>8. ASSUME NEW r \in Resource, Waits(t, r)'
      PROVE  /\ holder'[r] \in ahead'[t]
             /\ \A u \in ahead'[t] : u = holder'[r] \/ (Waits(u, r)' /\ ahead'[u] \subseteq ahead'[t])
             /\ \A u \in Transaction \ {t} : Waits(u, r)' => u \in ahead'[t] \/ t \in ahead'[u]
  <2>1. r = q /\ holder' = holder
    BY <1>1, <1>5, <1>8
  <2>2. ASSUME NEW u \in Transaction, Waits(u, q) PROVE u # t /\ Waits(u, q)' /\ ahead'[u] \subseteq ahead'[t]
    <3>1. u # t /\ Waits(u, q)' /\ ahead'[u] = ahead[u]
      BY <1>2, <1>4, <1>6, <2>2
    <3>2. \A w \in ahead[u] : w \in Transaction /\ (w = holder[q] \/ Waits(w, q))
      BY <1>2, <2>2 DEF Queued, TInv, TypeOK
    <3> QED BY <1>2, <3>1, <3>2
  <2> QED BY <1>2, <1>4, <2>1, <2>2
<1>9. ASSUME NEW x \in Transaction \ {t}, NEW r \in Resource, Waits(x, r)'
      PROVE  /\ holder'[r] \in ahead'[x]
             /\ \A u \in ahead'[x] : u = holder'[r] \/ (Waits(u, r)' /\ ahead'[u] \subseteq ahead'[x])
             /\ \A u \in Transaction \ {x} : Waits(u, r)' => u \in ahead'[x] \/ x \in ahead'[u]
  <2>1. /\ Waits(x, r) /\ ahead'[x] = ahead[x] /\ holder' = holder
        /\ ahead[x] \subseteq Transaction
    BY <1>1, <1>2, <1>4, <1>9 DEF TInv, TypeOK
  <2>2. \A u \in ahead[x] : u = holder[r] \/ (u # t /\ Waits(u, r) /\ ahead[u] \subseteq ahead[x])
    BY <1>6, <2>1 DEF Queued
  <2>3. ASSUME NEW u \in Transaction \ {x}, Waits(u, r)' PROVE u \in ahead'[x] \/ x \in ahead'[u]
    <3>1. CASE u = t
      BY <1>2, <1>5, <2>1, <2>3, <3>1
    <3>2. CASE u # t
      BY <1>2, <1>4, <2>1, <2>3, <3>2 DEF Queued
    <3> QED BY <3>1, <3>2
  <2>4. holder[r] \in ahead[x]
    BY <2>1 DEF Queued
  <2> QED BY <1>2, <1>4, <2>1, <2>2, <2>3, <2>4
<1> QED BY <1>7, <1>8, <1>9 DEF Queued

\* Nobody that waits for a lock is touched by who takes a free one.
LEMMA TakeKeepsQueued ==
  ASSUME TInv, HeldByTaker, Queued, NEW t \in Transaction, TakesNeeded(t) \/ GoesOn(t)
  PROVE  Queued'
<1>1. /\ ahead' = ahead /\ ahead[t] = {}
      /\ \A u \in Transaction \ {t} : transaction'[u] = transaction[u]
  <2>1. CASE TakesNeeded(t)
    BY <2>1, TakerDoesNotWait DEF TakesNeeded, Obtain
  <2>2. CASE GoesOn(t)
    BY <2>2 DEF GoesOn, locks, Queued
  <2> QED BY <2>1, <2>2
<1>2. \A r \in Resource : holder[r] \in Transaction => holder'[r] = holder[r]
  BY DEF TakesNeeded, Obtain, GoesOn, locks, TInv, TypeOK
<1>3. \A u \in Transaction : ahead[u] # {} => Needed(u)' = Needed(u)
  BY <1>1, NeededOfOthers
<1>4. \A u \in Transaction, r \in Resource : Waits(u, r)' <=> Waits(u, r)
  BY <1>1, <1>3 DEF Waits
<1>5. \A u \in Transaction, r \in Resource : Waits(u, r) => holder'[r] = holder[r]
  BY <1>2 DEF Queued, TInv, TypeOK
<1>6. \A u \in Transaction : ahead[u] \subseteq Transaction
  BY DEF TInv, TypeOK
<1> QED BY <1>1, <1>3, <1>4, <1>5, <1>6 DEF Queued

\* A lock that is given back goes to the first, whom all others are behind.
LEMMA EndKeepsQueued ==
  ASSUME IsFiniteSet(Transaction), TInv, HeldByTaker, Queued, NEW t \in Transaction, Ends(t)
  PROVE  Queued'
<1>1. /\ \A u \in Transaction : ahead'[u] = IF u = t THEN {} ELSE ahead[u] \ {t}
      /\ \A r \in Resource : holder'[r] = IF holder[r] = t THEN Granted(t, r) ELSE holder[r]
      /\ \A u \in Transaction \ {t} : Needed(u)' = Needed(u)
      /\ \A u \in Transaction : ahead[u] \subseteq Transaction
  BY NeededOfOthers DEF Ends, Release, LeaveQueues, TInv, TypeOK
<1>2. \A u \in Transaction, r \in Resource : Waits(u, r)' => u # t /\ Waits(u, r)
  BY <1>1 DEF Waits
<1>3. \A u \in Transaction : ahead'[u] # {} => Needed(u)' # {}
  BY <1>1 DEF Queued
<1>4. ASSUME NEW x \in Transaction, NEW r \in Resource, Waits(x, r)'
      PROVE  /\ holder'[r] \in ahead'[x]
             /\ \A u \in ahead'[x] : u = holder'[r] \/ (Waits(u, r)' /\ ahead'[u] \subseteq ahead'[x])
             /\ \A u \in Transaction \ {x} : Waits(u, r)' => u \in ahead'[x] \/ x \in ahead'[u]
  <2>1. x # t /\ Waits(x, r) /\ ahead'[x] = ahead[x] \ {t} /\ ahead'[x] # {}
    BY <1>1, <1>2, <1>4 DEF Waits
  <2>2. ASSUME NEW u \in Transaction \ {x}, Waits(u, r)' PROVE u \in ahead'[x] \/ x \in ahead'[u]
    <3>1. u # t /\ Waits(u, r)
      BY <1>2, <2>2
    <3>2. u \in ahead[x] \/ x \in ahead[u]
      BY <2>1, <3>1 DEF Queued
    <3> QED BY <1>1, <2>1, <3>1, <3>2
  <2>3. CASE holder[r] = t
    <3> DEFINE g == Granted(t, r)
    <3>1. FirstInLine(t, r) # {}
      BY <2>1, <2>3, SomebodyIsFirst
    <3>2. g \in Transaction /\ ahead[g] = {t} /\ Waits(g, r) /\ holder'[r] = g
      <4>1. g \in FirstInLine(t, r)
        BY <3>1 DEF Granted
      <4> QED BY <1>1, <2>3, <4>1 DEF FirstInLine, Waits
    <3> HIDE DEF g
    <3>3. g # t /\ g # x
      BY <2>1, <3>2 DEF HeldByTaker
    <3>4. g \in ahead[x]
      BY <2>1, <3>2, <3>3 DEF Queued
    <3>5. ASSUME NEW u \in ahead'[x], u # g PROVE Waits(u, r)' /\ ahead'[u] \subseteq ahead'[x]
      <4>1. u \in Transaction /\ u # t /\ Waits(u, r) /\ ahead[u] \subseteq ahead[x]
        BY <1>1, <2>1, <2>3 DEF Queued
      <4>2. g \in ahead[u]
        BY <3>2, <3>5, <4>1 DEF Queued
      <4>3. ahead'[u] = ahead[u] \ {t} /\ g \in ahead'[u] /\ Needed(u)' = Needed(u)
        BY <1>1, <3>3, <4>1, <4>2
      <4> QED BY <2>1, <4>1, <4>3 DEF Waits
    <3> QED BY <2>1, <2>2, <3>2, <3>3, <3>4, <3>5
  <2>4. CASE holder[r] # t
    <3>1. holder'[r] = holder[r] /\ holder[r] \in ahead'[x]
      BY <1>1, <2>1, <2>4 DEF Queued
    <3>2. ASSUME NEW u \in ahead'[x], u # holder[r] PROVE Waits(u, r)' /\ ahead'[u] \subseteq ahead'[x]
      <4>1. u \in Transaction /\ u # t /\ Waits(u, r) /\ ahead[u] \subseteq ahead[x]
        BY <1>1, <2>1, <3>2 DEF Queued
      <4>2. holder[r] \in ahead[u]
        BY <4>1 DEF Queued
      <4>3. ahead'[u] = ahead[u] \ {t} /\ holder[r] \in ahead'[u] /\ Needed(u)' = Needed(u)
        BY <1>1, <2>4, <4>1, <4>2
      <4> QED BY <2>1, <4>1, <4>3 DEF Waits
    <3> QED BY <2>2, <3>1, <3>2
  <2> QED BY <2>3, <2>4
<1> QED BY <1>3, <1>4 DEF Queued

LEMMA QueuedStep ==
  ASSUME IsFiniteSet(Transaction), TInv, HeldByTaker, Queued, [Next]_vars PROVE Queued'
<1>1. CASE UNCHANGED vars
  <2>1. UNCHANGED <<holder, ahead, transaction>>
    BY <1>1 DEF vars, txnVars, locks
  <2>2. \A u \in Transaction : Needed(u)' = Needed(u)
    BY <2>1, NeededOfOthers
  <2>3. \A u \in Transaction, r \in Resource : Waits(u, r)' <=> Waits(u, r)
    BY <2>1, <2>2 DEF Waits
  <2>4. \A u \in Transaction : ahead[u] \subseteq Transaction
    BY DEF TInv, TypeOK
  <2> QED BY <2>1, <2>2, <2>3, <2>4 DEF Queued
<1> QED BY <1>1, LockSteps, QueueKeepsQueued, TakeKeepsQueued, EndKeepsQueued

\* A transaction that waits has somebody to wait for: another connection that is
\* before it, has the lock that it needs and is in a transaction of its own.  What
\* the end of every transaction (EveryTransactionEnds) rests on.
WaitersAreServed ==
  \A t \in Transaction : ahead[t] # {} =>
    \E r \in Needed(t) : \E u \in ahead[t] :
      u # t /\ holder[r] = u /\ transaction[u] # Idle

\* No lock is free while somebody waits for it, and none stays with a connection
\* whose transaction is over: locks are given back together, each to the first
\* in its queue, however many transactions end, deadlock or are lost.
THEOREM NoWakeUpIsLost == ASSUME IsFiniteSet(Transaction) PROVE Spec => []WaitersAreServed
<1>1. Init => Queued
  BY DEF Init, Queued, Waits
<1>2. TInv /\ HeldByTaker /\ Queued /\ [Next]_vars => Queued'
  BY QueuedStep
<1>3. ASSUME TInv, HeldByTaker, Queued PROVE WaitersAreServed
  <2> SUFFICES ASSUME NEW t \in Transaction, ahead[t] # {}
               PROVE  \E r \in Needed(t) : \E u \in ahead[t] :
                        u # t /\ holder[r] = u /\ transaction[u] # Idle
    BY DEF WaitersAreServed
  <2>1. PICK r \in Needed(t) : r \in Resource
    BY <1>3, NeedsOne DEF Queued
  <2>2. holder[r] \in ahead[t] /\ holder[r] \in Transaction /\ holder[r] # t
    BY <1>3, <2>1 DEF Queued, Waits, HeldByTaker, TInv, TypeOK
  <2>3. transaction[holder[r]] = Idle => ~HasTaken(holder[r], r) /\ Needed(holder[r]) = {}
    BY IdleFields DEF HasTaken, PastDocument, At, Outcome, Needed
  <2>4. transaction[holder[r]] # Idle
    BY <1>3, <2>1, <2>2, <2>3 DEF HeldByTaker
  <2> QED BY <2>1, <2>2, <2>4
<1> QED BY <1>1, <1>2, <1>3, TakersHold, PTL DEF Spec
=============================================================================
