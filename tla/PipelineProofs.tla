---------------------------- MODULE PipelineProofs -----------------------------
(***************************************************************************)
(* The safety of WorkerPipeline for any number of versions, slots,         *)
(* attempts and failures, any texts and any suggestions.                   *)
(***************************************************************************)
EXTENDS WorkerPipeline, SequenceTheorems, WellFoundedInduction, TLAPS

Passed(v) == defect[v] \in {"none", "unreadable"}

\* What the step a slot has reached says of its document and of the storage.
\* An attempt that lost its lock is included: it goes on writing.
SlotInv(w) ==
  LET step == work[w].step
      v == work[w].version
  IN /\ step # "idle" => v \in Version
     /\ step \in {"scan", "promote", "extract", "write", "return"} => defect[v] # "corrupt"
     /\ step \in {"promote", "extract", "write", "return"} => Passed(v)
     /\ step \in {"extract", "write", "return"} => v \in clean
     /\ step = "return" => v \in DOMAIN artifact

StorageInv ==
  /\ clean \subseteq {v \in Version : Passed(v)}
  /\ readable \subseteq clean
  /\ \A v \in Version : job[v] = "completed" => v \in clean /\ v \in DOMAIN artifact

PipelineInv ==
  /\ job \in [Version -> JobState]
  /\ defect \in [Version -> DefectKind]
  /\ work = [w \in Worker |-> work[w]]
  /\ \A w \in Worker : SlotInv(w)
  /\ StorageInv

\* The storage only grows, so what a slot knows of it stays true.
LEMMA SlotKept ==
  ASSUME NEW w \in Worker, SlotInv(w), UNCHANGED defect, work'[w] = work[w],
         clean \subseteq clean', DOMAIN artifact \subseteq DOMAIN artifact'
  PROVE  SlotInv(w)'
  BY DEF SlotInv, Passed

\* A slot that ended its attempt claims nothing.
LEMMA SlotIdle ==
  ASSUME NEW w \in Worker, work'[w] = IdleWorker
  PROVE  SlotInv(w)'
  BY DEF SlotInv, IdleWorker, Attempt

\* What one slot may do to the queue, by the way its attempt ends.
LEMMA RaiseStep ==
  ASSUME PipelineInv, NEW w \in Worker, work[w].step # "idle", Raise(w)
  PROVE  PipelineInv'
<1> DEFINE v == work[w].version
<1>1. v \in Version
  BY DEF PipelineInv, SlotInv
<1>2. /\ job' \in [Version -> JobState]
      /\ \A u \in Version : job'[u] = "completed" => job[u] = "completed"
  BY <1>1 DEF PipelineInv, Raise, FailAttempt, queueVars, JobState
<1>3. UNCHANGED <<defect, clean, artifact, readable>>
  BY DEF Raise, document, storeVars, apiVars
<1>4. /\ work' = [x \in Worker |-> work'[x]]
      /\ work'[w] = IdleWorker
      /\ \A x \in Worker \ {w} : work'[x] = work[x]
  BY DEF PipelineInv, Raise
<1>5. \A x \in Worker : SlotInv(x)'
  BY <1>3, <1>4, SlotKept, SlotIdle DEF PipelineInv
<1>6. StorageInv'
  BY <1>2, <1>3 DEF PipelineInv, StorageInv, Passed
<1> QED
  BY <1>2, <1>3, <1>4, <1>5, <1>6 DEF PipelineInv

\* A slot that goes on to its next step, if what that step claims holds.
LEMMA AdvanceStep ==
  ASSUME PipelineInv, NEW w \in Worker, NEW a, work' = [work EXCEPT ![w] = a],
         UNCHANGED <<job, defect, readable>>,
         clean \subseteq clean', DOMAIN artifact \subseteq DOMAIN artifact',
         clean' \subseteq {v \in Version : Passed(v)}, SlotInv(w)'
  PROVE  PipelineInv'
<1>1. /\ work' = [x \in Worker |-> work'[x]]
      /\ \A x \in Worker \ {w} : work'[x] = work[x]
  BY DEF PipelineInv
<1>2. \A x \in Worker : SlotInv(x)'
  BY <1>1, SlotKept DEF PipelineInv
<1>3. StorageInv'
  BY DEF PipelineInv, StorageInv, Passed
<1> QED
  BY <1>1, <1>2, <1>3 DEF PipelineInv

\* A step that leaves every slot and the storage alone and completes no job.
LEMMA QueueStep ==
  ASSUME PipelineInv, UNCHANGED <<defect, work, clean, artifact, readable>>,
         job' \in [Version -> JobState],
         \A v \in Version : job'[v] = "completed" => job[v] = "completed"
  PROVE  PipelineInv'
<1>1. \A w \in Worker : SlotInv(w)'
  BY SlotKept DEF PipelineInv
<1>2. StorageInv'
  BY DEF PipelineInv, StorageInv, Passed
<1> QED
  BY <1>1, <1>2 DEF PipelineInv

-----------------------------------------------------------------------------
\* PipelineInv is inductive: one step for each action.
LEMMA PipelineInvStep == PipelineInv /\ [Next]_vars => PipelineInv'
<1> SUFFICES ASSUME PipelineInv, [Next]_vars PROVE PipelineInv'
  OBVIOUS
<1>1. ASSUME NEW w \in Worker, Take(w) PROVE PipelineInv'
  <2>1. PICK v \in Version : TakeJob(v) /\ work' = [work EXCEPT ![w] = Attempt("load", v, <<>>)]
    BY <1>1 DEF Take
  <2>2. /\ job' \in [Version -> JobState]
        /\ \A u \in Version : job'[u] = "completed" => job[u] = "completed"
    BY <2>1 DEF TakeJob, PipelineInv, JobState
  <2>3. UNCHANGED <<defect, clean, artifact, readable>>
    BY <1>1 DEF Take, document, storeVars, apiVars
  <2>4. /\ work' = [x \in Worker |-> work'[x]]
        /\ work'[w] = Attempt("load", v, <<>>)
        /\ \A x \in Worker \ {w} : work'[x] = work[x]
    BY <2>1 DEF PipelineInv
  <2>5. SlotInv(w)'
    BY <2>4 DEF SlotInv, Attempt
  <2>6. \A x \in Worker : SlotInv(x)'
    BY <2>3, <2>4, <2>5, SlotKept DEF PipelineInv
  <2>7. StorageInv'
    BY <2>2, <2>3 DEF PipelineInv, StorageInv, Passed
  <2> QED
    BY <2>2, <2>3, <2>4, <2>6, <2>7 DEF PipelineInv
<1>2. ASSUME NEW w \in Worker, Load(w) PROVE PipelineInv'
  <2>1. CASE HashDiffers(defect[work[w].version])
    BY <1>2, <2>1, RaiseStep DEF Load
  <2>2. CASE ~HashDiffers(defect[work[w].version])
    <3>1. /\ work' = [work EXCEPT ![w] = Attempt("scan", work[w].version, work[w].fields)]
          /\ UNCHANGED <<job, defect, readable, clean, artifact>>
          /\ work[w].step = "load"
      BY <1>2, <2>2 DEF Load, Goto, queueVars, document, storeVars, apiVars
    <3>2. SlotInv(w)'
      BY <2>2, <3>1 DEF PipelineInv, SlotInv, Attempt, HashDiffers
    <3> QED
      BY <3>1, <3>2, AdvanceStep DEF PipelineInv, StorageInv
  <2> QED
    BY <2>1, <2>2
<1>3. ASSUME NEW w \in Worker, Scan(w) PROVE PipelineInv'
  <2> DEFINE d == defect[work[w].version]
  <2>1. CASE SignatureRefused(d)
    BY <1>3, <2>1, RaiseStep DEF Scan
  <2>2. CASE ~SignatureRefused(d)
    <3>1. PICK answer \in ScannerAnswers(d) :
            IF ScanPasses(answer) THEN Goto(w, "scan", "promote") /\ UNCHANGED storeVars
                                  ELSE Raise(w)
      BY <1>3, <2>2 DEF Scan
    <3>2. CASE ~ScanPasses(answer)
      BY <1>3, <3>1, <3>2, RaiseStep DEF Scan
    <3>3. CASE ScanPasses(answer)
      <4>1. /\ work' = [work EXCEPT ![w] = Attempt("promote", work[w].version, work[w].fields)]
            /\ UNCHANGED <<job, defect, readable, clean, artifact>>
            /\ work[w].step = "scan"
        BY <3>1, <3>3 DEF Goto, queueVars, document, storeVars, apiVars
      <4>2. d \notin {"malformed", "malware", "corrupt"} /\ work[w].version \in Version
        BY <2>2, <3>3, <4>1 DEF PipelineInv, SlotInv, SignatureRefused, ScannerAnswers, ScanPasses
      <4>3. Passed(work[w].version)
        BY <4>2 DEF PipelineInv, Passed, DefectKind
      <4>4. SlotInv(w)'
        BY <4>1, <4>2, <4>3 DEF PipelineInv, SlotInv, Attempt, Passed
      <4> QED
        BY <4>1, <4>4, AdvanceStep DEF PipelineInv, StorageInv
    <3> QED
      BY <3>2, <3>3
  <2> QED
    BY <2>1, <2>2
<1>4. ASSUME NEW w \in Worker, Promote(w) PROVE PipelineInv'
  <2>1. /\ work' = [work EXCEPT ![w] = Attempt("extract", work[w].version, work[w].fields)]
        /\ UNCHANGED <<job, defect, readable, artifact>>
        /\ work[w].step = "promote"
        /\ clean' = clean \cup {work[w].version}
    BY <1>4 DEF Promote, Goto, queueVars, document, apiVars
  <2>2. SlotInv(w)' /\ clean' \subseteq {v \in Version : Passed(v)}
    BY <2>1 DEF PipelineInv, SlotInv, StorageInv, Attempt, Passed
  <2> QED
    BY <2>1, <2>2, AdvanceStep
<1>5. ASSUME NEW w \in Worker, Extract(w) PROVE PipelineInv'
  <2>1. CASE Raise(w)
    BY <1>5, <2>1, RaiseStep DEF Extract
  <2>2. CASE ~Raise(w)
    <3>1. PICK s \in AnalysisAnswer :
            work' = [work EXCEPT ![w] = Attempt("write", work[w].version,
                       WithSuggestions(LocalFields(text[work[w].version]), s))]
      BY <1>5, <2>2 DEF Extract
    <3>2. UNCHANGED <<job, defect, readable, clean, artifact>> /\ work[w].step = "extract"
      BY <1>5, <2>2 DEF Extract, queueVars, document, storeVars, apiVars
    <3>3. SlotInv(w)'
      BY <3>1, <3>2 DEF PipelineInv, SlotInv, Attempt, Passed
    <3> QED
      BY <3>1, <3>2, <3>3, AdvanceStep DEF PipelineInv, StorageInv
  <2> QED
    BY <2>1, <2>2
<1>6. ASSUME NEW w \in Worker, Write(w) PROVE PipelineInv'
  <2>1. /\ work' = [work EXCEPT ![w] = Attempt("return", work[w].version, work[w].fields)]
        /\ UNCHANGED <<job, defect, readable, clean>>
        /\ work[w].step = "write"
        /\ DOMAIN artifact' = DOMAIN artifact \cup {work[w].version}
    BY <1>6 DEF Write, Goto, PutArtifact, queueVars, document, apiVars
  <2>2. SlotInv(w)'
    BY <2>1 DEF PipelineInv, SlotInv, Attempt, Passed
  <2> QED
    BY <2>1, <2>2, AdvanceStep DEF PipelineInv, StorageInv
<1>7. ASSUME NEW w \in Worker, Return(w) PROVE PipelineInv'
  <2> DEFINE v == work[w].version
  <2>1. v \in Version /\ v \in clean /\ v \in DOMAIN artifact
    BY <1>7 DEF Return, PipelineInv, SlotInv
  <2>2. /\ job' \in [Version -> JobState]
        /\ \A u \in Version : job'[u] = "completed" => job[u] = "completed" \/ u = v
    BY <1>7, <2>1 DEF Return, FinishJob, PipelineInv, queueVars, JobState
  <2>3. UNCHANGED <<defect, clean, artifact, readable>>
    BY <1>7 DEF Return, document, storeVars, apiVars
  <2>4. /\ work' = [x \in Worker |-> work'[x]]
        /\ work'[w] = IdleWorker
        /\ \A x \in Worker \ {w} : work'[x] = work[x]
    BY <1>7 DEF PipelineInv, Return
  <2>5. \A x \in Worker : SlotInv(x)'
    BY <2>3, <2>4, SlotKept, SlotIdle DEF PipelineInv
  <2>6. StorageInv'
    BY <2>1, <2>2, <2>3 DEF PipelineInv, StorageInv, Passed
  <2> QED
    BY <2>2, <2>3, <2>4, <2>5, <2>6 DEF PipelineInv
<1>8. ASSUME NEW w \in Worker, CallFails(w) PROVE PipelineInv'
  BY <1>8, RaiseStep DEF CallFails
<1>9. ASSUME NEW w \in Worker, Dies(w) PROVE PipelineInv'
  <2>1. work' = [work EXCEPT ![w] = IdleWorker]
        /\ UNCHANGED <<job, defect, readable, clean, artifact>>
    BY <1>9 DEF Dies, queueVars, document, storeVars, apiVars
  <2>2. work'[w] = IdleWorker
    BY <2>1 DEF PipelineInv
  <2> QED
    BY <2>1, <2>2, SlotIdle, AdvanceStep DEF PipelineInv, StorageInv
<1>10. ASSUME NEW v \in Version, Stall(v) \/ Retry(v) PROVE PipelineInv'
  <2>1. /\ job' \in [Version -> JobState]
        /\ \A u \in Version : job'[u] = "completed" => job[u] = "completed"
    BY <1>10 DEF Stall, StallJob, Retry, RetryJob, PipelineInv, JobState
  <2>2. UNCHANGED <<defect, work, clean, artifact, readable>>
    BY <1>10 DEF Stall, Retry, document, storeVars, apiVars
  <2> QED
    BY <2>1, <2>2, QueueStep
<1>11. ASSUME NEW v \in Version, Accept(v) PROVE PipelineInv'
  <2>1. UNCHANGED <<defect, work, clean, artifact, job>> /\ readable' = readable \cup {v}
    BY <1>11 DEF Accept, queueVars, document, storeVars
  <2>2. v \in clean
    BY <1>11 DEF Accept, PipelineInv, StorageInv
  <2>3. \A w \in Worker : SlotInv(w)'
    BY <2>1, SlotKept DEF PipelineInv
  <2>4. StorageInv'
    BY <2>1, <2>2 DEF PipelineInv, StorageInv, Passed
  <2> QED
    BY <2>1, <2>3, <2>4 DEF PipelineInv
<1>12. ASSUME NEW v \in Version, Correct(v) PROVE PipelineInv'
  <2>1. UNCHANGED <<defect, work, clean, artifact, readable, job>>
    BY <1>12 DEF Correct, queueVars, document, storeVars
  <2> QED
    BY <2>1, QueueStep DEF PipelineInv
<1>13. CASE UNCHANGED vars
  <2>1. UNCHANGED <<defect, work, clean, artifact, readable, job>>
    BY <1>13 DEF vars, queueVars, document, storeVars, apiVars
  <2> QED
    BY <2>1, QueueStep DEF PipelineInv
<1> QED
  BY <1>1, <1>2, <1>3, <1>4, <1>5, <1>6, <1>7, <1>8, <1>9, <1>10, <1>11, <1>12, <1>13
  DEF Next, Progress

LEMMA PipelineInvInit == Init => PipelineInv
  BY DEF Init, PipelineInv, SlotInv, StorageInv, Passed, IdleWorker, Attempt, JobState

\* The inductive invariant holds throughout.
THEOREM PipelineInvariant == Spec => []PipelineInv
  BY PipelineInvInit, PipelineInvStep, PTL DEF Spec

\* For any number of slots and failures nothing the scanner did not pass gets
\* into the clean zone or is offered for reading (virus_scan, promote_clean).
THEOREM ScannedBeforeReadable == Spec => []OnlyScannedIsReadable
<1>1. PipelineInv => OnlyScannedIsReadable
  BY DEF PipelineInv, StorageInv, OnlyScannedIsReadable, Passed
<1> QED
  BY <1>1, PipelineInvariant, PTL

\* For any number of slots and failures a completed job's objects exist, and so
\* does every object that is offered for reading (handle, persistCompletion).
THEOREM ResultsAreBacked == Spec => []ResultIsBacked
<1>1. PipelineInv => ResultIsBacked
  BY DEF PipelineInv, StorageInv, ResultIsBacked
<1> QED
  BY <1>1, PipelineInvariant, PTL

-----------------------------------------------------------------------------
(* Fields and rows: what the worker writes and what becomes of it.         *)

USE MaxVersionAssumption, JobQueueAssumption, ExtractedFieldsAssumption, WorkerPipelineAssumption

\* Every field was found by a pattern or is a doubtful suggestion.
WorkerField ==
  {f \in [key : Key, value : Value, source : {"local", "ai"}, doubtful : BOOLEAN] :
     f.source = "ai" => f.doubtful}

RowTable ==
  {r \in UNION {[K -> FieldRow] : K \in SUBSET Key} : \A k \in DOMAIN r : AwaitsReview(r[k])}

\* Of finitely many indices one is the largest.
LEMMA LargestIndex ==
  ASSUME NEW n \in Nat, NEW I \in SUBSET (1 .. n), I # {}
  PROVE  \E i \in I : \A j \in I : j <= i
<1> DEFINE T == {n - i : i \in I}
<1>0. \A i \in I : i \in Int /\ 1 <= i /\ i <= n
  OBVIOUS
<1>1. T \subseteq Nat /\ T # {}
  <2>1. ASSUME NEW x \in T PROVE x \in Nat
    <3>1. PICK i \in I : x = n - i
      OBVIOUS
    <3> QED
      BY <1>0, <3>1
  <2>2. PICK i \in I : TRUE
    OBVIOUS
  <2>3. n - i \in T
    BY <2>2
  <2> QED
    BY <2>1, <2>3
<1>2. PICK x \in T : \A y \in T : ~(<<y, x>> \in OpToRel(<, Nat))
  BY <1>1, NatLessThanWellFounded, WFMin
<1>3. \A y \in T : ~(y < x)
  BY <1>1, <1>2 DEF OpToRel
<1>4. PICK i \in I : x = n - i
  OBVIOUS
<1>5. ASSUME NEW j \in I PROVE j <= i
  <2>1. n - j \in T
    OBVIOUS
  <2>2. ~(n - j < n - i)
    BY <1>3, <1>4, <2>1
  <2> QED
    BY <1>0, <2>2
<1> QED
  BY <1>5

\* The last field with a given key is one of the fields (byKey.set).
LEMMA LastIsGiven ==
  ASSUME NEW fields \in Seq(WorkerField), NEW k \in GivenKeys(fields)
  PROVE  /\ LastField(fields, k) \in WorkerField
         /\ \E i \in DOMAIN fields : fields[i].key = k /\ LastField(fields, k) = fields[i]
<1> DEFINE I == {i \in DOMAIN fields : fields[i].key = k}
<1>1. DOMAIN fields = 1 .. Len(fields) /\ Len(fields) \in Nat
  BY LenProperties
<1>2. I \in SUBSET (1 .. Len(fields)) /\ I # {}
  BY <1>1 DEF GivenKeys
<1>3. PICK m \in I : \A j \in I : j <= m
  BY <1>1, <1>2, LargestIndex
<1> DEFINE P(i) == fields[i].key = k /\ \A j \in DOMAIN fields : fields[j].key = k => j <= i
<1>4. m \in DOMAIN fields /\ P(m)
  BY <1>3
<1>5. (CHOOSE i \in DOMAIN fields : P(i)) \in DOMAIN fields /\ P(CHOOSE i \in DOMAIN fields : P(i))
  BY <1>4
<1> QED
  BY <1>1, <1>5, ElementOfSeq DEF LastField

\* A row is put to a reviewer unless the worker read a value.
LEMMA RowAwaits ==
  ASSUME NEW f \in WorkerField
  PROVE  Row(f) \in FieldRow /\ AwaitsReview(Row(f))
  BY DEF WorkerField, Row, ClassifyReviewState, FieldRow, AwaitsReview, Value

LEMMA RecordsAwait ==
  ASSUME NEW fields \in Seq(WorkerField)
  PROVE  BuildFieldRecords(fields) \in RowTable
<1> DEFINE K == RequiredKey \cup GivenKeys(fields)
           f(k) == IF k \in GivenKeys(fields) THEN LastField(fields, k) ELSE Placeholder(k)
<1>1. K \subseteq Key
  BY LenProperties, ElementOfSeq DEF GivenKeys, WorkerField, Key
<1>2. ASSUME NEW k \in K PROVE f(k) \in WorkerField
  <2>1. CASE k \in GivenKeys(fields)
    BY <2>1, LastIsGiven
  <2>2. CASE k \notin GivenKeys(fields)
    BY <2>2 DEF Placeholder, WorkerField, Key, Value
  <2> QED
    BY <2>1, <2>2
<1>3. ASSUME NEW k \in K PROVE Row(f(k)) \in FieldRow /\ AwaitsReview(Row(f(k)))
  BY <1>2, RowAwaits
<1> HIDE DEF f
<1> DEFINE r == [k \in K |-> Row(f(k))]
<1>4. r \in [K -> FieldRow] /\ \A k \in DOMAIN r : AwaitsReview(r[k])
  BY <1>3
<1>5. r \in RowTable
  BY <1>1, <1>4 DEF RowTable
<1> QED
  BY <1>5 DEF BuildFieldRecords, f

\* Storing a result keeps a table a table of rows that await review.
LEMMA PersistKeeps ==
  ASSUME NEW r \in RowTable, NEW fields \in Seq(WorkerField)
  PROVE  PersistFields(r, fields) \in RowTable
<1> DEFINE b == BuildFieldRecords(fields)
           kept(k) == \/ k \notin DOMAIN b
                      \/ k \in DOMAIN r /\ r[k].source = "human"
           K == DOMAIN r \cup DOMAIN b
           s == [k \in K |-> IF kept(k) THEN r[k] ELSE b[k]]
<1>1. b \in RowTable
  BY RecordsAwait
<1> HIDE DEF b
<1>2. K \in SUBSET Key
  BY <1>1 DEF RowTable
<1>3. ASSUME NEW k \in K PROVE s[k] \in FieldRow /\ AwaitsReview(s[k])
  <2>1. CASE kept(k)
    BY <2>1 DEF RowTable
  <2>2. CASE ~kept(k)
    BY <1>1, <2>2 DEF RowTable
  <2> QED
    BY <2>1, <2>2
<1>4. s \in [K -> FieldRow]
  BY <1>3
<1>5. s \in RowTable
  BY <1>2, <1>3, <1>4 DEF RowTable
<1> QED
  BY <1>5 DEF PersistFields, b

-----------------------------------------------------------------------------
(* The types of the variables.                                             *)

SlotStep == {"idle", "load", "scan", "promote", "extract", "write", "return"}
Slot == [step : SlotStep, version : Version \cup {NoVersion}, fields : Seq(WorkerField)]

\* A job that is still tried has attempts left.
AttemptsLeft ==
  \A v \in Version : job[v] \in {"waiting", "active", "delayed"} => attempts[v] < MaxAttempts

QueueInv == QueueTypeOK /\ AttemptsLeft

ArtifactInv ==
  /\ DOMAIN artifact \subseteq Version
  /\ \A v \in DOMAIN artifact : artifact[v] \in Seq(WorkerField)

ApiInv ==
  /\ readable \in SUBSET Version
  /\ rows \in [Version -> RowTable]
  /\ accepted \in [Version -> 0 .. MaxAccepted]

DocumentInv ==
  /\ defect \in [Version -> DefectKind]
  /\ text \in [Version -> Texts]

ValueInv ==
  /\ PipelineInv
  /\ QueueInv
  /\ DocumentInv
  /\ work \in [Worker -> Slot]
  /\ holder \in [Version -> Worker \cup {NoWorker}]
  /\ clean \in SUBSET Version
  /\ ArtifactInv
  /\ ApiInv
  /\ faults \in 0 .. MaxFaults

\* Every operation of the queue keeps its types and the bound of attempts.
LEMMA QueueKeeps ==
  ASSUME QueueInv, NEW v \in Version,
         TakeJob(v) \/ FinishJob(v) \/ FailAttempt(v) \/ RetryJob(v) \/ StallJob(v)
  PROVE  QueueInv'
<1> USE DEF QueueInv, QueueTypeOK, AttemptsLeft, JobState, Event
<1>1. CASE TakeJob(v)
  BY <1>1 DEF TakeJob
<1>2. CASE FinishJob(v)
  BY <1>2 DEF FinishJob
<1>3. CASE FailAttempt(v)
  <2>1. attempts[v] + 1 \in 0 .. MaxAttempts
    BY <1>3 DEF FailAttempt
  <2>2. /\ attempts' \in [Version -> 0 .. MaxAttempts]
        /\ attempts'[v] = attempts[v] + 1
        /\ \A w \in Version \ {v} : attempts'[w] = attempts[w]
    BY <1>3, <2>1 DEF FailAttempt
  <2>3. /\ job' \in [Version -> JobState] /\ events' \in SUBSET Event /\ UNCHANGED lost
        /\ job'[v] = "delayed" => attempts[v] + 1 < MaxAttempts
        /\ job'[v] \in {"delayed", "failed"}
        /\ \A w \in Version \ {v} : job'[w] = job[w]
    <3>1. CASE attempts[v] + 1 < MaxAttempts
      BY <1>3, <3>1 DEF FailAttempt
    <3>2. CASE ~(attempts[v] + 1 < MaxAttempts)
      BY <1>3, <3>2 DEF FailAttempt
    <3> QED
      BY <3>1, <3>2
  <2> QED
    BY <2>2, <2>3
<1>4. CASE RetryJob(v)
  BY <1>4 DEF RetryJob
<1>5. CASE StallJob(v)
  <2>1. CASE job' = [job EXCEPT ![v] = "waiting"] /\ UNCHANGED events
    BY <1>5, <2>1 DEF StallJob
  <2>2. CASE job' = [job EXCEPT ![v] = "failed"] /\ events' = events \cup {<<"failed", v>>}
    BY <1>5, <2>2 DEF StallJob
  <2> QED
    BY <1>5, <2>1, <2>2 DEF StallJob
<1> QED
  BY <1>1, <1>2, <1>3, <1>4, <1>5

\* The local fields of a text and the suggestions that follow them.
LEMMA FieldsTyped ==
  ASSUME NEW t \in Texts, NEW s \in AnalysisAnswer
  PROVE  WithSuggestions(LocalFields(t), s) \in Seq(WorkerField)
<1>1. LocalFields(t) \in Seq(WorkerField)
  <2>1. t \in Seq([key : RequiredKey, value : Value])
    OBVIOUS
  <2>2. DOMAIN t = 1 .. Len(t) /\ Len(t) \in Nat
    BY <2>1, LenProperties
  <2>3. ASSUME NEW i \in 1 .. Len(t) PROVE Found(t[i], "local", FALSE) \in WorkerField
    <3>1. t[i] \in [key : RequiredKey, value : Value]
      BY <2>1, ElementOfSeq
    <3> QED
      BY <3>1 DEF Found, WorkerField, Key
  <2>4. LocalFields(t) \in [1 .. Len(t) -> WorkerField]
    BY <2>2, <2>3 DEF LocalFields
  <2> QED
    BY <2>2, <2>4, SeqDef
<1>2. [i \in DOMAIN s |-> Found(s[i], "ai", TRUE)] \in Seq(WorkerField)
  <2>1. s \in Seq([key : Key, value : Value])
    BY EmptySeq DEF AnalysisAnswer
  <2>2. DOMAIN s = 1 .. Len(s) /\ Len(s) \in Nat
    BY <2>1, LenProperties
  <2>3. ASSUME NEW i \in 1 .. Len(s) PROVE Found(s[i], "ai", TRUE) \in WorkerField
    <3>1. s[i] \in [key : Key, value : Value]
      BY <2>1, ElementOfSeq
    <3> QED
      BY <3>1 DEF Found, WorkerField
  <2> DEFINE g == [i \in DOMAIN s |-> Found(s[i], "ai", TRUE)]
  <2>4. g \in [1 .. Len(s) -> WorkerField]
    BY <2>2, <2>3
  <2> HIDE DEF g
  <2>5. g \in Seq(WorkerField)
    BY <2>2, <2>4, SeqDef
  <2> QED
    BY <2>5 DEF g
<1> QED
  BY <1>1, <1>2, ConcatProperties DEF WithSuggestions

LEMMA CorrectedIsRow == CorrectedRow \in FieldRow /\ AwaitsReview(CorrectedRow)
  BY DEF CorrectedRow, FieldRow, AwaitsReview, Value

LEMMA CorrectKeeps ==
  ASSUME NEW r \in RowTable, NEW k \in DOMAIN r
  PROVE  [r EXCEPT ![k] = CorrectedRow] \in RowTable
<1> DEFINE K == DOMAIN r
           s == [r EXCEPT ![k] = CorrectedRow]
<1>1. K \in SUBSET Key /\ r \in [K -> FieldRow] /\ \A j \in K : AwaitsReview(r[j])
  BY DEF RowTable
<1> HIDE DEF K
<1>2. s \in [K -> FieldRow] /\ \A j \in K : AwaitsReview(s[j])
  BY <1>1, CorrectedIsRow DEF K
<1>3. DOMAIN s = K
  BY <1>2
<1> QED
  BY <1>1, <1>2, <1>3 DEF RowTable

-----------------------------------------------------------------------------
LEMMA RaiseKeeps ==
  ASSUME ValueInv, NEW w \in Worker, work[w].step # "idle", Raise(w)
  PROVE  /\ QueueInv' /\ DocumentInv' /\ ArtifactInv' /\ ApiInv'
         /\ work' \in [Worker -> Slot] /\ clean' \in SUBSET Version
         /\ holder' \in [Version -> Worker \cup {NoWorker}]
<1>1. work[w].version \in Version
  BY DEF ValueInv, PipelineInv, SlotInv
<1>2. QueueInv'
  BY <1>1, QueueKeeps DEF ValueInv, Raise, queueVars, QueueInv, QueueTypeOK, AttemptsLeft
<1>3. work' \in [Worker -> Slot]
  BY EmptySeq DEF ValueInv, Raise, IdleWorker, Attempt, Slot, SlotStep
<1>4. holder' \in [Version -> Worker \cup {NoWorker}]
  BY <1>1 DEF ValueInv, Raise
<1>5. DocumentInv' /\ ArtifactInv' /\ ApiInv' /\ clean' \in SUBSET Version
  BY DEF ValueInv, Raise, document, storeVars, apiVars, DocumentInv, ArtifactInv, ApiInv
<1> QED
  BY <1>2, <1>3, <1>4, <1>5

\* A slot goes on with fields of the worker; the queue and the API are left alone.
LEMMA GotoKeeps ==
  ASSUME ValueInv, NEW w \in Worker, NEW from, NEW to \in SlotStep, Goto(w, from, to)
  PROVE  /\ QueueInv' /\ DocumentInv' /\ ApiInv'
         /\ work' \in [Worker -> Slot]
         /\ holder' \in [Version -> Worker \cup {NoWorker}]
<1>1. work' \in [Worker -> Slot]
  BY DEF ValueInv, Goto, Attempt, Slot
<1>2. UNCHANGED <<document, queueVars, holder, apiVars>>
  BY DEF Goto
<1> QED
  BY <1>1, <1>2 DEF ValueInv, document, queueVars, apiVars, DocumentInv, QueueInv, QueueTypeOK,
                    AttemptsLeft, ApiInv

LEMMA FaultKeeps ==
  ASSUME faults \in 0 .. MaxFaults, Fault \/ UNCHANGED faults
  PROVE  faults' \in 0 .. MaxFaults
  BY DEF Fault

\* ValueInv is inductive: one step for each action.
LEMMA ValueInvStep == ValueInv /\ [Next]_vars => ValueInv'
<1> SUFFICES ASSUME ValueInv, [Next]_vars PROVE ValueInv'
  OBVIOUS
<1>0. PipelineInv'
  BY PipelineInvStep DEF ValueInv
<1>1. ASSUME NEW w \in Worker, Take(w) PROVE ValueInv'
  <2>1. PICK v \in Version : /\ TakeJob(v)
                             /\ work' = [work EXCEPT ![w] = Attempt("load", v, <<>>)]
                             /\ holder' = [holder EXCEPT ![v] = w]
    BY <1>1 DEF Take
  <2>2. QueueInv'
    BY <2>1, QueueKeeps DEF ValueInv
  <2>3. work' \in [Worker -> Slot]
    BY <2>1, EmptySeq DEF ValueInv, Attempt, Slot, SlotStep
  <2>4. UNCHANGED <<document, storeVars, apiVars, faults>>
    BY <1>1 DEF Take
  <2> QED
    BY <1>0, <2>1, <2>2, <2>3, <2>4
    DEF ValueInv, document, storeVars, apiVars, DocumentInv, ArtifactInv, ApiInv
<1>2. ASSUME NEW w \in Worker, Load(w) PROVE ValueInv'
  <2>1. UNCHANGED faults
    BY <1>2 DEF Load
  <2>2. CASE Raise(w)
    BY <1>0, <1>2, <2>1, <2>2, RaiseKeeps DEF Load, ValueInv
  <2>3. CASE Goto(w, "load", "scan") /\ UNCHANGED storeVars
    BY <1>0, <2>1, <2>3, GotoKeeps DEF ValueInv, storeVars, ArtifactInv, SlotStep
  <2> QED
    BY <1>2, <2>2, <2>3 DEF Load
<1>3. ASSUME NEW w \in Worker, Scan(w) PROVE ValueInv'
  <2>1. Fault \/ UNCHANGED faults
    BY <1>3 DEF Scan
  <2>2. CASE Raise(w)
    BY <1>0, <1>3, <2>1, <2>2, RaiseKeeps, FaultKeeps DEF Scan, ValueInv
  <2>3. CASE Goto(w, "scan", "promote") /\ UNCHANGED storeVars
    BY <1>0, <2>1, <2>3, GotoKeeps, FaultKeeps DEF ValueInv, storeVars, ArtifactInv, SlotStep
  <2> QED
    BY <1>3, <2>2, <2>3 DEF Scan
<1>4. ASSUME NEW w \in Worker, Promote(w) PROVE ValueInv'
  <2>1. work[w].version \in Version
    BY <1>4 DEF Promote, Goto, ValueInv, PipelineInv, SlotInv
  <2> QED
    BY <1>0, <1>4, <2>1, GotoKeeps DEF Promote, ValueInv, ArtifactInv, SlotStep
<1>5. ASSUME NEW w \in Worker, Extract(w) PROVE ValueInv'
  <2>1. CASE Raise(w)
    BY <1>0, <1>5, <2>1, RaiseKeeps DEF Extract, ValueInv
  <2>2. CASE ~Raise(w)
    <3>1. PICK s \in AnalysisAnswer :
            work' = [work EXCEPT ![w] = Attempt("write", work[w].version,
                       WithSuggestions(LocalFields(text[work[w].version]), s))]
      BY <1>5, <2>2 DEF Extract
    <3>2. work[w].version \in Version
      BY <1>5 DEF Extract, ValueInv, PipelineInv, SlotInv
    <3>3. WithSuggestions(LocalFields(text[work[w].version]), s) \in Seq(WorkerField)
      BY <3>2, FieldsTyped DEF ValueInv, DocumentInv
    <3>4. work' \in [Worker -> Slot]
      BY <3>1, <3>2, <3>3 DEF ValueInv, Attempt, Slot, SlotStep
    <3>5. UNCHANGED <<document, queueVars, holder, storeVars, apiVars, faults>>
      BY <1>5, <2>2 DEF Extract
    <3> QED
      BY <1>0, <3>4, <3>5 DEF ValueInv, document, queueVars, storeVars, apiVars, DocumentInv,
                              QueueInv, QueueTypeOK, AttemptsLeft, ArtifactInv, ApiInv
  <2> QED
    BY <2>1, <2>2
<1>6. ASSUME NEW w \in Worker, Write(w) PROVE ValueInv'
  <2>1. work[w].version \in Version /\ work[w].fields \in Seq(WorkerField)
    BY <1>6 DEF Write, Goto, ValueInv, PipelineInv, SlotInv, Slot
  <2>2. ArtifactInv'
    BY <1>6, <2>1 DEF Write, PutArtifact, ValueInv, ArtifactInv
  <2> QED
    BY <1>0, <1>6, <2>2, GotoKeeps DEF Write, ValueInv, SlotStep
<1>7. ASSUME NEW w \in Worker, Return(w) PROVE ValueInv'
  <2>1. work[w].version \in Version
    BY <1>7 DEF Return, ValueInv, PipelineInv, SlotInv
  <2>2. QueueInv'
    BY <1>7, <2>1, QueueKeeps
    DEF Return, ValueInv, queueVars, QueueInv, QueueTypeOK, AttemptsLeft
  <2>3. work' \in [Worker -> Slot] /\ holder' \in [Version -> Worker \cup {NoWorker}]
    BY <1>7, <2>1, EmptySeq DEF Return, ValueInv, IdleWorker, Attempt, Slot, SlotStep
  <2>4. UNCHANGED <<document, storeVars, apiVars, faults>>
    BY <1>7 DEF Return
  <2> QED
    BY <1>0, <2>2, <2>3, <2>4
    DEF ValueInv, document, storeVars, apiVars, DocumentInv, ArtifactInv, ApiInv
<1>8. ASSUME NEW w \in Worker, CallFails(w) PROVE ValueInv'
  BY <1>0, <1>8, RaiseKeeps, FaultKeeps DEF CallFails, ValueInv
<1>9. ASSUME NEW w \in Worker, Dies(w) PROVE ValueInv'
  <2>1. work' \in [Worker -> Slot]
    BY <1>9, EmptySeq DEF Dies, ValueInv, IdleWorker, Attempt, Slot, SlotStep
  <2>2. faults' \in 0 .. MaxFaults
    BY <1>9, FaultKeeps DEF Dies, ValueInv
  <2>3. UNCHANGED <<document, queueVars, holder, storeVars, apiVars>>
    BY <1>9 DEF Dies
  <2> QED
    BY <1>0, <2>1, <2>2, <2>3 DEF ValueInv, document, queueVars, storeVars, apiVars, DocumentInv,
                                  QueueInv, QueueTypeOK, AttemptsLeft, ArtifactInv, ApiInv
<1>10. ASSUME NEW v \in Version, Stall(v) \/ Retry(v) PROVE ValueInv'
  <2>1. QueueInv'
    BY <1>10, QueueKeeps DEF Stall, Retry, ValueInv
  <2>2. faults' \in 0 .. MaxFaults
    BY <1>10, FaultKeeps DEF Stall, Retry, ValueInv
  <2>3. holder' \in [Version -> Worker \cup {NoWorker}]
    BY <1>10 DEF Stall, Retry, ValueInv
  <2>4. UNCHANGED <<document, work, storeVars, apiVars>>
    BY <1>10 DEF Stall, Retry
  <2> QED
    BY <1>0, <2>1, <2>2, <2>3, <2>4
    DEF ValueInv, document, storeVars, apiVars, DocumentInv, ArtifactInv, ApiInv
<1>11. ASSUME NEW v \in Version, Accept(v) PROVE ValueInv'
  <2>1. artifact[v] \in Seq(WorkerField) /\ rows[v] \in RowTable
    BY <1>11 DEF Accept, ValueInv, ArtifactInv, ApiInv
  <2>2. PersistFields(rows[v], artifact[v]) \in RowTable
    BY <2>1, PersistKeeps
  <2>3. rows' \in [Version -> RowTable]
    BY <1>11, <2>2 DEF Accept, ValueInv, ApiInv
  <2>4. accepted' \in [Version -> 0 .. MaxAccepted] /\ readable' \in SUBSET Version
    BY <1>11 DEF Accept, ValueInv, ApiInv
  <2>5. UNCHANGED <<document, queueVars, work, holder, storeVars, faults>>
    BY <1>11 DEF Accept
  <2> QED
    BY <1>0, <2>3, <2>4, <2>5 DEF ValueInv, document, queueVars, storeVars, DocumentInv,
                                  QueueInv, QueueTypeOK, AttemptsLeft, ArtifactInv, ApiInv
<1>12. ASSUME NEW v \in Version, Correct(v) PROVE ValueInv'
  <2>1. PICK k \in DOMAIN rows[v] : rows' = [rows EXCEPT ![v][k] = CorrectedRow]
    BY <1>12 DEF Correct
  <2>2. [rows[v] EXCEPT ![k] = CorrectedRow] \in RowTable
    BY <2>1, CorrectKeeps DEF ValueInv, ApiInv
  <2>3. rows' \in [Version -> RowTable]
    BY <2>1, <2>2 DEF ValueInv, ApiInv
  <2>4. UNCHANGED <<document, queueVars, work, holder, storeVars, readable, accepted, faults>>
    BY <1>12 DEF Correct
  <2> QED
    BY <1>0, <2>3, <2>4 DEF ValueInv, document, queueVars, storeVars, DocumentInv,
                            QueueInv, QueueTypeOK, AttemptsLeft, ArtifactInv, ApiInv
<1>13. CASE UNCHANGED vars
  BY <1>0, <1>13 DEF vars, ValueInv, document, queueVars, storeVars, apiVars, DocumentInv,
                     QueueInv, QueueTypeOK, AttemptsLeft, ArtifactInv, ApiInv
<1> QED
  BY <1>1, <1>2, <1>3, <1>4, <1>5, <1>6, <1>7, <1>8, <1>9, <1>10, <1>11, <1>12, <1>13
  DEF Next, Progress

LEMMA ValueInvInit == Init => ValueInv
<1> SUFFICES ASSUME Init PROVE ValueInv
  OBVIOUS
<1>1. NoRows \in RowTable
  <2>1. NoRows \in [{} -> FieldRow] /\ DOMAIN NoRows = {}
    BY DEF NoRows
  <2> QED
    BY <2>1 DEF RowTable
<1>2. rows \in [Version -> RowTable]
  BY <1>1 DEF Init
<1>3. work \in [Worker -> Slot]
  BY EmptySeq DEF Init, IdleWorker, Attempt, Slot, SlotStep
<1>4. QueueInv
  BY DEF Init, QueueInv, QueueTypeOK, AttemptsLeft, JobState
<1>5. ArtifactInv
  BY DEF Init, ArtifactInv
<1> QED
  BY <1>2, <1>3, <1>4, <1>5, PipelineInvInit DEF Init, ValueInv, DocumentInv, ApiInv

LEMMA ValueInvariant == Spec => []ValueInv
  BY ValueInvInit, ValueInvStep, PTL DEF Spec

\* Every variable keeps its type; in particular attempts never pass MaxAttempts.
THEOREM PipelineTyped == Spec => []TypeOK
<1>1. ValueInv => TypeOK
  BY DEF ValueInv, TypeOK, QueueInv, DocumentInv, ArtifactInv, ApiInv, RowTable, Slot, SlotStep
<1> QED
  BY <1>1, ValueInvariant, PTL

\* For any texts, suggestions, attempts and deliveries, a suggestion or a
\* missing value is put to a reviewer (classifyReviewState, buildFieldRecords).
THEOREM SuggestionsAreReviewed == Spec => []SuggestionsAwaitReview
<1>1. ValueInv => SuggestionsAwaitReview
  BY DEF ValueInv, ApiInv, RowTable, SuggestionsAwaitReview
<1> QED
  BY <1>1, ValueInvariant, PTL

\* For any texts, suggestions, attempts and deliveries, no row disappears and
\* none that a reviewer corrected is the worker's again (persist).
THEOREM FieldsAreKept == Spec => FieldsStand
<1> DEFINE Kept(v) == \A k \in DOMAIN rows[v] :
                        /\ k \in DOMAIN rows'[v]
                        /\ rows[v][k].source = "human" => rows'[v][k].source = "human"
<1>1. ASSUME ValueInv, [Next]_vars, NEW v \in Version PROVE Kept(v)
  <2>1. CASE UNCHANGED rows
    BY <2>1
  <2>2. ASSUME NEW u \in Version, Accept(u) PROVE Kept(v)
    <3>1. /\ rows \in [Version -> RowTable]
          /\ rows' = [rows EXCEPT ![u] = PersistFields(rows[u], artifact[u])]
      BY <1>1, <2>2 DEF ValueInv, ApiInv, Accept
    <3>2. CASE u = v
      BY <3>1, <3>2 DEF PersistFields
    <3>3. CASE u # v
      BY <3>1, <3>3
    <3> QED
      BY <3>2, <3>3
  <2>3. ASSUME NEW u \in Version, Correct(u) PROVE Kept(v)
    <3>1. /\ rows \in [Version -> RowTable]
          /\ \E k \in DOMAIN rows[u] : rows' = [rows EXCEPT ![u][k] = CorrectedRow]
      BY <1>1, <2>3 DEF ValueInv, ApiInv, Correct
    <3>2. PICK k \in DOMAIN rows[u] : rows' = [rows EXCEPT ![u] = [rows[u] EXCEPT ![k] = CorrectedRow]]
      BY <3>1
    <3>3. rows[u] \in RowTable /\ rows[v] \in RowTable
      BY <3>1
    <3> QED
      BY <3>1, <3>2, <3>3 DEF CorrectedRow, RowTable, FieldRow
  <2>4. ASSUME NEW w \in Worker, Take(w) \/ Progress(w) \/ CallFails(w) \/ Dies(w) PROVE UNCHANGED rows
    BY <2>4 DEF Take, Progress, Load, Scan, Promote, Extract, Write, Return, CallFails, Dies, Raise,
                Goto, apiVars
  <2>5. ASSUME NEW u \in Version, Stall(u) \/ Retry(u) PROVE UNCHANGED rows
    BY <2>5 DEF Stall, Retry, apiVars
  <2>6. UNCHANGED vars => UNCHANGED rows
    BY DEF vars, apiVars
  <2> QED
    BY <1>1, <2>1, <2>2, <2>3, <2>4, <2>5, <2>6 DEF Next
<1>2. ValueInv /\ [Next]_vars => [\A v \in Version : Kept(v)]_vars
  BY <1>1
<1> QED
  BY <1>2, ValueInvariant, PTL DEF Spec, FieldsStand
-----------------------------------------------------------------------------
(* Where what is stored comes from.                                        *)

\* What a step may do to fields, artifacts and rows, whichever action it is:
\* fields come from an extraction that did not fail, artifacts from a slot
\* that writes, rows from an artifact or a reviewer.
Effect ==
  /\ UNCHANGED document
  /\ \A w \in Worker : work'[w].step \in {"write", "return"} =>
       \/ work'[w] = work[w]
       \/ /\ work[w].step = "write"
          /\ work'[w].version = work[w].version /\ work'[w].fields = work[w].fields
       \/ /\ work[w].step = "extract" /\ ~CannotBeDecoded(defect[work[w].version])
          /\ work'[w].version = work[w].version
          /\ \E s \in AnalysisAnswer :
               work'[w].fields = WithSuggestions(LocalFields(text[work[w].version]), s)
  /\ \A v \in DOMAIN artifact' :
       \/ v \in DOMAIN artifact /\ artifact'[v] = artifact[v]
       \/ \E w \in Worker :
            work[w].step = "write" /\ work[w].version = v /\ artifact'[v] = work[w].fields
  /\ \A v \in Version :
       /\ job'[v] = "completed" =>
            job[v] = "completed" \/ \E w \in Worker : work[w].step = "return" /\ work[w].version = v
       /\ v \in readable' => v \in readable \/ v \in DOMAIN artifact
       /\ \/ rows'[v] = rows[v]
          \/ v \in DOMAIN artifact /\ rows'[v] = PersistFields(rows[v], artifact[v])
          \/ \E k \in DOMAIN rows[v] : rows'[v] = [rows[v] EXCEPT ![k] = CorrectedRow]

\* An attempt that ends leaves them alone.
LEMMA RaiseEffect ==
  ASSUME ValueInv, NEW w \in Worker, work[w].step # "idle", Raise(w)
  PROVE  Effect
<1>1. work[w].version \in Version
  BY DEF ValueInv, PipelineInv, SlotInv
<1>2. \A v \in Version : job'[v] = "completed" => job[v] = "completed"
  BY <1>1 DEF ValueInv, QueueInv, QueueTypeOK, Raise, FailAttempt, queueVars
<1>3. \A x \in Worker : work'[x] = work[x] \/ work'[x] = IdleWorker
  BY DEF ValueInv, Raise
<1> QED
  BY <1>2, <1>3 DEF Effect, Raise, document, storeVars, apiVars, IdleWorker, Attempt

\* So does a step within an attempt before the fields are found.
LEMMA GotoEffect ==
  ASSUME ValueInv, NEW w \in Worker, NEW from, NEW to,
         Goto(w, from, to), from = "write" \/ to \notin {"write", "return"},
         \A v \in DOMAIN artifact' :
           \/ v \in DOMAIN artifact /\ artifact'[v] = artifact[v]
           \/ from = "write" /\ work[w].version = v /\ artifact'[v] = work[w].fields
  PROVE  Effect
<1>1. \A x \in Worker : work'[x] = IF x = w THEN Attempt(to, work[w].version, work[w].fields) ELSE work[x]
  BY DEF ValueInv, Goto
<1>2. UNCHANGED <<document, job, readable, rows>> /\ work[w].step = from
  BY DEF Goto, document, queueVars, apiVars
<1> QED
  BY <1>1, <1>2 DEF Effect, Attempt, document

\* Every step has such an effect.
LEMMA EffectStep == ValueInv /\ [Next]_vars => Effect
<1> SUFFICES ASSUME ValueInv, [Next]_vars PROVE Effect
  OBVIOUS
<1>1. ASSUME UNCHANGED <<document, artifact, readable, rows>>,
             \A v \in Version : job'[v] = "completed" => job[v] = "completed",
             \A w \in Worker : work'[w] = work[w] \/ work'[w].step \notin {"write", "return"}
      PROVE  Effect
  BY <1>1 DEF Effect, document
<1>2. ASSUME NEW w \in Worker, Take(w) PROVE Effect
  <2>1. PICK v \in Version : TakeJob(v) /\ work' = [work EXCEPT ![w] = Attempt("load", v, <<>>)]
    BY <1>2 DEF Take
  <2>2. \A x \in Worker : work'[x] = work[x] \/ work'[x] = Attempt("load", v, <<>>)
    BY <2>1 DEF ValueInv
  <2>3. \A u \in Version : job'[u] = "completed" => job[u] = "completed"
    BY <2>1 DEF TakeJob, ValueInv, QueueInv, QueueTypeOK
  <2> QED
    BY <1>1, <1>2, <2>2, <2>3 DEF Take, storeVars, apiVars, Attempt
<1>3. ASSUME NEW w \in Worker, Load(w) PROVE Effect
  BY <1>3, RaiseEffect, GotoEffect DEF Load, storeVars
<1>4. ASSUME NEW w \in Worker, Scan(w) PROVE Effect
  BY <1>4, RaiseEffect, GotoEffect DEF Scan, storeVars
<1>5. ASSUME NEW w \in Worker, Promote(w) PROVE Effect
  BY <1>5, GotoEffect DEF Promote
<1>6. ASSUME NEW w \in Worker, Extract(w) PROVE Effect
  <2> DEFINE v == work[w].version
  <2>1. CASE CannotBeDecoded(defect[v])
    BY <1>6, <2>1, RaiseEffect DEF Extract
  <2>2. CASE ~CannotBeDecoded(defect[v])
    <3>1. PICK s \in AnalysisAnswer :
            work' = [work EXCEPT ![w] = Attempt("write", v, WithSuggestions(LocalFields(text[v]), s))]
      BY <1>6, <2>2 DEF Extract
    <3>2. /\ work'[w] = Attempt("write", v, WithSuggestions(LocalFields(text[v]), s))
          /\ \A x \in Worker \ {w} : work'[x] = work[x]
      BY <3>1 DEF ValueInv
    <3>3. /\ work'[w].version = v
          /\ work'[w].fields = WithSuggestions(LocalFields(text[v]), s)
      BY <3>2 DEF Attempt
    <3>4. UNCHANGED <<document, job, artifact, readable, rows>> /\ work[w].step = "extract"
      BY <1>6, <2>2 DEF Extract, document, queueVars, storeVars, apiVars
    <3> QED
      BY <2>2, <3>2, <3>3, <3>4 DEF Effect, document
  <2> QED
    BY <2>1, <2>2
<1>7. ASSUME NEW w \in Worker, Write(w) PROVE Effect
  <2>1. \A v \in DOMAIN artifact' :
          \/ v \in DOMAIN artifact /\ artifact'[v] = artifact[v]
          \/ work[w].version = v /\ artifact'[v] = work[w].fields
    BY <1>7 DEF Write, PutArtifact
  <2> QED
    BY <1>7, <2>1, GotoEffect DEF Write
<1>8. ASSUME NEW w \in Worker, Return(w) PROVE Effect
  <2>1. work[w].step = "return" /\ work[w].version \in Version
    BY <1>8 DEF Return, ValueInv, PipelineInv, SlotInv
  <2>2. \A u \in Version : job'[u] = "completed" => job[u] = "completed" \/ u = work[w].version
    BY <1>8, <2>1 DEF Return, FinishJob, ValueInv, QueueInv, QueueTypeOK, queueVars
  <2>3. \A x \in Worker : work'[x] = work[x] \/ work'[x] = IdleWorker
    BY <1>8 DEF Return, ValueInv
  <2> QED
    BY <1>8, <2>1, <2>2, <2>3 DEF Effect, Return, document, storeVars, apiVars, IdleWorker, Attempt
<1>9. ASSUME NEW w \in Worker, CallFails(w) PROVE Effect
  BY <1>9, RaiseEffect DEF CallFails
<1>10. ASSUME NEW w \in Worker, Dies(w) PROVE Effect
  <2>1. \A x \in Worker : work'[x] = work[x] \/ work'[x] = IdleWorker
    BY <1>10 DEF Dies, ValueInv
  <2> QED
    BY <1>1, <1>10, <2>1 DEF Dies, queueVars, storeVars, apiVars, IdleWorker, Attempt
<1>11. ASSUME NEW v \in Version, Stall(v) \/ Retry(v) PROVE Effect
  <2>1. \A u \in Version : job'[u] = "completed" => job[u] = "completed"
    BY <1>11 DEF Stall, StallJob, Retry, RetryJob, ValueInv, QueueInv, QueueTypeOK
  <2> QED
    BY <1>1, <1>11, <2>1 DEF Stall, Retry, storeVars, apiVars
<1>12. ASSUME NEW v \in Version, Accept(v) PROVE Effect
  <2>1. \A u \in Version : rows'[u] = IF u = v THEN PersistFields(rows[v], artifact[v]) ELSE rows[u]
    BY <1>12 DEF Accept, ValueInv, ApiInv
  <2> QED
    BY <1>12, <2>1 DEF Effect, Accept, document, queueVars, storeVars
<1>13. ASSUME NEW v \in Version, Correct(v) PROVE Effect
  <2>1. PICK k \in DOMAIN rows[v] : rows' = [rows EXCEPT ![v] = [rows[v] EXCEPT ![k] = CorrectedRow]]
    BY <1>13 DEF Correct
  <2>2. \A u \in Version : rows'[u] = IF u = v THEN [rows[v] EXCEPT ![k] = CorrectedRow] ELSE rows[u]
    BY <2>1 DEF ValueInv, ApiInv
  <2> QED
    BY <1>13, <2>2 DEF Effect, Correct, document, queueVars, storeVars
<1>14. CASE UNCHANGED vars
  BY <1>1, <1>14 DEF vars, queueVars, storeVars, apiVars
<1> QED
  BY <1>2, <1>3, <1>4, <1>5, <1>6, <1>7, <1>8, <1>9, <1>10, <1>11, <1>12, <1>13, <1>14
  DEF Next, Progress

\* Of a document with a defect of any kind nothing is made: no artifact, no
\* completed job, no rows, and nothing is offered for reading.
NothingOfADefect ==
  \A v \in Version : defect[v] # "none" =>
    job[v] # "completed" /\ v \notin DOMAIN artifact /\ v \notin readable /\ DOMAIN rows[v] = {}

\* A slot that has fields has them of a document without a defect.
FitInv ==
  /\ NothingOfADefect
  /\ \A w \in Worker : work[w].step \in {"write", "return"} => defect[work[w].version] = "none"

LEMMA FitInvStep == ValueInv /\ FitInv /\ [Next]_vars => FitInv'
<1> SUFFICES ASSUME ValueInv, FitInv, [Next]_vars PROVE FitInv'
  OBVIOUS
<1>0. Effect /\ \A w \in Worker : SlotInv(w)
  BY EffectStep DEF ValueInv, PipelineInv
<1>1. ASSUME NEW w \in Worker, work'[w].step \in {"write", "return"}
      PROVE  defect'[work'[w].version] = "none"
  BY <1>0, <1>1 DEF Effect, FitInv, SlotInv, Passed, CannotBeDecoded, document
<1>2. ASSUME NEW v \in Version, defect'[v] # "none"
      PROVE  job'[v] # "completed" /\ v \notin DOMAIN artifact' /\ v \notin readable' /\ DOMAIN rows'[v] = {}
  <2>1. defect[v] # "none"
    BY <1>0, <1>2 DEF Effect, document
  <2>2. job[v] # "completed" /\ v \notin DOMAIN artifact /\ v \notin readable /\ DOMAIN rows[v] = {}
    BY <2>1 DEF FitInv, NothingOfADefect
  <2>3. \A w \in Worker : work[w].step \in {"write", "return"} => work[w].version # v
    BY <2>1 DEF FitInv
  <2> QED
    BY <1>0, <2>2, <2>3 DEF Effect
<1> QED
  BY <1>1, <1>2 DEF FitInv, NothingOfADefect

\* Neither a corrupt, malformed, infected nor unreadable document is ever taken
\* for processed, however many slots work on it, die or stall and whenever its
\* result would be accepted (handle, every step of which raises).
THEOREM OnlyFitDocumentsComplete == Spec => []NothingOfADefect
<1>1. Init => FitInv
  BY DEF Init, FitInv, NothingOfADefect, NoRows, IdleWorker, Attempt
<1>2. FitInv => NothingOfADefect
  BY DEF FitInv
<1> QED
  BY <1>1, <1>2, FitInvStep, ValueInvariant, PTL DEF Spec
\* A field that is not a suggestion was matched in the text of version v.
FromText(f, v) ==
  f.source = "local" =>
    \E i \in DOMAIN text[v] : text[v][i].key = f.key /\ text[v][i].value = f.value

\* A value that a row gives as read by the worker, neither suggested nor
\* corrected, is in the text of the row's own version under the row's key.
RowIsRead(v, k, row) ==
  row.source = "local" /\ row.value # "null" =>
    \E i \in DOMAIN text[v] : text[v][i].key = k /\ text[v][i].value = row.value

ValuesAreRead ==
  \A v \in Version : \A k \in DOMAIN rows[v] : RowIsRead(v, k, rows[v][k])

\* So is what slots carry and what artifacts hold.
OriginInv ==
  /\ \A w \in Worker : work[w].step \in {"write", "return"} =>
       \A j \in DOMAIN work[w].fields : FromText(work[w].fields[j], work[w].version)
  /\ \A v \in DOMAIN artifact : \A j \in DOMAIN artifact[v] : FromText(artifact[v][j], v)
  /\ ValuesAreRead

\* The local fields come from the matches and the suggestions say what they are.
LEMMA FieldsOrigin ==
  ASSUME NEW v \in Version, text[v] \in Texts, NEW s \in AnalysisAnswer,
         NEW fields, fields = WithSuggestions(LocalFields(text[v]), s), NEW j \in DOMAIN fields
  PROVE  FromText(fields[j], v)
<1> DEFINE a == LocalFields(text[v])
           b == [i \in DOMAIN s |-> Found(s[i], "ai", TRUE)]
<1>1. text[v] \in Seq([key : RequiredKey, value : Value]) /\ s \in Seq([key : Key, value : Value])
  BY EmptySeq DEF AnalysisAnswer
<1>2. /\ DOMAIN a = DOMAIN text[v] /\ DOMAIN text[v] = 1 .. Len(text[v]) /\ Len(text[v]) \in Nat
      /\ \A i \in DOMAIN a : a[i] = Found(text[v][i], "local", FALSE)
  BY <1>1, LenProperties DEF LocalFields
<1>3. /\ DOMAIN b = DOMAIN s /\ DOMAIN s = 1 .. Len(s) /\ Len(s) \in Nat
      /\ \A i \in DOMAIN b : b[i] = Found(s[i], "ai", TRUE)
  BY <1>1, LenProperties
<1>4. fields = a \o b
  BY DEF WithSuggestions
<1> DEFINE F == {a[i] : i \in DOMAIN a} \cup {b[i] : i \in DOMAIN b}
<1> HIDE DEF a, b
<1>5. a \in [1 .. Len(text[v]) -> F] /\ b \in [1 .. Len(s) -> F]
  <2>1. \A i \in DOMAIN a : a[i] \in F
    OBVIOUS
  <2>2. \A i \in DOMAIN b : b[i] \in F
    OBVIOUS
  <2>3. a = [i \in DOMAIN a |-> a[i]] /\ b = [i \in DOMAIN b |-> b[i]]
    BY DEF a, b, LocalFields
  <2> QED
    BY <1>2, <1>3, <2>1, <2>2, <2>3
<1> HIDE DEF F
<1>6. /\ a \in Seq(F) /\ Len(a) \in Nat /\ DOMAIN a = 1 .. Len(a)
      /\ b \in Seq(F) /\ Len(b) \in Nat /\ DOMAIN b = 1 .. Len(b)
  <2>0. Len(text[v]) \in Nat /\ Len(s) \in Nat
    BY <1>2, <1>3
  <2>1. a \in Seq(F)
    BY <1>5, <2>0, SeqDef
  <2>2. b \in Seq(F)
    BY <1>5, <2>0, SeqDef
  <2> QED
    BY <2>1, <2>2, LenProperties
<1>7. a \o b \in Seq(F) /\ Len(a \o b) = Len(a) + Len(b)
  BY <1>6, ConcatProperties
<1>8. \A i \in 1 .. Len(a) + Len(b) : fields[i] = IF i <= Len(a) THEN a[i] ELSE b[i - Len(a)]
  BY <1>4, <1>6, ConcatProperties
<1>9. j \in 1 .. Len(a) + Len(b)
  BY <1>4, <1>7, LenProperties
<1>10. CASE j <= Len(a)
  <2>1. j \in DOMAIN a /\ fields[j] = a[j]
    BY <1>6, <1>8, <1>9, <1>10
  <2>2. fields[j] = Found(text[v][j], "local", FALSE) /\ j \in DOMAIN text[v]
    BY <1>2, <2>1
  <2> QED
    BY <2>2 DEF FromText, Found
<1>11. CASE ~(j <= Len(a))
  <2>1. j - Len(a) \in 1 .. Len(b) /\ fields[j] = b[j - Len(a)]
    BY <1>6, <1>8, <1>9, <1>11
  <2>2. fields[j] = Found(s[j - Len(a)], "ai", TRUE)
    BY <1>3, <1>6, <2>1
  <2> QED
    BY <2>2 DEF FromText, Found
<1> QED
  BY <1>10, <1>11

\* The record of a key is that of a field with the key, or a placeholder; a
\* row that is kept was there before.
LEMMA PersistOrigin ==
  ASSUME NEW v \in Version, NEW r \in RowTable, NEW fields \in Seq(WorkerField),
         \A j \in DOMAIN fields : FromText(fields[j], v),
         \A k \in DOMAIN r : RowIsRead(v, k, r[k]),
         NEW k \in DOMAIN PersistFields(r, fields)
  PROVE  RowIsRead(v, k, PersistFields(r, fields)[k])
<1> DEFINE b == BuildFieldRecords(fields)
<1>1. \/ k \in DOMAIN r /\ PersistFields(r, fields)[k] = r[k]
      \/ k \in DOMAIN b /\ PersistFields(r, fields)[k] = b[k]
  BY DEF PersistFields
<1>2. ASSUME k \in DOMAIN b PROVE RowIsRead(v, k, b[k])
  <2>1. CASE k \in GivenKeys(fields)
    <3>1. PICK i \in DOMAIN fields : fields[i].key = k /\ LastField(fields, k) = fields[i]
      BY <2>1, LastIsGiven
    <3>2. b[k] = Row(fields[i])
      BY <2>1, <3>1 DEF BuildFieldRecords
    <3>3. b[k].source = fields[i].source /\ b[k].value = fields[i].value
      BY <3>2 DEF Row
    <3>4. FromText(fields[i], v)
      OBVIOUS
    <3> QED
      BY <3>1, <3>3, <3>4 DEF RowIsRead, FromText
  <2>2. CASE k \notin GivenKeys(fields)
    <3>1. b[k] = Row(Placeholder(k))
      BY <1>2, <2>2 DEF BuildFieldRecords
    <3>2. b[k].value = "null"
      BY <3>1 DEF Row, Placeholder
    <3> QED
      BY <3>2 DEF RowIsRead
  <2> QED
    BY <2>1, <2>2
<1> QED
  BY <1>1, <1>2

LEMMA OriginStep == ValueInv /\ OriginInv /\ [Next]_vars => OriginInv'
<1> SUFFICES ASSUME ValueInv, OriginInv, [Next]_vars PROVE OriginInv'
  OBVIOUS
<1>0. Effect /\ \A w \in Worker : SlotInv(w)
  BY EffectStep DEF ValueInv, PipelineInv
<1>1. UNCHANGED text
  BY <1>0 DEF Effect, document
<1>2. ASSUME NEW w \in Worker, work'[w].step \in {"write", "return"}, NEW j \in DOMAIN work'[w].fields
      PROVE  FromText(work[w].fields[j], work[w].version)'
  <2>1. CASE work[w].step = "extract" /\ \E s \in AnalysisAnswer :
               work'[w].fields = WithSuggestions(LocalFields(text[work[w].version]), s)
    <3>1. work[w].version \in Version /\ text[work[w].version] \in Texts
      BY <1>0, <2>1 DEF SlotInv, ValueInv, DocumentInv
    <3>2. work'[w].version = work[w].version
      BY <1>0, <1>2, <2>1 DEF Effect
    <3>3. FromText(work'[w].fields[j], work[w].version)
      <4>1. PICK s \in AnalysisAnswer :
              work'[w].fields = WithSuggestions(LocalFields(text[work[w].version]), s)
        BY <2>1
      <4> QED BY ONLY <1>2, <3>1, <4>1, FieldsOrigin
    <3> QED
      BY <1>1, <3>2, <3>3 DEF FromText
  <2>2. CASE /\ work[w].step \in {"write", "return"}
             /\ work'[w].version = work[w].version /\ work'[w].fields = work[w].fields
    BY <1>1, <1>2, <2>2 DEF OriginInv, FromText
  <2> QED
    BY <1>0, <1>2, <2>1, <2>2 DEF Effect
<1>3. ASSUME NEW v \in DOMAIN artifact', NEW j \in DOMAIN artifact'[v]
      PROVE  FromText(artifact[v][j], v)'
  <2>1. FromText(artifact'[v][j], v)
    BY <1>0, <1>3 DEF Effect, OriginInv
  <2> QED
    BY <1>1, <2>1 DEF FromText
<1>4. ASSUME NEW v \in Version, NEW k \in DOMAIN rows'[v]
      PROVE  RowIsRead(v, k, rows[v][k])'
  <2>1. /\ rows[v] \in RowTable /\ \A l \in DOMAIN rows[v] : RowIsRead(v, l, rows[v][l])
        /\ v \in DOMAIN artifact => artifact[v] \in Seq(WorkerField)
    BY DEF ValueInv, ApiInv, ArtifactInv, OriginInv, ValuesAreRead
  <2>2. RowIsRead(v, k, rows'[v][k])
    <3>1. CASE rows'[v] = rows[v]
      BY <1>4, <2>1, <3>1
    <3>2. CASE v \in DOMAIN artifact /\ rows'[v] = PersistFields(rows[v], artifact[v])
      <4>1. \A j \in DOMAIN artifact[v] : FromText(artifact[v][j], v)
        BY <3>2 DEF OriginInv
      <4> QED
        BY <1>4, <2>1, <3>2, <4>1, PersistOrigin
    <3>3. ASSUME NEW l \in DOMAIN rows[v], rows'[v] = [rows[v] EXCEPT ![l] = CorrectedRow]
          PROVE  RowIsRead(v, k, rows'[v][k])
      <4>1. DOMAIN rows'[v] = DOMAIN rows[v]
        BY <3>3
      <4>2. rows'[v][k] = IF k = l THEN CorrectedRow ELSE rows[v][k]
        BY <1>4, <3>3, <4>1
      <4> QED
        BY <1>4, <2>1, <4>1, <4>2 DEF RowIsRead, CorrectedRow
    <3> QED
      BY <1>0, <3>1, <3>2, <3>3 DEF Effect
  <2> QED
    BY <1>1, <2>2 DEF RowIsRead
<1> QED
  BY <1>2, <1>3, <1>4 DEF OriginInv, ValuesAreRead

\* A value shown as read by the worker is in the text of that version, under
\* that key: attempts that overlap, stall or write again never put one
\* version's values, or a suggestion, there (artifact keys are derived from the
\* version; buildFieldRecords).
THEOREM ValuesComeFromTheText == Spec => []ValuesAreRead
<1>1. Init => OriginInv
  BY DEF Init, OriginInv, ValuesAreRead, NoRows, IdleWorker, Attempt
<1>2. OriginInv => ValuesAreRead
  BY DEF OriginInv
<1> QED
  BY <1>1, <1>2, OriginStep, ValueInvariant, PTL DEF Spec

-----------------------------------------------------------------------------
(* What EveryJobEnds rests on.                                             *)

\* A job is active exactly while a slot holds its lock.
LockInv == \A v \in Version : job[v] = "active" <=> holder[v] # NoWorker

\* Every job has what its next step needs: a job being worked on a lock that
\* ends with the attempt or expires, a job that is tried again an attempt
\* left, and a completed one an artifact that can be accepted.
JobIsAttended ==
  /\ LockInv
  /\ AttemptsLeft
  /\ \A v \in Version : job[v] = "completed" => v \in DOMAIN artifact

\* Only Take locks, and only what ends or stalls an attempt unlocks.
LEMMA LockStep == ValueInv /\ LockInv /\ [Next]_vars => LockInv'
<1> SUFFICES ASSUME ValueInv, LockInv, [Next]_vars PROVE LockInv'
  OBVIOUS
<1>0. /\ job \in [Version -> JobState] /\ holder \in [Version -> Worker \cup {NoWorker}]
      /\ \A w \in Worker : work[w].step # "idle" => work[w].version \in Version
  BY DEF ValueInv, QueueInv, QueueTypeOK, PipelineInv, SlotInv
<1>1. CASE UNCHANGED <<job, holder>>
  BY <1>1 DEF LockInv
<1>2. ASSUME NEW v \in Version, NEW j, NEW h, job' = [job EXCEPT ![v] = j],
             holder' = [holder EXCEPT ![v] = h], j = "active" <=> h # NoWorker
      PROVE  LockInv'
  BY <1>0, <1>2 DEF LockInv
<1>3. ASSUME NEW w \in Worker, Take(w) PROVE LockInv'
  BY <1>2, <1>3 DEF Take, TakeJob
<1>4. ASSUME NEW w \in Worker, work[w].step # "idle", Raise(w) PROVE LockInv'
  <2>1. CASE holder[work[w].version] = w
    <3>1. PICK j \in {"delayed", "failed"} : job' = [job EXCEPT ![work[w].version] = j]
      BY <1>4, <2>1 DEF Raise, FailAttempt
    <3>2. holder' = [holder EXCEPT ![work[w].version] = NoWorker]
      BY <1>4, <2>1 DEF Raise
    <3> QED
      BY <1>0, <1>2, <1>4, <3>1, <3>2
  <2>2. CASE holder[work[w].version] # w
    BY <1>1, <1>4, <2>2 DEF Raise, queueVars
  <2> QED
    BY <2>1, <2>2
<1>5. ASSUME NEW w \in Worker, Return(w) PROVE LockInv'
  <2>1. CASE holder[work[w].version] = w
    <3>1. work[w].version \in Version
      BY <1>0, <1>5 DEF Return
    <3>2. /\ job' = [job EXCEPT ![work[w].version] = "completed"]
          /\ holder' = [holder EXCEPT ![work[w].version] = NoWorker]
      BY <1>5, <2>1 DEF Return, FinishJob
    <3> QED
      BY <1>0, <3>1, <3>2 DEF LockInv
  <2>2. CASE holder[work[w].version] # w
    BY <1>1, <1>5, <2>2 DEF Return, queueVars
  <2> QED
    BY <2>1, <2>2
<1>6. ASSUME NEW w \in Worker, NEW from, NEW to, Goto(w, from, to) PROVE LockInv'
  BY <1>1, <1>6 DEF Goto, queueVars
<1>7. ASSUME NEW w \in Worker, Load(w) \/ Scan(w) \/ Promote(w) \/ Extract(w) \/ Write(w)
      PROVE  LockInv'
  BY <1>1, <1>4, <1>6, <1>7 DEF Load, Scan, Promote, Extract, Write, queueVars
<1>8. ASSUME NEW w \in Worker, CallFails(w) \/ Dies(w) PROVE LockInv'
  BY <1>1, <1>4, <1>8 DEF CallFails, Dies, queueVars
<1>9. ASSUME NEW v \in Version, Stall(v) PROVE LockInv'
  BY <1>2, <1>9 DEF Stall, StallJob
<1>10. ASSUME NEW v \in Version, Retry(v) PROVE LockInv'
  BY <1>0, <1>10 DEF Retry, RetryJob, LockInv
<1>11. ASSUME NEW v \in Version, Accept(v) \/ Correct(v) PROVE LockInv'
  BY <1>1, <1>11 DEF Accept, Correct, queueVars
<1>12. CASE UNCHANGED vars
  BY <1>1, <1>12 DEF vars, queueVars
<1> QED
  BY <1>3, <1>5, <1>7, <1>8, <1>9, <1>10, <1>11, <1>12 DEF Next, Progress

\* No job is stranded, for any number of slots and failures: a slot that ends
\* under the lock finds the job active, a lost lock leaves it waiting or failed
\* (process in main.py; the attempts of queue.add).
THEOREM NoJobIsStranded == Spec => []JobIsAttended
<1>1. Init => LockInv
  BY DEF Init, LockInv
<1>2. ValueInv /\ LockInv => JobIsAttended
  BY DEF JobIsAttended, ValueInv, QueueInv, PipelineInv, StorageInv
<1> QED
  BY <1>1, <1>2, LockStep, ValueInvariant, PTL DEF Spec

-----------------------------------------------------------------------------
(* Deliveries of a result in any number and order.                         *)

\* The two ways persist leaves a row: as it was, or as the result has it.
LEMMA PersistedRow ==
  ASSUME NEW r \in RowTable, NEW fields, fields # <<>>
  PROVE  /\ DOMAIN PersistFields(r, fields) = DOMAIN r \cup DOMAIN BuildFieldRecords(fields)
         /\ \A k \in DOMAIN PersistFields(r, fields) :
              PersistFields(r, fields)[k] =
                IF \/ k \notin DOMAIN BuildFieldRecords(fields)
                   \/ k \in DOMAIN r /\ r[k].source = "human"
                  THEN r[k] ELSE BuildFieldRecords(fields)[k]
  BY DEF PersistFields

\* What persist returns is a function.
LEMMA PersistIsFunction ==
  ASSUME NEW r \in RowTable, NEW fields, fields # <<>>
  PROVE  PersistFields(r, fields)
           = [k \in DOMAIN PersistFields(r, fields) |-> PersistFields(r, fields)[k]]
<1> DEFINE b == BuildFieldRecords(fields)
           p == [k \in DOMAIN r \cup DOMAIN b |->
                  IF \/ k \notin DOMAIN b
                     \/ k \in DOMAIN r /\ r[k].source = "human"
                    THEN r[k] ELSE b[k]]
<1>1. PersistFields(r, fields) = p
  BY DEF PersistFields
<1>2. p = [k \in DOMAIN p |-> p[k]]
  OBVIOUS
<1> QED
  BY <1>1, <1>2

\* For any rows and any result, delivering the result once more changes no
\* row: the second acceptance of finding accepted_twice costs an audit event
\* and no field.
THEOREM PersistingAgainChangesNothing ==
  ASSUME NEW r \in RowTable, NEW fields \in Seq(WorkerField)
  PROVE  PersistFields(PersistFields(r, fields), fields) = PersistFields(r, fields)
<1>1. CASE fields = <<>>
  BY <1>1 DEF PersistFields
<1>2. CASE fields # <<>>
  <2> DEFINE p == PersistFields(r, fields)
             q == PersistFields(p, fields)
             b == BuildFieldRecords(fields)
  <2>1. p \in RowTable
    BY PersistKeeps
  <2>2. /\ DOMAIN p = DOMAIN r \cup DOMAIN b
        /\ \A k \in DOMAIN p :
             p[k] = IF k \notin DOMAIN b \/ (k \in DOMAIN r /\ r[k].source = "human")
                      THEN r[k] ELSE b[k]
    BY <1>2, PersistedRow
  <2>3. p = [k \in DOMAIN p |-> p[k]]
    BY <1>2, PersistIsFunction
  <2> HIDE DEF p
  <2>4. /\ DOMAIN q = DOMAIN p \cup DOMAIN b
        /\ \A k \in DOMAIN q :
             q[k] = IF k \notin DOMAIN b \/ (k \in DOMAIN p /\ p[k].source = "human")
                      THEN p[k] ELSE b[k]
    BY <1>2, <2>1, PersistedRow
  <2>5. q = [k \in DOMAIN q |-> q[k]]
    BY <1>2, <2>1, PersistIsFunction
  <2> HIDE DEF q, b
  <2>6. DOMAIN q = DOMAIN p
    BY <2>2, <2>4
  <2>7. ASSUME NEW k \in DOMAIN p
        PROVE  q[k] = p[k]
    <3>1. CASE k \notin DOMAIN b \/ p[k].source = "human"
      BY <2>4, <2>6, <3>1
    <3>2. CASE k \in DOMAIN b /\ p[k].source # "human"
      <4>1. q[k] = b[k]
        BY <2>4, <2>6, <3>2
      <4>2. p[k] = b[k]
        BY <2>2, <3>2
      <4> QED
        BY <4>1, <4>2
    <3> QED
      BY <3>1, <3>2
  <2>8. q = p
    BY <2>3, <2>5, <2>6, <2>7
  <2> QED
    BY <2>8 DEF p, q
<1> QED
  BY <1>1, <1>2

\* For any rows and any result, it makes no difference whether a reviewer
\* corrects a row before the result is delivered again or after: only a
\* delivery that read the row before the correction and saves it after
\* (finding correction_lost) can undo it.
THEOREM CorrectionCommutesWithDelivery ==
  ASSUME NEW r \in RowTable, NEW fields \in Seq(WorkerField), NEW k \in DOMAIN r
  PROVE  PersistFields([r EXCEPT ![k] = CorrectedRow], fields)
           = [PersistFields(r, fields) EXCEPT ![k] = CorrectedRow]
<1>1. CASE fields = <<>>
  BY <1>1 DEF PersistFields
<1>2. CASE fields # <<>>
  <2> DEFINE c == [r EXCEPT ![k] = CorrectedRow]
             p == PersistFields(r, fields)
             q == PersistFields(c, fields)
             b == BuildFieldRecords(fields)
  <2>1. c \in RowTable
    BY CorrectKeeps
  <2>2. /\ DOMAIN c = DOMAIN r /\ c[k] = CorrectedRow
        /\ \A j \in DOMAIN r \ {k} : c[j] = r[j]
    BY DEF RowTable
  <2> HIDE DEF c
  <2>3. /\ DOMAIN p = DOMAIN r \cup DOMAIN b
        /\ \A j \in DOMAIN p :
             p[j] = IF j \notin DOMAIN b \/ (j \in DOMAIN r /\ r[j].source = "human")
                      THEN r[j] ELSE b[j]
    BY <1>2, PersistedRow
  <2>4. /\ DOMAIN q = DOMAIN c \cup DOMAIN b
        /\ \A j \in DOMAIN q :
             q[j] = IF j \notin DOMAIN b \/ (j \in DOMAIN c /\ c[j].source = "human")
                      THEN c[j] ELSE b[j]
    BY <1>2, <2>1, PersistedRow
  <2>5. p = [j \in DOMAIN p |-> p[j]] /\ q = [j \in DOMAIN q |-> q[j]]
    BY <1>2, <2>1, PersistIsFunction
  <2> HIDE DEF p, q, b
  <2>6. DOMAIN q = DOMAIN p /\ k \in DOMAIN p
    BY <2>2, <2>3, <2>4
  <2>7. q[k] = CorrectedRow
    BY <2>2, <2>4, <2>6 DEF CorrectedRow
  <2>8. ASSUME NEW j \in DOMAIN p, j # k
        PROVE  q[j] = p[j]
    BY <2>2, <2>3, <2>4, <2>6, <2>8
  <2> DEFINE e == [p EXCEPT ![k] = CorrectedRow]
  <2>9. /\ e = [j \in DOMAIN p |-> e[j]]
        /\ e[k] = CorrectedRow
        /\ \A j \in DOMAIN p : j # k => e[j] = p[j]
    BY <2>6
  <2> HIDE DEF e
  <2>10. q = e
    BY <2>5, <2>6, <2>7, <2>8, <2>9
  <2> QED
    BY <2>10 DEF q, e, c, p
<1> QED
  BY <1>1, <1>2

\* A version shows all the required fields or none at all.
RequiredFieldsAreShown ==
  \A v \in Version : DOMAIN rows[v] # {} => RequiredKey \subseteq DOMAIN rows[v]

\* For any texts, suggestions, attempts and deliveries, whatever little the
\* worker found and whoever corrected what: where there is a field there is a
\* row for every required one (the placeholders of buildFieldRecords).
THEOREM RequiredFieldsArePresent == Spec => []RequiredFieldsAreShown
<1>1. Init => RequiredFieldsAreShown
  BY DEF Init, NoRows, RequiredFieldsAreShown
<1>2. ASSUME ValueInv, RequiredFieldsAreShown, [Next]_vars
      PROVE  RequiredFieldsAreShown'
  <2> SUFFICES ASSUME NEW v \in Version, DOMAIN rows'[v] # {}
               PROVE  RequiredKey \subseteq DOMAIN rows'[v]
    BY DEF RequiredFieldsAreShown
  <2>0. rows[v] \in RowTable /\ (DOMAIN rows[v] # {} => RequiredKey \subseteq DOMAIN rows[v])
    BY <1>2 DEF ValueInv, ApiInv, RequiredFieldsAreShown
  <2>1. CASE rows'[v] = rows[v]
    BY <2>0, <2>1
  <2>2. CASE rows'[v] = PersistFields(rows[v], artifact[v]) /\ artifact[v] # <<>>
    <3>1. RequiredKey \subseteq DOMAIN BuildFieldRecords(artifact[v])
      BY DEF BuildFieldRecords
    <3>2. DOMAIN PersistFields(rows[v], artifact[v])
            = DOMAIN rows[v] \cup DOMAIN BuildFieldRecords(artifact[v])
      BY <2>0, <2>2, PersistedRow
    <3> QED
      BY <2>2, <3>1, <3>2
  <2>3. CASE rows'[v] = PersistFields(rows[v], artifact[v]) /\ artifact[v] = <<>>
    BY <2>0, <2>3 DEF PersistFields
  <2>4. CASE \E k \in DOMAIN rows[v] : rows'[v] = [rows[v] EXCEPT ![k] = CorrectedRow]
    BY <2>0, <2>4
  <2> QED
    BY <1>2, <2>1, <2>2, <2>3, <2>4, EffectStep DEF Effect
<1> QED
  BY <1>1, <1>2, ValueInvariant, PTL DEF Spec

-----------------------------------------------------------------------------
(* The attempts, step by step, and the attempts as module Processing has   *)
(* them, in one step.                                                      *)

\* What Processing lets worker and queue do to a job (WorkerStep, StallJob).
\* A job ends well only with what its result refers to in the storage.
AttemptStep ==
  \E v \in Version :
    \/ TakeJob(v) \/ FailAttempt(v) \/ RetryJob(v) \/ StallJob(v)
    \/ FinishJob(v) /\ v \in clean /\ v \in DOMAIN artifact

\* However many attempts of a job overlap, die, stall and fail half-way, the
\* queue sees of them what it would see of attempts that are one step each: a
\* slot that lost the lock changes nothing there (Raise, Return).  This is why
\* Processing may take an attempt as one step.
THEOREM AttemptsAreOneStep == Spec => [][AttemptStep]_queueVars
<1>1. ASSUME PipelineInv, NEW w \in Worker, work[w].step # "idle", Raise(w)
      PROVE  [AttemptStep]_queueVars
  <2>1. work[w].version \in Version
    BY <1>1 DEF PipelineInv, SlotInv
  <2> QED
    BY <1>1, <2>1 DEF Raise, AttemptStep
<1>2. ASSUME PipelineInv, NEW w \in Worker, Return(w)
      PROVE  [AttemptStep]_queueVars
  <2>1. /\ work[w].version \in Version /\ work[w].version \in clean
        /\ work[w].version \in DOMAIN artifact
    BY <1>2 DEF PipelineInv, SlotInv, Return
  <2>2. FinishJob(work[w].version) \/ UNCHANGED queueVars
    BY <1>2 DEF Return
  <2> QED
    BY <2>1, <2>2 DEF AttemptStep
<1>3. ASSUME PipelineInv, NEW w \in Worker, Load(w) \/ Scan(w) \/ Extract(w) \/ CallFails(w)
      PROVE  [AttemptStep]_queueVars
  <2>1. CASE Raise(w)
    <3>1. work[w].step # "idle"
      BY <1>3 DEF Load, Scan, Extract, CallFails
    <3> QED
      BY <1>1, <1>3, <2>1, <3>1
  <2>2. CASE ~Raise(w)
    BY <1>3, <2>2 DEF Load, Scan, Extract, CallFails, Goto
  <2> QED
    BY <2>1, <2>2
<1>4. ASSUME NEW w \in Worker, Promote(w) \/ Write(w) \/ Dies(w)
      PROVE  UNCHANGED queueVars
  BY <1>4 DEF Promote, Write, Dies, Goto
<1>5. ASSUME NEW w \in Worker, Take(w)
      PROVE  AttemptStep
  BY <1>5 DEF Take, AttemptStep
<1>6. ASSUME NEW v \in Version, Stall(v) \/ Retry(v)
      PROVE  AttemptStep
  BY <1>6 DEF Stall, Retry, AttemptStep
<1>7. ASSUME NEW v \in Version, Accept(v) \/ Correct(v)
      PROVE  UNCHANGED queueVars
  BY <1>7 DEF Accept, Correct
<1>8. PipelineInv /\ [Next]_vars => [AttemptStep]_queueVars
  <2>1. UNCHANGED vars => UNCHANGED queueVars
    BY DEF vars
  <2> QED
    BY <1>2, <1>3, <1>4, <1>5, <1>6, <1>7, <2>1 DEF Next, Progress
<1> QED
  BY <1>8, PipelineInvariant, PTL DEF Spec
==============================================================================
