---------------------------- MODULE WorkerPipeline -----------------------------
(***************************************************************************)
(* The attempts of module JobQueue, step by step: load, scan, promote,     *)
(* extract, write and return (document_processing.py, handle), with what   *)
(* they leave in the object storage, and the acceptance of their result.   *)
(*                                                                         *)
(* An attempt may die or fail between any two steps and is tried again     *)
(* from the first.  Scanning and OCR run on the event loop that also       *)
(* renews the lock of the job, so the job may stall and be given to        *)
(* another worker while its first attempt goes on.  Both write the same    *)
(* keys.  Only the holder of the lock ends the job.                        *)
(*                                                                         *)
(* A document is known by its defect: "corrupt" if its bytes do not have   *)
(* the hash of the version, "malformed" if validate_signature refuses      *)
(* them, "malware" if the scanner finds some, "unreadable" if they cannot  *)
(* be parsed or decoded.                                                   *)
(***************************************************************************)
EXTENDS JobQueue, ExtractedFields

CONSTANTS
  Worker,      \* the slots in which attempts run, over all processes
  NoWorker,    \* the holder of a job that is locked by none
  Texts,       \* the texts a document may have
  Suggestions, \* the suggestions analyze_text may give
  MaxFaults,   \* bound on failures: see Fault
  MaxAccepted  \* bound on acceptances of a result (see ResultAcceptedOnce)

ASSUME WorkerPipelineAssumption ==
  /\ NoWorker \notin Worker
  /\ MaxFaults \in Nat
  /\ MaxAccepted \in Nat \ {0}
  /\ Texts \subseteq Seq([key : RequiredKey, value : Value])
  /\ Suggestions \subseteq Seq([key : Key, value : Value])

DefectKind == {"none", "corrupt", "malformed", "malware", "unreadable"}

VARIABLES
  defect,   \* defect[v]: what is wrong with the document of version v
  text,     \* text[v]: the matches in its text
  work,     \* work[w]: the attempt running in slot w
  holder,   \* holder[v]: the slot whose lock on the job is the valid one
  clean,    \* the versions whose object is in the zone clean/
  artifact, \* the objects derived/.../extracted.json: version to fields
  readable, \* the versions with a clean row in stored_artifacts
  rows,     \* rows[v]: the rows of extracted_fields, by key
  accepted, \* accepted[v]: how often the result was persisted
  faults    \* failures so far

document == <<defect, text>>
storeVars == <<clean, artifact>>
apiVars == <<readable, rows, accepted>>
vars == <<document, queueVars, work, holder, storeVars, apiVars, faults>>

Attempt(step, v, fields) == [step |-> step, version |-> v, fields |-> fields]
IdleWorker == Attempt("idle", NoVersion, <<>>)

Init ==
  /\ defect \in [Version -> DefectKind]
  /\ text \in [Version -> Texts]
  /\ job = [v \in Version |-> "waiting"]
  /\ attempts = [v \in Version |-> 0]
  /\ events = {}
  /\ lost = [v \in Version |-> FALSE]
  /\ work = [w \in Worker |-> IdleWorker]
  /\ holder = [v \in Version |-> NoWorker]
  /\ clean = {}
  /\ artifact = <<>>
  /\ readable = {}
  /\ rows = [v \in Version |-> NoRows]
  /\ accepted = [v \in Version |-> 0]
  /\ faults = 0

\* Crashes, calls that fail and locks that are lost are counted.
Fault == faults < MaxFaults /\ faults' = faults + 1

-----------------------------------------------------------------------------
(* The ends of an attempt.                                                 *)

Take(w) ==
  /\ work[w].step = "idle"
  /\ \E v \in Version :
       /\ TakeJob(v)
       /\ work' = [work EXCEPT ![w] = Attempt("load", v, <<>>)]
       /\ holder' = [holder EXCEPT ![v] = w]
  /\ UNCHANGED <<document, storeVars, apiVars, faults>>

\* consume and process raise again whatever was raised: BullMQ counts a failed
\* attempt, whether the failure was classified retryable or not.
Raise(w) ==
  LET v == work[w].version IN
  /\ work' = [work EXCEPT ![w] = IdleWorker]
  /\ IF holder[v] = w
       THEN /\ FailAttempt(v)
            /\ holder' = [holder EXCEPT ![v] = NoWorker]
       ELSE UNCHANGED <<queueVars, holder>>
  /\ UNCHANGED <<document, storeVars, apiVars>>

\* The compact result is returned.  Without the lock it is refused.
Return(w) ==
  LET v == work[w].version IN
  /\ work[w].step = "return"
  /\ work' = [work EXCEPT ![w] = IdleWorker]
  /\ IF holder[v] = w
       THEN FinishJob(v) /\ holder' = [holder EXCEPT ![v] = NoWorker]
       ELSE UNCHANGED <<queueVars, holder>>
  /\ UNCHANGED <<document, storeVars, apiVars, faults>>

-----------------------------------------------------------------------------
(* The steps of an attempt.                                                *)

\* Slot w is done with a step and goes on to the next one with the same fields.
Goto(w, from, to) ==
  /\ work[w].step = from
  /\ work' = [work EXCEPT ![w] = Attempt(to, @.version, @.fields)]
  /\ UNCHANGED <<document, queueVars, holder, apiVars>>

\* read_object compares the hash; a mismatch raises.
HashDiffers(d) == d = "corrupt"

Load(w) ==
  /\ work[w].step = "load"
  /\ IF HashDiffers(defect[work[w].version])
       THEN Raise(w)
       ELSE Goto(w, "load", "scan") /\ UNCHANGED storeVars
  /\ UNCHANGED faults

SignatureRefused(d) == d = "malformed"

\* The scanner's line, "NONE" if it does not answer or not understandably.
ScannerAnswers(d) == {"NONE", IF d = "malware" THEN "FOUND" ELSE "OK"}

\* Mutant: only "FOUND" stops a document.
PassesUnlessFound(answer) == answer # "FOUND"

\* virus_scan fails closed: only "OK" is SCAN_PASSED.
ScanPasses(answer) == answer = "OK"

\* validate_signature, then the scanner.
Scan(w) ==
  LET d == defect[work[w].version] IN
  /\ work[w].step = "scan"
  /\ IF SignatureRefused(d)
       THEN Raise(w) /\ UNCHANGED faults
       ELSE \E answer \in ScannerAnswers(d) :
              /\ IF answer = "NONE" THEN Fault ELSE UNCHANGED faults
              /\ IF ScanPasses(answer)
                   THEN Goto(w, "scan", "promote") /\ UNCHANGED storeVars
                   ELSE Raise(w)

\* promote_clean copies the object to its key in clean/, again if need be.
Promote(w) ==
  /\ Goto(w, "promote", "extract")
  /\ clean' = clean \cup {work[w].version}
  /\ UNCHANGED <<artifact, faults>>

\* Parsers and decoders raise.
CannotBeDecoded(d) == d = "unreadable"

\* analyze_text is off, fails, or gives suggestions.
AnalysisAnswer == {<<>>} \cup Suggestions

\* The text, its fields, and the suggestions if there are any.
Extract(w) ==
  LET v == work[w].version IN
  /\ work[w].step = "extract"
  /\ IF CannotBeDecoded(defect[v])
       THEN Raise(w)
       ELSE /\ \E s \in AnalysisAnswer :
                 work' = [work EXCEPT ![w] =
                   Attempt("write", v, WithSuggestions(LocalFields(text[v]), s))]
            /\ UNCHANGED <<document, queueVars, holder, storeVars, apiVars>>
  /\ UNCHANGED faults

PutArtifact(v, fields) ==
  artifact' = [u \in DOMAIN artifact \cup {v} |-> IF u = v THEN fields ELSE artifact[u]]

\* Mutant: the write is not awaited, and its failure not noticed.
WriteLater(w) ==
  /\ Goto(w, "write", "return")
  /\ UNCHANGED <<clean, faults>>
  /\ \/ artifact' = [artifact EXCEPT ![work[w].version] = work[w].fields]
     \/ UNCHANGED artifact

\* put_json replaces what an earlier attempt left under the key.
Write(w) ==
  /\ Goto(w, "write", "return")
  /\ PutArtifact(work[w].version, work[w].fields)
  /\ UNCHANGED <<clean, faults>>

\* A call of the storage, the parser or the OCR engine fails.
CallFails(w) ==
  /\ work[w].step \in {"load", "promote", "extract", "write"}
  /\ Fault
  /\ Raise(w)

\* The process dies; its lock stays until it expires.
Dies(w) ==
  /\ work[w].step # "idle"
  /\ work' = [work EXCEPT ![w] = IdleWorker]
  /\ Fault
  /\ UNCHANGED <<document, queueVars, holder, storeVars, apiVars>>

Abandoned(v) == \A w \in Worker : holder[v] = w => work[w].version # v

\* The lock expires: nobody works under it, or the one who does was blocked
\* for longer than it lasts, a fault.
Stall(v) ==
  /\ StallJob(v)
  /\ holder' = [holder EXCEPT ![v] = NoWorker]
  /\ IF Abandoned(v) THEN UNCHANGED faults ELSE Fault
  /\ UNCHANGED <<document, work, storeVars, apiVars>>

Retry(v) ==
  /\ RetryJob(v)
  /\ UNCHANGED <<document, work, holder, storeVars, apiVars, faults>>

-----------------------------------------------------------------------------
(* The API.                                                                *)

\* handleCompleted reads the artifact and persistCompletion stores the result.
\* Which deliveries get here is the subject of module Processing; more than
\* one may.  The rows are read and saved in one step because no correction is
\* committed in between: persistCompletion appends to the audit trail, and so
\* has its lock until it commits (processing-results.service.ts:115), before it
\* calls persist (:129), and correctField must append (reviews.service.ts:65)
\* before it commits.  Module Reviews has these steps apart, with the lock.
Accept(v) ==
  /\ job[v] = "completed"
  /\ v \in DOMAIN artifact
  /\ accepted[v] < MaxAccepted
  /\ accepted' = [accepted EXCEPT ![v] = @ + 1]
  /\ readable' = readable \cup {v}
  /\ rows' = [rows EXCEPT ![v] = PersistFields(rows[v], artifact[v])]
  /\ UNCHANGED <<document, queueVars, work, holder, storeVars, faults>>

\* A reviewer corrects a field (module Reviews has the interleavings).
Correct(v) ==
  /\ \E k \in DOMAIN rows[v] : rows' = [rows EXCEPT ![v][k] = CorrectedRow]
  /\ UNCHANGED <<document, queueVars, work, holder, storeVars, readable,
                 accepted, faults>>

-----------------------------------------------------------------------------
Progress(w) == Load(w) \/ Scan(w) \/ Promote(w) \/ Extract(w) \/ Write(w) \/ Return(w)

Next ==
  \/ \E w \in Worker : Take(w) \/ Progress(w) \/ CallFails(w) \/ Dies(w)
  \/ \E v \in Version : Stall(v) \/ Retry(v) \/ Accept(v) \/ Correct(v)

Spec == Init /\ [][Next]_vars

\* Idle slots take jobs, every call of an attempt has a timeout, BullMQ promotes
\* delayed jobs and looks for expired locks, and a completed job reaches the API
\* by its event or by the reconciler.
Fairness ==
  /\ WF_vars(\E w \in Worker : Take(w))
  /\ \A w \in Worker : WF_vars(Progress(w))
  /\ \A v \in Version : /\ WF_vars(Abandoned(v) /\ Stall(v)) /\ WF_vars(Retry(v))
                        /\ WF_vars(accepted[v] = 0 /\ Accept(v))

FairSpec == Spec /\ Fairness

-----------------------------------------------------------------------------
TypeOK ==
  /\ QueueTypeOK
  /\ defect \in [Version -> DefectKind]
  /\ text \in [Version -> Texts]
  /\ \A w \in Worker :
       /\ work[w].step \in {"idle", "load", "scan", "promote", "extract", "write", "return"}
       /\ work[w].version \in Version \cup {NoVersion}
  /\ holder \in [Version -> Worker \cup {NoWorker}]
  /\ clean \in SUBSET Version
  /\ DOMAIN artifact \subseteq Version
  /\ readable \in SUBSET Version
  /\ \A v \in Version : /\ DOMAIN rows[v] \subseteq Key
                        /\ \A k \in DOMAIN rows[v] : rows[v][k] \in FieldRow
  /\ accepted \in [Version -> 0 .. MaxAccepted]
  /\ faults \in 0 .. MaxFaults

\* Nothing the scanner did not pass is ever in the clean zone or offered for
\* reading, however attempts fail, die, stall and overlap.
\* (virus_scan fails closed, promote_clean after it; the retry starts over.)
OnlyScannedIsReadable ==
  \A v \in clean \cup readable : defect[v] \in {"none", "unreadable"}

\* A job is completed only when what its result refers to is there, whichever
\* attempt wrote it, and what a reader is offered is there too.
\* (The order of handle; the keys are deterministic.)
ResultIsBacked ==
  /\ \A v \in Version : job[v] = "completed" => v \in clean /\ v \in DOMAIN artifact
  /\ readable \subseteq clean

\* Whatever attempt's artifact was read, and however often, a suggestion or a
\* missing value is put to a reviewer.
\* (classifyReviewState; README.md: suggestions are always reviewable.)
SuggestionsAwaitReview ==
  \A v \in Version : \A k \in DOMAIN rows[v] : AwaitsReview(rows[v][k])

\* A job that waits is accepted or, its attempts exhausted, fails: no defect,
\* crash or overlap of attempts leaves it between the two.
\* (process in main.py; the attempts of queue.add.)
EveryJobEnds ==
  \A v \in Version : job[v] = "waiting" ~> accepted[v] > 0 \/ job[v] = "failed"

\* However often a result is accepted, from whichever attempt's artifact, no
\* row disappears and none a reviewer corrected is the worker's again.
\* (persist in extracted-fields.service.ts: rows are found by their keys, and a
\* result has the lock of the audit trail while it reads and saves them.)
FieldsStand ==
  [][\A v \in Version : \A k \in DOMAIN rows[v] :
       /\ k \in DOMAIN rows'[v]
       /\ rows[v][k].source = "human" => rows'[v][k].source = "human"]_vars
==============================================================================
