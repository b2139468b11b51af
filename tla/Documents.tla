------------------------------ MODULE Documents ------------------------------
(***************************************************************************)
(* One document and its numbered versions: the rows of documents,          *)
(* document_versions and reviews that uploading and processing write.      *)
(*                                                                         *)
(* DocSpec is what the document promises whatever the queue does: it says  *)
(* nothing of locks, runs, jobs or events.  Transactions and Processing    *)
(* implement it.                                                           *)
(*                                                                         *)
(* A version is its number.  Hashes, names and sizes are left out: they    *)
(* decide whether a request is refused (400, 404, 409), and a refused      *)
(* request changes nothing.                                                *)
(***************************************************************************)
EXTENDS Versions

VARIABLES
  versionState, \* versionState[v]: document_versions.state, "absent" if no row
  current,      \* documents.current_version_id, NoVersion while NULL
  status,       \* documents.status
  reviewed      \* the versions that have a row in reviews

docVars == <<versionState, current, status, reviewed>>

VersionState ==
  {"absent", "UPLOADING", "SCAN_QUEUED", "READY_FOR_REVIEW", "REJECTED"}

DocumentStatus == VersionState \cup {"PROCESSING"}

DocTypeOK ==
  /\ versionState \in [Version -> VersionState]
  /\ current \in Version \cup {NoVersion}
  /\ status \in DocumentStatus
  /\ reviewed \in SUBSET Version

-----------------------------------------------------------------------------
\* POST /documents inserts the document and its version 1, both UPLOADING.
DocInit ==
  /\ versionState = [v \in Version |-> IF v = 1 THEN "UPLOADING" ELSE "absent"]
  /\ current = NoVersion
  /\ status = "UPLOADING"
  /\ reviewed = {}

\* POST /documents/:id/versions.  The document row is locked, so the next
\* number is the latest one plus one.
CreateVersion(v) ==
  /\ versionState[v] = "absent"
  /\ \A w \in Version : w < v => versionState[w] # "absent"
  /\ versionState' = [versionState EXCEPT ![v] = "UPLOADING"]
  /\ UNCHANGED <<current, status, reviewed>>

\* POST /document-versions/:id/confirm once the stored object was verified.
\* Of two concurrent confirmations the second loses on the unique
\* idempotency key of the run and rolls back.
ConfirmVersion(v) ==
  /\ versionState[v] = "UPLOADING"
  /\ versionState' = [versionState EXCEPT ![v] = "SCAN_QUEUED"]
  /\ status' = "PROCESSING"
  /\ UNCHANGED <<current, reviewed>>

\* What persistCompletion writes for outcome "completed": the version becomes
\* current only if no newer version is, and it gets a review if it has none.
CompletedEffect(v) ==
  /\ versionState' = [versionState EXCEPT ![v] = "READY_FOR_REVIEW"]
  /\ IF v > current
       THEN current' = v /\ status' = "READY_FOR_REVIEW"
       ELSE UNCHANGED <<current, status>>
  /\ reviewed' = reviewed \cup {v}

\* What persistCompletion writes for outcome "rejected": the document falls
\* back to the state of its current version, if it has one.
RejectedEffect(v) ==
  /\ versionState' = [versionState EXCEPT ![v] = "REJECTED"]
  /\ status' = IF current = NoVersion THEN "REJECTED" ELSE versionState'[current]
  /\ UNCHANGED <<current, reviewed>>

\* The promise: a version is completed once, whatever the queue redelivers;
\* only the status of a rejected version may be written again.
CompleteVersion(v) == versionState[v] = "SCAN_QUEUED" /\ CompletedEffect(v)

RejectVersion(v) ==
  versionState[v] \in {"SCAN_QUEUED", "REJECTED"} /\ RejectedEffect(v)

DocNext ==
  \E v \in Version : \/ CreateVersion(v)
                     \/ ConfirmVersion(v)
                     \/ CompleteVersion(v)
                     \/ RejectVersion(v)

DocSpec == DocInit /\ [][DocNext]_docVars

-----------------------------------------------------------------------------
\* The current version is the newest one that is ready for review, in
\* whatever order the versions were confirmed and their results arrived
\* (persistCompletion, the comparison of version numbers).
CurrentIsNewestReady ==
  /\ current # NoVersion => versionState[current] = "READY_FOR_REVIEW"
  /\ \A v \in Version : versionState[v] = "READY_FOR_REVIEW" => v <= current

\* The document never goes back to an older version, and the version that was
\* current stays readable: no step takes it out of READY_FOR_REVIEW.
CurrentNeverRegresses ==
  [][/\ current' >= current
     /\ current # NoVersion => versionState'[current] = "READY_FOR_REVIEW"]_docVars

\* The status a list or a search shows agrees with the versions: REJECTED is
\* shown only when no version is usable, READY_FOR_REVIEW only when one is,
\* PROCESSING only while a result is awaited or after the one of a version
\* older than the current one, which does not take the status back.
StatusIsJustified ==
  /\ status = "REJECTED" => /\ \A v \in Version : versionState[v] # "READY_FOR_REVIEW"
                            /\ \E v \in Version : versionState[v] = "REJECTED"
  /\ status = "READY_FOR_REVIEW" => current # NoVersion
  /\ status = "UPLOADING" => \A v \in Version : versionState[v] \in {"absent", "UPLOADING"}
  /\ status = "PROCESSING" =>
       \E v \in Version : \/ versionState[v] = "SCAN_QUEUED"
                          \/ versionState[v] = "READY_FOR_REVIEW" /\ v < current
==============================================================================
