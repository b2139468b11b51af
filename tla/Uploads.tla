------------------------------- MODULE Uploads -------------------------------
(***************************************************************************)
(* How the versions of one document come to be received, from the browser  *)
(* (documents-api.ts, DocumentVersionCompare.tsx) over the API             *)
(* (document-versions.service.ts) to the storage, and how the pages read   *)
(* them back (document-version-query.service.ts).                          *)
(*                                                                         *)
(* A transaction that locks what it reads is one step: Transactions has    *)
(* its statements.  What is apart here is what no transaction spans: the   *)
(* calls of a client, the look at the stored object before the             *)
(* transaction of a confirmation, and the two queries of a list.           *)
(*                                                                         *)
(* A file is known by its SHA-256; a signed URL pins it, so what is stored *)
(* for a version is what its row announced.                                *)
(***************************************************************************)
EXTENDS Versions

CONSTANTS
  Client,     \* browsers that show the document
  Direct,     \* other clients of the API, which confirm what they like
  Content,    \* the contents of files
  NoContent,
  MaxFailures \* bound on calls that fail, answers that are lost and restarts

ASSUME UploadsAssumption ==
  /\ Client \cap Direct = {}
  /\ NoContent \notin Content
  /\ MaxFailures \in Nat

VARIABLES
  state,    \* state[v]: document_versions.state, "absent" if no row
  sha256,   \* sha256[v]: document_versions.sha256
  agreed,   \* versions whose request said confirmDuplicate
  document, \* documents: the current version and the status
  stored,   \* versions whose object is in quarantine
  client,   \* client[c]: where an upload or a reload of browser c is
  request,  \* request[r]: the confirmation the API serves for r
  failures

vars == <<state, sha256, agreed, document, stored, client, request, failures>>

State == {"absent", "UPLOADING", "SCAN_QUEUED", "READY_FOR_REVIEW", "REJECTED"}
Received == State \ {"absent", "UPLOADING"}

\* The form is disabled while an upload runs; otherwise the user may use it.
\* "done": the last upload succeeded; "idle": there was none, or it was
\* declined, or it failed and the page says so.
AtRest == {"idle", "done"}
Calling == {"create", "recreate", "put", "confirm", "confirming", "document", "versions", "version"}

\* "ask": the dialog that asks whether to upload a duplicate.
Step == AtRest \cup Calling \cup {"ask"}

At(step, v, f, seen) == [step |-> step, version |-> v, file |-> f, seen |-> seen]
Idle == At("idle", NoVersion, NoContent, NoVersion)
Browser == [step : Step, version : Version \cup {NoVersion},
            file : Content \cup {NoContent}, seen : Version \cup {NoVersion}]

Requester == Client \cup Direct
NoRequest == [step |-> "none", version |-> NoVersion]
Confirmation == [step : {"none", "verify", "save"}, version : Version \cup {NoVersion}]

\* A client that uploads or has uploaded knows its version.
TypeOK ==
  /\ state \in [Version -> State]
  /\ sha256 \in [Version -> Content \cup {NoContent}]
  /\ \A v \in Version : state[v] = "absent" <=> sha256[v] = NoContent
  /\ agreed \in SUBSET Version
  /\ document \in [current : Version \cup {NoVersion}, status : State \cup {"PROCESSING"}]
  /\ stored \in SUBSET Version
  /\ client \in [Client -> Browser]
  /\ \A c \in Client : client[c].step \in {"create", "ask", "recreate"} => client[c].file # NoContent
  /\ \A c \in Client : client[c].step \in {"put", "confirm", "confirming"} => client[c].version # NoVersion
  /\ request \in [Requester -> Confirmation]
  /\ \A r \in Requester : request[r].step # "none" => request[r].version # NoVersion
  /\ failures \in 0 .. MaxFailures

\* POST /documents was answered: its caller has a signed URL for version 1.
Init ==
  /\ state = [v \in Version |-> IF v = 1 THEN "UPLOADING" ELSE "absent"]
  /\ \E f \in Content : sha256 = [v \in Version |-> IF v = 1 THEN f ELSE NoContent]
  /\ agreed = {}
  /\ document = [current |-> NoVersion, status |-> "UPLOADING"]
  /\ stored = {}
  /\ \E creator \in Client :
       client = [c \in Client |-> IF c = creator THEN At("put", 1, NoContent, NoVersion) ELSE Idle]
  /\ request = [r \in Requester |-> NoRequest]
  /\ failures = 0

-----------------------------------------------------------------------------
(* The browser.                                                            *)

Fails(c) ==
  /\ failures < MaxFailures
  /\ failures' = failures + 1
  /\ client' = [client EXCEPT ![c] = Idle]

\* The answer of a call arrives, or is lost though the call had its effect.
Answered(c, next) ==
  \/ client' = [client EXCEPT ![c] = next] /\ UNCHANGED failures
  \/ Fails(c)

\* The call has no effect; or, of a confirmation, the client stops waiting
\* for the answer while the API goes on.
CallFails(c) ==
  /\ client[c].step \in Calling
  /\ Fails(c)
  /\ UNCHANGED <<state, sha256, agreed, document, stored, request>>

\* submitVersion.  MaxVersion bounds what is submitted.
Submit(c, f) ==
  /\ client[c].step \in AtRest
  /\ state[MaxVersion] = "absent"
  /\ client' = [client EXCEPT ![c] = At("create", NoVersion, f, NoVersion)]
  /\ UNCHANGED <<state, sha256, agreed, document, stored, request, failures>>

\* A page of the document is opened, or opened again.
OpenPage(c) ==
  /\ client[c].step \in AtRest
  /\ client' = [client EXCEPT ![c] = At("document", NoVersion, NoContent, NoVersion)]
  /\ UNCHANGED <<state, sha256, agreed, document, stored, request, failures>>

\* Mutant: only contents that were received count.
ReceivedAlready(f) == \E v \in Version : sha256[v] = f /\ state[v] # "UPLOADING"

AlreadyExists(f) == \E v \in Version : sha256[v] = f

\* create answers 409: nothing is written, the browser asks.
RefuseDuplicate(c) ==
  /\ client[c].step = "create"
  /\ AlreadyExists(client[c].file)
  /\ Answered(c, At("ask", NoVersion, client[c].file, NoVersion))
  /\ UNCHANGED <<state, sha256, agreed, document, stored, request>>

AnswerDialog(c) ==
  /\ client[c].step = "ask"
  /\ \E next \in {[client[c] EXCEPT !.step = "recreate"], Idle} :
       client' = [client EXCEPT ![c] = next]
  /\ UNCHANGED <<state, sha256, agreed, document, stored, request, failures>>

\* Mutant: the browser takes the id of the document for the version's.
NamesNoVersion(v) == At("put", NoVersion, NoContent, NoVersion)

Uploading(v) == At("put", v, NoContent, NoVersion)

\* create: the document is locked, so the next number is free.
InsertVersion(c, v) ==
  /\ \/ client[c].step = "create" /\ ~AlreadyExists(client[c].file)
     \/ client[c].step = "recreate"
  /\ state[v] = "absent" /\ \A w \in Version : w < v => state[w] # "absent"
  /\ state' = [state EXCEPT ![v] = "UPLOADING"]
  /\ sha256' = [sha256 EXCEPT ![v] = client[c].file]
  /\ agreed' = IF client[c].step = "recreate" THEN agreed \cup {v} ELSE agreed
  /\ Answered(c, Uploading(v))
  /\ UNCHANGED <<document, stored, request>>

\* The bound on versions is reached by another client's.
NoNumberLeft(c) ==
  /\ client[c].step \in {"create", "recreate"}
  /\ state[MaxVersion] # "absent"
  /\ client' = [client EXCEPT ![c] = Idle]
  /\ UNCHANGED <<state, sha256, agreed, document, stored, request, failures>>

\* Mutant: the upload ends with the PUT.
PutOnly(c) ==
  /\ client[c].step = "put"
  /\ stored' = stored \cup {client[c].version}
  /\ Answered(c, Idle)
  /\ UNCHANGED <<state, sha256, agreed, document, request>>

\* The signed PUT; its answer may be lost as well.
Put(c) ==
  /\ client[c].step = "put"
  /\ stored' = stored \cup {client[c].version}
  /\ Answered(c, [client[c] EXCEPT !.step = "confirm"])
  /\ UNCHANGED <<state, sha256, agreed, document, request>>

\* Mutant: the confirmation is sent and not awaited.
ConfirmNotAwaited(c) ==
  /\ client[c].step = "confirm"
  /\ request[c].step = "none"
  /\ request' = [request EXCEPT ![c] = [step |-> "verify", version |-> client[c].version]]
  /\ client' = [client EXCEPT ![c].step = "document"]
  /\ UNCHANGED <<state, sha256, agreed, document, stored, failures>>

\* POST confirm-upload.  Bound: the API serves one confirmation of a client.
PostConfirmation(c) ==
  /\ client[c].step = "confirm"
  /\ request[c].step = "none"
  /\ request' = [request EXCEPT ![c] = [step |-> "verify", version |-> client[c].version]]
  /\ client' = [client EXCEPT ![c].step = "confirming"]
  /\ UNCHANGED <<state, sha256, agreed, document, stored, failures>>

\* Mutant: the newest version is taken for the current one.
NewestVersion(c) ==
  /\ client[c].step = "document"
  /\ client' = [client EXCEPT ![c].step = "versions",
                  ![c].seen = CHOOSE v \in Version : /\ state[v] # "absent"
                                                     /\ \A w \in Version : w > v => state[w] = "absent"]
  /\ UNCHANGED <<state, sha256, agreed, document, stored, request, failures>>

\* list, and DocumentDetailPage: first the document ...
ReadDocument(c) ==
  /\ client[c].step = "document"
  /\ client' = [client EXCEPT ![c].step = "versions", ![c].seen = document.current]
  /\ UNCHANGED <<state, sha256, agreed, document, stored, request, failures>>

\* ... then the versions, which others may have changed in between: here a
\* reload and the page of the history end ...
ReadVersions(c) ==
  /\ client[c].step = "versions"
  /\ client' = [client EXCEPT ![c].seen = NoVersion,
                  ![c].step = IF client[c].version = NoVersion THEN "idle" ELSE "done"]
  /\ UNCHANGED <<state, sha256, agreed, document, stored, request, failures>>

\* ... and the page of the document goes on to the version it shows, ...
OpenVersion(c) ==
  /\ client[c].step = "versions" /\ client[c].version = NoVersion
  /\ client' = [client EXCEPT ![c].step = "version"]
  /\ UNCHANGED <<state, sha256, agreed, document, stored, request, failures>>

\* ... which it shows as current if the document it read first says so.
ReadVersion(c) ==
  /\ client[c].step = "version"
  /\ client' = [client EXCEPT ![c] = Idle]
  /\ UNCHANGED <<state, sha256, agreed, document, stored, request, failures>>

-----------------------------------------------------------------------------
(* The API and what follows a confirmation.                                *)

\* Another client confirms a version, at any time and as often as it likes.
ConfirmDirectly(d, v) ==
  /\ request[d].step = "none"
  /\ state[v] # "absent"
  /\ request' = [request EXCEPT ![d] = [step |-> "verify", version |-> v]]
  /\ UNCHANGED <<state, sha256, agreed, document, stored, client, failures>>

\* Mutant: a refused confirmation is not answered.
AnswerAccepted(r, step) ==
  /\ request' = [request EXCEPT ![r] = NoRequest]
  /\ client' = IF r \in Client /\ client[r].step = "confirming" /\ step # "idle"
                 THEN [client EXCEPT ![r].step = step] ELSE client

\* The API is done with a confirmation; its client may have given up.  The
\* form of a new document does not reload, its page is opened.
EndRequest(r, step) ==
  /\ request' = [request EXCEPT ![r] = NoRequest]
  /\ client' = IF r \in Client /\ client[r].step = "confirming"
                 THEN [client EXCEPT ![r] = IF step = "idle" THEN Idle ELSE [@ EXCEPT !.step = step]]
                 ELSE client

\* Mutant: the object is not looked at.
VerifyNothing(r) ==
  /\ request[r].step = "verify"
  /\ request' = [request EXCEPT ![r].step = "save"]
  /\ UNCHANGED <<state, sha256, agreed, document, stored, client, failures>>

\* verifyUploadedObject: HEAD, before the transaction.
Verify(r) ==
  /\ request[r].step = "verify"
  /\ IF request[r].version \in stored
       THEN request' = [request EXCEPT ![r].step = "save"] /\ UNCHANGED client
       ELSE EndRequest(r, "idle")
  /\ UNCHANGED <<state, sha256, agreed, document, stored, failures>>

\* Mutant: the state is not looked at again.
SaveAgain(r) ==
  /\ request[r].step = "save"
  /\ state' = [state EXCEPT ![request[r].version] = "SCAN_QUEUED"]
  /\ document' = [document EXCEPT !.status = "PROCESSING"]
  /\ EndRequest(r, IF request[r].version = 1 THEN "done" ELSE "document")
  /\ UNCHANGED <<sha256, agreed, stored, failures>>

\* The transaction of confirm.
SaveConfirmation(r) ==
  /\ request[r].step = "save"
  /\ IF state[request[r].version] = "UPLOADING"
       THEN /\ state' = [state EXCEPT ![request[r].version] = "SCAN_QUEUED"]
            /\ document' = [document EXCEPT !.status = "PROCESSING"]
            /\ EndRequest(r, IF request[r].version = 1 THEN "done" ELSE "document")
       ELSE EndRequest(r, "idle") /\ UNCHANGED <<state, document>>
  /\ UNCHANGED <<sha256, agreed, stored, failures>>

\* The API stops while it serves a confirmation.
ApiStops(r) ==
  /\ request[r].step # "none"
  /\ failures < MaxFailures
  /\ failures' = failures + 1
  /\ EndRequest(r, "idle")
  /\ UNCHANGED <<state, sha256, agreed, document, stored>>

\* What persistCompletion makes of the document, sooner or later.
Complete(v) ==
  /\ state[v] = "SCAN_QUEUED"
  /\ state' = [state EXCEPT ![v] = "READY_FOR_REVIEW"]
  /\ document' = IF v > document.current
                   THEN [current |-> v, status |-> "READY_FOR_REVIEW"] ELSE document
  /\ UNCHANGED <<sha256, agreed, stored, client, request, failures>>

Reject(v) ==
  /\ state[v] = "SCAN_QUEUED"
  /\ state' = [state EXCEPT ![v] = "REJECTED"]
  /\ document' = [document EXCEPT !.status =
                    IF document.current = NoVersion THEN "REJECTED" ELSE state[document.current]]
  /\ UNCHANGED <<sha256, agreed, stored, client, request, failures>>

-----------------------------------------------------------------------------
UserStep(c) == OpenPage(c) \/ AnswerDialog(c) \/ \E f \in Content : Submit(c, f)

ClientStep(c) ==
  \/ RefuseDuplicate(c) \/ NoNumberLeft(c) \/ \E v \in Version : InsertVersion(c, v)
  \/ Put(c) \/ PostConfirmation(c) \/ ReadDocument(c) \/ ReadVersions(c)
  \/ OpenVersion(c) \/ ReadVersion(c)

ApiStep(r) == Verify(r) \/ SaveConfirmation(r)

Next ==
  \/ \E c \in Client : UserStep(c) \/ ClientStep(c) \/ CallFails(c)
  \/ \E r \in Requester : ApiStep(r) \/ ApiStops(r)
  \/ \E d \in Direct, v \in Version : ConfirmDirectly(d, v)
  \/ \E v \in Version : Complete(v) \/ Reject(v)

Spec == Init /\ [][Next]_vars

\* Calls are answered or fail; users and other clients are under no obligation.
Fairness ==
  /\ \A c \in Client : WF_vars(ClientStep(c))
  /\ \A r \in Requester : WF_vars(ApiStep(r))

FairSpec == Spec /\ Fairness

-----------------------------------------------------------------------------
\* A version that is queued, ready or rejected has its object: the worker is
\* never sent for bytes that were not uploaded, whoever confirmed (confirm,
\* the HEAD that precedes its transaction).
ConfirmedIsStored == \A v \in Version : state[v] \in Received => v \in stored

\* No content is uploaded a second time unless the user agreed to it: of two
\* versions with one hash the later was created by a request that said so
\* (spec.md, a duplicate needs explicit confirmation; create, the 409).
NoSilentDuplicate ==
  \A v, w \in Version : v < w /\ sha256[v] = sha256[w] /\ state[w] # "absent" => w \in agreed

\* A page that reports an upload as done tells the truth: its version was
\* received, whoever else confirms at the same time and whatever is lost
\* (createDocument and uploadDocumentVersion, the awaited confirmation).
SuccessIsReceived ==
  \A c \in Client : client[c].step = "done" => state[client[c].version] \in Received

\* What a page shows as the current version it shows ready for review: the
\* queries that follow, whenever they run, find the version the first one named
\* so (list; findOne, after what DocumentDetailPage read).
CurrentIsShownReady ==
  \A c \in Client : client[c].step \in {"versions", "version"} /\ client[c].seen # NoVersion
                     => state[client[c].seen] = "READY_FOR_REVIEW"

\* Uploads keep the document's specification; it has a review for every
\* version that is ready.
Doc == INSTANCE Documents WITH
         versionState <- state, current <- document.current, status <- document.status,
         reviewed <- {v \in Version : state[v] = "READY_FOR_REVIEW"}

\* With browsers and other clients confirming at any time, the document does
\* only what its specification allows: no confirmation is taken twice, no
\* number skipped (confirm, the state that is read again).
ImplementsDocuments == Doc!DocSpec

\* Every upload and every reload ends, or waits for the user's answer: no
\* page stays disabled (submitVersion, the finally).
UploadEnds ==
  \A c \in Client : client[c].step \in Calling ~> client[c].step \in AtRest \cup {"ask"}

\* A version is left UPLOADING for ever only if a call failed (documents-api.ts;
\* nothing removes such a version, and its content counts as a duplicate).
NothingIsLeftBehind ==
  \A v \in Version : state[v] = "UPLOADING" ~> state[v] # "UPLOADING" \/ failures > 0
==============================================================================
