# TLA+ specifications of DocDeploy

DocDeploy receives documents, scans and extracts them in a worker, has people
review them and keeps an audit trail. This directory holds TLA+ modules that
model its core, the TLC configurations that check them on small instances, and
TLAPS proofs of what matters most for every size.

    tlc -workers 2 -config Pipeline.cfg MCPipeline      # one run
    tlapm ProcessingProofs.tla                          # one proof module

`PROJECT.json` lists the runs, the source lines every definition models, the
hazards the properties are for, the theorems, and one mutant for every checked
property: a wrong version of a definition, kept beside it and marked `Mutant`,
under which the run must fail.

## The system

| Component | State | Operations | Interacts with |
|---|---|---|---|
| Document versions (`document-versions.service.ts`, `documents.service.ts`) | `documents`, `document_versions` | create a document, create a version, confirm an upload | looks at the storage before a confirmation, which inserts the run and the outbox row in the same transaction |
| Outbox publisher (`outbox-publisher.service.ts`, migration 0025) | `outbox_events` and its claims | `publishPending`, every second, in every API process | adds jobs to the queue, stamps the run with the job id |
| Job queue (BullMQ, Redis) | jobs, attempts, event stream | add, take, retry, stall, announce | worker, listener, reconciler |
| Worker (`worker/app`) | objects in storage | scan, promote, extract, OCR, suggest, write | one attempt of a job: a compact result, or a failure |
| QueueEvents listener (`queue-events.listener.ts`) | none of its own | `active`, `completed`, `failed` callbacks, not awaited | reads the job, writes the run, calls result persistence |
| Result persistence (`processing-results.service.ts`) | `processing_runs`, versions, documents, reviews, artifacts, fields | `persistCompletion`, the transition table | audit, extracted fields |
| Reconciler (`processing-reconciler.service.ts`, migration 006) | none of its own | `reconcile`, every 30 s | lists runs, looks jobs up, resets outbox rows, recovers completions |
| Reprocessing (`processing.controller.ts`) | run, outbox row | administrative retry | unique constraints of both tables |
| Reviews, extracted fields (`reviews.service.ts`, `extracted-fields.service.ts`) | reviews, tasks, comments, fields | correct, task, resolve, comment, decide | the rows result persistence writes; audit |
| Audit (`audit.service.ts`) | a hash chain per organization | append, query, export | called in every other transaction |
| Sessions (`auth.service.ts`) | `sessions` | login, rotate, revoke | the web client's renewal |
| Web client (`api-client.ts`) | the access token in memory | requests, renewal | sessions |
| Uploading and reading (`documents-api.ts`, the forms and pages of `features/documents`, `document-version-query.service.ts`, `storage.service.ts`) | the step of an upload, what a page has read; objects in quarantine | create, PUT, confirm; read document, versions, one version | document versions, storage; results that arrive meanwhile |
| Notifications, settings, search, the review panel, infrastructure | | | not modelled, see below |

What makes it hard. Every transaction is READ COMMITTED, and only some lock the
rows they read. The publisher's timer does not wait for the last execution, and
there may be several processes, so executions overlap; claims expire under slow
ones. Callbacks of the event stream are not awaited, the stream may lose
events, and the reconciler does the same work as the callbacks, at the same
time. Any process may die between two statements. The queue delivers at least
once.

What makes each part correct: versions and documents agree and never go back
(CurrentIsNewestReady, CurrentNeverRegresses, StatusIsJustified); the outbox
loses no job (PublishedJobIsQueuedOrLost); the reconciler can find what it must
repair (PublishedRunIsFindable); every confirmed upload gets its result
(UploadIsProcessed) and every completed job its run (CompletionIsRecovered); a
redelivered result changes nothing (Processing implements Documents); a review is
decided with no open task (NoDecisionWithOpenTasks) and once, a correction is not lost
(CorrectionsAreKept), a resolution is explained once, all of which the code breaks, but
only by requests that were overtaken (OnlyOvertakenDecideBesideTasks,
OnlyOvertakenChangeDecision, OnlyOvertakenLoseCorrections, OnlyOvertakenResolveTwice), and
no result takes a corrected field back (HumanValueStands); a refresh token is replaced once (TokenIsSpentOnce), a revoked
session is over (RevokedIsOver), the calls of a tab share one renewal (RenewalIsShared)
and end (CallEnds), and a browser that loses nothing is not taken for a reuse
(NoReuseWithoutLoss, which the code breaks); nothing is readable
that the scanner did not pass (OnlyScannedIsReadable), a completed job's objects exist
(ResultIsBacked), what nobody vouches for awaits review (SuggestionsAwaitReview), and
every job is accepted or fails (EveryJobEnds); transactions that lock the same rows in
different orders all end (EveryTransactionEnds) and lose no result (ResultIsStored), the
audit trail has one line (TrailDoesNotFork) and tells what happened (TrailTellsHistory);
only what is stored is received (ConfirmedIsStored), no content comes twice unasked
(NoSilentDuplicate), pages report and show what is so (SuccessIsReceived,
CurrentIsShownReady), uploads end (UploadEnds) and leave nothing behind unless a call failed
(NothingIsLeftBehind).

## Modules

`RunStates`, `Versions` — the transition table of `processing-results.service.ts`
and the names of versions. A version is its number. The idempotency key of a
run is derived from the version and its hash, so the version also names its
run, its outbox row and its job.

`Documents` — one document: `versionState`, `current`, `status`, `reviewed` are
the columns and rows of `documents`, `document_versions` and `reviews` that
uploading and processing write. `CreateVersion` and `ConfirmVersion` are the
two user operations, `CompletedEffect` and `RejectedEffect` the two branches of
`persistCompletion`. `DocSpec` is the abstract specification: a version is
completed once, and nothing is said of queues. `StatusIsJustified` is exact about
PROCESSING: a result of a version older than the current one does not take it back.

`Uploads` — the versions of one document from the browser to the storage and back.
`client[c]` is how far browser `c` is: `create`, `ask` (the dialog about a duplicate),
`recreate`, `put`, `confirm`, `confirming` are the awaits of `uploadDocumentVersion`,
`document`, `versions`, `version` the queries behind a page, with `seen` the version it
was told is current. `request[r]` is the confirmation the API serves for `r`: `verify` is
the HEAD before the transaction (`Verify`), `save` the transaction (`SaveConfirmation`),
and between them another client (`Direct`) may confirm, a result may arrive, the API may
stop. A call may fail with or without its effect (`CallFails`, `Answered`), and a browser
that gave up leaves its request behind. `Complete` and `Reject` are what the rest of the
system makes of a confirmed version. A file is its SHA-256, which the signed URL pins. The
module implements `Documents` through `INSTANCE Documents WITH …`: its rows are hidden in
the records `document` and `state`, and a version has a review exactly if it is ready.

`Reprocessing` — the administrative retry (`ReadRun`, `InsertRunAndEvent`) over the rows of
`processing_runs` and `outbox_events` and their unique constraints (`Insertable`). It is
proved about and has no run.

`Transactions` — the three transactions that write those rows, statement by statement:
creating a version (`BeginCreate` to `CommitCreate`), confirming an upload, and storing
a result, from `persistCompletion`. `transaction[t]` is what connection `t` runs and how
far it is; `holder` and `ahead` are PostgreSQL's row locks, the advisory lock of the
audit trail, and the queues for them. A statement that needs a lock another holds waits
(`Queue`); a commit or rollback hands each lock to the first in line (`Release`); a cycle
is found and one of its transactions rolled back (`BreakDeadlock`). Cycles do occur: a
result locks the trail (`AuditService.append`) before the document's row, the others the
row before the trail. A confirmation may even have saved SCAN_QUEUED over a version whose
result was stored while it waited; `InsertRows` (the rows of `stored_artifacts`,
`processing_runs` and `outbox_events`) then meets their unique keys, the artifact's first,
and rolls it back. What a transaction writes under its locks is applied when it commits.
A `save` that finds nothing to change takes no lock in the code, and does here.
`trail` is the organization's `audit_events` as far as this document is concerned; the
hash of an event covers its predecessor's, so the chain forks exactly if two events take
one place. Other documents' transactions would only hold the trail's lock for a while.

`JobQueue` — BullMQ as the code uses it, external to the repository: jobs with
deterministic ids, attempts and backoff, stalls, loss, and the event stream. An
attempt of the worker is one step here (`WorkerPipeline` has its steps); `Verdict` fixes the outcome of each version,
because it is a function of the same immutable bytes. `"rejected"` is accepted
by the API's contract and code; the worker in this repository reports a refused
file by raising, and never returns it.

`Outbox` — the rows of `outbox_events` and the loop of `publishPending`. A
`Cycle` is an execution; its name stands for its claim token. `step` says which
call comes next: `next` (take a row: `queue.add`), `stamp` (the transaction on
the run), `settle` (`complete_outbox_event(…, true)`), `release` (the `catch`).

`Processing` — composes the four over the runs, with the callbacks and the
reconciler. `handler[a]` is the transaction an actor has open: `persist` and
`persistCompletion` read the run without a lock, decide, and save the whole
entity, so they are a read step (`ReadForMark`, `ReadForCompletion`) and a
commit step (`CommitMark`, `CommitCompletion`) with anything in between. The
commit is one step because its first UPDATE locks the row until the end. Other
transactions write without having read, or lock what they read, and are one
step. `faults` counts crashes, failed calls, stalls, lost jobs and claims that
outlive a live cycle.

`Reviews` — one review, its tasks and one extracted field. Every request of
`ReviewsService` is a transaction that reads without a lock (`ReadReview`,
`CountOpenTasks`, `ReadReviewForTask`, `ReadOpenTask`, `ReadField`), decides, and saves.
`transaction[r]` holds the entity it will save. `manager.save` reads the row again
(`Reload`) and updates the columns in which the entity differs from what it then read
(`Saved`), so a stale entity may replace some columns and leave others: a first task may
leave a review IN_REVIEW whose decision is APPROVED. The UPDATE and the commit are one
step (`Save…`), as the row stays locked between them. `ReadFieldForResult` and `SaveResult`
are `ExtractedFieldsService.persist` for a result that is persisted again: run
`accepted_twice` shows how that happens. Its value is any of `Extracted`, because an
attempt that ran again may have extracted something else. Every request appends to the
organization's audit trail and holds its lock until it ends: a reviewer's after it saved,
`persistCompletion` before it reads the fields (`processing-results.service.ts:115`, `:129`).
So while a result is storing fields nothing else commits (`TrailIsFree`); what would
deadlock over it is rolled back (`Abort`). `comments[k]` counts the rows of
`review_comments` that `resolveTask` inserts. Two variables are history: `corrections`, and
`overtaken`, the open requests that have read a row which another one has written since
(`Touches`). The review and its set of open tasks count as one row here: a decision that
counts the tasks after a new one was committed is overtaken, and sees the task.

`Sessions` — the rows of `sessions` and `rotateRefreshToken`: finding and comparing
the token (`Present`) is apart from the UPDATE that compares again (`Rotate`,
`RotationLost`) or the revocation (`RevokeFamily`). Any cookie of any session may be
presented at any time. `spent` is a history variable. All three end in a 401, also
`Rotate`: `auth.service.ts:100` takes the pair of rows and their number, which TypeORM
returns for an UPDATE on PostgreSQL, for the rows.

`WebClient` — the browser over `Sessions`: calls (`apiRequest`), the renewal a tab
shares between its calls (`renewal[b]` is `refreshPromise`, `answer[o]` the request
of renewal `o` and its answer), and the cookie all tabs share. An answer may be lost
at any point; the server does not notice and goes on serving the request. As no renewal is
granted, `SettleRenewal` settles the promise with null, the calls that await it fail, and
the second attempt of a call never happens: left out.

`ExtractedFields` — the fields of a version as pure operators: what the worker finds
in a text (`LocalFields`), what the optional analysis adds (`WithSuggestions`), and what
`ExtractedFieldsService` makes of them: of the fields with one key the last one counts
(`LastField`), the required keys get placeholders (`BuildFieldRecords`), a row nobody
vouches for needs review (`ClassifyReviewState`), and a second result refreshes every
row a reviewer has not corrected (`PersistFields`). A value is known by what the code
asks of it ("text", "blank", "null"), a confidence by whether it is below the threshold.

`WorkerPipeline` — the attempts of `JobQueue`, step by step. A slot of a worker process
goes through `Load`, `Scan`, `Promote`, `Extract`, `Write` and `Return`, the awaits of
`handle` in `document_processing.py`; between any two of them it may die, and a call may
fail (`CallFails`, `Raise`). `holder[v]` is the slot whose lock on the job is valid.
Scanning and OCR run on the loop that renews the lock, so a job may stall while its
attempt goes on (`Stall`), and two attempts write the same objects; BullMQ refuses the
result of the one that lost the lock. `clean` and `artifact` are the objects in storage,
whose keys are derived from the version, `readable` the rows that offer an object for
reading, `rows` the extracted fields. `Accept` is what the API makes of a completed job
as far as these are concerned. `Correct` is a reviewer. `Accept` reads and saves the rows
in one step, though `persist` has a read (`extracted-fields.service.ts:79`) and a save (`:91`):
`persistCompletion` has the lock of the audit trail from its append
(`processing-results.service.ts:115`) to its commit, `persist` (`:129`) is in between, and
`correctField` cannot commit without that lock (`reviews.service.ts:65`), so no correction
is committed between the two. `Reviews` has them apart, and `HumanValueStands` holds there.
A document is known by its defect.

`…Proofs` — theorems. `MCProcessing`, `MCWebClient`, `MCPipeline` — values of the
constants for TLC.

Abstractions: TypeORM's `save` (reload, diff, UPDATE) is one step except in `Reviews`, where
both halves matter. In `Processing` a run is saved whole: a row that changes between save's own read and its
UPDATE keeps what the entity does not differ in, which is as if the save had come before
that change. Only the columns of a rejected result that found the run QUEUED, saved beside
an `active` callback, may come out mixed (ACTIVE without the job's id); the worker in this
repository returns no such result, and the reconciler would reset the outbox row.
In `Transactions` the rows that are saved are locked or new. Progress,
sanitized errors, results, hashes and artifacts are data no property tells
apart; the two LIMITs of 100 are never reached; `claim_outbox_events` takes all
claimable rows; the `publishPending` call of the reconciler is one more `Claim`;
one `reconcile` execution at a time; the worker sends no progress (the contract
says it does, `processing-queue.md:38`), so that callback never runs; which pages are
sent to OCR only changes the text that is found; the widths of columns are not modelled
(a suggested key of more than 64 characters makes the transaction of `Accept` fail).

## Runs

| Run | Bounds | Shows |
|---|---|---|
| `transactions` | 2 connections, 2 versions of any outcome, 1 lost connection | statement by statement the transactions implement the document's specification; what it promises in every order of confirmations and results; numbers and the audit trail; what may deadlock; every transaction ends, every result is stored |
| `two_versions` | 2 versions (one rejected), 1 cycle, 1 attempt, no failure | Processing implements Documents |
| `processing` | 1 version, 2 cycles, 1 callback and the reconciler, 2 attempts, 1 failure, lossy stream | nothing is lost by the outbox; the inductive invariant, types included; uploads get their result, completed jobs their run |
| `dead_letter` | no failure but exhausted attempts, no lost event | **violation**: the run of an exhausted job stays ACTIVE |
| `accepted_twice` | no failure | **violation**: two executions accept one result |
| `reviews` | 2 requests at once, 1 task, 2 values that both results and reviewers may give | however requests overlap, no result takes a field back from a reviewer, and only a request that was overtaken decides beside an open task, changes a final decision, loses a correction or resolves a task again; types |
| `decide_with_open_task` | 2 requests at once | **violation**: a task is opened between the count and the decision |
| `correction_lost` | 2 requests at once | **violation**: an accepted correction is neither current nor in the history |
| `one_tab` | 1 tab, 3 calls, 2 logins, 4 tokens, 1 lost answer | a token is replaced once; revocation is final; calls share one renewal; every call ends |
| `renewal_refused` | 1 tab, 1 call, 1 login, no lost answer | **violation**: the second renewal of a browser that lost nothing revokes its session |
| `pipeline` | 1 version with any defect and text, 2 slots, 3 attempts, 3 failures, a result accepted up to twice | nothing unscanned is readable, results are backed by objects, suggestions await review, rows and corrections stand, every job ends |
| `uploads` | 2 browsers, 1 other client, 2 versions, 2 contents, 1 failure | what is received is stored, duplicates were agreed to, pages tell the truth, Documents is implemented, uploads end and leave nothing behind |

Why the bounds are enough: rows of different versions meet only in the document
(whence `two_versions` and `transactions`) and in the loop of a cycle, which
handles them one by one. A claim is contended by two cycles, a run by two
actors. The run has one failure of any kind; for what takes more there are the
theorems, which hold of any number. A behaviour may stop when everything is settled, so
deadlock is not checked.

A lost update of a review needs two requests and nothing more, and the requests of two
tasks meet only in the review; `ReviewsProofs` has every size. In `one_tab` a second login
is a second session, and three calls let one start the renewal, one share it and one
come after it. Tokens are numbers up to `MaxToken`; `Budget` in `WebClient` lets a
call begin only if tokens are left for every call under way, so the bound never
blocks one. `RenewalIsShared` is about the calls of one tab: two tabs share the cookie but
not the promise; nothing in the code or its documents promises otherwise. `WebClientProofs`
has it for any number of tabs and calls.

In `pipeline` versions share nothing but the slots, so one is enough; two slots are what
overlapping attempts need, and with three attempts and three failures one may die,
one lose its lock and go on, and one succeed. The texts hold a match, a blank match and
none; the suggestions a new key, a key that was found locally, and one of blanks.

In `transactions` two connections are what a deadlock of two locks, a double confirmation,
a race for a number and a stale result need; `TransactionsProofs` covers more. Once
`MaxVersion` versions exist a request for another ends with nothing (`NoNumberLeft`).
The mutants of `LockForNumber`, `AppendEvent` and `InsertRows` show that neither the two
locks nor the unique keys can be left out (of the keys one is enough).

In `uploads` two browsers race for a number and for a content, the other client confirms
what a browser is about to confirm, and one failure is one lost answer, failed call or
restart; each version is a first and a second one. A browser has one confirmation in the
API at a time. `UploadsProofs` covers more.

Fairness of `Uploads`: a call is answered or fails (`ClientStep`), the API goes on with
what it serves (`ApiStep`). Users, other clients and failures are under no obligation, nor
are results: nothing promised there waits for one.

Fairness of `Transactions`: a connection goes on with its next statement, PostgreSQL grants
a lock in the order of the queue and finds deadlocks (`Progress`), and while a run is open
its result is delivered again (`BeginResult`), which is the reconciler's doing. Users are
under no obligation, and connections that are lost are counted by `MaxFailures`.

Fairness of `WebClient` (`FairSpec`): the API answers what it receives and a tab goes
on with what it is answered; `fetch` settles when an answer is lost. Users, losses
and the clock are under no obligation.

Fairness of `WorkerPipeline`: idle slots take jobs, every call of an attempt has a timeout
or ends (so `Progress` does), BullMQ promotes delayed jobs and finds locks that expired,
and a completed job reaches the API by its event or by the reconciler, which is what
`CompletionIsRecovered` says of `Processing`. A lock whose holder is at work need not
expire.

Fairness (`Fairness` in `Processing`): the two timers keep firing and what they
start goes on (`Claim`, `CycleStep`, `ReconcilerStep`), workers keep taking jobs,
open transactions end, an abandoned claim expires after its five minutes, and an
event is handled or lost. Users are under no obligation. Failures are bounded:
with endless failures nothing can be promised.

The violations are disagreements between the code and its own comments or
contract; `findings` in `PROJECT.json` quotes them. The unlocked read behind
`accepted_twice` also lets a slow callback save ACTIVE over a COMPLETED run;
`CompletionIsRecovered` shows that the next reconciliation repairs that. The run of
`dead_letter` is not repaired. A version confirmed after a newer one was completed
leaves its document PROCESSING; no statement of the repository says it should not, so
`StatusIsJustified` says that only this history may.

`renewal_refused` is why `WebClient` grants no renewal: the first one a browser asks for is
refused after it was committed, the second looks like reuse. `decide_with_open_task` and
`correction_lost` are rows that are read without a lock and saved later. The same is why
`reviews` can only say that a request was overtaken: a first task that read the review PENDING
saves IN_REVIEW over an APPROVED committed since (`reviews.service.ts:87`); two resolutions both
read a task OPEN (`:102`) and leave two comments; and a correction that confirms the value it
read does not write that column, so that a result committed meanwhile leaves its own value
there, under the reviewer's name (`:64`).

`reprocess` inserts a second run with the version, the operation and the processor version of
the first (`processing.controller.ts:69-72`), and `uq_processing_run_version_operation`
(migration 001, line 61) allows one. The comment at `processing.controller.ts:46-50` says "a
brand-new correlation is used so the new attempt is traceable"; `ReprocessingNeverWorks` proves
that there is never a new attempt, so no run shows it again.

Three more were seen while modelling and have no run, because one call shows
each. `persistCompletion` skips the extracted fields when the worker found none
(`processing-results.service.ts:128`), so the required ones get no placeholder, which
`extracted-fields.service.ts:40-42` says they always do; `RequiredFieldsArePresent` proves
that this is the only exception. A failure that
`classify_failure` calls permanent is raised and retried like any other
(`processing-queue.md:61` calls it irrecoverable); `EveryJobEnds` shows that the attempts
run out. `findOne` of a version reads the version before its document and may answer
`isCurrent` with an older state; no page uses it.

## Proofs

Constants are arbitrary: any number of versions, cycles, callbacks, attempts and
failures, any verdicts.

Every invariant and every action property the passing runs check is a theorem, as are the
refinements. Liveness is out of the prover's reach; of each liveness property the theorems
have the safety core instead, the statement that whoever waits still has somebody who will
go on:

| Liveness, checked by TLC | Its core, proved |
|---|---|
| `EveryTransactionEnds`, `ResultIsStored` | `NoWakeUpIsLost`, `OnlyResultsDeadlock` |
| `UploadIsProcessed`, `CompletionIsRecovered` | `NoUploadIsForgotten` |
| `EveryJobEnds` | `NoJobIsStranded` |
| `CallEnds` | `NoCallIsStranded` |
| `UploadEnds` | `NobodyWaitsUnserved` |
| `NothingIsLeftBehind` | `UploadsAreAttended` |

`DocumentsProofs`: the type of the rows, `CurrentIsNewestReady`,
`StatusIsJustified` and `CurrentNeverRegresses` for `DocSpec`. The first is
needed by the second, since a rejected version falls back to the state of the
current one.

`TransactionsProofs`: `TInv` says that a transaction that is past a lock still has it
(`Locked`), and that what it has read is still so (`Knows`): a number is free, the current
version is the one it saw, the key of its run is unused. A statement changes no rows, so
it keeps what the others know (`StatementKeeps`); a transaction that commits has the locks
on the document and on the trail, so no other can have read anything under them
(`OthersAfterCommit`). Hence `Spec => DocSpec` (`TransactionsImplementDocuments`), which is
why `Processing` may take each of these transactions as one step, and `TrailIsLinear` and
`NumbersAreNext`. `TrailIsTrue` follows one version at a time (`Told`): its events of
one kind are none or the one place its state asks for, so no counting is left, and what a
commit appends belongs to one version and kind (`PlacesAfter`). Deadlocks and lost connections need no care: a rollback leaves nothing
(`RollbackKeeps`). `OnlyResultsDeadlock` is about the order of the locks: every kind of
transaction but a result takes the trail last, so in any circle somebody who has the trail
waits, and only a result does that, for the document (`HeldByTaker` says that a lock is
held only by who took it or is given it while waiting). `NoWakeUpIsLost` is about the
queues: `Queued` says that who waits for a lock has its holder before it, and that those
who wait for one lock are in one line, so that the commit that hands the lock on finds a
first. It needs finitely many connections: of infinitely many none need be first.

`ProcessingProofs`: `IInv` is inductive (`Invariant`). `PublishedJobIsQueuedOrLost`
alone is not: a row becomes published in `Settle`, so one must know that a cycle
that still holds the claim has added the job (`AddedBeforeSettled`), that only
pending rows are claimed (`ClaimedIsPending`), and that a reset takes the claim
away with the memory of the loss. `PublishedRunIsFindable` needs that a cycle
settles after it stamped and that a completion that saves an older entity, the
one thing that can erase the stamp, leaves a state that is not listed
(`StampedBeforeSettled`, `MarkedIsStamped`). The proof states first which action
writes which rows (`DocWriters`, `OutboxWriters`, …), then what can happen to one
row, one cycle and one run in a step (`RowStep`, `CycleChange`, `RunStep`), and
each conjunct of `IInv` follows from those. `ProcessingImplementsDocuments`
(`Spec => DocSpec`) holds because a second completion of a version finds what the
first one wrote (`VerdictKept`), so it is a stutter; through it the theorems of
`DocumentsProofs` hold of the composed system (`CurrentVersionIsSafe`).
`RecordsAgree` says that the run, the version, the outbox row and the number of results of
a version tell the same: it follows what can happen to one version in a step, where its
result is one step for all of them. Hence `NoUploadIsForgotten`: a run without its result
is on the reconciler's list, and its row is pending or its job's id known.
Two findings have their causes proved. `LockedResultIsAcceptedOnce` and
`LockedRunFollowsTable` are stated of behaviours in which `persist` and
`persistCompletion` exclude each other on one run from the read on (`RunIsLocked`): then
what an open transaction will save is still a legal move (`OpenMoveIsLegal`), so the table
is followed and a second result finds a state nothing leaves. The code takes no such lock,
so they do not say that it accepts a result once; they say that nothing but the race of run
`accepted_twice` keeps it from doing so. `ExhaustionDeadLettersNothing` needs no lock and
holds of the code as it is: while nothing fails but attempts, a job is failed only with its
attempts used up (`FailuresAreExhaustions`), so the callback never asks for RETRY_SCHEDULED
(`OnlyActiveIsMarked`), from which alone DEAD_LETTERED can be reached. A lost job can reach it:
an old `failed` may then find the new job with attempts left.

`ReviewsProofs`: some promises of `Reviews` hold whatever overlaps. No result takes a field
back from a reviewer (`HumanValuesStand`): while a result that read a worker's field is open,
it has the trail, and no correction commits without it. A closed task stays closed
(`ClosedTasksAreKept`), because a task is created once and a resolution only puts another
closed state. The others fail, and four theorems say of every behaviour which requests break
them: `OnlyLateDecisionsIgnoreTasks`, `OnlyLateRequestsChangeDecisions`,
`OnlyLateCorrectionsLose`, `OnlyLateResolutionsRepeat`. Their invariants (`ReviewInv`,
`FieldInv`, `ResolveInv`) say that what a request has read is still so unless it was
overtaken, which holds step by step because a commit overtakes whoever has read what it writes
(`CommitMoves`), and nobody is forgotten before it ends (`OvertakenStep`). A new task never
makes a review final, even late, so only decisions are named in the first. The code does not
refuse requests that were overtaken; `RefusingKeepsPromises` assumes that it did
(`RefusesOvertaken`), as a version checked at the commit would, and has all the promises
together, and that a review never mixes the columns of two requests (`ReviewIsWhole`): in the
code a late first task leaves IN_REVIEW beside the decision APPROVED.

`UploadsProofs`: `UInv` adds to the invariants of the run that numbers have no gaps, that a
confirmation about to be saved has seen its object (`VerifiedIsStored`; the storage only
grows), and that a browser that waits is being served about its own version
(`BrowserInv`). No step takes back what was received or is ready (`Advances`), which is
why a page may be told of the current version first and read it later, and why nobody
else's confirmation falsifies a success. `UploadsImplementDocuments` maps every step to one
of `Documents` or a stutter: a confirmation that finds another state writes nothing.
`NobodyWaitsUnserved` is part of `BrowserInv`. `UploadsAreAttended` says that a version that
is uploading has its browser, and that the object is there before the confirmation is
asked for; both are stated while no call has failed, as one failure is enough to leave a
version behind.

`ReprocessingProofs`: the unique constraint keeps one run for a version (`RunsAreUnique`),
rows are never deleted (`RunsStay`), so the run a request has read is in the way of the one
it inserts: `ReprocessingNeverWorks`, for any number of requests.

`WebClientProofs`: first, of `Sessions`, `TokenIsSpentOnce` for any number of sessions and
concurrent requests. The invariant `SInv` adds that a current hash was not spent, that no
two sessions hold the same token, and that tokens not yet issued are nowhere. Then the
browser's steps are steps of `Sessions` or stutters
(`ClientUsesSessions`), because all it ever holds or sends are cookies a login or a
rotation gave it; so both theorems hold of any number of tabs and calls. `ClientTyped` is
the type of the browser's state; it and `TransactionsTypeCorrect` are proved of every
size and need no run. `NoCallIsStranded` rests on `CallInv`: calls of a tab share the one
renewal the tab has under way, and the request of a renewal and the execution that serves
it are at the same point; `RenewalsAreNeverTwo` (`RenewalIsShared`) follows from it as well.

`PipelineProofs`: `OnlyScannedIsReadable` and `ResultIsBacked` for any number of versions,
slots, attempts and failures. `PipelineInv` says of every slot what the step it has
reached implies of its document and of the storage (`SlotInv`), whether or not it still
holds the lock: an attempt that lost it goes on writing, and is harmless because it went
through the scan itself and the storage only grows. `ValueInv` says that what attempts
carry and the storage keeps are the worker's fields and what the API keeps are rows;
`SuggestionsAreReviewed` then rests on the last of the fields with a key being one of them
(`LargestIndex`, by well-foundedness), and `FieldsAreKept` on `PersistFields` keeping the
domain and the rows of reviewers (and on the lock of the trail, which makes `Accept` one
step). `OnlyFitDocumentsComplete` follows the defect of a
document through the steps of its attempt (`FitInv`). `ValuesComeFromTheText` follows a
value from the text to the row, through what slots carry and artifacts hold
(`OriginInv`), so that no attempt, however it overlaps with others, puts a value of one
version into another. Two theorems are about `PersistFields` alone, for any rows and fields:
storing a result again changes nothing (`PersistingAgainChangesNothing`), and storing and
correcting commute (`CorrectionCommutesWithDelivery`), so that it does not matter which of
the two comes first. `RequiredFieldsArePresent` says that a version has all the
required rows or none. `NoJobIsStranded` rests on `LockInv`, that a job is active exactly
while a slot holds its lock, whichever of the two attempts that is.
`AttemptsAreOneStep` is why `Processing` may take an attempt as one step: a slot that lost
the lock changes nothing in the queue, and every other step is one `Processing` has.

Assumptions: `MaxVersionAssumption`, `TransactionsAssumption`, `JobQueueAssumption`, `NoCycleAssumption`,
`ProcessingAssumption`, `ReviewsAssumption`, `SessionsAssumption`,
`WebClientAssumption`, `WorkerPipelineAssumption` (in particular that texts and suggestions
are sequences of matches), `ExtractedFieldsAssumption`, `UploadsAssumption`, which type the
constants; and, where they are stated, the finiteness of
`Transaction`, `RefusesOvertaken` and `RunIsLocked`. Only model-checked is liveness, and
the violations, which are runs of their own.

## Plan

1. The reconciler's window of 100 runs: the runs of `dead_letter` stay ACTIVE and no visit
   updates them, so they keep the head of the order `list_reconcilable_runs` uses.
2. The row locks of `correctField`, `createTask`, `resolveTask` and `decide` against those of
   a result, as further kinds of transaction in `Transactions`, for progress; the trail of several
   documents, and the export that reads it.
3. The review panel over `Reviews`: what a reviewer sees between a read and a decision.
4. The worker's threshold for OCR (`needs_ocr` asks for 20 characters, `handle` for none)
   and the page by page text behind `Texts`.

## Not modelled

Notifications and settings (rows nothing modelled reads), the search of documents, URLs for
reading, the comparison of fields and the review panel, comments that resolve nothing,
OpenAPI, metrics, logging, the migration runner, seeds, row-level security, and
infrastructure.
