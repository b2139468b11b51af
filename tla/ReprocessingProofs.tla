-------------------------- MODULE ReprocessingProofs --------------------------
(***************************************************************************)
(* Administrative reprocessing for any number of versions, correlations    *)
(* and requests served at once: the unique constraints keep one run for a  *)
(* version, and that is why no request ever gets one more.                 *)
(***************************************************************************)
EXTENDS Reprocessing, TLAPS

USE DEF Version, NoVersion

\* A run is queued or further with its version, and no two have the same
\* (uq_processing_run_version_operation).
OneRunPerVersion ==
  \A k, l \in Correlation :
    run[k] # NoRun /\ run[k].version = run[l].version => k = l

\* What a request has read is still there: nothing deletes a run.
RequestsHaveRuns ==
  \A r \in Request :
    request[r].step = "insert" => request[r].run \in Correlation /\ run[request[r].run] # NoRun

\* No request to reprocess has queued a run.
NothingIsReprocessed == \A r \in Request : request[r].step # "queued"

RInv ==
  /\ TypeOK
  /\ OneRunPerVersion
  /\ RequestsHaveRuns
  /\ NothingIsReprocessed

\* A row, once inserted, stays, with its version.
LEMMA RunsStay ==
  ASSUME TypeOK, [Next]_vars, NEW k \in Correlation, run[k] # NoRun
  PROVE  run'[k] # NoRun /\ run'[k].version = run[k].version
<1> USE DEF TypeOK, Run, NoRun
<1>1. ASSUME NEW l \in Correlation, NEW v \in Version, ConfirmUpload(l, v)
      PROVE  run'[k] # NoRun /\ run'[k].version = run[k].version
  BY <1>1 DEF ConfirmUpload, Insertable
<1>2. ASSUME NEW l \in Correlation, NEW s \in RunState, MoveRun(l, s)
      PROVE  run'[k] # NoRun /\ run'[k].version = run[k].version
  BY <1>2 DEF MoveRun, RunState
<1>3. ASSUME NEW r \in Request, InsertRunAndEvent(r)
      PROVE  run'[k] # NoRun /\ run'[k].version = run[k].version
  BY <1>3 DEF InsertRunAndEvent, Insertable
<1>4. CASE UNCHANGED run
  BY <1>4
<1>5. ASSUME NEW r \in Request,
             Forget(r) \/ \E l, new \in Correlation : ReadRun(r, l, new)
      PROVE  UNCHANGED run
  BY <1>5 DEF Forget, ReadRun
<1> QED BY <1>1, <1>2, <1>3, <1>4, <1>5 DEF Next, vars

\* A new row for a version of which there is one already is refused.
LEMMA InsertIsRefused ==
  ASSUME NEW k \in Correlation, NEW new \in Correlation
  PROVE  ~Insertable(new, run[k].version)
BY DEF Insertable

LEMMA RInvInit == Init => RInv
BY DEF Init, RInv, TypeOK, OneRunPerVersion, RequestsHaveRuns, NothingIsReprocessed,
       Run, NoRun, Idle

\* The rows keep to one run for a version.
LEMMA OneRunStep ==
  ASSUME TypeOK, OneRunPerVersion, [Next]_vars
  PROVE  run' \in [Correlation -> Run] /\ OneRunPerVersion'
<1> USE DEF TypeOK, OneRunPerVersion, Run, NoRun
<1>1. ASSUME NEW k \in Correlation, NEW v \in Version, Insertable(k, v),
             run' = [run EXCEPT ![k] = [version |-> v, state |-> "QUEUED"]]
      PROVE  run' \in [Correlation -> Run] /\ OneRunPerVersion'
  <2>1. run' \in [Correlation -> Run]
    BY <1>1 DEF RunState
  <2>2. /\ run'[k].version = v
        /\ \A l \in Correlation : run[l].version # v
        /\ \A l \in Correlation \ {k} : run'[l] = run[l]
    BY <1>1 DEF Insertable
  <2> QED BY <2>1, <2>2
<1>2. ASSUME NEW k \in Correlation, NEW v \in Version, ConfirmUpload(k, v)
      PROVE  run' \in [Correlation -> Run] /\ OneRunPerVersion'
  BY <1>1, <1>2 DEF ConfirmUpload
<1>3. ASSUME NEW k \in Correlation, NEW s \in RunState, MoveRun(k, s)
      PROVE  run' \in [Correlation -> Run] /\ OneRunPerVersion'
  <2>1. run' \in [Correlation -> Run]
    BY <1>3 DEF MoveRun
  <2>2. \A l \in Correlation : run'[l].version = run[l].version
    BY <1>3 DEF MoveRun
  <2>3. \A l \in Correlation : run'[l] # NoRun <=> run[l] # NoRun
    BY <1>3 DEF MoveRun
  <2> QED BY <2>1, <2>2, <2>3
<1>4. CASE UNCHANGED run
  BY <1>4
<1>5. ASSUME NEW r \in Request, InsertRunAndEvent(r)
      PROVE  run' \in [Correlation -> Run] /\ OneRunPerVersion'
  <2> DEFINE new == request[r].new
             v == run[request[r].run].version
  <2>1. CASE Insertable(new, v)
    <3>1. request[r].run \in Correlation
      BY <1>5 DEF InsertRunAndEvent, Idle
    <3> QED BY <2>1, <3>1 DEF Insertable
  <2>2. CASE ~Insertable(new, v)
    BY <1>5, <2>2 DEF InsertRunAndEvent
  <2> QED BY <2>1, <2>2
<1>6. ASSUME NEW r \in Request,
             Forget(r) \/ \E k, new \in Correlation : ReadRun(r, k, new)
      PROVE  UNCHANGED run
  BY <1>6 DEF Forget, ReadRun
<1> QED BY <1>2, <1>3, <1>4, <1>5, <1>6 DEF Next, vars

\* Requests go on from what they read, and every insertion is refused.
LEMMA RequestStep ==
  ASSUME TypeOK, RequestsHaveRuns, NothingIsReprocessed, [Next]_vars, NEW q \in Request
  PROVE  /\ request'[q] \in {Idle} \cup [step : {"insert", "queued", "conflict"},
                                         run : Correlation, new : Correlation]
         /\ request'[q].step = "insert" =>
              request'[q].run \in Correlation /\ run[request'[q].run] # NoRun
         /\ request'[q].step # "queued"
<1> DEFINE Goal ==
         /\ request'[q] \in {Idle} \cup [step : {"insert", "queued", "conflict"},
                                         run : Correlation, new : Correlation]
         /\ request'[q].step = "insert" =>
              request'[q].run \in Correlation /\ run[request'[q].run] # NoRun
         /\ request'[q].step # "queued"
<1>0. /\ request[q] \in {Idle} \cup [step : {"insert", "queued", "conflict"},
                                     run : Correlation, new : Correlation]
      /\ request[q].step = "insert" =>
           request[q].run \in Correlation /\ run[request[q].run] # NoRun
      /\ request[q].step # "queued"
      /\ DOMAIN request = Request
  BY DEF TypeOK, RequestsHaveRuns, NothingIsReprocessed
<1>1. CASE request'[q] = request[q]
  BY <1>0, <1>1
<1>2. ASSUME NEW k \in Correlation, NEW new \in Correlation, ReadRun(q, k, new)
      PROVE  Goal
  <2>1. request'[q] = [step |-> "insert", run |-> k, new |-> new]
    BY <1>0, <1>2 DEF ReadRun
  <2>2. run[k] # NoRun
    BY <1>2 DEF ReadRun, Terminal, NoRun
  <2> QED BY <2>1, <2>2
<1>3. ASSUME InsertRunAndEvent(q)
      PROVE  Goal
  <2>1. request[q].step = "insert" /\ request[q].run \in Correlation
    BY <1>0, <1>3 DEF InsertRunAndEvent
  <2>2. request[q] \in [step : {"insert", "queued", "conflict"},
                        run : Correlation, new : Correlation]
    BY <1>0, <2>1 DEF Idle
  <2>3. ~Insertable(request[q].new, run[request[q].run].version)
    BY <2>1, <2>2, InsertIsRefused
  <2>4. request'[q] = [request[q] EXCEPT !.step = "conflict"]
    BY <1>0, <1>3, <2>3 DEF InsertRunAndEvent
  <2> QED BY <2>2, <2>4
<1>4. ASSUME Forget(q)
      PROVE  Goal
  <2>1. request'[q] = Idle
    BY <1>0, <1>4 DEF Forget
  <2> QED BY <2>1 DEF Idle
<1>5. ASSUME NEW r \in Request, r # q,
             \/ InsertRunAndEvent(r) \/ Forget(r)
             \/ \E k, new \in Correlation : ReadRun(r, k, new)
      PROVE  request'[q] = request[q]
  BY <1>0, <1>5 DEF InsertRunAndEvent, Forget, ReadRun
<1>6. ASSUME \/ \E k \in Correlation, v \in Version : ConfirmUpload(k, v)
             \/ \E k \in Correlation, s \in RunState : MoveRun(k, s)
             \/ UNCHANGED vars
      PROVE  request'[q] = request[q]
  BY <1>6 DEF ConfirmUpload, MoveRun, vars
<1> QED BY <1>1, <1>2, <1>3, <1>4, <1>5, <1>6 DEF Next

\* Each of outbox rows has the correlation of a run.
LEMMA OutboxStep == ASSUME TypeOK, [Next]_vars PROVE outbox' \in SUBSET Correlation
<1>1. ASSUME NEW r \in Request, InsertRunAndEvent(r)
      PROVE  outbox' \in SUBSET Correlation
  BY <1>1 DEF InsertRunAndEvent, TypeOK, Idle
<1> QED BY <1>1 DEF Next, vars, TypeOK, ConfirmUpload, MoveRun, ReadRun, Forget

LEMMA RInvStep == RInv /\ [Next]_vars => RInv'
<1> SUFFICES ASSUME RInv, [Next]_vars
             PROVE  RInv'
  OBVIOUS
<1>0. TypeOK /\ OneRunPerVersion /\ RequestsHaveRuns /\ NothingIsReprocessed
  BY DEF RInv
<1>1. run' \in [Correlation -> Run] /\ OneRunPerVersion'
  BY <1>0, OneRunStep
<1>2. \A q \in Request :
        request'[q] \in {Idle} \cup [step : {"insert", "queued", "conflict"},
                                     run : Correlation, new : Correlation]
  BY <1>0, RequestStep
<1>3. request' = [q \in Request |-> request'[q]]
  BY <1>0 DEF TypeOK, Next, vars, ConfirmUpload, MoveRun, ReadRun, Forget, InsertRunAndEvent
<1>4. TypeOK'
  BY <1>0, <1>1, <1>2, <1>3, OutboxStep DEF TypeOK
<1>5. RequestsHaveRuns' /\ NothingIsReprocessed'
  BY <1>0, RequestStep, RunsStay DEF RequestsHaveRuns, NothingIsReprocessed
<1> QED BY <1>1, <1>4, <1>5 DEF RInv

LEMMA RInvariant == Spec => []RInv
BY RInvInit, RInvStep, PTL DEF Spec

\* However many versions there are, however many runs end and however many
\* requests are made, at once or one after the other, there is never a second
\* run for a version (confirm, reprocess and the unique constraint they meet).
THEOREM RunsAreUnique == Spec => []OneRunPerVersion
<1>1. RInv => OneRunPerVersion
  BY DEF RInv
<1> QED BY <1>1, RInvariant, PTL

\* "Only terminal runs (completed, failed or dead-lettered) may be reprocessed;
\* a brand-new correlation is used so the new attempt is traceable" says
\* reprocess (processing.controller.ts:46-50).  It never does: no request ever
\* queues a run, in any installation.
THEOREM ReprocessingNeverWorks == Spec => []NothingIsReprocessed
<1>1. RInv => NothingIsReprocessed
  BY DEF RInv
<1> QED BY <1>1, RInvariant, PTL
==============================================================================
