----------------------------- MODULE Reprocessing -----------------------------
(***************************************************************************)
(* Administrative reprocessing (processing.controller.ts) over the rows    *)
(* of processing_runs and outbox_events and their unique constraints.      *)
(*                                                                         *)
(* A run is named by its correlation, a random UUID: the key of a run that *)
(* is queued again ends with it, so the name stands for the key as well.   *)
(* Operation and processor version are the same for every run, because     *)
(* confirm writes constants and reprocess copies them.                     *)
(***************************************************************************)
EXTENDS Versions, RunStates

CONSTANTS
  Correlation, \* correlations that confirmations and requests may draw
  Request      \* requests to reprocess that are served at once

VARIABLES
  run,    \* run[k]: the row of processing_runs, NoRun if there is none
  outbox, \* the runs that have a row in outbox_events
  request \* request[r]: what a request has read, and its answer

vars == <<run, outbox, request>>

NoRun == [version |-> NoVersion, state |-> "absent"]
Run == {NoRun} \cup [version : Version, state : RunState]

Terminal == {"COMPLETED", "FAILED", "DEAD_LETTERED", "CANCELLED"}
Idle == [step |-> "idle"]

TypeOK ==
  /\ run \in [Correlation -> Run]
  /\ outbox \in SUBSET Correlation
  /\ request \in [Request -> {Idle} \cup [step : {"insert", "queued", "conflict"},
                                           run : Correlation, new : Correlation]]

Init ==
  /\ run = [k \in Correlation |-> NoRun]
  /\ outbox = {}
  /\ request = [r \in Request |-> Idle]

\* uq_processing_run_version_operation and the two unique keys.
Insertable(k, v) ==
  /\ run[k] = NoRun /\ k \notin outbox
  /\ \A other \in Correlation : run[other].version # v

\* The end of the transaction of confirm.
ConfirmUpload(k, v) ==
  /\ Insertable(k, v)
  /\ run' = [run EXCEPT ![k] = [version |-> v, state |-> "QUEUED"]]
  /\ outbox' = outbox \cup {k}
  /\ UNCHANGED request

\* The listener and the reconciler move a run along the table; nobody cancels.
MoveRun(k, s) ==
  /\ run[k] # NoRun /\ CanMove(run[k].state, s) /\ s # "CANCELLED"
  /\ run' = [run EXCEPT ![k].state = s]
  /\ UNCHANGED <<outbox, request>>

\* reprocess reads the run; its transaction draws a new correlation.
ReadRun(r, k, new) ==
  /\ request[r] = Idle
  /\ run[k].state \in Terminal
  /\ run[new] = NoRun
  /\ \A q \in Request : request[q] # Idle => request[q].new # new
  /\ request' = [request EXCEPT ![r] = [step |-> "insert", run |-> k, new |-> new]]
  /\ UNCHANGED <<run, outbox>>

\* It inserts run, outbox row and event and commits, or rolls back.
InsertRunAndEvent(r) ==
  /\ request[r].step = "insert"
  /\ LET new == request[r].new
         v == run[request[r].run].version
     IN  IF Insertable(new, v)
           THEN /\ run' = [run EXCEPT ![new] = [version |-> v, state |-> "QUEUED"]]
                /\ outbox' = outbox \cup {new}
                /\ request' = [request EXCEPT ![r].step = "queued"]
           ELSE /\ request' = [request EXCEPT ![r].step = "conflict"]
                /\ UNCHANGED <<run, outbox>>

Forget(r) ==
  /\ request[r] # Idle /\ request[r].step # "insert"
  /\ request' = [request EXCEPT ![r] = Idle]
  /\ UNCHANGED <<run, outbox>>

Next ==
  \/ \E k \in Correlation, v \in Version : ConfirmUpload(k, v)
  \/ \E k \in Correlation, s \in RunState : MoveRun(k, s)
  \/ \E r \in Request, k, new \in Correlation : ReadRun(r, k, new)
  \/ \E r \in Request : InsertRunAndEvent(r) \/ Forget(r)

Spec == Init /\ [][Next]_vars

==============================================================================
