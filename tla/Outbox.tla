-------------------------------- MODULE Outbox --------------------------------
(***************************************************************************)
(* The table outbox_events and the executions of publishPending that claim *)
(* and complete its rows                                                   *)
(* (outbox-publisher.service.ts, migration 0025-processing-claims.ts).     *)
(* A timer starts an execution every second without waiting for the last   *)
(* one, the reconciler starts more, and there may be several API           *)
(* processes: an execution is a Cycle, known by its claim token.           *)
(***************************************************************************)
EXTENDS Versions

CONSTANTS
  Cycle,      \* concurrent executions of publishPending
  NoCycle     \* claim_token IS NULL

ASSUME NoCycleAssumption == NoCycle \notin Cycle

VARIABLES
  outbox,  \* outbox[v]: "absent", "pending" (published_at NULL) or "published"
  claim,   \* claim[v]: claim_token of the row
  expired, \* expired[v]: claimed_at is more than five minutes ago
  cycle    \* cycle[t]: where the execution t is in its loop

outboxVars == <<outbox, claim, expired, cycle>>
rowVars == <<outbox, claim, expired>>

\* step: what comes next; todo: claimed rows not yet reached; event: the row
\* in hand, if any.
IdleCycle == [step |-> "idle", todo |-> {}, event |-> NoVersion]

CycleState == [step : {"idle", "next", "stamp", "settle", "release"},
               todo : SUBSET Version,
               event : Version \cup {NoVersion}]

OutboxTypeOK ==
  /\ outbox \in [Version -> {"absent", "pending", "published"}]
  /\ claim \in [Version -> Cycle \cup {NoCycle}]
  /\ expired \in [Version -> BOOLEAN]
  /\ cycle \in [Cycle -> CycleState]

OutboxInit ==
  /\ outbox = [v \in Version |-> "absent"]
  /\ claim = [v \in Version |-> NoCycle]
  /\ expired = [v \in Version |-> FALSE]
  /\ cycle = [t \in Cycle |-> IdleCycle]

-----------------------------------------------------------------------------
(* The rows.                                                               *)

\* confirm inserts the row.
InsertEvent(v) ==
  /\ outbox' = [outbox EXCEPT ![v] = "pending"]
  /\ UNCHANGED <<claim, expired, cycle>>

\* The WHERE clause of claim_outbox_events.
Claimable ==
  {v \in Version : outbox[v] = "pending" /\ (claim[v] = NoCycle \/ expired[v])}

\* Mutant: the claim token is not compared.
CompleteAnyEvent(v, t, success) ==
  /\ outbox' = IF success THEN [outbox EXCEPT ![v] = "published"] ELSE outbox
  /\ claim' = [claim EXCEPT ![v] = NoCycle]
  /\ expired' = [expired EXCEPT ![v] = FALSE]

\* complete_outbox_event(v, t, success, _): nothing unless the row is still
\* claimed with that token; the claim is released either way.
CompleteEvent(v, t, success) ==
  IF claim[v] = t
    THEN /\ outbox' = IF success THEN [outbox EXCEPT ![v] = "published"] ELSE outbox
         /\ claim' = [claim EXCEPT ![v] = NoCycle]
         /\ expired' = [expired EXCEPT ![v] = FALSE]
    ELSE UNCHANGED rowVars

\* Mutant: the reset leaves the claim token to a slow publisher.
ResetKeepingClaim(v) ==
  /\ outbox' = [outbox EXCEPT ![v] = "pending"]
  /\ UNCHANGED <<claim, expired, cycle>>

\* The reconciler makes the row claimable again, whoever held it.
ResetEvent(v) ==
  /\ outbox' = [outbox EXCEPT ![v] = "pending"]
  /\ claim' = [claim EXCEPT ![v] = NoCycle]
  /\ expired' = [expired EXCEPT ![v] = FALSE]
  /\ UNCHANGED cycle

\* A cycle still has the row to handle.
WorksOn(t, v) == claim[v] = t /\ (v \in cycle[t].todo \/ v = cycle[t].event)

Abandoned(v) == \A t \in Cycle : ~WorksOn(t, v)

\* Five minutes pass over the claim of row v.
ExpireClaim(v) ==
  /\ claim[v] # NoCycle /\ ~expired[v]
  /\ expired' = [expired EXCEPT ![v] = TRUE]
  /\ UNCHANGED <<outbox, claim, cycle>>

-----------------------------------------------------------------------------
(* The loop of publishPending.  The token is a fresh UUID: no live claim   *)
(* carries it when the cycle starts.                                       *)

ClaimEvents(t) ==
  /\ cycle[t].step = "idle"
  /\ \A v \in Version : claim[v] = t => expired[v]
  /\ Claimable # {}
  /\ claim' = [v \in Version |-> IF v \in Claimable THEN t ELSE claim[v]]
  /\ expired' = [v \in Version |-> expired[v] /\ v \notin Claimable]
  /\ cycle' = [cycle EXCEPT ![t] = [step |-> "next", todo |-> Claimable, event |-> NoVersion]]
  /\ UNCHANGED outbox

\* Move on with row v: to the next step of the try block, or to the catch.
TakeEvent(t, v, step) ==
  /\ cycle[t].step = "next" /\ v \in cycle[t].todo
  /\ cycle' = [cycle EXCEPT ![t] = [step |-> step, todo |-> @.todo \ {v}, event |-> v]]

MoveCycle(t, from, to) ==
  /\ cycle[t].step = from
  /\ cycle' = [cycle EXCEPT ![t].step = to]

\* The row is done; the loop goes on or ends.
EndEvent(t, from) ==
  /\ cycle[t].step = from
  /\ cycle' = [cycle EXCEPT ![t] =
       IF @.todo = {} THEN IdleCycle ELSE [step |-> "next", todo |-> @.todo, event |-> NoVersion]]

\* The bookkeeping call succeeds: success at the end of the try block,
\* failure in the catch.
SettleEvent(t)  == EndEvent(t, "settle")  /\ CompleteEvent(cycle[t].event, t, TRUE)
ReleaseEvent(t) == EndEvent(t, "release") /\ CompleteEvent(cycle[t].event, t, FALSE)

\* The bookkeeping call of the try block throws: the catch releases the row.
SettleFails(t) == MoveCycle(t, "settle", "release") /\ UNCHANGED rowVars

\* The catch throws too, or the process dies: the claims stay.
AbortCycle(t) ==
  /\ cycle[t].step # "idle"
  /\ cycle' = [cycle EXCEPT ![t] = IdleCycle]
  /\ UNCHANGED rowVars
==============================================================================
