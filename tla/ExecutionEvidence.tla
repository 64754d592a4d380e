-------------------------- MODULE ExecutionEvidence --------------------------
(***************************************************************************)
(* The lifecycle evidence of one Enhanced execution: the events the gateway  *)
(* queues in the store while it runs the command (sshgw/execution_evidence.go*)
(* and exec_bridge.go), the recovery goroutine that archives them, and the   *)
(* evidence state of the row (store/executions.go, protected_executions.go). *)
(*                                                                         *)
(* Gateway and recovery share only the store; every transaction is a step.   *)
(* NORMAL transactions may be lost with the power, FULL ones may not: images *)
(* holds the contents of the store a loss of power may leave.                *)
(***************************************************************************)
EXTENDS Naturals, FiniteSets

CONSTANT MaxCrashes   \* crashes of the Hub

VARIABLES
  db,       \* the row, the recovery queue and the confirmations
  images,   \* what a loss of power may leave of db
  gw,       \* the gateway goroutine of the execution
  rec,      \* the recovery goroutine and the event in its hands
  archive,  \* events the external archive holds
  queued,   \* events that were ever queued
  fault,    \* a full queue, an event too old, or an error of the store
  flaw,     \* finishExec could not record the outcome or its audit event
  crashes

vars == <<db, images, gw, rec, archive, queued, fault, flaw, crashes>>

Kinds == {"admitted", "running", "completion"}
NoEvent == [kind |-> "none", state |-> "", at |-> ""]
NoRow == [state |-> "none", finished |-> FALSE, evidence |-> "local", queue |-> {}, confirmed |-> {}]

Normal(row) == db' = row /\ images' = images \cup {row}
Full(row) == db' = row /\ images' = {row}
-----------------------------------------------------------------------------
(* The transactions of the store.                                           *)

MarkExecutionEvidencePermanent(row) == [row EXCEPT !.evidence = "permanently_incomplete"]

MarkExecutionEvidenceIncomplete(row) ==
  [row EXCEPT !.evidence = IF @ = "permanently_incomplete" THEN @ ELSE "completion_unconfirmed"]

FinishExecution(row, outcome) ==
  IF row.finished THEN row
  ELSE [MarkExecutionEvidenceIncomplete(row) EXCEPT !.state = outcome, !.finished = TRUE]

ReconcileExecutions(row) ==
  IF row.finished \/ row.state = "none" THEN row
  ELSE [MarkExecutionEvidenceIncomplete(row) EXCEPT !.finished = TRUE,
          !.state = IF @ \in {"dispatching", "running"} THEN "outcome_unknown" ELSE "cancelled"]

\* The record of an event is a function of the row: its state and its times.
lifecycleEnvelope(row, kind, who) ==
  [kind |-> kind, state |-> IF kind = "completion" THEN row.state ELSE kind,
   at |-> IF row.finished THEN "finished" ELSE "updated"]

Inserted(row, e) ==
  [row EXCEPT !.queue = @ \cup {e},
     !.evidence = IF @ = "permanently_incomplete" THEN @
                  ELSE IF row.finished THEN "completion_unconfirmed" ELSE "pending"]

\* Queue an event once.  The same record again is no error; another one for the
\* same event is, and so is a failure of the store: the caller then marks the
\* evidence, which may fail too.  The queue (shared by all executions) marks it
\* when it is full.
QueueExecutionEvidence(e) ==
  LET known == {x \in db.queue \cup db.confirmed : x.kind = e.kind} IN
  \/ known = {} /\ Full(Inserted(db, e)) /\ queued' = queued \cup {e} /\ UNCHANGED fault
  \/ known = {e} /\ UNCHANGED <<db, images, queued, fault>>
  \/ known \notin {{}, {e}} /\ Full(MarkExecutionEvidencePermanent(db)) /\ UNCHANGED <<queued, fault>>
  \/ known = {} /\ fault' = TRUE /\ UNCHANGED queued
     /\ (Full(MarkExecutionEvidencePermanent(db)) \/ UNCHANGED <<db, images>>)

\* Mutant: recovery looks for executions whose evidence is still pending.
UnqueuedEnhancedExecutions_Pending(row) ==
  /\ row.finished /\ row.evidence = "pending" /\ row.queue = {}
  /\ \A x \in row.confirmed : x.kind # "completion"

UnqueuedEnhancedExecutions(row) ==
  /\ row.finished /\ row.evidence = "completion_unconfirmed" /\ row.queue = {}
  /\ \A x \in row.confirmed : x.kind # "completion"
-----------------------------------------------------------------------------
Init ==
  /\ db = NoRow /\ images = {NoRow}
  /\ gw = "idle"
  /\ rec = [pc |-> "idle", event |-> NoEvent]
  /\ archive = {} /\ queued = {}
  /\ fault = FALSE /\ flaw = FALSE
  /\ crashes = 0
-----------------------------------------------------------------------------
(* The gateway goroutine.                                                   *)

gwOnly == UNCHANGED <<rec, archive, crashes>>
Quiet == UNCHANGED <<queued, fault, flaw>>

\* CreateExecution and PrepareExecution of an Enhanced execution.
startExec ==
  /\ gw = "idle" /\ gw' = "prepared"
  /\ Normal([NoRow EXCEPT !.state = "prepared"])
  /\ Quiet /\ gwOnly

\* Enhanced execution is not ready: the denial is an execution of its own.
recordProtectedReadinessDenial ==
  /\ gw = "idle" /\ gw' = "denying"
  /\ Normal([NoRow EXCEPT !.state = "submitted"])
  /\ Quiet /\ gwOnly

finishDenial ==
  /\ gw = "denying"
  /\ \/ gw' = "denied" /\ Normal(FinishExecution(db, "denied")) /\ UNCHANGED fault
     \/ /\ gw' = "over" /\ fault' = TRUE
        /\ Full(MarkExecutionEvidencePermanent(db)) \/ UNCHANGED <<db, images>>
  /\ UNCHANGED <<queued, flaw>> /\ gwOnly

Claim ==
  /\ gw = "prepared" /\ gw' = "admitted"
  /\ Full([db EXCEPT !.state = "dispatching", !.evidence = "pending"])
  /\ Quiet /\ gwOnly

queueAdmitted ==
  /\ gw = "admitted" /\ gw' = "dispatched"
  /\ QueueExecutionEvidence(lifecycleEnvelope(db, "admitted", "gateway"))
  /\ UNCHANGED flaw /\ gwOnly

MarkExecutionRunning ==
  /\ gw = "dispatched" /\ gw' = "started"
  /\ Normal([db EXCEPT !.state = "running"])
  /\ Quiet /\ gwOnly

queueRunning ==
  /\ gw = "started" /\ gw' = "waiting"
  /\ QueueExecutionEvidence(lifecycleEnvelope(db, "running", "gateway"))
  /\ UNCHANGED flaw /\ gwOnly

\* FinishExecution and the audit event, either of which may fail.
finishExec(outcome) ==
  /\ gw \in {"prepared", "admitted", "dispatched", "waiting"} /\ gw' = "lifecycle"
  /\ \/ Normal(FinishExecution(db, outcome)) /\ flaw' \in BOOLEAN
     \/ UNCHANGED <<db, images>> /\ flaw' = TRUE
  /\ UNCHANGED <<queued, fault>> /\ gwOnly

queueExecutionLifecycle ==
  /\ gw \in {"lifecycle", "denied"} /\ gw' = IF gw = "denied" THEN "over" ELSE "mark"
  /\ QueueExecutionEvidence(lifecycleEnvelope(db, "completion", "gateway"))
  /\ UNCHANGED flaw /\ gwOnly

markIncomplete ==
  /\ gw = "mark" /\ gw' = "over"
  /\ \/ flaw /\ Normal(MarkExecutionEvidenceIncomplete(db))
     \/ UNCHANGED <<db, images>>
  /\ Quiet /\ gwOnly
-----------------------------------------------------------------------------
(* The recovery goroutine: recoverExecutionEvidence.                        *)

recOnly == UNCHANGED <<gw, flaw, crashes>>
Hands(pc, e) == rec' = [pc |-> pc, event |-> e]

\* A finished execution without a completion: read, then queued.
readMissing ==
  /\ rec.pc = "idle" /\ UnqueuedEnhancedExecutions(db)
  /\ Hands("queue", lifecycleEnvelope(db, "completion", "recovery"))
  /\ UNCHANGED <<db, images, archive, queued, fault>> /\ recOnly

queueMissing ==
  /\ rec.pc = "queue" /\ Hands("idle", NoEvent)
  /\ QueueExecutionEvidence(rec.event)
  /\ UNCHANGED archive /\ recOnly

\* An event that is due is handed to the archive, which may take it although
\* its answer is lost; Lookup may still find it.
PreserveEvidence(e) ==
  /\ rec.pc = "idle" /\ e \in db.queue
  /\ \/ archive' = archive \cup {e} /\ Hands("confirm", e)
     \/ archive' \in {archive, archive \cup {e}} /\ Hands("idle", NoEvent)
  /\ UNCHANGED <<db, images, queued, fault>> /\ recOnly

\* Mutant: an execution is confirmed with the first event that is.
ConfirmExecutionEvidence_First ==
  /\ rec.pc = "confirm" /\ Hands("idle", NoEvent)
  /\ \/ Full([db EXCEPT !.queue = @ \ {rec.event}, !.confirmed = @ \cup {rec.event},
               !.evidence = IF db.finished /\ @ # "permanently_incomplete" THEN "confirmed" ELSE @])
     \/ UNCHANGED <<db, images>>
  /\ UNCHANGED <<archive, queued, fault>> /\ recOnly

\* The event moves from the queue to the confirmations, and the last one of a
\* finished execution confirms it.  The transaction may fail.
ConfirmExecutionEvidence ==
  /\ rec.pc = "confirm" /\ Hands("idle", NoEvent)
  /\ \/ Full([db EXCEPT !.queue = @ \ {rec.event}, !.confirmed = @ \cup {rec.event},
               !.evidence = IF /\ db.finished /\ @ # "permanently_incomplete" /\ db.queue = {rec.event}
                               /\ \E x \in db.confirmed \cup {rec.event} : x.kind = "completion"
                            THEN "confirmed" ELSE @])
     \/ UNCHANGED <<db, images>>
  /\ UNCHANGED <<archive, queued, fault>> /\ recOnly

\* After MaxRecoveryAge the event is given up.
RetryExecutionEvidence(e) ==
  /\ rec.pc = "idle" /\ e \in db.queue
  /\ Full([MarkExecutionEvidencePermanent(db) EXCEPT !.queue = @ \ {e}])
  /\ fault' = TRUE
  /\ UNCHANGED <<rec, archive, queued>> /\ recOnly
-----------------------------------------------------------------------------
\* The Hub stops and restarts; New reconciles the row it finds.
Crash(power) ==
  /\ crashes < MaxCrashes /\ crashes' = crashes + 1 /\ gw # "idle"
  /\ \E row \in IF power THEN images ELSE {db} :
       /\ db' = ReconcileExecutions(row)
       /\ images' = (IF power THEN {row} ELSE images) \cup {ReconcileExecutions(row)}
  /\ gw' = "over" /\ Hands("idle", NoEvent)
  /\ UNCHANGED <<archive, queued, fault, flaw>>

Gateway ==
  \/ startExec \/ recordProtectedReadinessDenial \/ finishDenial \/ Claim
  \/ queueAdmitted \/ MarkExecutionRunning \/ queueRunning
  \/ \E outcome \in {"exited", "outcome_unknown"} : finishExec(outcome)
  \/ queueExecutionLifecycle \/ markIncomplete

Recovery ==
  \/ readMissing \/ queueMissing \/ ConfirmExecutionEvidence
  \/ \E e \in db.queue : PreserveEvidence(e) \/ RetryExecutionEvidence(e)

Next == Gateway \/ Recovery \/ \E power \in BOOLEAN : Crash(power)

\* Both goroutines run; a store that answers again and again does not always
\* fail, and an event that is tried again and again grows too old.
Fairness ==
  /\ WF_vars(gw # "idle" /\ Gateway) /\ WF_vars(Recovery)
  /\ SF_vars(queueMissing /\ db' # db)
  /\ SF_vars(\E e \in db.queue : RetryExecutionEvidence(e))

Spec == Init /\ [][Next]_vars /\ Fairness
-----------------------------------------------------------------------------
\* What the store holds: one event of each kind, queued or confirmed.
TypeOK ==
  /\ db.evidence \in {"local", "pending", "completion_unconfirmed", "confirmed", "permanently_incomplete"}
  /\ db \in images
  /\ db.queue \cap db.confirmed = {}
  /\ \A x, y \in db.queue \cup db.confirmed : x.kind \in Kinds /\ (x.kind = y.kind => x = y)
  /\ rec.pc \in {"idle", "queue", "confirm"}

\* ConfirmExecutionEvidence: evidence is confirmed only when the archive holds
\* the completion and every other event that was ever queued.
ConfirmedMeansArchived ==
  db.evidence = "confirmed" =>
    /\ db.finished /\ queued \subseteq archive
    /\ \E e \in archive : e.kind = "completion"

\* An event that was queued is still queued, was confirmed, or its loss shows:
\* neither a crash nor a loss of power forgets it.
QueuedIsNotForgotten ==
  queued \subseteq db.queue \cup db.confirmed \/ db.evidence = "permanently_incomplete"

\* Gateway and recovery may queue the same completion: they agree on its record,
\* so evidence is given up only for a fault.
QueuersAgree == db.evidence = "permanently_incomplete" => fault

\* The evidence of an execution that finished without a flaw is settled, even if
\* the Hub crashed before its completion was queued (a loss of power may take
\* back a row that was never synced).
EvidenceSettles ==
  db.finished ~> \/ flaw \/ db.state = "none"
                 \/ db.evidence \in {"confirmed", "permanently_incomplete"}
=============================================================================
