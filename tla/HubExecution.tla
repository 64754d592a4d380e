---------------------------- MODULE HubExecution ----------------------------
(***************************************************************************)
(* One command execution seen from the Hub: the SSH gateway goroutine that  *)
(* runs it (sshgw/exec_bridge.go), the ExecutionSession it shares with the   *)
(* agent's Execute stream (grpcserver/exec_sessions.go, exec_stream.go) and  *)
(* the row that records it (store/executions.go, protected_executions.go).   *)
(* Executions share nothing but the agent's control connection, so one is    *)
(* enough.  The lifecycle evidence of an execution is ExecutionEvidence's.   *)
(*                                                                         *)
(* Concurrent processes: runExec (gw), watchExecution (watch), the Execute   *)
(* handler with its sender and its receiver (rpc), one relay for each output *)
(* stream (out), the control-stream handlers (link), the agent, and a Hub    *)
(* that may crash and restart.  The agent is the abstraction of              *)
(* AgentExecution: an execution id is launched at most once, and             *)
(* "launch_failed" is reported only when nothing was launched.               *)
(***************************************************************************)
EXTENDS Integers, Sequences, FiniteSets

CONSTANTS
  Modes,           \* of "standard" and "enhanced": the policies in force
  Outputs,         \* the output streams (stdout and stderr)
  MaxGenerations,  \* control connections the agent makes
  MaxFrames,       \* frames a process writes to one output
  QueueFrames,     \* executionQueueFrames
  MaxCrashes,      \* crashes of the Hub
  Revocable        \* whether authority may be withdrawn

ASSUME ModesAssumption == Modes \subseteq {"standard", "enhanced"}
ASSUME BoundsAssumption ==
  /\ MaxGenerations \in Nat /\ MaxFrames \in Nat /\ MaxCrashes \in Nat
  /\ QueueFrames \in Nat \ {0} /\ Revocable \in BOOLEAN
ASSUME OutputsAssumption == IsFiniteSet(Outputs)

VARIABLES
  link,       \* control connections: current, caps, and each one's handler
  toAgent,    \* Hub messages on each control connection
  fromAgent,  \* agent messages on each control connection
  ses,        \* the ExecutionSession
  gw,         \* the gateway goroutine: startExec, then runExec
  watch,      \* the watchExecution goroutine
  rpc,        \* the Execute RPC: handler, sender, receiver, stream
  down, up,   \* messages on the Execute stream, to and from the agent
  out,        \* each output: agent side, session queue, relay
  agent,      \* the agent's execution session on each control connection
  launched,   \* the process was launched
  db,         \* the row of the execution
  archived,   \* the external archive holds the admission of the execution
  world,      \* authority revoked (early: before beforeStart), preparation expired
  crashes

hubVars == <<ses, gw, watch, rpc, out>>
storeVars == <<db, archived>>
agentVars == <<agent, launched>>
streamVars == <<down, up>>
controlVars == <<link, toAgent, fromAgent>>
vars == <<controlVars, hubVars, streamVars, agentVars, storeVars, world, crashes>>

Generations == 1..MaxGenerations
Msg(t, arg) == [t |-> t, arg |-> arg]
-----------------------------------------------------------------------------
(* The ExecutionSession.                                                    *)

NoSession ==
  [registered |-> FALSE, conn |-> 0, prepared |-> "none", ticket |-> "none",
   dispatch |-> FALSE, start |-> FALSE, attempted |-> FALSE, attached |-> FALSE,
   started |-> FALSE, result |-> "none", done |-> FALSE, reason |-> "none",
   transportDone |-> FALSE]

\* cancelOnce: the first reason stays.
Cancel(s, reason) == IF s.done THEN s ELSE [s EXCEPT !.done = TRUE, !.reason = reason]

\* The session's control connection is still the node's current one.
executionConnectionOpen(s) == s.conn # 0 /\ s.conn = link.current
Supports == link.current # 0 /\ link.caps = link.current

\* Mutant: the launch check forgets that the session may have been cancelled.
validateLaunchLocked_IgnoresDone(s) ==
  rpc.stream = "open" /\ ~s.transportDone /\ executionConnectionOpen(s) /\ ~world.expired

validateLaunchLocked(s) ==
  /\ rpc.stream = "open" /\ ~s.done /\ ~s.transportDone
  /\ executionConnectionOpen(s) /\ ~world.expired
-----------------------------------------------------------------------------
(* The row of the execution.  synced is its state in the last transaction    *)
(* that was committed with FULL durability, past its last state before an    *)
(* outcome: a loss of power may take back what NORMAL transactions wrote.    *)

Finals == {"exited", "admission_failed", "launch_failed", "cancelled",
           "transport_lost", "outcome_unknown"}
Claimed == {"dispatching", "running"}
Chain == <<"none", "submitted", "prepared", "dispatching", "running">>
At(t) == CHOOSE i \in 1..5 : Chain[i] = t

NoRow == [state |-> "none", past |-> "none", enhanced |-> FALSE, restarted |-> "no",
          admission |-> FALSE, disposition |-> "", synced |-> "none"]
Moved(row, state) == [row EXCEPT !.state = state, !.past = state]

CreateExecution(mode) == [Moved(NoRow, "submitted") EXCEPT !.enhanced = (mode = "enhanced")]

\* Only an unfinished row takes an outcome.
FinishExecution(row, outcome) ==
  IF row.state \in Finals THEN row ELSE [row EXCEPT !.state = outcome]

\* Mutant: after a restart every unfinished execution counts as cancelled.
ReconcileExecutions_Cancels(row, how) ==
  IF row.state \in Finals \cup {"none"} THEN row
  ELSE [row EXCEPT !.restarted = how, !.state = "cancelled"]

ReconcileExecutions(row, how) ==
  IF row.state \in Finals \cup {"none"} THEN row
  ELSE [row EXCEPT !.restarted = how,
          !.state = IF @ \in Claimed THEN "outcome_unknown" ELSE "cancelled"]

MarkExecutionAdmissionUnused(row) ==
  IF ~(row.enhanced /\ row.admission) THEN row
  ELSE [row EXCEPT !.disposition = IF @ = "consumed_dispatch" THEN "consumed_unused"
                                   ELSE IF @ = "archived_unused" THEN @ ELSE "unconfirmed_unused"]

\* The rows a loss of power may leave.
SetBack(row, i, d) == [Moved(row, Chain[i]) EXCEPT !.disposition = d]
Earlier(row, d) == {SetBack(row, i, d) : i \in At(row.synced)..At(row.past)}
Survivors(row) ==
  {row} \cup Earlier(row, row.disposition)
    \cup Earlier(row, IF row.synced = "none" THEN "" ELSE "consumed_dispatch")
-----------------------------------------------------------------------------
NoGateway == [pc |-> "idle", mode |-> "standard", meta |-> "", outcome |-> "none",
              ctx |-> FALSE, drained |-> 0]

Init ==
  /\ link = [current |-> 0, caps |-> 0, handler |-> [g \in Generations |-> "none"]]
  /\ toAgent = [g \in Generations |-> <<>>]
  /\ fromAgent = [g \in Generations |-> <<>>]
  /\ ses = NoSession
  /\ gw = NoGateway
  /\ watch = "off"
  /\ rpc = [handler |-> "off", send |-> "off", recv |-> "off", stream |-> "none"]
  /\ down = <<>> /\ up = <<>>
  /\ out = [o \in Outputs |->
              [made |-> 0, ended |-> FALSE, queue |-> 0, eof |-> FALSE, relay |-> "off", written |-> 0]]
  /\ agent = [g \in Generations |-> "off"]
  /\ launched = FALSE
  /\ db = NoRow /\ archived = FALSE
  /\ world = [revoked |-> FALSE, early |-> FALSE, expired |-> FALSE]
  /\ crashes = 0
-----------------------------------------------------------------------------
(* Control connections.  Each one carries a new execution manager of the     *)
(* agent, whose boot id is therefore its generation.                         *)

\* The agent opens a control stream; the Hub registers it over the previous one.
\* A replacement matters to the execution only while its session may be used:
\* to a session that is done, another generation is no better than none.
Connect(g) ==
  /\ agent[g] = "off" /\ (g > 1 => ses.registered /\ ~ses.done)
  /\ \A h \in Generations : (h < g => agent[h] = "over")
  /\ agent' = [agent EXCEPT ![g] = "idle"]
  /\ link' = [link EXCEPT !.current = g, !.handler[g] = "serving"]
  /\ fromAgent' = [fromAgent EXCEPT ![g] = <<"caps">>]
  /\ UNCHANGED <<toAgent, hubVars, streamVars, launched, storeVars, world, crashes>>

\* A generation whose boot differs withdraws every session of the node.
SetCapabilities(g) ==
  /\ link.handler[g] = "serving" /\ fromAgent[g] # <<>> /\ Head(fromAgent[g]) = "caps"
  /\ fromAgent' = [fromAgent EXCEPT ![g] = Tail(@)]
  /\ IF g = link.current
     THEN /\ link' = [link EXCEPT !.caps = g]
          /\ ses' = IF ses.registered /\ link.caps \notin {0, g}
                    THEN Cancel(ses, "other") ELSE ses
     ELSE UNCHANGED <<link, ses>>
  /\ UNCHANGED <<toAgent, gw, watch, rpc, out, streamVars, agentVars, storeVars, world, crashes>>

Disconnected(g) == [link EXCEPT !.handler[g] = "over", !.caps = IF @ = g THEN 0 ELSE @,
                                !.current = IF @ = g THEN 0 ELSE @]

\* A control stream ended (either side may lose it): EndConnection withdraws its
\* sessions and capabilities, UnregisterIfCurrent the connection.
onAgentDisconnected(g) ==
  /\ link.handler[g] = "serving"
  /\ link' = Disconnected(g)
  /\ fromAgent' = [fromAgent EXCEPT ![g] = <<>>]
  /\ ses' = IF ses.registered /\ ses.conn = g THEN Cancel(ses, "other") ELSE ses
  /\ UNCHANGED <<toAgent, gw, watch, rpc, out, streamVars, agentVars, storeVars, world, crashes>>

\* SendToAgentContext: to the current connection, whichever the session's is.
\* What is sent to an agent that is gone is lost.
SendToAgent(m) ==
  /\ link.current # 0
  /\ toAgent' = [toAgent EXCEPT ![link.current] = IF agent[link.current] = "over" THEN @ ELSE Append(@, m)]

\* The answer to Prepare.  The Hub may refuse it (binding, expiry, identity);
\* the answer for a session that is gone makes it withdraw the preparation.
DeliverPrepared(g) ==
  /\ link.handler[g] = "serving" /\ fromAgent[g] # <<>>
  /\ Head(fromAgent[g]) \in {"prepared", "refused"}
  /\ fromAgent' = [fromAgent EXCEPT ![g] = Tail(@)]
  /\ \/ /\ ses.registered /\ ses.conn = g /\ executionConnectionOpen(ses)
        /\ ses.prepared = "none"
        /\ \E v \in {"ok", "error"} :
             /\ v = "ok" => Head(fromAgent[g]) = "prepared"
             /\ ses' = [ses EXCEPT !.prepared = v]
        /\ UNCHANGED toAgent
     \/ /\ ses.registered /\ (ses.conn # g \/ ~executionConnectionOpen(ses) \/ ses.prepared # "none")
        /\ UNCHANGED <<ses, toAgent>>
     \/ /\ ~ses.registered
        /\ IF Head(fromAgent[g]) = "prepared" /\ link.current # 0
           THEN SendToAgent("cancel") ELSE UNCHANGED toAgent
        /\ UNCHANGED ses
  /\ UNCHANGED <<link, gw, watch, rpc, out, streamVars, agentVars, storeVars, world, crashes>>
-----------------------------------------------------------------------------
(* The gateway goroutine up to the dispatch.                                *)

Goto(pc) == gw' = [gw EXCEPT !.pc = pc]
gwOnly == UNCHANGED <<controlVars, watch, rpc, out, streamVars, agentVars, archived, world, crashes>>

\* Authorized and supported: the session is registered and the row created.
startExec(mode) ==
  /\ gw.pc = "idle" /\ ~world.revoked /\ Supports
  /\ gw' = [gw EXCEPT !.pc = "submitted", !.mode = mode]
  /\ ses' = [NoSession EXCEPT !.registered = TRUE, !.conn = link.current]
  /\ db' = CreateExecution(mode)
  /\ gwOnly

\* runExec: the ordinary audit record, then the watcher.
runExec ==
  /\ gw.pc = "submitted"
  /\ \/ Goto(IF gw.mode = "enhanced" THEN "collect" ELSE "prepare") /\ watch' = "on"
     \/ gw' = [gw EXCEPT !.pc = "finishing", !.outcome = "admission_failed"] /\ UNCHANGED watch
  /\ UNCHANGED <<controlVars, ses, rpc, out, streamVars, agentVars, storeVars, world, crashes>>

collectProtectedInput ==
  /\ gw.pc = "collect" /\ ~gw.ctx /\ ~ses.done
  /\ Goto("prepare")
  /\ UNCHANGED <<ses, db>> /\ gwOnly

\* The 120 s deadline of the submission.
collectDeadline ==
  /\ gw.pc = "collect"
  /\ ses' = Cancel(ses, "other") /\ Goto("failing")
  /\ UNCHANGED db /\ gwOnly

sendPrepare ==
  /\ gw.pc = "prepare" /\ ~gw.ctx
  /\ SendToAgent("prepare") /\ Goto("waitPrepared")
  /\ UNCHANGED <<link, fromAgent, ses, watch, rpc, out, streamVars, agentVars, storeVars, world, crashes>>

PrepareExecution ==
  /\ gw.pc = "waitPrepared" /\ ses.prepared = "ok"
  /\ db.state = "submitted"
  /\ db' = Moved(db, "prepared")
  /\ Goto("issue")
  /\ UNCHANGED ses /\ gwOnly

IssueAttach ==
  /\ gw.pc = "issue" /\ ~gw.ctx /\ ses.ticket = "none" /\ ~world.expired
  /\ ses' = [ses EXCEPT !.ticket = "issued"]
  /\ SendToAgent("attach") /\ Goto("waitAttached")
  /\ UNCHANGED <<link, fromAgent, watch, rpc, out, streamVars, agentVars, storeVars, world, crashes>>

waitAttached ==
  /\ gw.pc = "waitAttached" /\ ses.attached /\ ~world.revoked
  /\ Goto(IF gw.mode = "enhanced" THEN "admit" ELSE "claim")
  /\ UNCHANGED <<ses, db>> /\ gwOnly

ClaimExecutionDispatch ==
  /\ gw.pc = "claim" /\ db.state = "prepared"
  /\ db' = Moved(db, "dispatching")
  /\ gw' = [gw EXCEPT !.pc = "dispatch", !.meta = "dispatching"]
  /\ UNCHANGED ses /\ gwOnly

\* Enhanced admission: the record to archive is bound to the row, ...
SetExecutionSubmission ==
  /\ gw.pc = "admit" /\ db.state = "prepared"
  /\ db' = [db EXCEPT !.admission = TRUE]
  /\ Goto("preserve")
  /\ UNCHANGED ses /\ gwOnly

\* ... archived (the archive may hold it although its answer was lost), ...
Preserve ==
  /\ gw.pc = "preserve"
  /\ archived' = TRUE
  /\ Goto("consume") \/ Goto("failing")
  /\ UNCHANGED <<controlVars, ses, watch, rpc, out, streamVars, agentVars, db, world, crashes>>

\* Mutant: the claim is committed without FULL synchronous durability.
Claim_Normal ==
  /\ gw.pc = "consume" /\ ~world.revoked /\ ~world.expired /\ db.state = "prepared"
  /\ db' = [Moved(db, "dispatching") EXCEPT !.disposition = "consumed_dispatch"]
  /\ Goto("admitted")
  /\ UNCHANGED ses /\ gwOnly

\* ... and its receipt consumed once, in the transaction that claims the dispatch.
Claim ==
  /\ gw.pc = "consume" /\ ~world.revoked /\ ~world.expired /\ db.state = "prepared"
  /\ db' = [Moved(db, "dispatching") EXCEPT !.disposition = "consumed_dispatch", !.synced = "dispatching"]
  /\ Goto("admitted")
  /\ UNCHANGED ses /\ gwOnly

\* A refused claim keeps the receipt as unused.
SaveUnusedExecutionReceipt ==
  /\ gw.pc = "consume" /\ db.state = "prepared"
  /\ db' = [db EXCEPT !.disposition = "archived_unused"]
  /\ Goto("failing")
  /\ UNCHANGED ses /\ gwOnly

SaveExecutionReceipt ==
  /\ gw.pc = "admitted"
  /\ gw' = [gw EXCEPT !.pc = "dispatch", !.meta = "dispatching"]
  /\ UNCHANGED <<ses, db>> /\ gwOnly

\* Dispatch queues the one Start of the session; the relays begin.
Dispatch ==
  /\ gw.pc = "dispatch"
  /\ ~world.expired /\ ses.ticket = "used" /\ ~ses.dispatch
  /\ executionConnectionOpen(ses) /\ ~ses.done
  /\ ses' = [ses EXCEPT !.dispatch = TRUE, !.start = TRUE]
  /\ out' = [o \in Outputs |-> [out[o] EXCEPT !.relay = "copy"]]
  /\ Goto("wait")
  /\ UNCHANGED <<controlVars, watch, rpc, streamVars, agentVars, storeVars, world, crashes>>

\* Every step before the dispatch may fail: an error of the store, the audit
\* log, the archive or the transport, a check that refuses, a timeout, the
\* context, or the session's Done.
Fallible == {"collect", "prepare", "waitPrepared", "issue", "waitAttached", "claim",
             "admit", "admitted", "dispatch"}

executeError ==
  /\ gw.pc \in Fallible
  /\ Goto("failing")
  /\ UNCHANGED <<ses, db>> /\ gwOnly
-----------------------------------------------------------------------------
(* The gateway goroutine after the dispatch.                                *)

\* Started: the row follows, or the session is cancelled.
MarkExecutionRunning ==
  /\ gw.pc = "wait" /\ ses.started /\ gw.meta = "dispatching"
  /\ gw' = [gw EXCEPT !.meta = "running"]
  /\ \/ db.state = "dispatching" /\ db' = Moved(db, "running") /\ UNCHANGED ses
     \/ ses' = Cancel(ses, "other") /\ UNCHANGED db
  /\ gwOnly

\* Mutant: the status does not wait for the outputs.
waitResult_NoDrain ==
  /\ gw.pc = "wait" /\ ses.result # "none"
  /\ gw' = [gw EXCEPT !.pc = "finishing", !.outcome = ses.result]
  /\ UNCHANGED <<ses, db>> /\ gwOnly

waitResult ==
  /\ gw.pc = "wait" /\ ses.result # "none"
  /\ gw' = [gw EXCEPT !.pc = "drain", !.outcome = ses.result]
  /\ UNCHANGED <<ses, db>> /\ gwOnly

waitDone ==
  /\ gw.pc \in {"wait", "drain"} /\ (ses.done \/ gw.ctx)
  /\ Goto("failing")
  /\ UNCHANGED <<ses, db>> /\ gwOnly

waitRuntime ==
  /\ gw.pc = "wait"
  /\ ses' = Cancel(ses, "other") /\ Goto("failing")
  /\ UNCHANGED db /\ gwOnly

\* One of the relays reported that it ended.
drain ==
  /\ gw.pc = "drain"
  /\ gw.drained < Cardinality({o \in Outputs : out[o].relay = "over"})
  /\ gw' = [gw EXCEPT !.drained = @ + 1,
                      !.pc = IF gw.drained + 1 = Cardinality(Outputs) THEN "finishing" ELSE @]
  /\ UNCHANGED <<ses, db>> /\ gwOnly

\* runExec's error path: what is known of the command decides its outcome.
judge ==
  /\ gw.pc = "failing"
  /\ gw' = [gw EXCEPT !.pc = "abort",
       !.outcome = IF ses.reason # "lost" /\ gw.ctx THEN "cancelled"
                   ELSE IF gw.meta \notin Claimed THEN "admission_failed"
                   ELSE IF ses.attempted THEN "outcome_unknown" ELSE "launch_failed"]
  /\ IF gw.mode = "enhanced" /\ ~ses.attempted
     THEN db' = MarkExecutionAdmissionUnused(db) ELSE UNCHANGED db
  /\ UNCHANGED ses /\ gwOnly

\* The session is withdrawn, and so is a preparation the agent answered with.
cancelPreparedExecution ==
  /\ gw.pc = "abort"
  /\ gw' = [gw EXCEPT !.pc = "finishing", !.ctx = TRUE]
  /\ ses' = Cancel(ses, "other")
  /\ \/ ses.prepared = "ok" /\ SendToAgent("cancel")
     \/ UNCHANGED toAgent
  /\ UNCHANGED <<link, fromAgent, watch, rpc, out, streamVars, agentVars, storeVars, world, crashes>>

\* finishExec.  The outcome may not be recorded.
finishExec ==
  /\ gw.pc = "finishing"
  /\ gw' = [gw EXCEPT !.pc = "close", !.meta = "", !.outcome = "none", !.drained = 0]
  /\ db' \in {db, FinishExecution(db, gw.outcome)}
  /\ UNCHANGED ses /\ gwOnly

\* The channel closes once the relays stopped, the watcher ends with the
\* context, and the session is removed.
Remove ==
  /\ gw.pc = "close" /\ \A o \in Outputs : out[o].relay # "copy"
  /\ watch # "cancelled" /\ watch' = "over"
  /\ gw' = [NoGateway EXCEPT !.pc = "over", !.mode = gw.mode, !.ctx = TRUE]
  /\ ses' = [Cancel(ses, "other") EXCEPT !.registered = FALSE]
  /\ UNCHANGED <<controlVars, rpc, out, streamVars, agentVars, storeVars, world, crashes>>
-----------------------------------------------------------------------------
(* watchExecution: the session is cancelled first, then the context.         *)

\* The client left or stopped reading, its authority or the agent is gone, or
\* the session is done: all but the last may be at any time.
watchExecution ==
  /\ watch = "on" /\ ~gw.ctx
  /\ ses' = Cancel(ses, "other") /\ watch' = "cancelled"
  /\ UNCHANGED <<controlVars, gw, rpc, out, streamVars, agentVars, storeVars, world, crashes>>

watchEnd ==
  /\ watch = "cancelled" /\ watch' = "over"
  /\ gw' = [gw EXCEPT !.ctx = TRUE]
  /\ UNCHANGED <<controlVars, ses, rpc, out, streamVars, agentVars, storeVars, world, crashes>>
-----------------------------------------------------------------------------
(* One relay for each output, from the session's queue to the SSH channel.   *)

relayOnly == UNCHANGED <<controlVars, gw, watch, rpc, streamVars, agentVars, storeVars, world, crashes>>

relayWrite(o) ==
  /\ out[o].relay = "copy" /\ out[o].queue > 0
  /\ \/ /\ out' = [out EXCEPT ![o].queue = @ - 1, ![o].written = @ + 1]
        /\ UNCHANGED ses
     \/ /\ out' = [out EXCEPT ![o].queue = @ - 1, ![o].relay = "over"]
        /\ ses' = Cancel(ses, "other")
  /\ relayOnly

\* Mutant: a relay leaves only when its output ended.
relayEnd_IgnoresContext(o) ==
  /\ out[o].relay = "copy" /\ out[o].eof /\ out[o].queue = 0
  /\ out' = [out EXCEPT ![o].relay = "over"]
  /\ UNCHANGED ses /\ relayOnly

\* The output ended, or the context is cancelled.
relayEnd(o) ==
  /\ out[o].relay = "copy" /\ (gw.ctx \/ (out[o].eof /\ out[o].queue = 0))
  /\ out' = [out EXCEPT ![o].relay = "over"]
  /\ UNCHANGED ses /\ relayOnly

\* forwardExecutionInput gives up on the session (Standard only).
inputFailed ==
  /\ gw.mode = "standard" /\ ses.dispatch /\ gw.pc \in {"wait", "drain"} /\ ~gw.ctx
  /\ ses' = Cancel(ses, "other")
  /\ UNCHANGED out /\ relayOnly
-----------------------------------------------------------------------------
(* The Execute RPC.                                                         *)

rpcOnly == UNCHANGED <<controlVars, gw, watch, agentVars, storeVars, world, crashes>>
\* How a goroutine of the handler ended; nobody asks once the handler returned.
Ended(how) == IF rpc.handler = "over" /\ how \in {"nil", "error"} THEN "over" ELSE how
Sends(next) == rpc' = [rpc EXCEPT !.send = Ended(next)]
Arrived(t) == rpc.recv = "on" /\ up # <<>> /\ Head(up).t = t
Receives == up' = Tail(up) /\ UNCHANGED rpc
Returns(how) == up' = <<>> /\ rpc' = [rpc EXCEPT !.recv = Ended(how)]  \* the receiver

\* Execute: the first message consumes the ticket, once.
Attach ==
  /\ rpc.handler = "off" /\ rpc.stream = "open"
  /\ up # <<>> /\ Head(up).t = "attach" /\ up' = Tail(up)
  /\ IF /\ ses.registered /\ executionConnectionOpen(ses) /\ ~ses.done
        /\ ~world.expired /\ ses.ticket = "issued"
     THEN /\ ses' = [ses EXCEPT !.ticket = "used"]
          /\ rpc' = [rpc EXCEPT !.handler = "serving", !.send = "attach", !.recv = "on"]
     ELSE rpc' = [rpc EXCEPT !.handler = "over", !.stream = "cut"] /\ UNCHANGED ses
  /\ UNCHANGED <<down, out>> /\ rpcOnly

sendAttached ==
  /\ rpc.send = "attach" /\ rpc.stream = "open"
  /\ down' = Append(down, "attached") /\ Sends("queue")
  /\ ses' = [ses EXCEPT !.attached = TRUE]
  /\ UNCHANGED <<up, out>> /\ rpcOnly

\* The dequeue may win against a cancellation; the first check follows.
dequeueStart ==
  /\ rpc.send = "queue" /\ ses.start
  /\ ses' = [ses EXCEPT !.start = FALSE]
  /\ Sends(IF ~validateLaunchLocked(ses) THEN "error"
           ELSE IF gw.mode = "enhanced" THEN "script" ELSE "check")
  /\ UNCHANGED <<streamVars, out>> /\ rpcOnly

\* Enhanced transfers the script, if there is one.
sendProtectedScript ==
  /\ rpc.send = "script"
  /\ Sends("check") \/ Sends("error")
  /\ UNCHANGED <<ses, streamVars, out>> /\ rpcOnly

\* Mutant: live authority is not read again before Start.
beforeStart_Skipped ==
  /\ rpc.send = "check"
  /\ Sends("attempt")
  /\ UNCHANGED <<ses, streamVars, out>> /\ rpcOnly

\* recheckExecutionPolicy (and the receipt) in the sole sender, before Start.
beforeStart ==
  /\ rpc.send = "check"
  /\ Sends("error") \/ (~world.revoked /\ Supports /\ Sends("attempt"))
  /\ UNCHANGED <<ses, streamVars, out>> /\ rpcOnly

\* Under the session's mutex: the second check and the mark of the attempt.
attemptStart ==
  /\ rpc.send = "attempt"
  /\ IF validateLaunchLocked(ses)
     THEN ses' = [ses EXCEPT !.attempted = TRUE] /\ Sends("start")
     ELSE Sends("error") /\ UNCHANGED ses
  /\ UNCHANGED <<streamVars, out>> /\ rpcOnly

sendStart ==
  /\ rpc.send = "start" /\ rpc.stream = "open"
  /\ down' = Append(down, "start") /\ Sends("input")
  /\ UNCHANGED <<ses, up, out>> /\ rpcOnly

\* The sender returns: nil once the session or the transport is done, an error
\* when the stream is lost.
senderEnds ==
  /\ \/ rpc.send \in {"queue", "input"} /\ (ses.done \/ ses.transportDone) /\ Sends("nil")
     \/ rpc.send \in {"attach", "queue", "script", "start", "input"} /\ rpc.stream = "cut" /\ Sends("error")
  /\ UNCHANGED <<ses, streamVars, out>> /\ rpcOnly

receiveStarted ==
  /\ Arrived("started")
  /\ IF ses.dispatch /\ ~ses.started
     THEN ses' = [ses EXCEPT !.started = TRUE] /\ Receives
     ELSE Returns("error") /\ UNCHANGED ses
  /\ UNCHANGED <<down, out>> /\ rpcOnly

\* StartFailed is a result of its own; both outputs end.
receiveStartFailed ==
  /\ Arrived("failed")
  /\ IF ses.dispatch /\ ~ses.started
     THEN /\ ses' = [ses EXCEPT !.result = Head(up).arg] /\ Returns("nil")
          /\ out' = [o \in Outputs |-> [out[o] EXCEPT !.eof = TRUE]]
     ELSE Returns("error") /\ UNCHANGED <<ses, out>>
  /\ UNCHANGED down /\ rpcOnly

\* A frame waits for its queue; a cancelled session refuses it.
receiveOutput(o) ==
  /\ Arrived("frame") /\ Head(up).arg = o
  /\ IF ~ses.started \/ out[o].eof THEN Returns("error") /\ UNCHANGED out
     ELSE \/ out[o].queue < QueueFrames /\ out' = [out EXCEPT ![o].queue = @ + 1] /\ Receives
          \/ (ses.done \/ rpc.stream = "cut") /\ Returns("error") /\ UNCHANGED out
  /\ UNCHANGED <<ses, down>> /\ rpcOnly

receiveEOF(o) ==
  /\ Arrived("eof") /\ Head(up).arg = o
  /\ IF ses.started /\ ~out[o].eof
     THEN out' = [out EXCEPT ![o].eof = TRUE] /\ Receives
     ELSE Returns("error") /\ UNCHANGED out
  /\ UNCHANGED <<ses, down>> /\ rpcOnly

receiveResult ==
  /\ Arrived("result")
  /\ IF ses.started /\ \A o \in Outputs : out[o].eof
     THEN ses' = [ses EXCEPT !.result = Head(up).arg] /\ Returns("nil")
     ELSE Returns("error") /\ UNCHANGED ses
  /\ UNCHANGED <<down, out>> /\ rpcOnly

receiverEnds ==
  /\ rpc.recv = "on" /\ rpc.stream = "cut"
  /\ Returns("error")
  /\ UNCHANGED <<ses, down, out>> /\ rpcOnly

\* The handler returns with the first of its goroutines, with the session's
\* Done or with the stream; any error withdraws the session.  The transport is
\* done then, which leaves its sender nothing to send.
ExecuteReturns ==
  /\ rpc.handler = "serving"
  /\ LET finished == [ses EXCEPT !.transportDone = TRUE] IN
     \/ "nil" \in {rpc.send, rpc.recv} /\ ses' = finished
     \/ /\ "error" \in {rpc.send, rpc.recv} \/ ses.done \/ rpc.stream = "cut"
        /\ ses' = Cancel(finished, "lost")
  /\ rpc' = [rpc EXCEPT !.handler = "over", !.stream = "cut", !.send = "over",
                        !.recv = IF @ \in {"nil", "error"} THEN "over" ELSE @]
  /\ UNCHANGED <<streamVars, out>> /\ rpcOnly
-----------------------------------------------------------------------------
(* The agent, as AgentExecution abstracts it.                               *)

agentOnly == UNCHANGED <<link, hubVars, storeVars, world, crashes>>
Live == {"idle", "prepared", "attached", "ready", "running"}
Becomes(g, phase) == agent' = [agent EXCEPT ![g] = phase]
Reports(m) == up' = IF rpc.recv \in {"off", "on"} THEN Append(up, m) ELSE up

handlePrepare(g) ==
  /\ agent[g] \in Live /\ toAgent[g] # <<>> /\ Head(toAgent[g]) = "prepare"
  /\ toAgent' = [toAgent EXCEPT ![g] = Tail(@)]
  /\ \/ /\ agent[g] = "idle" /\ Becomes(g, "prepared")
        /\ fromAgent' = [fromAgent EXCEPT ![g] = Append(@, "prepared")]
     \/ fromAgent' = [fromAgent EXCEPT ![g] = Append(@, "refused")] /\ UNCHANGED agent
  /\ UNCHANGED <<streamVars, launched>> /\ agentOnly

\* The attachment opens the Execute stream; without a preparation it is dropped.
handleAttach(g) ==
  /\ agent[g] \in Live /\ toAgent[g] # <<>> /\ Head(toAgent[g]) = "attach"
  /\ toAgent' = [toAgent EXCEPT ![g] = Tail(@)]
  /\ IF agent[g] = "prepared" /\ rpc.stream = "none"
     THEN Becomes(g, "attached") /\ up' = <<Msg("attach", "")>> /\ rpc' = [rpc EXCEPT !.stream = "open"]
     ELSE UNCHANGED <<agent, up, rpc>>
  /\ UNCHANGED <<link, fromAgent, ses, gw, watch, out, down, launched, storeVars, world, crashes>>

\* Cancel withdraws a preparation, or ends the process and its transport.
handleCancel(g) ==
  /\ agent[g] \in Live /\ toAgent[g] # <<>> /\ Head(toAgent[g]) = "cancel"
  /\ toAgent' = [toAgent EXCEPT ![g] = Tail(@)]
  /\ IF agent[g] = "prepared" THEN Becomes(g, "idle")
     ELSE IF agent[g] \in {"attached", "ready"} THEN Becomes(g, "withdrawn")
     ELSE IF agent[g] = "running" THEN Becomes(g, "killed")
     ELSE UNCHANGED agent
  /\ UNCHANGED <<fromAgent, streamVars, launched>> /\ agentOnly

handleAttached(g) ==
  /\ agent[g] = "attached" /\ down # <<>> /\ Head(down) = "attached" /\ down' = Tail(down)
  /\ Becomes(g, "ready")
  /\ UNCHANGED <<toAgent, fromAgent, up, launched>> /\ agentOnly

\* Start: launched at most once (the journal), or it fails; what failed after
\* the launch is reported as unknown.
handleStart(g) ==
  /\ agent[g] \in {"ready", "withdrawn"} /\ down # <<>> /\ Head(down) = "start" /\ down' = Tail(down)
  /\ \/ /\ agent[g] = "ready" /\ ~launched
        /\ launched' = TRUE /\ Becomes(g, "running")
        /\ Reports(Msg("started", ""))
     \/ /\ Becomes(g, "idle") /\ UNCHANGED launched
        /\ Reports(Msg("failed", "launch_failed"))
     \/ /\ agent[g] = "ready" /\ ~launched
        /\ launched' \in BOOLEAN /\ Becomes(g, "idle")
        /\ Reports(Msg("failed", "outcome_unknown"))
  /\ UNCHANGED <<toAgent, fromAgent>> /\ agentOnly

processWrites(g, o) ==
  /\ agent[g] \in {"running", "killed"} /\ out[o].made < MaxFrames /\ ~out[o].ended
  /\ rpc.stream = "open" /\ Reports(Msg("frame", o))
  /\ out' = [out EXCEPT ![o].made = @ + 1]
  /\ UNCHANGED <<controlVars, ses, gw, watch, rpc, down, agentVars, storeVars, world, crashes>>

processEOF(g, o) ==
  /\ agent[g] \in {"running", "killed"} /\ ~out[o].ended
  /\ rpc.stream = "open" /\ Reports(Msg("eof", o))
  /\ out' = [out EXCEPT ![o].ended = TRUE]
  /\ UNCHANGED <<controlVars, ses, gw, watch, rpc, down, agentVars, storeVars, world, crashes>>

sendResult(g) ==
  /\ agent[g] \in {"running", "killed"} /\ \A o \in Outputs : out[o].ended
  /\ rpc.stream = "open"
  /\ Reports(Msg("result", IF agent[g] = "killed" THEN "cancelled" ELSE "exited"))
  /\ Becomes(g, "idle")
  /\ UNCHANGED <<toAgent, fromAgent, down, launched>> /\ agentOnly

\* The preparation expired, or serve lost its stream: the process is ended.
serveEnds(g) ==
  /\ \/ agent[g] \in {"prepared", "attached", "ready", "withdrawn"}
     \/ agent[g] \in {"running", "killed"} /\ rpc.stream = "cut"
  /\ Becomes(g, "idle")
  /\ rpc' = IF agent[g] = "prepared" THEN rpc ELSE [rpc EXCEPT !.stream = "cut"]
  /\ down' = <<>>
  /\ UNCHANGED <<controlVars, ses, gw, watch, out, up, launched, storeVars, world, crashes>>

\* The agent's session on the control connection ends: restart, network, close.
agentEnds(g) ==
  /\ agent[g] \notin {"off", "over"}
  /\ Becomes(g, "over")
  /\ rpc' = IF rpc.stream = "open" THEN [rpc EXCEPT !.stream = "cut"] ELSE rpc
  /\ toAgent' = [toAgent EXCEPT ![g] = <<>>] /\ down' = <<>>
  /\ UNCHANGED <<link, fromAgent, ses, gw, watch, out, up, launched, storeVars, world, crashes>>
(* The environment: revocation, clocks, networks, crashes.                   *)

envOnly == UNCHANGED <<controlVars, ses, gw, watch, out, streamVars, agentVars, archived, crashes>>

\* Neither changes anything before the session, once Start was attempted, or
\* once it cannot be any more: a connection that is gone is not installed again.
\* (watchExecution may end the session at any time anyway.)
Startable == ses.registered /\ ~ses.attempted /\ ~ses.done /\ executionConnectionOpen(ses)

Revoke ==
  /\ Revocable /\ ~world.revoked /\ Startable
  /\ world' = [world EXCEPT !.revoked = TRUE, !.early = rpc.send # "attempt"]
  /\ UNCHANGED <<rpc, db>> /\ envOnly

PreparationExpires ==
  /\ ~world.expired /\ ses.prepared = "ok" /\ Startable
  /\ world' = [world EXCEPT !.expired = TRUE]
  /\ UNCHANGED <<rpc, db>> /\ envOnly

StreamLost ==
  /\ rpc.stream = "open" /\ rpc' = [rpc EXCEPT !.stream = "cut"]
  /\ UNCHANGED <<db, world>> /\ envOnly

\* The Hub stops (a loss of power also loses what is not on the disk) and
\* restarts: nothing of a session survives, and the row is reconciled.
Crash(power) ==
  /\ crashes < MaxCrashes /\ crashes' = crashes + 1
  /\ gw.pc # "idle"
  /\ \E row \in IF power THEN Survivors(db) ELSE {db} :
       db' = ReconcileExecutions(row, IF power THEN "power" ELSE "crash")
  /\ link' = [current |-> 0, caps |-> 0,
              handler |-> [g \in Generations |-> IF link.handler[g] = "none" THEN "none" ELSE "over"]]
  /\ toAgent' = [g \in Generations |-> <<>>] /\ fromAgent' = [g \in Generations |-> <<>>]
  /\ ses' = NoSession
  /\ gw' = [NoGateway EXCEPT !.pc = "over", !.mode = gw.mode, !.ctx = TRUE]
  /\ watch' = "over"
  /\ rpc' = [handler |-> "over", send |-> "off", recv |-> "off", stream |-> "cut"]
  /\ down' = <<>> /\ up' = <<>>
  /\ out' = [o \in Outputs |-> [out[o] EXCEPT !.relay = "over"]]
  /\ UNCHANGED <<agentVars, archived, world>>
-----------------------------------------------------------------------------
Gateway ==
  \/ \E m \in Modes : startExec(m)
  \/ runExec \/ collectProtectedInput \/ collectDeadline \/ sendPrepare
  \/ PrepareExecution \/ IssueAttach \/ waitAttached \/ ClaimExecutionDispatch
  \/ SetExecutionSubmission \/ Preserve \/ Claim \/ SaveUnusedExecutionReceipt
  \/ SaveExecutionReceipt \/ Dispatch \/ executeError

Completion ==
  \/ MarkExecutionRunning \/ waitResult \/ waitDone \/ waitRuntime \/ drain
  \/ judge \/ cancelPreparedExecution \/ finishExec \/ Remove

Watching == watchExecution \/ watchEnd
Relaying == inputFailed \/ \E o \in Outputs : relayWrite(o) \/ relayEnd(o)

Sending ==
  \/ Attach \/ sendAttached \/ dequeueStart \/ sendProtectedScript
  \/ beforeStart \/ attemptStart \/ sendStart \/ senderEnds

Receiving ==
  \/ receiveStarted \/ receiveStartFailed \/ receiveResult \/ receiverEnds
  \/ \E o \in Outputs : receiveOutput(o) \/ receiveEOF(o)
  \/ ExecuteReturns

Control(g) ==
  \/ Connect(g) \/ SetCapabilities(g) \/ onAgentDisconnected(g) \/ DeliverPrepared(g)

Agent(g) ==
  \/ handlePrepare(g) \/ handleAttach(g) \/ handleCancel(g)
  \/ handleAttached(g) \/ handleStart(g) \/ sendResult(g)
  \/ serveEnds(g) \/ agentEnds(g)
  \/ \E o \in Outputs : processWrites(g, o) \/ processEOF(g, o)

Environment ==
  \/ Revoke \/ PreparationExpires \/ StreamLost
  \/ \E power \in BOOLEAN : Crash(power)

Next ==
  \/ Gateway \/ Completion \/ Watching \/ Relaying \/ Sending \/ Receiving
  \/ \E g \in Generations : Control(g) \/ Agent(g)
  \/ Environment

Spec == Init /\ [][Next]_vars

\* While goroutines can move some of them does, a stream and an SSH channel that are
\* open are served, and a wait ends with its timeout; clients, revocations and
\* losses need not happen.
FairSpec ==
  /\ Spec
  /\ WF_vars(\/ gw.pc # "idle" /\ (Gateway \/ Completion)
             \/ watchEnd \/ Sending \/ ExecuteReturns
             \/ \E o \in Outputs : relayWrite(o) \/ relayEnd(o)
             \/ \E g \in Generations : serveEnds(g))
-----------------------------------------------------------------------------
Unused == {"consumed_unused", "archived_unused", "unconfirmed_unused"}

\* What the connections, the session, the goroutines, the streams and the store may
\* hold.
Links == [current : 0..MaxGenerations, caps : 0..MaxGenerations,
          handler : [Generations -> {"none", "serving", "over"}]]
Results == {"exited", "cancelled", "launch_failed", "outcome_unknown"}
Sessions ==
  [registered : BOOLEAN, conn : 0..MaxGenerations, prepared : {"none", "ok", "error"},
   ticket : {"none", "issued", "used"}, dispatch : BOOLEAN, start : BOOLEAN,
   attempted : BOOLEAN, attached : BOOLEAN, started : BOOLEAN,
   result : Results \cup {"none"}, done : BOOLEAN, reason : {"none", "other", "lost"},
   transportDone : BOOLEAN]
PCs ==
  {"idle", "submitted", "collect", "prepare", "waitPrepared", "issue", "waitAttached", "claim",
   "admit", "preserve", "consume", "admitted", "dispatch", "wait", "drain", "failing", "abort",
   "finishing", "close", "over"}
Gateways ==
  [pc : PCs, mode : {"standard", "enhanced"}, meta : Claimed \cup {""},
   outcome : Finals \cup {"none"}, ctx : BOOLEAN, drained : Nat]
Rpcs ==
  [handler : {"off", "serving", "over"},
   send : {"off", "attach", "queue", "script", "check", "attempt", "start", "input", "nil",
           "error", "over"},
   recv : {"off", "on", "nil", "error", "over"}, stream : {"none", "open", "cut"}]
Downs == {<<>>, <<"attached">>, <<"start">>, <<"attached", "start">>}
Ups ==
  [t : {"attach", "started"}, arg : {""}]
    \cup [t : {"failed"}, arg : {"launch_failed", "outcome_unknown"}]
    \cup [t : {"frame", "eof"}, arg : Outputs]
    \cup [t : {"result"}, arg : {"exited", "cancelled"}]
Pipes == [made : 0..MaxFrames, ended : BOOLEAN, queue : 0..QueueFrames, eof : BOOLEAN,
          relay : {"off", "copy", "over"}, written : Nat]
Phases == {"off", "idle", "prepared", "attached", "ready", "running", "withdrawn", "killed",
           "over"}
Stages == {"none", "submitted", "prepared", "dispatching", "running"}
Rows ==
  [state : Finals \cup Stages, past : Stages, enhanced : BOOLEAN,
   restarted : {"no", "crash", "power"}, admission : BOOLEAN,
   disposition : Unused \cup {"", "consumed_dispatch"}, synced : Stages]

TypeOK ==
  /\ link \in Links
  /\ toAgent \in [Generations -> Seq({"prepare", "attach", "cancel"})]
  /\ fromAgent \in [Generations -> Seq({"caps", "prepared", "refused"})]
  /\ ses \in Sessions /\ gw \in Gateways /\ watch \in {"off", "on", "cancelled", "over"}
  /\ rpc \in Rpcs /\ down \in Downs /\ up \in Seq(Ups) /\ out \in [Outputs -> Pipes]
  /\ agent \in [Generations -> Phases] /\ launched \in BOOLEAN
  /\ db \in Rows /\ archived \in BOOLEAN
  /\ world \in [revoked : BOOLEAN, early : BOOLEAN, expired : BOOLEAN] /\ crashes \in Nat

\* A row that says the command never ran (admission or launch failed), or that
\* its admission was not used, is right: nothing was launched, and nothing
\* will be.
NeverRan ==
  db.state \in {"admission_failed", "launch_failed"} \/ db.disposition \in Unused => ~launched

\* ReconcileExecutions: an execution that a restart reports as cancelled was
\* never launched.  After a loss of power only Enhanced promises it.
RestartKnows ==
  db.state = "cancelled" /\ (db.restarted = "crash" \/ (db.restarted = "power" /\ db.enhanced))
    => ~launched

\* An Enhanced command runs only after its admission was archived, with the
\* one-use claim of its receipt on the disk.
ArchivedBeforeLaunch ==
  launched /\ gw.mode = "enhanced" => archived /\ db.synced = "dispatching"

\* beforeStart: authority that was withdrawn before the sender read it again
\* stops the command, wherever the gateway and the transfer were.
AuthorityBeforeStart == world.early => ~ses.attempted /\ ~launched

\* The wait of execute for its outputs: an exit that nothing disturbed is
\* reported after every byte reached the SSH channel.
DrainedBeforeExit ==
  gw.pc = "close" /\ db.state = "exited" /\ ~ses.done /\ ~gw.ctx =>
    \A o \in Outputs : out[o].written = out[o].made

\* Every execution that was submitted ends: no wait of runExec is for ever.  And a
\* command does not outlive its execution: once runExec is over the agent's process
\* ends, whoever withdrew the session and whichever stream was lost.
ExecutionEnds ==
  gw.pc = "submitted" ~>
    gw.pc = "over" /\ \A g \in Generations : agent[g] \notin {"running", "killed"}
=============================================================================
