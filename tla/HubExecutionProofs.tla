------------------------ MODULE HubExecutionProofs -------------------------
(***************************************************************************)
(* HubExecution's inductive invariant and the theorems that follow from    *)
(* it, for any generations, outputs, frames, queue length and number of    *)
(* crashes: what a row may say of a command (NeverRan), what a restart may *)
(* conclude from one (RestartKnows), and what precedes a launch            *)
(* (ArchivedBeforeLaunch, AuthorityBeforeStart).                           *)
(*                                                                         *)
(* Whether a command may still run is spread over five places: the queue   *)
(* of the session, the sender's place, the stream, the agent and the       *)
(* process. OneStart says that they hold one Start between them, and in    *)
(* which order it passes through them.  Withdrawn says that runExec gives  *)
(* up on a dispatched command only with a session that is done, which is   *)
(* what the sender's last check reads.  From the two follows that a        *)
(* command that is denied will not run (SaysItNeverRan), although the      *)
(* gateway, the sender and the agent never agree on it.  RowFollows orders *)
(* the row and the archive before the dispatch, which is what a restart    *)
(* relies on.                                                              *)
(*                                                                         *)
(* The layers about the outputs of a command, which HubExecutionOutputs    *)
(* needs beside these, are stated here with the steps that move no frame.  *)
(***************************************************************************)
EXTENDS HubExecution, TLAPS

\* The places of runExec before the dispatch.
Early == {"idle", "submitted", "collect", "prepare", "waitPrepared", "issue", "waitAttached",
          "claim", "admit", "preserve", "consume", "admitted", "dispatch"}
\* The sender before it took the Start from the queue, or without it,
Waiting == {"off", "attach", "queue", "nil", "error", "over"}
\* and after it sent it.
Through == {"input", "nil", "error", "over"}
StartQueued == down \in {<<"start">>, <<"attached", "start">>}
\* The agent reported that it launched nothing.
ToldNothingRan ==
  ses.result = "launch_failed" \/ \E i \in 1..Len(up) : up[i] = Msg("failed", "launch_failed")
\* What a restart of the Hub leaves of an execution.
Restarted == gw.pc = "over" /\ ~ses.registered /\ ~ses.dispatch /\ rpc.handler = "over" /\ rpc.send = "off"

\* There is one Start: in the session's queue, with the sender, on the stream, or
\* consumed by the agent, which launched or reported that it did not.
OneStart ==
  /\ rpc.handler = "off" => rpc.send = "off"
  /\ rpc.handler = "over" => rpc.send \in {"off", "over"}
  /\ gw.pc \in Early => ~ses.dispatch
  /\ ~ses.dispatch => ~ses.start /\ ~ses.attempted /\ rpc.send \in Waiting
  /\ ses.start => rpc.send \in Waiting
  /\ rpc.send \in {"off", "attach"} => down = <<>>
  /\ ses.attempted => rpc.send \in {"start"} \cup Through
  /\ ~ses.attempted => rpc.send \notin {"start", "input"} /\ ~StartQueued
  /\ launched => ses.attempted \/ Restarted
  /\ rpc.send = "start" => ~launched /\ ~StartQueued
  /\ StartQueued => ~launched /\ rpc.send \in Through
  /\ ToldNothingRan => ses.attempted /\ ~launched /\ ~StartQueued /\ rpc.send \in Through

\* Whoever withdraws the execution cancels the session first.
Withdrawn ==
  /\ gw.pc = "idle" => watch = "off" /\ ~gw.ctx /\ gw.outcome = "none"
  /\ gw.pc = "dispatch" => gw.meta \in Claimed
  /\ watch = "cancelled" => ses.done
  /\ gw.ctx => ses.done \/ gw.pc = "over"
  /\ gw.pc \in {"failing", "abort"} => ses.done \/ ~ses.dispatch
  /\ ses.dispatch => gw.meta \in Claimed \/ gw.pc \in {"close", "over"}

\* Nothing was launched, and nobody is left who would send the Start.
WillNotRun ==
  /\ ~launched /\ rpc.send # "start" /\ ~StartQueued
  /\ ses.done \/ rpc.send \in Through \/ rpc.handler = "over" \/ (~ses.dispatch /\ gw.pc \notin Early)

\* runExec decided, or the row says, that the command did not run.
Denied ==
  \/ gw.outcome \in {"admission_failed", "launch_failed"}
  \/ db.state \in {"admission_failed", "launch_failed"} \/ db.disposition \in Unused
SaysItNeverRan == Denied => WillNotRun

\* The row and the archive are ahead of the dispatch.
RowFollows ==
  /\ gw.pc = "idle" => db.state = "none" /\ db.disposition = ""
  /\ gw.pc # "over" \/ ses.dispatch => db.restarted = "no"
  /\ gw.pc \in {"admitted", "dispatch"} => db.state = "dispatching"
  /\ ses.dispatch \/ launched => db.state \notin {"submitted", "prepared"}
  /\ db.enhanced => gw.mode = "enhanced"
  /\ gw.pc = "claim" => gw.mode = "standard"
  /\ gw.pc \in {"consume", "admitted"} => archived
  /\ gw.pc = "admitted" => db.synced = "dispatching"
  /\ gw.mode = "enhanced" /\ (gw.pc = "dispatch" \/ ses.dispatch \/ launched) =>
       archived /\ db.synced = "dispatching"

\* Authority that was withdrawn early finds the sender before its last read of it.
Revoked ==
  world.early =>
    world.revoked /\ ~ses.attempted /\ ~launched /\ rpc.send \notin {"attempt", "start"}

IInv == TypeOK /\ OneStart /\ Withdrawn /\ SaysItNeverRan /\ RowFollows /\ Revoked /\ RestartKnows

-----------------------------------------------------------------------------
(* What a step of each process leaves alone.                               *)

\* Cancel keeps a session a session: only done and reason change.
LEMMA CancelType ==
  ASSUME NEW s \in Sessions, NEW reason \in {"other", "lost"}
  PROVE  Cancel(s, reason) \in Sessions
<1>1. [s EXCEPT !.done = TRUE] \in Sessions BY Zenon DEF Sessions
<1>2. \A t \in Sessions : [t EXCEPT !.reason = reason] \in Sessions BY Zenon DEF Sessions
<1>3. [s EXCEPT !.done = TRUE, !.reason = reason] = [[s EXCEPT !.done = TRUE] EXCEPT !.reason = reason]
  BY Zenon
<1>. QED BY <1>1, <1>2, <1>3, Zenon DEF Cancel

\* The fields of a session that the Execute handler and the control handler set.
LEMMA SessionUpdates ==
  ASSUME NEW s \in Sessions
  PROVE  /\ [s EXCEPT !.ticket = "used"] \in Sessions
         /\ [s EXCEPT !.attached = TRUE] \in Sessions
         /\ [s EXCEPT !.start = FALSE] \in Sessions
         /\ [s EXCEPT !.attempted = TRUE] \in Sessions
         /\ [s EXCEPT !.started = TRUE] \in Sessions
         /\ [s EXCEPT !.transportDone = TRUE] \in Sessions
         /\ \A r \in Results : [s EXCEPT !.result = r] \in Sessions
         /\ \A v \in {"ok", "error"} : [s EXCEPT !.prepared = v] \in Sessions
BY ZenonT(30) DEF Sessions

\* A message that arrived is one of the agent's.
LEMMA ArrivedType ==
  ASSUME TypeOK, NEW t, Arrived(t)
  PROVE  up # <<>> /\ Head(up) \in Ups /\ Head(up).t = t
BY DEF TypeOK, Arrived

\* The messages the agent sends on the Execute stream.
LEMMA MessageType ==
  /\ Msg("attach", "") \in Ups /\ Msg("started", "") \in Ups
  /\ Msg("failed", "launch_failed") \in Ups /\ Msg("failed", "outcome_unknown") \in Ups
  /\ Msg("result", "exited") \in Ups /\ Msg("result", "cancelled") \in Ups
  /\ \A o \in Outputs : Msg("frame", o) \in Ups /\ Msg("eof", o) \in Ups
BY Zenon DEF Msg, Ups

\* What the agent finds at the head of the Execute stream, and what is left behind it.
LEMMA DownTails ==
  ASSUME down \in Downs, down # <<>>
  PROVE  /\ Tail(down) \in Downs
         /\ Head(down) = "attached" => down \in {<<"attached">>, <<"attached", "start">>}
         /\ Head(down) = "start" => down = <<"start">> /\ Tail(down) = <<>>
<1>1. /\ Tail(<<"attached">>) = <<>> /\ Tail(<<"start">>) = <<>>
      /\ Tail(<<"attached", "start">>) = <<"start">>
  OBVIOUS
<1>2. /\ Head(<<"attached">>) = "attached" /\ Head(<<"start">>) = "start"
      /\ Head(<<"attached", "start">>) = "attached"
  OBVIOUS
<1>. QED BY <1>1, <1>2, ZenonT(30) DEF Downs

\* Cancel ends the session and leaves what it says of the dispatch and the result.
LEMMA CancelFields ==
  ASSUME NEW s \in Sessions, NEW reason \in {"other", "lost"}
  PROVE  LET c == Cancel(s, reason) IN
         /\ c \in Sessions /\ c.done = TRUE
         /\ c.dispatch = s.dispatch /\ c.start = s.start /\ c.attempted = s.attempted
         /\ c.result = s.result /\ c.registered = s.registered
<1>. DEFINE c == Cancel(s, reason)
<1>1. c \in Sessions BY CancelType, Zenon
<1>2. c.done = TRUE BY Zenon DEF Cancel, Sessions
<1>3. c.dispatch = s.dispatch /\ c.start = s.start /\ c.attempted = s.attempted
  BY Zenon DEF Cancel, Sessions
<1>4. c.result = s.result /\ c.registered = s.registered BY Zenon DEF Cancel, Sessions
<1>. QED BY <1>1, <1>2, <1>3, <1>4, Zenon

\* A step of the sender changes the sender's place and nothing else of the RPC.
LEMMA SendsFields ==
  ASSUME TypeOK, NEW next, Sends(next)
  PROVE  /\ rpc'.handler = rpc.handler /\ rpc'.recv = rpc.recv /\ rpc'.stream = rpc.stream
         /\ rpc'.send = Ended(next)
<1>1. rpc \in Rpcs BY Zenon DEF TypeOK
<1>. QED BY <1>1, Zenon DEF Sends, Rpcs

\* A step of the receiver leaves the handler, the sender and the stream's state alone.
LEMMA ReceivesFields ==
  ASSUME TypeOK, Receives \/ Returns("nil") \/ Returns("error")
  PROVE  /\ rpc'.handler = rpc.handler /\ rpc'.send = rpc.send /\ rpc'.stream = rpc.stream
         /\ up' = Tail(up) \/ up' = <<>>
<1>1. rpc \in Rpcs BY Zenon DEF TypeOK
<1>. QED BY <1>1, Zenon DEF Receives, Returns, Rpcs

\* What only runExec, a restart and the environment write.
StoreState == <<db, archived, world>>

\* What watchExecution leaves alone.
LEMMA WatchingKeeps ==
  ASSUME TypeOK, Watching
  PROVE  /\ ses.done => ses'.done
         /\ ses'.dispatch = ses.dispatch /\ ses'.attempted = ses.attempted
         /\ gw'.pc = gw.pc /\ gw'.mode = gw.mode /\ gw'.meta = gw.meta /\ gw'.outcome = gw.outcome
         /\ UNCHANGED <<rpc, down, launched, StoreState>>
<1>. USE DEF controlVars, hubVars, streamVars, agentVars, storeVars, StoreState
<1>0. gw \in Gateways /\ ses \in Sessions BY Zenon DEF TypeOK
<1>1. CASE watchExecution BY <1>0, <1>1, CancelFields, Zenon DEF watchExecution
<1>2. CASE watchEnd BY <1>0, <1>2, Zenon DEF watchEnd, Gateways
<1>. QED BY <1>1, <1>2, Zenon DEF Watching

\* What the relays leave alone.
LEMMA RelayingKeeps ==
  ASSUME TypeOK, Relaying
  PROVE  /\ ses.done => ses'.done
         /\ ses'.dispatch = ses.dispatch /\ ses'.attempted = ses.attempted
         /\ UNCHANGED <<watch, gw, rpc, down, launched, StoreState>>
<1>. USE DEF relayOnly, controlVars, hubVars, streamVars, agentVars, storeVars, StoreState
<1>0. ses \in Sessions BY Zenon DEF TypeOK
<1>1. CASE inputFailed BY <1>0, <1>1, CancelFields, Zenon DEF inputFailed
<1>2. ASSUME NEW o \in Outputs, relayWrite(o) \/ relayEnd(o)
      PROVE  ses' \in {ses, Cancel(ses, "other")} /\ UNCHANGED <<watch, gw, rpc, down, launched, StoreState>>
  BY <1>2, Zenon DEF relayWrite, relayEnd
<1>. QED BY <1>0, <1>1, <1>2, CancelFields, Zenon DEF Relaying

\* What the sender leaves alone.
LEMMA SendingKeeps ==
  ASSUME TypeOK, Sending
  PROVE  /\ ses'.done = ses.done /\ ses'.dispatch = ses.dispatch
         /\ UNCHANGED <<watch, gw, launched, StoreState>>
<1>. USE DEF rpcOnly, controlVars, hubVars, streamVars, agentVars, storeVars, StoreState
<1>0. ses \in Sessions BY Zenon DEF TypeOK
<1>1. CASE Attach BY <1>0, <1>1, Zenon DEF Attach, Sessions
<1>2. CASE sendAttached BY <1>0, <1>2, Zenon DEF sendAttached, Sessions
<1>3. CASE dequeueStart BY <1>0, <1>3, Zenon DEF dequeueStart, Sessions
<1>4. CASE sendProtectedScript BY <1>4, Zenon DEF sendProtectedScript
<1>5. CASE beforeStart BY <1>5, Zenon DEF beforeStart
<1>6. CASE attemptStart BY <1>0, <1>6, Zenon DEF attemptStart, Sessions
<1>7. CASE sendStart BY <1>7, Zenon DEF sendStart
<1>8. CASE senderEnds BY <1>8, Zenon DEF senderEnds
<1>. QED BY <1>1, <1>2, <1>3, <1>4, <1>5, <1>6, <1>7, <1>8, Zenon DEF Sending

\* What the receiver and the return of Execute leave alone.
LEMMA ReceivingKeeps ==
  ASSUME TypeOK, Receiving
  PROVE  /\ ses.done => ses'.done
         /\ ses'.dispatch = ses.dispatch /\ ses'.attempted = ses.attempted
         /\ UNCHANGED <<watch, gw, down, launched, StoreState>>
         /\ \/ rpc'.send = rpc.send /\ rpc'.handler = rpc.handler
            \/ rpc'.send = "over" /\ rpc'.handler = "over"
<1>. USE DEF rpcOnly, controlVars, hubVars, streamVars, agentVars, storeVars, StoreState
<1>0. ses \in Sessions /\ rpc \in Rpcs BY Zenon DEF TypeOK
<1>. DEFINE Kept == /\ ses'.done = ses.done /\ ses'.dispatch = ses.dispatch /\ ses'.attempted = ses.attempted
                    /\ rpc'.send = rpc.send /\ rpc'.handler = rpc.handler
<1>1. CASE receiveStarted
  <2>1. Kept BY <1>0, <1>1, ReceivesFields, Zenon DEF receiveStarted, Sessions
  <2>. QED BY <1>1, <2>1, Zenon DEF receiveStarted
<1>2. CASE receiveStartFailed
  <2>1. Kept BY <1>0, <1>2, ReceivesFields, Zenon DEF receiveStartFailed, Sessions
  <2>. QED BY <1>2, <2>1, Zenon DEF receiveStartFailed
<1>3. CASE receiveResult
  <2>1. Kept BY <1>0, <1>3, ReceivesFields, Zenon DEF receiveResult, Sessions
  <2>. QED BY <1>3, <2>1, Zenon DEF receiveResult
<1>4. CASE receiverEnds BY <1>4, ReceivesFields, Zenon DEF receiverEnds
<1>5. ASSUME NEW o \in Outputs, receiveOutput(o) \/ receiveEOF(o)
      PROVE  Kept /\ UNCHANGED <<watch, gw, down, launched, StoreState>>
  BY <1>5, ReceivesFields, Zenon DEF receiveOutput, receiveEOF
<1>6. CASE ExecuteReturns
  <2>. DEFINE finished == [ses EXCEPT !.transportDone = TRUE]
  <2>1. finished \in Sessions BY <1>0, SessionUpdates, Zenon
  <2>2. finished.done = ses.done /\ finished.dispatch = ses.dispatch /\ finished.attempted = ses.attempted
    BY <1>0, Zenon DEF Sessions
  <2>3. ses' = finished \/ ses' = Cancel(finished, "lost") BY <1>6, Zenon DEF ExecuteReturns
  <2>4. (ses.done => ses'.done) /\ ses'.dispatch = ses.dispatch /\ ses'.attempted = ses.attempted
    <3>. HIDE DEF finished
    <3>. QED BY <2>1, <2>2, <2>3, CancelFields, ZenonT(30)
  <2>5. rpc'.handler = "over" /\ rpc'.send = "over" BY <1>0, <1>6, Zenon DEF ExecuteReturns, Rpcs
  <2>. QED BY <1>6, <2>4, <2>5, Zenon DEF ExecuteReturns
<1>. QED BY <1>1, <1>2, <1>3, <1>4, <1>5, <1>6, Zenon DEF Receiving

\* What the handlers of the control stream leave alone.
LEMMA ControlKeeps ==
  ASSUME TypeOK, NEW g \in Generations, Control(g)
  PROVE  /\ ses.done => ses'.done
         /\ ses'.dispatch = ses.dispatch /\ ses'.attempted = ses.attempted
         /\ UNCHANGED <<watch, gw, rpc, down, launched, StoreState>>
<1>. USE DEF controlVars, hubVars, streamVars, agentVars, storeVars, StoreState
<1>0. ses \in Sessions BY Zenon DEF TypeOK
<1>1. CASE Connect(g) BY <1>1, Zenon DEF Connect
<1>2. CASE SetCapabilities(g)
  <2>1. ses' = ses \/ ses' = Cancel(ses, "other") BY <1>2, Zenon DEF SetCapabilities
  <2>2. UNCHANGED <<watch, gw, rpc, down, launched, StoreState>>
    BY <1>2, Zenon DEF SetCapabilities
  <2>. QED BY <1>0, <2>1, <2>2, CancelFields, ZenonT(30)
<1>3. CASE onAgentDisconnected(g) BY <1>0, <1>3, CancelFields, Zenon DEF onAgentDisconnected
<1>4. CASE DeliverPrepared(g)
  <2>1. ses'.done = ses.done /\ ses'.dispatch = ses.dispatch /\ ses'.attempted = ses.attempted
    BY <1>0, <1>4, Zenon DEF DeliverPrepared, Sessions
  <2>. QED BY <1>4, <2>1, Zenon DEF DeliverPrepared
<1>. QED BY <1>1, <1>2, <1>3, <1>4, Zenon DEF Control

\* What the agent leaves alone, and that only a Start in the stream makes it launch.
LEMMA AgentKeeps ==
  ASSUME TypeOK, NEW g \in Generations, Agent(g)
  PROVE  /\ UNCHANGED <<ses, watch, gw, StoreState>>
         /\ rpc'.send = rpc.send /\ rpc'.handler = rpc.handler
         /\ launched' = launched \/ StartQueued
         /\ StartQueued' => StartQueued
<1>. USE DEF agentOnly, controlVars, hubVars, streamVars, agentVars, storeVars, StoreState
<1>0. rpc \in Rpcs /\ down \in Downs BY Zenon DEF TypeOK
<1>1. UNCHANGED <<ses, watch, gw, StoreState>>
  BY Zenon
  DEF Agent, handlePrepare, handleAttach, handleCancel, handleAttached, handleStart, sendResult,
         serveEnds, agentEnds, processWrites, processEOF
<1>2. rpc'.send = rpc.send /\ rpc'.handler = rpc.handler
  <2>1. rpc' \in {rpc, [rpc EXCEPT !.stream = "open"], [rpc EXCEPT !.stream = "cut"]}
    BY Zenon
    DEF Agent, handlePrepare, handleAttach, handleCancel, handleAttached, handleStart, sendResult,
           serveEnds, agentEnds, processWrites, processEOF
  <2>. QED BY <1>0, <2>1, Zenon DEF Rpcs
<1>3. handleStart(g) => StartQueued BY <1>0, DownTails, ZenonT(30) DEF handleStart, StartQueued
<1>4. launched' = launched \/ handleStart(g)
  BY ZenonT(30) DEF Agent, handlePrepare, handleAttach, handleCancel, handleAttached, sendResult,
         serveEnds, agentEnds, processWrites, processEOF
<1>5. StartQueued' => StartQueued
  <2>1. CASE handleAttached(g)
    <3>1. down \in {<<"attached">>, <<"attached", "start">>}
      BY <1>0, <2>1, DownTails, Zenon DEF handleAttached
    <3>2. Tail(<<"attached">>) \notin {<<"start">>, <<"attached", "start">>} OBVIOUS
    <3>3. down' = Tail(down) BY <2>1, Zenon DEF handleAttached
    <3>. QED BY <3>1, <3>2, <3>3, Zenon DEF StartQueued
  <2>2. CASE handleStart(g) BY <1>3, <2>2, Zenon
  <2>3. CASE down' = <<>> \/ down' = down
    <3>1. <<>> \notin {<<"start">>, <<"attached", "start">>} BY Zenon
    <3>. QED BY <2>3, <3>1, Zenon DEF StartQueued
  <2>. QED BY <2>1, <2>2, <2>3, Zenon
          DEF Agent, handlePrepare, handleAttach, handleCancel, sendResult, serveEnds, agentEnds,
              processWrites, processEOF
<1>. QED BY <1>1, <1>2, <1>3, <1>4, <1>5, Zenon

-----------------------------------------------------------------------------
(* Types.                                                                  *)

\* A goroutine that moves to another place of runExec stays well formed.
LEMMA GotoType ==
  ASSUME NEW g \in Gateways, NEW pc \in PCs
  PROVE  [g EXCEPT !.pc = pc] \in Gateways
BY Zenon DEF Gateways

\* SendToAgent appends one message to the current connection, or loses it.
LEMMA SendType ==
  ASSUME TypeOK, NEW m \in {"prepare", "attach", "cancel"}, SendToAgent(m)
  PROVE  toAgent' \in [Generations -> Seq({"prepare", "attach", "cancel"})]
BY BoundsAssumption DEF TypeOK, Links, SendToAgent, Generations

\* A row that moves along submitted, prepared, dispatching, running is a row.
LEMMA MovedType ==
  ASSUME NEW row \in Rows, NEW s \in Stages
  PROVE  Moved(row, s) \in Rows
BY Zenon DEF Rows, Moved

\* Before startExec, and after a restart, there is an empty session.
LEMMA NoSessionType == NoSession \in Sessions
BY BoundsAssumption DEF NoSession, Sessions

\* The steps of startExec and runExec up to Dispatch keep every variable in its type.
LEMMA GatewayType == ASSUME TypeOK, Gateway PROVE TypeOK'
<1>. USE DEF gwOnly, Goto, controlVars, hubVars, streamVars, agentVars, storeVars
<1>1. ASSUME NEW m \in Modes, startExec(m) PROVE TypeOK'
  <2>1. gw' \in Gateways
    BY <1>1, ModesAssumption, Zenon DEF TypeOK, startExec, Gateways, PCs
  <2>2. ses' \in Sessions
    <3>1. link.current \in 0..MaxGenerations BY Zenon DEF TypeOK, Links
    <3>. QED BY <1>1, <3>1, Zenon DEF TypeOK, startExec, Sessions, NoSession
  <2>3. db' \in Rows
    BY <1>1, ZenonT(30) DEF TypeOK, startExec, Rows, Stages, CreateExecution, Moved, NoRow
  <2>. QED BY <1>1, <2>1, <2>2, <2>3, Zenon DEF TypeOK, startExec
<1>2. CASE runExec
  <2>1. CASE Goto(IF gw.mode = "enhanced" THEN "collect" ELSE "prepare") /\ watch' = "on"
    BY <1>2, <2>1, GotoType, Zenon DEF TypeOK, runExec, PCs
  <2>2. CASE gw' = [gw EXCEPT !.pc = "finishing", !.outcome = "admission_failed"] /\ UNCHANGED watch
    <3>1. gw' \in Gateways BY <2>2, ZenonT(30) DEF TypeOK, Gateways, PCs, Finals
    <3>. QED BY <1>2, <2>2, <3>1, Zenon DEF TypeOK, runExec
  <2>. QED BY <1>2, <2>1, <2>2, Zenon DEF runExec
<1>3. CASE collectProtectedInput
  BY <1>3, GotoType, ZenonT(30) DEF TypeOK, collectProtectedInput, PCs
<1>4. CASE collectDeadline
  BY <1>4, CancelType, GotoType, ZenonT(30) DEF TypeOK, collectDeadline, PCs
<1>5. CASE sendPrepare
  BY <1>5, SendType, GotoType, ZenonT(30) DEF TypeOK, sendPrepare, PCs
<1>6. CASE PrepareExecution
  BY <1>6, GotoType, MovedType, ZenonT(30) DEF TypeOK, PrepareExecution, Stages, PCs
<1>7. CASE IssueAttach
  <2>1. ses' \in Sessions BY <1>7, Zenon DEF TypeOK, IssueAttach, Sessions
  <2>. QED BY <1>7, <2>1, SendType, GotoType, Zenon DEF TypeOK, IssueAttach, PCs
<1>8. CASE waitAttached
  BY <1>8, GotoType, Zenon DEF TypeOK, waitAttached, PCs
<1>9. CASE ClaimExecutionDispatch
  <2>1. gw' \in Gateways
    BY <1>9, ZenonT(30) DEF TypeOK, ClaimExecutionDispatch, Gateways, PCs, Claimed
  <2>. QED BY <1>9, <2>1, MovedType, Zenon DEF TypeOK, ClaimExecutionDispatch, Stages
<1>10. CASE SetExecutionSubmission
  <2>1. db' \in Rows BY <1>10, Zenon DEF TypeOK, SetExecutionSubmission, Rows
  <2>. QED BY <1>10, <2>1, GotoType, ZenonT(30) DEF TypeOK, SetExecutionSubmission, PCs
<1>11. CASE Preserve
  BY <1>11, GotoType, ZenonT(30) DEF TypeOK, Preserve, PCs
<1>12. CASE Claim
  <2>1. db' \in Rows BY <1>12, ZenonT(30) DEF TypeOK, Claim, Moved, Stages, Rows
  <2>. QED BY <1>12, <2>1, GotoType, Zenon DEF TypeOK, Claim, PCs
<1>13. CASE SaveUnusedExecutionReceipt
  <2>1. db' \in Rows BY <1>13, Zenon DEF TypeOK, SaveUnusedExecutionReceipt, Rows, Unused
  <2>. QED BY <1>13, <2>1, GotoType, ZenonT(30) DEF TypeOK, SaveUnusedExecutionReceipt, PCs
<1>14. CASE SaveExecutionReceipt
  <2>1. gw' \in Gateways
    BY <1>14, ZenonT(30) DEF TypeOK, SaveExecutionReceipt, Gateways, PCs, Claimed
  <2>. QED BY <1>14, <2>1, Zenon DEF TypeOK, SaveExecutionReceipt
<1>15. CASE Dispatch
  <2>1. ses' \in Sessions BY <1>15, Zenon DEF TypeOK, Dispatch, Sessions
  <2>2. out' \in [Outputs -> Pipes] BY <1>15, ZenonT(30) DEF TypeOK, Dispatch, Pipes
  <2>. QED BY <1>15, <2>1, <2>2, GotoType, Zenon DEF TypeOK, Dispatch, PCs
<1>16. CASE executeError
  BY <1>16, GotoType, Zenon DEF TypeOK, executeError, PCs
<1>. QED
  BY <1>1, <1>2, <1>3, <1>4, <1>5, <1>6, <1>7, <1>8, <1>9, <1>10, <1>11, <1>12, <1>13, <1>14,
     <1>15, <1>16, Zenon
  DEF Gateway

\* FinishExecution writes an outcome into a row, or leaves the row alone.
LEMMA FinishType ==
  ASSUME NEW row \in Rows, NEW outcome \in Finals \cup {"none"}
  PROVE  FinishExecution(row, outcome) \in Rows
BY ZenonT(30) DEF FinishExecution, Rows, Stages

\* MarkExecutionAdmissionUnused writes one of the unused dispositions.
LEMMA MarkType ==
  ASSUME NEW row \in Rows
  PROVE  MarkExecutionAdmissionUnused(row) \in Rows
BY Zenon DEF MarkExecutionAdmissionUnused, Rows, Unused

\* The steps of runExec after Dispatch keep every variable in its type; in particular an
\* outcome is always one that the row can hold.
LEMMA CompletionType == ASSUME TypeOK, Completion PROVE TypeOK'
<1>. USE DEF gwOnly, Goto, controlVars, hubVars, streamVars, agentVars, storeVars
<1>1. CASE MarkExecutionRunning
  <2>1. gw' \in Gateways BY <1>1, Zenon DEF TypeOK, MarkExecutionRunning, Gateways, Claimed
  <2>. QED BY <1>1, <2>1, MovedType, CancelType, Zenon DEF TypeOK, MarkExecutionRunning, Stages
<1>2. CASE waitResult
  <2>1. ses.result \in Finals BY <1>2, Zenon DEF TypeOK, waitResult, Sessions, Results, Finals
  <2>2. gw' \in Gateways BY <1>2, <2>1, Zenon DEF TypeOK, waitResult, Gateways, PCs
  <2>. QED BY <1>2, <2>2, Zenon DEF TypeOK, waitResult
<1>3. CASE waitDone
  BY <1>3, GotoType, ZenonT(30) DEF TypeOK, waitDone, PCs
<1>4. CASE waitRuntime
  BY <1>4, GotoType, CancelType, Zenon DEF TypeOK, waitRuntime, PCs
<1>5. CASE drain
  <2>0. gw \in Gateways BY Zenon DEF TypeOK
  <2>1. PICK pc \in PCs : gw' = [gw EXCEPT !.drained = gw.drained + 1, !.pc = pc]
    BY <1>5, Zenon DEF TypeOK, drain, Gateways, PCs
  <2>a. gw.drained \in Nat BY <2>0, Zenon DEF Gateways
  <2>2. gw.drained + 1 \in Nat BY <2>a
  <2>3. \A g \in Gateways : [g EXCEPT !.drained = gw.drained + 1] \in Gateways
    BY <2>2, Zenon DEF Gateways
  <2>4. gw' = [[gw EXCEPT !.drained = gw.drained + 1] EXCEPT !.pc = pc] BY <2>1, Zenon
  <2>5. gw' \in Gateways BY <2>3, <2>4, GotoType, Zenon DEF TypeOK
  <2>. QED BY <1>5, <2>5, Zenon DEF TypeOK, drain
<1>6. CASE judge
  <2>1. gw' \in Gateways BY <1>6, ZenonT(30) DEF TypeOK, judge, Gateways, PCs, Finals
  <2>. QED BY <1>6, <2>1, MarkType, Zenon DEF TypeOK, judge
<1>7. CASE cancelPreparedExecution
  <2>1. gw' \in Gateways BY <1>7, Zenon DEF TypeOK, cancelPreparedExecution, Gateways, PCs
  <2>2. ses' \in Sessions BY <1>7, CancelType, Zenon DEF TypeOK, cancelPreparedExecution
  <2>3. toAgent' \in [Generations -> Seq({"prepare", "attach", "cancel"})]
    BY <1>7, SendType, Zenon DEF TypeOK, cancelPreparedExecution
  <2>. QED BY <1>7, <2>1, <2>2, <2>3, Zenon DEF TypeOK, cancelPreparedExecution
<1>8. CASE finishExec
  <2>1. gw' \in Gateways BY <1>8, Zenon DEF TypeOK, finishExec, Gateways, PCs
  <2>2. gw.outcome \in Finals \cup {"none"} BY Zenon DEF TypeOK, Gateways
  <2>3. db' \in Rows BY <1>8, <2>2, FinishType, Zenon DEF TypeOK, finishExec
  <2>. QED BY <1>8, <2>1, <2>3, Zenon DEF TypeOK, finishExec
<1>9. CASE Remove
  <2>1. gw' \in Gateways BY <1>9, Zenon DEF TypeOK, Remove, Gateways, NoGateway, PCs
  <2>2. \A s \in Sessions : [s EXCEPT !.registered = FALSE] \in Sessions BY Zenon DEF Sessions
  <2>3. ses' \in Sessions BY <1>9, <2>2, CancelType, Zenon DEF TypeOK, Remove
  <2>. QED BY <1>9, <2>1, <2>3, Zenon DEF TypeOK, Remove
<1>. QED BY <1>1, <1>2, <1>3, <1>4, <1>5, <1>6, <1>7, <1>8, <1>9, Zenon DEF Completion

\* What the process, the receiver and the relay do to one output: the session's queue never
\* exceeds executionQueueFrames, and never goes below zero.
LEMMA PipeUpdates ==
  ASSUME NEW p \in Pipes
  PROVE  /\ [p EXCEPT !.relay = "copy"] \in Pipes
         /\ [p EXCEPT !.relay = "over"] \in Pipes
         /\ [p EXCEPT !.eof = TRUE] \in Pipes
         /\ [p EXCEPT !.ended = TRUE] \in Pipes
         /\ p.made < MaxFrames => [p EXCEPT !.made = @ + 1] \in Pipes
         /\ p.queue < QueueFrames => [p EXCEPT !.queue = @ + 1] \in Pipes
         /\ p.queue > 0 => [p EXCEPT !.queue = @ - 1, !.written = @ + 1] \in Pipes
         /\ p.queue > 0 => [p EXCEPT !.queue = @ - 1, !.relay = "over"] \in Pipes
<1>1. p.made \in 0..MaxFrames /\ p.queue \in 0..QueueFrames /\ p.written \in Nat
  BY Zenon DEF Pipes
<1>2. \A q \in Pipes : [q EXCEPT !.relay = "over"] \in Pipes BY Zenon DEF Pipes
<1>3. \A q \in Pipes, n \in 0..QueueFrames : [q EXCEPT !.queue = n] \in Pipes BY Zenon DEF Pipes
<1>4. \A q \in Pipes, n \in 0..MaxFrames : [q EXCEPT !.made = n] \in Pipes BY Zenon DEF Pipes
<1>5. \A q \in Pipes, n \in Nat : [q EXCEPT !.written = n] \in Pipes BY Zenon DEF Pipes
<1>6. [p EXCEPT !.relay = "copy"] \in Pipes /\ [p EXCEPT !.eof = TRUE] \in Pipes /\ [p EXCEPT !.ended = TRUE] \in Pipes
  BY Zenon DEF Pipes
<1>7. p.made < MaxFrames => p.made + 1 \in 0..MaxFrames BY <1>1, BoundsAssumption
<1>8. p.queue < QueueFrames => p.queue + 1 \in 0..QueueFrames BY <1>1, BoundsAssumption
<1>9. p.queue > 0 => p.queue - 1 \in 0..QueueFrames BY <1>1, BoundsAssumption
<1>10. p.written + 1 \in Nat BY <1>1
<1>11. [p EXCEPT !.queue = @ - 1, !.written = @ + 1]
         = [[p EXCEPT !.queue = p.queue - 1] EXCEPT !.written = p.written + 1]
  BY Zenon
<1>12. [p EXCEPT !.queue = @ - 1, !.relay = "over"] = [[p EXCEPT !.queue = p.queue - 1] EXCEPT !.relay = "over"]
  BY Zenon
<1>13. p.made < MaxFrames => [p EXCEPT !.made = @ + 1] \in Pipes BY <1>4, <1>7, Zenon
<1>14. p.queue < QueueFrames => [p EXCEPT !.queue = @ + 1] \in Pipes BY <1>3, <1>8, Zenon
<1>15. p.queue > 0 => [p EXCEPT !.queue = @ - 1, !.written = @ + 1] \in Pipes
  BY <1>3, <1>5, <1>9, <1>10, <1>11, Zenon
<1>16. p.queue > 0 => [p EXCEPT !.queue = @ - 1, !.relay = "over"] \in Pipes
  BY <1>2, <1>3, <1>9, <1>12, Zenon
<1>. QED BY <1>2, <1>6, <1>13, <1>14, <1>15, <1>16, Zenon

\* Start is sent behind Attached.
LEMMA StartAppended == Append(<<"attached">>, "start") = <<"attached", "start">>
<1>. DEFINE s == Append(<<"attached">>, "start")
<1>1. s \in Seq({"attached", "start"}) /\ Len(s) = 2 OBVIOUS
<1>2. s[1] = "attached" /\ s[2] = "start" OBVIOUS
<1>3. s = [i \in 1..2 |-> s[i]] BY <1>1
<1>4. [i \in 1..2 |-> s[i]] = <<s[1], s[2]>> OBVIOUS
<1>5. s = <<"attached", "start">>
  <2>. HIDE DEF s
  <2>. QED BY <1>2, <1>3, <1>4, Zenon
<1>. QED BY <1>5, Zenon

\* watchExecution keeps every variable in its type.
LEMMA WatchingType == ASSUME TypeOK, Watching PROVE TypeOK'
<1>. USE DEF controlVars, hubVars, streamVars, agentVars, storeVars
<1>1. CASE watchExecution BY <1>1, CancelType, Zenon DEF TypeOK, watchExecution
<1>2. CASE watchEnd
  <2>1. gw' \in Gateways BY <1>2, Zenon DEF TypeOK, watchEnd, Gateways
  <2>. QED BY <1>2, <2>1, Zenon DEF TypeOK, watchEnd
<1>. QED BY <1>1, <1>2, Zenon DEF Watching

\* The relays and forwardExecutionInput keep every variable in its type.
LEMMA RelayingType == ASSUME TypeOK, Relaying PROVE TypeOK'
<1>. USE DEF relayOnly, controlVars, hubVars, streamVars, agentVars, storeVars
<1>1. CASE inputFailed BY <1>1, CancelType, Zenon DEF TypeOK, inputFailed
<1>2. ASSUME NEW o \in Outputs, relayWrite(o) PROVE TypeOK'
  <2>0. out \in [Outputs -> Pipes] BY Zenon DEF TypeOK
  <2>. DEFINE p == out[o]
  <2>a. p \in Pipes /\ p.queue > 0 BY <1>2, <2>0, Zenon DEF relayWrite
  <2>b. \/ out' = [out EXCEPT ![o] = [p EXCEPT !.queue = @ - 1, !.written = @ + 1]]
        \/ out' = [out EXCEPT ![o] = [p EXCEPT !.queue = @ - 1, !.relay = "over"]]
    BY <1>2, Zenon DEF relayWrite
  <2>1. out' \in [Outputs -> Pipes]
    <3>. HIDE DEF p
    <3>. QED BY <2>0, <2>a, <2>b, PipeUpdates, Zenon
  <2>2. ses' \in Sessions BY <1>2, CancelType, Zenon DEF TypeOK, relayWrite
  <2>. QED BY <1>2, <2>1, <2>2, Zenon DEF TypeOK, relayWrite
<1>3. ASSUME NEW o \in Outputs, relayEnd(o) PROVE TypeOK'
  <2>1. out' \in [Outputs -> Pipes] BY <1>3, PipeUpdates, Zenon DEF TypeOK, relayEnd
  <2>. QED BY <1>3, <2>1, Zenon DEF TypeOK, relayEnd
<1>. QED BY <1>1, <1>2, <1>3, Zenon DEF Relaying

\* The sender's next place is one it may have.
LEMMA SendsType ==
  ASSUME TypeOK,
         NEW next \in {"queue", "script", "check", "attempt", "start", "input", "nil", "error"},
         Sends(next)
  PROVE  rpc' \in Rpcs
BY Zenon DEF TypeOK, Sends, Ended, Rpcs

\* The sole sender of Execute keeps every variable in its type.  That the stream never
\* carries more than Attached and one Start needs OneStart.
LEMMA SendingType == ASSUME TypeOK, OneStart, Sending PROVE TypeOK'
<1>. USE DEF rpcOnly, controlVars, hubVars, streamVars, agentVars, storeVars
<1>1. CASE Attach
  <2>1. rpc' \in Rpcs BY <1>1, ZenonT(30) DEF TypeOK, Attach, Rpcs
  <2>2. ses' \in Sessions BY <1>1, SessionUpdates, Zenon DEF TypeOK, Attach
  <2>3. up' \in Seq(Ups) BY <1>1 DEF TypeOK, Attach
  <2>. QED BY <1>1, <2>1, <2>2, <2>3, Zenon DEF TypeOK, Attach
<1>2. CASE sendAttached
  <2>1. down' \in Downs BY <1>2 DEF OneStart, sendAttached, Downs
  <2>2. ses' \in Sessions BY <1>2, SessionUpdates, Zenon DEF TypeOK, sendAttached
  <2>. QED BY <1>2, <2>1, <2>2, SendsType, Zenon DEF TypeOK, sendAttached
<1>3. CASE dequeueStart
  <2>1. ses' \in Sessions BY <1>3, SessionUpdates, Zenon DEF TypeOK, dequeueStart
  <2>. QED BY <1>3, <2>1, SendsType, Zenon DEF TypeOK, dequeueStart
<1>4. CASE sendProtectedScript BY <1>4, SendsType, Zenon DEF TypeOK, sendProtectedScript
<1>5. CASE beforeStart BY <1>5, SendsType, Zenon DEF TypeOK, beforeStart
<1>6. CASE attemptStart
  <2>1. ses' \in Sessions BY <1>6, SessionUpdates, Zenon DEF TypeOK, attemptStart
  <2>. QED BY <1>6, <2>1, SendsType, Zenon DEF TypeOK, attemptStart
<1>7. CASE sendStart
  <2>0. down \in {<<>>, <<"attached">>}
    BY <1>7, Zenon DEF TypeOK, OneStart, StartQueued, sendStart, Downs
  <2>a. Append(<<>>, "start") = <<"start">> OBVIOUS
  <2>b. down' = Append(down, "start") BY <1>7, Zenon DEF sendStart
  <2>1. down' \in Downs BY <2>0, <2>a, <2>b, StartAppended, Zenon DEF Downs
  <2>. QED BY <1>7, <2>1, SendsType, Zenon DEF TypeOK, sendStart
<1>8. CASE senderEnds BY <1>8, SendsType DEF TypeOK, senderEnds
<1>. QED BY <1>1, <1>2, <1>3, <1>4, <1>5, <1>6, <1>7, <1>8, Zenon DEF Sending

\* The receiver takes the first message, or drops all of them with the stream.
LEMMA ReceivesType ==
  ASSUME TypeOK, up # <<>>, Receives \/ Returns("nil") \/ Returns("error")
  PROVE  rpc' \in Rpcs /\ up' \in Seq(Ups)
<1>0. up \in Seq(Ups) BY Zenon DEF TypeOK
<1>1. Tail(up) \in Seq(Ups) /\ <<>> \in Seq(Ups) BY <1>0
<1>2. rpc' \in Rpcs BY Zenon DEF TypeOK, Receives, Returns, Ended, Rpcs
<1>. QED BY <1>1, <1>2, Zenon DEF Receives, Returns

\* The receiver and the return of Execute keep every variable in its type.
LEMMA ReceivingType == ASSUME TypeOK, Receiving PROVE TypeOK'
<1>. USE DEF rpcOnly, controlVars, hubVars, streamVars, agentVars, storeVars
<1>1. CASE receiveStarted
  <2>1. ses' \in Sessions BY <1>1, SessionUpdates, Zenon DEF TypeOK, receiveStarted
  <2>. QED BY <1>1, <2>1, ArrivedType, ReceivesType, Zenon DEF TypeOK, receiveStarted
<1>2. CASE receiveStartFailed
  <2>0. Head(up) \in Ups /\ Head(up).t = "failed"
    BY <1>2, ArrivedType, Zenon DEF receiveStartFailed
  <2>1. Head(up).arg \in Results BY <2>0, Zenon DEF Ups, Results
  <2>2. ses' \in Sessions
    <3>1. ses' = ses \/ ses' = [ses EXCEPT !.result = Head(up).arg]
      BY <1>2, Zenon DEF receiveStartFailed
    <3>2. ses \in Sessions BY Zenon DEF TypeOK
    <3>3. [ses EXCEPT !.result = Head(up).arg] \in Sessions BY <2>1, <3>2, SessionUpdates, Zenon
    <3>. QED BY <3>1, <3>2, <3>3, Zenon
  <2>3. out' \in [Outputs -> Pipes]
    <3>1. out' = out \/ out' = [o \in Outputs |-> [out[o] EXCEPT !.eof = TRUE]]
      BY <1>2, Zenon DEF receiveStartFailed
    <3>2. out \in [Outputs -> Pipes] BY Zenon DEF TypeOK
    <3>3. \A o \in Outputs : [out[o] EXCEPT !.eof = TRUE] \in Pipes BY <3>2, PipeUpdates, Zenon
    <3>. QED BY <3>1, <3>2, <3>3, Zenon
  <2>. QED BY <1>2, <2>2, <2>3, ArrivedType, ReceivesType, Zenon DEF TypeOK, receiveStartFailed
<1>3. CASE receiveResult
  <2>0. Head(up) \in Ups /\ Head(up).t = "result" BY <1>3, ArrivedType, Zenon DEF receiveResult
  <2>1. Head(up).arg \in Results BY <2>0, Zenon DEF Ups, Results
  <2>2. ses' \in Sessions BY <1>3, <2>1, SessionUpdates, ZenonT(30) DEF TypeOK, receiveResult
  <2>. QED BY <1>3, <2>2, ArrivedType, ReceivesType, Zenon DEF TypeOK, receiveResult
<1>4. CASE receiverEnds
  <2>1. rpc' \in Rpcs BY <1>4, Zenon DEF TypeOK, receiverEnds, Returns, Ended, Rpcs
  <2>2. up' \in Seq(Ups) BY <1>4 DEF receiverEnds, Returns
  <2>. QED BY <1>4, <2>1, <2>2, Zenon DEF TypeOK, receiverEnds
<1>5. ASSUME NEW o \in Outputs, receiveOutput(o) PROVE TypeOK'
  <2>. DEFINE p == out[o]
  <2>0. out \in [Outputs -> Pipes] /\ p \in Pipes BY Zenon DEF TypeOK
  <2>1. out' = out \/ (p.queue < QueueFrames /\ out' = [out EXCEPT ![o] = [p EXCEPT !.queue = @ + 1]])
    BY <1>5, Zenon DEF receiveOutput
  <2>2. out' \in [Outputs -> Pipes]
    <3>. HIDE DEF p
    <3>. QED BY <2>0, <2>1, PipeUpdates, Zenon
  <2>. QED BY <1>5, <2>2, ArrivedType, ReceivesType, Zenon DEF TypeOK, receiveOutput
<1>6. ASSUME NEW o \in Outputs, receiveEOF(o) PROVE TypeOK'
  <2>. DEFINE p == out[o]
  <2>0. out \in [Outputs -> Pipes] /\ p \in Pipes BY Zenon DEF TypeOK
  <2>1. out' = out \/ (out' = [out EXCEPT ![o] = [p EXCEPT !.eof = TRUE]])
    BY <1>6, Zenon DEF receiveEOF
  <2>2. out' \in [Outputs -> Pipes]
    <3>. HIDE DEF p
    <3>. QED BY <2>0, <2>1, PipeUpdates, Zenon
  <2>. QED BY <1>6, <2>2, ArrivedType, ReceivesType, Zenon DEF TypeOK, receiveEOF
<1>7. CASE ExecuteReturns
  <2>1. rpc' \in Rpcs BY <1>7, Zenon DEF TypeOK, ExecuteReturns, Rpcs
  <2>2. [ses EXCEPT !.transportDone = TRUE] \in Sessions BY SessionUpdates, Zenon DEF TypeOK
  <2>3. ses' \in Sessions BY <1>7, <2>2, CancelType, Zenon DEF ExecuteReturns
  <2>. QED BY <1>7, <2>1, <2>3, Zenon DEF TypeOK, ExecuteReturns
<1>. QED BY <1>1, <1>2, <1>3, <1>4, <1>5, <1>6, <1>7, Zenon DEF Receiving

\* The handlers of the control stream keep every variable in its type.
LEMMA ControlType == ASSUME TypeOK, NEW g \in Generations, Control(g) PROVE TypeOK'
<1>. USE DEF controlVars, hubVars, streamVars, agentVars, storeVars
<1>0. g \in 0..MaxGenerations BY BoundsAssumption DEF Generations
<1>1. CASE Connect(g)
  <2>0. link \in Links /\ agent \in [Generations -> Phases] BY Zenon DEF TypeOK
  <2>1. link' \in Links BY <1>1, <1>0, <2>0, Zenon DEF Connect, Links
  <2>2. fromAgent' \in [Generations -> Seq({"caps", "prepared", "refused"})]
    BY <1>1 DEF TypeOK, Connect
  <2>3. agent' \in [Generations -> Phases] BY <1>1, <2>0, Zenon DEF Connect, Phases
  <2>. QED BY <1>1, <2>1, <2>2, <2>3, Zenon DEF TypeOK, Connect
<1>2. CASE SetCapabilities(g)
  <2>0. link \in Links BY Zenon DEF TypeOK
  <2>1. link' \in Links BY <1>2, <1>0, <2>0, Zenon DEF SetCapabilities, Links
  <2>2. fromAgent' \in [Generations -> Seq({"caps", "prepared", "refused"})]
    BY <1>2 DEF TypeOK, SetCapabilities
  <2>3. ses' \in Sessions BY <1>2, CancelType, Zenon DEF TypeOK, SetCapabilities
  <2>. QED BY <1>2, <2>1, <2>2, <2>3, Zenon DEF TypeOK, SetCapabilities
<1>3. CASE onAgentDisconnected(g)
  <2>0. link \in Links BY Zenon DEF TypeOK
  <2>a. 0 \in 0..MaxGenerations BY BoundsAssumption
  <2>b. \A l \in Links : [l EXCEPT !.handler[g] = "over"] \in Links BY Zenon DEF Links
  <2>c. \A l \in Links : [l EXCEPT !.caps = IF @ = g THEN 0 ELSE @] \in Links
    BY <2>a, Zenon DEF Links
  <2>d. \A l \in Links : [l EXCEPT !.current = IF @ = g THEN 0 ELSE @] \in Links
    BY <2>a, Zenon DEF Links
  <2>. DEFINE l1 == [link EXCEPT !.handler[g] = "over"]
              l2 == [l1 EXCEPT !.caps = IF @ = g THEN 0 ELSE @]
              l3 == [l2 EXCEPT !.current = IF @ = g THEN 0 ELSE @]
  <2>e. link' = l3 BY <1>3, <2>0, Zenon DEF onAgentDisconnected, Disconnected, Links
  <2>1. link' \in Links
    <3>1. l1 \in Links BY <2>0, <2>b, Zenon
    <3>2. l2 \in Links
      <4>. HIDE DEF l1
      <4>. QED BY <3>1, <2>c, Zenon
    <3>3. l3 \in Links
      <4>. HIDE DEF l2
      <4>. QED BY <3>2, <2>d, Zenon
    <3>. QED BY <3>3, <2>e, Zenon
  <2>2. fromAgent' \in [Generations -> Seq({"caps", "prepared", "refused"})]
    BY <1>3 DEF TypeOK, onAgentDisconnected
  <2>3. ses' \in Sessions BY <1>3, CancelType, Zenon DEF TypeOK, onAgentDisconnected
  <2>. QED BY <1>3, <2>1, <2>2, <2>3, Zenon DEF TypeOK, onAgentDisconnected
<1>4. CASE DeliverPrepared(g)
  <2>2. fromAgent' \in [Generations -> Seq({"caps", "prepared", "refused"})]
    BY <1>4 DEF TypeOK, DeliverPrepared
  <2>3. ses' \in Sessions BY <1>4, SessionUpdates, ZenonT(30) DEF TypeOK, DeliverPrepared
  <2>4. toAgent' \in [Generations -> Seq({"prepare", "attach", "cancel"})]
    BY <1>4, SendType, Zenon DEF TypeOK, DeliverPrepared
  <2>. QED BY <1>4, <2>2, <2>3, <2>4, Zenon DEF TypeOK, DeliverPrepared
<1>. QED BY <1>1, <1>2, <1>3, <1>4, Zenon DEF Control

\* The agent's session moves to another phase.
LEMMA BecomesType ==
  ASSUME TypeOK, NEW g \in Generations, NEW phase \in Phases, Becomes(g, phase)
  PROVE  agent' \in [Generations -> Phases]
BY Zenon DEF TypeOK, Becomes

\* The agent sends one more message on the Execute stream.
LEMMA ReportsType ==
  ASSUME TypeOK, NEW m \in Ups, Reports(m)
  PROVE  up' \in Seq(Ups)
<1>1. up \in Seq(Ups) BY Zenon DEF TypeOK
<1>. QED BY <1>1 DEF Reports

\* The steps of the agent keep every variable in its type.
LEMMA AgentType == ASSUME TypeOK, NEW g \in Generations, Agent(g) PROVE TypeOK'
<1>. USE DEF agentOnly, controlVars, hubVars, streamVars, agentVars, storeVars
<1>. DEFINE ToAgents == [Generations -> Seq({"prepare", "attach", "cancel"})]
            FromAgents == [Generations -> Seq({"caps", "prepared", "refused"})]
<1>1. CASE handlePrepare(g)
  <2>1. agent' \in [Generations -> Phases]
    BY <1>1, BecomesType, Zenon DEF TypeOK, handlePrepare, Phases
  <2>2. toAgent' \in ToAgents BY <1>1 DEF TypeOK, handlePrepare
  <2>a. fromAgent \in FromAgents BY Zenon DEF TypeOK
  <2>b. PICK m \in {"caps", "prepared", "refused"} : fromAgent' = [fromAgent EXCEPT ![g] = Append(@, m)]
    BY <1>1, Zenon DEF handlePrepare
  <2>3. fromAgent' \in FromAgents BY <2>a, <2>b
  <2>. QED BY <1>1, <2>1, <2>2, <2>3, Zenon DEF TypeOK, handlePrepare
<1>2. CASE handleAttach(g)
  <2>1. agent' \in [Generations -> Phases]
    BY <1>2, BecomesType, Zenon DEF TypeOK, handleAttach, Phases
  <2>a. toAgent \in ToAgents /\ up \in Seq(Ups) BY Zenon DEF TypeOK
  <2>c. toAgent[g] # <<>> /\ toAgent' = [toAgent EXCEPT ![g] = Tail(@)]
    BY <1>2, Zenon DEF handleAttach
  <2>2. toAgent' \in ToAgents BY <2>a, <2>c
  <2>b. up' = up \/ up' = <<Msg("attach", "")>> BY <1>2, Zenon DEF handleAttach
  <2>d. \A m \in Ups : <<m>> \in Seq(Ups) OBVIOUS
  <2>3. up' \in Seq(Ups) BY <2>a, <2>b, <2>d, MessageType, ZenonT(30)
  <2>4. rpc' \in Rpcs BY <1>2, ZenonT(30) DEF TypeOK, handleAttach, Rpcs
  <2>. QED BY <1>2, <2>1, <2>2, <2>3, <2>4, ZenonT(30) DEF TypeOK, handleAttach
<1>3. CASE handleCancel(g)
  <2>1. agent' \in [Generations -> Phases]
    BY <1>3, BecomesType, Zenon DEF TypeOK, handleCancel, Phases
  <2>2. toAgent' \in ToAgents BY <1>3 DEF TypeOK, handleCancel
  <2>. QED BY <1>3, <2>1, <2>2, Zenon DEF TypeOK, handleCancel
<1>4. CASE handleAttached(g)
  <2>1. agent' \in [Generations -> Phases] BY <1>4, BecomesType, Zenon DEF handleAttached, Phases
  <2>2. down' \in Downs BY <1>4, DownTails, Zenon DEF TypeOK, handleAttached
  <2>. QED BY <1>4, <2>1, <2>2, Zenon DEF TypeOK, handleAttached
<1>5. CASE handleStart(g)
  <2>1. agent' \in [Generations -> Phases] BY <1>5, BecomesType, ZenonT(30) DEF handleStart, Phases
  <2>2. down' \in Downs BY <1>5, DownTails, Zenon DEF TypeOK, handleStart
  <2>3. up' \in Seq(Ups) BY <1>5, MessageType, ReportsType, ZenonT(30) DEF handleStart
  <2>4. launched' \in BOOLEAN BY <1>5, Zenon DEF TypeOK, handleStart
  <2>. QED BY <1>5, <2>1, <2>2, <2>3, <2>4, ZenonT(30) DEF TypeOK, handleStart
<1>6. CASE sendResult(g)
  <2>1. agent' \in [Generations -> Phases] BY <1>6, BecomesType, Zenon DEF sendResult, Phases
  <2>2. up' \in Seq(Ups) BY <1>6, MessageType, ReportsType, Zenon DEF sendResult
  <2>. QED BY <1>6, <2>1, <2>2, Zenon DEF TypeOK, sendResult
<1>7. CASE serveEnds(g)
  <2>1. agent' \in [Generations -> Phases] BY <1>7, BecomesType, Zenon DEF serveEnds, Phases
  <2>2. rpc' \in Rpcs BY <1>7, ZenonT(30) DEF TypeOK, serveEnds, Rpcs
  <2>3. down' \in Downs BY <1>7, Zenon DEF serveEnds, Downs
  <2>. QED BY <1>7, <2>1, <2>2, <2>3, Zenon DEF TypeOK, serveEnds
<1>8. CASE agentEnds(g)
  <2>1. agent' \in [Generations -> Phases] BY <1>8, BecomesType, Zenon DEF agentEnds, Phases
  <2>2. rpc' \in Rpcs BY <1>8, Zenon DEF TypeOK, agentEnds, Rpcs
  <2>3. down' \in Downs BY <1>8, Zenon DEF agentEnds, Downs
  <2>4. toAgent' \in ToAgents BY <1>8 DEF TypeOK, agentEnds
  <2>. QED BY <1>8, <2>1, <2>2, <2>3, <2>4, Zenon DEF TypeOK, agentEnds
<1>9. ASSUME NEW o \in Outputs, processWrites(g, o) PROVE TypeOK'
  <2>. DEFINE p == out[o]
  <2>0. out \in [Outputs -> Pipes] /\ p \in Pipes BY Zenon DEF TypeOK
  <2>1. p.made < MaxFrames /\ out' = [out EXCEPT ![o] = [p EXCEPT !.made = @ + 1]]
    BY <1>9, Zenon DEF processWrites
  <2>2. out' \in [Outputs -> Pipes]
    <3>. HIDE DEF p
    <3>. QED BY <2>0, <2>1, PipeUpdates, Zenon
  <2>3. up' \in Seq(Ups) BY <1>9, MessageType, ReportsType, Zenon DEF processWrites
  <2>. QED BY <1>9, <2>2, <2>3, Zenon DEF TypeOK, processWrites
<1>10. ASSUME NEW o \in Outputs, processEOF(g, o) PROVE TypeOK'
  <2>. DEFINE p == out[o]
  <2>0. out \in [Outputs -> Pipes] /\ p \in Pipes BY Zenon DEF TypeOK
  <2>1. out' = [out EXCEPT ![o] = [p EXCEPT !.ended = TRUE]] BY <1>10, Zenon DEF processEOF
  <2>2. out' \in [Outputs -> Pipes]
    <3>. HIDE DEF p
    <3>. QED BY <2>0, <2>1, PipeUpdates, Zenon
  <2>3. up' \in Seq(Ups) BY <1>10, MessageType, ReportsType, Zenon DEF processEOF
  <2>. QED BY <1>10, <2>2, <2>3, Zenon DEF TypeOK, processEOF
<1>. QED BY <1>1, <1>2, <1>3, <1>4, <1>5, <1>6, <1>7, <1>8, <1>9, <1>10, Zenon DEF Agent

\* The states of a row before an outcome, in order.
LEMMA ChainValues ==
  /\ Chain[1] = "none" /\ Chain[2] = "submitted" /\ Chain[3] = "prepared"
  /\ Chain[4] = "dispatching" /\ Chain[5] = "running"
  /\ \A i \in 1..5 : i = 1 \/ i = 2 \/ i = 3 \/ i = 4 \/ i = 5
BY DEF Chain

\* Their places in that order.
LEMMA ChainPlaces ==
  /\ At("none") = 1 /\ At("submitted") = 2 /\ At("prepared") = 3
  /\ At("dispatching") = 4 /\ At("running") = 5
BY ChainValues DEF At

\* Every state before an outcome has a place.
LEMMA StagePlaces == \A s \in Stages : At(s) \in 1..5
<1>1. \A s \in Stages : At(s) = 1 \/ At(s) = 2 \/ At(s) = 3 \/ At(s) = 4 \/ At(s) = 5
  BY ChainPlaces, Zenon DEF Stages
<1>. QED BY <1>1

\* So has every state between two of them.
LEMMA BetweenPlaces ==
  ASSUME NEW a \in 1..5, NEW b \in 1..5, NEW i \in a..b PROVE i \in 1..5
OBVIOUS

\* A row that a loss of power sets back holds one of the states between the last one on the
\* disk and the last one written.
LEMMA EarlierRows ==
  ASSUME NEW row \in Rows, NEW d, NEW r \in Earlier(row, d)
  PROVE  \E i \in 1..5 : i \in At(row.synced)..At(row.past) /\ r = SetBack(row, i, d)
<1>1. row.synced \in Stages /\ row.past \in Stages BY Zenon DEF Rows
<1>2. At(row.synced) \in 1..5 /\ At(row.past) \in 1..5 BY <1>1, StagePlaces, Zenon
<1>3. PICK i \in At(row.synced)..At(row.past) : r = SetBack(row, i, d) BY Zenon DEF Earlier
<1>4. i \in 1..5 BY <1>2, BetweenPlaces, Zenon
<1>. QED BY <1>3, <1>4, Zenon

\* What a loss of power leaves of a row is a row.
LEMMA SurvivorType ==
  ASSUME NEW row \in Rows, NEW survivor \in Survivors(row)
  PROVE  survivor \in Rows
<1>1. ASSUME NEW d \in Unused \cup {"", "consumed_dispatch"}, survivor \in Earlier(row, d)
      PROVE  survivor \in Rows
  <2>1. PICK i \in 1..5 : survivor = SetBack(row, i, d)
    BY <1>1, EarlierRows, ZenonT(30)
  <2>2. Chain[i] \in Stages BY ChainValues, Zenon DEF Stages
  <2>3. Moved(row, Chain[i]) \in Rows BY <2>2, MovedType, Zenon
  <2>4. \A r \in Rows : [r EXCEPT !.disposition = d] \in Rows BY Zenon DEF Rows
  <2>. QED BY <2>1, <2>3, <2>4, Zenon DEF SetBack
<1>2. row.disposition \in Unused \cup {"", "consumed_dispatch"} BY Zenon DEF Rows
<1>. QED BY <1>1, <1>2, Zenon DEF Survivors

\* ReconcileExecutions makes a row of a row.
LEMMA ReconcileType ==
  ASSUME NEW row \in Rows, NEW how \in {"crash", "power"}
  PROVE  ReconcileExecutions(row, how) \in Rows
BY ZenonT(30) DEF ReconcileExecutions, Rows, Finals

\* Revocation, expiry, a lost stream and a restart of the Hub keep every variable in its type.
LEMMA EnvironmentType == ASSUME TypeOK, Environment PROVE TypeOK'
<1>. USE DEF envOnly, controlVars, hubVars, streamVars, agentVars, storeVars
<1>1. CASE Revoke
  <2>1. world' \in [revoked : BOOLEAN, early : BOOLEAN, expired : BOOLEAN]
    BY <1>1, Zenon DEF TypeOK, Revoke
  <2>. QED BY <1>1, <2>1, Zenon DEF TypeOK, Revoke
<1>2. CASE PreparationExpires
  <2>1. world' \in [revoked : BOOLEAN, early : BOOLEAN, expired : BOOLEAN]
    BY <1>2, Zenon DEF TypeOK, PreparationExpires
  <2>. QED BY <1>2, <2>1, Zenon DEF TypeOK, PreparationExpires
<1>3. CASE StreamLost
  <2>1. rpc' \in Rpcs BY <1>3, Zenon DEF TypeOK, StreamLost, Rpcs
  <2>. QED BY <1>3, <2>1, Zenon DEF TypeOK, StreamLost
<1>4. ASSUME NEW power \in BOOLEAN, Crash(power) PROVE TypeOK'
  <2>1. PICK row \in IF power THEN Survivors(db) ELSE {db} :
          db' = ReconcileExecutions(row, IF power THEN "power" ELSE "crash")
    BY <1>4, Zenon DEF Crash
  <2>2. row \in Rows BY SurvivorType, Zenon DEF TypeOK
  <2>3. db' \in Rows BY <2>1, <2>2, ReconcileType, Zenon
  <2>4. link' \in Links
    <3>1. link \in Links BY Zenon DEF TypeOK
    <3>. QED BY <1>4, <3>1, BoundsAssumption DEF Crash, Links
  <2>5. gw' \in Gateways BY <1>4, ZenonT(30) DEF TypeOK, Crash, Gateways, NoGateway, PCs
  <2>6. rpc' \in Rpcs BY <1>4, Zenon DEF Crash, Rpcs
  <2>7. out' \in [Outputs -> Pipes] BY <1>4, PipeUpdates, Zenon DEF TypeOK, Crash
  <2>8. toAgent' \in [Generations -> Seq({"prepare", "attach", "cancel"})]
    BY <1>4 DEF Crash
  <2>9. fromAgent' \in [Generations -> Seq({"caps", "prepared", "refused"})] BY <1>4 DEF Crash
  <2>10. ses' \in Sessions BY <1>4, NoSessionType, Zenon DEF Crash
  <2>11. crashes' \in Nat BY <1>4 DEF TypeOK, Crash
  <2>12. down' \in Downs /\ up' \in Seq(Ups) BY <1>4 DEF Crash, Downs
  <2>. QED
    BY <1>4, <2>3, <2>4, <2>5, <2>6, <2>7, <2>8, <2>9, <2>10, <2>11, <2>12, Zenon
    DEF TypeOK, Crash
<1>. QED BY <1>1, <1>2, <1>3, <1>4, Zenon DEF Environment

-----------------------------------------------------------------------------
(* One Start.                                                              *)

\* What OneStart is about, beside the place of runExec.
StartState ==
  <<ses.dispatch, ses.start, ses.attempted, ses.result, ses.registered, rpc.handler, rpc.send, down, up,
    launched>>

\* A step that leaves the session, the sender, the streams and the process alone keeps OneStart.
LEMMA OneStartKept ==
  ASSUME OneStart, UNCHANGED StartState, gw'.pc \in Early => gw.pc \in Early,
         gw.pc = "over" => gw'.pc = "over"
  PROVE  OneStart'
BY Zenon DEF OneStart, StartState, StartQueued, ToldNothingRan, Restarted

\* Up to the dispatch runExec sends no Start; Dispatch queues the first and only one.
LEMMA GatewayStart == ASSUME TypeOK, OneStart, Gateway PROVE OneStart'
<1>. USE DEF gwOnly, Goto, controlVars, hubVars, streamVars, agentVars, storeVars
<1>0. gw \in Gateways /\ ses \in Sessions BY Zenon DEF TypeOK
<1>1. ASSUME NEW m \in Modes, startExec(m) PROVE OneStart'
  BY <1>0, <1>1, Zenon
  DEF startExec, NoSession, OneStart, StartQueued, ToldNothingRan, Restarted, Early, Gateways
<1>2. CASE runExec
  BY <1>0, <1>2, OneStartKept, Zenon DEF runExec, Gateways, StartState, Early
<1>3. CASE collectProtectedInput
  BY <1>0, <1>3, OneStartKept, Zenon DEF collectProtectedInput, Gateways, StartState, Early
<1>4. CASE collectDeadline
  BY <1>0, <1>4, OneStartKept, CancelFields, Zenon DEF collectDeadline, Gateways, StartState, Early
<1>5. CASE sendPrepare
  BY <1>0, <1>5, OneStartKept, Zenon DEF sendPrepare, Gateways, StartState, Early
<1>6. CASE PrepareExecution
  BY <1>0, <1>6, OneStartKept, Zenon DEF PrepareExecution, Gateways, StartState, Early
<1>7. CASE IssueAttach
  BY <1>0, <1>7, OneStartKept, Zenon DEF IssueAttach, Gateways, Sessions, StartState, Early
<1>8. CASE waitAttached
  BY <1>0, <1>8, OneStartKept, Zenon DEF waitAttached, Gateways, StartState, Early
<1>9. CASE ClaimExecutionDispatch
  BY <1>0, <1>9, OneStartKept, Zenon DEF ClaimExecutionDispatch, Gateways, StartState, Early
<1>10. CASE SetExecutionSubmission
  BY <1>0, <1>10, OneStartKept, Zenon DEF SetExecutionSubmission, Gateways, StartState, Early
<1>11. CASE Preserve
  BY <1>0, <1>11, OneStartKept, Zenon DEF Preserve, Gateways, StartState, Early
<1>12. CASE Claim
  BY <1>0, <1>12, OneStartKept, Zenon DEF Claim, Gateways, StartState, Early
<1>13. CASE SaveUnusedExecutionReceipt
  BY <1>0, <1>13, OneStartKept, Zenon DEF SaveUnusedExecutionReceipt, Gateways, StartState, Early
<1>14. CASE SaveExecutionReceipt
  BY <1>0, <1>14, OneStartKept, ZenonT(30) DEF SaveExecutionReceipt, Gateways, StartState, Early
<1>15. CASE Dispatch
  BY <1>0, <1>15, ZenonT(30)
  DEF Dispatch, Gateways, Sessions, OneStart, StartQueued, ToldNothingRan, Restarted, Early
<1>16. CASE executeError
  BY <1>0, <1>16, OneStartKept, ZenonT(30) DEF executeError, Gateways, StartState, Early, Fallible
<1>. QED
  BY <1>1, <1>2, <1>3, <1>4, <1>5, <1>6, <1>7, <1>8, <1>9, <1>10, <1>11, <1>12, <1>13, <1>14,
     <1>15, <1>16, Zenon
  DEF Gateway

\* After the dispatch runExec sends nothing, and Remove unregisters the session.
LEMMA CompletionStart == ASSUME TypeOK, OneStart, Completion PROVE OneStart'
<1>. USE DEF gwOnly, Goto, controlVars, hubVars, streamVars, agentVars, storeVars
<1>0. gw \in Gateways /\ ses \in Sessions BY Zenon DEF TypeOK
<1>1. CASE MarkExecutionRunning
  BY <1>0, <1>1, OneStartKept, CancelFields, ZenonT(30)
  DEF MarkExecutionRunning, Gateways, StartState, Early
<1>2. CASE waitResult
  BY <1>0, <1>2, OneStartKept, ZenonT(30) DEF waitResult, Gateways, StartState, Early
<1>3. CASE waitDone BY <1>0, <1>3, OneStartKept, Zenon DEF waitDone, Gateways, StartState, Early
<1>4. CASE waitRuntime
  BY <1>0, <1>4, OneStartKept, CancelFields, Zenon DEF waitRuntime, Gateways, StartState, Early
<1>5. CASE drain BY <1>0, <1>5, OneStartKept, Zenon DEF drain, Gateways, StartState, Early
<1>6. CASE judge BY <1>0, <1>6, OneStartKept, Zenon DEF judge, Gateways, StartState, Early
<1>7. CASE cancelPreparedExecution
  BY <1>0, <1>7, OneStartKept, CancelFields, Zenon
  DEF cancelPreparedExecution, Gateways, StartState, Early
<1>8. CASE finishExec
  BY <1>0, <1>8, OneStartKept, ZenonT(30) DEF finishExec, Gateways, StartState, Early
<1>9. CASE Remove
  <2>. DEFINE c == Cancel(ses, "other")
  <2>1. c \in Sessions /\ c.dispatch = ses.dispatch /\ c.start = ses.start /\ c.attempted = ses.attempted
          /\ c.result = ses.result
    BY <1>0, CancelFields, Zenon
  <2>2. ses' = [c EXCEPT !.registered = FALSE] BY <1>9, Zenon DEF Remove
  <2>3. ses'.dispatch = ses.dispatch /\ ses'.start = ses.start /\ ses'.attempted = ses.attempted
          /\ ses'.result = ses.result
    <3>. HIDE DEF c
    <3>. QED BY <2>1, <2>2, Zenon DEF Sessions
  <2>4. gw'.pc = "over" BY <1>9, Zenon DEF Remove, NoGateway
  <2>. QED
    BY <1>9, <2>3, <2>4, Zenon DEF Remove, OneStart, StartQueued, ToldNothingRan, Restarted, Early
<1>. QED BY <1>1, <1>2, <1>3, <1>4, <1>5, <1>6, <1>7, <1>8, <1>9, Zenon DEF Completion

\* watchExecution only cancels.
LEMMA WatchingStart == ASSUME TypeOK, OneStart, Watching PROVE OneStart'
<1>. USE DEF controlVars, hubVars, streamVars, agentVars, storeVars
<1>0. gw \in Gateways /\ ses \in Sessions BY Zenon DEF TypeOK
<1>1. CASE watchExecution
  BY <1>0, <1>1, OneStartKept, CancelFields, Zenon DEF watchExecution, StartState
<1>2. CASE watchEnd BY <1>0, <1>2, OneStartKept, Zenon DEF watchEnd, Gateways, StartState
<1>. QED BY <1>1, <1>2, Zenon DEF Watching

\* So do the relays and forwardExecutionInput.
LEMMA RelayingStart == ASSUME TypeOK, OneStart, Relaying PROVE OneStart'
<1>. USE DEF relayOnly, controlVars, hubVars, streamVars, agentVars, storeVars
<1>0. gw \in Gateways /\ ses \in Sessions BY Zenon DEF TypeOK
<1>1. CASE inputFailed BY <1>0, <1>1, OneStartKept, CancelFields, Zenon DEF inputFailed, StartState
<1>2. ASSUME NEW o \in Outputs, relayWrite(o) PROVE OneStart'
  BY <1>0, <1>2, OneStartKept, CancelFields, ZenonT(30) DEF relayWrite, StartState
<1>3. ASSUME NEW o \in Outputs, relayEnd(o) PROVE OneStart'
  BY <1>0, <1>3, OneStartKept, Zenon DEF relayEnd, StartState
<1>. QED BY <1>1, <1>2, <1>3, Zenon DEF Relaying

\* Receiving a message, or losing all of them, adds no report that the launch failed.
LEMMA TailTold ==
  ASSUME TypeOK, up # <<>>, up' = Tail(up) \/ up' = <<>>, ses'.result = ses.result, ToldNothingRan'
  PROVE  ToldNothingRan
<1>1. up \in Seq(Ups) BY Zenon DEF TypeOK
<1>2. \A i \in 1..Len(Tail(up)) : i + 1 \in 1..Len(up) /\ Tail(up)[i] = up[i + 1] BY <1>1
<1>3. CASE ses'.result = "launch_failed" BY <1>3, Zenon DEF ToldNothingRan
<1>4. ASSUME NEW i \in 1..Len(up'), up'[i] = Msg("failed", "launch_failed") PROVE ToldNothingRan
  <2>1. up' = Tail(up) BY <1>4
  <2>. QED BY <1>2, <1>4, <2>1, Zenon DEF ToldNothingRan
<1>. QED BY <1>3, <1>4, Zenon DEF ToldNothingRan

\* The sender dequeues the Start once, marks the attempt before it sends, and sends once.
LEMMA SendingStart == ASSUME TypeOK, OneStart, Sending PROVE OneStart'
<1>. USE DEF rpcOnly, controlVars, hubVars, streamVars, agentVars, storeVars
<1>0. gw \in Gateways /\ ses \in Sessions /\ rpc \in Rpcs BY Zenon DEF TypeOK
<1>. DEFINE SameSession == /\ ses'.dispatch = ses.dispatch /\ ses'.start = ses.start
                           /\ ses'.attempted = ses.attempted /\ ses'.result = ses.result
                           /\ ses'.registered = ses.registered
<1>1. CASE Attach
  <2>1. SameSession BY <1>0, <1>1, Zenon DEF Attach, Sessions
  <2>2. \/ rpc'.handler = "serving" /\ rpc'.send = "attach"
        \/ rpc'.handler = "over" /\ rpc'.send = rpc.send
    BY <1>0, <1>1, Zenon DEF Attach, Rpcs
  <2>3. ToldNothingRan' => ToldNothingRan BY <1>1, <2>1, TailTold, Zenon DEF Attach
  <2>4. rpc.handler = "off" /\ down' = down /\ launched' = launched /\ gw' = gw
    BY <1>1, Zenon DEF Attach
  <2>. QED
    BY <2>1, <2>2, <2>3, <2>4, Zenon DEF OneStart, StartQueued, Restarted, Early, Waiting, Through
<1>2. CASE sendAttached
  <2>1. SameSession BY <1>0, <1>2, Zenon DEF sendAttached, Sessions
  <2>2. rpc'.handler = rpc.handler /\ rpc'.send = "queue"
    BY <1>2, SendsFields, Zenon DEF sendAttached, Ended
  <2>3. down' = <<"attached">> BY <1>2 DEF sendAttached, OneStart
  <2>4. <<"attached">> \notin {<<"start">>, <<"attached", "start">>} BY Zenon
  <2>5. ToldNothingRan' => ToldNothingRan BY <1>2, <2>1, Zenon DEF sendAttached, ToldNothingRan
  <2>. QED
    BY <1>2, <2>1, <2>2, <2>3, <2>4, <2>5, Zenon
    DEF sendAttached, OneStart, StartQueued, Restarted, Early, Waiting, Through
<1>3. CASE dequeueStart
  <2>1. /\ ses'.dispatch = ses.dispatch /\ ~ses'.start /\ ses'.attempted = ses.attempted
        /\ ses'.result = ses.result /\ ses'.registered = ses.registered
    BY <1>0, <1>3, Zenon DEF dequeueStart, Sessions
  <2>2. rpc'.handler = rpc.handler /\ rpc'.send \in {"error", "over", "script", "check"}
    BY <1>3, SendsFields, Zenon DEF dequeueStart, Ended
  <2>3. rpc'.handler = "over" => rpc'.send = "over"
    BY <1>3, SendsFields, Zenon DEF dequeueStart, Ended, OneStart
  <2>. QED
    BY <1>3, <2>1, <2>2, <2>3, Zenon
    DEF dequeueStart, OneStart, StartQueued, ToldNothingRan, Restarted, Early, Waiting, Through
<1>4. CASE sendProtectedScript
  <2>2. rpc'.handler = rpc.handler /\ rpc'.send \in {"error", "over", "check"}
    BY <1>4, SendsFields, Zenon DEF sendProtectedScript, Ended
  <2>. QED
    BY <1>4, <2>2, Zenon
    DEF sendProtectedScript, OneStart, StartQueued, ToldNothingRan, Restarted, Early, Waiting,
        Through
<1>5. CASE beforeStart
  <2>2. rpc'.handler = rpc.handler /\ rpc'.send \in {"error", "over", "attempt"}
    BY <1>5, SendsFields, Zenon DEF beforeStart, Ended
  <2>. QED
    BY <1>5, <2>2, Zenon
    DEF beforeStart, OneStart, StartQueued, ToldNothingRan, Restarted, Early, Waiting, Through
<1>6. CASE attemptStart
  <2>1. CASE validateLaunchLocked(ses)
    <3>1. /\ ses'.dispatch = ses.dispatch /\ ses'.start = ses.start /\ ses'.attempted = TRUE
          /\ ses'.result = ses.result /\ ses'.registered = ses.registered
      BY <1>0, <1>6, <2>1, Zenon DEF attemptStart, Sessions
    <3>2. rpc'.handler = rpc.handler /\ rpc'.send = "start"
      BY <1>6, <2>1, SendsFields, Zenon DEF attemptStart, Ended
    <3>. QED
      BY <1>6, <3>1, <3>2, Zenon
      DEF attemptStart, OneStart, StartQueued, ToldNothingRan, Restarted, Early, Waiting, Through
  <2>2. CASE ~validateLaunchLocked(ses)
    <3>2. rpc'.handler = rpc.handler /\ rpc'.send \in {"error", "over"} /\ ses' = ses
      BY <1>6, <2>2, SendsFields, Zenon DEF attemptStart, Ended
    <3>. QED
      BY <1>6, <3>2, Zenon
      DEF attemptStart, OneStart, StartQueued, ToldNothingRan, Restarted, Early, Waiting, Through
  <2>. QED BY <2>1, <2>2, Zenon
<1>7. CASE sendStart
  <2>2. rpc'.handler = rpc.handler /\ rpc'.send = "input"
    BY <1>7, SendsFields, Zenon DEF sendStart, Ended
  <2>. QED
    BY <1>7, <2>2, Zenon
    DEF sendStart, OneStart, StartQueued, ToldNothingRan, Restarted, Early, Waiting, Through
<1>8. CASE senderEnds
  <2>2. rpc'.handler = rpc.handler /\ rpc'.send \in {"nil", "error", "over"}
    BY <1>8, SendsFields, Zenon DEF senderEnds, Ended
  <2>. QED
    BY <1>8, <2>2, Zenon
    DEF senderEnds, OneStart, StartQueued, ToldNothingRan, Restarted, Early, Waiting, Through
<1>. QED BY <1>1, <1>2, <1>3, <1>4, <1>5, <1>6, <1>7, <1>8, Zenon DEF Sending

\* A step that adds no report of a failed launch and leaves the start alone keeps OneStart.
LEMMA ReceivingKept ==
  ASSUME OneStart, ToldNothingRan' => ToldNothingRan,
         ses'.dispatch = ses.dispatch, ses'.start = ses.start, ses'.attempted = ses.attempted,
         ses'.registered = ses.registered, rpc'.handler = rpc.handler, rpc'.send = rpc.send,
         UNCHANGED <<gw, down, launched>>
  PROVE  OneStart'
BY Zenon DEF OneStart, StartQueued, Restarted

\* A result that says the launch failed comes from such a report of the agent.
LEMMA ReceivingStart == ASSUME TypeOK, OneStart, Receiving PROVE OneStart'
<1>. USE DEF rpcOnly, controlVars, hubVars, streamVars, agentVars, storeVars
<1>0. ses \in Sessions /\ rpc \in Rpcs BY Zenon DEF TypeOK
<1>. DEFINE SameStart == /\ ses'.dispatch = ses.dispatch /\ ses'.start = ses.start
                         /\ ses'.attempted = ses.attempted /\ ses'.registered = ses.registered
<1>1. CASE receiveStarted
  <2>1. SameStart /\ ses'.result = ses.result BY <1>0, <1>1, Zenon DEF receiveStarted, Sessions
  <2>2. up # <<>> /\ (Receives \/ Returns("error")) BY <1>1, ArrivedType, Zenon DEF receiveStarted
  <2>3. ToldNothingRan' => ToldNothingRan BY <2>1, <2>2, ReceivesFields, TailTold, Zenon
  <2>. QED BY <1>1, <2>1, <2>2, <2>3, ReceivesFields, ReceivingKept, Zenon DEF receiveStarted
<1>2. CASE receiveStartFailed
  <2>1. SameStart BY <1>0, <1>2, Zenon DEF receiveStartFailed, Sessions
  <2>2. up # <<>> /\ (Returns("nil") \/ Returns("error"))
    BY <1>2, ArrivedType, Zenon DEF receiveStartFailed
  <2>3. ToldNothingRan' => ToldNothingRan
    <3>1. CASE ses'.result = ses.result BY <3>1, <2>2, ReceivesFields, TailTold, Zenon
    <3>2. CASE ses'.result # ses.result
      <4>1. ses'.result = Head(up).arg BY <1>0, <1>2, <3>2, Zenon DEF receiveStartFailed, Sessions
      <4>2. up' = <<>> BY <2>2, Zenon DEF Returns
      <4>3. up \in Seq(Ups) /\ Head(up) \in Ups /\ Head(up).t = "failed"
        BY <1>2, ArrivedType, Zenon DEF receiveStartFailed, TypeOK
      <4>4. Head(up) = Msg("failed", Head(up).arg) BY <4>3, Zenon DEF Ups, Msg
      <4>5. Head(up) = up[1] /\ 1 \in 1..Len(up) BY <2>2, <4>3
      <4>6. ToldNothingRan' => ses'.result = "launch_failed" BY <4>2 DEF ToldNothingRan
      <4>. QED BY <4>1, <4>4, <4>5, <4>6, Zenon DEF ToldNothingRan
    <3>. QED BY <3>1, <3>2, Zenon
  <2>. QED BY <1>2, <2>1, <2>2, <2>3, ReceivesFields, ReceivingKept, Zenon DEF receiveStartFailed
<1>3. CASE receiveResult
  <2>1. SameStart BY <1>0, <1>3, Zenon DEF receiveResult, Sessions
  <2>2. up # <<>> /\ (Returns("nil") \/ Returns("error"))
    BY <1>3, ArrivedType, Zenon DEF receiveResult
  <2>3. ToldNothingRan' => ToldNothingRan
    <3>1. CASE ses'.result = ses.result BY <3>1, <2>2, ReceivesFields, TailTold, Zenon
    <3>2. CASE ses'.result # ses.result
      <4>1. ses'.result = Head(up).arg BY <1>0, <1>3, <3>2, Zenon DEF receiveResult, Sessions
      <4>2. Head(up) \in Ups /\ Head(up).t = "result"
        BY <1>3, ArrivedType, Zenon DEF receiveResult
      <4>3. ses'.result # "launch_failed" BY <4>1, <4>2, ZenonT(30) DEF Ups
      <4>4. up' = <<>> BY <2>2, Zenon DEF Returns
      <4>. QED BY <4>3, <4>4 DEF ToldNothingRan
    <3>. QED BY <3>1, <3>2, Zenon
  <2>. QED BY <1>3, <2>1, <2>2, <2>3, ReceivesFields, ReceivingKept, Zenon DEF receiveResult
<1>4. CASE receiverEnds
  <2>1. Returns("error") /\ ses' = ses BY <1>4, Zenon DEF receiverEnds
  <2>2. ToldNothingRan' => ToldNothingRan BY <2>1 DEF ToldNothingRan, Returns
  <2>. QED BY <1>4, <2>1, <2>2, ReceivesFields, ReceivingKept, Zenon DEF receiverEnds
<1>5. ASSUME NEW o \in Outputs, receiveOutput(o) PROVE OneStart'
  <2>2. up # <<>> /\ (Receives \/ Returns("error")) /\ ses' = ses
    BY <1>5, ArrivedType, Zenon DEF receiveOutput
  <2>3. ToldNothingRan' => ToldNothingRan BY <2>2, ReceivesFields, TailTold, Zenon
  <2>. QED BY <1>5, <2>2, <2>3, ReceivesFields, ReceivingKept, Zenon DEF receiveOutput
<1>6. ASSUME NEW o \in Outputs, receiveEOF(o) PROVE OneStart'
  <2>2. up # <<>> /\ (Receives \/ Returns("error")) /\ ses' = ses
    BY <1>6, ArrivedType, Zenon DEF receiveEOF
  <2>3. ToldNothingRan' => ToldNothingRan BY <2>2, ReceivesFields, TailTold, Zenon
  <2>. QED BY <1>6, <2>2, <2>3, ReceivesFields, ReceivingKept, Zenon DEF receiveEOF
<1>7. CASE ExecuteReturns
  <2>. DEFINE finished == [ses EXCEPT !.transportDone = TRUE]
  <2>a. finished \in Sessions BY <1>0, SessionUpdates, Zenon
  <2>1. /\ finished.dispatch = ses.dispatch /\ finished.start = ses.start
        /\ finished.attempted = ses.attempted /\ finished.registered = ses.registered
        /\ finished.result = ses.result
    BY <1>0, Zenon DEF Sessions
  <2>2. ses' = finished \/ ses' = Cancel(finished, "lost") BY <1>7, Zenon DEF ExecuteReturns
  <2>3. SameStart /\ ses'.result = ses.result
    <3>. HIDE DEF finished
    <3>. QED BY <2>a, <2>1, <2>2, CancelFields, ZenonT(30)
  <2>4. rpc'.handler = "over" /\ rpc'.send = "over" BY <1>0, <1>7, Zenon DEF ExecuteReturns, Rpcs
  <2>. QED
    BY <1>7, <2>3, <2>4, Zenon
    DEF ExecuteReturns, OneStart, StartQueued, ToldNothingRan, Restarted, Waiting, Through
<1>. QED BY <1>1, <1>2, <1>3, <1>4, <1>5, <1>6, <1>7, Zenon DEF Receiving

\* The control stream cancels sessions and answers Prepare.
LEMMA ControlStart == ASSUME TypeOK, OneStart, NEW g \in Generations, Control(g) PROVE OneStart'
<1>. USE DEF controlVars, hubVars, streamVars, agentVars, storeVars
<1>0. ses \in Sessions BY Zenon DEF TypeOK
<1>1. CASE Connect(g) BY <1>1, OneStartKept, Zenon DEF Connect, StartState
<1>2. CASE SetCapabilities(g)
  <2>1. ses' = ses \/ ses' = Cancel(ses, "other") BY <1>2, Zenon DEF SetCapabilities
  <2>2. UNCHANGED <<gw, rpc, down, up, launched>> BY <1>2, Zenon DEF SetCapabilities
  <2>. QED BY <1>0, <2>1, <2>2, OneStartKept, CancelFields, ZenonT(30) DEF StartState
<1>3. CASE onAgentDisconnected(g)
  BY <1>0, <1>3, OneStartKept, CancelFields, Zenon DEF onAgentDisconnected, StartState
<1>4. CASE DeliverPrepared(g)
  <2>1. /\ ses'.dispatch = ses.dispatch /\ ses'.start = ses.start /\ ses'.attempted = ses.attempted
        /\ ses'.registered = ses.registered /\ ses'.result = ses.result
    BY <1>0, <1>4, Zenon DEF DeliverPrepared, Sessions
  <2>. QED BY <1>4, <2>1, OneStartKept, Zenon DEF DeliverPrepared, StartState
<1>. QED BY <1>1, <1>2, <1>3, <1>4, Zenon DEF Control

\* A message other than StartFailed adds no report that the launch failed.
LEMMA ReportTold ==
  ASSUME TypeOK, NEW m \in Ups, m # Msg("failed", "launch_failed"), Reports(m) \/ up' = up \/ up' = <<m>>, ses' = ses, ToldNothingRan'
  PROVE  ToldNothingRan
<1>1. up \in Seq(Ups) BY Zenon DEF TypeOK
<1>2. CASE ses'.result = "launch_failed" BY <1>2, Zenon DEF ToldNothingRan
<1>3. ASSUME NEW i \in 1..Len(up'), up'[i] = Msg("failed", "launch_failed") PROVE ToldNothingRan
  <2>1. CASE up' = up BY <1>3, <2>1, Zenon DEF ToldNothingRan
  <2>2. CASE up' = Append(up, m)
    <3>1. up'[Len(up) + 1] = m /\ \A j \in 1..Len(up) : up'[j] = up[j] BY <1>1, <2>2
    <3>2. i \in 1..Len(up) \/ i = Len(up) + 1 BY <1>1, <2>2
    <3>. QED BY <1>3, <3>1, <3>2, Zenon DEF ToldNothingRan
  <2>3. CASE up' = <<m>> BY <1>3, <2>3
  <2>. QED BY <2>1, <2>2, <2>3, Zenon DEF Reports
<1>. QED BY <1>2, <1>3, Zenon DEF ToldNothingRan

\* The agent takes the one Start: it launches or it reports that it did not, never both.
LEMMA AgentStart == ASSUME TypeOK, OneStart, NEW g \in Generations, Agent(g) PROVE OneStart'
<1>. USE DEF agentOnly, controlVars, hubVars, streamVars, agentVars, storeVars
<1>0. rpc \in Rpcs /\ down \in Downs BY Zenon DEF TypeOK
<1>a. /\ Msg("attach", "") # Msg("failed", "launch_failed") /\ Msg("started", "") # Msg("failed", "launch_failed")
      /\ Msg("failed", "outcome_unknown") # Msg("failed", "launch_failed")
      /\ \A r : Msg("result", r) # Msg("failed", "launch_failed")
      /\ \A o : Msg("frame", o) # Msg("failed", "launch_failed") /\ Msg("eof", o) # Msg("failed", "launch_failed")
  BY ZenonT(30) DEF Msg
<1>1. CASE handlePrepare(g) BY <1>1, OneStartKept, Zenon DEF handlePrepare, StartState
<1>2. CASE handleAttach(g)
  <2>1. rpc'.handler = rpc.handler /\ rpc'.send = rpc.send
    BY <1>0, <1>2, Zenon DEF handleAttach, Rpcs
  <2>2. up' = up \/ up' = <<Msg("attach", "")>> BY <1>2, Zenon DEF handleAttach
  <2>3. ToldNothingRan' => ToldNothingRan
    BY <1>2, <1>a, <2>2, MessageType, ReportTold, ZenonT(30) DEF handleAttach
  <2>. QED BY <1>2, <2>1, <2>3, ReceivingKept, Zenon DEF handleAttach
<1>3. CASE handleCancel(g) BY <1>3, OneStartKept, Zenon DEF handleCancel, StartState
<1>4. CASE handleAttached(g)
  <2>1. down \in {<<"attached">>, <<"attached", "start">>}
    BY <1>0, <1>4, DownTails, Zenon DEF handleAttached
  <2>2. Tail(<<"attached">>) = <<>> /\ Tail(<<"attached", "start">>) = <<"start">> OBVIOUS
  <2>3. down' \in {<<>>, <<"start">>} /\ (down' = <<"start">> => down = <<"attached", "start">>)
    <3>1. down' = Tail(down) BY <1>4, Zenon DEF handleAttached
    <3>2. <<>> # <<"start">> BY Zenon
    <3>. QED BY <3>1, <3>2, <2>1, <2>2, Zenon
  <2>4. StartQueued' => StartQueued
    <3>1. <<>> \notin {<<"start">>, <<"attached", "start">>} BY Zenon
    <3>. QED BY <2>3, <3>1, Zenon DEF StartQueued
  <2>5. rpc.send \notin {"off", "attach"}
    BY <1>4, Zenon DEF handleAttached, OneStart
  <2>. QED BY <1>4, <2>4, <2>5, Zenon DEF handleAttached, OneStart, ToldNothingRan, Restarted
<1>5. CASE handleStart(g)
  <2>1. down = <<"start">> /\ down' = <<>> BY <1>0, <1>5, DownTails, Zenon DEF handleStart
  <2>2. StartQueued /\ ~StartQueued' BY <2>1, Zenon DEF StartQueued
  <2>3. ses' = ses /\ rpc' = rpc /\ gw' = gw BY <1>5, Zenon DEF handleStart
  <2>4. ses.attempted /\ rpc.send \in Through /\ ~launched BY <2>2, Zenon DEF OneStart
  <2>5. launched' => ~ToldNothingRan'
    <3>1. CASE ~launched' BY <3>1, Zenon
    <3>2. CASE launched'
      <4>1. Reports(Msg("started", "")) \/ Reports(Msg("failed", "outcome_unknown"))
        BY <1>5, <2>4, <3>2, ZenonT(30) DEF handleStart
      <4>2. ToldNothingRan' => ToldNothingRan
        BY <1>a, <2>3, <4>1, MessageType, ReportTold, ZenonT(30)
      <4>. QED BY <2>2, <4>2, Zenon DEF OneStart
    <3>. QED BY <3>1, <3>2, Zenon
  <2>. QED BY <2>1, <2>2, <2>3, <2>4, <2>5, Zenon DEF OneStart, Through, Waiting
<1>6. CASE sendResult(g)
  <2>1. PICK r \in {"cancelled", "exited"} : Reports(Msg("result", r))
    BY <1>6, Zenon DEF sendResult
  <2>2. ToldNothingRan' => ToldNothingRan
    BY <1>a, <1>6, <2>1, MessageType, ReportTold, ZenonT(30) DEF sendResult
  <2>. QED BY <1>6, <2>2, ReceivingKept, Zenon DEF sendResult
<1>7. CASE serveEnds(g)
  <2>1. rpc'.handler = rpc.handler /\ rpc'.send = rpc.send
    BY <1>0, <1>7, Zenon DEF serveEnds, Rpcs
  <2>2. ~StartQueued' BY <1>7, Zenon DEF serveEnds, StartQueued
  <2>. QED BY <1>7, <2>1, <2>2, Zenon DEF serveEnds, OneStart, ToldNothingRan, Restarted
<1>8. CASE agentEnds(g)
  <2>1. rpc'.handler = rpc.handler /\ rpc'.send = rpc.send
    BY <1>0, <1>8, Zenon DEF agentEnds, Rpcs
  <2>2. ~StartQueued' BY <1>8, Zenon DEF agentEnds, StartQueued
  <2>. QED BY <1>8, <2>1, <2>2, Zenon DEF agentEnds, OneStart, ToldNothingRan, Restarted
<1>9. ASSUME NEW o \in Outputs, processWrites(g, o) PROVE OneStart'
  <2>1. ToldNothingRan' => ToldNothingRan
    BY <1>a, <1>9, MessageType, ReportTold, Zenon DEF processWrites
  <2>. QED BY <1>9, <2>1, ReceivingKept, Zenon DEF processWrites
<1>10. ASSUME NEW o \in Outputs, processEOF(g, o) PROVE OneStart'
  <2>1. ToldNothingRan' => ToldNothingRan
    BY <1>a, <1>10, MessageType, ReportTold, Zenon DEF processEOF
  <2>. QED BY <1>10, <2>1, ReceivingKept, Zenon DEF processEOF
<1>. QED BY <1>1, <1>2, <1>3, <1>4, <1>5, <1>6, <1>7, <1>8, <1>9, <1>10, Zenon DEF Agent

\* A restart of the Hub takes the streams and the session with it.
LEMMA EnvironmentStart == ASSUME TypeOK, OneStart, Environment PROVE OneStart'
<1>. USE DEF envOnly, controlVars, hubVars, streamVars, agentVars, storeVars
<1>0. rpc \in Rpcs BY Zenon DEF TypeOK
<1>1. CASE Revoke BY <1>1, OneStartKept, Zenon DEF Revoke, StartState
<1>2. CASE PreparationExpires BY <1>2, OneStartKept, Zenon DEF PreparationExpires, StartState
<1>3. CASE StreamLost
  <2>1. rpc'.handler = rpc.handler /\ rpc'.send = rpc.send
    BY <1>0, <1>3, Zenon DEF StreamLost, Rpcs
  <2>. QED BY <1>3, <2>1, OneStartKept, Zenon DEF StreamLost, StartState
<1>4. ASSUME NEW power \in BOOLEAN, Crash(power) PROVE OneStart'
  <2>1. /\ ~ses'.dispatch /\ ~ses'.start /\ ~ses'.attempted /\ ~ses'.registered /\ ses'.result = "none"
        /\ rpc'.handler = "over" /\ rpc'.send = "off" /\ gw'.pc = "over" /\ down' = <<>> /\ up' = <<>>
    BY <1>4, Zenon DEF Crash, NoSession, NoGateway
  <2>. QED BY <2>1 DEF OneStart, StartQueued, ToldNothingRan, Restarted, Early, Waiting
<1>. QED BY <1>1, <1>2, <1>3, <1>4, Zenon DEF Environment

-----------------------------------------------------------------------------
(* Cancellation.                                                           *)

\* A step that leaves runExec, the watcher and the dispatch alone, and takes back no
\* cancellation, keeps Withdrawn.
LEMMA WithdrawnKept ==
  ASSUME Withdrawn, ses.done => ses'.done, ses'.dispatch = ses.dispatch, UNCHANGED <<watch, gw>>
  PROVE  Withdrawn'
BY Zenon DEF Withdrawn

\* Up to the dispatch a failure needs no cancellation: nothing was dispatched.
LEMMA GatewayWithdrawn == ASSUME TypeOK, OneStart, Withdrawn, Gateway PROVE Withdrawn'
<1>. USE DEF gwOnly, Goto, controlVars, hubVars, streamVars, agentVars, storeVars
<1>0. gw \in Gateways /\ ses \in Sessions BY Zenon DEF TypeOK
<1>1. ASSUME NEW m \in Modes, startExec(m) PROVE Withdrawn'
  BY <1>0, <1>1, Zenon DEF startExec, NoSession, OneStart, Withdrawn, Early, Gateways
<1>2. CASE runExec BY <1>0, <1>2, ZenonT(30) DEF runExec, Gateways, OneStart, Withdrawn, Early
<1>3. CASE collectProtectedInput
  BY <1>0, <1>3, Zenon DEF collectProtectedInput, Gateways, OneStart, Withdrawn, Early
<1>4. CASE collectDeadline
  BY <1>0, <1>4, CancelFields, Zenon DEF collectDeadline, Gateways, OneStart, Withdrawn, Early
<1>5. CASE sendPrepare BY <1>0, <1>5, Zenon DEF sendPrepare, Gateways, OneStart, Withdrawn, Early
<1>6. CASE PrepareExecution
  BY <1>0, <1>6, Zenon DEF PrepareExecution, Gateways, OneStart, Withdrawn, Early
<1>7. CASE IssueAttach
  BY <1>0, <1>7, Zenon DEF IssueAttach, Gateways, Sessions, OneStart, Withdrawn, Early
<1>8. CASE waitAttached BY <1>0, <1>8, Zenon DEF waitAttached, Gateways, OneStart, Withdrawn, Early
<1>9. CASE ClaimExecutionDispatch
  BY <1>0, <1>9, Zenon DEF ClaimExecutionDispatch, Gateways, OneStart, Withdrawn, Early, Claimed
<1>10. CASE SetExecutionSubmission
  BY <1>0, <1>10, Zenon DEF SetExecutionSubmission, Gateways, OneStart, Withdrawn, Early
<1>11. CASE Preserve BY <1>0, <1>11, Zenon DEF Preserve, Gateways, OneStart, Withdrawn, Early
<1>12. CASE Claim BY <1>0, <1>12, ZenonT(30) DEF Claim, Gateways, OneStart, Withdrawn, Early
<1>13. CASE SaveUnusedExecutionReceipt
  BY <1>0, <1>13, ZenonT(30) DEF SaveUnusedExecutionReceipt, Gateways, OneStart, Withdrawn, Early
<1>14. CASE SaveExecutionReceipt
  BY <1>0, <1>14, ZenonT(30) DEF SaveExecutionReceipt, Gateways, OneStart, Withdrawn, Early, Claimed
<1>15. CASE Dispatch
  BY <1>0, <1>15, ZenonT(30) DEF Dispatch, Gateways, Sessions, OneStart, Withdrawn, Early
<1>16. CASE executeError
  BY <1>0, <1>16, Zenon DEF executeError, Gateways, OneStart, Withdrawn, Early, Fallible
<1>. QED
  BY <1>1, <1>2, <1>3, <1>4, <1>5, <1>6, <1>7, <1>8, <1>9, <1>10, <1>11, <1>12, <1>13, <1>14,
     <1>15, <1>16, Zenon
  DEF Gateway

\* After the dispatch runExec fails only with a session that is done.
LEMMA CompletionWithdrawn == ASSUME TypeOK, Withdrawn, Completion PROVE Withdrawn'
<1>. USE DEF gwOnly, Goto, controlVars, hubVars, streamVars, agentVars, storeVars
<1>0. gw \in Gateways /\ ses \in Sessions BY Zenon DEF TypeOK
<1>1. CASE MarkExecutionRunning
  BY <1>0, <1>1, CancelFields, Zenon DEF MarkExecutionRunning, Gateways, Withdrawn, Claimed
<1>2. CASE waitResult BY <1>0, <1>2, Zenon DEF waitResult, Gateways, Withdrawn
<1>3. CASE waitDone BY <1>0, <1>3, Zenon DEF waitDone, Gateways, Withdrawn
<1>4. CASE waitRuntime BY <1>0, <1>4, CancelFields, Zenon DEF waitRuntime, Gateways, Withdrawn
<1>5. CASE drain BY <1>0, <1>5, Zenon DEF drain, Gateways, Withdrawn
<1>6. CASE judge BY <1>0, <1>6, Zenon DEF judge, Gateways, Withdrawn
<1>7. CASE cancelPreparedExecution
  BY <1>0, <1>7, CancelFields, Zenon DEF cancelPreparedExecution, Gateways, Withdrawn
<1>8. CASE finishExec BY <1>0, <1>8, Zenon DEF finishExec, Gateways, Withdrawn
<1>9. CASE Remove
  <2>1. gw'.pc = "over" BY <1>9, Zenon DEF Remove, NoGateway
  <2>2. watch' = "over" BY <1>9, Zenon DEF Remove
  <2>. QED BY <2>1, <2>2, Zenon DEF Withdrawn
<1>. QED BY <1>1, <1>2, <1>3, <1>4, <1>5, <1>6, <1>7, <1>8, <1>9, Zenon DEF Completion

\* watchExecution cancels the session before the context.
LEMMA WatchingWithdrawn == ASSUME TypeOK, Withdrawn, Watching PROVE Withdrawn'
<1>. USE DEF controlVars, hubVars, streamVars, agentVars, storeVars
<1>0. gw \in Gateways /\ ses \in Sessions BY Zenon DEF TypeOK
<1>1. CASE watchExecution BY <1>0, <1>1, CancelFields, ZenonT(30) DEF watchExecution, Withdrawn
<1>2. CASE watchEnd BY <1>0, <1>2, Zenon DEF watchEnd, Gateways, Withdrawn
<1>. QED BY <1>1, <1>2, Zenon DEF Watching

\* After a restart runExec is over.
LEMMA EnvironmentWithdrawn == ASSUME TypeOK, Withdrawn, Environment PROVE Withdrawn'
<1>. USE DEF envOnly, controlVars, hubVars, streamVars, agentVars, storeVars
<1>1. CASE Revoke BY <1>1, WithdrawnKept, Zenon DEF Revoke
<1>2. CASE PreparationExpires BY <1>2, WithdrawnKept, Zenon DEF PreparationExpires
<1>3. CASE StreamLost BY <1>3, WithdrawnKept, Zenon DEF StreamLost
<1>4. ASSUME NEW power \in BOOLEAN, Crash(power) PROVE Withdrawn'
  <2>1. watch' = "over" /\ gw'.pc = "over" BY <1>4, Zenon DEF Crash, NoGateway
  <2>. QED BY <2>1, Zenon DEF Withdrawn
<1>. QED BY <1>1, <1>2, <1>3, <1>4, Zenon DEF Environment

\* Every step keeps Withdrawn.
LEMMA NextWithdrawn == ASSUME TypeOK, OneStart, Withdrawn, Next PROVE Withdrawn'
<1>1. CASE Gateway BY <1>1, GatewayWithdrawn, Zenon
<1>2. CASE Completion BY <1>2, CompletionWithdrawn, Zenon
<1>3. CASE Watching BY <1>3, WatchingWithdrawn, Zenon
<1>4. CASE Relaying BY <1>4, RelayingKeeps, WithdrawnKept, Zenon
<1>5. CASE Sending BY <1>5, SendingKeeps, WithdrawnKept, Zenon
<1>6. CASE Receiving BY <1>6, ReceivingKeeps, WithdrawnKept, Zenon
<1>7. ASSUME NEW g \in Generations, Control(g) PROVE Withdrawn'
  BY <1>7, ControlKeeps, WithdrawnKept, Zenon
<1>8. ASSUME NEW g \in Generations, Agent(g) PROVE Withdrawn'
  BY <1>8, AgentKeeps, WithdrawnKept, Zenon
<1>9. CASE Environment BY <1>9, EnvironmentWithdrawn, Zenon
<1>. QED BY <1>1, <1>2, <1>3, <1>4, <1>5, <1>6, <1>7, <1>8, <1>9, Zenon DEF Next

-----------------------------------------------------------------------------
(* A command that is denied will not run.                                  *)

\* A step that takes back no cancellation and dispatches nothing keeps WillNotRun.
LEMMA WillNotRunKept ==
  ASSUME WillNotRun, ~launched', rpc'.send = rpc.send, rpc'.handler = rpc.handler, down' = down,
         ses.done => ses'.done, ses'.dispatch = ses.dispatch,
         gw'.pc \in Early => gw.pc \in Early
  PROVE  WillNotRun'
BY Zenon DEF WillNotRun, StartQueued

\* Before the dispatch nothing was attempted, queued or launched.
LEMMA NothingLaunchedYet ==
  ASSUME OneStart, gw.pc \in Early
  PROVE  ~launched /\ rpc.send # "start" /\ ~StartQueued /\ ~ses.dispatch /\ ~ses.attempted
BY Zenon DEF OneStart, Restarted, Waiting, Early

\* Once the command will not run, no step of runExec before the dispatch changes it.
LEMMA GatewayStays ==
  ASSUME TypeOK, OneStart, Withdrawn, WillNotRun, Gateway, gw.pc # "idle" PROVE WillNotRun'
<1>. USE DEF gwOnly, Goto, controlVars, hubVars, streamVars, agentVars, storeVars
<1>0. gw \in Gateways /\ ses \in Sessions BY Zenon DEF TypeOK
<1>a. ~launched BY Zenon DEF WillNotRun
<1>1. ASSUME NEW m \in Modes, startExec(m) PROVE WillNotRun' BY <1>1, Zenon DEF startExec
<1>2. CASE runExec BY <1>0, <1>a, <1>2, WillNotRunKept, Zenon DEF runExec, Gateways, Early
<1>3. CASE collectProtectedInput
  BY <1>0, <1>a, <1>3, WillNotRunKept, ZenonT(30) DEF collectProtectedInput, Gateways, Early
<1>4. CASE collectDeadline
  BY <1>0, <1>a, <1>4, CancelFields, WillNotRunKept, ZenonT(30) DEF collectDeadline, Gateways, Early
<1>5. CASE sendPrepare BY <1>0, <1>a, <1>5, WillNotRunKept, Zenon DEF sendPrepare, Gateways, Early
<1>6. CASE PrepareExecution
  BY <1>0, <1>a, <1>6, WillNotRunKept, Zenon DEF PrepareExecution, Gateways, Early
<1>7. CASE IssueAttach
  BY <1>0, <1>a, <1>7, WillNotRunKept, Zenon DEF IssueAttach, Gateways, Sessions, Early
<1>8. CASE waitAttached BY <1>0, <1>a, <1>8, WillNotRunKept, Zenon DEF waitAttached, Gateways, Early
<1>9. CASE ClaimExecutionDispatch
  BY <1>0, <1>a, <1>9, WillNotRunKept, Zenon DEF ClaimExecutionDispatch, Gateways, Early
<1>10. CASE SetExecutionSubmission
  BY <1>0, <1>a, <1>10, WillNotRunKept, Zenon DEF SetExecutionSubmission, Gateways, Early
<1>11. CASE Preserve BY <1>0, <1>a, <1>11, WillNotRunKept, Zenon DEF Preserve, Gateways, Early
<1>12. CASE Claim BY <1>0, <1>a, <1>12, WillNotRunKept, Zenon DEF Claim, Gateways, Early
<1>13. CASE SaveUnusedExecutionReceipt
  BY <1>0, <1>a, <1>13, WillNotRunKept, Zenon DEF SaveUnusedExecutionReceipt, Gateways, Early
<1>14. CASE SaveExecutionReceipt
  BY <1>0, <1>a, <1>14, WillNotRunKept, Zenon DEF SaveExecutionReceipt, Gateways, Early
<1>15. CASE Dispatch BY <1>15, Zenon DEF Dispatch, WillNotRun, StartQueued, Early
<1>16. CASE executeError
  BY <1>0, <1>a, <1>16, WillNotRunKept, ZenonT(30) DEF executeError, Gateways, Early, Fallible
<1>. QED
  BY <1>1, <1>2, <1>3, <1>4, <1>5, <1>6, <1>7, <1>8, <1>9, <1>10, <1>11, <1>12, <1>13, <1>14,
     <1>15, <1>16, Zenon
  DEF Gateway

\* Nor does a step after the dispatch.
LEMMA CompletionStays ==
  ASSUME TypeOK, WillNotRun, Completion PROVE WillNotRun'
<1>. USE DEF gwOnly, Goto, controlVars, hubVars, streamVars, agentVars, storeVars
<1>0. gw \in Gateways /\ ses \in Sessions BY Zenon DEF TypeOK
<1>a. ~launched BY Zenon DEF WillNotRun
<1>1. CASE MarkExecutionRunning
  BY <1>0, <1>a, <1>1, CancelFields, WillNotRunKept, ZenonT(30) DEF MarkExecutionRunning, Gateways
<1>2. CASE waitResult BY <1>0, <1>a, <1>2, WillNotRunKept, Zenon DEF waitResult, Gateways, Early
<1>3. CASE waitDone BY <1>0, <1>a, <1>3, WillNotRunKept, Zenon DEF waitDone, Gateways, Early
<1>4. CASE waitRuntime
  BY <1>0, <1>a, <1>4, CancelFields, WillNotRunKept, Zenon DEF waitRuntime, Gateways, Early
<1>5. CASE drain BY <1>0, <1>a, <1>5, WillNotRunKept, Zenon DEF drain, Gateways, Early
<1>6. CASE judge BY <1>0, <1>a, <1>6, WillNotRunKept, Zenon DEF judge, Gateways, Early
<1>7. CASE cancelPreparedExecution
  BY <1>0, <1>a, <1>7, CancelFields, WillNotRunKept, ZenonT(30)
  DEF cancelPreparedExecution, Gateways, Early
<1>8. CASE finishExec
  BY <1>0, <1>a, <1>8, WillNotRunKept, ZenonT(30) DEF finishExec, Gateways, Early
<1>9. CASE Remove
  <2>. DEFINE c == Cancel(ses, "other")
  <2>1. c \in Sessions /\ c.done BY <1>0, CancelFields, Zenon
  <2>2. ses' = [c EXCEPT !.registered = FALSE] BY <1>9, Zenon DEF Remove
  <2>3. ses'.done
    <3>. HIDE DEF c
    <3>. QED BY <2>1, <2>2, Zenon DEF Sessions
  <2>. QED BY <1>9, <2>3, Zenon DEF Remove, WillNotRun, StartQueued
<1>. QED BY <1>1, <1>2, <1>3, <1>4, <1>5, <1>6, <1>7, <1>8, <1>9, Zenon DEF Completion

\* Nor does the sender: both checks before Start read the cancellation.
LEMMA SendingStays == ASSUME TypeOK, OneStart, WillNotRun, Sending PROVE WillNotRun'
<1>. USE DEF rpcOnly, controlVars, hubVars, streamVars, agentVars, storeVars
<1>0. ses \in Sessions /\ rpc \in Rpcs BY Zenon DEF TypeOK
<1>1. CASE Attach
  <2>1. ses'.done = ses.done /\ ses'.dispatch = ses.dispatch
    BY <1>0, <1>1, Zenon DEF Attach, Sessions
  <2>2. \/ rpc'.send = "attach"
        \/ rpc'.handler = "over" /\ rpc'.send = rpc.send
    BY <1>0, <1>1, Zenon DEF Attach, Rpcs
  <2>3. rpc.handler = "off" /\ down' = down /\ launched' = launched /\ gw' = gw
    BY <1>1, Zenon DEF Attach
  <2>. QED BY <2>1, <2>2, <2>3, Zenon DEF OneStart, WillNotRun, StartQueued, Through
<1>2. CASE sendAttached
  <2>1. ses'.done = ses.done /\ ses'.dispatch = ses.dispatch
    BY <1>0, <1>2, Zenon DEF sendAttached, Sessions
  <2>2. rpc'.handler = rpc.handler /\ rpc'.send = "queue"
    BY <1>2, SendsFields, Zenon DEF sendAttached, Ended
  <2>3. down' = <<"attached">> BY <1>2 DEF sendAttached, OneStart
  <2>4. <<"attached">> \notin {<<"start">>, <<"attached", "start">>} BY Zenon
  <2>. QED BY <1>2, <2>1, <2>2, <2>3, <2>4, Zenon DEF sendAttached, WillNotRun, StartQueued, Through
<1>3. CASE dequeueStart
  <2>1. ses'.done = ses.done /\ ses'.dispatch = ses.dispatch
    BY <1>0, <1>3, Zenon DEF dequeueStart, Sessions
  <2>2. ses.done \/ rpc.handler = "over"
    BY <1>3, Zenon DEF dequeueStart, OneStart, WillNotRun, Through
  <2>3. rpc'.handler = rpc.handler /\ rpc'.send # "start"
    BY <1>3, SendsFields DEF dequeueStart, Ended
  <2>. QED BY <1>3, <2>1, <2>2, <2>3, Zenon DEF dequeueStart, WillNotRun, StartQueued
<1>4. CASE sendProtectedScript
  <2>1. rpc'.handler = rpc.handler /\ rpc'.send # "start"
    BY <1>4, SendsFields DEF sendProtectedScript, Ended
  <2>. QED BY <1>4, <2>1, Zenon DEF sendProtectedScript, WillNotRun, StartQueued, Through
<1>5. CASE beforeStart
  <2>1. rpc'.handler = rpc.handler /\ rpc'.send # "start"
    BY <1>5, SendsFields DEF beforeStart, Ended
  <2>. QED BY <1>5, <2>1, Zenon DEF beforeStart, WillNotRun, StartQueued, Through
<1>6. CASE attemptStart
  <2>1. ses.done BY <1>6, Zenon DEF attemptStart, OneStart, WillNotRun, Through, Waiting
  <2>2. ses' = ses /\ rpc'.handler = rpc.handler /\ rpc'.send # "start"
    BY <1>6, <2>1, SendsFields, Zenon DEF attemptStart, validateLaunchLocked, Ended
  <2>. QED BY <1>6, <2>1, <2>2, Zenon DEF attemptStart, WillNotRun, StartQueued
<1>7. CASE sendStart BY <1>7, Zenon DEF sendStart, WillNotRun
<1>8. CASE senderEnds
  <2>1. rpc'.send \in {"nil", "error", "over"} BY <1>8, SendsFields, Zenon DEF senderEnds, Ended
  <2>. QED BY <1>8, <2>1, Zenon DEF senderEnds, WillNotRun, StartQueued, Through
<1>. QED BY <1>1, <1>2, <1>3, <1>4, <1>5, <1>6, <1>7, <1>8, Zenon DEF Sending

\* Nor does a restart of the Hub.
LEMMA EnvironmentStays == ASSUME TypeOK, WillNotRun, Environment PROVE WillNotRun'
<1>. USE DEF envOnly, controlVars, hubVars, streamVars, agentVars, storeVars
<1>0. rpc \in Rpcs /\ ~launched BY Zenon DEF TypeOK, WillNotRun
<1>1. CASE Revoke BY <1>0, <1>1, WillNotRunKept, Zenon DEF Revoke
<1>2. CASE PreparationExpires BY <1>0, <1>2, WillNotRunKept, Zenon DEF PreparationExpires
<1>3. CASE StreamLost
  <2>1. rpc'.handler = rpc.handler /\ rpc'.send = rpc.send
    BY <1>0, <1>3, Zenon DEF StreamLost, Rpcs
  <2>. QED BY <1>0, <1>3, <2>1, WillNotRunKept, Zenon DEF StreamLost
<1>4. ASSUME NEW power \in BOOLEAN, Crash(power) PROVE WillNotRun'
  <2>1. rpc'.handler = "over" /\ rpc'.send = "off" /\ down' = <<>> /\ launched' = launched
    BY <1>4, Zenon DEF Crash
  <2>. QED BY <1>0, <2>1, Zenon DEF WillNotRun, StartQueued
<1>. QED BY <1>1, <1>2, <1>3, <1>4, Zenon DEF Environment

\* Nor does any other step.
LEMMA WillNotRunStays ==
  ASSUME TypeOK, OneStart, Withdrawn, WillNotRun, Next, gw.pc # "idle" PROVE WillNotRun'
<1>0. ~launched /\ ~StartQueued BY Zenon DEF WillNotRun
<1>1. CASE Gateway BY <1>1, GatewayStays, Zenon
<1>2. CASE Completion BY <1>2, CompletionStays, Zenon
<1>3. CASE Watching BY <1>0, <1>3, WatchingKeeps, WillNotRunKept
<1>4. CASE Relaying BY <1>0, <1>4, RelayingKeeps, WillNotRunKept
<1>5. CASE Sending BY <1>5, SendingStays, Zenon
<1>6. CASE Receiving BY <1>0, <1>6, ReceivingKeeps DEF WillNotRun, StartQueued, Through
<1>7. ASSUME NEW g \in Generations, Control(g) PROVE WillNotRun'
  BY <1>0, <1>7, ControlKeeps, WillNotRunKept, Zenon
<1>8. ASSUME NEW g \in Generations, Agent(g) PROVE WillNotRun'
  BY <1>0, <1>8, AgentKeeps, Zenon DEF WillNotRun
<1>9. CASE Environment BY <1>9, EnvironmentStays, Zenon
<1>. QED BY <1>1, <1>2, <1>3, <1>4, <1>5, <1>6, <1>7, <1>8, <1>9, Zenon DEF Next

\* Denied depends on the outcome, the state and the disposition alone.
LEMMA DeniedKept ==
  ASSUME gw'.outcome = gw.outcome, db'.state = db.state, db'.disposition = db.disposition, Denied'
  PROVE  Denied
BY Zenon DEF Denied

\* runExec that gives up before the dispatch leaves a command that will not run.
LEMMA NotYet ==
  ASSUME OneStart, gw.pc \in Early, gw'.pc \notin Early, UNCHANGED <<ses, rpc, down, launched>>
  PROVE  WillNotRun'
BY NothingLaunchedYet, Zenon DEF WillNotRun, StartQueued

\* Where runExec denies the command before the dispatch, it will not run.
LEMMA GatewayDenies ==
  ASSUME TypeOK, OneStart, Withdrawn, Gateway, Denied' PROVE (Denied /\ gw.pc # "idle") \/ WillNotRun'
<1>. USE DEF gwOnly, Goto, controlVars, hubVars, streamVars, agentVars, storeVars
<1>0. gw \in Gateways /\ ses \in Sessions /\ db \in Rows BY Zenon DEF TypeOK
<1>1. ASSUME NEW m \in Modes, startExec(m) PROVE FALSE
  <2>1. gw'.outcome = "none" BY <1>0, <1>1, Zenon DEF startExec, Gateways, Withdrawn
  <2>2. db'.state = "submitted" /\ db'.disposition = ""
    BY <1>1, Zenon DEF startExec, CreateExecution, Moved, NoRow
  <2>. QED BY <2>1, <2>2, Zenon DEF Denied, Unused
<1>2. CASE runExec
  <2>1. CASE gw' = [gw EXCEPT !.pc = "finishing", !.outcome = "admission_failed"]
    <3>1. gw.pc \in Early /\ gw'.pc \notin Early
      BY <1>0, <1>2, <2>1, Zenon DEF runExec, Gateways, Early
    <3>. QED BY <1>2, <3>1, NotYet, Zenon DEF runExec
  <2>2. CASE gw'.outcome = gw.outcome BY <1>2, <2>2, DeniedKept, Zenon DEF runExec
  <2>. QED BY <1>0, <1>2, <2>1, <2>2, Zenon DEF runExec, Gateways
<1>3. CASE collectProtectedInput
  BY <1>0, <1>3, DeniedKept, Zenon DEF collectProtectedInput, Gateways
<1>4. CASE collectDeadline BY <1>0, <1>4, DeniedKept, Zenon DEF collectDeadline, Gateways
<1>5. CASE sendPrepare BY <1>0, <1>5, DeniedKept, Zenon DEF sendPrepare, Gateways
<1>6. CASE PrepareExecution BY <1>0, <1>6, Zenon DEF PrepareExecution, Moved, Denied, Gateways, Rows
<1>7. CASE IssueAttach BY <1>0, <1>7, DeniedKept, Zenon DEF IssueAttach, Gateways
<1>8. CASE waitAttached BY <1>0, <1>8, DeniedKept, Zenon DEF waitAttached, Gateways
<1>9. CASE ClaimExecutionDispatch
  BY <1>0, <1>9, Zenon DEF ClaimExecutionDispatch, Moved, Denied, Gateways, Rows
<1>10. CASE SetExecutionSubmission
  BY <1>0, <1>10, DeniedKept, Zenon DEF SetExecutionSubmission, Gateways, Rows
<1>11. CASE Preserve BY <1>0, <1>11, DeniedKept, Zenon DEF Preserve, Gateways
<1>12. CASE Claim BY <1>0, <1>12, Zenon DEF Claim, Moved, Denied, Unused, Gateways, Rows
<1>13. CASE SaveUnusedExecutionReceipt
  <2>1. gw.pc \in Early /\ gw'.pc \notin Early
    BY <1>0, <1>13, Zenon DEF SaveUnusedExecutionReceipt, Gateways, Early
  <2>. QED BY <1>13, <2>1, NotYet, Zenon DEF SaveUnusedExecutionReceipt
<1>14. CASE SaveExecutionReceipt
  BY <1>0, <1>14, DeniedKept, Zenon DEF SaveExecutionReceipt, Gateways
<1>15. CASE Dispatch BY <1>0, <1>15, DeniedKept, Zenon DEF Dispatch, Gateways
<1>16. CASE executeError BY <1>0, <1>16, DeniedKept, Zenon DEF executeError, Gateways, Fallible
<1>. QED
  BY <1>1, <1>2, <1>3, <1>4, <1>5, <1>6, <1>7, <1>8, <1>9, <1>10, <1>11, <1>12, <1>13, <1>14,
     <1>15, <1>16, Zenon
  DEF Gateway

\* Where runExec denies it afterwards, Start was not attempted and the session is done, or
\* the agent reported that it launched nothing.
LEMMA CompletionDenies ==
  ASSUME TypeOK, OneStart, Withdrawn, Completion, Denied' PROVE (Denied /\ gw.pc # "idle") \/ WillNotRun'
<1>. USE DEF gwOnly, Goto, controlVars, hubVars, streamVars, agentVars, storeVars
<1>0. gw \in Gateways /\ ses \in Sessions /\ db \in Rows BY Zenon DEF TypeOK
<1>1. CASE MarkExecutionRunning
  BY <1>0, <1>1, ZenonT(30) DEF MarkExecutionRunning, Moved, Denied, Gateways, Rows
<1>2. CASE waitResult
  <2>1. gw'.outcome = ses.result BY <1>0, <1>2, Zenon DEF waitResult, Gateways
  <2>2. ses.result # "admission_failed" BY <1>0, Zenon DEF Sessions, Results
  <2>3. CASE ses.result = "launch_failed"
    <3>1. ~launched /\ ~StartQueued /\ rpc.send \in Through
      BY <2>3, Zenon DEF OneStart, ToldNothingRan
    <3>. QED BY <1>2, <3>1, Zenon DEF waitResult, WillNotRun, StartQueued, Through
  <2>4. CASE ses.result # "launch_failed"
    BY <1>2, <2>1, <2>2, <2>4, Zenon DEF waitResult, Denied
  <2>. QED BY <2>3, <2>4, Zenon
<1>3. CASE waitDone BY <1>0, <1>3, DeniedKept, Zenon DEF waitDone, Gateways
<1>4. CASE waitRuntime BY <1>0, <1>4, DeniedKept, Zenon DEF waitRuntime, Gateways
<1>5. CASE drain BY <1>0, <1>5, DeniedKept, Zenon DEF drain, Gateways
<1>6. CASE judge
  <2>1. gw'.pc = "abort" BY <1>0, <1>6, Zenon DEF judge, Gateways
  <2>2. CASE ~ses.attempted
    <3>1. ~launched /\ rpc.send # "start" /\ ~StartQueued
      BY <1>6, <2>2, Zenon DEF judge, OneStart, Restarted
    <3>2. ses.done \/ ~ses.dispatch BY <1>6, Zenon DEF judge, Withdrawn
    <3>. QED BY <1>6, <2>1, <3>1, <3>2, Zenon DEF judge, WillNotRun, StartQueued, Early
  <2>3. CASE ses.attempted
    <3>1. gw.meta \in Claimed BY <1>6, <2>3, Zenon DEF judge, OneStart, Withdrawn
    <3>2. gw'.outcome \in {"cancelled", "outcome_unknown"}
      BY <1>0, <1>6, <2>3, <3>1, Zenon DEF judge, Gateways
    <3>3. db' = db BY <1>6, <2>3, Zenon DEF judge
    <3>. QED BY <1>6, <3>2, <3>3, Zenon DEF judge, Denied
  <2>. QED BY <2>2, <2>3, Zenon
<1>7. CASE cancelPreparedExecution
  BY <1>0, <1>7, DeniedKept, Zenon DEF cancelPreparedExecution, Gateways
<1>8. CASE finishExec
  BY <1>0, <1>8, Zenon DEF finishExec, FinishExecution, Denied, Gateways, Rows
<1>9. CASE Remove
  <2>1. gw'.outcome = "none" BY <1>9, Zenon DEF Remove, NoGateway
  <2>. QED BY <1>9, <2>1, Zenon DEF Remove, Denied
<1>. QED BY <1>1, <1>2, <1>3, <1>4, <1>5, <1>6, <1>7, <1>8, <1>9, Zenon DEF Completion

\* What a loss of power leaves of a row: what is on the disk, and a state between that and
\* the last one written.
LEMMA SurvivorFields ==
  ASSUME NEW row \in Rows, NEW survivor \in Survivors(row)
  PROVE  /\ survivor.synced = row.synced /\ survivor.enhanced = row.enhanced
         /\ survivor.restarted = row.restarted
         /\ survivor.disposition \in {row.disposition, "", "consumed_dispatch"}
         /\ survivor = row \/ \E i \in 1..5 : i \in At(row.synced)..At(row.past) /\ survivor.state = Chain[i]
<1>1. ASSUME NEW d \in {row.disposition, "", "consumed_dispatch"}, survivor \in Earlier(row, d)
      PROVE  /\ survivor.synced = row.synced /\ survivor.enhanced = row.enhanced
             /\ survivor.restarted = row.restarted /\ survivor.disposition = d
             /\ \E i \in 1..5 : i \in At(row.synced)..At(row.past) /\ survivor.state = Chain[i]
  <2>1. PICK i \in 1..5 : i \in At(row.synced)..At(row.past) /\ survivor = SetBack(row, i, d)
    BY <1>1, EarlierRows, Zenon
  <2>2. /\ survivor.synced = row.synced /\ survivor.enhanced = row.enhanced
        /\ survivor.restarted = row.restarted /\ survivor.disposition = d /\ survivor.state = Chain[i]
    BY <2>1, Zenon DEF SetBack, Moved, Rows
  <2>. QED BY <2>1, <2>2, Zenon
<1>. QED BY <1>1, Zenon DEF Survivors

\* ReconcileExecutions denies nothing: it knows cancelled and outcome_unknown only.
LEMMA EnvironmentDenies ==
  ASSUME TypeOK, Environment, Denied' PROVE Denied
<1>. USE DEF envOnly, controlVars, hubVars, streamVars, agentVars, storeVars
<1>1. CASE Revoke BY <1>1, DeniedKept, Zenon DEF Revoke
<1>2. CASE PreparationExpires BY <1>2, DeniedKept, Zenon DEF PreparationExpires
<1>3. CASE StreamLost BY <1>3, DeniedKept, Zenon DEF StreamLost
<1>4. ASSUME NEW power \in BOOLEAN, Crash(power) PROVE Denied
  <2>0. db \in Rows BY Zenon DEF TypeOK
  <2>1. PICK row \in IF power THEN Survivors(db) ELSE {db} :
          db' = ReconcileExecutions(row, IF power THEN "power" ELSE "crash")
    BY <1>4, Zenon DEF Crash
  <2>2. row \in Rows BY <2>0, SurvivorType, Zenon
  <2>3. row.disposition \in Unused => db.disposition \in Unused
    BY <2>0, SurvivorFields, ZenonT(30) DEF Unused
  <2>4. row.state \in {"admission_failed", "launch_failed"} => row.state = db.state
    BY <2>0, SurvivorFields, ChainValues, ZenonT(30)
  <2>5. db'.disposition = row.disposition BY <2>1, <2>2, Zenon DEF ReconcileExecutions, Rows
  <2>6. db'.state \in {"admission_failed", "launch_failed"} => db'.state = row.state
    BY <2>1, <2>2, Zenon DEF ReconcileExecutions, Rows
  <2>7. gw'.outcome = "none" BY <1>4, Zenon DEF Crash, NoGateway
  <2>. QED BY <2>3, <2>4, <2>5, <2>6, <2>7, Zenon DEF Denied
<1>. QED BY <1>1, <1>2, <1>3, <1>4, Zenon DEF Environment

\* Every step keeps SaysItNeverRan.
LEMMA NextDenies ==
  ASSUME TypeOK, OneStart, Withdrawn, RowFollows, SaysItNeverRan, Next PROVE SaysItNeverRan'
<1>. USE DEF StoreState
<1>. SUFFICES ASSUME Denied' PROVE WillNotRun' BY Zenon DEF SaysItNeverRan
<1>. SUFFICES (Denied /\ gw.pc # "idle") \/ WillNotRun'
  BY WillNotRunStays, Zenon DEF SaysItNeverRan
<1>0. Denied => gw.pc # "idle" BY Zenon DEF Denied, RowFollows, Withdrawn, Unused
<1>1. CASE Gateway BY <1>1, GatewayDenies, Zenon
<1>2. CASE Completion BY <1>2, CompletionDenies, Zenon
<1>3. CASE Watching BY <1>0, <1>3, WatchingKeeps, DeniedKept, Zenon
<1>4. CASE Relaying BY <1>0, <1>4, RelayingKeeps, DeniedKept, Zenon
<1>5. CASE Sending BY <1>0, <1>5, SendingKeeps, DeniedKept, Zenon
<1>6. CASE Receiving BY <1>0, <1>6, ReceivingKeeps, DeniedKept, Zenon
<1>7. ASSUME NEW g \in Generations, Control(g) PROVE Denied
  BY <1>7, ControlKeeps, DeniedKept, Zenon
<1>8. ASSUME NEW g \in Generations, Agent(g) PROVE Denied BY <1>8, AgentKeeps, DeniedKept, Zenon
<1>9. CASE Environment BY <1>0, <1>9, EnvironmentDenies, Zenon
<1>. QED BY <1>0, <1>1, <1>2, <1>3, <1>4, <1>5, <1>6, <1>7, <1>8, <1>9, Zenon DEF Next

-----------------------------------------------------------------------------
(* The row and the archive.                                                *)

\* A step that writes neither the row nor the archive, and dispatches nothing, keeps RowFollows.
LEMMA RowFollowsKept ==
  ASSUME RowFollows, gw'.pc = gw.pc, gw'.mode = gw.mode, ses'.dispatch = ses.dispatch,
         launched' => launched \/ ses.dispatch, UNCHANGED <<db, archived>>
  PROVE  RowFollows'
BY ZenonT(30) DEF RowFollows

\* Up to the dispatch runExec writes the row ahead of what it does.
LEMMA GatewayRow == ASSUME TypeOK, OneStart, RowFollows, Gateway PROVE RowFollows'
<1>. USE DEF gwOnly, Goto, controlVars, hubVars, streamVars, agentVars, storeVars
<1>0. gw \in Gateways /\ ses \in Sessions /\ db \in Rows BY Zenon DEF TypeOK
<1>a. gw.pc \in Early => ~launched /\ ~ses.dispatch BY NothingLaunchedYet, Zenon
<1>1. ASSUME NEW m \in Modes, startExec(m) PROVE RowFollows'
  <2>1. gw'.pc = "submitted" /\ gw'.mode = m /\ ~ses'.dispatch /\ ~launched'
    BY <1>0, <1>a, <1>1, Zenon DEF startExec, Gateways, NoSession, Early
  <2>2. db'.restarted = "no" /\ db'.enhanced = (m = "enhanced")
    BY <1>1, Zenon DEF startExec, CreateExecution, Moved, NoRow
  <2>. QED BY <2>1, <2>2, Zenon DEF RowFollows
<1>2. CASE runExec BY <1>0, <1>a, <1>2, ZenonT(30) DEF runExec, Gateways, RowFollows, Early
<1>3. CASE collectProtectedInput
  BY <1>0, <1>a, <1>3, Zenon DEF collectProtectedInput, Gateways, RowFollows, Early
<1>4. CASE collectDeadline
  BY <1>0, <1>a, <1>4, CancelFields, Zenon DEF collectDeadline, Gateways, RowFollows, Early
<1>5. CASE sendPrepare BY <1>0, <1>a, <1>5, Zenon DEF sendPrepare, Gateways, RowFollows, Early
<1>6. CASE PrepareExecution
  BY <1>0, <1>a, <1>6, Zenon DEF PrepareExecution, Moved, Gateways, Rows, RowFollows, Early
<1>7. CASE IssueAttach
  BY <1>0, <1>a, <1>7, ZenonT(30) DEF IssueAttach, Gateways, Sessions, RowFollows, Early
<1>8. CASE waitAttached BY <1>0, <1>a, <1>8, Zenon DEF waitAttached, Gateways, RowFollows, Early
<1>9. CASE ClaimExecutionDispatch
  BY <1>0, <1>a, <1>9, ZenonT(30)
  DEF ClaimExecutionDispatch, Moved, Gateways, Rows, RowFollows, Early
<1>10. CASE SetExecutionSubmission
  BY <1>0, <1>a, <1>10, Zenon DEF SetExecutionSubmission, Gateways, Rows, RowFollows, Early
<1>11. CASE Preserve BY <1>0, <1>a, <1>11, ZenonT(30) DEF Preserve, Gateways, RowFollows, Early
<1>12. CASE Claim
  BY <1>0, <1>a, <1>12, ZenonT(30) DEF Claim, Moved, Gateways, Rows, RowFollows, Early
<1>13. CASE SaveUnusedExecutionReceipt
  BY <1>0, <1>a, <1>13, Zenon DEF SaveUnusedExecutionReceipt, Gateways, Rows, RowFollows, Early
<1>14. CASE SaveExecutionReceipt
  BY <1>0, <1>a, <1>14, ZenonT(30) DEF SaveExecutionReceipt, Gateways, RowFollows, Early
<1>15. CASE Dispatch
  BY <1>0, <1>a, <1>15, ZenonT(30) DEF Dispatch, Gateways, Sessions, RowFollows, Early
<1>16. CASE executeError
  BY <1>0, <1>a, <1>16, ZenonT(30) DEF executeError, Gateways, RowFollows, Early, Fallible
<1>. QED
  BY <1>1, <1>2, <1>3, <1>4, <1>5, <1>6, <1>7, <1>8, <1>9, <1>10, <1>11, <1>12, <1>13, <1>14,
     <1>15, <1>16, Zenon
  DEF Gateway

\* After the dispatch the row goes on to running or to an outcome.
LEMMA CompletionRow == ASSUME TypeOK, RowFollows, Completion PROVE RowFollows'
<1>. USE DEF gwOnly, Goto, controlVars, hubVars, streamVars, agentVars, storeVars
<1>0. gw \in Gateways /\ ses \in Sessions /\ db \in Rows BY Zenon DEF TypeOK
<1>1. CASE MarkExecutionRunning
  <2>1. /\ gw'.pc # "idle" /\ gw'.pc \notin {"over", "claim", "consume", "admitted", "dispatch"}
        /\ gw'.mode = gw.mode /\ gw.pc # "over"
    BY <1>0, <1>1, Zenon DEF MarkExecutionRunning, Gateways
  <2>2. ses'.dispatch = ses.dispatch
    BY <1>0, <1>1, CancelFields, ZenonT(30) DEF MarkExecutionRunning
  <2>3. /\ db'.restarted = db.restarted /\ db'.enhanced = db.enhanced /\ db'.synced = db.synced
        /\ db'.state \in {db.state, "running"}
    BY <1>0, <1>1, Zenon DEF MarkExecutionRunning, Moved, Rows
  <2>4. UNCHANGED <<launched, archived>> BY <1>1, Zenon DEF MarkExecutionRunning
  <2>. QED BY <2>1, <2>2, <2>3, <2>4, ZenonT(30) DEF RowFollows
<1>2. CASE waitResult BY <1>0, <1>2, Zenon DEF waitResult, Gateways, RowFollows
<1>3. CASE waitDone BY <1>0, <1>3, Zenon DEF waitDone, Gateways, RowFollows
<1>4. CASE waitRuntime BY <1>0, <1>4, CancelFields, Zenon DEF waitRuntime, Gateways, RowFollows
<1>5. CASE drain BY <1>0, <1>5, Zenon DEF drain, Gateways, RowFollows
<1>6. CASE judge
  <2>1. /\ db'.state = db.state /\ db'.restarted = db.restarted /\ db'.enhanced = db.enhanced
        /\ db'.synced = db.synced
    BY <1>0, <1>6, Zenon DEF judge, MarkExecutionAdmissionUnused, Rows
  <2>2. gw'.pc = "abort" /\ gw'.mode = gw.mode /\ gw.pc = "failing"
    BY <1>0, <1>6, Zenon DEF judge, Gateways
  <2>. QED BY <1>6, <2>1, <2>2, Zenon DEF judge, RowFollows
<1>7. CASE cancelPreparedExecution
  BY <1>0, <1>7, CancelFields, ZenonT(30) DEF cancelPreparedExecution, Gateways, RowFollows
<1>8. CASE finishExec
  <2>1. /\ db'.restarted = db.restarted /\ db'.enhanced = db.enhanced /\ db'.synced = db.synced
        /\ db'.state \in {db.state, gw.outcome}
    BY <1>0, <1>8, Zenon DEF finishExec, FinishExecution, Rows
  <2>2. gw.outcome \notin {"submitted", "prepared"} BY <1>0, Zenon DEF Gateways, Finals
  <2>3. gw'.pc = "close" /\ gw'.mode = gw.mode /\ gw.pc = "finishing"
    BY <1>0, <1>8, Zenon DEF finishExec, Gateways
  <2>. QED BY <1>8, <2>1, <2>2, <2>3, Zenon DEF finishExec, RowFollows
<1>9. CASE Remove
  <2>. DEFINE c == Cancel(ses, "other")
  <2>1. c \in Sessions /\ c.dispatch = ses.dispatch BY <1>0, CancelFields, Zenon
  <2>2. ses' = [c EXCEPT !.registered = FALSE] BY <1>9, Zenon DEF Remove
  <2>3. ses'.dispatch = ses.dispatch
    <3>. HIDE DEF c
    <3>. QED BY <2>1, <2>2, Zenon DEF Sessions
  <2>4. gw'.pc = "over" /\ gw'.mode = gw.mode /\ gw.pc = "close"
    BY <1>9, Zenon DEF Remove, NoGateway
  <2>. QED BY <1>9, <2>3, <2>4, Zenon DEF Remove, RowFollows
<1>. QED BY <1>1, <1>2, <1>3, <1>4, <1>5, <1>6, <1>7, <1>8, <1>9, Zenon DEF Completion

\* What ReconcileExecutions writes: an outcome for an unfinished row, nothing for another.
LEMMA ReconcileFields ==
  ASSUME NEW row \in Rows, NEW how \in {"crash", "power"}
  PROVE  LET r == ReconcileExecutions(row, how) IN
         /\ r.enhanced = row.enhanced /\ r.synced = row.synced
         /\ r.state \in Finals \cup {"none"}
         /\ \/ r = row
            \/ /\ r.restarted = how /\ row.state \in Stages \ {"none"}
               /\ r.state = IF row.state \in Claimed THEN "outcome_unknown" ELSE "cancelled"
BY Zenon DEF ReconcileExecutions, Rows, Finals, Stages

\* After a restart the row has an outcome, or is not there at all.
LEMMA EnvironmentRow == ASSUME TypeOK, RowFollows, Environment PROVE RowFollows'
<1>. USE DEF envOnly, controlVars, hubVars, streamVars, agentVars, storeVars
<1>1. CASE Revoke BY <1>1, RowFollowsKept, Zenon DEF Revoke
<1>2. CASE PreparationExpires BY <1>2, RowFollowsKept, Zenon DEF PreparationExpires
<1>3. CASE StreamLost BY <1>3, RowFollowsKept, Zenon DEF StreamLost
<1>4. ASSUME NEW power \in BOOLEAN, Crash(power) PROVE RowFollows'
  <2>0. db \in Rows BY Zenon DEF TypeOK
  <2>1. PICK row \in IF power THEN Survivors(db) ELSE {db} :
          db' = ReconcileExecutions(row, IF power THEN "power" ELSE "crash")
    BY <1>4, Zenon DEF Crash
  <2>2. row \in Rows BY <2>0, SurvivorType, Zenon
  <2>3. row.synced = db.synced /\ row.enhanced = db.enhanced BY <2>0, SurvivorFields, Zenon
  <2>4. db'.synced = row.synced /\ db'.enhanced = row.enhanced /\ db'.state \in Finals \cup {"none"}
    BY <2>1, <2>2, ReconcileFields, Zenon
  <2>5. gw'.pc = "over" /\ gw'.mode = gw.mode /\ ~ses'.dispatch
    BY <1>4, Zenon DEF Crash, NoGateway, NoSession
  <2>. QED BY <1>4, <2>3, <2>4, <2>5, ZenonT(30) DEF Crash, RowFollows, Finals
<1>. QED BY <1>1, <1>2, <1>3, <1>4, Zenon DEF Environment

\* Every step keeps RowFollows.
LEMMA NextRow == ASSUME TypeOK, OneStart, RowFollows, Next PROVE RowFollows'
<1>. USE DEF StoreState
<1>0. StartQueued => ses.dispatch BY Zenon DEF OneStart
<1>1. CASE Gateway BY <1>1, GatewayRow, Zenon
<1>2. CASE Completion BY <1>2, CompletionRow, Zenon
<1>3. CASE Watching BY <1>3, WatchingKeeps, RowFollowsKept
<1>4. CASE Relaying BY <1>4, RelayingKeeps, RowFollowsKept
<1>5. CASE Sending BY <1>5, SendingKeeps, RowFollowsKept
<1>6. CASE Receiving BY <1>6, ReceivingKeeps, RowFollowsKept
<1>7. ASSUME NEW g \in Generations, Control(g) PROVE RowFollows'
  BY <1>7, ControlKeeps, RowFollowsKept, Zenon
<1>8. ASSUME NEW g \in Generations, Agent(g) PROVE RowFollows'
  BY <1>0, <1>8, AgentKeeps, RowFollowsKept, Zenon
<1>9. CASE Environment BY <1>9, EnvironmentRow, Zenon
<1>. QED BY <1>1, <1>2, <1>3, <1>4, <1>5, <1>6, <1>7, <1>8, <1>9, Zenon DEF Next

-----------------------------------------------------------------------------
(* The outputs: their layers, and the steps that move no frame.            *)

\* Neither cancelled nor restarted.
Undisturbed == ~ses.done /\ gw.pc # "over"

\* Where a message is on a stream.
Places(s, m) == {i \in 1..Len(s) : s[i] = m}
Frames(o) == Places(up, Msg("frame", o))

\* The account of an output; its end is behind its frames.
Flow(o) ==
  /\ out[o].made = out[o].written + out[o].queue + Cardinality(Frames(o))
  /\ out[o].eof => out[o].ended /\ Frames(o) = {}
  /\ \A i \in Places(up, Msg("eof", o)) : out[o].ended /\ \A j \in Frames(o) : j < i

\* Before startExec there is no session, no stream and no message about either.
Fresh ==
  gw.pc = "idle" =>
    /\ ~ses.registered /\ ~ses.done /\ rpc.handler = "off" /\ rpc.stream = "none"
    /\ \A g \in Generations : /\ toAgent[g] = <<>> /\ fromAgent[g] \in {<<>>, <<"caps">>}
                              /\ agent[g] \in {"off", "idle", "over"}
    /\ \A o \in Outputs : out[o].relay = "off"

\* While the receiver may receive, every account is even; a result that says the command
\* exited found every output ended and nothing left on the stream.
Flowing ==
  /\ rpc.stream = "none" => up = <<>> /\ rpc.handler = "off"
  /\ rpc.handler = "off" => rpc.recv = "off"
  /\ ses.result # "none" => rpc.recv \in {"nil", "over"}
  /\ Undisturbed /\ rpc.recv \in {"off", "on"} => \A o \in Outputs : Flow(o)
  /\ Undisturbed /\ ses.result = "exited" =>
       \A o \in Outputs : out[o].ended /\ out[o].eof /\ out[o].made = out[o].written + out[o].queue

AllOver == \A o \in Outputs : out[o].relay = "over"
\* A relay that ended undisturbed has written its queue.
Relayed == Undisturbed => \A o \in Outputs : out[o].relay = "over" => out[o].eof /\ out[o].queue = 0

\* runExec reports the session's result, an exit only after every relay ended.
Reported ==
  /\ gw.pc = "drain" => gw.outcome = ses.result /\ ses.result # "none"
  /\ gw.pc = "abort" => gw.outcome # "exited"
  /\ gw.pc = "finishing" /\ gw.outcome = "exited" /\ ~ses.done => ses.result = "exited" /\ AllOver
  /\ db.state = "exited" => gw.pc \in {"close", "over"}
  /\ gw.pc = "close" /\ db.state = "exited" /\ ~ses.done => ses.result = "exited" /\ AllOver

DInv == IInv /\ Fresh /\ Flowing /\ Relayed /\ Reported

\* startExec is the first step of runExec, and it never comes back there.
LEMMA GatewayMoves == ASSUME TypeOK, Gateway \/ Completion PROVE gw'.pc # "idle"
<1>. USE DEF Goto
<1>0. gw \in Gateways BY Zenon DEF TypeOK
<1>1. ASSUME NEW m \in Modes, startExec(m) PROVE gw'.pc # "idle"
  BY <1>0, <1>1, ZenonT(30) DEF startExec, Gateways
<1>2. CASE runExec \/ collectProtectedInput \/ collectDeadline \/ sendPrepare
  BY <1>0, <1>2, ZenonT(30)
  DEF runExec, collectProtectedInput, collectDeadline, sendPrepare, Gateways
<1>3. CASE PrepareExecution \/ IssueAttach \/ waitAttached \/ ClaimExecutionDispatch
  BY <1>0, <1>3, ZenonT(30)
  DEF PrepareExecution, IssueAttach, waitAttached, ClaimExecutionDispatch, Gateways
<1>4. CASE SetExecutionSubmission \/ Preserve \/ Claim \/ SaveUnusedExecutionReceipt
  BY <1>0, <1>4, ZenonT(30)
  DEF SetExecutionSubmission, Preserve, Claim, SaveUnusedExecutionReceipt, Gateways
<1>5. CASE SaveExecutionReceipt \/ Dispatch \/ executeError
  BY <1>0, <1>5, ZenonT(30) DEF SaveExecutionReceipt, Dispatch, executeError, Gateways
<1>6. CASE MarkExecutionRunning \/ waitResult \/ waitDone \/ waitRuntime
  BY <1>0, <1>6, ZenonT(30) DEF MarkExecutionRunning, waitResult, waitDone, waitRuntime, Gateways
<1>7. CASE drain \/ judge \/ cancelPreparedExecution \/ finishExec
  BY <1>0, <1>7, ZenonT(30) DEF drain, judge, cancelPreparedExecution, finishExec, Gateways
<1>8. CASE Remove BY <1>8, Zenon DEF Remove, NoGateway
<1>. QED BY <1>1, <1>2, <1>3, <1>4, <1>5, <1>6, <1>7, <1>8, Zenon DEF Gateway, Completion

\* Before startExec only the control connection moves.
LEMMA NextFresh == ASSUME IInv, Fresh, Flowing, Next PROVE Fresh'
<1>. USE DEF controlVars, hubVars, streamVars, agentVars, storeVars
<1>0. TypeOK /\ OneStart /\ Withdrawn BY Zenon DEF IInv
<1>1. CASE Gateway \/ Completion BY <1>0, <1>1, GatewayMoves, Zenon DEF Fresh
<1>2. CASE gw.pc # "idle" /\ ~(Gateway \/ Completion)
  <2>1. gw'.pc = gw.pc \/ gw'.pc = "over"
    <3>1. ASSUME NEW power \in BOOLEAN, Crash(power) PROVE gw'.pc = "over"
      BY <3>1, Zenon DEF Crash, NoGateway
    <3>2. CASE Revoke \/ PreparationExpires \/ StreamLost
      BY <3>2, Zenon DEF Revoke, PreparationExpires, StreamLost, envOnly
    <3>. QED
      BY <1>0, <1>2, <3>1, <3>2, WatchingKeeps, RelayingKeeps, SendingKeeps, ReceivingKeeps,
         ControlKeeps, AgentKeeps, Zenon
      DEF Next, Environment
  <2>. QED BY <1>2, <2>1, Zenon DEF Fresh
<1>3. CASE gw.pc = "idle" /\ ~(Gateway \/ Completion)
  <2>0. /\ ~ses.registered /\ ~ses.done /\ rpc.handler = "off" /\ rpc.stream = "none"
        /\ \A g \in Generations : /\ toAgent[g] = <<>> /\ fromAgent[g] \in {<<>>, <<"caps">>}
                                  /\ agent[g] \in {"off", "idle", "over"}
        /\ \A o \in Outputs : out[o].relay = "off"
    BY <1>3, Zenon DEF Fresh
  <2>1. watch = "off" /\ rpc.send = "off" /\ rpc.recv = "off"
    BY <1>0, <1>3, <2>0, Zenon DEF Withdrawn, OneStart, Flowing
  <2>2. ~Watching BY <2>1, Zenon DEF Watching, watchExecution, watchEnd
  <2>3. ~Relaying BY <1>3, <2>0, ZenonT(30) DEF Relaying, inputFailed, relayWrite, relayEnd
  <2>4. ~Sending
    BY <2>0, <2>1, Zenon
    DEF Sending, Attach, sendAttached, dequeueStart, sendProtectedScript, beforeStart,
        attemptStart, sendStart, senderEnds
  <2>5. ~Receiving
    BY <2>0, <2>1, Zenon
    DEF Receiving, Arrived, receiveStarted, receiveStartFailed, receiveResult, receiverEnds,
        receiveOutput, receiveEOF, ExecuteReturns
  <2>6. ~Environment
    BY <1>3, <2>0, Zenon DEF Environment, Revoke, PreparationExpires, StreamLost, Startable, Crash
  <2>7. Head(<<"caps">>) = "caps" /\ Tail(<<"caps">>) = <<>> OBVIOUS
  <2>8. ASSUME NEW g \in Generations, Control(g) PROVE Fresh'
    <3>1. toAgent \in [Generations -> Seq({"prepare", "attach", "cancel"})]
          /\ fromAgent \in [Generations -> Seq({"caps", "prepared", "refused"})] /\ agent \in [Generations -> Phases]
      BY <1>0, Zenon DEF TypeOK
    <3>2. CASE Connect(g)
      <4>1. \A h \in Generations : fromAgent'[h] \in {<<>>, <<"caps">>} /\ agent'[h] \in {"off", "idle", "over"}
        BY <2>0, <3>1, <3>2, Zenon DEF Connect
      <4>. QED BY <2>0, <3>2, <4>1, Zenon DEF Connect, Fresh
    <3>3. CASE SetCapabilities(g)
      <4>1. fromAgent[g] = <<"caps">> BY <2>0, <3>3, Zenon DEF SetCapabilities
      <4>2. fromAgent' = [fromAgent EXCEPT ![g] = <<>>]
        BY <2>7, <3>3, <4>1, Zenon DEF SetCapabilities
      <4>3. \A h \in Generations : fromAgent'[h] \in {<<>>, <<"caps">>}
        BY <2>0, <3>1, <4>2, Zenon
      <4>4. ses' = ses BY <2>0, <3>3, Zenon DEF SetCapabilities
      <4>. QED BY <2>0, <3>3, <4>3, <4>4, Zenon DEF SetCapabilities, Fresh
    <3>4. CASE onAgentDisconnected(g)
      <4>1. \A h \in Generations : fromAgent'[h] \in {<<>>, <<"caps">>}
        BY <2>0, <3>1, <3>4, Zenon DEF onAgentDisconnected
      <4>. QED BY <2>0, <3>4, <4>1, Zenon DEF onAgentDisconnected, Fresh
    <3>5. ~DeliverPrepared(g)
      <4>1. SUFFICES ASSUME fromAgent[g] # <<>>, Head(fromAgent[g]) \in {"prepared", "refused"}
                     PROVE  FALSE
        BY Zenon DEF DeliverPrepared
      <4>2. fromAgent[g] = <<"caps">> BY <2>0, <4>1, Zenon
      <4>. QED BY <2>7, <4>1, <4>2, Zenon
    <3>. QED BY <2>8, <3>2, <3>3, <3>4, <3>5, Zenon DEF Control
  <2>9. ASSUME NEW g \in Generations, Agent(g) PROVE Fresh'
    <3>1. agentEnds(g)
      BY <2>0, <2>9, ZenonT(30)
      DEF Agent, handlePrepare, handleAttach, handleCancel, handleAttached, handleStart, sendResult,
                        serveEnds, processWrites, processEOF
    <3>2. toAgent \in [Generations -> Seq({"prepare", "attach", "cancel"})] /\ agent \in [Generations -> Phases]
      BY <1>0, Zenon DEF TypeOK
    <3>3. \A h \in Generations : toAgent'[h] = <<>> /\ agent'[h] \in {"off", "idle", "over"}
      BY <2>0, <3>1, <3>2, Zenon DEF agentEnds, Becomes
    <3>4. rpc' = rpc BY <2>0, <3>1, Zenon DEF agentEnds
    <3>. QED BY <2>0, <3>1, <3>3, <3>4, Zenon DEF agentEnds, Fresh
  <2>. QED BY <1>3, <2>2, <2>3, <2>4, <2>5, <2>6, <2>8, <2>9, Zenon DEF Next
<1>. QED BY <1>1, <1>2, <1>3, Zenon

\* The step leaves the output's data alone (its relay may move).
SameOutput(o) ==
  /\ out'[o].made = out[o].made /\ out'[o].ended = out[o].ended /\ out'[o].queue = out[o].queue
  /\ out'[o].eof = out[o].eof /\ out'[o].written = out[o].written

\* An output that neither the process, the receiver nor the relay touches keeps its account.
LEMMA FlowKept ==
  ASSUME NEW o \in Outputs, Flow(o), SameOutput(o), up' = up PROVE Flow(o)'
<1>1. Frames(o)' = Frames(o) BY Zenon DEF Frames
<1>2. Places(up, Msg("eof", o))' = Places(up, Msg("eof", o)) BY Zenon
<1>. QED BY <1>1, <1>2, Zenon DEF Flow, SameOutput

\* A step that touches no output, no message and no result keeps Flowing.
LEMMA FlowingKept ==
  ASSUME Flowing, ses.done => ses'.done, ses'.result = ses.result, gw'.pc # "over" => gw.pc # "over",
         up' = up, rpc'.recv = rpc.recv, rpc'.handler = "off" => rpc.handler = "off",
         rpc'.stream = "none" => rpc.stream = "none" /\ rpc'.handler = rpc.handler,
         \A o \in Outputs : SameOutput(o)
  PROVE  Flowing'
<1>1. Undisturbed' => Undisturbed BY Zenon DEF Undisturbed
<1>2. (\A o \in Outputs : Flow(o)) => \A o \in Outputs : Flow(o)' BY FlowKept, Zenon
<1>3. ASSUME Undisturbed', ses'.result = "exited"
      PROVE  \A o \in Outputs : out'[o].ended /\ out'[o].eof /\ out'[o].made = out'[o].written + out'[o].queue
  BY <1>1, <1>3, Zenon DEF Flowing, SameOutput
<1>. QED BY <1>1, <1>2, <1>3, Zenon DEF Flowing

\* Messages of different kinds, or about different outputs, differ.
LEMMA Messages ==
  /\ \A o, q : Msg("frame", o) # Msg("eof", q)
  /\ \A o, q : o # q => Msg("frame", o) # Msg("frame", q) /\ Msg("eof", o) # Msg("eof", q)
  /\ \A t, a, o : t \notin {"frame", "eof"} => Msg(t, a) # Msg("frame", o) /\ Msg(t, a) # Msg("eof", o)
  /\ \A m \in Ups : m = Msg(m.t, m.arg)
  /\ \A t, a : Msg(t, a).t = t
<1>1. \A t, a : Msg(t, a).t = t /\ Msg(t, a).arg = a BY Zenon DEF Msg
<1>2. \A o, q : Msg("frame", o) # Msg("eof", q) BY <1>1
<1>3. \A o, q : o # q => Msg("frame", o) # Msg("frame", q) /\ Msg("eof", o) # Msg("eof", q) BY <1>1
<1>4. ASSUME NEW t, NEW a, NEW o, t \notin {"frame", "eof"}
      PROVE  Msg(t, a) # Msg("frame", o) /\ Msg(t, a) # Msg("eof", o)
  BY <1>1, <1>4, SMTT(30)
<1>5. ASSUME NEW m \in Ups PROVE m = Msg(m.t, m.arg) BY <1>5, ZenonT(30) DEF Ups, Msg
<1>. QED BY <1>1, <1>2, <1>3, <1>4, <1>5, Zenon

\* runExec touches no output's data, and a result only where startExec makes the session.
LEMMA GatewayOutputs ==
  ASSUME TypeOK, Gateway \/ Completion
  PROVE  /\ UNCHANGED <<rpc, up>>
         /\ \A o \in Outputs : SameOutput(o)
         /\ \/ ses'.result = ses.result /\ (ses.done => ses'.done) /\ gw.pc # "idle"
            \/ ses'.result = "none" /\ ~ses'.done /\ gw.pc = "idle"
         /\ gw'.pc # "over" => gw.pc # "over"
<1>. USE DEF gwOnly, Goto, controlVars, hubVars, streamVars, agentVars, storeVars
<1>0. ses \in Sessions /\ gw \in Gateways /\ out \in [Outputs -> Pipes] BY Zenon DEF TypeOK
<1>1. UNCHANGED <<rpc, up>>
  BY ZenonT(30)
  DEF Gateway, Completion, startExec, runExec, collectProtectedInput, collectDeadline, sendPrepare,
         PrepareExecution, IssueAttach, waitAttached, ClaimExecutionDispatch, SetExecutionSubmission,
         Preserve, Claim, SaveUnusedExecutionReceipt, SaveExecutionReceipt, Dispatch, executeError,
         MarkExecutionRunning, waitResult, waitDone, waitRuntime, drain, judge, cancelPreparedExecution,
         finishExec, Remove
<1>2. out' = out \/ Dispatch
  BY Zenon
  DEF Gateway, Completion, startExec, runExec, collectProtectedInput, collectDeadline, sendPrepare,
         PrepareExecution, IssueAttach, waitAttached, ClaimExecutionDispatch, SetExecutionSubmission,
         Preserve, Claim, SaveUnusedExecutionReceipt, SaveExecutionReceipt, executeError,
         MarkExecutionRunning, waitResult, waitDone, waitRuntime, drain, judge, cancelPreparedExecution,
         finishExec, Remove
<1>3. \A o \in Outputs : SameOutput(o)
  <2>1. CASE out' = out BY <2>1, Zenon DEF SameOutput
  <2>2. CASE Dispatch
    <3>. SUFFICES ASSUME NEW o \in Outputs PROVE SameOutput(o) BY Zenon
    <3>1. out[o] \in Pipes /\ out'[o] = [out[o] EXCEPT !.relay = "copy"]
      BY <1>0, <2>2, Zenon DEF Dispatch
    <3>. QED BY <3>1, Zenon DEF SameOutput, Pipes
  <2>. QED BY <1>2, <2>1, <2>2, Zenon
<1>4. \/ (ses' = ses \/ ses' = Cancel(ses, "other") \/ IssueAttach \/ Dispatch \/ Remove) /\ gw.pc \notin {"idle", "over"}
      \/ \E m \in Modes : startExec(m)
  BY ZenonT(30)
  DEF Gateway, Completion, runExec, collectProtectedInput, collectDeadline, sendPrepare,
         PrepareExecution, waitAttached, ClaimExecutionDispatch, SetExecutionSubmission,
         Preserve, Claim, SaveUnusedExecutionReceipt, SaveExecutionReceipt, executeError,
         MarkExecutionRunning, waitResult, waitDone, waitRuntime, drain, judge, cancelPreparedExecution,
         finishExec, IssueAttach, Dispatch, Remove, Fallible
<1>5. CASE IssueAttach \/ Dispatch
  <2>1. ses'.result = ses.result /\ ses'.done = ses.done
    BY <1>0, <1>5, ZenonT(30) DEF IssueAttach, Dispatch, Sessions
  <2>2. gw.pc \notin {"idle", "over"} BY <1>5, Zenon DEF IssueAttach, Dispatch
  <2>. QED BY <1>1, <1>3, <2>1, <2>2, Zenon
<1>6. CASE Remove
  <2>. DEFINE c == Cancel(ses, "other")
  <2>1. c \in Sessions /\ c.result = ses.result /\ c.done BY <1>0, CancelFields, Zenon
  <2>2. ses' = [c EXCEPT !.registered = FALSE] /\ gw.pc = "close" BY <1>6, Zenon DEF Remove
  <2>3. ses'.result = ses.result /\ ses'.done
    <3>. HIDE DEF c
    <3>. QED BY <2>1, <2>2, Zenon DEF Sessions
  <2>. QED BY <1>1, <1>3, <2>2, <2>3, Zenon
<1>7. ASSUME NEW m \in Modes, startExec(m) PROVE ses'.result = "none" /\ ~ses'.done /\ gw.pc = "idle"
  BY <1>7, Zenon DEF startExec, NoSession
<1>. QED BY <1>0, <1>1, <1>3, <1>4, <1>5, <1>6, <1>7, CancelFields, ZenonT(30)

\* runExec keeps Flowing.
LEMMA GatewayFlowing == ASSUME TypeOK, Fresh, Flowing, Gateway \/ Completion PROVE Flowing'
<1>1. CASE gw.pc # "idle" BY <1>1, GatewayOutputs, FlowingKept, Zenon
<1>2. CASE gw.pc = "idle"
  <2>1. Undisturbed BY <1>2, Zenon DEF Fresh, Undisturbed
  <2>2. UNCHANGED <<rpc, up>> /\ ses'.result = "none" /\ \A o \in Outputs : SameOutput(o)
    BY <1>2, GatewayOutputs, Zenon
  <2>3. (\A o \in Outputs : Flow(o)) => \A o \in Outputs : Flow(o)' BY <2>2, FlowKept, Zenon
  <2>. QED BY <2>1, <2>2, <2>3, Zenon DEF Flowing
<1>. QED BY <1>1, <1>2, Zenon

\* watchExecution keeps Flowing.
LEMMA WatchingFlowing == ASSUME TypeOK, Flowing, Watching PROVE Flowing'
<1>. USE DEF controlVars, hubVars, streamVars, agentVars, storeVars
<1>0. ses \in Sessions BY Zenon DEF TypeOK
<1>1. UNCHANGED <<out, up>> /\ ses' \in {ses, Cancel(ses, "other")}
  BY Zenon DEF Watching, watchExecution, watchEnd
<1>2. ses'.result = ses.result BY <1>0, <1>1, CancelFields, ZenonT(30)
<1>. QED BY <1>1, <1>2, WatchingKeeps, FlowingKept, Zenon DEF SameOutput

\* A relay that writes a frame moves it from the queue to the channel; one that fails
\* cancels the session.
LEMMA RelayingFlowing == ASSUME TypeOK, Flowing, Relaying PROVE Flowing'
<1>. USE DEF relayOnly, controlVars, hubVars, streamVars, agentVars, storeVars
<1>0. ses \in Sessions /\ out \in [Outputs -> Pipes] BY Zenon DEF TypeOK
<1>1. CASE inputFailed
  <2>1. ses'.result = ses.result /\ ses'.done BY <1>0, <1>1, CancelFields, Zenon DEF inputFailed
  <2>. QED BY <1>1, <2>1, FlowingKept, Zenon DEF inputFailed, SameOutput
<1>2. ASSUME NEW o \in Outputs, relayEnd(o) PROVE Flowing'
  <2>1. \A q \in Outputs : SameOutput(q)
    <3>. SUFFICES ASSUME NEW q \in Outputs PROVE SameOutput(q) BY Zenon
    <3>1. out[q] \in Pipes /\ out'[q] \in {out[q], [out[q] EXCEPT !.relay = "over"]}
      BY <1>0, <1>2, Zenon DEF relayEnd
    <3>. QED BY <3>1, Zenon DEF SameOutput, Pipes
  <2>. QED BY <1>2, <2>1, FlowingKept, Zenon DEF relayEnd
<1>3. ASSUME NEW o \in Outputs, relayWrite(o) PROVE Flowing'
  <2>1. UNCHANGED <<up, rpc, gw>> /\ out[o] \in Pipes /\ out[o].queue > 0
    BY <1>0, <1>3, Zenon DEF relayWrite
  <2>2. CASE ses' = Cancel(ses, "other")
    <3>1. ses'.done /\ ses'.result = ses.result BY <1>0, <2>2, CancelFields, Zenon
    <3>. QED BY <2>1, <3>1, Zenon DEF Flowing, Undisturbed
  <2>3. CASE ses' = ses /\ out' = [out EXCEPT ![o].queue = @ - 1, ![o].written = @ + 1]
    <3>. DEFINE p == out[o]
                n == out'[o]
    <3>0. /\ p.queue \in Nat /\ p.written \in Nat /\ p.queue > 0 BY <2>1 DEF Pipes
    <3>1. /\ n.made = p.made /\ n.ended = p.ended /\ n.eof = p.eof
          /\ n.queue = p.queue - 1 /\ n.written = p.written + 1
      BY <1>0, <2>3, Zenon DEF Pipes
    <3>2. n.written + n.queue = p.written + p.queue
      <4>. DEFINE a == p.queue
                  b == p.written
                  c == n.queue
                  d == n.written
      <4>1. a \in Nat /\ b \in Nat /\ c = a - 1 /\ d = b + 1 BY <3>0, <3>1, Zenon
      <4>. HIDE DEF a, b, c, d
      <4>2. d + c = b + a BY <4>1
      <4>. QED BY <4>2, Zenon DEF a, b, c, d
    <3>3. \A q \in Outputs : q # o => SameOutput(q) BY <1>0, <2>3, Zenon DEF SameOutput
    <3>4. ASSUME NEW q \in Outputs, Flow(q) PROVE Flow(q)'
      <4>1. CASE q # o BY <2>1, <3>3, <3>4, <4>1, FlowKept, Zenon
      <4>2. CASE q = o
        <5>1. Frames(o)' = Frames(o) BY <2>1, Zenon DEF Frames
        <5>2. Places(up, Msg("eof", o))' = Places(up, Msg("eof", o)) BY <2>1, Zenon
        <5>3. n.made = (n.written + n.queue) + Cardinality(Frames(o)')
          BY <3>1, <3>2, <3>4, <4>2, <5>1, Zenon DEF Flow
        <5>. QED BY <3>1, <3>4, <4>2, <5>1, <5>2, <5>3, Zenon DEF Flow
      <4>. QED BY <4>1, <4>2, Zenon
    <3>5. ASSUME Undisturbed, ses.result = "exited", NEW q \in Outputs
          PROVE  out'[q].ended /\ out'[q].eof /\ out'[q].made = out'[q].written + out'[q].queue
      <4>1. out[q].ended /\ out[q].eof /\ out[q].made = out[q].written + out[q].queue
        BY <3>5, Zenon DEF Flowing
      <4>2. CASE q # o BY <3>3, <4>1, <4>2, Zenon DEF SameOutput
      <4>3. CASE q = o BY <3>1, <3>2, <4>1, <4>3, Zenon
      <4>. QED BY <4>2, <4>3, Zenon
    <3>6. Undisturbed' = Undisturbed BY <2>1, <2>3, Zenon DEF Undisturbed
    <3>7. (Undisturbed /\ ses.result = "exited")' => 
            \A q \in Outputs : (out[q].ended /\ out[q].eof /\ out[q].made = out[q].written + out[q].queue)'
      BY <2>3, <3>5, <3>6, Zenon
    <3>8. (Undisturbed /\ rpc.recv \in {"off", "on"})' => \A q \in Outputs : Flow(q)'
      BY <2>1, <3>4, <3>6, Zenon DEF Flowing
    <3>. QED BY <2>1, <2>3, <3>7, <3>8, Zenon DEF Flowing
  <2>. QED BY <1>3, <2>2, <2>3, Zenon DEF relayWrite
<1>. QED BY <1>1, <1>2, <1>3, Zenon DEF Relaying

\* A message that is neither a frame nor an end is no frame and no end of any output.
LEMMA AttachHead ==
  ASSUME TypeOK, NEW o, up # <<>>, Head(up).t \notin {"frame", "eof"}
  PROVE  Head(up) # Msg("frame", o) /\ Head(up) # Msg("eof", o)
BY DEF Msg

\* The control stream keeps Flowing.
LEMMA ControlFlowing == ASSUME TypeOK, Flowing, NEW g \in Generations, Control(g) PROVE Flowing'
<1>. USE DEF controlVars, hubVars, streamVars, agentVars, storeVars
<1>0. ses \in Sessions BY Zenon DEF TypeOK
<1>1. UNCHANGED <<out, up>>
  BY Zenon DEF Control, Connect, SetCapabilities, onAgentDisconnected, DeliverPrepared
<1>2. ses' \in {ses, Cancel(ses, "other")} \/ \E v \in {"ok", "error"} : ses' = [ses EXCEPT !.prepared = v]
  BY Zenon DEF Control, Connect, SetCapabilities, onAgentDisconnected, DeliverPrepared
<1>3. ASSUME NEW v, ses' = [ses EXCEPT !.prepared = v] PROVE ses'.result = ses.result
  BY <1>0, <1>3, Zenon DEF Sessions
<1>4. ses'.result = ses.result BY <1>0, <1>2, <1>3, CancelFields, ZenonT(30)
<1>. QED BY <1>1, <1>4, ControlKeeps, FlowingKept, Zenon DEF SameOutput

\* The receiver's return drops what is left on the stream.
LEMMA ReturnsFields ==
  ASSUME TypeOK, rpc.recv = "on", NEW how \in {"nil", "error"}, Returns(how)
  PROVE  /\ rpc'.handler = rpc.handler /\ rpc'.stream = rpc.stream /\ up' = <<>>
         /\ rpc'.recv \in {how, "over"}
<1>1. rpc \in Rpcs BY Zenon DEF TypeOK
<1>. QED BY <1>1, Zenon DEF Returns, Ended, Rpcs

\* A receiver that returns an error leaves no result.
LEMMA ReceiverGivesUp ==
  ASSUME TypeOK, Flowing, rpc.recv = "on", Returns("error"), ses'.result = ses.result
  PROVE  Flowing'
<1>1. rpc'.handler = rpc.handler /\ rpc'.stream = rpc.stream /\ up' = <<>> /\ rpc'.recv \in {"error", "over"}
  BY ReturnsFields, Zenon
<1>2. ses.result = "none" /\ rpc.handler # "off" BY Zenon DEF Flowing
<1>. QED BY <1>1, <1>2, Zenon DEF Flowing

\* A restart of the Hub disturbs the execution.
LEMMA EnvironmentFlowing == ASSUME TypeOK, Flowing, Environment PROVE Flowing'
<1>. USE DEF envOnly, controlVars, hubVars, streamVars, agentVars, storeVars
<1>1. CASE Revoke \/ PreparationExpires
  BY <1>1, FlowingKept, Zenon DEF Revoke, PreparationExpires, SameOutput
<1>2. CASE StreamLost
  <2>0. rpc \in Rpcs BY Zenon DEF TypeOK
  <2>1. rpc'.recv = rpc.recv /\ rpc'.handler = rpc.handler /\ rpc'.stream = "cut"
    BY <2>0, <1>2, Zenon DEF StreamLost, Rpcs
  <2>. QED BY <1>2, <2>1, FlowingKept, Zenon DEF StreamLost, SameOutput
<1>3. ASSUME NEW power \in BOOLEAN, Crash(power) PROVE Flowing'
  <2>1. /\ rpc'.handler = "over" /\ rpc'.stream = "cut" /\ ses'.result = "none" /\ gw'.pc = "over"
    BY <1>3, Zenon DEF Crash, NoSession, NoGateway
  <2>. QED BY <2>1, Zenon DEF Flowing, Undisturbed
<1>. QED BY <1>1, <1>2, <1>3, Zenon DEF Environment

\* A step that ends no relay and adds nothing to a queue keeps Relayed.
LEMMA RelayedKept ==
  ASSUME Relayed, ses.done => ses'.done, gw'.pc # "over" => gw.pc # "over",
         \A o \in Outputs : out'[o].relay = "over" =>
           out[o].relay = "over" /\ (out[o].eof => out'[o].eof) /\ out'[o].queue = out[o].queue
  PROVE  Relayed'
BY Zenon DEF Relayed, Undisturbed

\* runExec touches a relay only at the dispatch, where all of them start.
LEMMA RelayStays ==
  ASSUME TypeOK, Gateway \/ Completion
  PROVE  out' = out \/ (gw.pc = "dispatch" /\ \A o \in Outputs : out'[o].relay = "copy")
<1>. USE DEF gwOnly, controlVars, hubVars, streamVars, agentVars, storeVars
<1>0. out \in [Outputs -> Pipes] BY Zenon DEF TypeOK
<1>1. out' = out \/ Dispatch
  BY Zenon
  DEF Gateway, Completion, startExec, runExec, collectProtectedInput, collectDeadline, sendPrepare,
         PrepareExecution, IssueAttach, waitAttached, ClaimExecutionDispatch, SetExecutionSubmission,
         Preserve, Claim, SaveUnusedExecutionReceipt, SaveExecutionReceipt, executeError,
         MarkExecutionRunning, waitResult, waitDone, waitRuntime, drain, judge, cancelPreparedExecution,
         finishExec, Remove
<1>2. Dispatch => gw.pc = "dispatch" /\ \A o \in Outputs : out'[o].relay = "copy"
  BY <1>0 DEF Dispatch, Pipes
<1>. QED BY <1>1, <1>2, Zenon

\* Every step keeps Relayed: a relay that ends with its context ends a session that is done,
\* and an output that ended takes no more frames.
LEMMA NextRelayed == ASSUME IInv, Fresh, Flowing, Relayed, Next PROVE Relayed'
<1>. USE DEF controlVars, hubVars, streamVars, agentVars, storeVars
<1>0. TypeOK /\ Withdrawn BY Zenon DEF IInv
<1>a. ses \in Sessions /\ out \in [Outputs -> Pipes] /\ rpc \in Rpcs BY <1>0, Zenon DEF TypeOK
<1>b. ASSUME out' = out, ses.done => ses'.done, gw'.pc # "over" => gw.pc # "over" PROVE Relayed'
  BY <1>b, RelayedKept, Zenon
<1>1. CASE Gateway \/ Completion
  <2>1. CASE gw.pc = "idle"
    <3>1. \A o \in Outputs : out'[o].relay # "over"
      BY <1>0, <1>1, <2>1, RelayStays, Zenon DEF Fresh
    <3>. QED BY <3>1, Zenon DEF Relayed
  <2>2. CASE gw.pc # "idle"
    <3>1. (ses.done => ses'.done) /\ (gw'.pc # "over" => gw.pc # "over")
      BY <1>0, <1>1, <2>2, GatewayOutputs, Zenon
    <3>2. CASE out' = out BY <1>b, <3>1, <3>2, Zenon
    <3>3. CASE \A o \in Outputs : out'[o].relay = "copy" BY <3>3, Zenon DEF Relayed
    <3>. QED BY <1>0, <1>1, <3>2, <3>3, RelayStays, Zenon
  <2>. QED BY <2>1, <2>2, Zenon
<1>2. CASE Watching
  <2>1. out' = out BY <1>2, Zenon DEF Watching, watchExecution, watchEnd
  <2>. QED BY <1>0, <1>2, <1>b, <2>1, WatchingKeeps, Zenon
<1>3. CASE Relaying
  <2>1. CASE inputFailed
    <3>1. out' = out BY <2>1, Zenon DEF inputFailed
    <3>. QED BY <1>0, <1>3, <1>b, <3>1, RelayingKeeps, Zenon
  <2>2. ASSUME NEW o \in Outputs, relayWrite(o) PROVE Relayed'
    <3>1. CASE ses' = Cancel(ses, "other")
      <4>1. ses'.done BY <1>a, <3>1, CancelFields, Zenon
      <4>. QED BY <4>1, Zenon DEF Relayed, Undisturbed
    <3>2. CASE out' = [out EXCEPT ![o].queue = @ - 1, ![o].written = @ + 1] /\ ses' = ses
      <4>1. out'[o].relay = "copy" BY <1>a, <2>2, <3>2, SMTT(30) DEF relayWrite, Pipes
      <4>2. \A q \in Outputs : q # o => out'[q] = out[q] BY <1>a, <3>2, Zenon
      <4>3. gw' = gw BY <2>2, Zenon DEF relayWrite, relayOnly
      <4>. QED BY <3>2, <4>1, <4>2, <4>3, RelayedKept, Zenon
    <3>. QED BY <2>2, <3>1, <3>2, Zenon DEF relayWrite
  <2>3. ASSUME NEW o \in Outputs, relayEnd(o) PROVE Relayed'
    <3>1. ses' = ses /\ gw' = gw /\ out' = [out EXCEPT ![o].relay = "over"]
      BY <2>3, Zenon DEF relayEnd, relayOnly
    <3>2. CASE gw.ctx BY <1>0, <3>1, <3>2, Zenon DEF Withdrawn, Relayed, Undisturbed
    <3>3. CASE out[o].eof /\ out[o].queue = 0
      <4>1. out'[o].eof /\ out'[o].queue = 0 BY <1>a, <3>1, <3>3, Zenon DEF Pipes
      <4>2. \A q \in Outputs : q # o => out'[q] = out[q] BY <1>a, <3>1, Zenon
      <4>. QED BY <3>1, <4>1, <4>2, Zenon DEF Relayed, Undisturbed
    <3>. QED BY <2>3, <3>2, <3>3, Zenon DEF relayEnd
  <2>. QED BY <1>3, <2>1, <2>2, <2>3, Zenon DEF Relaying
<1>4. CASE Sending
  <2>1. out' = out
    BY <1>4, Zenon
    DEF Sending, Attach, sendAttached, dequeueStart, sendProtectedScript, beforeStart,
        attemptStart, sendStart, senderEnds
  <2>. QED BY <1>0, <1>4, <1>b, <2>1, SendingKeeps, Zenon
<1>5. CASE Receiving
  <2>0. (ses.done => ses'.done) /\ gw' = gw BY <1>0, <1>5, ReceivingKeeps, Zenon
  <2>1. CASE out' = out BY <1>b, <2>0, <2>1, Zenon
  <2>2. CASE out' = [o \in Outputs |-> [out[o] EXCEPT !.eof = TRUE]]
    <3>1. \A o \in Outputs : out'[o].eof /\ out'[o].relay = out[o].relay /\ out'[o].queue = out[o].queue
      BY <1>a, <2>2, Zenon DEF Pipes
    <3>. QED BY <2>0, <3>1, RelayedKept, Zenon
  <2>3. ASSUME NEW o \in Outputs, out' = [out EXCEPT ![o].eof = TRUE] PROVE Relayed'
    <3>1. out'[o].eof /\ out'[o].relay = out[o].relay /\ out'[o].queue = out[o].queue
      BY <1>a, <2>3, Zenon DEF Pipes
    <3>2. \A q \in Outputs : q # o => out'[q] = out[q] BY <1>a, <2>3, Zenon
    <3>. QED BY <2>0, <3>1, <3>2, RelayedKept, Zenon
  <2>4. ASSUME NEW o \in Outputs, ~out[o].eof, out' = [out EXCEPT ![o].queue = @ + 1] PROVE Relayed'
    <3>1. out'[o].relay = out[o].relay BY <1>a, <2>4, Zenon DEF Pipes
    <3>2. \A q \in Outputs : q # o => out'[q] = out[q] BY <1>a, <2>4, Zenon
    <3>3. Undisturbed' => Undisturbed BY <2>0, Zenon DEF Undisturbed
    <3>. QED BY <2>4, <3>1, <3>2, <3>3, Zenon DEF Relayed
  <2>5. \/ out' = out \/ out' = [o \in Outputs |-> [out[o] EXCEPT !.eof = TRUE]]
        \/ \E o \in Outputs : \/ out' = [out EXCEPT ![o].eof = TRUE]
                              \/ ~out[o].eof /\ out' = [out EXCEPT ![o].queue = @ + 1]
    BY <1>5, Zenon
    DEF Receiving, receiveStarted, receiveStartFailed, receiveResult, receiverEnds,
        receiveOutput, receiveEOF, ExecuteReturns
  <2>. QED BY <2>1, <2>2, <2>3, <2>4, <2>5, Zenon
<1>6. ASSUME NEW g \in Generations, Control(g) PROVE Relayed'
  <2>1. out' = out
    BY <1>6, Zenon DEF Control, Connect, SetCapabilities, onAgentDisconnected, DeliverPrepared
  <2>. QED BY <1>0, <1>6, <1>b, <2>1, ControlKeeps, Zenon
<1>7. ASSUME NEW g \in Generations, Agent(g) PROVE Relayed'
  <2>0. UNCHANGED <<ses, gw>> BY <1>0, <1>7, AgentKeeps, Zenon
  <2>1. \/ out' = out
        \/ \E o \in Outputs : \/ out' = [out EXCEPT ![o].made = @ + 1] \/ out' = [out EXCEPT ![o].ended = TRUE]
    BY <1>7, ZenonT(30)
    DEF Agent, handlePrepare, handleAttach, handleCancel, handleAttached, handleStart, sendResult,
                serveEnds, agentEnds, processWrites, processEOF, agentOnly
  <2>2. ASSUME NEW o \in Outputs, out' = [out EXCEPT ![o].made = @ + 1] \/ out' = [out EXCEPT ![o].ended = TRUE]
        PROVE  Relayed'
    <3>1. out'[o].eof = out[o].eof /\ out'[o].relay = out[o].relay /\ out'[o].queue = out[o].queue
      BY <1>a, <2>2 DEF Pipes
    <3>2. \A q \in Outputs : q # o => out'[q] = out[q] BY <1>a, <2>2, Zenon
    <3>. QED BY <2>0, <3>1, <3>2, RelayedKept, Zenon
  <2>. QED BY <1>b, <2>0, <2>1, <2>2, Zenon
<1>8. CASE Environment
  <2>1. CASE Revoke \/ PreparationExpires \/ StreamLost
    BY <1>b, <2>1, Zenon DEF Revoke, PreparationExpires, StreamLost, envOnly
  <2>2. ASSUME NEW power \in BOOLEAN, Crash(power) PROVE Relayed'
    <3>1. gw'.pc = "over" BY <2>2, Zenon DEF Crash, NoGateway
    <3>. QED BY <3>1, Zenon DEF Relayed, Undisturbed
  <2>. QED BY <1>8, <2>1, <2>2, Zenon DEF Environment
<1>. QED BY <1>1, <1>2, <1>3, <1>4, <1>5, <1>6, <1>7, <1>8, Zenon DEF Next

\* A step that touches neither runExec nor the row, and no result that is there, keeps Reported.
LEMMA ReportedKept ==
  ASSUME Reported, ses.done => ses'.done, ses'.result = ses.result \/ ses.result = "none",
         gw'.pc = gw.pc, gw'.outcome = gw.outcome, db' = db,
         \A o \in Outputs : out[o].relay = "over" => out'[o].relay = "over"
  PROVE  Reported'
<1>1. AllOver => AllOver' BY Zenon DEF AllOver
<1>. QED BY <1>1, Zenon DEF Reported

\* Before the dispatch runExec reports no exit.
LEMMA GatewayReports ==
  ASSUME TypeOK, Gateway
  PROVE  /\ gw.pc \notin {"close", "over"} /\ gw'.pc \notin {"drain", "abort", "close"}
         /\ gw'.pc = "finishing" => gw'.outcome = "admission_failed"
         /\ db'.state = "exited" => db.state = "exited"
<1>. USE DEF Goto, gwOnly, controlVars, hubVars, streamVars, agentVars, storeVars
<1>0. gw \in Gateways /\ db \in Rows BY Zenon DEF TypeOK
<1>1. ASSUME NEW m \in Modes, startExec(m)
      PROVE  gw.pc = "idle" /\ gw'.pc = "submitted" /\ db'.state = "submitted"
  BY <1>0, <1>1, ZenonT(30) DEF startExec, Gateways, CreateExecution, Moved, NoRow
<1>2. CASE runExec
  <2>1. gw.pc = "submitted" /\ db' = db BY <1>2, Zenon DEF runExec
  <2>2. gw'.pc \in {"collect", "prepare"} \/ (gw'.pc = "finishing" /\ gw'.outcome = "admission_failed")
    BY <1>0, <1>2, ZenonT(30) DEF runExec, Gateways
  <2>. QED BY <2>1, <2>2, Zenon
<1>3. CASE collectProtectedInput \/ collectDeadline \/ sendPrepare \/ IssueAttach
  BY <1>0, <1>3, ZenonT(30)
  DEF collectProtectedInput, collectDeadline, sendPrepare, IssueAttach, Gateways
<1>4. CASE waitAttached \/ Preserve \/ SaveExecutionReceipt \/ Dispatch
  BY <1>0, <1>4, ZenonT(30) DEF waitAttached, Preserve, SaveExecutionReceipt, Dispatch, Gateways
<1>5. CASE executeError BY <1>0, <1>5, ZenonT(30) DEF executeError, Fallible, Gateways
<1>6. CASE PrepareExecution \/ ClaimExecutionDispatch \/ Claim
  <2>1. gw.pc \notin {"close", "over"} /\ gw'.pc \in {"issue", "dispatch", "admitted"}
    BY <1>0, <1>6, ZenonT(30) DEF PrepareExecution, ClaimExecutionDispatch, Claim, Gateways
  <2>2. db'.state \in {"prepared", "dispatching"}
    BY <1>0, <1>6, ZenonT(30) DEF PrepareExecution, ClaimExecutionDispatch, Claim, Moved, Rows
  <2>. QED BY <2>1, <2>2, Zenon
<1>7. CASE SetExecutionSubmission \/ SaveUnusedExecutionReceipt
  <2>1. gw.pc \notin {"close", "over"} /\ gw'.pc \in {"preserve", "failing"}
    BY <1>0, <1>7, ZenonT(30) DEF SetExecutionSubmission, SaveUnusedExecutionReceipt, Gateways
  <2>2. db'.state = db.state
    BY <1>0, <1>7, ZenonT(30) DEF SetExecutionSubmission, SaveUnusedExecutionReceipt, Rows
  <2>. QED BY <2>1, <2>2, Zenon
<1>. QED BY <1>1, <1>2, <1>3, <1>4, <1>5, <1>6, <1>7, Zenon DEF Gateway

\* The layers depend on the variables of the specification alone.
LEMMA OutputsStutter ==
  ASSUME Fresh, Flowing, Relayed, Reported, UNCHANGED vars
  PROVE  Fresh' /\ Flowing' /\ Relayed' /\ Reported'
<1>. USE DEF vars, controlVars, hubVars, streamVars, agentVars, storeVars
<1>1. Fresh' BY Zenon DEF Fresh
<1>2. Flowing' BY FlowingKept, Zenon DEF SameOutput
<1>3. Relayed' BY RelayedKept, Zenon
<1>4. Reported' BY ReportedKept, Zenon
<1>. QED BY <1>1, <1>2, <1>3, <1>4, Zenon

-----------------------------------------------------------------------------
(* Revocation, restarts and the theorems.                                  *)

\* A step that reads no authority and attempts nothing keeps Revoked.
LEMMA RevokedKept ==
  ASSUME Revoked, world' = world, ses'.attempted => ses.attempted, launched' => launched,
         rpc'.send = rpc.send \/ rpc'.send \notin {"attempt", "start"}
  PROVE  Revoked'
BY Zenon DEF Revoked

\* runExec never marks an attempt; only the sender does.
LEMMA SessionAttempts ==
  ASSUME TypeOK, Gateway \/ Completion
  PROVE  (ses'.attempted => ses.attempted) /\ UNCHANGED <<rpc, launched, world>>
<1>. USE DEF gwOnly, Goto, controlVars, hubVars, streamVars, agentVars, storeVars
<1>0. ses \in Sessions BY Zenon DEF TypeOK
<1>1. UNCHANGED <<rpc, launched, world>>
  BY Zenon
  DEF Gateway, Completion, startExec, runExec, collectProtectedInput, collectDeadline, sendPrepare,
         PrepareExecution, IssueAttach, waitAttached, ClaimExecutionDispatch, SetExecutionSubmission,
         Preserve, Claim, SaveUnusedExecutionReceipt, SaveExecutionReceipt, Dispatch, executeError,
         MarkExecutionRunning, waitResult, waitDone, waitRuntime, drain, judge, cancelPreparedExecution,
         finishExec, Remove
<1>2. \/ ses' = ses \/ ses' = Cancel(ses, "other") \/ IssueAttach \/ Dispatch \/ Remove
      \/ \E m \in Modes : startExec(m)
  BY Zenon
  DEF Gateway, Completion, runExec, collectProtectedInput, collectDeadline, sendPrepare,
      PrepareExecution, waitAttached, ClaimExecutionDispatch, SetExecutionSubmission, Preserve,
      Claim, SaveUnusedExecutionReceipt, SaveExecutionReceipt, executeError,
      MarkExecutionRunning, waitResult, waitDone, waitRuntime, drain, judge,
      cancelPreparedExecution, finishExec
<1>3. CASE IssueAttach \/ Dispatch BY <1>0, <1>3, <1>1, Zenon DEF IssueAttach, Dispatch, Sessions
<1>4. CASE Remove
  <2>. DEFINE c == Cancel(ses, "other")
  <2>1. c \in Sessions /\ c.attempted = ses.attempted BY <1>0, CancelFields, Zenon
  <2>2. ses' = [c EXCEPT !.registered = FALSE] BY <1>4, Zenon DEF Remove
  <2>3. ses'.attempted = ses.attempted
    <3>. HIDE DEF c
    <3>. QED BY <2>1, <2>2, Zenon DEF Sessions
  <2>. QED BY <1>1, <2>3, Zenon
<1>5. ASSUME NEW m \in Modes, startExec(m) PROVE ~ses'.attempted
  BY <1>5, Zenon DEF startExec, NoSession
<1>. QED BY <1>0, <1>1, <1>2, <1>3, <1>4, <1>5, CancelFields, ZenonT(30)

\* beforeStart refuses once authority is withdrawn, so that no attempt follows.
LEMMA SendingRevoked == ASSUME TypeOK, OneStart, Revoked, Sending PROVE Revoked'
<1>. USE DEF rpcOnly, controlVars, hubVars, streamVars, agentVars, storeVars
<1>0. ses \in Sessions /\ rpc \in Rpcs BY Zenon DEF TypeOK
<1>1. CASE Attach
  <2>1. ses'.attempted = ses.attempted BY <1>0, <1>1, Zenon DEF Attach, Sessions
  <2>2. rpc'.send \in {rpc.send, "attach"} BY <1>0, <1>1, Zenon DEF Attach, Rpcs
  <2>. QED BY <1>1, <2>1, <2>2, RevokedKept, Zenon DEF Attach
<1>2. CASE sendAttached
  <2>1. ses'.attempted = ses.attempted BY <1>0, <1>2, Zenon DEF sendAttached, Sessions
  <2>2. rpc'.send = "queue" BY <1>2, SendsFields, Zenon DEF sendAttached, Ended
  <2>. QED BY <1>2, <2>1, <2>2, RevokedKept, Zenon DEF sendAttached
<1>3. CASE dequeueStart
  <2>1. ses'.attempted = ses.attempted BY <1>0, <1>3, Zenon DEF dequeueStart, Sessions
  <2>2. rpc'.send \in {"error", "over", "script", "check"}
    BY <1>3, SendsFields, Zenon DEF dequeueStart, Ended
  <2>. QED BY <1>3, <2>1, <2>2, RevokedKept, Zenon DEF dequeueStart
<1>4. CASE sendProtectedScript
  <2>2. rpc'.send \in {"error", "over", "check"}
    BY <1>4, SendsFields, Zenon DEF sendProtectedScript, Ended
  <2>. QED BY <1>4, <2>2, RevokedKept, Zenon DEF sendProtectedScript
<1>5. CASE beforeStart
  <2>1. CASE world.early
    <3>1. Sends("error") BY <1>5, <2>1, Zenon DEF beforeStart, Revoked
    <3>2. rpc'.send \in {"error", "over"} BY <3>1, SendsFields, Zenon DEF Ended
    <3>. QED BY <1>5, <3>2, RevokedKept, Zenon DEF beforeStart
  <2>2. CASE ~world.early BY <1>5, <2>2, Zenon DEF beforeStart, Revoked
  <2>. QED BY <2>1, <2>2, Zenon
<1>6. CASE attemptStart BY <1>6, Zenon DEF attemptStart, Revoked
<1>7. CASE sendStart BY <1>7, Zenon DEF sendStart, Revoked
<1>8. CASE senderEnds
  <2>1. rpc'.send \in {"nil", "error", "over"} BY <1>8, SendsFields, Zenon DEF senderEnds, Ended
  <2>. QED BY <1>8, <2>1, RevokedKept, Zenon DEF senderEnds
<1>. QED BY <1>1, <1>2, <1>3, <1>4, <1>5, <1>6, <1>7, <1>8, Zenon DEF Sending

\* Authority that is withdrawn early finds nothing attempted.
LEMMA EnvironmentRevoked == ASSUME TypeOK, OneStart, Revoked, Environment PROVE Revoked'
<1>. USE DEF envOnly, controlVars, hubVars, streamVars, agentVars, storeVars
<1>0. rpc \in Rpcs /\ world \in [revoked : BOOLEAN, early : BOOLEAN, expired : BOOLEAN]
  BY Zenon DEF TypeOK
<1>1. CASE Revoke
  <2>1. world'.revoked /\ (world'.early => rpc.send # "attempt") BY <1>0, <1>1, Zenon DEF Revoke
  <2>2. ~ses.attempted /\ ses.registered BY <1>1, Zenon DEF Revoke, Startable
  <2>3. ~launched /\ rpc.send # "start" BY <2>2, Zenon DEF OneStart, Restarted
  <2>. QED BY <1>1, <2>1, <2>2, <2>3, Zenon DEF Revoke, Revoked
<1>2. CASE PreparationExpires
  <2>1. world'.revoked = world.revoked /\ world'.early = world.early
    BY <1>0, <1>2, Zenon DEF PreparationExpires
  <2>. QED BY <1>2, <2>1, Zenon DEF PreparationExpires, Revoked
<1>3. CASE StreamLost
  <2>1. rpc'.send = rpc.send BY <1>0, <1>3, Zenon DEF StreamLost, Rpcs
  <2>. QED BY <1>3, <2>1, RevokedKept, Zenon DEF StreamLost
<1>4. ASSUME NEW power \in BOOLEAN, Crash(power) PROVE Revoked'
  <2>1. rpc'.send = "off" /\ ~ses'.attempted BY <1>4, Zenon DEF Crash, NoSession
  <2>. QED BY <1>4, <2>1, RevokedKept, Zenon DEF Crash
<1>. QED BY <1>1, <1>2, <1>3, <1>4, Zenon DEF Environment

\* Every step keeps Revoked.
LEMMA NextRevoked == ASSUME TypeOK, OneStart, Revoked, Next PROVE Revoked'
<1>. USE DEF StoreState
<1>1. CASE Gateway \/ Completion BY <1>1, SessionAttempts, RevokedKept
<1>3. CASE Watching BY <1>3, WatchingKeeps, RevokedKept
<1>4. CASE Relaying BY <1>4, RelayingKeeps, RevokedKept
<1>5. CASE Sending BY <1>5, SendingRevoked, Zenon
<1>6. CASE Receiving BY <1>6, ReceivingKeeps, RevokedKept
<1>7. ASSUME NEW g \in Generations, Control(g) PROVE Revoked'
  BY <1>7, ControlKeeps, RevokedKept, Zenon
<1>8. ASSUME NEW g \in Generations, Agent(g) PROVE Revoked'
  <2>1. StartQueued => ~world.early BY Zenon DEF OneStart, Revoked
  <2>. QED BY <1>8, <2>1, AgentKeeps, Zenon DEF Revoked
<1>9. CASE Environment BY <1>9, EnvironmentRevoked, Zenon
<1>. QED BY <1>1, <1>3, <1>4, <1>5, <1>6, <1>7, <1>8, <1>9, Zenon DEF Next

\* A step that writes no row and launches nothing keeps RestartKnows.
LEMMA RestartKept ==
  ASSUME RestartKnows, launched' => launched, db' = db PROVE RestartKnows'
BY Zenon DEF RestartKnows

\* While runExec writes the row it is not over.
LEMMA RowWriters ==
  ASSUME TypeOK, Gateway \/ Completion PROVE db' = db \/ gw'.pc # "over"
<1>. USE DEF gwOnly, Goto, controlVars, hubVars, streamVars, agentVars, storeVars
<1>0. gw \in Gateways BY Zenon DEF TypeOK
<1>1. \/ db' = db \/ PrepareExecution \/ ClaimExecutionDispatch \/ SetExecutionSubmission \/ Claim
      \/ SaveUnusedExecutionReceipt \/ MarkExecutionRunning \/ judge \/ finishExec
      \/ \E m \in Modes : startExec(m)
  BY Zenon
  DEF Gateway, Completion, runExec, collectProtectedInput, collectDeadline, sendPrepare,
      IssueAttach, waitAttached, Preserve, SaveExecutionReceipt, Dispatch, executeError,
      waitResult, waitDone, waitRuntime, drain, cancelPreparedExecution, Remove
<1>2. CASE PrepareExecution BY <1>0, <1>2, Zenon DEF PrepareExecution, Gateways
<1>3. CASE ClaimExecutionDispatch BY <1>0, <1>3, Zenon DEF ClaimExecutionDispatch, Gateways
<1>4. CASE SetExecutionSubmission BY <1>0, <1>4, Zenon DEF SetExecutionSubmission, Gateways
<1>5. CASE Claim BY <1>0, <1>5, Zenon DEF Claim, Gateways
<1>6. CASE SaveUnusedExecutionReceipt BY <1>0, <1>6, Zenon DEF SaveUnusedExecutionReceipt, Gateways
<1>7. CASE MarkExecutionRunning BY <1>0, <1>7, Zenon DEF MarkExecutionRunning, Gateways
<1>8. CASE judge BY <1>0, <1>8, Zenon DEF judge, Gateways
<1>9. CASE finishExec BY <1>0, <1>9, Zenon DEF finishExec, Gateways
<1>10. ASSUME NEW m \in Modes, startExec(m) PROVE gw'.pc # "over"
  BY <1>0, <1>10, Zenon DEF startExec, Gateways
<1>. QED BY <1>1, <1>2, <1>3, <1>4, <1>5, <1>6, <1>7, <1>8, <1>9, <1>10, Zenon

\* Every step keeps RestartKnows.  After a crash the row is the last one written: a launch
\* followed the claim.  After a loss of power an Enhanced row is at least the claim, which is
\* on the disk.
LEMMA NextRestart ==
  ASSUME TypeOK, OneStart, RowFollows, RowFollows', RestartKnows, Next PROVE RestartKnows'
<1>. USE DEF StoreState
<1>1. CASE Gateway \/ Completion
  <2>1. CASE gw'.pc # "over" BY <2>1, Zenon DEF RowFollows, RestartKnows
  <2>2. CASE db' = db BY <1>1, <2>2, SessionAttempts, RestartKept
  <2>. QED BY <1>1, <2>1, <2>2, RowWriters, Zenon
<1>3. CASE Watching BY <1>3, WatchingKeeps, RestartKept
<1>4. CASE Relaying BY <1>4, RelayingKeeps, RestartKept
<1>5. CASE Sending BY <1>5, SendingKeeps, RestartKept
<1>6. CASE Receiving BY <1>6, ReceivingKeeps, RestartKept
<1>7. ASSUME NEW g \in Generations, Control(g) PROVE RestartKnows'
  BY <1>7, ControlKeeps, RestartKept, Zenon
<1>8. ASSUME NEW g \in Generations, Agent(g) PROVE RestartKnows'
  <2>1. StartQueued => db.restarted = "no" BY Zenon DEF OneStart, RowFollows
  <2>. QED BY <1>8, <2>1, AgentKeeps, Zenon DEF RestartKnows
<1>9. CASE Revoke \/ PreparationExpires \/ StreamLost
  BY <1>9, RestartKept DEF Revoke, PreparationExpires, StreamLost, envOnly, agentVars
<1>10. ASSUME NEW power \in BOOLEAN, Crash(power) PROVE RestartKnows'
  <2>. DEFINE how == IF power THEN "power" ELSE "crash"
  <2>0. db \in Rows BY Zenon DEF TypeOK
  <2>1. PICK row \in IF power THEN Survivors(db) ELSE {db} : db' = ReconcileExecutions(row, how)
    BY <1>10, Zenon DEF Crash
  <2>2. row \in Rows /\ how \in {"crash", "power"} BY <2>0, SurvivorType, Zenon
  <2>3. launched' = launched BY <1>10, Zenon DEF Crash, agentVars
  <2>4. row.synced = db.synced /\ row.enhanced = db.enhanced /\ row.restarted = db.restarted
    BY <2>0, SurvivorFields, Zenon
  <2>5. CASE db' = row
    <3>1. CASE row = db BY <2>3, <2>5, <3>1, RestartKept, Zenon
    <3>2. CASE row # db
      <4>1. PICK i \in 1..5 : row.state = Chain[i] BY <3>2, <2>0, SurvivorFields, Zenon
      <4>2. row.state # "cancelled" BY <4>1, ChainValues, Zenon
      <4>. QED BY <2>5, <4>2, Zenon DEF RestartKnows
    <3>. QED BY <3>1, <3>2, Zenon
  <2>6. CASE /\ db'.restarted = how /\ row.state \in Stages \ {"none"} /\ db'.enhanced = row.enhanced
             /\ db'.state = IF row.state \in Claimed THEN "outcome_unknown" ELSE "cancelled"
    <3>. SUFFICES ASSUME launched, how = "crash" \/ db.enhanced PROVE row.state \in Claimed
      BY <2>3, <2>4, <2>6, Zenon DEF RestartKnows
    <3>1. CASE row = db BY <2>6, <3>1, Zenon DEF RowFollows, Stages, Claimed
    <3>2. CASE row # db
      <4>1. PICK i \in 1..5 : i \in At(db.synced)..At(db.past) /\ row.state = Chain[i]
        BY <3>2, <2>0, SurvivorFields, Zenon
      <4>2. db.enhanced BY <3>2, Zenon
      <4>3. db.synced = "dispatching" BY <4>2, Zenon DEF RowFollows
      <4>4. i \in 4..At(db.past) BY <4>1, <4>3, ChainPlaces, Zenon
      <4>5. At(db.past) \in 1..5 BY <2>0, StagePlaces, Zenon DEF Rows
      <4>6. i = 4 \/ i = 5
        <5>. DEFINE last == At(db.past)
        <5>1. last \in 1..5 /\ i \in 4..last BY <4>4, <4>5, Zenon
        <5>. HIDE DEF last
        <5>. QED BY <5>1
      <4>. QED BY <4>1, <4>6, ChainValues, Zenon DEF Claimed
    <3>. QED BY <3>1, <3>2, Zenon
  <2>. QED BY <2>1, <2>2, <2>5, <2>6, ReconcileFields, Zenon
<1>. QED BY <1>1, <1>3, <1>4, <1>5, <1>6, <1>7, <1>8, <1>9, <1>10, Zenon DEF Next, Environment

\* Every step keeps the types.
LEMMA TypeStep == ASSUME TypeOK, OneStart, Next PROVE TypeOK'
BY GatewayType, CompletionType, WatchingType, RelayingType, SendingType, ReceivingType,
   ControlType, AgentType, EnvironmentType, Zenon
DEF Next

\* Every step keeps OneStart.
LEMMA OneStartStep == ASSUME TypeOK, OneStart, Next PROVE OneStart'
BY GatewayStart, CompletionStart, WatchingStart, RelayingStart, SendingStart, ReceivingStart,
   ControlStart, AgentStart, EnvironmentStart, Zenon DEF Next

\* Initially nothing is registered, sent or recorded.
LEMMA Initially == Init => IInv
<1>. SUFFICES ASSUME Init PROVE IInv BY Zenon
<1>. USE DEF Init
<1>1. TypeOK
  <2>1. link \in Links BY BoundsAssumption, SMTT(30) DEF Links
  <2>2. gw \in Gateways BY ZenonT(30) DEF NoGateway, Gateways, PCs
  <2>3. rpc \in Rpcs BY Zenon DEF Rpcs
  <2>4. out \in [Outputs -> Pipes] BY BoundsAssumption, SMTT(30) DEF Pipes
  <2>5. db \in Rows BY ZenonT(30) DEF NoRow, Rows, Stages
  <2>6. agent \in [Generations -> Phases] BY Zenon DEF Phases
  <2>7. down \in Downs BY Zenon DEF Downs
  <2>8. /\ toAgent \in [Generations -> Seq({"prepare", "attach", "cancel"})]
        /\ fromAgent \in [Generations -> Seq({"caps", "prepared", "refused"})]
    OBVIOUS
  <2>9. world \in [revoked : BOOLEAN, early : BOOLEAN, expired : BOOLEAN] BY Zenon
  <2>12. up \in Seq(Ups) BY SMTT(30)
  <2>10. crashes \in Nat /\ launched \in BOOLEAN /\ archived \in BOOLEAN
          /\ watch \in {"off", "on", "cancelled", "over"}
    BY Zenon
  <2>11. ses \in Sessions BY NoSessionType, Zenon
  <2>. HIDE DEF Init
  <2>. QED
    BY <2>1, <2>2, <2>3, <2>4, <2>5, <2>6, <2>7, <2>8, <2>9, <2>10, <2>11, <2>12, Zenon DEF TypeOK
<1>2. OneStart
  <2>1. ~StartQueued BY Zenon DEF StartQueued
  <2>2. ~ToldNothingRan
    <3>1. ses.result = "none" BY Zenon DEF NoSession
    <3>2. up = <<>> /\ Len(up) = 0 BY Zenon
    <3>. HIDE DEF Init
    <3>. QED BY <3>1, <3>2, SMTT(30) DEF ToldNothingRan
  <2>3. ~ses.dispatch /\ ~ses.start /\ ~ses.attempted BY Zenon DEF NoSession
  <2>4. rpc.handler = "off" /\ rpc.send = "off" /\ down = <<>> /\ ~launched BY Zenon
  <2>. HIDE DEF Init
  <2>. QED BY <2>1, <2>2, <2>3, <2>4, Zenon DEF OneStart, Waiting
<1>3. Withdrawn BY ZenonT(30) DEF NoSession, NoGateway, Withdrawn
<1>4. SaysItNeverRan BY ZenonT(30) DEF NoGateway, NoRow, SaysItNeverRan, Denied, Unused
<1>5. RowFollows BY ZenonT(30) DEF NoSession, NoGateway, NoRow, RowFollows
<1>6. Revoked BY Zenon DEF Revoked
<1>7. RestartKnows BY Zenon DEF NoRow, RestartKnows
<1>. QED BY <1>1, <1>2, <1>3, <1>4, <1>5, <1>6, <1>7, Zenon DEF IInv

\* IInv depends on the variables of the specification alone.
LEMMA Stuttering == IInv /\ UNCHANGED vars => IInv'
<1>. SUFFICES ASSUME IInv, UNCHANGED vars PROVE IInv' BY Zenon
<1>. USE DEF vars, controlVars, hubVars, streamVars, agentVars, storeVars
<1>1. TypeOK' BY Zenon DEF IInv, TypeOK
<1>2. OneStart' BY Zenon DEF IInv, OneStart, StartQueued, ToldNothingRan, Restarted
<1>3. Withdrawn' BY Zenon DEF IInv, Withdrawn
<1>4. SaysItNeverRan' BY Zenon DEF IInv, SaysItNeverRan, Denied, WillNotRun, StartQueued
<1>5. RowFollows' BY ZenonT(30) DEF IInv, RowFollows
<1>6. Revoked' BY Zenon DEF IInv, Revoked
<1>7. RestartKnows' BY Zenon DEF IInv, RestartKnows
<1>. QED BY <1>1, <1>2, <1>3, <1>4, <1>5, <1>6, <1>7, Zenon DEF IInv

\* IInv is inductive.
LEMMA Inductive == IInv /\ [Next]_vars => IInv'
<1>1. ASSUME IInv, Next PROVE IInv'
  BY <1>1, TypeStep, OneStartStep, NextWithdrawn, NextDenies, NextRow, NextRevoked, NextRestart,
     Zenon
  DEF IInv
<1>. QED BY <1>1, Stuttering, Zenon

\* Type correctness and every layer of the invariant hold, for any generations, outputs,
\* frames, queue length and number of crashes.
THEOREM InvariantHolds == Spec => []IInv
BY Initially, Inductive, PTL DEF Spec

\* A row that says the command never ran, or that its admission was not used, is right
\* (exec_bridge.go finishExec, MarkExecutionAdmissionUnused): nothing was or will be launched.
THEOREM NeverRanHolds == Spec => []NeverRan
<1>1. IInv => NeverRan BY Zenon DEF IInv, SaysItNeverRan, Denied, WillNotRun, NeverRan
<1>. QED BY <1>1, InvariantHolds, PTL

\* ReconcileExecutions never calls cancelled an execution that was launched, after a crash of
\* the Hub, and for Enhanced also after a loss of power.
THEOREM RestartKnowsHolds == Spec => []RestartKnows
<1>1. IInv => RestartKnows BY Zenon DEF IInv
<1>. QED BY <1>1, InvariantHolds, PTL

\* An Enhanced command is launched only after its admission was archived and the claim of its
\* receipt was committed with FULL durability (protected_executions.go).
THEOREM ArchivedHolds == Spec => []ArchivedBeforeLaunch
<1>1. IInv => ArchivedBeforeLaunch BY Zenon DEF IInv, RowFollows, ArchivedBeforeLaunch
<1>. QED BY <1>1, InvariantHolds, PTL

\* Authority that is withdrawn before beforeStart reads it again stops the command, in every
\* interleaving of the gateway, the stream and the revocation.
THEOREM AuthorityHolds == Spec => []AuthorityBeforeStart
<1>1. IInv => AuthorityBeforeStart BY Zenon DEF IInv, Revoked, AuthorityBeforeStart
<1>. QED BY <1>1, InvariantHolds, PTL
=============================================================================
