------------------------------ MODULE LogTails ------------------------------
(***************************************************************************)
(* Following a log file in the browser: the Hub's handler and its slots    *)
(* (server/handlers_logs.go), the buffered sessions between the control    *)
(* stream and the handler (grpcserver/logsessions.go), and the agent's     *)
(* tails (client/activities.go, logtailer/tailer.go).  One node.           *)
(*                                                                         *)
(* What a tail reads is a piece of the log; the stream keeps order and is  *)
(* lost as a whole, also when a send on it is cut short by its caller.     *)
(***************************************************************************)
EXTENDS Naturals, Sequences, FiniteSets, FiniteSetsExt

CONSTANTS Tails,       \* requests, each with an id of its own
          Admins,      \* the requests of an administrator; the others belong
                       \* to a viewer
          ViewerLimit, \* maxViewerLogStreamsPerUser
          AdminLimit,  \* maxAdminLogStreamsPerUser
          NodeLimit,   \* maxAgentLogStreams
          Buffer,      \* pieces a session holds, 64 in the code
          MaxPieces,   \* bound: pieces a tail reads
          MaxGens      \* bound: connections

VARIABLES gen, used,   \* the registered connection, 0 when there is none
          req,         \* the Hub's handlers
          slots,       \* logTailSessions, by user
          session,     \* LogSessions: buffered pieces and the overflow count
          wire, up,    \* the stream to the agent and back
          tail         \* the agent's workers

vars == <<gen, used, req, slots, session, wire, up, tail>>
link == <<gen, used>>

Users == {"viewer", "admin"}
UserOf(t) == IF t \in Admins THEN "admin" ELSE "viewer"
Idle == [pc |-> "idle", on |-> 0]
NoSession == [open |-> FALSE, n |-> 0, lost |-> 0]
NoTail == [state |-> "none", read |-> 0]
Msg(t, type) == [id |-> t, type |-> type]

TypeOK ==
    /\ gen \in 0 .. used /\ used \in 1 .. MaxGens
    /\ \A t \in Tails :
          /\ session[t].n \in 0 .. Buffer /\ session[t].lost \in 0 .. MaxPieces + 1
          /\ tail[t].read \in 0 .. MaxPieces
    /\ \A v \in Users : slots[v] \in 0 .. NodeLimit

Init ==
    /\ gen = 1 /\ used = 1
    /\ req = [t \in Tails |-> Idle]
    /\ slots = [v \in Users |-> 0]
    /\ session = [t \in Tails |-> NoSession]
    /\ wire = <<>> /\ up = <<>>
    /\ tail = [t \in Tails |-> NoTail]

Goes(t, pc) == req' = [req EXCEPT ![t].pc = pc]

(***************************************************************************)
(* Slots                                                                   *)
(***************************************************************************)

Limit(v) == IF v = "admin" THEN AdminLimit ELSE ViewerLimit

\* A viewer's stream leaves room for an administrator's.
RoomFor(v) ==
    slots["viewer"] + slots["admin"]
        < (IF v = "admin" THEN NodeLimit ELSE NodeLimit - AdminLimit)

TryAcquireLogTailSlot(t) ==
    LET v == UserOf(t) IN
    /\ req[t].pc = "idle" /\ gen # 0
    /\ IF RoomFor(v) /\ slots[v] < Limit(v)
       THEN /\ slots' = [slots EXCEPT ![v] = @ + 1]
            /\ Goes(t, "begin")
       ELSE Goes(t, "over") /\ UNCHANGED slots
    /\ UNCHANGED <<link, session, wire, up, tail>>

ReleaseLogTailSlot(t) ==
    slots' = [slots EXCEPT ![UserOf(t)] = Max({1, @}) - 1]

(***************************************************************************)
(* Sessions                                                                *)
(***************************************************************************)

Register(t) == session' = [session EXCEPT ![t] = [NoSession EXCEPT !.open = TRUE]]

\* Remove closes the channel; what it buffered can still be read, the count
\* of losses is gone.
Removed(s, t) == [s EXCEPT ![t].open = FALSE, ![t].lost = 0]

\* A full buffer loses the piece and counts it.
Delivered(t) ==
    IF ~session[t].open THEN session
    ELSE IF session[t].n < Buffer
    THEN [session EXCEPT ![t].n = @ + 1]
    ELSE [session EXCEPT ![t].lost = @ + 1]

(***************************************************************************)
(* The Hub's handler                                                       *)
(***************************************************************************)

\* The activity is refused: the slot goes back.
ActivityRefused(t) ==
    /\ req[t].pc = "begin"
    /\ Goes(t, "over") /\ ReleaseLogTailSlot(t)
    /\ UNCHANGED <<link, session, wire, up, tail>>

ActivityBegins(t) ==
    /\ req[t].pc = "begin" /\ gen # 0
    /\ req' = [req EXCEPT ![t] = [pc |-> "send", on |-> gen]]
    /\ Register(t)
    /\ UNCHANGED <<link, slots, wire, up, tail>>

SendRequest(t) ==
    /\ req[t].pc = "send" /\ gen = req[t].on
    /\ wire' = Append(wire, Msg(t, "start"))
    /\ Goes(t, "stream")
    /\ UNCHANGED <<link, slots, session, up, tail>>

\* The request could not be sent, or the browser left before it was: slot and
\* session go.
SendFails(t) ==
    /\ req[t].pc = "send"
    /\ Goes(t, "over") /\ ReleaseLogTailSlot(t)
    /\ session' = Removed(session, t)
    /\ UNCHANGED <<link, wire, up, tail>>

\* A piece is shown and, with it, how many were lost since the last one.
StreamPiece(t) ==
    /\ req[t].pc = "stream" /\ session[t].n > 0
    /\ session' = [session EXCEPT ![t].n = @ - 1, ![t].lost = 0]
    /\ UNCHANGED <<link, req, slots, wire, up, tail>>

\* The browser left, the connection ended, or the channel is closed and read:
\* slot and session go and the agent is told to stop.
StopMessage_Silent(t) == wire
StopMessage(t) ==
    IF gen = req[t].on THEN Append(wire, Msg(t, "stop")) ELSE wire

StreamEnds(t) ==
    /\ req[t].pc = "stream"
    /\ Goes(t, "over") /\ ReleaseLogTailSlot(t)
    /\ session' = Removed(session, t)
    /\ wire' = StopMessage(t)
    /\ UNCHANGED <<link, up, tail>>

\* A message of the agent: the last one of a tail, which may carry an error to
\* show, closes the session.
HubReceives ==
    /\ up # <<>> /\ up' = Tail(up)
    /\ LET m == Head(up) IN
       session' = CASE m.type = "piece"  -> Delivered(m.id)
                    [] m.type = "done"   -> Removed(session, m.id)
                    [] m.type = "failed" -> Removed(Delivered(m.id), m.id)
    /\ UNCHANGED <<link, req, slots, wire, tail>>

(***************************************************************************)
(* The agent                                                               *)
(***************************************************************************)

\* dispatch runs on the receive loop: a stop finds the tail of an earlier
\* start.  A start may be refused.
StartTail(t) ==
    \/ /\ tail' = [tail EXCEPT ![t].state = "running"] /\ UNCHANGED up
    \/ /\ up' = Append(up, Msg(t, "failed")) /\ UNCHANGED tail

StopTail(t) ==
    /\ tail' = [tail EXCEPT ![t].state =
                  IF @ = "running" THEN "cancelled" ELSE @]
    /\ UNCHANGED up

AgentReceives ==
    /\ wire # <<>> /\ wire' = Tail(wire)
    /\ LET m == Head(wire) IN
       IF m.type = "start" THEN StartTail(m.id) ELSE StopTail(m.id)
    /\ UNCHANGED <<link, req, slots, session>>

\* A poll finds new data.
ReadNewData(t) ==
    /\ tail[t].state = "running" /\ tail[t].read < MaxPieces
    /\ tail' = [tail EXCEPT ![t].read = @ + 1]
    /\ up' = Append(up, Msg(t, "piece"))
    /\ UNCHANGED <<link, req, slots, session, wire>>

\* The tail was cancelled, or the file cannot be read any more.  Nothing of a
\* tail whose session ended reaches the Hub.
TailReturns(t) ==
    /\ tail[t].state \in {"running", "cancelled", "detached"}
    /\ tail' = [tail EXCEPT ![t].state = "ended"]
    /\ up' = CASE tail[t].state = "running"   -> Append(up, Msg(t, "failed"))
               [] tail[t].state = "cancelled" -> Append(up, Msg(t, "done"))
               [] tail[t].state = "detached"  -> up
    /\ UNCHANGED <<link, req, slots, session, wire>>

\* Ending the session cancels the context of every tail.
Disconnect ==
    /\ gen # 0 /\ gen' = 0
    /\ wire' = <<>> /\ up' = <<>>
    /\ tail' = [t \in Tails |->
                  IF tail[t].state \in {"none", "ended"} THEN tail[t]
                  ELSE [tail[t] EXCEPT !.state = "detached"]]
    /\ UNCHANGED <<used, req, slots, session>>

Reconnect ==
    /\ gen = 0 /\ used < MaxGens
    /\ used' = used + 1 /\ gen' = used + 1
    /\ UNCHANGED <<req, slots, session, wire, up, tail>>

Handler(t) ==
    \/ ActivityRefused(t) \/ ActivityBegins(t)
    \/ SendRequest(t) \/ SendFails(t) \/ StreamPiece(t)

Next ==
    \/ HubReceives \/ AgentReceives \/ Disconnect \/ Reconnect
    \/ \E t \in Tails :
          \/ TryAcquireLogTailSlot(t) \/ Handler(t) \/ StreamEnds(t)
          \/ ReadNewData(t) \/ TailReturns(t)

\* Some goroutine on either side runs, and a cancelled tail notices it.
Fairness ==
    WF_vars(\/ HubReceives \/ AgentReceives
            \/ \E t \in Tails : Handler(t) \/ (tail[t].state # "running" /\ TailReturns(t)))

Spec == Init /\ [][Next]_vars /\ Fairness

(***************************************************************************)
(* Properties                                                              *)
(***************************************************************************)

Holding(v) ==
    {t \in Tails : UserOf(t) = v /\ req[t].pc \in {"begin", "send", "stream"}}

\* A user's count is the number of streams that user has open, on every path
\* out of the handler, and viewers always leave an administrator room
\* (tryAcquireLogTailSlot, releaseLogTailSlot, handleTailLog).
SlotsAreTrue ==
    /\ \A v \in Users : slots[v] = Cardinality(Holding(v))
    /\ slots["viewer"] <= NodeLimit - AdminLimit

\* When the browser is gone the agent stops reading the log, whichever side
\* ended the stream and wherever the connection was lost (the deferred
\* LogStreamStop, activitySession.dispatch).
TailStops ==
    \A t \in Tails :
        req[t].pc = "over" ~> tail[t].state \in {"none", "ended"}
=============================================================================
