---------------------------- MODULE ServerStatus ----------------------------
(***************************************************************************)
(* The status column of one server and its writers: the handshake and the   *)
(* Connect handler of every stream of its agent (grpcserver/handler.go), the *)
(* goroutine that finishes a disconnect, and the heartbeat monitor           *)
(* (grpcserver/server.go).  Reads of the connection table, reads of the      *)
(* store and writes of the store are separate steps.                         *)
(*                                                                         *)
(* The connection table keeps a closed connection installed until its last   *)
(* send is over (ConnManager has the detail); closed connections are hidden. *)
(* The agent has enrolled; a write of the status does not fail.              *)
(***************************************************************************)
EXTENDS Naturals

CONSTANT MaxStreams   \* streams the agent opens, one after the other

VARIABLES
  status,   \* the column
  writer,   \* history: who wrote it last
  handler,  \* where the goroutine of every stream is
  silent,   \* streams the agent has left: no heartbeat any more
  closed,   \* connections that are closed
  current,  \* the installed connection, 0 for none
  monitor   \* where sweepStaleConnections is

vars == <<status, writer, handler, silent, closed, current, monitor>>

Streams == 1..MaxStreams
Open == current # 0 /\ current \notin closed
UpdateServerStatus(who, s) == status' = s /\ writer' = who
SameStatus == UNCHANGED <<status, writer>>

\* detachIfCurrent on the connection that is installed.
detach == closed' = closed \cup ({current} \ {0})

\* The Hub starts with what the store says.
Init ==
  /\ status \in {"pending", "online", "offline"} /\ writer = "start"
  /\ handler = [g \in Streams |-> "new"]
  /\ silent = {} /\ closed = {} /\ current = 0
  /\ monitor = "off"

StartHeartbeatMonitor ==
  /\ monitor = "off" /\ monitor' = "idle"
  /\ UNCHANGED <<status, writer, handler, silent, closed, current>>
-----------------------------------------------------------------------------
(* The handler of a stream.                                                 *)

Go(g, from, to) == handler[g] = from /\ handler' = [handler EXCEPT ![g] = to]
streamOnly == UNCHANGED <<silent, closed, current, monitor>>

\* The agent opens a stream after it left the ones before.  handleHeartbeat
\* reads the status.
handleHeartbeat(g) ==
  /\ monitor # "off"
  /\ \A h \in 1..(g - 1) : handler[h] # "new"
  /\ Go(g, "new", IF status = "online" THEN "handshake" ELSE "heartbeat")
  /\ silent' = silent \cup 1..(g - 1)
  /\ SameStatus /\ UNCHANGED <<closed, current, monitor>>

\* It writes the status it found different.
heartbeatOnline(g) ==
  /\ Go(g, "heartbeat", "handshake")
  /\ UpdateServerStatus("handshake", "online") /\ streamOnly

\* The acknowledgement cannot be sent: there is no connection.
handshakeFails(g) == Go(g, "handshake", "over") /\ SameStatus /\ streamOnly

\* Register closes the connection it replaces ...
registerDetach(g) ==
  /\ handler[g] = "handshake" /\ Open /\ detach
  /\ SameStatus /\ UNCHANGED <<handler, silent, current, monitor>>

\* ... and is installed once that one has retired.
Register(g) ==
  /\ ~Open /\ Go(g, "handshake", "registered") /\ current' = g
  /\ SameStatus /\ UNCHANGED <<silent, closed, monitor>>

finishRetirement ==
  /\ current \in closed /\ current' = 0
  /\ SameStatus /\ UNCHANGED <<handler, silent, closed, monitor>>

onAgentConnected(g) ==
  /\ Go(g, "registered", "serving")
  /\ UpdateServerStatus("connected", "online") /\ streamOnly

\* Connect returns because the connection was closed or the stream ended.
\* Only the stream that is installed, closed or not, has a disconnect to finish.
onAgentDisconnected(g) ==
  /\ \/ current = g /\ Go(g, "serving", "offline") /\ detach
     \/ current # g /\ Go(g, "serving", "over") /\ UNCHANGED closed
  /\ SameStatus /\ UNCHANGED <<silent, current, monitor>>

\* finishAgentDisconnected: write offline ...
disconnectOffline(g) ==
  /\ Go(g, "offline", "recheck")
  /\ UpdateServerStatus("finish", "offline") /\ streamOnly

\* ... look for a replacement ...
disconnectRecheck(g) ==
  Go(g, "recheck", IF Open THEN "rewrite" ELSE "over") /\ SameStatus /\ streamOnly

\* ... and take the write back.
disconnectOnline(g) ==
  Go(g, "rewrite", "over") /\ UpdateServerStatus("finish", "online") /\ streamOnly

\* The agent dies or its network does; nobody tells the Hub.
GoSilent(g) ==
  /\ handler[g] \notin {"new", "over"} /\ g \notin silent /\ silent' = silent \cup {g}
  /\ SameStatus /\ UNCHANGED <<handler, closed, current, monitor>>
-----------------------------------------------------------------------------
(* The heartbeat monitor: sweepStaleConnections.                            *)

Sweep(from, to) == monitor = from /\ monitor' = to
tableOnly == UNCHANGED <<handler, silent, current>>

StaleConnections ==
  /\ Sweep("idle", IF current \in silent THEN "stale" ELSE "active")
  /\ SameStatus /\ UNCHANGED closed /\ tableOnly

\* By the name of the server: whatever is installed now is closed.
sweepUnregister == Sweep("stale", "unregistered") /\ detach /\ SameStatus /\ tableOnly

sweepOffline ==
  /\ Sweep("unregistered", "active")
  /\ UpdateServerStatus("monitor", "offline") /\ UNCHANGED closed /\ tableOnly

ActiveServerIDs ==
  /\ Sweep("active", IF Open THEN "idle" ELSE "inactive")
  /\ SameStatus /\ UNCHANGED closed /\ tableOnly

\* Mutant: servers that are not online are the orphans.
GetOnlineServersNotIn_Offline ==
  /\ Sweep("inactive", IF status = "offline" THEN "orphan" ELSE "idle")
  /\ SameStatus /\ UNCHANGED closed /\ tableOnly

GetOnlineServersNotIn ==
  /\ Sweep("inactive", IF status = "online" THEN "orphan" ELSE "idle")
  /\ SameStatus /\ UNCHANGED closed /\ tableOnly

orphanOffline ==
  /\ Sweep("orphan", "idle")
  /\ UpdateServerStatus("monitor", "offline") /\ UNCHANGED closed /\ tableOnly

sweepStaleConnections ==
  \/ StaleConnections \/ sweepUnregister \/ sweepOffline
  \/ ActiveServerIDs \/ GetOnlineServersNotIn \/ orphanOffline
-----------------------------------------------------------------------------
\* What the handler does once it runs: all but a stream that ends by itself.
Handle(g) ==
  \/ heartbeatOnline(g) \/ registerDetach(g) \/ Register(g) \/ onAgentConnected(g)
  \/ g \in silent \cup closed /\ onAgentDisconnected(g)
  \/ disconnectOffline(g) \/ disconnectRecheck(g) \/ disconnectOnline(g)

Stream(g) ==
  \/ handleHeartbeat(g) \/ handshakeFails(g) \/ Handle(g) \/ GoSilent(g)
  \/ g \notin silent \cup closed /\ onAgentDisconnected(g)

Next ==
  \/ StartHeartbeatMonitor \/ finishRetirement \/ sweepStaleConnections
  \/ \E g \in Streams : Stream(g)

\* Goroutines run; a stream the agent has left ends (keepalive), and the ticker
\* of the monitor does not stop.
Fairness ==
  /\ \A g \in Streams : WF_vars(Handle(g))
  /\ WF_vars(finishRetirement) /\ WF_vars(sweepStaleConnections)

Spec == Init /\ [][Next]_vars /\ Fairness
-----------------------------------------------------------------------------
\* The states of the column, the handlers and the monitor; only a stream whose
\* Connect got as far as Register is installed or closed.
TypeOK ==
  /\ status \in {"pending", "online", "offline"}
  /\ writer \in {"start", "handshake", "connected", "finish", "monitor"}
  /\ handler \in [Streams -> {"new", "heartbeat", "handshake", "registered", "serving",
                              "offline", "recheck", "rewrite", "over"}]
  /\ monitor \in {"off", "idle", "stale", "unregistered", "active", "inactive", "orphan"}
  /\ silent \subseteq Streams
  /\ \A g \in closed \cup ({current} \ {0}) : handler[g] \notin {"new", "heartbeat", "handshake"}

\* The delayed disconnect of an old stream leaves a connected server online, or
\* is about to: a connection that is being served shows as online unless the
\* monitor wrote the column last.
ReplacementStaysOnline ==
  Open /\ handler[current] = "serving" =>
    \/ status = "online" \/ writer = "monitor"
    \/ \E g \in Streams : handler[g] \in {"recheck", "rewrite"}

Settled == monitor # "off" /\ \A g \in Streams : handler[g] \in {"new", "over"}

\* A server whose last connection is gone, or never came about, does not show as
\* online for ever, whatever the streams before it wrote late.
GoneShowsOffline == Settled ~> status # "online" \/ ~Settled

\* "Offline - Shows only servers that have lost their agent connection": a server
\* that stays connected shows as online.
ConnectedShowsOnline ==
  Open /\ handler[current] = "serving" ~> status = "online" \/ ~Open
=============================================================================
