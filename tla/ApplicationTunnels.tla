------------------------- MODULE ApplicationTunnels -------------------------
(***************************************************************************)
(* The byte tunnels from the Hub to the backends of a node: dialNode, its     *)
(* watcher and the attachment RPC of the Hub (grpcserver/application_tunnels, *)
(* application_stream), and the sockets of the agent (client/application).    *)
(* A tunnel is admitted on one control connection, attached by the agent on   *)
(* an RPC of its own, and occupies its place until the agent says on the      *)
(* control connection that the socket is closed, or that connection ends.     *)
(* Bytes, targets and tickets are not modelled: a binding is a tunnel.        *)
(***************************************************************************)
EXTENDS Naturals, Sequences, FiniteSets

CONSTANTS Tunnels,
          MaxTunnels,   \* places of a node, 32 in the code
          MaxSockets,   \* sockets of an agent, 32 in the code
          MaxGens       \* control connections

VARIABLES
  valid,    \* the target is the one the application is configured with
  closed,   \* ApplicationTunnels.Close was called
  conn,     \* the installed control connection, 0 if none
  capable,  \* the connection whose capabilities are held
  tun,      \* the tunnels: entry, control connection, context, ready, ...
  dialer,   \* dialNode
  watch,    \* watch
  rpc,      \* ApplicationProxy
  gens,     \* control connections so far
  stream, down, up,   \* the agent's side of the control connection
  sock      \* the sockets of the agent: state, connection, cancelled

hub == <<tun, dialer, watch, rpc>>
agent == <<gens, stream, down, up, sock>>
vars == <<valid, closed, conn, capable, hub, agent>>
-----------------------------------------------------------------------------
NoTunnel == [entry |-> FALSE, gen |-> 0, live |-> FALSE, attached |-> FALSE,
             ready |-> "none"]
NoSocket == [at |-> "none", gen |-> 0, live |-> FALSE]
Msg(kind, c) == [kind |-> kind, c |-> c]

Init ==
  /\ valid = TRUE /\ closed = FALSE /\ conn = 1 /\ capable = 1
  /\ tun = [c \in Tunnels |-> NoTunnel] /\ dialer = [c \in Tunnels |-> "idle"]
  /\ watch = [c \in Tunnels |-> "none"] /\ rpc = [c \in Tunnels |-> "none"]
  /\ gens = 1 /\ stream = 1 /\ down = <<>> /\ up = <<>>
  /\ sock = [c \in Tunnels |-> NoSocket]
-----------------------------------------------------------------------------
Entries == {c \in Tunnels : tun[c].entry}

\* checkAdmission
Admitted(c) == tun[c].live /\ tun[c].gen = conn /\ valid

\* A send on the control connection reaches the agent if it still has the stream.
Send(m) == down' = IF stream = conn THEN Append(down, m) ELSE down

\* dialNode takes a place for a tunnel of the connection whose capabilities are held.
Dial(c) ==
  /\ dialer[c] = "idle" /\ ~closed /\ valid /\ conn # 0
  /\ IF Cardinality(Entries) < MaxTunnels /\ capable = conn
     THEN /\ tun' = [tun EXCEPT ![c] = [NoTunnel EXCEPT !.entry = TRUE, !.gen = conn,
                                                        !.live = TRUE]]
          /\ dialer' = [dialer EXCEPT ![c] = "begin"]
     ELSE dialer' = [dialer EXCEPT ![c] = "failed"] /\ UNCHANGED tun
  /\ UNCHANGED <<valid, closed, conn, capable, watch, rpc, agent>>

\* A send that fails, or is cancelled, closes the control connection; the message
\* may have gone.
SendFails(m) == conn' = 0 /\ (Send(m) \/ UNCHANGED down)

\* BeginRequest and the checked send: refused, sent, or failed, in which case the
\* place is kept if the request was dispatched.
SendOpen(c) ==
  /\ dialer[c] = "begin"
  /\ \/ /\ tun' = [tun EXCEPT ![c].entry = FALSE, ![c].live = FALSE]
        /\ dialer' = [dialer EXCEPT ![c] = "failed"] /\ UNCHANGED <<conn, watch, down>>
     \/ /\ Admitted(c) /\ Send(Msg("open", c)) /\ UNCHANGED <<conn, tun>>
        /\ dialer' = [dialer EXCEPT ![c] = "wait"]
        /\ watch' = [watch EXCEPT ![c] = "on"]
     \/ /\ Admitted(c) /\ SendFails(Msg("open", c))
        /\ tun' = [tun EXCEPT ![c].live = FALSE]
        /\ dialer' = [dialer EXCEPT ![c] = "failed"]
        /\ watch' = [watch EXCEPT ![c] = "on"]
  /\ UNCHANGED <<valid, closed, capable, rpc, gens, stream, up, sock>>

\* The wait for the tunnel to be ready, up to its timeout.
Wait(c) ==
  /\ dialer[c] = "wait"
  /\ IF tun[c].ready = "ok" /\ tun[c].live
     THEN dialer' = [dialer EXCEPT ![c] = "returned"] /\ UNCHANGED tun
     ELSE /\ dialer' = [dialer EXCEPT ![c] = "failed"]
          /\ tun' = [tun EXCEPT ![c].live = FALSE]
  /\ UNCHANGED <<valid, closed, conn, capable, watch, rpc, agent>>

\* Whoever dialled closes the connection, or its request is cancelled.
Finish(c) ==
  /\ dialer[c] \in {"begin", "wait", "returned"} /\ tun[c].live
  /\ tun' = [tun EXCEPT ![c].live = FALSE]
  /\ UNCHANGED <<valid, closed, conn, capable, dialer, watch, rpc, agent>>

\* The place is kept while the agent can still report the socket closed.
Kept(c) == tun[c].gen = conn

\* watch: the connection is closed, and the agent told if it is still there.
Watch(c) ==
  /\ watch[c] = "on" /\ (~tun[c].live \/ tun[c].gen # conn)
  /\ watch' = [watch EXCEPT ![c] = "done"]
  /\ tun' = [tun EXCEPT ![c].live = FALSE, ![c].entry = @ /\ Kept(c),
                        ![c].ready = IF @ = "none" THEN "failed" ELSE @]
  /\ \/ tun[c].gen # conn /\ UNCHANGED <<conn, down>>
     \/ tun[c].gen = conn /\ Send(Msg("close", c)) /\ UNCHANGED conn
     \/ tun[c].gen = conn /\ SendFails(Msg("close", c))
  /\ UNCHANGED <<valid, closed, capable, dialer, rpc, gens, stream, up, sock>>

\* Mutant: a tunnel that was never attached is not removed by the agent's report.
Reported_Attached(c) == tun[c].entry /\ tun[c].attached

Reported(c) == tun[c].entry

\* ObserveClosed.  A socket reports on the stream it was opened on, which is the
\* control connection of its tunnel, so that the comparison of the two holds.
ObserveClosed ==
  /\ up # <<>> /\ up' = Tail(up)
  /\ LET c == Head(up).c IN
     tun' = IF Reported(c) THEN [tun EXCEPT ![c].live = FALSE, ![c].entry = FALSE] ELSE tun
  /\ UNCHANGED <<valid, closed, conn, capable, dialer, watch, rpc, gens, stream, down, sock>>

\* ObserveCapabilities, of the connection that is installed.
ObserveCapabilities ==
  /\ conn # 0 /\ stream = conn /\ capable # conn /\ ~closed
  /\ capable' = conn
  /\ UNCHANGED <<valid, closed, conn, hub, agent>>

\* EndConnection, before the connection is detached, of every stream that ended.
EndConnection(g) ==
  /\ stream # g /\ g \in 1 .. MaxGens
  /\ (capable = g \/ \E c \in Tunnels : tun[c].entry /\ tun[c].gen = g)
  /\ capable' = IF capable = g THEN 0 ELSE capable
  /\ tun' = [c \in Tunnels |-> IF tun[c].entry /\ tun[c].gen = g
                               THEN [tun[c] EXCEPT !.entry = FALSE, !.live = FALSE]
                               ELSE tun[c]]
  /\ UNCHANGED <<valid, closed, conn, dialer, watch, rpc, agent>>

Unregister ==
  /\ conn # 0 /\ stream # conn /\ capable # conn /\ conn' = 0
  /\ UNCHANGED <<valid, closed, capable, hub, agent>>

\* Close at the shutdown of the Hub.
Close ==
  /\ ~closed /\ closed' = TRUE
  /\ tun' = [c \in Tunnels |-> [tun[c] EXCEPT !.live = FALSE]]
  /\ UNCHANGED <<valid, conn, capable, dialer, watch, rpc, agent>>

ChangeConfiguration ==
  /\ valid /\ valid' = FALSE
  /\ UNCHANGED <<closed, conn, capable, hub, agent>>
-----------------------------------------------------------------------------
Occupied == {c \in Tunnels : sock[c].at \notin {"none", "done"}}

\* The report that a socket is closed, on the stream it was opened on.
EmitClosed(c) == up' = IF stream # 0 THEN Append(up, Msg("closed", c)) ELSE up

\* open and close, in the receive loop: expiry, the bound and the session budget
\* refuse an open at once.
Handle ==
  /\ down # <<>> /\ down' = Tail(down)
  /\ LET c == Head(down).c IN
     \/ /\ Head(down).kind = "open" /\ Cardinality(Occupied) < MaxSockets
        /\ sock' = [sock EXCEPT ![c] = [at |-> "attach", gen |-> stream, live |-> TRUE]]
        /\ UNCHANGED up
     \/ Head(down).kind = "open" /\ EmitClosed(c) /\ UNCHANGED sock
     \/ Head(down).kind = "close" /\ sock' = [sock EXCEPT ![c].live = FALSE] /\ UNCHANGED up
  /\ UNCHANGED <<valid, closed, conn, capable, hub, gens, stream>>

\* attach: once, on the connection of the tunnel, and a second check of admission
\* before the agent is told.
Attach(c) ==
  /\ sock[c].at = "attach" /\ sock[c].live /\ rpc[c] = "none"
  /\ IF ~closed /\ tun[c].entry /\ ~tun[c].attached /\ tun[c].live /\ tun[c].gen = conn
     THEN /\ tun' = [tun EXCEPT ![c].attached = TRUE, ![c].live = valid]
          /\ rpc' = [rpc EXCEPT ![c] = IF valid THEN "open" ELSE "done"]
          /\ sock' = [sock EXCEPT ![c].at = IF valid THEN "dial" ELSE "closing"]
     ELSE /\ sock' = [sock EXCEPT ![c].at = "closing"]
          /\ rpc' = [rpc EXCEPT ![c] = "done"] /\ UNCHANGED tun
  /\ UNCHANGED <<valid, closed, conn, capable, dialer, watch, gens, stream, down, up>>

\* serve dials the backend after it was attached.
DialBackend(c) ==
  /\ sock[c].at = "dial" /\ sock[c].live
  /\ \/ sock' = [sock EXCEPT ![c].at = "opened"] \/ sock' = [sock EXCEPT ![c].at = "closing"]
  /\ UNCHANGED <<valid, closed, conn, capable, hub, gens, stream, down, up>>

\* receiveApplication takes the first message: the last check of admission.
ReceiveOpened(c) ==
  /\ rpc[c] = "open" /\ sock[c].at = "opened" /\ tun[c].ready = "none"
  /\ IF Admitted(c)
     THEN tun' = [tun EXCEPT ![c].ready = "ok"] /\ UNCHANGED rpc
     ELSE /\ tun' = [tun EXCEPT ![c].ready = "failed", ![c].live = FALSE]
          /\ rpc' = [rpc EXCEPT ![c] = "done"]
  /\ UNCHANGED <<valid, closed, conn, capable, dialer, watch, agent>>

\* The RPC ends with the context of the tunnel or with the agent's side, and
\* cancels the tunnel.
RpcEnds(c) ==
  /\ rpc[c] = "open" /\ (~tun[c].live \/ sock[c].at \in {"closing", "done"})
  /\ rpc' = [rpc EXCEPT ![c] = "done"]
  /\ tun' = [tun EXCEPT ![c].live = FALSE,
                        ![c].ready = IF @ = "none" THEN "failed" ELSE @]
  /\ UNCHANGED <<valid, closed, conn, capable, dialer, watch, agent>>

\* serve returns: cancelled, the RPC over, done, or the opening timer.
Served(c) ==
  /\ sock[c].at \in {"attach", "dial", "opened"}
  /\ sock' = [sock EXCEPT ![c].at = "closing", ![c].live = FALSE]
  /\ UNCHANGED <<valid, closed, conn, capable, hub, gens, stream, down, up>>

\* The socket is forgotten and its place in the session budget returned before the
\* report goes out.
SocketClosed(c) ==
  /\ sock[c].at = "closing"
  /\ sock' = [sock EXCEPT ![c].at = "done", ![c].live = FALSE]
  /\ IF stream = sock[c].gen THEN EmitClosed(c) ELSE UNCHANGED up
  /\ UNCHANGED <<valid, closed, conn, capable, hub, gens, stream, down>>

\* The control stream ends: close cancels every socket.
StreamEnds ==
  /\ stream # 0 /\ stream' = 0 /\ down' = <<>> /\ up' = <<>>
  /\ sock' = [c \in Tunnels |-> [sock[c] EXCEPT !.live = FALSE]]
  /\ UNCHANGED <<valid, closed, conn, capable, hub, gens>>

\* A new control stream, once the sockets of the last are gone.
Reconnect ==
  /\ stream = 0 /\ Occupied = {} /\ gens < MaxGens
  /\ gens' = gens + 1 /\ stream' = gens' /\ conn' = gens'
  /\ UNCHANGED <<valid, closed, capable, hub, down, up, sock>>
-----------------------------------------------------------------------------
Next ==
  \/ \E c \in Tunnels :
       \/ Dial(c) \/ SendOpen(c) \/ Wait(c) \/ Finish(c) \/ Watch(c) \/ Attach(c)
       \/ DialBackend(c) \/ ReceiveOpened(c) \/ RpcEnds(c) \/ Served(c) \/ SocketClosed(c)
  \/ \E g \in 1 .. MaxGens : EndConnection(g)
  \/ ObserveClosed \/ ObserveCapabilities \/ Unregister \/ Close \/ ChangeConfiguration
  \/ Handle \/ StreamEnds \/ Reconnect

\* Goroutines go on.  serve must return only when it was cancelled, its RPC is over,
\* or before the opening timer stops; an open tunnel may stay as it is.  The
\* stream of a connection that was closed ends.  That some goroutine goes on is enough.
Fairness ==
  WF_vars(\/ ObserveClosed \/ Handle \/ (conn # stream /\ StreamEnds)
          \/ \E g \in 1 .. MaxGens : EndConnection(g)
          \/ \E c \in Tunnels :
               \/ SendOpen(c) \/ Watch(c) \/ Wait(c) \/ Attach(c) \/ DialBackend(c)
               \/ ReceiveOpened(c) \/ RpcEnds(c) \/ SocketClosed(c)
               \/ ((~sock[c].live \/ rpc[c] = "done") /\ Served(c)))

Spec == Init /\ [][Next]_vars /\ Fairness
-----------------------------------------------------------------------------
TypeOK ==
  /\ gens \in 1 .. MaxGens
  /\ \A c \in Tunnels : tun[c].gen \in 0 .. MaxGens /\ sock[c].gen \in 0 .. MaxGens
  /\ Cardinality(Entries) <= MaxTunnels /\ Cardinality(Occupied) <= MaxSockets

\* The Hub counts every socket the agent holds for it, from before it is opened until
\* the agent has reported it closed, as long as their control connection stands:
\* a cancelled request does not free the place of a socket that is still closing.
PlaceCoversSocket ==
  \A c \in Occupied : sock[c].gen = stream /\ conn = stream => tun[c].entry

\* A tunnel whose context is over gives its place back, whatever was lost on the way.
PlaceComesBack == \A c \in Tunnels : tun[c].entry /\ ~tun[c].live ~> ~tun[c].entry
=============================================================================
