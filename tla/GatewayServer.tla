---------------------------- MODULE GatewayServer ----------------------------
(***************************************************************************)
(* The life of the SSH gateway (hub/internal/sshgw/server.go): Start, which  *)
(* may lose the race against Stop, the accept loop and its cap, one handler  *)
(* per connection, the goroutine that recovers evidence, and Stop, which     *)
(* waits for all of them, and closes by force what is left when its context  *)
(* ends.  The two mutexed sections of the server are single steps; the       *)
(* WaitGroup is the set of handlers and the recovery that have not called    *)
(* Done.  What a session does is the concern of TerminalSessions and         *)
(* HubExecution: here it is open until somebody ends it.                     *)
(***************************************************************************)
EXTENDS Naturals, FiniteSets

CONSTANTS Conns,      \* connections of clients
          MaxConns,   \* the cap of the gateway
          Recovers    \* protected execution is configured: evidence is recovered

VARIABLES
  start,     \* Start: "no", "listen", "bound", "serve", "returned"
  socket,    \* the listening socket: "no", "open", "closed"
  listener,  \* Server.listener is set
  closing,
  conns,     \* Server.conns
  handler,   \* of each connection: "no", "offered", "handshake", "serving", ...
  peer,      \* the connections that are open at the network
  recovery,  \* the recovery of evidence: "no", "running", "done"
  cancelled, \* evidenceCancel was called
  stop       \* Stop: "no", "closing", "wait", "forced", "clean", "late"

vars == <<start, socket, listener, closing, conns, handler, peer, recovery, cancelled,
          stop>>
-----------------------------------------------------------------------------
Init ==
  /\ start = "no" /\ socket = "no" /\ listener = FALSE /\ closing = FALSE
  /\ conns = {} /\ handler = [c \in Conns |-> "no"] /\ peer = {}
  /\ recovery = "no" /\ cancelled = FALSE /\ stop = "no"

\* What holds the WaitGroup: handlers up to their Done, and the recovery.
Handling == {c \in Conns : handler[c] \in {"handshake", "serving", "ended", "untracked"}}
Waited == Handling = {} /\ recovery # "running"
-----------------------------------------------------------------------------
\* Start fails on the policy configuration, or begins the recovery unless Stop has
\* come first.
Start ==
  /\ start = "no"
  /\ \/ start' = "returned" /\ UNCHANGED recovery
     \/ /\ start' = "listen"
        /\ recovery' = IF Recovers /\ ~closing THEN "running" ELSE "no"
  /\ UNCHANGED <<socket, listener, closing, conns, handler, peer, cancelled, stop>>

\* listen binds, or does not: disabled, without keys, or the port is taken.
Bind ==
  /\ start = "listen"
  /\ \/ start' = "bound" /\ socket' = "open"
     \/ start' = "returned" /\ UNCHANGED socket
  /\ UNCHANGED <<listener, closing, conns, handler, peer, recovery, cancelled, stop>>

\* listen publishes the listener, under the mutex, unless Stop has come first.
Publish ==
  /\ start = "bound"
  /\ IF closing
     THEN start' = "returned" /\ socket' = "closed" /\ UNCHANGED listener
     ELSE start' = "serve" /\ listener' = TRUE /\ UNCHANGED socket
  /\ UNCHANGED <<closing, conns, handler, peer, recovery, cancelled, stop>>

\* A client connects while the socket is open.
Connect(c) ==
  /\ handler[c] = "no" /\ socket = "open"
  /\ handler' = [handler EXCEPT ![c] = "offered"] /\ peer' = peer \cup {c}
  /\ UNCHANGED <<start, socket, listener, closing, conns, recovery, cancelled, stop>>

\* Accept has a connection in its hand; the socket may be closed from now on.
Accept(c) ==
  /\ start = "serve" /\ socket = "open" /\ handler[c] = "offered"
  /\ \A d \in Conns : handler[d] # "accepted"
  /\ handler' = [handler EXCEPT ![c] = "accepted"]
  /\ UNCHANGED <<start, socket, listener, closing, conns, peer, recovery, cancelled, stop>>

Admits == ~closing /\ Cardinality(conns) < MaxConns

\* trackConn reserves the handler under the mutex, or the connection is refused.
TrackConn(c) ==
  /\ handler[c] = "accepted"
  /\ IF Admits
     THEN conns' = conns \cup {c} /\ handler' = [handler EXCEPT ![c] = "handshake"]
          /\ UNCHANGED peer
     ELSE peer' = peer \ {c} /\ handler' = [handler EXCEPT ![c] = "refused"]
          /\ UNCHANGED conns
  /\ UNCHANGED <<start, socket, listener, closing, recovery, cancelled, stop>>

\* handleConn: the handshake succeeds, and the deadline is lifted; or it fails, the
\* client leaves, or its deadline passes.
Handshake(c) ==
  /\ handler[c] = "handshake"
  /\ \/ c \in peer /\ handler' = [handler EXCEPT ![c] = "serving"]
     \/ handler' = [handler EXCEPT ![c] = "ended"]
  /\ UNCHANGED <<start, socket, listener, closing, conns, peer, recovery, cancelled, stop>>

\* serveChannels ends with its session, or with the connection.
ServeEnds(c) ==
  /\ handler[c] = "serving"
  /\ handler' = [handler EXCEPT ![c] = "ended"] /\ peer' = peer \ {c}
  /\ UNCHANGED <<start, socket, listener, closing, conns, recovery, cancelled, stop>>

\* The deferred calls of the handler, in their order: the connection is closed and
\* forgotten before the WaitGroup is released.
UntrackConn(c) ==
  /\ handler[c] = "ended"
  /\ handler' = [handler EXCEPT ![c] = "untracked"]
  /\ conns' = conns \ {c} /\ peer' = peer \ {c}
  /\ UNCHANGED <<start, socket, listener, closing, recovery, cancelled, stop>>

HandlerDone(c) ==
  /\ handler[c] = "untracked" /\ handler' = [handler EXCEPT ![c] = "done"]
  /\ UNCHANGED <<start, socket, listener, closing, conns, peer, recovery, cancelled, stop>>

\* Accept fails: the socket was closed, or an error ends the loop.  Start forgets
\* its listener.
ServeReturns ==
  /\ start = "serve" /\ \A c \in Conns : handler[c] # "accepted"
  /\ start' = "returned" /\ listener' = FALSE
  /\ UNCHANGED <<socket, closing, conns, handler, peer, recovery, cancelled, stop>>

\* The recovery ends when it is cancelled.
RecoveryEnds ==
  /\ recovery = "running" /\ cancelled /\ recovery' = "done"
  /\ UNCHANGED <<start, socket, listener, closing, conns, handler, peer, cancelled, stop>>

\* Stop closes admission under the mutex, where it also reads the listener.
Stop ==
  /\ stop = "no" /\ closing' = TRUE
  /\ stop' = IF listener THEN "closing" ELSE "wait"
  /\ cancelled' = (recovery # "no")
  /\ UNCHANGED <<start, socket, listener, conns, handler, peer, recovery>>

StopListening ==
  /\ stop = "closing" /\ stop' = "wait" /\ socket' = "closed"
  /\ UNCHANGED <<start, listener, closing, conns, handler, peer, recovery, cancelled>>

\* Everything has ended, before or after the connections were closed by force.
StopReturns ==
  /\ stop \in {"wait", "forced"} /\ Waited
  /\ stop' = IF stop = "wait" THEN "clean" ELSE "late"
  /\ UNCHANGED <<start, socket, listener, closing, conns, handler, peer, recovery, cancelled>>

\* The context ends: closeAllConns, of the connections there are now.
ForceClose ==
  /\ stop = "wait" /\ stop' = "forced" /\ peer' = peer \ conns
  /\ UNCHANGED <<start, socket, listener, closing, conns, handler, recovery, cancelled>>

\* The grace for handlers that do not end is over.
StopGivesUp ==
  /\ stop = "forced" /\ stop' = "late"
  /\ UNCHANGED <<start, socket, listener, closing, conns, handler, peer, recovery, cancelled>>
-----------------------------------------------------------------------------
Next ==
  \/ Start \/ Bind \/ Publish \/ ServeReturns \/ RecoveryEnds
  \/ \E c \in Conns : \/ Connect(c) \/ Accept(c) \/ TrackConn(c) \/ Handshake(c)
                      \/ ServeEnds(c) \/ UntrackConn(c) \/ HandlerDone(c)
  \/ Stop \/ StopListening \/ StopReturns \/ ForceClose \/ StopGivesUp

\* Goroutines go on, the handshake has a deadline, the context of Stop and the grace
\* end.  A session goes on for as long as its connection is open.
Fairness ==
  WF_vars(\/ Bind \/ Publish \/ (socket = "closed" /\ ServeReturns) \/ RecoveryEnds
          \/ \E c \in Conns : \/ TrackConn(c) \/ Handshake(c) \/ UntrackConn(c)
                              \/ HandlerDone(c) \/ (c \notin peer /\ ServeEnds(c))
          \/ StopListening \/ StopReturns \/ ForceClose \/ StopGivesUp)

Spec == Init /\ [][Next]_vars /\ Fairness
-----------------------------------------------------------------------------
TypeOK ==
  /\ conns \subseteq Handling /\ Cardinality(conns) <= MaxConns
  /\ stop \in {"no", "closing", "wait", "forced", "clean", "late"}

\* When Stop has returned without an error, nothing of the gateway runs or will run:
\* no handler, no recovery of evidence, no connection in the table, whatever Start
\* was doing when Stop was called (trackConn, startEvidenceRecovery, listen).
StoppedIsQuiet ==
  stop = "clean" => Waited /\ conns = {} /\ (start \in {"bound", "serve"} /\ listener => socket = "closed")

\* Stop returns whatever the clients do, and then every connection it closed by force
\* has its handler ended and the accept loop has returned.
GatewayEnds ==
  /\ closing ~> stop \in {"clean", "late"}
  /\ stop = "forced" ~> Waited /\ start # "serve"
=============================================================================
