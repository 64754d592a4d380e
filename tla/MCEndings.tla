------------------------------ MODULE MCEndings ------------------------------
(*****************************************************************************)
(* Small instances of what must come to an end: executions, terminals and    *)
(* their gateway, application streams and log tails. Each behaviour is one   *)
(* of one component, which Init chooses; the fairness of a component is in   *)
(* its properties.                                                           *)
(*****************************************************************************)
EXTENDS Naturals

CONSTANTS x, y, z, None

VARIABLE component   \* the component of this behaviour

VARIABLES phase, executionsPending, attached, sealed, expired,
          executionsCancelled, manager, executionsUsed, terminals,
          maintenance, records, disk, stable, writer, started, alive, orphans,
          executionsCrashes
VARIABLES reg, gate, queue, terminalsWatch, lock, pc, tear, closer,
          terminalsPending, auth, maint, terminalsConn, ender, gens,
          terminalsStream, terminalsDown, terminalsUp, inbox, shell
VARIABLES valid, tunnelsClosed, tunnelsConn, capable, tun, dialer,
          tunnelsWatch, tunnelsRpc, tunnelsGens, tunnelsStream, tunnelsDown,
          tunnelsUp, sock
VARIABLES app, version, member, revision, anchor, ticket, row, log, auditor,
          accessPending, quarantine, accessClosing, accessReq, denied,
          accessCrashes
VARIABLES gen, tailsUsed, tailsReq, slots, session, tailsWire, tailsUp, tail
VARIABLES start, socket, listener, gatewayClosing, conns, handler, peer,
          recovery, gatewayCancelled, stop
VARIABLES bytesClosed, bytesRpc, call, outgoing, sender, sendSequence,
          writeEOF, bytesWire, incoming, receiveSequence, receiveEOF, reading,
          got, accepted

executionsVars == <<phase, executionsPending, attached, sealed, expired,
                    executionsCancelled, manager, executionsUsed, terminals,
                    maintenance, records, disk, stable, writer, started,
                    alive, orphans, executionsCrashes>>
terminalsVars == <<reg, gate, queue, terminalsWatch, lock, pc, tear, closer,
                   terminalsPending, auth, maint, terminalsConn, ender, gens,
                   terminalsStream, terminalsDown, terminalsUp, inbox, shell>>
tunnelsVars == <<valid, tunnelsClosed, tunnelsConn, capable, tun, dialer,
                 tunnelsWatch, tunnelsRpc, tunnelsGens, tunnelsStream,
                 tunnelsDown, tunnelsUp, sock>>
accessVars == <<app, version, member, revision, anchor, ticket, row, log,
                auditor, accessPending, quarantine, accessClosing, accessReq,
                denied, accessCrashes>>
tailsVars == <<gen, tailsUsed, tailsReq, slots, session, tailsWire, tailsUp,
               tail>>
gatewayVars == <<start, socket, listener, gatewayClosing, conns, handler,
                 peer, recovery, gatewayCancelled, stop>>
bytesVars == <<bytesClosed, bytesRpc, call, outgoing, sender, sendSequence,
               writeEOF, bytesWire, incoming, receiveSequence, receiveEOF,
               reading, got, accepted>>

Executions == INSTANCE AgentExecution WITH
    Attempts <- {x, y}, Executions <- {z}, IdOf <- [p \in {x, y} |-> z],
    Enhanced <- {y}, Maximum <- 1, MaxCrashes <- 0, Absent <- None,
    pending <- executionsPending, cancelled <- executionsCancelled,
    used <- executionsUsed, crashes <- executionsCrashes

\* One connection of the agent, which may be lost at any point.
Terminals == INSTANCE TerminalSessions WITH
    Web <- {}, Ssh <- {x}, MaxGens <- 1, MaxQueue <- 1, MaxOnNode <- 1,
    MaxWatchers <- 1, watch <- terminalsWatch, pending <- terminalsPending,
    conn <- terminalsConn, stream <- terminalsStream, down <- terminalsDown,
    up <- terminalsUp

Tunnels == INSTANCE ApplicationTunnels WITH
    Tunnels <- {x}, MaxTunnels <- 1, MaxSockets <- 1, MaxGens <- 2,
    closed <- tunnelsClosed, conn <- tunnelsConn, watch <- tunnelsWatch,
    rpc <- tunnelsRpc, gens <- tunnelsGens, stream <- tunnelsStream,
    down <- tunnelsDown, up <- tunnelsUp

Access == INSTANCE ApplicationAccess WITH
    Sessions <- {z}, Requests <- {x}, NoSession <- None, MaxVersion <- 2,
    MaxRevision <- 2, MaxPending <- 1, MaxCrashes <- 0,
    pending <- accessPending, closing <- accessClosing, req <- accessReq,
    crashes <- accessCrashes

Tails == INSTANCE LogTails WITH
    Tails <- {x}, Admins <- {}, ViewerLimit <- 1, AdminLimit <- 1,
    NodeLimit <- 2, Buffer <- 1, MaxPieces <- 2, MaxGens <- 2,
    used <- tailsUsed, req <- tailsReq, wire <- tailsWire, up <- tailsUp

Gateway == INSTANCE GatewayServer WITH
    Conns <- {x, y}, MaxConns <- 1, Recovers <- TRUE,
    closing <- gatewayClosing, cancelled <- gatewayCancelled

Bytes == INSTANCE ProxyConn WITH
    Writers <- {x}, Closer <- z, Frames <- 2, Reads <- 1,
    closed <- bytesClosed, rpc <- bytesRpc, wire <- bytesWire

Init ==
    /\ component \in {"Executions", "Terminals", "Tunnels", "Access", "Tails",
                     "Gateway", "Bytes"}
    /\ Executions!Init /\ Terminals!Init /\ Tunnels!Init
    /\ Access!Init /\ Tails!Init /\ Gateway!Init
    /\ Bytes!Init

Next ==
    \/ /\ component = "Executions" /\ Executions!Next
       /\ UNCHANGED <<component, terminalsVars, tunnelsVars, accessVars, tailsVars, gatewayVars,
                      bytesVars>>
    \/ /\ component = "Terminals" /\ Terminals!Next
       /\ UNCHANGED <<component, executionsVars, tunnelsVars, accessVars, tailsVars, gatewayVars,
                      bytesVars>>
    \/ /\ component = "Tunnels" /\ Tunnels!Next
       /\ UNCHANGED <<component, executionsVars, terminalsVars, accessVars, tailsVars,
                      gatewayVars, bytesVars>>
    \/ /\ component = "Access" /\ Access!Next
       /\ UNCHANGED <<component, executionsVars, terminalsVars, tunnelsVars, tailsVars,
                      gatewayVars, bytesVars>>
    \/ /\ component = "Tails" /\ Tails!Next
       /\ UNCHANGED <<component, executionsVars, terminalsVars, tunnelsVars, accessVars,
                      gatewayVars, bytesVars>>
    \/ /\ component = "Gateway" /\ Gateway!Next
       /\ UNCHANGED <<component, executionsVars, terminalsVars, tunnelsVars, accessVars,
                      tailsVars, bytesVars>>
    \/ /\ component = "Bytes" /\ Bytes!Next
       /\ UNCHANGED <<component, executionsVars, terminalsVars, tunnelsVars, accessVars,
                      tailsVars, gatewayVars>>

-----------------------------------------------------------------------------

\* AgentExecution: every place an attempt took in the session budget comes back,
\* and Close ends (ReleaseExecution, expire, Manager.Close).
ExecutionPlacesComeBack ==
    component = "Executions" /\ Executions!Fairness =>
        Executions!PlacesComeBack /\ Executions!CloseCompletes

\* TerminalSessions: a terminal whose authority is lost ends, and the slot of its
\* watcher comes back.  GatewayServer: Stop returns, and what it closed by force
\* ends (watchAuthority, RevokeAuthority, Remove, Server.Stop).
TerminalsEnd ==
    /\ component = "Terminals" /\ Terminals!Fairness =>
          Terminals!LostAuthorityEnds /\ Terminals!WatcherSlotReturns
    /\ component = "Gateway" /\ Gateway!Fairness => Gateway!GatewayEnds

\* ApplicationTunnels: the place of a tunnel that is over comes back.
\* ApplicationAccess: the streams of a session without access are closed.
\* ProxyConn: every Write returns, and the sender of a closed Conn ends (Wait,
\* checkStreams, sendLoop).
ApplicationsEnd ==
    /\ component = "Tunnels" /\ Tunnels!Fairness => Tunnels!PlaceComesBack
    /\ component = "Access" /\ Access!Fairness => Access!StreamsEnd
    /\ component = "Bytes" /\ Bytes!Fairness => Bytes!CallsReturn

\* LogTails: the tail of a viewer who has left stops on the agent (handleLogs).
TailStops == component = "Tails" /\ Tails!Fairness => Tails!TailStops
=============================================================================
