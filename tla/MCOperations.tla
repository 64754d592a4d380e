---------------------------- MODULE MCOperations -----------------------------
(*****************************************************************************)
(* Small instances of what users, commands and administrators do through     *)
(* the Hub. Each behaviour is one of one component: Init chooses it, and     *)
(* the components share the variables below.  The agent's executions keep    *)
(* the variables and the names of their module.                              *)
(*****************************************************************************)
EXTENDS AgentExecution, TLC

CONSTANTS x, y, z, None, e1

OneExecution == [p \in Attempts |-> e1]

VARIABLES component,   \* the component of this behaviour
          v1, v2, v3, v4, v5, v6, v7, v8, v9, v10, v11, v12, v13, v14, v15,
          v16, v17, v18, v19, v20, v21, v22   \* its variables, in order

slots == <<v1, v2, v3, v4, v5, v6, v7, v8, v9, v10, v11, v12, v13, v14, v15,
           v16, v17, v18, v19, v20, v21, v22>>

Unused(v) == v = "unused"

Updates == INSTANCE AgentUpdates WITH
    MaxOps <- 2, MaxGens <- 4, MaxBoots <- 5, MaxFaults <- 0,
    row <- v1, age <- v2, conn <- v3, cap <- v4,
    origin <- v5, maintenance <- v6, starter <- v7, asker <- v8,
    observers <- v9, up <- v10, down <- v11, binary <- v12, proc <- v13,
    journal <- v14, worker <- v15, legacy <- v16, helper <- v17,
    supervisor <- v18, candidates <- v19, backups <- v20, faults <- v21,
    unheard <- v22

FaultyUpdate == INSTANCE AgentUpdates WITH
    MaxOps <- 1, MaxGens <- 4, MaxBoots <- 5, MaxFaults <- 1,
    row <- v1, age <- v2, conn <- v3, cap <- v4,
    origin <- v5, maintenance <- v6, starter <- v7, asker <- v8,
    observers <- v9, up <- v10, down <- v11, binary <- v12, proc <- v13,
    journal <- v14, worker <- v15, legacy <- v16, helper <- v17,
    supervisor <- v18, candidates <- v19, backups <- v20, faults <- v21,
    unheard <- v22

Notices == INSTANCE Notifications WITH
    MaxGens <- 2, MaxAlarms <- 0, MaxEdits <- 1, QueueSize <- 1, conn <- v1,
    used <- v2, on <- v3, fin <- v4, timer <- v5, fired <- v6, late <- v7,
    queue <- v8, priorityQueue <- v9, open <- v10, closing <- v11,
    worker <- v12, settings <- v13, cache <- v14, admin <- v15, muted <- v16,
    alarms <- v17, edits <- v18, panicked <- v19

Alarms == INSTANCE Notifications WITH
    MaxGens <- 2, MaxAlarms <- 1, MaxEdits <- 0, QueueSize <- 1, conn <- v1,
    used <- v2, on <- v3, fin <- v4, timer <- v5, fired <- v6, late <- v7,
    queue <- v8, priorityQueue <- v9, open <- v10, closing <- v11,
    worker <- v12, settings <- v13, cache <- v14, admin <- v15, muted <- v16,
    alarms <- v17, edits <- v18, panicked <- v19

Uploads == INSTANCE FileUploads WITH
    Uploads <- {x, y}, Chunks <- 2, MaxNode <- 2, MaxFaults <- 1,
    MaxGens <- 2, gen <- v1, used <- v2, up <- v3, waiter <- v4, place <- v5,
    wire <- v6, acks <- v7, part <- v8, file <- v9, stored <- v10,
    faults <- v11, session <- v12, uncertain <- v13

LogTail == INSTANCE LogTails WITH
    Tails <- {x, y, z}, Admins <- {z}, ViewerLimit <- 1, AdminLimit <- 1,
    NodeLimit <- 2, Buffer <- 1, MaxPieces <- 1, MaxGens <- 1, gen <- v1,
    used <- v2, req <- v3, slots <- v4, session <- v5, wire <- v6, up <- v7,
    tail <- v8

Terminals == INSTANCE TerminalSessions WITH
    Web <- {z}, Ssh <- {}, MaxGens <- 1, MaxQueue <- 1, MaxOnNode <- 1,
    MaxWatchers <- 1, reg <- v1, gate <- v2, queue <- v3, watch <- v4,
    lock <- v5, pc <- v6, tear <- v7, closer <- v8, pending <- v9,
    auth <- v10, maint <- v11, conn <- v12, ender <- v13, stream <- v14,
    down <- v15, up <- v16, inbox <- v17, shell <- v18, gens <- v19

SshTerminals == INSTANCE TerminalSessions WITH
    Web <- {}, Ssh <- {z}, MaxGens <- 2, MaxQueue <- 1, MaxOnNode <- 1,
    MaxWatchers <- 1, reg <- v1, gate <- v2, queue <- v3, watch <- v4,
    lock <- v5, pc <- v6, tear <- v7, closer <- v8, pending <- v9,
    auth <- v10, maint <- v11, conn <- v12, ender <- v13, stream <- v14,
    down <- v15, up <- v16, inbox <- v17, shell <- v18, gens <- v19

Redials == INSTANCE ApplicationTunnels WITH
    Tunnels <- {z}, MaxTunnels <- 1, MaxSockets <- 1, MaxGens <- 2,
    valid <- v1, closed <- v2, conn <- v3, capable <- v4, tun <- v5,
    dialer <- v6, watch <- v7, rpc <- v8, stream <- v9, down <- v10,
    up <- v11, sock <- v12, gens <- v13

Tunnels == INSTANCE ApplicationTunnels WITH
    Tunnels <- {x, y}, MaxTunnels <- 1, MaxSockets <- 1, MaxGens <- 1,
    valid <- v1, closed <- v2, conn <- v3, capable <- v4, tun <- v5,
    dialer <- v6, watch <- v7, rpc <- v8, stream <- v9, down <- v10,
    up <- v11, sock <- v12, gens <- v13

Access == INSTANCE ApplicationAccess WITH
    Sessions <- {x, y}, Requests <- {z}, NoSession <- None, MaxVersion <- 2,
    MaxRevision <- 2, MaxPending <- 1, MaxCrashes <- 0, app <- v1,
    version <- v2, member <- v3, revision <- v4, anchor <- v5, ticket <- v6,
    row <- v7, log <- v8, auditor <- v9, pending <- v10, quarantine <- v11,
    closing <- v12, req <- v13, denied <- v14, crashes <- v15

Restarts == INSTANCE ApplicationAccess WITH
    Sessions <- {z}, Requests <- {x, y}, NoSession <- None, MaxVersion <- 1,
    MaxRevision <- 2, MaxPending <- 1, MaxCrashes <- 1, app <- v1,
    version <- v2, member <- v3, revision <- v4, anchor <- v5, ticket <- v6,
    row <- v7, log <- v8, auditor <- v9, pending <- v10, quarantine <- v11,
    closing <- v12, req <- v13, denied <- v14, crashes <- v15

Cli == INSTANCE CliCredentials WITH
    Procs <- {x, y}, NoProc <- None,
    Kinds <- {"command", "ssh", "login", "logout", "ssh-cert"}, Alone <- TRUE,
    MaxStarts <- 3, MaxSessions <- 2, MaxFaults <- 0, backend <- v1,
    gen <- v2, content <- v3, cred <- v4, tmp <- v5, lock <- v6, proc <- v7,
    starts <- v8, faults <- v9, signedIn <- v10, lost <- v11

CliFaults == INSTANCE CliCredentials WITH
    Procs <- {x, y}, NoProc <- None,
    Kinds <- {"command", "ssh", "login", "logout", "ssh-cert"}, Alone <- TRUE,
    MaxStarts <- 2, MaxSessions <- 2, MaxFaults <- 1, backend <- v1,
    gen <- v2, content <- v3, cred <- v4, tmp <- v5, lock <- v6, proc <- v7,
    starts <- v8, faults <- v9, signedIn <- v10, lost <- v11

SelfUpdate == INSTANCE CliUpdate WITH
    Procs <- {x, y}, NoProc <- None, MaxVersion <- 3, MaxOutages <- 1,
    latest <- v1, dir <- v2, durable <- v3, lock <- v4, proc <- v5,
    outages <- v6

Gateway == INSTANCE GatewayServer WITH
    Conns <- {x, y, z}, MaxConns <- 2, Recovers <- TRUE, start <- v1,
    socket <- v2, listener <- v3, closing <- v4, conns <- v5, handler <- v6,
    peer <- v7, recovery <- v8, cancelled <- v9, stop <- v10

Bytes == INSTANCE ProxyConn WITH
    Writers <- {x, y}, Closer <- z, Frames <- 2, Reads <- 1, closed <- v1,
    rpc <- v2, call <- v3, outgoing <- v4, sender <- v5, sendSequence <- v6,
    writeEOF <- v7, wire <- v8, incoming <- v9, receiveSequence <- v10,
    receiveEOF <- v11, reading <- v12, got <- v13, accepted <- v14

MCInit ==
    /\ Init
    /\ \/ /\ component = "Executions"
          /\ Unused(v1) /\ Unused(v2) /\ Unused(v3) /\ Unused(v4) /\ Unused(v5)
          /\ Unused(v6) /\ Unused(v7) /\ Unused(v8) /\ Unused(v9) /\ Unused(v10)
          /\ Unused(v11) /\ Unused(v12) /\ Unused(v13) /\ Unused(v14) /\ Unused(v15)
          /\ Unused(v16) /\ Unused(v17) /\ Unused(v18) /\ Unused(v19) /\ Unused(v20)
          /\ Unused(v21) /\ Unused(v22)
       \/ /\ component = "Updates" /\ Updates!Init
       \/ /\ component = "FaultyUpdate" /\ FaultyUpdate!Init
       \/ /\ component = "Notices" /\ Notices!Init
          /\ Unused(v20) /\ Unused(v21) /\ Unused(v22)
       \/ /\ component = "Alarms" /\ Alarms!Init
          /\ Unused(v20) /\ Unused(v21) /\ Unused(v22)
       \/ /\ component = "Uploads" /\ Uploads!Init
          /\ Unused(v14) /\ Unused(v15) /\ Unused(v16) /\ Unused(v17) /\ Unused(v18)
          /\ Unused(v19) /\ Unused(v20) /\ Unused(v21) /\ Unused(v22)
       \/ /\ component = "LogTail" /\ LogTail!Init
          /\ Unused(v9) /\ Unused(v10) /\ Unused(v11) /\ Unused(v12) /\ Unused(v13)
          /\ Unused(v14) /\ Unused(v15) /\ Unused(v16) /\ Unused(v17) /\ Unused(v18)
          /\ Unused(v19) /\ Unused(v20) /\ Unused(v21) /\ Unused(v22)
       \/ /\ component = "Terminals" /\ Terminals!Init
          /\ Unused(v20) /\ Unused(v21) /\ Unused(v22)
       \/ /\ component = "SshTerminals" /\ SshTerminals!Init
          /\ Unused(v20) /\ Unused(v21) /\ Unused(v22)
       \/ /\ component = "Tunnels" /\ Tunnels!Init
          /\ Unused(v14) /\ Unused(v15) /\ Unused(v16) /\ Unused(v17) /\ Unused(v18)
          /\ Unused(v19) /\ Unused(v20) /\ Unused(v21) /\ Unused(v22)
       \/ /\ component = "Redials" /\ Redials!Init
          /\ Unused(v14) /\ Unused(v15) /\ Unused(v16) /\ Unused(v17) /\ Unused(v18)
          /\ Unused(v19) /\ Unused(v20) /\ Unused(v21) /\ Unused(v22)
       \/ /\ component = "Access" /\ Access!Init
          /\ Unused(v16) /\ Unused(v17) /\ Unused(v18) /\ Unused(v19) /\ Unused(v20)
          /\ Unused(v21) /\ Unused(v22)
       \/ /\ component = "Restarts" /\ Restarts!Init
          /\ Unused(v16) /\ Unused(v17) /\ Unused(v18) /\ Unused(v19) /\ Unused(v20)
          /\ Unused(v21) /\ Unused(v22)
       \/ /\ component = "Cli" /\ Cli!Init
          /\ Unused(v12) /\ Unused(v13) /\ Unused(v14) /\ Unused(v15) /\ Unused(v16)
          /\ Unused(v17) /\ Unused(v18) /\ Unused(v19) /\ Unused(v20) /\ Unused(v21)
          /\ Unused(v22)
       \/ /\ component = "CliFaults" /\ CliFaults!Init
          /\ Unused(v12) /\ Unused(v13) /\ Unused(v14) /\ Unused(v15) /\ Unused(v16)
          /\ Unused(v17) /\ Unused(v18) /\ Unused(v19) /\ Unused(v20) /\ Unused(v21)
          /\ Unused(v22)
       \/ /\ component = "SelfUpdate" /\ SelfUpdate!Init
          /\ Unused(v7) /\ Unused(v8) /\ Unused(v9) /\ Unused(v10) /\ Unused(v11)
          /\ Unused(v12) /\ Unused(v13) /\ Unused(v14) /\ Unused(v15) /\ Unused(v16)
          /\ Unused(v17) /\ Unused(v18) /\ Unused(v19) /\ Unused(v20) /\ Unused(v21)
          /\ Unused(v22)
       \/ /\ component = "Gateway" /\ Gateway!Init
          /\ Unused(v11) /\ Unused(v12) /\ Unused(v13) /\ Unused(v14) /\ Unused(v15)
          /\ Unused(v16) /\ Unused(v17) /\ Unused(v18) /\ Unused(v19) /\ Unused(v20)
          /\ Unused(v21) /\ Unused(v22)
       \/ /\ component = "Bytes" /\ Bytes!Init
          /\ Unused(v15) /\ Unused(v16) /\ Unused(v17) /\ Unused(v18) /\ Unused(v19)
          /\ Unused(v20) /\ Unused(v21) /\ Unused(v22)

MCNext ==
    /\ UNCHANGED component
    /\ \/ component = "Executions" /\ Next /\ UNCHANGED slots
       \/ /\ component = "Updates" /\ Updates!Next
          /\ UNCHANGED vars
       \/ /\ component = "FaultyUpdate" /\ FaultyUpdate!Next
          /\ UNCHANGED vars
       \/ /\ component = "Notices" /\ Notices!Next
          /\ UNCHANGED <<vars, v20, v21, v22>>
       \/ /\ component = "Alarms" /\ Alarms!Next
          /\ UNCHANGED <<vars, v20, v21, v22>>
       \/ /\ component = "Uploads" /\ Uploads!Next
          /\ UNCHANGED <<vars, v14, v15, v16, v17, v18, v19, v20, v21, v22>>
       \/ /\ component = "LogTail" /\ LogTail!Next
          /\ UNCHANGED <<vars, v9, v10, v11, v12, v13, v14, v15, v16, v17, v18, v19, v20, v21,
                         v22>>
       \/ /\ component = "Terminals" /\ Terminals!Next
          /\ UNCHANGED <<vars, v20, v21, v22>>
       \/ /\ component = "SshTerminals" /\ SshTerminals!Next
          /\ UNCHANGED <<vars, v20, v21, v22>>
       \/ /\ component = "Tunnels" /\ Tunnels!Next
          /\ UNCHANGED <<vars, v14, v15, v16, v17, v18, v19, v20, v21, v22>>
       \/ /\ component = "Redials" /\ Redials!Next
          /\ UNCHANGED <<vars, v14, v15, v16, v17, v18, v19, v20, v21, v22>>
       \/ /\ component = "Access" /\ Access!Next
          /\ UNCHANGED <<vars, v16, v17, v18, v19, v20, v21, v22>>
       \/ /\ component = "Restarts" /\ Restarts!Next
          /\ UNCHANGED <<vars, v16, v17, v18, v19, v20, v21, v22>>
       \/ /\ component = "Cli" /\ Cli!Next
          /\ UNCHANGED <<vars, v12, v13, v14, v15, v16, v17, v18, v19, v20, v21, v22>>
       \/ /\ component = "CliFaults" /\ CliFaults!Next
          /\ UNCHANGED <<vars, v12, v13, v14, v15, v16, v17, v18, v19, v20, v21, v22>>
       \/ /\ component = "SelfUpdate" /\ SelfUpdate!Next
          /\ UNCHANGED <<vars, v7, v8, v9, v10, v11, v12, v13, v14, v15, v16, v17, v18, v19, v20,
                         v21, v22>>
       \/ /\ component = "Gateway" /\ Gateway!Next
          /\ UNCHANGED <<vars, v11, v12, v13, v14, v15, v16, v17, v18, v19, v20, v21, v22>>
       \/ /\ component = "Bytes" /\ Bytes!Next
          /\ UNCHANGED <<vars, v15, v16, v17, v18, v19, v20, v21, v22>>

Symmetry == Permutations({x, y})

-----------------------------------------------------------------------------

\* AgentUpdates: the Hub calls an update succeeded only if the target is installed
\* and the agent has that durably, rolled back only if the original is; and the
\* node is reserved while its binary may be replaced, as long as no bootstrap helper
\* runs whose start the Hub was not told of (AgentUpdates.observe, supervisor.run).
UpdateOutcomeIsTrue ==
    /\ component = "Updates" =>
          Updates!TypeOK /\ Updates!OutcomeIsTrue /\ Updates!ReplacedUnderMaintenance
    /\ component = "FaultyUpdate" =>
          /\ FaultyUpdate!TypeOK /\ FaultyUpdate!OutcomeIsTrue
          /\ FaultyUpdate!ReplacedUnderMaintenance

\* Notifications: when Close returns, every job that was accepted has been taken
\* by the worker (Dispatcher.Close, drainQueue).
AcceptedIsDrained ==
    /\ component = "Notices" => Notices!TypeOK /\ Notices!ClosedIsDrained
    /\ component = "Alarms" => Alarms!TypeOK /\ Alarms!ClosedIsDrained

\* FileUploads: a file gets its name only whole, success is told only of a stored
\* file, and a partial upload holds a place in the Hub's ledger or is covered by
\* the uncertainty of its lost connection.  LogTails: a user's count of streams is
\* the number open, and viewers leave an administrator room (HandleChunk,
\* abandonActivity, endActivitiesLocked, releaseLogTailSlot).
TransfersAreAccounted ==
    /\ component = "Uploads" =>
          Uploads!TypeOK /\ Uploads!UploadedIsWhole /\ Uploads!PartialIsAccounted
    /\ component = "LogTail" => LogTail!TypeOK /\ LogTail!SlotsAreTrue

\* TerminalSessions: a terminal that was revoked writes nothing more to its user,
\* and a shell of a removed terminal is told to close or about to be.
\* GatewayServer: when Stop has returned without an error nothing of the gateway
\* runs, whatever Start and Accept were doing (terminalSession.revoke,
\* closeRemoved, trackConn, startEvidenceRecovery).
EndedIsSilent ==
    /\ component = "Terminals" =>
          /\ Terminals!TypeOK /\ Terminals!SilentAfterRevocation
          /\ Terminals!RemovedIsTold
    /\ component = "SshTerminals" =>
          /\ SshTerminals!TypeOK /\ SshTerminals!SilentAfterRevocation
          /\ SshTerminals!RemovedIsTold
    /\ component = "Gateway" => Gateway!TypeOK /\ Gateway!StoppedIsQuiet

\* ApplicationTunnels: a socket the agent has open for a tunnel is covered by a
\* place at the Hub.  ApplicationAccess: an application is deleted only when the
\* end of each of its sessions is in the audit log, where it is written once.
\* ProxyConn: the end of a byte stream is read only after all that was written,
\* and no frame is refused (Tunnel.release, DeleteApplication,
\* EndApplicationSession, Conn.writeFrame, Deliver).
ApplicationsAreAccounted ==
    /\ component = "Tunnels" => Tunnels!TypeOK /\ Tunnels!PlaceCoversSocket
    /\ component = "Redials" => Redials!TypeOK /\ Redials!PlaceCoversSocket
    /\ component = "Access" =>
          Access!TypeOK /\ Access!DeletedIsAudited /\ Access!EndAuditedOnce
    /\ component = "Restarts" =>
          Restarts!TypeOK /\ Restarts!DeletedIsAudited /\ Restarts!EndAuditedOnce
    /\ component = "Bytes" =>
          Bytes!TypeOK /\ Bytes!EndIsWhole /\ Bytes!FramesAreInOrder

\* CliCredentials: while one writer at a time is not under the lock, the stored
\* token is the one the Hub accepts or its successor is in the hand of the lock
\* holder, and no command makes another report an expired session.  CliUpdate: an
\* installed release is not lost, the previous executable is kept while the new
\* one is not validated, and an update replaces and restores only what it found
\* (AuthContext.refresh, Store.Save, commitCandidate, restorePrevious).
CliKeepsWorking ==
    /\ component = "Cli" => Cli!TypeOK /\ Cli!StaysSignedIn /\ Cli!RefusedIsOver
    /\ component = "CliFaults" =>
          CliFaults!TypeOK /\ CliFaults!StaysSignedIn /\ CliFaults!RefusedIsOver
    /\ component = "SelfUpdate" =>
          /\ SelfUpdate!TypeOK /\ SelfUpdate!InstalledStays
          /\ SelfUpdate!PreviousIsKept /\ SelfUpdate!ReplacesItsOwn

\* ApplicationAccess: a session once found without access is never admitted again,
\* by this request or by another that began before (CheckApplicationSession).
AuthorityComesFirst ==
    [][/\ component = "Access" => Access!DeniedStaysDenied
       /\ component = "Restarts" => Restarts!DeniedStaysDenied]_slots
=============================================================================
