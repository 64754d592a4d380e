------------------------------ MODULE MCRecords ------------------------------
(*****************************************************************************)
(* Small instances of the records that goroutines of the Hub and processes   *)
(* of the CLI write concurrently: the evidence of an execution, the status   *)
(* of a server, the certificate of a node, the accesses to originals, the    *)
(* exported audit log and the stored credentials. Each behaviour is one of   *)
(* one component, which Init chooses; the fairness of a component is in      *)
(* its properties.                                                           *)
(*****************************************************************************)
EXTENDS Naturals

CONSTANTS x, y, None

VARIABLE component   \* the component of this behaviour

VARIABLES db, images, gw, rec, evidenceArchive, queued, fault, flaw,
          evidenceCrashes
VARIABLES status, writer, statusHandler, silent, closed, statusCurrent,
          monitor
VARIABLES authority, time, proof, req, originalsRow, queue, confirmed,
          originalsArchive, dl, sent, worker, originalsCrashes
VARIABLES backend, gen, content, cred, tmp, lock, proc, starts,
          commandsFaults, signedIn, lost
VARIABLES rejoiningRow, rejoiningCurrent, sess, outcome, approval, late,
          stream, rejoiningHandler, rejoiningToAgent, rejoiningToHub, call,
          agent, rejoiningCrashes
VARIABLES token, id, key, generated, pair, disk, writers, pc, conn, renewing,
          reconnect, certificatesToHub, certificatesToAgent, expired,
          failures, drops, certificatesFaults, certificatesCrashes
VARIABLES ledger, old, cursor, saved, page, indexed, losses, exportCrashes

evidenceVars == <<db, images, gw, rec, evidenceArchive, queued, fault, flaw,
                  evidenceCrashes>>
statusVars == <<status, writer, statusHandler, silent, closed, statusCurrent,
                monitor>>
originalsVars == <<authority, time, proof, req, originalsRow, queue,
                   confirmed, originalsArchive, dl, sent, worker,
                   originalsCrashes>>
commandsVars == <<backend, gen, content, cred, tmp, lock, proc, starts,
                  commandsFaults, signedIn, lost>>
rejoiningVars == <<rejoiningRow, rejoiningCurrent, sess, outcome, approval,
                   late, stream, rejoiningHandler, rejoiningToAgent,
                   rejoiningToHub, call, agent, rejoiningCrashes>>
certificatesVars == <<token, id, key, generated, pair, disk, writers, pc,
                      conn, renewing, reconnect, certificatesToHub,
                      certificatesToAgent, expired, failures, drops,
                      certificatesFaults, certificatesCrashes>>
exportVars == <<ledger, old, cursor, saved, page, indexed, losses,
                exportCrashes>>

Evidence == INSTANCE ExecutionEvidence WITH
    MaxCrashes <- 1, archive <- evidenceArchive, crashes <- evidenceCrashes

Status == INSTANCE ServerStatus WITH
    MaxStreams <- 2, handler <- statusHandler, current <- statusCurrent

Originals == INSTANCE OriginalAccess WITH
    Requests <- {x}, Downloads <- {x}, Bytes <- 1, MaxCrashes <- 0,
    row <- originalsRow, archive <- originalsArchive,
    crashes <- originalsCrashes

Commands == INSTANCE CliCredentials WITH
    Procs <- {x, y}, NoProc <- None, Kinds <- {"command", "ssh"},
    Alone <- TRUE, MaxStarts <- 2, MaxSessions <- 1, MaxFaults <- 1,
    faults <- commandsFaults

Rejoining == INSTANCE ReEnroll WITH
    MaxRequests <- 2, Calls <- {x}, MaxCrashes <- 0, row <- rejoiningRow,
    current <- rejoiningCurrent, handler <- rejoiningHandler,
    toAgent <- rejoiningToAgent, toHub <- rejoiningToHub,
    crashes <- rejoiningCrashes

Certificates == INSTANCE NodeCertificates WITH
    MaxKeys <- 2, MaxDrops <- 1, MaxFaults <- 0, MaxCrashes <- 1,
    ClocksAgree <- FALSE, toHub <- certificatesToHub,
    toAgent <- certificatesToAgent, faults <- certificatesFaults,
    crashes <- certificatesCrashes

Export == INSTANCE AuditExport WITH
    Events <- 1 .. 3, PageSize <- 2, MaxLosses <- 1, MaxCrashes <- 1,
    crashes <- exportCrashes

Init ==
    /\ component \in {"Evidence", "Status", "Originals", "Commands", "Rejoining",
                     "Certificates", "Export"}
    /\ Evidence!Init /\ Status!Init /\ Originals!Init
    /\ Commands!Init /\ Rejoining!Init /\ Certificates!Init
    /\ Export!Init
    /\ component = "Status" \/ status = "pending"
    /\ component = "Commands" \/ (backend = "file" /\ ~content[1].ssh)

Next ==
    \/ /\ component = "Evidence" /\ Evidence!Next
       /\ UNCHANGED <<component, statusVars, originalsVars, commandsVars, rejoiningVars,
                      certificatesVars, exportVars>>
    \/ /\ component = "Status" /\ Status!Next
       /\ UNCHANGED <<component, evidenceVars, originalsVars, commandsVars, rejoiningVars,
                      certificatesVars, exportVars>>
    \/ /\ component = "Originals" /\ Originals!Next
       /\ UNCHANGED <<component, evidenceVars, statusVars, commandsVars, rejoiningVars,
                      certificatesVars, exportVars>>
    \/ /\ component = "Commands" /\ Commands!Next
       /\ UNCHANGED <<component, evidenceVars, statusVars, originalsVars, rejoiningVars,
                      certificatesVars, exportVars>>
    \/ /\ component = "Rejoining" /\ Rejoining!Next
       /\ UNCHANGED <<component, evidenceVars, statusVars, originalsVars, commandsVars,
                      certificatesVars, exportVars>>
    \/ /\ component = "Certificates" /\ Certificates!Next
       /\ UNCHANGED <<component, evidenceVars, statusVars, originalsVars, commandsVars,
                      rejoiningVars, exportVars>>
    \/ /\ component = "Export" /\ Export!Next
       /\ UNCHANGED <<component, evidenceVars, statusVars, originalsVars, commandsVars,
                      rejoiningVars, certificatesVars>>

-----------------------------------------------------------------------------

\* ExecutionEvidence: confirmed evidence is in the archive, a queued event is not
\* forgotten, and evidence is given up only for a fault (ConfirmExecutionEvidence,
\* QueueExecutionEvidence, MarkExecutionEvidencePermanent).  ServerStatus: a late
\* disconnect leaves a server with a live connection online (finishRetirement).
RecordsAreTrue ==
    /\ component = "Evidence" =>
          /\ Evidence!TypeOK /\ Evidence!ConfirmedMeansArchived
          /\ Evidence!QueuedIsNotForgotten /\ Evidence!QueuersAgree
    /\ component = "Status" => Status!TypeOK /\ Status!ReplacementStaysOnline

\* ExecutionEvidence: the evidence of a finished execution is settled, by the
\* gateway or by the recovery (RecoverExecutionEvidence).
EvidenceSettles ==
    component = "Evidence" /\ Evidence!Fairness => Evidence!EvidenceSettles

\* ServerStatus: a server that is gone does not stay online (sweepStaleConnections).
GoneShowsOffline == component = "Status" /\ Status!Fairness => Status!GoneShowsOffline

\* OriginalAccess: every access to an original is settled in the archive or given
\* up for good, also one whose download was never finished (recoverOriginalAccess).
AccessSettles == component = "Originals" /\ Originals!Fairness => Originals!AccessSettles

\* AuditExport: every event of the ledger reaches the index, also when replies are
\* lost and the exporter restarts (RunOnce).
ArchivedIsIndexed == component = "Export" /\ Export!Fairness => Export!ArchivedIsIndexed

\* CliCredentials: every command ends, also when another one holds the refresh lock
\* (LockRefresh).
CommandsEnd == component = "Commands" /\ Commands!Fairness => Commands!CommandsEnd

\* NodeCertificates: a renewed certificate is adopted.  ReEnroll: the administrator
\* who decides about a node gets an answer (adoptRenewed, ApproveReEnroll).
NodeGetsItsCertificate ==
    /\ component = "Certificates" /\ Certificates!Fairness =>
          Certificates!RenewedIsAdopted
    /\ component = "Rejoining" /\ Rejoining!Fairness => Rejoining!DecisionsReturn
=============================================================================
