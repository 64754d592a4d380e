----------------------------- MODULE FileUploads -----------------------------
(***************************************************************************)
(* File uploads to a node's drop zone: the Hub's handler                   *)
(* (server/handlers_upload.go), the table of requests that wait for an     *)
(* answer (grpcserver/pending.go), the place of an upload in the activity  *)
(* ledger (connmgr/activities.go), and the agent's staging of the pieces   *)
(* (dropzone/dropzone.go).  All uploads carry the same file name.          *)
(*                                                                         *)
(* The control stream keeps order in both directions and is lost as a      *)
(* whole, which the Hub and the agent notice each at its own time.  The    *)
(* agent handles upload messages on its receive loop.                      *)
(***************************************************************************)
EXTENDS Naturals, Sequences, FiniteSets

CONSTANTS Uploads,    \* requests, each with an id of its own
          Chunks,     \* pieces a file is sent in
          MaxNode,    \* MaxNodeActivities
          MaxFaults,  \* bound: refusals and failures at the agent
          MaxGens     \* bound: connections

VARIABLES gen,        \* the registered connection, 0 when there is none
          used,       \* connections so far
          session,    \* the connection the agent is on, 0 when there is none
          up,         \* the Hub's handler of each upload
          waiter,     \* its entry in PendingRequests
          place,      \* its entry in the activity ledger
          uncertain,  \* the ledger's slot for the work of a lost connection
          wire, acks, \* the stream to the agent and back
          part,       \* the agent's open uploads: the pieces written
          file,       \* the file in the drop zone
          stored,     \* every file that got its final name, for the properties
          faults

vars == <<gen, used, session, up, waiter, place, uncertain, wire, acks, part, file,
          stored, faults>>
link == <<gen, used, session, uncertain>>
stream == <<wire, acks>>
node == <<part, file, stored, faults>>

NoFile == [id |-> "none", pieces |-> <<>>]
NoPart == <<0>>
Idle == [pc |-> "idle", on |-> 0, k |-> 0, told |-> "nothing"]
Whole == [i \in 1 .. Chunks |-> i]

Piece(u, k, named) ==
    [id |-> u, type |-> "chunk", k |-> k, named |-> named, done |-> FALSE]
Final(u, named) ==
    [id |-> u, type |-> "chunk", k |-> 0, named |-> named, done |-> TRUE]
Abort(u) ==
    [id |-> u, type |-> "abort", k |-> 0, named |-> FALSE, done |-> FALSE]
Ack(u, ok) == [id |-> u, ok |-> ok]

TypeOK ==
    /\ gen \in 0 .. used /\ used \in 0 .. MaxGens /\ session \in 0 .. used
    /\ uncertain \in BOOLEAN
    /\ \A u \in Uploads :
          /\ up[u].k \in 0 .. Chunks
          /\ up[u].told \in {"nothing", "stored", "failed"}
          /\ waiter[u] \in {"none", "empty", "ok", "err"}
          /\ place[u] \in {"none", "admitted", "dispatched", "abandoned"}
    /\ faults \in 0 .. MaxFaults

Init ==
    /\ gen = 1 /\ used = 1 /\ session = 1 /\ uncertain = FALSE
    /\ up = [u \in Uploads |-> Idle]
    /\ waiter = [u \in Uploads |-> "none"]
    /\ place = [u \in Uploads |-> "none"]
    /\ wire = <<>> /\ acks = <<>>
    /\ part = [u \in Uploads |-> NoPart]
    /\ file = NoFile /\ stored = {} /\ faults = 0

(***************************************************************************)
(* The Hub's handler                                                       *)
(***************************************************************************)

Goes(u, r) == up' = [up EXCEPT ![u] = r]
Placed(u, p) == place' = [place EXCEPT ![u] = p]
Waits(u, w) == waiter' = [waiter EXCEPT ![u] = w]

\* The places taken: one for each admitted upload, one for the uncertainty.
Active == {u \in Uploads : place[u] # "none"} \cup (IF uncertain THEN {"lost"} ELSE {})

\* What either side sends is lost once the other side has left.
Sent(q, m) == IF session = gen THEN Append(q, m) ELSE q

\* The place is reserved and the waiter registered before the body is read.
HandleUploadFile(u) ==
    /\ up[u].pc = "idle" /\ gen # 0
    /\ IF Cardinality(Active) < MaxNode
       THEN /\ Goes(u, [Idle EXCEPT !.pc = "stream", !.on = gen])
            /\ Placed(u, "admitted") /\ Waits(u, "empty")
       ELSE /\ Goes(u, [Idle EXCEPT !.pc = "over", !.told = "failed"])
            /\ UNCHANGED <<place, waiter>>
    /\ UNCHANGED <<link, stream, node>>

\* Only the first message of an upload names the file.
ChunkFilename(u) == up[u].k = 0

\* Send refuses an upload that the ledger no longer admits and a connection
\* that is gone.
Sendable(u) == gen = up[u].on /\ place[u] \in {"admitted", "dispatched"}

\* The handler gives up: its waiter goes first.
Fails(u) ==
    /\ Goes(u, [up[u] EXCEPT !.pc = "abort", !.told = "failed"])
    /\ Waits(u, "none")

SendUploadActivity(u) ==
    /\ up[u].pc = "stream"
    /\ IF Sendable(u)
       THEN /\ Placed(u, "dispatched")
            /\ UNCHANGED waiter
            /\ IF up[u].k < Chunks
               THEN /\ Goes(u, [up[u] EXCEPT !.k = @ + 1])
                    /\ wire' = Sent(wire, Piece(u, up[u].k + 1, ChunkFilename(u)))
               ELSE /\ Goes(u, [up[u] EXCEPT !.pc = "wait"])
                    /\ wire' = Sent(wire, Final(u, ChunkFilename(u)))
       ELSE Fails(u) /\ UNCHANGED <<place, wire>>
    /\ UNCHANGED <<link, acks, node>>

\* The browser leaves, the body is too large or stalls, the connection ends
\* or the answer does not come in time.
UploadGivesUp(u) ==
    /\ up[u].pc \in {"stream", "wait"}
    /\ Fails(u)
    /\ UNCHANGED <<link, place, stream, node>>

\* CompleteResponse releases the place, if the connection is still the one.
\* The acknowledgement decides the answer.
UploadAnswered(u) ==
    /\ up[u].pc = "wait" /\ waiter[u] \in {"ok", "err"}
    /\ Placed(u, "none")
    /\ Goes(u, [up[u] EXCEPT !.pc = "over",
                  !.told = IF waiter[u] = "ok" THEN "stored" ELSE "failed"])
    /\ Waits(u, "none")
    /\ UNCHANGED <<link, stream, node>>

\* Abandon forgets a place that was never used and keeps one whose end only
\* the agent knows.
AfterAbandon_Forgets(p) == "none"
AfterAbandon(p) ==
    IF p = "dispatched" THEN "abandoned" ELSE IF p = "admitted" THEN "none" ELSE p

\* The deferred clean-up: an upload that reached the agent is aborted there.
AbortUpload(u) ==
    /\ up[u].pc = "abort"
    /\ Goes(u, [up[u] EXCEPT !.pc = "over"])
    /\ wire' = IF place[u] = "dispatched" /\ gen = up[u].on
               THEN Sent(wire, Abort(u)) ELSE wire
    /\ Placed(u, AfterAbandon(place[u]))
    /\ UNCHANGED <<link, waiter, acks, node>>

\* An acknowledgement arrives: the place is free, and the waiter, if it is
\* still there and has none yet, gets it.
DeliverAck ==
    /\ acks # <<>>
    /\ LET a == Head(acks) IN
       /\ Placed(a.id, "none")
       /\ IF waiter[a.id] = "empty"
          THEN Waits(a.id, IF a.ok THEN "ok" ELSE "err") ELSE UNCHANGED waiter
    /\ acks' = Tail(acks)
    /\ UNCHANGED <<link, up, wire, node>>

(***************************************************************************)
(* The agent                                                               *)
(***************************************************************************)

Answer(u, ok) == acks' = Sent(acks, Ack(u, ok))
Parted(u, p) == part' = [part EXCEPT ![u] = p]

\* The upload ends with an error: the partial file is removed.
ChunkFails(u) ==
    /\ Answer(u, FALSE) /\ Parted(u, NoPart)
    /\ UNCHANGED <<file, stored>>

\* A message for an upload that is not open must name the file.
CanOpen(m) == part[m.id] # NoPart \/ m.named

Written(m) ==
    LET before == IF part[m.id] = NoPart THEN <<>> ELSE part[m.id] IN
    IF m.done THEN before ELSE Append(before, m.k)

\* HandleChunk: open on the first message, write, and rename on the last.
HandleChunk(m) ==
    IF ~CanOpen(m) THEN ChunkFails(m.id)
    ELSE IF ~m.done
    THEN Parted(m.id, Written(m)) /\ UNCHANGED <<acks, file, stored>>
    ELSE LET f == [id |-> m.id, pieces |-> Written(m)] IN
         /\ file' = f /\ stored' = stored \cup {f}
         /\ Parted(m.id, NoPart) /\ Answer(m.id, TRUE)

\* dropzone.Abort removes a live partial upload and always answers.
AbortPart(m) ==
    /\ Parted(m.id, NoPart) /\ Answer(m.id, FALSE)
    /\ UNCHANGED <<file, stored>>

AgentReceives ==
    /\ wire # <<>> /\ wire' = Tail(wire)
    /\ LET m == Head(wire) IN
       IF m.type = "abort" THEN AbortPart(m) ELSE HandleChunk(m)
    /\ UNCHANGED <<link, up, waiter, place, faults>>

\* No place or budget for the upload, or the disk fails.
AgentChunkFails ==
    /\ faults < MaxFaults /\ faults' = faults + 1
    /\ wire # <<>> /\ wire' = Tail(wire)
    /\ Head(wire).type = "chunk" /\ ChunkFails(Head(wire).id)
    /\ UNCHANGED <<link, up, waiter, place>>

(***************************************************************************)
(* The connection                                                          *)
(***************************************************************************)

\* endActivitiesLocked: the entries of a connection collapse into the one slot
\* for uncertainty, if the agent may have heard of any.
EndActivities ==
    /\ place' = [u \in Uploads |-> "none"]
    /\ uncertain' = (uncertain \/ \E u \in Uploads : place[u] \in {"dispatched", "abandoned"})

\* The stream is lost, also because a send was cut short by its caller.  The Hub
\* may notice while the agent still handles what it has received.
Disconnect ==
    /\ gen # 0 /\ gen' = 0
    /\ acks' = <<>>
    /\ EndActivities
    /\ UNCHANGED <<used, session, up, waiter, wire, node>>

\* The agent notices: the end of its session cleans up the partial uploads.
AgentDisconnects ==
    /\ session # 0 /\ session' = 0
    /\ wire' = <<>>
    /\ part' = [u \in Uploads |-> NoPart]
    /\ UNCHANGED <<gen, used, up, waiter, place, uncertain, acks, file, stored, faults>>

\* The agent dials again once its session has ended; Register replaces a
\* connection the Hub still holds.
Reconnect ==
    /\ session = 0 /\ used < MaxGens
    /\ used' = used + 1 /\ gen' = used + 1 /\ session' = used + 1
    /\ acks' = <<>>
    /\ EndActivities
    /\ UNCHANGED <<up, waiter, wire, node>>

\* The count of zero that a session reports first clears the uncertainty.
ObserveActivityCapabilities ==
    /\ gen # 0 /\ uncertain
    /\ uncertain' = FALSE
    /\ UNCHANGED <<gen, used, session, up, waiter, place, stream, node>>

Next ==
    \/ DeliverAck \/ AgentReceives \/ AgentChunkFails
    \/ Disconnect \/ AgentDisconnects \/ Reconnect \/ ObserveActivityCapabilities
    \/ \E u \in Uploads :
          \/ HandleUploadFile(u) \/ SendUploadActivity(u) \/ UploadGivesUp(u)
          \/ UploadAnswered(u) \/ AbortUpload(u)

Spec == Init /\ [][Next]_vars

(***************************************************************************)
(* Properties                                                              *)
(***************************************************************************)

\* A file gets its final name only with every piece in order, and a browser
\* that is told of success finds it stored, whatever failed on the way or
\* arrived late (HandleChunk, chunkFilename, Deliver).
UploadedIsWhole ==
    /\ \A f \in stored : f.pieces = Whole
    /\ \A u \in Uploads :
          up[u].told = "stored" => [id |-> u, pieces |-> Whole] \in stored

\* A partial upload at the agent always has its place in the Hub's ledger, or is
\* covered by the uncertainty of its lost connection, so that an update never
\* replaces the agent under it (abandonActivity, endActivitiesLocked, Abort).
PartialIsAccounted ==
    \A u \in Uploads :
        part[u] # NoPart => place[u] \in {"dispatched", "abandoned"} \/ uncertain
=============================================================================
