---------------------------- MODULE AgentUpdates ----------------------------
(***************************************************************************)
(* The update of one agent: the operation the Hub keeps in its store, the    *)
(* worker of the agent that downloads and stages the artifact, the           *)
(* supervisor that replaces the binary and may restore it, and the           *)
(* confirmation that decides between the two.                                *)
(*                                                                           *)
(* Hub: grpcserver/agent_updates.go, store/agent_updates.go.                 *)
(* Agent: internal/update (runtime.go, supervisor.go, files.go) and          *)
(* internal/client/update.go.                                                *)
(*                                                                           *)
(* A binary is "original" or "target": both operations are offered the same  *)
(* artifact.  A journal write is atomic, as the code renames a synced file.  *)
(* Identifiers of connections and boots are compared only for equality, so a *)
(* new one is any that nothing mentions.                                     *)
(***************************************************************************)
EXTENDS Naturals, Sequences

CONSTANTS MaxOps,     \* operations an administrator asks for
          MaxGens,    \* connections that may be told apart at a time
          MaxBoots,   \* boot identities that may be told apart at a time
          MaxFaults   \* lost replies, failed tools, timeouts, crashes, restarts

VARIABLES
  row,          \* store: the operation as the Hub keeps it
  age,          \* per operation: before expiry, after it, or 190 s after it
  conn, cap,    \* the installed connection, and the capabilities observed on it
  origin,       \* u.origins: NoOrigin, Nil after a restart, or a connection
  maintenance,  \* the operation that reserves the node, 0 if none
  starter,      \* Start between its steps
  asker,        \* Status between reading the row and writing it
  observers,    \* ObserveStatus between reading the row and writing it
  up, down,     \* the ordered control stream of the agent
  binary,       \* /usr/local/bin/veyport-agent
  proc,         \* the agent process: boot identity, binary, lease, connection
  journal,      \* agent-update.json
  worker,       \* Begin
  legacy,       \* the original agent cannot update itself
  helper,       \* the bootstrap an administrator runs on the node of such an agent
  supervisor,   \* runOperation
  candidates, backups,
  faults,
  unheard       \* history: a supervisor was started, and the bootstrap that asked
                \* for it was told otherwise (no code reads it)

hubVars == <<row, conn, cap, origin, maintenance, starter, asker, observers>>
agentVars == <<binary, proc, journal, worker, candidates>>
supVars == <<supervisor, backups, legacy, helper>>
vars == <<hubVars, age, up, down, agentVars, supVars, faults, unheard>>
-----------------------------------------------------------------------------
Ops == 1 .. MaxOps
Gens == 1 .. MaxGens
Boots == 1 .. MaxBoots
NoOrigin == MaxGens + 1
Nil == 0

Final == {"succeeded", "failed", "rolled_back", "expired",
          "recovery_acknowledged"}

\* updateInstallationIssued
Issued == {"installing", "unknown", "confirmation_pending",
           "rollback_confirmation_pending"}

RowStates == {"none", "bootstrap_required", "requested", "downloading"} \cup Issued \cup Final

Terminal(r) == r.state \in Final

NoRow == [state |-> "none", observed |-> "none", observedBoot |-> 0,
          previousBoot |-> 0]
NoCap == [gen |-> 0, id |-> "none", boot |-> 0]
NoJournal == [op |-> 0, state |-> "none", confirmed |-> FALSE]
Down == [boot |-> 0, id |-> "none", lease |-> FALSE, gen |-> 0]
Idle == [op |-> 0, at |-> "none", gen |-> 0]
NoStart == [op |-> 0, at |-> "none", gen |-> 0, boot |-> 0, seen |-> "none"]
NoAsk == [op |-> 0, seen |-> NoRow]

\* record.active
Active(j) == j.op # 0 /\ ~j.confirmed /\ j.state # "failed"

\* canSupersede: an abandoned journal of an operation whose supervisor is
\* certainly over, on a node that runs the original binary.
CanSupersede(j, id, op) ==
  /\ j.op \notin {0, op} /\ ~j.confirmed
  /\ j.state \in {"rolled_back", "rolling_back", "downloading", "staged"}
  /\ age[j.op] = "cooled" /\ id = "original"

Caps == [kind |-> "caps", op |-> 0, state |-> "none"]
StatusMsg(op, s) == [kind |-> "status", op |-> op, state |-> s]

\* ResumeStatus: what a process says of the journal, nothing if it is not its own.
ResumeStatus(j, id) ==
  CASE j.op = 0 -> <<>>
    [] j.state = "failed" /\ id = "original" -> <<StatusMsg(j.op, "failed")>>
    [] j.confirmed /\ j.state = "succeeded" /\ id = "target" ->
         <<StatusMsg(j.op, "confirmed")>>
    [] j.confirmed /\ j.state = "rolled_back" /\ id = "original" ->
         <<StatusMsg(j.op, "rollback_confirmed")>>
    [] ~j.confirmed /\ j.state \in {"reconnecting", "installing"} /\ id = "target" ->
         <<StatusMsg(j.op, "reconnecting")>>
    [] ~j.confirmed /\ j.state \in {"rolled_back", "rolling_back"} /\ id = "original" ->
         <<StatusMsg(j.op, "rolled_back")>>
    [] OTHER -> <<>>

\* The lease ResumeStatus leaves: a failed preparation gives it back.
ResumeLease(j, id, lease) ==
  lease /\ ~(j.op # 0 /\ j.state = "failed" /\ id = "original")

\* The lock of the supervisor, held by Begin until it launches one.
OwnerHeld ==
  \/ worker.at \in {"download", "stage", "failing"}
  \/ helper.at \in {"stage", "failing"}
  \/ supervisor.at \notin {"none", "launched"}

UsedGens ==
  {conn, cap.gen, starter.gen, proc.gen, worker.gen} \cup {origin[o] : o \in Ops}
    \cup {w.gen : w \in observers}
UsedBoots ==
  {proc.boot, cap.boot, starter.boot, asker.seen.observedBoot} \cup {row[o].observedBoot : o \in Ops}
    \cup {row[o].previousBoot : o \in Ops}
    \cup {w.cap.boot : w \in observers}

Fresh(all, used) == CHOOSE i \in all \ used : \A j \in all \ used : i <= j

\* Faults strike the first operation; a second one meets what they left behind.
Fault ==
  /\ faults < MaxFaults /\ \A o \in Ops \ {1} : row[o] = NoRow
  /\ faults' = faults + 1

Init ==
  /\ row = [o \in Ops |-> NoRow]
  /\ age = [o \in Ops |-> "live"]
  /\ conn = 0 /\ cap = NoCap
  /\ origin = [o \in Ops |-> NoOrigin]
  /\ maintenance = 0
  /\ starter = NoStart /\ asker = NoAsk
  /\ observers = {}
  /\ up = <<>> /\ down = <<>>
  /\ binary = "original"
  /\ proc = Down
  /\ journal = NoJournal
  /\ worker = Idle /\ supervisor = Idle
  /\ legacy \in BOOLEAN /\ helper = Idle
  /\ candidates = {} /\ backups = {}
  /\ faults = 0 /\ unheard = FALSE
-----------------------------------------------------------------------------
\* release: both reservations and the origin of the operation.
Release(op) ==
  /\ maintenance' = IF maintenance = op THEN 0 ELSE maintenance
  /\ origin' = [origin EXCEPT ![op] = NoOrigin]

\* finishBeforeInstall reads the operation and, unless installation was
\* authorized, fails it if it is still in the state that was read.
FinishBeforeInstall ==
  starter' = IF Terminal(row[starter.op]) \/ row[starter.op].state \in Issued
             THEN NoStart
             ELSE [starter EXCEPT !.at = "finish", !.seen = row[starter.op].state]

StartFinish ==
  /\ starter.at = "finish" /\ starter' = NoStart
  /\ IF row[starter.op].state = starter.seen
     THEN row' = [row EXCEPT ![starter.op].state = "failed"] /\ Release(starter.op)
     ELSE UNCHANGED <<row, maintenance, origin>>
  /\ UNCHANGED <<age, conn, cap, asker, observers, up, down, agentVars, supVars, faults>>

\* validateOrigin: the connection the operation was started on is the installed one.
ValidOrigin(op) == conn # 0 /\ origin[op] = conn /\ age[op] = "live"

\* Start.  Check looks at the capabilities of the installed connection, and the
\* connection is looked up again after it.  An agent without them is bootstrapped
\* by an administrator who states the connection that was checked.  An operation
\* is not tried before the one before it is final, and a second one is of interest
\* only where the first left a journal that stands in its way.
StartCheck(op) ==
  /\ starter = NoStart /\ row[op] = NoRow /\ \A o \in 1 .. op - 1 : Terminal(row[o])
  /\ op = 1 \/ Active(journal)
  /\ conn # 0
  /\ \/ /\ cap.gen = conn /\ cap.id = "original"
        /\ starter' = [NoStart EXCEPT !.op = op, !.at = "reserve", !.boot = cap.boot,
                                      !.seen = "requested"]
     \/ /\ legacy /\ cap.gen # conn
        /\ starter' = [NoStart EXCEPT !.op = op, !.at = "reserve", !.gen = conn,
                                      !.seen = "bootstrap_required"]
  /\ UNCHANGED <<row, conn, cap, origin, maintenance, asker, observers, age, up, down,
                 agentVars, supVars, faults>>

\* The callback of the reservation persists the operation, unless the node is
\* reserved; the unique index allows one operation that is not final.
StartPersist ==
  LET op == starter.op IN
  /\ starter.at = "reserve"
  /\ IF /\ conn # 0 /\ maintenance = 0 /\ \A o \in 1 .. op - 1 : Terminal(row[o])
        /\ starter.seen = "requested" \/ starter.gen = conn
     THEN /\ row' = [row EXCEPT ![op] = [NoRow EXCEPT !.state = starter.seen,
                                                     !.previousBoot = starter.boot]]
          /\ origin' = [origin EXCEPT ![op] = conn]
          /\ starter' = [starter EXCEPT !.at = "commit", !.gen = conn]
     ELSE starter' = NoStart /\ UNCHANGED <<row, origin>>
  /\ UNCHANGED <<age, conn, cap, maintenance, asker, observers, up, down, agentVars,
                 supVars, faults>>

\* The reservation is committed if the connection is still the installed one.  A
\* bootstrap goes on when its ticket is used.
StartCommit ==
  /\ starter.at = "commit"
  /\ IF conn = starter.gen /\ maintenance = 0
     THEN /\ maintenance' = starter.op
          /\ starter' = IF starter.seen = "bootstrap_required" THEN NoStart
                        ELSE [starter EXCEPT !.at = "dispatch"]
     ELSE FinishBeforeInstall /\ UNCHANGED maintenance
  /\ UNCHANGED <<row, origin, age, conn, cap, asker, observers, up, down, agentVars,
                 supVars, faults>>

Request(op) == [kind |-> "request", op |-> op, state |-> "none"]

\* The request is sent, or the operation fails; a failed send may have arrived.
StartDispatch ==
  LET arrives == down' = IF proc.gen = starter.gen
                         THEN Append(down, Request(starter.op)) ELSE down
  IN
  /\ starter.at = "dispatch"
  /\ \/ ValidOrigin(starter.op) /\ arrives /\ starter' = NoStart /\ UNCHANGED faults
     \/ /\ ValidOrigin(starter.op) /\ Fault
        /\ arrives \/ UNCHANGED down
        /\ FinishBeforeInstall
     \/ /\ ~ValidOrigin(starter.op) /\ FinishBeforeInstall /\ UNCHANGED <<down, faults>>
  /\ UNCHANGED <<row, maintenance, origin, age, conn, cap, asker, observers, up,
                 agentVars, supVars>>

\* The end of a stream: the connection is unregistered, EndConnection forgets
\* its capabilities, and the agent loses what is under way.
CloseStream(g) ==
  /\ conn' = IF conn = g THEN 0 ELSE conn
  /\ cap' = IF cap.gen = g THEN NoCap ELSE cap
  /\ proc' = IF proc.gen = g THEN [proc EXCEPT !.gen = 0] ELSE proc
  /\ IF proc.gen = g THEN up' = <<>> /\ down' = <<>> ELSE UNCHANGED <<up, down>>

\* The Hub finds that a connection was lost.
Disconnected ==
  /\ conn # 0 /\ conn # proc.gen
  /\ CloseStream(conn)
  /\ UNCHANGED <<row, origin, maintenance, starter, asker, observers, age, binary, journal,
                 worker, candidates, supVars, faults>>

\* ObserveCapabilities of the installed connection.
ObserveCapabilities ==
  /\ up # <<>> /\ Head(up) = Caps
  /\ cap' = [gen |-> conn, id |-> proc.id, boot |-> proc.boot]
  /\ up' = Tail(up)
  /\ UNCHANGED <<row, conn, origin, maintenance, starter, asker, observers, age, down,
                 agentVars, supVars, faults>>

\* ObserveStatus reads the operation.  The goroutine that routes a message
\* outlives its stream; a stream routes one message at a time.
ObserveStatusRead ==
  /\ up # <<>> /\ Head(up).kind = "status"
  /\ \A w \in observers : w.gen # conn
  /\ observers' = observers \cup
       {[gen |-> conn, op |-> Head(up).op, state |-> Head(up).state,
         cap |-> cap, seen |-> row[Head(up).op]]}
  /\ up' = Tail(up)
  /\ UNCHANGED <<row, conn, cap, origin, maintenance, starter, asker, age, down,
                 agentVars, supVars, faults>>

\* The running agent has restarted since the request with one of the two binaries.
RunsTarget(w) == w.cap.boot # w.seen.previousBoot /\ w.cap.id = "target"
RunsOriginal(w) == w.cap.boot # w.seen.previousBoot /\ w.cap.id = "original"

\* The outcome that a durable acknowledgement of the agent settles.
Settles(w) ==
  CASE /\ w.state = "confirmed" /\ RunsTarget(w) /\ w.seen.observed = "target"
       /\ w.seen.state \in {"confirmation_pending", "unknown", "succeeded"} ->
         "succeeded"
    [] /\ w.state = "rollback_confirmed" /\ RunsOriginal(w)
       /\ w.seen.observed = "original"
       /\ w.seen.state \in {"rollback_confirmation_pending", "unknown",
                            "rolled_back"} ->
         "rolled_back"
    [] OTHER -> "none"

\* The outcome that a reconnected agent asks the Hub to confirm.
Offers(w) ==
  CASE /\ w.state = "reconnecting" /\ RunsTarget(w)
       /\ w.seen.state \in Issued \cup {"succeeded"} -> "succeeded"
    [] /\ w.state = "rolled_back" /\ RunsOriginal(w)
       /\ w.seen.state \in Issued \cup {"succeeded", "rolled_back"} -> "rolled_back"
    [] OTHER -> "none"

\* Mutant: the Hub does not wait for the acknowledgement.
Pending_Final(outcome) == outcome

Pending(outcome) ==
  IF outcome = "succeeded" THEN "confirmation_pending"
                           ELSE "rollback_confirmation_pending"

\* UpdateAgentUpdate writes only over the state that was read.
Unchanged(w) == row[w.op].state = w.seen.state

\* ObserveStatus, a settled outcome.
ObserveSettled(w) ==
  /\ Settles(w) # "none"
  /\ IF w.seen.state = Settles(w) \/ Unchanged(w)
     THEN /\ IF w.seen.state = Settles(w)
             THEN UNCHANGED row
             ELSE row' = [row EXCEPT ![w.op] =
                    [w.seen EXCEPT !.state = Settles(w), !.observedBoot = w.cap.boot]]
          /\ Release(w.op)
          /\ UNCHANGED <<conn, cap, proc, up, down>>
     ELSE CloseStream(w.gen) /\ UNCHANGED <<row, maintenance, origin>>

Confirmation(op, outcome) ==
  [kind |-> "confirmation", op |-> op, state |-> outcome]

\* ObserveStatus, a reconnected agent: what it runs is recorded before the
\* confirmation is sent.
ObserveOffered(w) ==
  LET final == w.seen.state = Offers(w)
      same == /\ w.seen.state = Pending(Offers(w))
              /\ w.seen.observedBoot = w.cap.boot
  IN
  /\ Settles(w) = "none" /\ Offers(w) # "none"
  /\ IF final \/ same \/ Unchanged(w)
     THEN /\ IF final \/ same
             THEN UNCHANGED row
             ELSE row' = [row EXCEPT ![w.op] =
                    [w.seen EXCEPT !.state = Pending(Offers(w)),
                                   !.observed = w.cap.id,
                                   !.observedBoot = w.cap.boot]]
          /\ IF final THEN Release(w.op) ELSE UNCHANGED <<maintenance, origin>>
          /\ IF conn = w.gen /\ proc.gen = w.gen
             THEN /\ down' = Append(down, Confirmation(w.op, Offers(w)))
                  /\ UNCHANGED <<conn, cap, proc, up>>
             ELSE CloseStream(w.gen)
     ELSE CloseStream(w.gen) /\ UNCHANGED <<row, maintenance, origin>>

\* ObserveStatus, the progress of a preparation.  A status the operation does
\* not expect ends the stream.
ObserveProgress(w) ==
  LET failed == w.state = "failed" /\ w.cap.id = "original"
                  /\ w.cap.boot = w.seen.previousBoot
      next == CASE failed /\ w.seen.state \in Issued -> "unknown"
                [] failed -> "failed"
                [] w.state = "downloading" /\ w.seen.state = "requested" -> "downloading"
                [] OTHER -> "none"
  IN
  /\ Settles(w) = "none" /\ Offers(w) = "none"
  /\ IF Terminal(w.seen)
     THEN UNCHANGED <<row, maintenance, origin, conn, cap, proc, up, down>>
     ELSE IF next # "none" /\ Unchanged(w)
     THEN /\ row' = [row EXCEPT ![w.op] = [w.seen EXCEPT !.state = next]]
          /\ IF next = "failed" THEN Release(w.op)
                                ELSE UNCHANGED <<maintenance, origin>>
          /\ UNCHANGED <<conn, cap, proc, up, down>>
     ELSE CloseStream(w.gen) /\ UNCHANGED <<row, maintenance, origin>>

ObserveStatus(w) ==
  /\ observers' = observers \ {w}
  /\ ObserveSettled(w) \/ ObserveOffered(w) \/ ObserveProgress(w)
  /\ UNCHANGED <<starter, asker, age, binary, journal, worker, candidates, supVars, faults>>

\* Status, asked for after the expiry; there is no other clock in the Hub.
StatusRead(op) ==
  /\ asker = NoAsk
  /\ row[op] # NoRow /\ ~Terminal(row[op]) /\ age[op] # "live"
  /\ asker' = [op |-> op, seen |-> row[op]]
  /\ UNCHANGED <<row, conn, cap, origin, maintenance, starter, observers, age, up, down,
                 agentVars, supVars, faults>>

Overdue(r) == IF r.state \in Issued THEN "unknown" ELSE "expired"

StatusWrite ==
  LET op == asker.op IN
  /\ asker # NoAsk /\ asker' = NoAsk
  /\ IF row[op].state = asker.seen.state
     THEN /\ row' = [row EXCEPT ![op] = [asker.seen EXCEPT !.state = Overdue(asker.seen)]]
          /\ IF Overdue(asker.seen) = "expired" THEN Release(op)
                                               ELSE UNCHANGED <<maintenance, origin>>
     ELSE UNCHANGED <<row, maintenance, origin>>
  /\ UNCHANGED <<conn, cap, starter, observers, age, up, down, agentVars, supVars,
                 faults>>

\* AcknowledgeRecovery: an administrator who found the original binary on the
\* node attests it, no earlier than 190 seconds after the expiry.
AcknowledgeRecovery(op) ==
  /\ conn # 0 /\ row[op].state = "unknown" /\ age[op] = "cooled"
  /\ maintenance = op /\ binary = "original"
  /\ row' = [row EXCEPT ![op].state = "recovery_acknowledged"]
  /\ Release(op)
  /\ UNCHANGED <<conn, cap, starter, asker, observers, age, up, down, agentVars,
                 supVars, faults>>

\* NewAgentUpdates after a restart: what was issued is unknown and keeps its
\* reservation, anything else failed.
HubRestart ==
  LET issued == {o \in Ops : row[o].state \in Issued} IN
  /\ Fault
  /\ row' = [o \in Ops |->
       CASE o \in issued -> [row[o] EXCEPT !.state = "unknown"]
         [] row[o].state \in {"bootstrap_required", "requested", "downloading"} ->
              [row[o] EXCEPT !.state = "failed"]
         [] OTHER -> row[o]]
  /\ origin' = [o \in Ops |-> IF o \in issued THEN Nil ELSE NoOrigin]
  /\ maintenance' = IF issued = {} THEN 0 ELSE CHOOSE o \in issued : TRUE
  /\ conn' = 0 /\ cap' = NoCap /\ starter' = NoStart /\ asker' = NoAsk
  /\ observers' = {}
  /\ proc' = [proc EXCEPT !.gen = 0] /\ up' = <<>> /\ down' = <<>>
  /\ UNCHANGED <<age, binary, journal, worker, candidates, supVars>>
-----------------------------------------------------------------------------
Speaks == ~(legacy /\ proc.id = "original")

\* The agent connects: capabilities first, then what the journal says, unless it
\* is too old to know of either.
Connect ==
  /\ proc.boot # 0 /\ proc.gen = 0
  /\ Gens \ UsedGens # {}
  /\ conn' = Fresh(Gens, UsedGens)
  /\ proc' = [proc EXCEPT !.gen = conn',
                !.lease = ResumeLease(journal, proc.id, proc.lease)]
  /\ cap' = NoCap /\ down' = <<>>
  /\ up' = IF Speaks THEN <<Caps>> \o ResumeStatus(journal, proc.id) ELSE <<>>
  /\ UNCHANGED <<row, origin, maintenance, starter, asker, observers, age, binary, journal,
                 worker, candidates, supVars, faults>>

LoseConnection ==
  /\ Fault /\ proc.gen # 0
  /\ proc' = [proc EXCEPT !.gen = 0] /\ up' = <<>> /\ down' = <<>>
  /\ UNCHANGED <<hubVars, age, binary, journal, worker, candidates, supVars>>

\* A status leaves on the stream the worker was started from, if it is there.
Emit(op, s) ==
  up' = IF proc.gen # 0 /\ proc.gen = worker.gen THEN Append(up, StatusMsg(op, s))
                                                 ELSE up

\* Begin up to the persistent intent.  A request while a worker runs is ignored.
Begin ==
  /\ down # <<>> /\ Head(down).kind = "request" /\ down' = Tail(down)
  /\ LET op == Head(down).op
         admitted == ~proc.lease \/ CanSupersede(journal, proc.id, op)
         free == \/ journal.op = 0
                 \/ journal.op # op /\ (\/ ~Active(journal)
                                        \/ CanSupersede(journal, proc.id, op))
     IN
     CASE worker # Idle -> UNCHANGED <<proc, journal, worker, up>>
       [] /\ worker = Idle /\ admitted /\ free /\ ~OwnerHeld
          /\ binary = "original" /\ age[op] = "live" ->
            /\ proc' = [proc EXCEPT !.lease = TRUE]
            /\ journal' = [op |-> op, state |-> "downloading", confirmed |-> FALSE]
            /\ worker' = [op |-> op, at |-> "download", gen |-> proc.gen]
            /\ up' = Append(up, StatusMsg(op, "downloading"))
       [] OTHER ->
            /\ up' = Append(up, StatusMsg(op, "failed"))
            /\ UNCHANGED <<proc, journal, worker>>
  /\ UNCHANGED <<hubVars, age, binary, candidates, supVars, faults>>

\* The context of the worker ends with its stream and at the expiry.
WorkerAlive == proc.gen # 0 /\ proc.gen = worker.gen /\ age[worker.op] = "live"

\* DownloadUpdate at the Hub serves an operation that is not yet authorized.
Downloadable(op) ==
  row[op].state \in {"requested", "downloading"} /\ ValidOrigin(op)

Download ==
  /\ worker.at = "download"
  /\ \/ /\ Downloadable(worker.op) /\ WorkerAlive
        /\ candidates' = candidates \cup {worker.op}
        /\ worker' = [worker EXCEPT !.at = "stage"]
        /\ UNCHANGED faults
     \/ /\ IF Downloadable(worker.op) /\ WorkerAlive THEN Fault ELSE UNCHANGED faults
        /\ worker' = [worker EXCEPT !.at = "failing"]
        /\ UNCHANGED candidates
  /\ UNCHANGED <<hubVars, age, up, down, binary, proc, journal, supVars>>

\* finishStaging
FinishStaging ==
  /\ worker.at = "stage"
  /\ \/ /\ journal' = [journal EXCEPT !.state = "staged"]
        /\ worker' = [worker EXCEPT !.at = "launch"]
        /\ UNCHANGED faults
     \/ Fault /\ worker' = [worker EXCEPT !.at = "failing"] /\ UNCHANGED journal
  /\ UNCHANGED <<hubVars, age, up, down, binary, proc, candidates, supVars>>

\* systemd-run.  Its reply may be lost, so a launch that failed may have happened.
Launch ==
  /\ worker.at = "launch" /\ supervisor = Idle
  /\ \/ /\ WorkerAlive
        /\ supervisor' = [Idle EXCEPT !.op = worker.op, !.at = "launched"]
        /\ worker' = [worker EXCEPT !.at = "watch"]
        /\ UNCHANGED faults
     \/ /\ Fault
        /\ supervisor' = [Idle EXCEPT !.op = worker.op, !.at = "launched"]
        /\ worker' = [worker EXCEPT !.at = "refused"]
     \/ /\ IF WorkerAlive THEN Fault ELSE UNCHANGED faults
        /\ worker' = [worker EXCEPT !.at = "refused"]
        /\ UNCHANGED supervisor
  /\ UNCHANGED <<hubVars, age, up, down, binary, proc, journal, candidates, backups, legacy, helper>>

\* markFailed: the journal is written without looking at it, if its lock is free.
MarkFailed ==
  /\ worker.at \in {"failing", "refused"}
  /\ \/ /\ journal' = [op |-> worker.op, state |-> "failed", confirmed |-> FALSE]
        /\ UNCHANGED faults
     \/ Fault /\ UNCHANGED journal
  /\ Emit(worker.op, "failed")
  /\ worker' = [worker EXCEPT !.at = "cleanup"]
  /\ UNCHANGED <<hubVars, age, down, binary, proc, candidates, supVars>>

\* The deferred end of a Begin that has no supervisor.
Cleanup ==
  /\ worker.at = "cleanup" /\ worker' = Idle
  /\ proc' = [proc EXCEPT !.lease = FALSE]
  /\ candidates' = candidates \ {worker.op}
  /\ UNCHANGED <<hubVars, age, up, down, binary, journal, supVars, faults>>

\* The worker watches the journal for a supervisor that refuses.
Watch ==
  /\ worker.at = "watch"
  /\ \/ /\ journal.op = worker.op /\ journal.state = "failed"
        /\ proc' = [proc EXCEPT !.lease = FALSE]
        /\ Emit(worker.op, "failed")
     \/ ~WorkerAlive /\ UNCHANGED <<proc, up>>
  /\ worker' = Idle
  /\ UNCHANGED <<hubVars, age, down, binary, journal, candidates, supVars, faults>>

\* The agent runs the binary that a confirmation is about.
Confirms(s) ==
  \/ /\ s = "succeeded" /\ proc.id = "target"
     /\ journal.state \in {"reconnecting", "installing"}
  \/ /\ s = "rolled_back" /\ proc.id = "original"
     /\ journal.state \in {"rolling_back", "rolled_back"}

\* Confirm under the lock of the journal, and the acknowledgement it leads to.
Confirm ==
  /\ down # <<>> /\ Head(down).kind = "confirmation" /\ down' = Tail(down)
  /\ LET op == Head(down).op
         s == Head(down).state
         again == journal.confirmed /\ journal.state = s
                    /\ proc.id = IF s = "succeeded" THEN "target" ELSE "original"
         acked == [journal EXCEPT !.state = s, !.confirmed = TRUE]
     IN
     \/ /\ journal.op = op /\ again
        /\ up' = up \o ResumeStatus(journal, proc.id)
        /\ UNCHANGED <<journal, proc, faults>>
     \/ /\ journal.op = op /\ ~again /\ Confirms(s)
        /\ journal' = acked
        /\ proc' = [proc EXCEPT !.lease = FALSE]
        /\ up' = up \o ResumeStatus(acked, proc.id)
        /\ UNCHANGED faults
     \/ /\ IF journal.op = op /\ (again \/ Confirms(s)) THEN Fault ELSE UNCHANGED faults
        /\ UNCHANGED <<journal, proc, up>>
  /\ UNCHANGED <<hubVars, age, binary, worker, candidates, supVars>>

\* A process starts from the installed binary; newRuntime takes the lease of an
\* active journal.
StartProcess ==
  /\ Boots \ UsedBoots # {}
  /\ proc' = [boot |-> Fresh(Boots, UsedBoots), id |-> binary,
              lease |-> Active(journal) /\ ~(legacy /\ binary = "original"), gen |-> 0]

\* The service is started for the first time.
StartAgent ==
  /\ proc = Down /\ row[1] = NoRow
  /\ StartProcess
  /\ UNCHANGED <<hubVars, age, up, down, binary, journal, worker, candidates, supVars,
                 faults>>

\* The process crashes and systemd restarts it.
AgentCrash ==
  /\ Fault /\ proc.boot # 0
  /\ StartProcess /\ up' = <<>> /\ down' = <<>> /\ worker' = Idle
  /\ UNCHANGED <<hubVars, age, binary, journal, candidates, supVars>>

\* The node restarts: the supervisor is not resumed, the service starts again.
Reboot ==
  /\ Fault
  /\ StartProcess /\ up' = <<>> /\ down' = <<>> /\ worker' = Idle
  /\ supervisor' = Idle /\ helper' = Idle
  /\ UNCHANGED <<hubVars, age, binary, journal, candidates, backups, legacy>>
-----------------------------------------------------------------------------
\* BootstrapUpdate consumes the ticket and binds the boot of the bootstrap itself,
\* which asks on the identity of the agent.  The ticket is known when Start has
\* returned, and the reply may be lost.
BootstrapUpdate(op) ==
  /\ helper = Idle /\ row[op].state = "bootstrap_required" /\ ValidOrigin(op)
  /\ starter.op # op
  /\ binary = "original" /\ Boots \ UsedBoots # {}
  /\ row' = [row EXCEPT ![op].state = "requested",
                        ![op].previousBoot = Fresh(Boots, UsedBoots)]
  /\ \/ helper' = [Idle EXCEPT !.op = op, !.at = "intent"] /\ UNCHANGED faults
     \/ Fault /\ UNCHANGED helper
  /\ UNCHANGED <<conn, cap, origin, maintenance, starter, asker, observers, age, up, down,
                 agentVars, supervisor, backups, legacy>>

\* The bootstrap writes its intent unless a journal stands in its way.
BootstrapIntent ==
  /\ helper.at = "intent"
  /\ LET op == helper.op
         free == ~Active(journal) \/ CanSupersede(journal, "original", op)
     IN
     IF age[op] = "live" /\ ~OwnerHeld /\ free
     THEN /\ journal' = [op |-> op, state |-> "downloading", confirmed |-> FALSE]
          /\ helper' = [helper EXCEPT !.at = "stage"]
     ELSE helper' = Idle /\ UNCHANGED journal
  /\ UNCHANGED <<hubVars, age, up, down, binary, proc, worker, candidates, supervisor,
                 backups, legacy, faults>>

\* The candidate is copied and staged, and the lock of the supervisor given up.
BootstrapStage ==
  /\ helper.at = "stage"
  /\ \/ /\ candidates' = candidates \cup {helper.op}
        /\ journal' = [journal EXCEPT !.state = "staged"]
        /\ helper' = [helper EXCEPT !.at = "launch"] /\ UNCHANGED faults
     \/ Fault /\ helper' = [helper EXCEPT !.at = "failing"] /\ UNCHANGED <<journal, candidates>>
  /\ UNCHANGED <<hubVars, age, up, down, binary, proc, worker, supervisor, backups, legacy>>

\* systemd-run, which runCommand gives ten seconds.  Its reply may be lost, so a
\* launch that failed may have happened.
BootstrapLaunch ==
  /\ helper.at = "launch" /\ supervisor = Idle
  /\ \/ /\ supervisor' = [Idle EXCEPT !.op = helper.op, !.at = "launched"]
        /\ \/ helper' = Idle /\ UNCHANGED faults
           \/ Fault /\ helper' = [helper EXCEPT !.at = "refused"]
     \/ Fault /\ helper' = [helper EXCEPT !.at = "refused"] /\ UNCHANGED supervisor
  /\ UNCHANGED <<hubVars, age, up, down, agentVars, backups, legacy>>

\* A bootstrap that did not hear of a launch writes its failure without looking at
\* the journal, if the lock is free.
BootstrapFailed ==
  /\ helper.at \in {"failing", "refused"} /\ helper' = Idle
  /\ \/ /\ journal' = [op |-> helper.op, state |-> "failed", confirmed |-> FALSE]
        /\ UNCHANGED faults
     \/ Fault /\ UNCHANGED journal
  /\ candidates' = candidates \ {helper.op}
  /\ UNCHANGED <<hubVars, age, up, down, binary, proc, worker, supervisor, backups, legacy>>
-----------------------------------------------------------------------------
sop == supervisor.op

At(l) == supervisor' = [supervisor EXCEPT !.at = l]

\* transition: under the lock, on the journal of this operation, unconfirmed.
CanMove == journal.op = sop /\ ~journal.confirmed

Move(s) == CanMove /\ journal' = [journal EXCEPT !.state = s]

\* A refusal before installation ends the supervisor, and the journal says so.
Refuse ==
  /\ supervisor' = Idle
  /\ IF CanMove THEN journal' = [journal EXCEPT !.state = "failed"]
                ELSE UNCHANGED journal

\* The supervisor takes its lock, and finds a staged operation or ends.
Supervise ==
  /\ supervisor.at = "launched"
  /\ LET staged == /\ worker.at \notin {"download", "stage", "failing"}
                   /\ helper.at \notin {"stage", "failing"}
                   /\ journal.op = sop /\ journal.state = "staged"
         fit == age[sop] = "live" /\ sop \in candidates /\ binary = "original"
     IN
     CASE ~staged -> supervisor' = Idle /\ UNCHANGED journal
       [] staged /\ ~fit -> Refuse
       [] staged /\ fit -> At("authorize") /\ UNCHANGED journal
  /\ UNCHANGED <<hubVars, age, up, down, binary, proc, worker, candidates, backups, legacy, helper,
                 faults>>

\* AuthorizeUpdate at the Hub.
Authorizable(op) ==
  row[op].state \in {"requested", "downloading", "installing"} /\ ValidOrigin(op)

\* The live authorization.  A lost reply is a refusal to the supervisor only.
Authorize ==
  /\ supervisor.at = "authorize"
  /\ \/ /\ Authorizable(sop)
        /\ row' = [row EXCEPT ![sop].state = "installing"]
        /\ \/ At("backup") /\ UNCHANGED <<journal, faults>>
           \/ Fault /\ Refuse
     \/ /\ IF Authorizable(sop) THEN Fault ELSE UNCHANGED faults
        /\ Refuse /\ UNCHANGED row
  /\ UNCHANGED <<conn, cap, origin, maintenance, starter, asker, observers, age, up, down,
                 binary, proc, worker, candidates, backups, legacy, helper>>

\* The original binary is preserved.
Backup ==
  /\ supervisor.at = "backup"
  /\ \/ /\ age[sop] = "live"
        /\ backups' = backups \cup {sop}
        /\ At("install") /\ UNCHANGED <<journal, faults>>
     \/ /\ IF age[sop] = "live" THEN Fault ELSE UNCHANGED faults
        /\ Refuse /\ UNCHANGED backups
  /\ UNCHANGED <<hubVars, age, up, down, binary, proc, worker, candidates, legacy, helper>>

\* From here on the service may be stopped.
Install ==
  /\ supervisor.at = "install"
  /\ \/ Move("installing") /\ At("stop") /\ UNCHANGED faults
     \/ /\ IF CanMove THEN Fault ELSE UNCHANGED faults
        /\ supervisor' = Idle /\ UNCHANGED journal
  /\ UNCHANGED <<hubVars, age, up, down, binary, proc, worker, candidates, backups, legacy, helper>>

StopProcess == proc' = Down /\ up' = <<>> /\ down' = <<>> /\ worker' = Idle

\* systemctl stop, whose reply may be lost, before the replacement ...
Stop ==
  /\ supervisor.at = "stop"
  /\ \/ StopProcess /\ At("copy") /\ UNCHANGED faults
     \/ Fault /\ At("rollback") /\ (StopProcess \/ UNCHANGED <<proc, up, down, worker>>)
  /\ UNCHANGED <<hubVars, age, binary, journal, candidates, backups, legacy, helper>>

\* copyVerified of the candidate; an error may follow the rename.
Replace ==
  /\ supervisor.at = "copy"
  /\ \/ sop \in candidates /\ binary' = "target" /\ At("reconnect") /\ UNCHANGED faults
     \/ /\ IF sop \in candidates THEN Fault ELSE UNCHANGED faults
        /\ At("rollback")
        /\ UNCHANGED binary \/ (sop \in candidates /\ binary' = "target")
  /\ UNCHANGED <<hubVars, age, up, down, proc, journal, worker, candidates, backups, legacy, helper>>

Reconnecting ==
  /\ supervisor.at = "reconnect"
  /\ \/ Move("reconnecting") /\ At("start") /\ UNCHANGED faults
     \/ /\ IF CanMove THEN Fault ELSE UNCHANGED faults
        /\ At("rollback") /\ UNCHANGED journal
  /\ UNCHANGED <<hubVars, age, up, down, binary, proc, worker, candidates, backups, legacy, helper>>

\* systemctl start does nothing to a service that runs.
EnsureProcess ==
  IF proc.boot = 0 THEN StartProcess ELSE UNCHANGED proc

StartService ==
  /\ supervisor.at = "start"
  /\ \/ EnsureProcess /\ At("wait") /\ UNCHANGED faults
     \/ Fault /\ At("rollback") /\ (EnsureProcess \/ UNCHANGED proc)
  /\ UNCHANGED <<hubVars, age, up, down, binary, journal, worker, candidates, backups, legacy, helper>>

Confirmed(s) == journal.op = sop /\ journal.confirmed /\ journal.state = s

\* waitConfirmed: the confirmation, or the timeout.
WaitConfirmed ==
  /\ supervisor.at = "wait"
  /\ \/ /\ Confirmed("succeeded")
        /\ supervisor' = Idle /\ candidates' = candidates \ {sop}
        /\ UNCHANGED faults
     \/ /\ IF journal.op = sop THEN Fault ELSE UNCHANGED faults
        /\ At("rollback") /\ UNCHANGED candidates
  /\ UNCHANGED <<hubVars, age, up, down, binary, proc, journal, worker, backups, legacy, helper>>

\* beginRollback: the race of timeout and confirmation is decided under the lock.
BeginRollback ==
  /\ supervisor.at = "rollback"
  /\ \/ /\ Move("rolling_back")
        /\ IF sop \in backups THEN At("stop again") ELSE supervisor' = Idle
        /\ UNCHANGED <<candidates, faults>>
     \/ /\ Confirmed("succeeded")
        /\ supervisor' = Idle /\ candidates' = candidates \ {sop}
        /\ UNCHANGED <<journal, faults>>
     \/ /\ IF CanMove \/ Confirmed("succeeded") THEN Fault ELSE UNCHANGED faults
        /\ supervisor' = Idle /\ UNCHANGED <<journal, candidates>>
  /\ UNCHANGED <<hubVars, age, up, down, binary, proc, worker, backups, legacy, helper>>

\* ... and before the restoration, where an error ends the supervisor.
StopAgain ==
  /\ supervisor.at = "stop again"
  /\ \/ StopProcess /\ At("restore") /\ UNCHANGED faults
     \/ /\ Fault /\ supervisor' = Idle
        /\ StopProcess \/ UNCHANGED <<proc, up, down, worker>>
  /\ UNCHANGED <<hubVars, age, binary, journal, candidates, backups, legacy, helper>>

Restore ==
  /\ supervisor.at = "restore"
  /\ \/ binary' = "original" /\ At("rolled back") /\ UNCHANGED faults
     \/ Fault /\ supervisor' = Idle /\ (binary' = "original" \/ UNCHANGED binary)
  /\ UNCHANGED <<hubVars, age, up, down, proc, journal, worker, candidates, backups, legacy, helper>>

RolledBack ==
  /\ supervisor.at = "rolled back"
  /\ \/ Move("rolled_back") /\ At("start again") /\ UNCHANGED faults
     \/ /\ IF CanMove THEN Fault ELSE UNCHANGED faults
        /\ supervisor' = Idle /\ UNCHANGED journal
  /\ UNCHANGED <<hubVars, age, up, down, binary, proc, worker, candidates, backups, legacy, helper>>

StartAgain ==
  /\ supervisor.at = "start again"
  /\ \/ EnsureProcess /\ At("wait again") /\ UNCHANGED faults
     \/ Fault /\ supervisor' = Idle /\ (EnsureProcess \/ UNCHANGED proc)
  /\ UNCHANGED <<hubVars, age, up, down, binary, journal, worker, candidates, backups, legacy, helper>>

\* The supervisor ends with the confirmation or without it.
WaitAgain ==
  /\ supervisor.at = "wait again"
  /\ IF Confirmed("rolled_back") THEN UNCHANGED faults ELSE Fault
  /\ supervisor' = Idle
  /\ UNCHANGED <<hubVars, age, up, down, agentVars, backups, legacy, helper>>

\* The unit is killed at RuntimeMaxSec, or dies; it is not restarted.
SupervisorKilled ==
  /\ Fault /\ supervisor # Idle /\ supervisor' = Idle
  /\ UNCHANGED <<hubVars, age, up, down, agentVars, backups, legacy, helper>>
-----------------------------------------------------------------------------
\* Somebody may still look at the clock of an operation.
Timed(op) ==
  \/ row[op] # NoRow /\ ~Terminal(row[op])
  \/ journal.op = op /\ Active(journal)
  \/ op \in {supervisor.op, worker.op, starter.op, helper.op}

\* An operation expires 120 seconds after it is created.
Expire(op) ==
  /\ row[op] # NoRow /\ age[op] = "live" /\ Timed(op)
  /\ age' = [age EXCEPT ![op] = "expired"]
  /\ UNCHANGED <<hubVars, up, down, agentVars, supVars, faults>>

\* 190 seconds later no supervisor of it is left: it was launched before the
\* expiry, into a unit that is killed after RuntimeMaxSec + TimeoutStopSec = 185.
Cool(op) ==
  /\ age[op] = "expired" /\ op \notin {supervisor.op, worker.op, helper.op} /\ Timed(op)
  /\ age' = [age EXCEPT ![op] = "cooled"]
  /\ UNCHANGED <<hubVars, up, down, agentVars, supVars, faults>>

HubStep ==
  \/ StartPersist \/ StartCommit \/ StartDispatch \/ StartFinish \/ StatusWrite
  \/ Disconnected
  \/ ObserveCapabilities \/ ObserveStatusRead
  \/ \E w \in observers : ObserveStatus(w)

AgentStep ==
  \/ Connect \/ Begin \/ Confirm
  \/ Download \/ FinishStaging \/ Launch \/ MarkFailed \/ Cleanup \/ Watch

BootstrapStep ==
  BootstrapIntent \/ BootstrapStage \/ BootstrapLaunch \/ BootstrapFailed

SupervisorStep ==
  \/ Supervise \/ Authorize \/ Backup \/ Install \/ Stop \/ Replace
  \/ Reconnecting \/ StartService \/ WaitConfirmed
  \/ BeginRollback \/ StopAgain \/ Restore \/ RolledBack \/ StartAgain \/ WaitAgain

Operator ==
  \E op \in Ops : StartCheck(op) \/ BootstrapUpdate(op) \/ StatusRead(op)
                    \/ AcknowledgeRecovery(op)

\* Before there is an operation none of these changes anything.
Trouble ==
  /\ row[1] # NoRow
  /\ LoseConnection \/ HubRestart \/ AgentCrash \/ Reboot \/ SupervisorKilled

LaunchUnheard == helper.at = "launch" /\ helper'.at = "refused" /\ supervisor' # supervisor

Next ==
  /\ \/ StartAgent \/ HubStep \/ AgentStep \/ BootstrapStep \/ SupervisorStep \/ Operator
     \/ Trouble
     \/ \E op \in Ops : Expire(op) \/ Cool(op)
  /\ unheard' = (unheard \/ LaunchUnheard)

Spec == Init /\ [][Next]_vars
-----------------------------------------------------------------------------
TypeOK ==
  /\ \A o \in Ops :
       /\ row[o].state \in RowStates
       /\ row[o].observed \in {"none", "original", "target"}
       /\ row[o].observedBoot \in 0 .. MaxBoots
       /\ row[o].previousBoot \in 0 .. MaxBoots
       /\ origin[o] \in 0 .. NoOrigin
       /\ age[o] \in {"live", "expired", "cooled"}
  /\ conn \in 0 .. MaxGens /\ maintenance \in 0 .. MaxOps
  /\ binary \in {"original", "target"}
  /\ proc.id \in {"none", "original", "target"} /\ proc.lease \in BOOLEAN
  /\ journal.op \in 0 .. MaxOps /\ journal.confirmed \in BOOLEAN

\* What the Hub calls succeeded is a success in the agent's journal.
SuccessIsDurable ==
  \A o \in Ops : row[o].state = "succeeded" =>
    journal = [op |-> o, state |-> "succeeded", confirmed |-> TRUE]

\* The Hub calls an update succeeded only if the target is installed and the agent
\* has it durably, but for a bootstrap that was not told of its supervisor; and
\* rolled back only if, until another operation is begun, the original is.
OutcomeIsTrue ==
  /\ unheard \/ SuccessIsDurable
  /\ \A o \in Ops :
       /\ row[o].state = "succeeded" => unheard \/ binary = "target"
       /\ row[o].state = "rolled_back" /\ journal.op = o =>
            /\ binary = "original"
            /\ unheard \/ (journal.state = "rolled_back" /\ journal.confirmed)

Replacing ==
  {"stop", "copy", "reconnect", "start", "wait", "rollback", "stop again", "restore",
   "rolled back", "start again", "wait again"}

\* While the binary may be replaced, the Hub reserves the node for this operation,
\* through its own restarts too, until the agent has the outcome durably; only a
\* bootstrap that was not told of its supervisor takes that back.
ReplacedUnderMaintenance ==
  supervisor.at \in Replacing /\ ~journal.confirmed =>
    \/ maintenance = sop /\ row[sop].state \in Issued
    \/ unheard /\ row[sop].state = "succeeded"

=============================================================================
