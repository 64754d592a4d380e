# Veyport in TLA+

TLA+ specifications of the concurrent and crash-prone parts of Veyport, their
TLC instances, and TLAPS proofs. Every action is a translation of Go code under
`src/`; `PROJECT.json` maps each definition to its lines, lists the hazards the
properties are aimed at, the mutations that break each property, and the
disagreements between code and documentation that the models exhibit.

## The system

* The **Hub** (`hub/`) is one process with an HTTP API, an SSH gateway, a gRPC
  server for agents and a SQLite store. It keeps connections, sessions and
  ledgers in memory and users, servers, executions and audit in the store.
* An **agent** (`agent/`) runs on every managed node. It holds one ordered
  control stream to the Hub (`Connect`) and opens one `Execute` stream per
  command. It browses files, tails logs, serves terminals and applications, runs
  commands, and updates itself.
* The **CLI** `vey` (`cli/`) and the **web interface** (`web/`) are clients.
* **Enhanced audit** is an external archive. An Enhanced execution is archived
  before it starts, and its life cycle is archived afterwards.

How they interact, as far as it matters here: an agent connects, which makes a
new *generation* of its connection; requests are sent to the generation that is
installed and are charged to a *ledger* until the agent answers; an update of
the agent needs *maintenance*, which excludes all other work. A command arrives
at the SSH gateway, is prepared on the agent over the control stream, attached
over its own stream, claimed in the store, started, watched, and finished.

The full inventory, with what is not modelled and why, is under `components` in
`PROJECT.json`.

## Modules

| Module | Code | What is modelled |
|---|---|---|
| `ConnManager` | `hub/internal/connmgr` | generations, their locks, sends, deliveries, the activity ledger, maintenance |
| `ConnManagerInvariants`, `ConnManagerProofs` | | the inductive invariant and the proofs about it |
| `AgentQuiescence` | connmgr, `agent/internal/client/activities.go`, `sessionlimit`, `grpcserver/agent_updates.go` | Hub ledger and agent workers joined by the ordered streams of two generations |
| `AgentQuiescenceInvariants`, `AgentQuiescenceMessages`, `AgentQuiescenceProofs` | | the inductive invariant and the proofs about it |
| `AgentExecution` | `agent/internal/execution`, `sessionlimit` | the agent's execution manager, its journal file by file-system step, the session budget, crashes |
| `ExecutionOnce` | | the promise it keeps: durably claimed, launched at most once, never taken back |
| `AgentExecutionProofs` | | proofs about it, refinement included |
| `HubExecution` | `sshgw/exec_bridge.go`, `protected_execution.go`, `grpcserver/exec_*.go`, `store/*executions.go`, `agent/internal/client/execution.go` | one execution over gateway, registry, stream, store and agent |
| `HubExecutionProofs`, `HubExecutionOutputs` | | proofs about it |
| `GatewayServer` | `sshgw/server.go` | the life of the SSH gateway: Start against Stop, the accept loop and its cap, handlers, forced closing |
| `ExecutionEvidence` | `sshgw/execution_evidence.go`, `store/protected_executions.go` | the events of an Enhanced execution, queued, archived and confirmed |
| `ServerStatus` | `grpcserver/handler.go`, `server.go`, `store/servers.go` | the status column of a server and its concurrent writers |
| `AgentUpdates` | `grpcserver/agent_updates.go`, `store/agent_updates.go`, `agent/internal/update`, `client/update.go` | an update from the administrator's request to its outcome: Hub operation, agent worker, journal, supervisor, rollback |
| `TerminalSessions` | `grpcserver/terminalsessions.go`, `interactive_terminal.go`, `server/handlers_terminal.go`, `sshgw/session.go`, `bridge.go`, `agent/internal/terminal` | terminals of a node over both transports, their authority and their shells |
| `FileUploads` | `server/handlers_upload.go`, `grpcserver/pending.go`, `agent/internal/dropzone` | uploads in pieces, their waiters, their places in the ledger |
| `LogTails` | `server/handlers_logs.go`, `grpcserver/logsessions.go`, `agent/internal/logtailer` | log streams, slots of viewers and administrators, tails on the agent |
| `ApplicationAccess` | `server/application_*.go`, `store/applications.go` | tickets, sessions, checks, revocations that cannot be stored yet, audited endings |
| `ApplicationTunnels` | `grpcserver/application_*.go`, `agent/internal/client/application.go` | tunnels, their places at the Hub and sockets at the agent |
| `ProxyConn` | `proto/applicationproxy/conn.go` | one direction of an application's byte stream: frames, end of data, timeouts, the sender and the reader |
| `SignIn` | `server/handlers_auth.go`, `store/session_refresh.go`, `auth/` | password, authenticator, lockout, sessions, refresh, the changes that end them |
| `Accounts` | `store/account_management.go`, `server/` | the founding registration, concurrent administrators |
| `SecurityChanges` | `authorization/authorization.go`, `store/security.go` | proofs, requests, approvals, claim, begin, activation, finish |
| `PolicyTransition` | `authorization/transition.go`, `policy_continuity.go`, `store/security.go` | database, marker and archive anchor during a change, a crash, a restored backup |
| `AuditArchive` | `auditingest/service.go`, `ledger.go`, `s3.go`, `auditgate/client.go` | the archive over a store that only creates, receipts, repeated records |
| `GovernanceProofs` | | proofs about `SecurityChanges`, `Accounts` and `AuditArchive` |
| `AuditExport` | `auditingest/exporter.go`, `export_index.go` | the walk over the archive's ledger into the search index |
| `OriginalAccess` | `store/original_access.go`, `server/original_*.go` | permits to read an original, downloads, their evidence and its recovery |
| `OriginalAccessProofs` | | proofs about it |
| `Notifications` | `notify/notifier.go` | delayed alarms, two queues, the worker, shutdown |
| `ReEnroll` | `grpcserver/reenroll.go`, `store/reenroll.go`, `server/handlers_reenroll.go` | bootstrap sessions, decisions, delivery, deadlines, restart |
| `NodeCertificates` | `agent/internal/client`, `agent/internal/certs`, `grpcserver/handler.go` | registration, the three files, the choice of credentials, renewal |
| `CliCredentials` | `cli/internal/auth`, `cli/internal/commands` | the stored credentials and the processes that refresh and write them |
| `CliUpdate` | `cli/internal/update` | processes that replace the installed CLI: lock, link, rename, validation, rollback, loss of power |
| `MC*` | | instances for TLC |

### ConnManager

State: `streams`, `retiring` and the life of every generation; the holder of each
`SendMu`, `GenerationMu` and `DeliveryMu`; senders and where they are; the
`activities` map and the counters kept beside it; `maintenance`. A critical
section of the code is a step; a step never spans an unlock, a callback or the
transport. `Register` is the loop of the code: detach, wait for the retirement,
install. A send that timed out closes its generation, and the message may have
left or not.

### AgentQuiescence

Composes the ledger of the Hub with the agent's side. Both directions of a
stream are sequences; losing a connection drops what is on the wire; the Hub may
crash, which empties its memory, and so may the agent. Handlers register in any
order, because each is a goroutine of its own that acknowledges the handshake before
it calls `Register`; `late` is history, the servers where a generation was installed
over one that the agent had opened after it. The question is the one the update asks:
when maintenance is held, is the node really quiet?

### AgentExecution and ExecutionOnce

One action per critical section of `Manager` and per file-system step of
`Journal` (create, write and sync, rename, sync of the directory). A crash keeps
what was synced and either outcome of what was not. Attempts of one execution
arrive in any order and number. `ExecutionOnce` has one claim and one launch per
execution; the mapping takes the durable part of the journal and the processes
that were ever started.

### HubExecution

The row of the execution, the registry's session, the gateway goroutine, its
watcher and relays, the two goroutines of the `Execute` stream on each side, and
the agent's process. Every await of the code separates steps. The row carries
what is synced and which earlier contents a power loss may bring back
(`synchronous(NORMAL)`; protected transactions are `FULL`). Input, and the bytes
of output, are abstracted: frames are counted, and a failed write is a choice.

### ExecutionEvidence

Gateway and recovery goroutine share only the store. `images` is the set of
contents a power loss may leave: a `NORMAL` commit adds one, a `FULL` commit
leaves only itself. The record of an event is a function of the row, which is
why both writers may queue the same completion.

### ServerStatus

The handler of every stream, the goroutine `finishAgentDisconnected` and the
heartbeat monitor, each reading the connection table and the store and writing
the column in separate steps. `writer` is history.

### AgentUpdates

Two operations of one agent. The Hub's row advances by compare-and-set, and
`observe` maps a report of the agent to the next state of the row. On the agent
the worker downloads, stages and commits the journal; the supervisor, a process
of its own, replaces the binary, waits for the confirmation of the new agent and
restores the original when it does not come. Every journal write is a step, and
agent, supervisor and Hub may stop between any two. A bootstrap starts the
supervisor through `systemd-run` and may not hear that it did; `unheard` is the
history of that. `ReplacedUnderMaintenance` ties the binary to the reservation the
Hub holds for the node.

### TerminalSessions, FileUploads, LogTails

The three kinds of work a user starts on a node and may walk away from. Each joins the
handler of the Hub, its registry or table of waiters, the ordered stream in both
directions and the agent's end. A stream is lost as a whole, any stream, the last one
of a behaviour included; in `FileUploads` Hub and agent notice the loss each at its
own time, and the ledger keeps an uncertainty slot for the work of the lost connection
until the next session reports a count of zero. A caller that gives up in the middle
of a send closes the connection, as `connmgr` does. The agent handles pieces of
uploads on its receive loop and everything else in a goroutine per message, so a
terminal's close can be handled before its open. The handler of a terminal and a
Delete may tear it down at the same time, each with its own reading of whether it was
closed. In `TerminalSessions` the final check and the send are one step, because the
policy lock, the lock of the registration and the store's writer lock are held across
both.

### ApplicationAccess, ApplicationTunnels, ProxyConn

A check reads the store several times, so it is three steps: the session, its grants,
the session again. A revocation that was observed and could not be stored stays in
memory, bounded, with a quarantine when the bound is reached; a restart forgets both.
`denied` is history: the sessions a completed check refused. The grants are one read
of the membership; its cache of two seconds (`application_authority.go:57`) is not
modelled, so what is shown about a membership that was withdrawn is true of the
membership the check is given. A tunnel takes a place when it is admitted and gives it
back when the agent reports that the socket is closed or the control connection ends.
A report comes on the stream the tunnel was opened on, because the agent closes its
sockets before a stream ends; the code compares the streams all the same. `ProxyConn`
counts frames and keeps which call each is of; that a read may take a part of a frame
is kept, the bytes are not.

### SignIn, Accounts

A request is a sequence of steps, one for each read or transaction after which
another request may run, and works on the snapshot it read. The account carries
the generation every token names and the security revision. A pair of tokens
remembers with which password and authenticator it was obtained, which is
history and what `UsableMatchesAccount` is about. `Accounts` has the actor's
authority collected first and checked again in the transaction. Two guards of
`Accounts` are about people, not about code: the operator at the hub's shell does not
reset an account while the hub is being founded (`BreakGlass`), and a founder's
browser waits for the answer to its registration before it sets up the authenticator
(`CompleteTOTPSetup`). What is shown and proved of `Accounts` assumes both.

### SecurityChanges, PolicyTransition

`SecurityChanges` has the people: an account is fresh until its revision moves,
and every part of a decision is tied to the revision it was made under. One
person may have two accounts, and a word given before an account changed does not
count after it (`lost`). `PolicyTransition` has the three places that
remember the policy, moved one after the other by a transition any step of which
may be its last, taken up by start-up and by the reconciliation request, perhaps
both at once, and restored from a backup by an operator.

### AuditArchive, AuditExport, OriginalAccess

The object store creates a key unless it exists; a reply may be lost after the
object was created. Several requests preserve records that want the same event.
The exporter walks the ledger page by page with a checkpoint. A permit to read an
original is consumed once; intent, start and result of the read go through the
store's queue to the archive, and a sweep takes up what was not finished.

### ReEnroll, NodeCertificates

Re-enrolment has the registry under `reEnrollMu`, the durable rows, the
administrators' calls that wait for an outcome, the stream, and the agent's half,
which may lose its stream at any step and ask again.
`NodeCertificates` has the store of the agent with its three files written one
after the other, the credentials chosen for a dial, and renewal on a live
connection, which is adopted by reconnecting.

### Notifications, CliCredentials, CliUpdate, GatewayServer

The lock regions of the notifier are steps; a timer that fired before `Stop` is a
goroutine about to send; one that sends on a closed queue stops the process, and the
behaviour with it (`panicked`). In `CliCredentials` every process is a shell's
command; a write reads the whole record, replaces one half and writes it back, through
the keyring or through a temporary file of a fixed name. In `CliUpdate` a file is its
version, and a loss of power takes the directory back to any state since it was last
synced; the stage in which a process keeps the previous executable is a directory of
its own, synced before the rename. In `GatewayServer` a session is open until somebody
ends it, and the WaitGroup is the set of handlers that have not called `Done`.

## Runs

Components that do not share state are checked in one run, so that their state
spaces add up instead of multiplying: the first state chooses the component, and
the behaviour is one of that component alone. In `MCOperations` and
`MCGovernance` the components share a row of variables; in `MCRecords` and
`MCEndings`, which check liveness, each has its own, and its fairness is the
premise of its properties.

| Run | Instance | Shows |
|---|---|---|
| `quiescence` | two generations of one agent that register in any order, three kinds of message, maintenance; the Hub alone with a ledger of one place, or with the agent and a crash of either | one generation at a time; counters equal what they count; maintenance excludes work; dispatched work is not forgotten; a node in maintenance runs nothing, and running work is accounted for, where no registration came late |
| `hub_execution` | both modes, two control connections, one crash or power loss, revocation | what the row says of a command agrees with what the agent did; Enhanced commands start only after archive and claim; authority is checked before the start |
| `hub_progress` | Standard with one frame of output, fairness | complete output before an undisturbed exit; every execution and its process end |
| `operations` | twelve components, six of them twice | at most one launch of an execution, a truthful journal, an exact budget, refinement of `ExecutionOnce`; outcomes of updates, drained notifications, accounted transfers, silence after the end of a terminal, of a gateway or of a revoked authority, places of tunnels, audited sessions, complete byte streams, stored credentials and an installed CLI that works |
| `governance` | eight components, three of them twice | reads of originals are recorded, credentials match the account, administrators remain, certificates fit and are approved, one policy history, receipts are true, decisions have a quorum |
| `records` | seven components, fairness | evidence and status are true; evidence, status, reads, export and commands settle; renewals are adopted; decisions about a node are answered |
| `endings` | seven components, fairness | executions, terminals, the gateway, tunnels, streams and tails end and give back what they hold |
| `connected_offline` | two streams | **violated**, see findings |
| `expired_node` | an agent that was down while its certificate expired | **violated**, see findings |
| `stale_save` | a command and `ssh-cert` | **violated**, see findings |
| `late_registration` | two generations of one agent, a request and a maintenance operation | **violated**, see findings |
| `unheard_bootstrap` | one update of an agent without supervisor, one fault | **violated**, see findings |

### Bounds and why they are enough

* Two generations of a connection, two streams in `ServerStatus`: the code compares a
  generation with the installed one and knows no others.
* One server and one execution: the maps are per server and per execution, and
  the locks shared between servers protect single map accesses. The proofs about
  `ConnManager`, `AgentQuiescence` and `AgentExecution` hold for any number.
* Capacities of one to three reach a full ledger, budget, queue or table, and two
  tunnels compete for one place. The places of terminals are not competed for: there
  is one terminal in an instance, because two of them are out of reach of a run.
* `TerminalSessions` is checked with a terminal of each transport: the web terminal on
  one connection, the SSH terminal on two. `ApplicationTunnels` is checked with two
  tunnels on one connection and with one tunnel on two.
* The agent's executions: two attempts of one execution, one of them Enhanced, a budget
  of two and a crash.
* One crash: every state before it is a starting point of the recovery code. The
  proofs about `AgentExecution`, `AgentQuiescence` and `HubExecution` hold for any
  number of crashes.
* `hub_progress` has one generation, no crash and no revocation: liveness after a
  crash is liveness of reconciliation, which is one transaction at start-up.
* `AgentUpdates` is checked twice: with two operations, so that the reports of one
  meet the row of the other, and with one operation and a fault of any process;
  boots and connections as many as that needs.
* `Notifications`, `ApplicationAccess` and `CliCredentials` are checked twice as well,
  because two kinds of disturbance at once multiply the states and no code looks at
  both: alarms or edits of the settings; two sessions with one request, or two
  requests of one session and a restart; three commands or a killed one.
* Liveness is checked on one terminal, tunnel, tail or download where the fair steps
  of several do not depend on each other, and on one connection of the terminal's
  agent, which may be lost at any step: the loss, and the absence that follows, are
  what an ending must survive. A second connection of an SSH terminal is part of the
  safety run `operations`, that of a tunnel and of a tail of `endings` too. In
  `records` the node renews its certificate with a crash and a lost reply but no
  failed write, which the property excuses; `governance` has the failed write.
* Two processes, administrators, downloads or uploads of a kind, and two requests
  where they meet (`SignIn`, `Accounts`, `AuditArchive`, the restarting instance of
  `ApplicationAccess`): the code they run knows itself and whoever else holds the row.
  Three tails, because the limits tell an administrator from viewers.
* `SignIn` is checked twice, once with two changes of the account and once with
  three pairs of tokens, which a refresh that races another needs.
* `SecurityChanges` has an officer and two approvers, one of them with a second
  account: the smallest set in which a quorum can and cannot be one person's.
  Once the roles of two accounts may change with one decision pending, once two
  decisions of the officer and the approvers' first accounts compete. The proof of
  `QuorumDecides` holds for any number of accounts and changes.
* `PolicyTransition`: the first policy and two changes, two processes that take up
  a transition and one restored backup; and one change with a crash as well.
* `AuditExport`: three events on pages of two, so that a page ends in the middle.

Symmetry is used only in runs without liveness properties, over identifiers the
code does not compare but for equality.

What the code does not guarantee is not assumed, but told apart. `MaintenanceIsQuiescent`
and `RunningWorkIsAccounted` speak of the servers that are not in `late`, and
`UpdateOutcomeIsTrue` excepts what a bootstrap may write that is in `unheard`; the
behaviours excepted are in the same runs, and `late_registration` and
`unheard_bootstrap` show what happens in them. One proviso is left: in `operations`
the commands that write credentials without the lock run alone (`Alone`), and
`stale_save` shows what happens when they do not.

### Fairness

Fairness is assumed of goroutines that have something to do: Go's scheduler runs
every runnable goroutine, and mutexes of `sync` do not starve. No fairness is
assumed of clients, agents, connections, revocations, crashes or failures. A
stream whose peer is gone ends (gRPC keepalive, `grpcserver/server.go`), timers
fire, and tickers tick.

Most modules need less than that and state less: one weak fairness condition over
all steps of the component's goroutines, which says that while any of them can move
some of them does. A behaviour in which one of them waits for ever because others
go on is admitted, and the liveness properties hold nevertheless, because every
goroutine comes to its end. Where others may go on for ever a goroutine has a
condition of its own: in `NodeCertificates`, `ServerStatus`, `ExecutionEvidence`,
`OriginalAccess`, `ApplicationAccess` and `CliCredentials`.

Strong fairness is assumed where something that is retried for ever does not
always fail: the store and the age of an event in `ExecutionEvidence`
(`MaxRecoveryAge`), an index request in `AuditExport`. In `TerminalSessions` it is
assumed of the poll of the authority and of the receive loop, and in
`AgentExecution` of the goroutines of the attempts together: a lock another
goroutine takes again and again disables them for a while, and the goroutine stays
queued for it.

Deadlock is not checked, because every modelled part really may stop: an execution
that is over, an agent that has used its streams, users who ask for nothing more.
That nobody waits for ever is what the liveness properties say.

## Proofs

Proved by TLAPS for all values of the constants. The inductive invariants were
checked by TLC on small instances before they were proved. Assumptions are only
those on the constants that the modules name (capacities are natural numbers, sets
are finite, the ledger has the kind "claimed"), and the hypotheses on constants that
the theorems of `GovernanceProofs` and `OriginalAccessProofs` state.

### ConnManager

`ConnManagerProofs`, with the invariant in `ConnManagerInvariants`, for any servers,
generations, senders, ids and capacities: `TypeCorrect`, `OneGenerationAtATime`,
`LedgerSafety`, `LedgerArithmetic`, `WorkIsNeverForgotten`. The properties are not
inductive. Mutual exclusion needs the lock discipline (who is at which step of a send
holds which lock, and a generation that retires waits for `GenerationMu`), and
"maintenance excludes work" needs that a send past its guard was admitted before the
reservation, which again rests on `SendMu`. The arithmetic needs the counters as
cardinalities of sets of records; each ledger operation is a lemma about adding or
removing one element of a finite set.

### AgentQuiescence

`AgentQuiescenceMessages` and `AgentQuiescenceProofs`, with
the invariant in `AgentQuiescenceInvariants`, for any servers, generations, requests,
senders and crashes of either side: `LedgerAndAgent`,
`QuiescenceHolds`, `AccountingHolds`, `WorkSurvives`. They reuse the invariant of
`ConnManager`, whose steps are those of the Hub here, and assume nothing of the order
in which handlers register: the first three speak of the servers where no older
generation was installed over a newer one (the others may violate them, see findings),
`WorkSurvives` of all. The layers of the invariant `QInv`:

* `InOrder`: each generation is dialed once, by its own server; an open session is
  the last one dialed; the installed generation of a server that is not late was not
  overtaken.
* `Once`: a request reaches the agent at most once. What a sender carries is nowhere
  else before it is sent; what is queued is in the open session and, while its
  generation is current, recorded as sent. So only a send creates work.
* `Reported`: a running worker is counted already, or its record stays until a count
  that includes it has arrived. It rests on the order of one stream: the agent queues
  the count of a worker before its last response, and a zero only when no worker is
  left. Every other generation that is or may become current has only non-zero
  counts queued, because its first report counted the worker.
* `AllAccounted`: work of an observed agent has an uncertainty slot, a record or a
  count. Retirement, disconnects, abandoned waiters and time-outs lose nothing
  (`Steady`): what they remove of a current generation leaves an uncertainty slot.
* `Reserved`: while the callback of `ReserveMaintenance` runs, nobody sends on the
  reserved generation, and a generation that was replaced meanwhile is not live, so
  the idle check is still right when the reservation is committed.

### AgentExecution

`AgentExecutionProofs`, for any attempts, executions, capacity and number of
crashes: `TypeCorrect`, `AtMostOnce`, `Truthful`, `Accounting`, `Refinement`. The
inductive invariant relates the phase of every attempt to the journal: at most
one attempt is between claim and end, its record exists on disk from the moment
a process can exist, and what a crash may leave of a record is never less than a
claim. The refinement maps initial states to initial states and every step to a
step or a stutter; its abstract action property follows from the same invariant.

### HubExecution

`HubExecutionProofs` and `HubExecutionOutputs`, for any number of control connections,
outputs, frames, places in a queue, crashes and losses of power: `InvariantHolds`,
`NeverRanHolds`, `RestartKnowsHolds`, `ArchivedHolds`, `AuthorityHolds`,
`DrainedHolds`. Whether a row is true of the agent depends on everything between them,
and the invariant follows a start on its way:

* `OneStart`: there is one Start, in the session's queue, with the sender, on the
  stream, or consumed by the agent, which launched or said that it did not.
* `Withdrawn`: the gateway gives up on a dispatched command only with a session that
  is done, which is what the sender's last check reads. With `OneStart` it follows
  that a command that was denied will not run (`SaysItNeverRan`), although gateway,
  sender and agent never agree on it.
* `RowFollows`: row and archive are ahead of the dispatch, which is what a restart
  relies on; `Revoked`: authority withdrawn early finds the sender before its last
  read of it.
* For `DrainedBeforeExit`, an account of every output: what the process wrote is what
  the channel got, what is queued and what is on the stream (`Flow`). The end of an
  output is behind its frames and the result behind every end (`Flowing`), a relay
  that ends undisturbed leaves an empty queue (`Relayed`), and the gateway counts the
  relays before it reports (`Reported`).

### Accounts, SecurityChanges, AuditArchive and OriginalAccess

`OriginalAccessProofs`, and `GovernanceProofs` for the other three, which share no state:
it extends `SecurityChanges` and instantiates `Accounts` and `AuditArchive` with
variables of their own. Each theorem states what a run checks
of the component (`governance`, `records`), for any number of requests,
accounts, records, changes, downloads and restarts.

* `AdministratorsRemain` and `FoundedOnce` (`Accounts`; there is an identity): a hub
  that was set up has an enabled administrator, whatever any number of administrators do
  to each other at the same time, and at most one of the registrations that race for the
  first account has it. Neither is inductive. A transaction that takes somebody's rights
  reads its caller again (`guardAccountManagementActor`), so the caller is the one who
  remains (`ByAdministrator`); that the caller has an authenticator, and that how far a
  registration is tells what became of its account (`Registered`), is what makes this
  hold across the end of the set-up.
* `QuorumDecides` (`SecurityChanges`; `Nobody` is neither a user nor a change): a change
  takes effect only by the word of an officer, of two other people who approved it,
  and of an applier, all of whom are still what they were when they gave it. The
  invariant `ChangesInv` ties the marks that the triggers keep on a change to a history
  of the words whose givers changed since; the votes are a finite set whose
  cardinality the quorum counts.
* `ReceiptsAreForGood` (`AuditArchive`; `NoRecord` is no record): a receipt means that
  event, manifest and parts are held as promised. A request about to sign has seen
  what it signs for (`ArchiveSeen`), and what it saw cannot change, because the store
  only creates.
* `OriginalsAreAccountedFor` (`OriginalAccess`; the length of an original is a natural
  number): one permit serves one download, no byte leaves before intent and start are
  archived, what the archive says of a read is what happened, and what is shown as
  confirmed is complete. The invariant `AccessInv` says of every record that is archived,
  queued, or in the hands of a download or of the recovery that it is true and stays so
  (`Told`), whichever of them delivers it, and however often.

### Left to TLC

Liveness under fairness, which is out of the prover's reach. Of the runs of
`ConnManager`, `AgentQuiescence`, `AgentExecution` and `HubExecution` every safety
property is proved. The runs `operations`, `governance`, `records` and `endings` check
several components side by side and state their properties together; of their
components those of `GovernanceProofs` and `OriginalAccessProofs` are proved, the
others are model-checked only (`AgentUpdates`, `Notifications`, `FileUploads`,
`LogTails`, `TerminalSessions`, `ApplicationAccess`, `ApplicationTunnels`,
`ProxyConn`, `GatewayServer`, `SignIn`, `PolicyTransition`, `AuditExport`, `ReEnroll`,
`NodeCertificates`, `ExecutionEvidence`, `ServerStatus`, `CliCredentials`,
`CliUpdate`).

## Findings

Each is a run that ends in a counterexample; the quotations are in
`PROJECT.json`.

* `connected_offline`: the heartbeat monitor may mark a connected server offline,
  and nothing marks it online again while the connection lasts.
* `expired_node`: an agent that sees that its own certificate has expired dials
  without one, and the Hub's answer is not among those that lead the agent into
  re-enrolment. It dials for ever. An agent whose clock still takes the
  certificate for valid is refused during the handshake and does ask.
* `stale_save`: `ssh-cert` (like `login` and `logout`) writes the stored record
  without the refresh lock. A token rotated in between is overwritten by the
  spent one.
* `late_registration`: `Register` replaces whatever is installed. A stream whose
  registration is delayed replaces one that the agent opened later, its queued report
  of an idle agent clears the uncertainty, and maintenance is reserved although a
  request is on its way to the agent. The agent then refuses the update by its own
  count (`budget.go:83`).
* `unheard_bootstrap`: when the command that starts the supervisor is cut off after
  the unit was started, `bootstrap.go:142` writes "failed" over the journal of an
  update that may have succeeded, while `supervisor.go:192` says "A durable success
  wins".

Other disagreements met while modelling; no run is kept for them, and each is a
hazard in `PROJECT.json`:

* A claim whose protected input cannot be opened stays in the journal's map
  without a place in the budget.
* An execution may be reported as exited with output that was never written,
  because a relay that failed or was cancelled counts as drained.
* A terminal's close that is handled before its open leaves a shell nobody stops.
* An archive attempt interrupted between envelope and manifest can leave a record
  no later attempt completes, because its retention is compared with the later
  acceptance time (`service.go:187`, `s3.go:155`).
* A fired timer deletes the entry of its successor, whose alarm is then not
  cancelled by the return of the node (`notifier.go:42` says it is).
* The claim of a Standard execution is not synced; events of a running execution
  lost to a crash are not made up for; a connection closed by the monitor may
  leave no disconnect event.

## Not modelled

* **Bytes**: input and output of executions and terminals beyond counted frames,
  proxied HTTP, contents of files and logs, SMTP, the wording of messages.
* **Cryptography and parsing**: certificates, envelopes, seals, tokens and
  passwords are values with the relations the code checks; SSH and CLI argument
  parsing, migrations, configuration.
* **Requests that are one transaction**: fleet, permission and settings handlers,
  the local audit log. The store serialises them, and a model would restate SQL.
  The deletion of a server against a connecting agent is the exception and is
  listed as a hazard.
* **Directory users and API tokens**: variants of sign-in with an external source
  of truth.
* **The web interface** and generated protocol code.
* **Time**: deadlines are steps that may come at any moment, and backoff is a step.
  Nothing is shown about how long something takes.

## Running

    tlc -workers 2 -config MCAgentQuiescence.cfg MCAgentQuiescence
    tlapm ConnManagerProofs.tla

`runs` in `PROJECT.json` names the module and configuration of each run.
