-------------------------- MODULE TerminalSessions --------------------------
(***************************************************************************)
(* Interactive terminals of one node: the registry of the Hub, the two       *)
(* transports that hold a terminal (a browser and the SSH gateway), the      *)
(* authority that admits and later revokes it, and the shells of the agent.  *)
(*                                                                           *)
(* Hub: grpcserver/terminalsessions.go, interactive_terminal.go,             *)
(* server/handlers_terminal.go, sshgw/session.go, sshgw/bridge.go.           *)
(* Agent: internal/terminal/manager.go, internal/client/client.go.           *)
(*                                                                           *)
(* The final check of SendInteractive and its send are one step: the policy  *)
(* lock, the lock of the registration and the writer lock of the store are   *)
(* held across both.                                                         *)
(***************************************************************************)
EXTENDS Naturals, Sequences, FiniteSets

CONSTANTS Web, Ssh,       \* terminals by the transport that asks for them
          MaxGens,        \* connections of the agent
          MaxQueue,       \* events a terminal buffers, 256 in the code
          MaxOnNode,      \* open terminals of a node, 8 in the code
          MaxWatchers     \* credential watchers, 256 in the code

VARIABLES
  reg,      \* the registration: its state, connection, and flags
  gate,     \* terminalOutput: revoked, being written, write aborted
  queue,    \* buffered events
  watch,    \* the credential watcher
  lock,     \* who holds the registry while a write is waited for
  pc,       \* the handler that opens and relays the terminal
  tear,     \* the steps of its handler and of a Delete that close and remove it
  closer,   \* the one TerminalClose
  pending,  \* the acknowledgement of the agent
  auth,     \* the authority of the terminal, as the store has it
  maint,    \* an update reserves the node
  conn,     \* the installed connection, 0 if none
  ender,    \* onAgentDisconnected between its steps
  gens,     \* connections there were
  stream, down, up,   \* the agent's side of the control stream
  inbox,    \* messages that goroutines of the agent handle
  shell     \* shells of the agent

hubVars == <<reg, gate, queue, watch, lock, pc, tear, closer, pending, ender>>
agentVars == <<gens, stream, down, up, inbox, shell>>
vars == <<hubVars, auth, maint, conn, agentVars>>
-----------------------------------------------------------------------------
T == Web \cup Ssh
Teardowns == {"handler", "delete"}
Free == "free"
NoEnder == [gen |-> 0, of |-> {}, at |-> "none"]
NoReg == [state |-> "none", gen |-> 0, admitted |-> FALSE, streaming |-> FALSE,
          stale |-> FALSE]
OpenGate == [exit |-> FALSE, writing |-> FALSE, aborted |-> FALSE]
Msg(kind, t) == [kind |-> kind, t |-> t]

Open(t) == reg[t].state = "open"
Known(t) == reg[t].state \in {"open", "closed"}
Live(t) == Open(t) /\ reg[t].gen = conn

Init ==
  /\ reg = [t \in T |-> NoReg] /\ gate = [t \in T |-> OpenGate]
  /\ queue = [t \in T |-> <<>>] /\ watch = [t \in T |-> "none"]
  /\ lock = [op |-> Free, t |-> Free] /\ pc = [t \in T |-> "idle"]
  /\ tear = [t \in T |-> [w \in Teardowns |-> "none"]] /\ closer = [t \in T |-> "none"]
  /\ pending = [t \in T |-> "none"]
  /\ auth = [t \in T |-> TRUE] /\ maint = FALSE
  /\ conn = 1 /\ ender = NoEnder
  /\ gens = 1 /\ stream = 1 /\ down = <<>> /\ up = <<>> /\ inbox = {}
  /\ shell = [t \in T |-> "none"]
-----------------------------------------------------------------------------
Watchers == {t \in T : watch[t] \in {"on", "exit"}}

\* AuthorizeTerminalExecution and GuardInteractive on live state; admission, every
\* send and the observer of the policy repeat it.
Validated(t) == auth[t]

\* An obvious denial is refused before admission, and what was found is not used again.
Ask(t) ==
  /\ pc[t] = "idle"
  /\ pc' = [pc EXCEPT ![t] = IF Validated(t) THEN "asked" ELSE "over"]
  /\ UNCHANGED <<reg, gate, queue, watch, lock, tear, closer, pending, ender, auth, maint,
                 conn, agentVars>>

\* RegisterInteractive and Register: validation, the exact connection and the
\* limits of the registry, under the policy lock.
Register(t) ==
  /\ pc[t] = "asked" /\ lock.op = Free
  /\ IF /\ Validated(t) /\ conn # 0 /\ ~maint
        /\ Cardinality({u \in T : Open(u)}) < MaxOnNode
        /\ Cardinality(Watchers) < MaxWatchers
     THEN /\ reg' = [reg EXCEPT ![t] = [NoReg EXCEPT !.state = "open", !.gen = conn]]
          /\ watch' = [watch EXCEPT ![t] = "on"]
          /\ pc' = [pc EXCEPT ![t] = "opening"]
     ELSE pc' = [pc EXCEPT ![t] = "over"] /\ UNCHANGED <<reg, watch>>
  /\ UNCHANGED <<gate, queue, lock, tear, closer, pending, ender, auth, maint, conn,
                 agentVars>>

\* ReserveMaintenance and ReleaseMaintenance of an agent update.
ReserveMaintenance ==
  /\ lock.op = Free /\ ~maint /\ \A t \in T : ~Open(t)
  /\ maint' = TRUE
  /\ UNCHANGED <<hubVars, auth, conn, agentVars>>

ReleaseMaintenance ==
  /\ lock.op = Free /\ maint /\ maint' = FALSE
  /\ UNCHANGED <<hubVars, auth, conn, agentVars>>
-----------------------------------------------------------------------------
\* revoke, entered by a caller that holds the registry: the gate is shut, a write
\* under way is aborted, and the caller waits for it.
Revoke(t, op) ==
  /\ lock' = [op |-> op, t |-> t]
  /\ gate' = [gate EXCEPT ![t].exit = TRUE, ![t].aborted = gate[t].writing]

\* endLocked has nothing to do for a registration that was revoked.
Ends(t) == Open(t) \/ (Known(t) /\ ~gate[t].exit)

\* The lock of the writer is free.
Written(t) == ~gate[t].writing

\* Mutant: a terminal that nobody attached to is removed without closing its shell.
GoClose_Ended(op, ended) == op = "force" /\ ended

\* A goroutine closes the agent's shell: a caller that tears down does it itself, and
\* the watcher does it when it ends.
GoClose(op, ended) == (op = "force" /\ ended) \/ op = "reap"

\* The end of endLocked and removeLocked, which both discard what was buffered.
\* A forced end leaves its exit event; only one that closed an open terminal
\* closes the agent's shell, by a goroutine unless the caller does.
Revoked ==
  LET t == lock.t
      ended == reg[t].state = "open"
  IN
  /\ lock.op # Free /\ Written(t) /\ lock' = [op |-> Free, t |-> Free]
  /\ IF lock.op \in {"remove", "reap"}
     THEN /\ reg' = [reg EXCEPT ![t].state = "gone"]
          /\ queue' = [queue EXCEPT ![t] = <<>>]
          /\ UNCHANGED watch
     ELSE /\ reg' = [reg EXCEPT ![t].state = "closed",
                                ![t].stale = @ \/ lock.op = "stale"]
          /\ queue' = [queue EXCEPT ![t] = IF ended THEN <<"exit">> ELSE <<>>]
          /\ watch' = [watch EXCEPT ![t] = IF @ = "on" THEN "exit" ELSE @]
  /\ closer' = IF GoClose(lock.op, ended)
               THEN [closer EXCEPT ![t] = IF @ = "none" THEN "asked" ELSE @]
               ELSE closer
  /\ tear' = [tear EXCEPT ![t] = [w \in Teardowns |->
       CASE @[w] = "ending" -> "close" [] @[w] = "removing" -> "done" [] OTHER -> @[w]]]
  /\ UNCHANGED <<gate, pc, pending, ender, auth, maint, conn, agentVars>>

\* EndOne, EndByUser and EndBySession: an administrator or a revoked session.
EndForced(t) ==
  /\ lock.op = Free /\ Ends(t)
  /\ Revoke(t, "force")
  /\ UNCHANGED <<reg, queue, watch, pc, tear, closer, pending, ender, auth, maint, conn,
                 agentVars>>

\* changeInteractivePolicy: the authority goes and the observer of the registry
\* ends what no longer validates.
ChangePolicy(t) ==
  /\ lock.op = Free /\ auth[t] /\ auth' = [auth EXCEPT ![t] = FALSE]
  /\ IF Ends(t) THEN Revoke(t, "force") ELSE UNCHANGED <<lock, gate>>
  /\ UNCHANGED <<reg, queue, watch, pc, tear, closer, pending, ender, maint, conn,
                 agentVars>>

\* Another process of the Hub, or a change without an observer: only the store knows.
LoseAuthority(t) ==
  /\ auth[t] /\ auth' = [auth EXCEPT ![t] = FALSE]
  /\ UNCHANGED <<hubVars, maint, conn, agentVars>>

\* Mutant: the watcher looks at the connection only.
Stale_Connection(t) == conn # reg[t].gen

\* credentialLive is false, or the captured connection is done.
Stale(t) == conn # reg[t].gen \/ ~auth[t]

\* endStaleCredential, by the watcher.
WatchEnds(t) ==
  /\ watch[t] = "on" /\ Known(t) /\ lock.op = Free
  /\ Revoke(t, "stale")
  /\ watch' = [watch EXCEPT ![t] = "exit"]
  /\ UNCHANGED <<reg, queue, pc, tear, closer, pending, ender, auth, maint, conn,
                 agentVars>>

\* watchCredential: removal and a forced end release it, anything stale is ended, and
\* so is a terminal whose credential could not be looked up in time.
WatchStale(t) == Stale(t) /\ WatchEnds(t)
WatchTimeout(t) == ~Stale(t) /\ WatchEnds(t)

Released(t) == reg[t].state = "gone"

WatchRemoved(t) ==
  /\ watch[t] = "on" /\ Released(t)
  /\ watch' = [watch EXCEPT ![t] = "exit"]
  /\ UNCHANGED <<reg, gate, queue, lock, pc, tear, closer, pending, ender, auth, maint,
                 conn, agentVars>>

\* The message is on its way if the agent still has the stream.
Deliver(m) ==
  down' = IF stream = conn THEN Append(down, m) ELSE down

\* close, once: to the captured connection, or nowhere if that is done.
CloseAgent(t) ==
  /\ IF closer[t] # "sent" /\ reg[t].gen = conn THEN Deliver(Msg("close", t))
                                                ELSE UNCHANGED down
  /\ closer' = [closer EXCEPT ![t] = "sent"]

\* The deferred end of the watcher gives its slot back.
WatchEnd(t) ==
  /\ watch[t] = "exit" /\ lock.t # t
  /\ IF reg[t].stale THEN CloseAgent(t) ELSE UNCHANGED <<down, closer>>
  /\ watch' = [watch EXCEPT ![t] = "off"]
  /\ UNCHANGED <<reg, gate, queue, lock, pc, tear, pending, ender, auth, maint, conn,
                 gens, stream, up, inbox, shell>>

\* go a.close()
CloseSend(t) ==
  /\ closer[t] = "asked" /\ CloseAgent(t)
  /\ UNCHANGED <<reg, gate, queue, watch, lock, pc, tear, pending, ender, auth, maint,
                 conn, gens, stream, up, inbox, shell>>
-----------------------------------------------------------------------------
\* The checks of SendInteractive under its locks.
MaySend(t) == Live(t) /\ Validated(t)

\* SendInteractive of the open request, or the forced end it leads to.
SendOpen(t) ==
  /\ pc[t] = "opening" /\ lock.op = Free
  /\ IF MaySend(t)
     THEN /\ reg' = [reg EXCEPT ![t].admitted = TRUE]
          /\ Deliver(Msg("open", t))
          /\ pc' = [pc EXCEPT ![t] = "acking"]
          /\ UNCHANGED <<lock, gate, tear>>
     ELSE /\ IF Ends(t) THEN Revoke(t, "force") ELSE UNCHANGED <<lock, gate>>
          /\ pc' = [pc EXCEPT ![t] = "over"]
          /\ tear' = [tear EXCEPT ![t].handler = "abandon"]
          /\ UNCHANGED <<reg, down>>
  /\ UNCHANGED <<queue, watch, closer, pending, ender, auth, maint, conn, gens, stream,
                 up, inbox, shell>>

\* The wait for the acknowledgement, which a timeout, the end of the connection
\* and the end of the terminal also end.
Acknowledged(t) ==
  /\ pc[t] = "acking"
  /\ \/ /\ pending[t] = "ack" /\ (t \in Web => Open(t))
        /\ pc' = [pc EXCEPT ![t] = "created"] /\ UNCHANGED tear
     \/ /\ pending[t] = "nack" /\ pc' = [pc EXCEPT ![t] = "over"]
        /\ tear' = [tear EXCEPT ![t].handler = IF t \in Web THEN "remove" ELSE "abandon"]
     \/ /\ pc' = [pc EXCEPT ![t] = "over"]
        /\ tear' = [tear EXCEPT ![t].handler = "abandon"]
  /\ pending' = [pending EXCEPT ![t] = "none"]
  /\ UNCHANGED <<reg, gate, queue, watch, lock, closer, ender, auth, maint, conn,
                 agentVars>>

\* AttachStream, at once by the gateway, when it asks by a browser.
Attach(t) ==
  /\ pc[t] = "created" /\ lock.op = Free
  /\ IF Known(t) /\ (t \in Web \/ Open(t))
     THEN /\ reg' = [reg EXCEPT ![t].streaming = TRUE]
          /\ pc' = [pc EXCEPT ![t] = "relay"] /\ UNCHANGED tear
     ELSE /\ pc' = [pc EXCEPT ![t] = "over"] /\ UNCHANGED reg
          /\ tear' = [tear EXCEPT ![t].handler = "abandon"]
  /\ UNCHANGED <<gate, queue, watch, lock, closer, pending, ender, auth, maint, conn,
                 agentVars>>

\* expireUnattachedTerminalSession: nobody attached within 30 seconds.
Expire(t) ==
  /\ t \in Web /\ pc[t] = "created" /\ lock.op = Free /\ ~reg[t].streaming
  /\ pc' = [pc EXCEPT ![t] = "over"]
  /\ IF Known(t) THEN Revoke(t, "reap") ELSE UNCHANGED <<lock, gate>>
  /\ UNCHANGED <<reg, queue, watch, tear, closer, pending, ender, auth, maint, conn,
                 agentVars>>

\* The relay ends: forced, with the exit of the agent, with the channel, or with
\* the client.
RelayEnd(t) ==
  /\ pc[t] = "relay"
  /\ \/ gate[t].exit
     \/ queue[t] # <<>> /\ Head(queue[t]) = "exit"
     \/ queue[t] = <<>> /\ ~Open(t)
  /\ pc' = [pc EXCEPT ![t] = "over"] /\ tear' = [tear EXCEPT ![t].handler = "end"]
  /\ UNCHANGED <<reg, gate, queue, watch, lock, closer, pending, ender, auth, maint, conn,
                 agentVars>>

ClientGone(t) ==
  /\ pc[t] = "relay"
  /\ pc' = [pc EXCEPT ![t] = "over"] /\ tear' = [tear EXCEPT ![t].handler = "end"]
  /\ UNCHANGED <<reg, gate, queue, watch, lock, closer, pending, ender, auth, maint, conn,
                 agentVars>>

\* forward: a write begins only while the gate is open.
RelayData(t) ==
  /\ pc[t] = "relay" /\ ~gate[t].exit /\ queue[t] # <<>> /\ Head(queue[t]) = "data"
  /\ queue' = [queue EXCEPT ![t] = Tail(@)]
  /\ gate' = [gate EXCEPT ![t].writing = TRUE]
  /\ pc' = [pc EXCEPT ![t] = "writing"]
  /\ UNCHANGED <<reg, watch, lock, tear, closer, pending, ender, auth, maint, conn,
                 agentVars>>

\* The client takes what is written, or the abort makes the write fail.
Wrote(t) ==
  /\ pc[t] = "writing"
  /\ gate' = [gate EXCEPT ![t].writing = FALSE]
  /\ \/ pc' = [pc EXCEPT ![t] = "relay"] /\ UNCHANGED tear
     \/ /\ gate[t].aborted
        /\ pc' = [pc EXCEPT ![t] = "over"] /\ tear' = [tear EXCEPT ![t].handler = "end"]
  /\ UNCHANGED <<reg, queue, watch, lock, closer, pending, ender, auth, maint, conn,
                 agentVars>>

\* Input and resize: SendInteractive, and a forced end when it refuses.
Input(t) ==
  /\ pc[t] \in {"created", "relay", "writing"} /\ Open(t) /\ lock.op = Free
  /\ IF MaySend(t)
     THEN /\ ~\E i \in DOMAIN down : down[i] = Msg("input", t)
          /\ Deliver(Msg("input", t)) /\ UNCHANGED <<lock, gate>>
     ELSE Revoke(t, "force") /\ UNCHANGED down
  /\ UNCHANGED <<reg, queue, watch, pc, tear, closer, pending, ender, auth, maint, conn,
                 gens, stream, up, inbox, shell>>

\* closeTerminalSession asked for by the browser.
Delete(t) ==
  /\ t \in Web /\ tear[t].delete = "none" /\ Known(t)
  /\ pc[t] = "created" \/ reg[t].streaming
  /\ tear' = [tear EXCEPT ![t].delete = "end"]
  /\ UNCHANGED <<reg, gate, queue, watch, lock, pc, closer, pending, ender, auth, maint,
                 conn, agentVars>>

\* closeTerminalSession and teardown: CloseInteractive is left out if the agent
\* reported the exit, and a Delete leaves it out whoever closed the terminal.
Forced(t, w) == w = "handler" /\ gate[t].exit

TearRead(t, w) ==
  /\ tear[t][w] = "end" /\ lock.op = Free
  /\ tear' = [tear EXCEPT ![t][w] = CASE ~Known(t) -> "done"
                                     [] Known(t) /\ (Open(t) \/ Forced(t, w)) -> "abandon"
                                     [] OTHER -> "remove"]
  /\ UNCHANGED <<reg, gate, queue, watch, lock, pc, closer, pending, ender, auth, maint,
                 conn, agentVars>>

\* CloseInteractive: the forced end ...
TearEnd(t, w) ==
  /\ tear[t][w] = "abandon" /\ lock.op = Free
  /\ IF Ends(t)
     THEN Revoke(t, "tear") /\ tear' = [tear EXCEPT ![t][w] = "ending"]
     ELSE /\ tear' = [tear EXCEPT ![t][w] = IF Known(t) THEN "close" ELSE "done"]
          /\ UNCHANGED <<lock, gate>>
  /\ UNCHANGED <<reg, queue, watch, pc, closer, pending, ender, auth, maint, conn,
                 agentVars>>

\* ... the close of the captured connection ...
TearClose(t, w) ==
  /\ tear[t][w] = "close" /\ CloseAgent(t)
  /\ tear' = [tear EXCEPT ![t][w] = "remove"]
  /\ UNCHANGED <<reg, gate, queue, watch, lock, pc, pending, ender, auth, maint, conn,
                 gens, stream, up, inbox, shell>>

\* ... and the removal of the registration.
TearRemove(t, w) ==
  /\ tear[t][w] = "remove" /\ lock.op = Free
  /\ IF Known(t) THEN Revoke(t, "remove") /\ tear' = [tear EXCEPT ![t][w] = "removing"]
                 ELSE tear' = [tear EXCEPT ![t][w] = "done"] /\ UNCHANGED <<lock, gate>>
  /\ UNCHANGED <<reg, queue, watch, pc, closer, pending, ender, auth, maint, conn,
                 agentVars>>
-----------------------------------------------------------------------------
\* endLocked that is not forced: the exit takes the place of the oldest event.
EndPlain(S) ==
  /\ reg' = [t \in T |-> IF t \in S /\ Open(t) THEN [reg[t] EXCEPT !.state = "closed"]
                                              ELSE reg[t]]
  /\ queue' = [t \in T |->
       IF t \in S /\ Open(t)
       THEN Append(IF Len(queue[t]) = MaxQueue THEN Tail(queue[t]) ELSE queue[t], "exit")
       ELSE queue[t]]

\* A message of the agent, accepted from the connection the terminal captured.
Receive ==
  /\ up # <<>> /\ up' = Tail(up) /\ lock.op = Free
  /\ LET t == Head(up).t
         kind == Head(up).kind
         accepted == stream = conn /\ Live(t)
     IN
     CASE accepted /\ kind \in {"ack", "nack"} ->
            /\ pending' = IF pc[t] = "acking" THEN [pending EXCEPT ![t] = kind] ELSE pending
            /\ UNCHANGED <<reg, queue>>
       [] accepted /\ kind = "data" ->
            /\ queue' = IF Len(queue[t]) < MaxQueue
                        THEN [queue EXCEPT ![t] = Append(@, "data")] ELSE queue
            /\ UNCHANGED <<reg, pending>>
       [] accepted /\ kind = "exit" -> EndPlain({t}) /\ UNCHANGED pending
       [] OTHER -> UNCHANGED <<reg, queue, pending>>
  /\ UNCHANGED <<gate, watch, lock, pc, tear, closer, ender, auth, maint, conn, gens,
                 stream, down, inbox, shell>>

\* onAgentDisconnected: what is registered is captured before the connection is
\* detached, and ended after it.
DisconnectCapture ==
  /\ ender = NoEnder /\ conn # 0 /\ stream # conn /\ lock.op = Free
  /\ ender' = [gen |-> conn, of |-> {t \in T : Known(t)}, at |-> "detach"]
  /\ UNCHANGED <<reg, gate, queue, watch, lock, pc, tear, closer, pending, auth, maint,
                 conn, agentVars>>

DisconnectDetach ==
  /\ ender.at = "detach"
  /\ IF conn = ender.gen
     THEN conn' = 0 /\ ender' = [ender EXCEPT !.at = "end"]
     ELSE ender' = NoEnder /\ UNCHANGED conn
  /\ UNCHANGED <<reg, gate, queue, watch, lock, pc, tear, closer, pending, auth, maint,
                 agentVars>>

DisconnectEnd ==
  /\ ender.at = "end" /\ lock.op = Free
  /\ EndPlain(ender.of) /\ ender' = NoEnder
  /\ UNCHANGED <<gate, watch, lock, pc, tear, closer, pending, auth, maint, conn, agentVars>>
-----------------------------------------------------------------------------
\* The stream ends: CloseAll hangs up every shell of its manager.
StreamEnds ==
  /\ stream # 0
  /\ stream' = 0 /\ down' = <<>> /\ up' = <<>> /\ inbox' = {}
  /\ shell' = [t \in T |-> IF shell[t] = "running" THEN "hup" ELSE shell[t]]
  /\ UNCHANGED <<hubVars, auth, maint, conn, gens>>

\* A new stream replaces the connection that is installed, if any.
Reconnect ==
  /\ stream = 0 /\ gens < MaxGens
  /\ gens' = gens + 1 /\ stream' = gens' /\ conn' = gens'
  /\ UNCHANGED <<hubVars, auth, maint, down, up, inbox, shell>>

\* The receive loop starts a goroutine for each message; the one that writes input
\* to a shell changes nothing here.
Dispatch ==
  /\ down # <<>> /\ down' = Tail(down)
  /\ inbox' = inbox \cup ({Head(down)} \ {Msg("input", Head(down).t)})
  /\ UNCHANGED <<hubVars, auth, maint, conn, gens, stream, up, shell>>

\* Open of the manager, and the acknowledgement.
HandleOpen(t) ==
  /\ Msg("open", t) \in inbox /\ inbox' = inbox \ {Msg("open", t)}
  /\ \/ shell' = [shell EXCEPT ![t] = "running"] /\ up' = Append(up, Msg("ack", t))
     \/ up' = Append(up, Msg("nack", t)) /\ UNCHANGED shell
  /\ UNCHANGED <<hubVars, auth, maint, conn, gens, stream, down>>

\* Close of the manager does nothing for a session it does not know.
HandleClose(t) ==
  /\ Msg("close", t) \in inbox /\ inbox' = inbox \ {Msg("close", t)}
  /\ shell' = [shell EXCEPT ![t] = IF @ = "running" THEN "hup" ELSE @]
  /\ UNCHANGED <<hubVars, auth, maint, conn, gens, stream, down, up>>

\* readLoop, and waitLoop once the process has exited.
ShellOutput(t) ==
  /\ shell[t] = "running" /\ ~\E i \in DOMAIN up : up[i] = Msg("data", t)
  /\ up' = Append(up, Msg("data", t))
  /\ UNCHANGED <<hubVars, auth, maint, conn, gens, stream, down, inbox, shell>>

ShellExit(t) ==
  /\ shell[t] \in {"running", "hup"} /\ shell' = [shell EXCEPT ![t] = "exited"]
  /\ up' = IF stream # 0 /\ stream = reg[t].gen THEN Append(up, Msg("exit", t)) ELSE up
  /\ UNCHANGED <<hubVars, auth, maint, conn, gens, stream, down, inbox>>
-----------------------------------------------------------------------------
Transport(t) ==
  \/ Ask(t) \/ Register(t) \/ SendOpen(t) \/ Acknowledged(t) \/ Attach(t) \/ Expire(t)
  \/ RelayEnd(t) \/ RelayData(t) \/ Wrote(t)

Teardown(t) ==
  \E w \in Teardowns : TearRead(t, w) \/ TearEnd(t, w) \/ TearClose(t, w) \/ TearRemove(t, w)

Watching(t) == WatchStale(t) \/ WatchTimeout(t) \/ WatchRemoved(t) \/ WatchEnd(t)

Disconnect == DisconnectCapture \/ DisconnectDetach \/ DisconnectEnd

Client(t) == ClientGone(t) \/ Input(t) \/ Delete(t)

Authority(t) == EndForced(t) \/ ChangePolicy(t) \/ LoseAuthority(t)

Agent(t) == HandleOpen(t) \/ HandleClose(t) \/ ShellOutput(t) \/ ShellExit(t)

Next ==
  \/ \E t \in T : \/ Transport(t) \/ Teardown(t) \/ Watching(t) \/ CloseSend(t)
                  \/ Client(t) \/ Authority(t) \/ Agent(t)
  \/ Revoked \/ Receive \/ Disconnect \/ Dispatch \/ StreamEnds \/ Reconnect
  \/ ReserveMaintenance \/ ReleaseMaintenance

\* Goroutines of both sides go on.  A client may stop reading, so a write ends by
\* itself only when it is aborted; nothing is assumed of clients, of shells that
\* were not hung up, of administrators and of the agent's reconnection.  That some
\* goroutine goes on is enough; only the ticker of a watcher and the receive loop need
\* their own turn, past sends that take the registry again and again.
Fairness ==
  /\ WF_vars(\/ Revoked \/ Dispatch
             \/ \E t \in T :
                  \/ SendOpen(t) \/ Acknowledged(t) \/ RelayEnd(t) \/ RelayData(t) \/ Expire(t)
                  \/ (t \in Ssh /\ Attach(t)) \/ (gate[t].aborted /\ Wrote(t))
                  \/ Teardown(t) \/ WatchRemoved(t) \/ WatchEnd(t) \/ CloseSend(t)
                  \/ HandleOpen(t) \/ HandleClose(t) \/ (shell[t] = "hup" /\ ShellExit(t)))
  /\ SF_vars(\E t \in T : WatchStale(t)) /\ SF_vars(Receive \/ Disconnect)

Spec == Init /\ [][Next]_vars /\ Fairness
-----------------------------------------------------------------------------
TypeOK ==
  /\ \A t \in T :
       /\ reg[t].state \in {"none", "open", "closed", "gone"}
       /\ reg[t].gen \in 0 .. MaxGens
       /\ Len(queue[t]) <= MaxQueue
       /\ watch[t] \in {"none", "on", "exit", "off"}
       /\ closer[t] \in {"none", "asked", "sent"}
       /\ shell[t] \in {"none", "running", "hup", "exited"}
  /\ gens \in 1 .. MaxGens /\ conn \in 0 .. gens /\ stream \in 0 .. gens

\* When the revocation of a terminal has returned to its caller, none of its output
\* is being written, however slow the client is.
SilentAfterRevocation ==
  \A t \in T : gate[t].exit /\ lock.t # t => ~gate[t].writing

\* A shell that runs on the connection of a terminal the Hub has removed was told to
\* close, or a goroutine that tells it is on its way.
RemovedIsTold ==
  \A t \in T :
    reg[t].state = "gone" /\ shell[t] = "running" /\ reg[t].gen = conn =>
      \/ closer[t] # "none" \/ (watch[t] = "exit" /\ reg[t].stale)
      \/ \E w \in Teardowns : tear[t][w] = "close"

\* A terminal that lost its authority, or its connection, does not stay open, also
\* when nothing in this process was told and the client is not reading.
LostAuthorityEnds ==
  \A t \in T : Open(t) /\ (~auth[t] \/ reg[t].gen # conn) ~> ~Open(t)

\* The slot of a watcher comes back when its terminal is gone.
WatcherSlotReturns ==
  \A t \in T : reg[t].state = "gone" ~> watch[t] = "off"

=============================================================================
