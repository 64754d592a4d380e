-------------------------- MODULE AgentQuiescence --------------------------
(***************************************************************************)
(* The Hub's activity ledger (ConnManager) together with the agents that do *)
(* the work: the agent's activity session (agent/internal/client), its      *)
(* budget of running workers (agent/internal/sessionlimit), the two FIFO    *)
(* directions of each Connect stream, and crashes of either side.           *)
(*                                                                         *)
(* The question is the one the ledger exists to answer: may the Hub, from   *)
(* what it has been told, conclude that nothing runs on the agent?          *)
(*                                                                         *)
(* An agent opens a new control stream only after closing the session of    *)
(* the previous one; its workers outlive sessions and Hub restarts.         *)
(***************************************************************************)
EXTENDS ConnManager, Sequences

CONSTANTS
  MaxCrashes        \* bound on crashes of the Hub and of agents

ASSUME ClaimedAssumption == "claimed" \in Kinds

VARIABLES
  dialed,       \* the streams each agent has opened, in order
  session,      \* the generation the agent's open activity session belongs to
  toAgent,      \* requests handed to the transport of each generation
  fromAgent,    \* responses and worker counts queued to the Hub
  worker,       \* the agent's workers: "none", "running" or "responded"
  fresh,        \* request ids (UUIDs) not used yet on a generation
  observed,     \* servers with a count observed since the Hub started
  late,         \* history: servers where a generation was installed after one
                \* that the agent opened later (no code reads it)
  crashes

agentVars == <<dialed, session, toAgent, fromAgent, worker>>
allVars == <<vars, agentVars, fresh, observed, late, crashes>>

Done(i) == [type |-> "done", id |-> i, count |-> 0]
Count(j) == [type |-> "count", id |-> None, count |-> j]

Running(n) == {k \in Keys : ServerOf[k[1]] = n /\ worker[k] # "none"}
activities(n) == Cardinality(Running(n))

\* The agent runs nothing and has nothing on its way to it.
Quiescent(n) ==
  Running(n) = {} /\ (session[n] # None => toAgent[session[n]] = << >>)

AgentInit ==
  /\ dialed = [n \in Nodes |-> << >>]
  /\ session = [n \in Nodes |-> None]
  /\ toAgent = [c \in Conns |-> << >>]
  /\ fromAgent = [c \in Conns |-> << >>]
  /\ worker = [k \in Keys |-> "none"]
  /\ fresh = Keys
  /\ observed = {}
  /\ late = {}
  /\ crashes = 0

QInit ==
  /\ Init
  /\ maintenance = [n \in Nodes |-> None]
  /\ AgentInit
-----------------------------------------------------------------------------
(* The agent.                                                               *)

\* Mutant: observe assumes that a new stream starts with an idle agent.
AgentOpen_NoSnapshot(c) ==
  LET n == ServerOf[c] IN
  /\ session[n] = None
  /\ ConnectStart(c)
  /\ dialed' = [dialed EXCEPT ![n] = Append(@, c)]
  /\ session' = [session EXCEPT ![n] = c]
  /\ fromAgent' = [fromAgent EXCEPT ![c] = << Count(0) >>]
  /\ UNCHANGED <<toAgent, worker, fresh, observed, crashes>>

\* connectAndStream: the handshake is acknowledged, observe queues the initial
\* count, and the Hub's handler goes on to Register.
AgentOpen(c) ==
  LET n == ServerOf[c] IN
  /\ session[n] = None
  /\ ConnectStart(c)
  /\ dialed' = [dialed EXCEPT ![n] = Append(@, c)]
  /\ session' = [session EXCEPT ![n] = c]
  /\ fromAgent' = [fromAgent EXCEPT ![c] = << Count(activities(n)) >>]
  /\ UNCHANGED <<toAgent, worker, fresh, observed, crashes>>

\* activitySession.close: nothing more is dispatched, answered or reported on
\* this stream.  What was already queued to the Hub may still arrive.
AgentClose(n) ==
  /\ session[n] # None
  /\ toAgent' = [toAgent EXCEPT ![session[n]] = << >>]
  /\ session' = [session EXCEPT ![n] = None]
  /\ UNCHANGED <<vars, dialed, fromAgent, worker, fresh, observed, crashes>>

\* dispatch: AcquireActivity admits the worker and reports the new count ...
AgentDispatch(n) ==
  LET c == session[n]
      k == <<c, Head(toAgent[c])>>
  IN
  /\ c # None
  /\ toAgent[c] # << >>
  /\ activities(n) < MaxNodeActivities
  /\ worker' = [worker EXCEPT ![k] = "running"]
  /\ toAgent' = [toAgent EXCEPT ![c] = Tail(@)]
  /\ fromAgent' = [fromAgent EXCEPT ![c] = Append(@, Count(activities(n) + 1))]
  /\ UNCHANGED <<vars, dialed, session, fresh, observed, crashes>>

\* ... or the request is refused and answered at once.
AgentReject(n) ==
  LET c == session[n] IN
  /\ c # None
  /\ toAgent[c] # << >>
  /\ toAgent' = [toAgent EXCEPT ![c] = Tail(@)]
  /\ fromAgent' = [fromAgent EXCEPT ![c] = Append(@, Done(Head(toAgent[c])))]
  /\ UNCHANGED <<vars, dialed, session, worker, fresh, observed, crashes>>

\* The worker's last response, dropped once its session is closed.
WorkerRespond(k) ==
  LET c == k[1] IN
  /\ worker[k] = "running"
  /\ worker' = [worker EXCEPT ![k] = "responded"]
  /\ fromAgent' = IF session[ServerOf[c]] = c
                  THEN [fromAgent EXCEPT ![c] = Append(@, Done(k[2]))]
                  ELSE fromAgent
  /\ UNCHANGED <<vars, dialed, session, toAgent, fresh, observed, crashes>>

\* The deferred release, reported to whichever session observes the budget.
WorkerRelease(k) ==
  LET n == ServerOf[k[1]]
      s == session[n]
  IN
  /\ worker[k] = "responded"
  /\ worker' = [worker EXCEPT ![k] = "none"]
  /\ fromAgent' = IF s # None
                  THEN [fromAgent EXCEPT ![s] = Append(@, Count(activities(n) - 1))]
                  ELSE fromAgent
  /\ UNCHANGED <<vars, dialed, session, toAgent, fresh, observed, crashes>>

\* The agent process dies with everything it ran.
AgentCrash(n) ==
  /\ crashes < MaxCrashes
  /\ crashes' = crashes + 1
  /\ worker' = [k \in Keys |-> IF ServerOf[k[1]] = n THEN "none" ELSE worker[k]]
  /\ session' = [session EXCEPT ![n] = None]
  /\ toAgent' = [c \in Conns |-> IF c = session[n] THEN << >> ELSE toAgent[c]]
  /\ UNCHANGED <<vars, dialed, fromAgent, fresh, observed>>
-----------------------------------------------------------------------------
(* The Hub.                                                                 *)

\* A waiter's send: a request id is used for one dispatch.
HubSendStart(s, k) ==
  /\ k \in fresh
  /\ record[k] # "absent"
  /\ SendStart(s, k[1], [kind |-> "claimed", id |-> k[2]])
  /\ fresh' = fresh \ {k}
  /\ UNCHANGED <<agentVars, observed, crashes>>

\* The transport takes the request, or loses it with its stream.
HubSend(s) ==
  LET c == sender[s].conn IN
  /\ prepareActivitySend(s)
  /\ \/ session[ServerOf[c]] = c
        /\ toAgent' = [toAgent EXCEPT ![c] = Append(@, sender[s].msg.id)]
     \/ UNCHANGED toAgent
  /\ UNCHANGED <<dialed, session, fromAgent, worker, fresh, observed, crashes>>

\* routeAgentMessage for the next message of the stream.  A response releases
\* its record, if it still has one; a count that the Hub refuses ends the
\* stream (ConnectReturn), with the message unread.
routeAgentMessage(c) ==
  /\ Installed(c)
  /\ fromAgent[c] # << >>
  /\ LET m == Head(fromAgent[c]) IN
     IF m.type = "done"
     THEN /\ IF streams[ServerOf[c]] = c /\ record[<<c, m.id>>] # "absent"
             THEN CompleteActivity(c, m.id)
             ELSE UNCHANGED vars
          /\ UNCHANGED observed
     ELSE /\ ObserveActivityCapabilities(c, m.count)
          /\ observed' = observed \cup {ServerOf[c]}
  /\ fromAgent' = [fromAgent EXCEPT ![c] = Tail(@)]
  /\ UNCHANGED <<dialed, session, toAgent, worker, fresh, crashes>>

\* AgentUpdates.Start.  Without an administrator's idle assertion, Check must
\* have seen a capability that counts activities; Start reads the connection
\* again afterwards, so the count may be that of an earlier generation.  The
\* administrator who does assert it has looked and is right.
StartUpdate(c, op, manual) ==
  /\ IF manual THEN Quiescent(ServerOf[c]) ELSE ServerOf[c] \in observed
  /\ ReserveBegin(c, op, manual)
  /\ UNCHANGED <<agentVars, fresh, observed, crashes>>

CommitUpdate(c) ==
  /\ ReserveCommit(c)
  /\ UNCHANGED <<agentVars, fresh, observed, crashes>>

EndUpdate(n, op) ==
  /\ ReleaseMaintenance(n, op)
  /\ UNCHANGED <<agentVars, fresh, observed, crashes>>

\* The Hub process dies.  NewAgentUpdates restores the maintenance of the
\* operations whose installation was authorised and fails the others.
HubCrash ==
  /\ crashes < MaxCrashes
  /\ crashes' = crashes + 1
  /\ handler' = [c \in Conns |-> IF handler[c] = "idle" THEN "idle" ELSE "returned"]
  /\ streams' = [n \in Nodes |-> None]
  /\ retiring' = [n \in Nodes |-> None]
  /\ done' = {c \in Conns : handler[c] # "idle"}
  /\ finishers' = {}
  /\ delivering' = {}
  /\ sender' = [s \in Senders |-> IdleSender]
  /\ reserving' = [c \in Conns |-> None]
  /\ \E kept \in SUBSET Nodes :
       maintenance' = [n \in Nodes |-> IF n \in kept THEN maintenance[n] ELSE None]
  /\ record' = [k \in Keys |-> "absent"]
  /\ uncertain' = {}
  /\ activityNodes' = [n \in Nodes |-> 0]
  /\ activityCounts' = [c \in Conns |-> 0]
  /\ fromAgent' = [c \in Conns |-> << >>]
  /\ observed' = {}
  /\ UNCHANGED <<dialed, session, toAgent, worker, fresh>>

\* A stream that the agent opened after c has been installed.
Overtaken(c) ==
  LET opened == dialed[ServerOf[c]] IN
  \E i, j \in DOMAIN opened :
    i < j /\ opened[i] = c /\ handler[opened[j]] # "registering"

\* The servers at which this step installs an overtaken generation.
Overtaking ==
  {n \in Nodes : \E c \in Conns :
     ServerOf[c] = n /\ Overtaken(c) /\ handler[c] = "registering" /\ handler'[c] = "connected"}

\* The steps of ConnManager that need nothing of the agent.  The handshake of a
\* stream is acknowledged before its handler calls Register, and the handlers are
\* goroutines of their own, so registrations come in any order: a generation may
\* be installed in place of one that the agent opened after it.
HubAlone ==
  /\ \/ \E c \in Conns :
          \/ Register(c)
          \/ RegisterRetire(c)
          \/ Detach(c)
          \/ finishRetirement(c)
          \/ ConnectReturn(c)
          \/ ReserveRefused(c)
     \/ \E k \in Keys : (k \in fresh /\ BeginActivity(k[1], k[2])) \/ Abandon(k)
     \/ \E s \in Senders :
          \/ SendLock(s)
          \/ SendRefused(s)
          \/ SendGuard(s)
          \/ \E ok \in BOOLEAN : SendEnd(s, ok)
          \/ SendTimeout(s)
  /\ late' = late \cup Overtaking
  /\ UNCHANGED <<agentVars, fresh, observed, crashes>>

AgentStep(n) ==
  \/ AgentClose(n)
  \/ AgentDispatch(n)
  \/ AgentReject(n)
  \/ AgentCrash(n)

WorkerStep(k) == WorkerRespond(k) \/ WorkerRelease(k)

HubStep ==
  \/ \E s \in Senders, k \in Keys : HubSendStart(s, k)
  \/ \E s \in Senders : HubSend(s)
  \/ \E c \in Conns : routeAgentMessage(c)
  \/ \E c \in Conns, op \in Ops, manual \in BOOLEAN : StartUpdate(c, op, manual)
  \/ \E c \in Conns : CommitUpdate(c)
  \/ \E n \in Nodes, op \in Ops : EndUpdate(n, op)

QNext ==
  \/ /\ \/ \E c \in Conns : AgentOpen(c)
        \/ \E n \in Nodes : AgentStep(n)
        \/ \E k \in Keys : WorkerStep(k)
        \/ HubStep
        \/ HubCrash
     /\ UNCHANGED late
  \/ HubAlone

QSpec == QInit /\ [][QNext]_allVars
-----------------------------------------------------------------------------
(* Properties.                                                              *)

\* "Active or unconfirmed node work blocks start without being treated as
\* idle": a server in maintenance has an agent that runs nothing and has nothing
\* on its way.
NodeWorkBlocksStart ==
  \A n \in Nodes : maintenance[n] # None => Quiescent(n)

\* The same at every server where no generation was installed after one that the
\* agent opened later (Register): whatever was lost, interrupted, carried over
\* from an earlier generation or forgotten in a crash, a server in maintenance
\* has a quiescent agent, and this stays so until the operation ends.
MaintenanceIsQuiescent ==
  \A n \in Nodes \ late : maintenance[n] # None => Quiescent(n)

\* At such a server a worker of the agent is accounted for at a Hub that has
\* observed the agent since it started, by a record, by the uncertainty slot or
\* by a count, also when its own generation is long gone
\* (ObserveActivityCapabilities, endActivitiesLocked).
RunningWorkIsAccounted ==
  \A n \in observed \ late : Running(n) # {} => activityNodes[n] > 0

\* The Hub forgets work that reached the agent only when the agent completes it,
\* into the uncertainty slot, by an administrator's idle assertion
\* (DispatchedWorkNeverForgotten), or with its whole ledger in a crash.
WorkForgottenOnlyInCrash ==
  [][(\A c \in Conns, i \in Ids : KeepsWork(c, i)) \/ HubCrash]_allVars
=============================================================================
