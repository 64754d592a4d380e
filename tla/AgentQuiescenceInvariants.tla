--------------------- MODULE AgentQuiescenceInvariants ----------------------
(***************************************************************************)
(* The inductive invariant of AgentQuiescence.                             *)
(*                                                                         *)
(* The ledger alone cannot tell that an agent is idle: what it holds has to*)
(* be related to the workers, the requests on their way and the reports on *)
(* theirs.  The layers are ConnManager's own invariant, the order of an    *)
(* agent's streams, the uniqueness of requests, what the queued reports say*)
(* of the running workers, what the ledger says of them, and what a        *)
(* reservation may rely on while its callback runs.                        *)
(***************************************************************************)
EXTENDS AgentQuiescence, ConnManagerInvariants

\* The states of a record whose request may have reached the agent.
Sent == {"dispatched", "abandoned"}

\* The generation is installed and not being retired: its records and its count
\* are in force.
Current(c) == streams[ServerOf[c]] = c /\ retiring[ServerOf[c]] # c

\* What an agent queues to the Hub: a last response or a count of its workers.
Reports == [type : {"done"}, id : Ids, count : {0}] \cup [type : {"count"}, id : {None}, count : Nat]

\* A queue holds x; no element of a queue occurs in it twice.
Has(q, x) == \E j \in 1..Len(q) : q[j] = x
Distinct(q) == \A i, j \in 1..Len(q) : q[i] = q[j] => i = j

\* The last response of k is on its way to the Hub; the request of k is on its
\* way to the agent; neither has happened and no worker runs it.
Answered(k) == Has(fromAgent[k[1]], Done(k[2]))
Queued(k) == Has(toAgent[k[1]], k[2])
Unsent(k) == ~Queued(k) /\ worker[k] = "none" /\ ~Answered(k)

\* The activity a sender sends for, and the work of an activity at its agent.
Key(s) == <<sender[s].conn, sender[s].msg.id>>
Work(k) == worker[k] # "none" \/ Queued(k)

\* The types of the agent's variables.
QTypes ==
  /\ dialed \in [Nodes -> Seq(Conns)] /\ session \in [Nodes -> Conns \cup {None}]
  /\ toAgent \in [Conns -> Seq(Ids)] /\ fromAgent \in [Conns -> Seq(Reports)]
  /\ worker \in [Keys -> {"none", "running", "responded"}] /\ fresh \in SUBSET Keys
  /\ observed \in SUBSET Nodes /\ late \in SUBSET Nodes /\ crashes \in Nat

\* The order in which an agent opens its streams: every generation with a
\* handler was dialed, once, by its own server; an open session is that of the
\* last one; and the installed generation is one that no later one overtook,
\* unless the server is one of the late ones.
DialedOnce ==
  \A n \in Nodes : \A i \in 1..Len(dialed[n]) :
    /\ ServerOf[dialed[n][i]] = n /\ handler[dialed[n][i]] # "idle"
    /\ \A j \in 1..Len(dialed[n]) : dialed[n][i] = dialed[n][j] => i = j
HandlersDialed ==
  \A c \in Conns : handler[c] # "idle" => \E i \in 1..Len(dialed[ServerOf[c]]) : dialed[ServerOf[c]][i] = c
SessionIsLast ==
  \A n \in Nodes : session[n] # None => Len(dialed[n]) > 0 /\ session[n] = dialed[n][Len(dialed[n])]
NoneOvertaken ==
  \A c \in Conns : streams[ServerOf[c]] = c => Installed(c) /\ (Overtaken(c) => ServerOf[c] \in late)
InOrder == DialedOnce /\ HandlersDialed /\ SessionIsLast /\ NoneOvertaken

\* A request id reaches the agent at most once.  Ids that nobody used yet and
\* requests not handed to the transport left no trace, no two senders carry the
\* same request, a worker and a queued request belong to an installed
\* generation, and a queued request is in the open session, not yet answered
\* and, while its generation is current, recorded as sent.
FreshUnsent == \A k \in fresh : Unsent(k)
SendersClaim ==
  \A s \in Senders : sender[s].pc # "idle" => sender[s].msg.kind = "claimed" /\ Key(s) \notin fresh
WaitingUnsent == \A s \in Senders : sender[s].pc \in {"queued", "guard", "ready"} => Unsent(Key(s))
OneSender ==
  \A s, t \in Senders : sender[s].pc # "idle" /\ sender[t].pc # "idle" /\ Key(s) = Key(t) => s = t
WorkInstalled == \A k \in Keys : worker[k] # "none" => Installed(k[1])
QueuedInSession ==
  \A k \in Keys : Queued(k) =>
    /\ session[ServerOf[k[1]]] = k[1] /\ Installed(k[1]) /\ worker[k] = "none" /\ ~Answered(k)
    /\ Current(k[1]) => record[k] \in Sent
QueuesDistinct == \A c \in Conns : Distinct(toAgent[c])
Once ==
  /\ FreshUnsent /\ SendersClaim /\ WaitingUnsent /\ OneSender
  /\ WorkInstalled /\ QueuedInSession /\ QueuesDistinct

\* From its p-th entry on the queue reports no idle agent.
Busy(q, p) == \A j \in p..Len(q) : q[j].type = "count" => q[j].count > 0

\* Some count that is still queued precedes the response of i, and neither it
\* nor a later one reports an idle agent.
Promised(q, i) ==
  \E p \in 1..Len(q) : q[p].type = "count" /\ Busy(q, p) /\ \A j \in 1..p : q[j] # Done(i)

\* The Hub counts the worker of k already, or holds its record until a count
\* that includes it has arrived.
Counted(k) ==
  \/ activityCounts[k[1]] > 0 /\ Busy(fromAgent[k[1]], 1)
  \/ record[k] \in Sent /\ Promised(fromAgent[k[1]], k[2])

\* A generation that is current or may still become it.
Coming(d) == ~Overtaken(d) /\ (handler[d] = "registering" \/ Current(d))

\* While a worker runs, its own generation counts it, and every other generation
\* of its server that is current or may become it has only non-zero counts
\* queued: the agent counted the worker when it opened that stream.
Reported ==
  \A k \in Keys : worker[k] # "none" =>
    /\ Current(k[1]) => Counted(k)
    /\ \A d \in Conns : d # k[1] /\ ServerOf[d] = ServerOf[k[1]] /\ Coming(d) => Busy(fromAgent[d], 1)

\* The Hub knows of the work of k, by the uncertainty slot of its server, by its
\* record or by a count; after the first observation it knows of all work at a
\* server that is not late.
Accounted(k) ==
  \/ ServerOf[k[1]] \in uncertain \/ record[k] \in Sent
  \/ \E c \in Conns : ServerOf[c] = ServerOf[k[1]] /\ activityCounts[c] > 0
AllAccounted == \A k \in Keys : Work(k) /\ ServerOf[k[1]] \in observed \ late => Accounted(k)

\* While a reservation waits for its callback: an asserted idle agent stays idle
\* as long as the generation lives, and an unasserted one was observed.
Reserved ==
  \A c \in Conns : reserving[c] # None =>
    /\ Installed(c)
    /\ reserving[c].manual /\ liveLocked(c) => Quiescent(ServerOf[c])
    /\ ~reserving[c].manual => ServerOf[c] \in observed

\* The inductive invariant of the ledger together with its agents.
QInv == IInv /\ QTypes /\ InOrder /\ Once /\ Reported /\ AllAccounted /\ Reserved /\ MaintenanceIsQuiescent

-----------------------------------------------------------------------------
(* What a step may do.                                                     *)

\* A step that loses nothing the Hub knows of a current generation: what was
\* sent stays recorded as sent, and a count stays, or the server becomes
\* uncertain because the generation ends; no ended generation comes back.
Steady ==
  /\ uncertain \subseteq uncertain'
  /\ \A k \in Keys : record[k] \in Sent =>
       record'[k] \in Sent \/ (ServerOf[k[1]] \in uncertain' /\ ~Current(k[1])')
  /\ \A c \in Conns : \/ activityCounts'[c] = activityCounts[c]
                      \/ ~Current(c)' /\ (activityCounts[c] > 0 => ServerOf[c] \in uncertain')
  /\ \A c \in Conns : Current(c)' => Current(c) \/ handler[c] = "registering"
  /\ \A c \in Conns : handler'[c] \in {"idle", "registering"} => handler'[c] = handler[c]

\* The step hands the request of h to the transport, under the mutex of its
\* live generation.
Sending(h) == record'[h] \in Sent /\ liveLocked(h[1]) /\ ~GenerationMuFree(h[1])

\* The agent appends at most one report to the queue of c, and an idle count
\* only when none of its workers is left.
Grows(c) ==
  \/ fromAgent'[c] = fromAgent[c]
  \/ \E r \in Reports :
       /\ fromAgent'[c] = Append(fromAgent[c], r)
       /\ r.type = "count" /\ ~(r.count > 0) =>
            \A h \in Keys : ServerOf[h[1]] = ServerOf[c] => worker'[h] = "none"

\* What an agent counts: nothing only if no worker runs, and more than one if two
\* do.
Counting ==
  \A n \in Nodes :
    /\ activities(n) \in Nat
    /\ Running(n) # {} => activities(n) > 0
    /\ \A k, h \in Running(n) : h # k => activities(n) > 1

=============================================================================
