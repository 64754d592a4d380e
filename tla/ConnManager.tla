---------------------------- MODULE ConnManager ----------------------------
(***************************************************************************)
(* The Hub's registry of agent control connections                         *)
(* (hub/internal/connmgr).  Every Connect RPC of an agent is one connection *)
(* GENERATION c of the server ServerOf[c]; at most one generation of a      *)
(* server is installed.  The module models the four locks of the code:      *)
(*   cm.mu          every step below is one critical section of it;         *)
(*   SendMu[c]      held by a send from its admission to its end, and by a   *)
(*                  maintenance reservation (SendMuFree);                    *)
(*   GenerationMu[c] held by a send; its release is the retirement boundary  *)
(*                  (GenerationMuFree);                                      *)
(*   DeliveryMu[c]  held while an inbound message is delivered (delivering). *)
(* It also models the ledger of remote file/upload/log/application work     *)
(* ("activities") that decides whether an agent may be put in maintenance.  *)
(*                                                                         *)
(* A read of a map that the code repeats under the lock before it acts     *)
(* (Unregister, Register's loop) needs no state of its own: the step is     *)
(* guarded by the repeated test.                                            *)
(***************************************************************************)
EXTENDS Integers, FiniteSets

CONSTANTS
  Nodes,              \* server ids
  Conns,              \* connection generations (Connect RPCs)
  ServerOf,           \* the server each generation authenticates as
  Ids,                \* activity ids: an (id, kind) pair of the code
  Senders,            \* goroutines of SendToConnectionGuarded
  Kinds,              \* kinds of message sent
  Ops,                \* maintenance operations
  MaxNodeActivities,  \* per-server capacity of the ledger
  MaxActivities,      \* capacity of the whole ledger
  None                \* no connection, operation, reservation or id

ASSUME ServerOfAssumption == ServerOf \in [Conns -> Nodes]
ASSUME KindsAssumption ==
  Kinds \subseteq {"claimed", "continuation", "direct", "admission", "plain"}
ASSUME NoneAssumption == None \notin Conns \cup Ops \cup Ids
ASSUME CapacityAssumption ==
  /\ MaxNodeActivities \in Nat \ {0}
  /\ MaxActivities \in Nat \ {0}
ASSUME FiniteAssumption ==
  /\ IsFiniteSet(Conns)
  /\ IsFiniteSet(Ids)
  /\ IsFiniteSet(Nodes)

VARIABLES
  handler,         \* the Connect handler of each generation
  streams,         \* cm.streams
  retiring,        \* cm.retiring
  done,            \* generations whose done channel is closed
  finishers,       \* generations with a pending finishRetirement goroutine
  delivering,      \* generations whose DeliveryMu is held by a delivery
  sender,          \* the send goroutines
  reserving,       \* the reservation holding SendMu of a generation
  maintenance,     \* cm.maintenance
  record,          \* cm.activities: the state of each activityRecord
  uncertain,       \* cm.uncertain
  activityNodes,   \* cm.activityNodes
  activityCounts   \* cm.activityCounts

connVars == <<handler, streams, retiring, done, finishers, delivering>>
ledgerVars == <<record, uncertain, activityNodes, activityCounts>>
vars == <<connVars, sender, reserving, maintenance, ledgerVars>>

Keys == Conns \X Ids

(***************************************************************************)
(* Messages.  "claimed" and "continuation" are sent with Activity.Send     *)
(* (a continuation is an upload chunk without a file name), "direct" is an *)
(* activity request sent without the handle, "admission" opens a terminal   *)
(* or an execution, "plain" is every other control message.                 *)
(***************************************************************************)
Claiming == {"claimed", "continuation"}
WithActivity == Claiming \cup {"direct"}
Messages == [kind : Kinds \cap WithActivity, id : Ids]
              \cup [kind : Kinds \ WithActivity, id : {None}]

Reservations == [op : Ops, manual : BOOLEAN]
IdleSender == [pc |-> "idle", conn |-> None, msg |-> None]
SenderStates ==
  {IdleSender} \cup
    [pc : {"queued", "guard", "ready", "sending"}, conn : Conns, msg : Messages]

Installed(c) == handler[c] \in {"connected", "returned"}
SendsUnder(s, c) == sender[s].conn = c /\ sender[s].pc \in {"guard", "ready", "sending"}

\* Mutant: GenerationMu is taken only for Stream.Send itself.
GenerationMuFree_LateLock(c) ==
  \A s \in Senders : ~(sender[s].conn = c /\ sender[s].pc = "sending")

GenerationMuFree(c) == \A s \in Senders : ~SendsUnder(s, c)

\* Mutant: a reservation does not wait for the send in progress.
SendMuFree_ReservationOnly(c) == reserving[c] = None

SendMuFree(c) == reserving[c] = None /\ GenerationMuFree(c)

liveLocked(c) == streams[ServerOf[c]] = c /\ c \notin done

Activities == {k \in Keys : record[k] # "absent"}
NodeActivities(n) == {k \in Activities : ServerOf[k[1]] = n}
Load == Cardinality(Activities) + Cardinality(uncertain)
-----------------------------------------------------------------------------
(* Steps on the ledger.                                                     *)

addActivityLocked(k, state) ==
  LET n == ServerOf[k[1]] IN
  /\ activityNodes[n] < MaxNodeActivities
  /\ Load < MaxActivities
  /\ record' = [record EXCEPT ![k] = state]
  /\ activityNodes' = [activityNodes EXCEPT ![n] = @ + 1]
  /\ UNCHANGED <<uncertain, activityCounts>>

\* Mutant: the last record's place is freed whatever the agent reports.
removeActivityLocked_NoSlot(k) ==
  /\ record' = [record EXCEPT ![k] = "absent"]
  /\ activityNodes' = [activityNodes EXCEPT ![ServerOf[k[1]]] = @ - 1]
  /\ UNCHANGED <<uncertain, activityCounts>>

\* The last record of a server whose generation still reports running work
\* leaves an uncertainty slot behind instead of freeing its place.
removeActivityLocked(k) ==
  LET n == ServerOf[k[1]]
      keep == activityNodes[n] = 1 /\ activityCounts[k[1]] > 0
  IN
  /\ record' = [record EXCEPT ![k] = "absent"]
  /\ activityNodes' = [activityNodes EXCEPT ![n] = IF keep THEN 1 ELSE @ - 1]
  /\ uncertain' = IF keep THEN uncertain \cup {n} ELSE uncertain
  /\ UNCHANGED activityCounts

\* A detached generation's records collapse into one uncertainty slot when
\* any of them, or the agent's last count, says that work may still run.
endActivitiesLocked(c) ==
  LET n == ServerOf[c]
      mine == {k \in Activities : k[1] = c}
      unknown == \/ activityCounts[c] > 0
                 \/ \E k \in mine : record[k] # "admitted"
      slot == IF unknown /\ n \notin uncertain THEN 1 ELSE 0
  IN
  /\ record' = [k \in Keys |-> IF k[1] = c THEN "absent" ELSE record[k]]
  /\ activityCounts' = [activityCounts EXCEPT ![c] = 0]
  /\ uncertain' = IF unknown THEN uncertain \cup {n} ELSE uncertain
  /\ activityNodes' = [activityNodes EXCEPT ![n] = @ - Cardinality(mine) + slot]

\* Mutant: work of unknown outcome counts as idle.
activityIdleLocked_IgnoresUncertain(c, manual) ==
  /\ activityCounts[c] = 0
  /\ \A k \in NodeActivities(ServerOf[c]) : manual /\ record[k] = "abandoned"

activityIdleLocked(c, manual) ==
  /\ activityCounts[c] = 0
  /\ ServerOf[c] \in uncertain => manual
  /\ \A k \in NodeActivities(ServerOf[c]) : manual /\ record[k] = "abandoned"

\* activityIdleLocked has passed for this very generation, so its count is 0
\* and no removal below retains a slot.
clearAbandonedActivitiesLocked(c) ==
  LET n == ServerOf[c]
      gone == {k \in Activities : k[1] = c /\ record[k] = "abandoned"}
      slot == IF n \in uncertain THEN 1 ELSE 0
  IN
  /\ record' = [k \in Keys |-> IF k \in gone THEN "absent" ELSE record[k]]
  /\ uncertain' = uncertain \ {n}
  /\ activityNodes' = [activityNodes EXCEPT ![n] = @ - Cardinality(gone) - slot]
  /\ UNCHANGED activityCounts
-----------------------------------------------------------------------------
Init ==
  /\ handler = [c \in Conns |-> "idle"]
  /\ streams = [n \in Nodes |-> None]
  /\ retiring = [n \in Nodes |-> None]
  /\ done = {}
  /\ finishers = {}
  /\ delivering = {}
  /\ sender = [s \in Senders |-> IdleSender]
  /\ reserving = [c \in Conns |-> None]
  /\ maintenance \in [Nodes -> Ops \cup {None}]  \* NewAgentUpdates: SetMaintenance
  /\ record = [k \in Keys |-> "absent"]
  /\ uncertain = {}
  /\ activityNodes = [n \in Nodes |-> 0]
  /\ activityCounts = [c \in Conns |-> 0]

(* Generations.                                                             *)

\* The handshake is over and Connect calls Register.
ConnectStart(c) ==
  /\ handler[c] = "idle"
  /\ handler' = [handler EXCEPT ![c] = "registering"]
  /\ UNCHANGED <<streams, retiring, done, finishers, delivering,
                 sender, reserving, maintenance, ledgerVars>>

Install(c) ==
  /\ streams' = [streams EXCEPT ![ServerOf[c]] = c]
  /\ handler' = [handler EXCEPT ![c] = "connected"]

Register(c) ==
  /\ handler[c] = "registering"
  /\ streams[ServerOf[c]] = None
  /\ retiring[ServerOf[c]] = None
  /\ Install(c)
  /\ UNCHANGED <<retiring, done, finishers, delivering,
                 sender, reserving, maintenance, ledgerVars>>

\* Register's other way out: wait for the retiring generation's GenerationMu,
\* remove that generation and take its place.
RegisterRetire(c) ==
  LET n == ServerOf[c]
      r == retiring[n]
  IN
  /\ handler[c] = "registering"
  /\ r # None
  /\ GenerationMuFree(r)
  /\ retiring' = [retiring EXCEPT ![n] = None]
  /\ IF streams[n] \in {r, None} THEN Install(c) ELSE UNCHANGED <<streams, handler>>
  /\ UNCHANGED <<done, finishers, delivering,
                 sender, reserving, maintenance, ledgerVars>>

\* detachIfCurrent, as called by Unregister (deletion of the server, the
\* heartbeat monitor) and by Register for the generation in its way.
Detach(c) ==
  /\ c \notin delivering
  /\ streams[ServerOf[c]] = c
  /\ done' = done \cup {c}
  /\ endActivitiesLocked(c)
  /\ retiring' = [retiring EXCEPT ![ServerOf[c]] = c]
  /\ finishers' = finishers \cup {c}
  /\ UNCHANGED <<handler, streams, delivering, sender, reserving, maintenance>>

finishRetirement(c) ==
  LET n == ServerOf[c] IN
  /\ c \in finishers
  /\ GenerationMuFree(c)
  /\ finishers' = finishers \ {c}
  /\ IF retiring[n] = c
     THEN /\ retiring' = [retiring EXCEPT ![n] = None]
          /\ streams' = [streams EXCEPT ![n] = IF @ = c THEN None ELSE @]
     ELSE UNCHANGED <<retiring, streams>>
  /\ UNCHANGED <<handler, done, delivering, sender, reserving, maintenance, ledgerVars>>

\* The receive loop ends (end of stream, transport error, refused message or
\* the done channel), onAgentDisconnected calls UnregisterIfCurrent and Connect
\* returns, which cancels the stream and every Send blocked in it.
ConnectReturn(c) ==
  LET n == ServerOf[c] IN
  /\ handler[c] = "connected"
  /\ handler' = [handler EXCEPT ![c] = "returned"]
  /\ IF streams[n] = c
     THEN /\ c \notin delivering
          /\ done' = done \cup {c}
          /\ endActivitiesLocked(c)
          /\ retiring' = [retiring EXCEPT ![n] = c]
          /\ finishers' = finishers \cup {c}
     ELSE UNCHANGED <<done, ledgerVars, retiring, finishers>>
  /\ UNCHANGED <<streams, delivering, sender, reserving, maintenance>>

\* WithCurrentGeneration takes DeliveryMu and runs the delivery ...
DeliverBegin(c) ==
  /\ liveLocked(c)
  /\ c \notin delivering
  /\ delivering' = delivering \cup {c}
  /\ UNCHANGED <<handler, streams, retiring, done, finishers,
                 sender, reserving, maintenance, ledgerVars>>

\* ... which ends and releases it.
DeliverEnd(c) ==
  /\ c \in delivering
  /\ delivering' = delivering \ {c}
  /\ UNCHANGED <<handler, streams, retiring, done, finishers,
                 sender, reserving, maintenance, ledgerVars>>
-----------------------------------------------------------------------------
(* Sends.  SendToConnectionGuarded starts a goroutine; the caller waits for *)
(* its result, for its context and for the generation's done channel.       *)

SendStart(s, c, m) ==
  /\ sender[s].pc = "idle"
  /\ Installed(c)
  /\ sender' = [sender EXCEPT ![s] = [pc |-> "queued", conn |-> c, msg |-> m]]
  /\ UNCHANGED <<connVars, reserving, maintenance, ledgerVars>>

\* SendMu and GenerationMu are taken and the generation is still open.  Only
\* the guard of Activity.Send touches the registry.
SendLock(s) ==
  /\ sender[s].pc = "queued"
  /\ SendMuFree(sender[s].conn)
  /\ sender[s].conn \notin done
  /\ sender' = [sender EXCEPT ![s].pc =
                           IF sender[s].msg.kind \in Claiming THEN "guard" ELSE "ready"]
  /\ UNCHANGED <<connVars, reserving, maintenance, ledgerVars>>

\* The goroutine gives up before the send: done or context under the locks,
\* a guard that refuses, or a refusal of prepareActivitySend.
SendRefused(s) ==
  /\ \/ sender[s].pc = "queued" /\ SendMuFree(sender[s].conn)
     \/ sender[s].pc \in {"guard", "ready"}
  /\ sender' = [sender EXCEPT ![s] = IdleSender]
  /\ UNCHANGED <<connVars, reserving, maintenance, ledgerVars>>

\* The guard of Activity.Send claims the dispatch of its record.
SendGuard(s) ==
  LET k == <<sender[s].conn, sender[s].msg.id>> IN
  /\ sender[s].pc = "guard"
  /\ record[k] \in {"admitted", "dispatched"}
  /\ record' = [record EXCEPT ![k] = "dispatched"]
  /\ sender' = [sender EXCEPT ![s].pc = "ready"]
  /\ UNCHANGED <<connVars, reserving, maintenance, uncertain, activityNodes, activityCounts>>

\* prepareActivitySend: the last admission test before Stream.Send.
prepareActivitySend(s) ==
  LET c == sender[s].conn
      m == sender[s].msg
      k == <<c, m.id>>
      known == m.kind \in WithActivity /\ record[k] # "absent"
  IN
  /\ sender[s].pc = "ready"
  /\ liveLocked(c)
  /\ m.kind # "plain" => known \/ maintenance[ServerOf[c]] = None
  /\ IF m.kind \in WithActivity
     THEN IF known
          THEN /\ record' = [record EXCEPT ![k] = IF @ = "admitted" THEN "dispatched" ELSE @]
               /\ UNCHANGED <<uncertain, activityNodes, activityCounts>>
          ELSE /\ m.kind # "continuation"
               /\ addActivityLocked(k, "dispatched")
     ELSE UNCHANGED ledgerVars
  /\ sender' = [sender EXCEPT ![s].pc = "sending"]
  /\ UNCHANGED <<connVars, reserving, maintenance>>

\* Mutant: abandoning forgets work the agent may have received.
abandonActivity_Forgets(k) ==
  IF record[k] = "absent" THEN UNCHANGED ledgerVars ELSE removeActivityLocked(k)

abandonActivity(k) ==
  \/ record[k] = "absent" /\ UNCHANGED ledgerVars
  \/ record[k] = "admitted" /\ removeActivityLocked(k)
  \/ /\ record[k] \in {"dispatched", "abandoned"}
     /\ record' = [record EXCEPT ![k] = "abandoned"]
     /\ UNCHANGED <<uncertain, activityNodes, activityCounts>>

\* Stream.Send returns.  A failed send abandons its activity.
SendEnd(s, ok) ==
  LET c == sender[s].conn
      m == sender[s].msg
  IN
  /\ sender[s].pc = "sending"
  /\ ok => handler[c] # "returned"
  /\ sender' = [sender EXCEPT ![s] = IdleSender]
  /\ IF ok \/ m.kind \notin WithActivity
     THEN UNCHANGED ledgerVars
     ELSE abandonActivity(<<c, m.id>>)
  /\ UNCHANGED <<connVars, reserving, maintenance>>

\* The caller's context ends first: it closes the generation and returns,
\* leaving the goroutine behind.
SendTimeout(s) ==
  /\ sender[s].pc # "idle"
  /\ done' = done \cup {sender[s].conn}
  /\ UNCHANGED <<handler, streams, retiring, finishers, delivering,
                 sender, reserving, maintenance, ledgerVars>>
-----------------------------------------------------------------------------
(* Activities and maintenance.                                              *)

BeginActivity(c, i) ==
  /\ SendMuFree(c)
  /\ liveLocked(c)
  /\ maintenance[ServerOf[c]] = None
  /\ record[<<c, i>>] = "absent"
  /\ addActivityLocked(<<c, i>>, "admitted")
  /\ UNCHANGED <<connVars, sender, reserving, maintenance>>

\* The HTTP waiter of an activity goes away.
Abandon(k) ==
  /\ record[k] # "absent"
  /\ abandonActivity(k)
  /\ UNCHANGED <<connVars, sender, reserving, maintenance>>

CompleteActivity(c, i) ==
  /\ streams[ServerOf[c]] = c
  /\ record[<<c, i>>] # "absent"
  /\ removeActivityLocked(<<c, i>>)
  /\ UNCHANGED <<connVars, sender, reserving, maintenance>>

\* A count of running workers reported by the agent on generation c.
ObserveActivityCapabilities(c, count) ==
  LET n == ServerOf[c]
      carried == count > 0 /\ activityNodes[n] = 0
      clear == count = 0 /\ n \in uncertain
  IN
  /\ count <= MaxNodeActivities
  /\ SendMuFree(c)
  /\ liveLocked(c)
  /\ carried => Load < MaxActivities
  /\ activityCounts' = [activityCounts EXCEPT ![c] = count]
  /\ uncertain' = IF carried THEN uncertain \cup {n}
                  ELSE IF clear THEN uncertain \ {n} ELSE uncertain
  /\ activityNodes' = [activityNodes EXCEPT ![n] =
                         IF carried THEN @ + 1 ELSE IF clear THEN @ - 1 ELSE @]
  /\ UNCHANGED <<connVars, sender, reserving, maintenance, record>>

\* ReserveMaintenanceWithIdleAssertion up to its callback, which may block on
\* the policy store while SendMu is held ...
ReserveBegin(c, op, manual) ==
  /\ SendMuFree(c)
  /\ liveLocked(c)
  /\ maintenance[ServerOf[c]] = None
  /\ activityIdleLocked(c, manual)
  /\ reserving' = [reserving EXCEPT ![c] = [op |-> op, manual |-> manual]]
  /\ UNCHANGED <<connVars, sender, maintenance, ledgerVars>>

\* ... and the commit, which repeats the tests under cm.mu.
ReserveCommit(c) ==
  LET n == ServerOf[c] IN
  /\ reserving[c] # None
  /\ liveLocked(c)
  /\ maintenance[n] = None
  /\ activityIdleLocked(c, reserving[c].manual)
  /\ IF reserving[c].manual
     THEN clearAbandonedActivitiesLocked(c)
     ELSE UNCHANGED ledgerVars
  /\ maintenance' = [maintenance EXCEPT ![n] = reserving[c].op]
  /\ reserving' = [reserving EXCEPT ![c] = None]
  /\ UNCHANGED <<connVars, sender>>

\* The callback or a repeated test refuses.
ReserveRefused(c) ==
  /\ reserving[c] # None
  /\ reserving' = [reserving EXCEPT ![c] = None]
  /\ UNCHANGED <<connVars, sender, maintenance, ledgerVars>>

ReleaseMaintenance(n, op) ==
  /\ op # None
  /\ maintenance[n] = op
  /\ maintenance' = [maintenance EXCEPT ![n] = None]
  /\ UNCHANGED <<connVars, sender, reserving, ledgerVars>>
-----------------------------------------------------------------------------
ConnStep(c) ==
  \/ ConnectStart(c)
  \/ Register(c)
  \/ RegisterRetire(c)
  \/ Detach(c)
  \/ finishRetirement(c)
  \/ ConnectReturn(c)
  \/ DeliverBegin(c)
  \/ DeliverEnd(c)

SendStep(s) ==
  \/ \E c \in Conns, m \in Messages : SendStart(s, c, m)
  \/ SendLock(s)
  \/ SendRefused(s)
  \/ SendGuard(s)
  \/ prepareActivitySend(s)
  \/ \E ok \in BOOLEAN : SendEnd(s, ok)
  \/ SendTimeout(s)

LedgerStep(c) ==
  \/ \E i \in Ids : BeginActivity(c, i)
  \/ \E i \in Ids : Abandon(<<c, i>>)
  \/ \E i \in Ids : CompleteActivity(c, i)
  \/ \E count \in 0 .. MaxNodeActivities : ObserveActivityCapabilities(c, count)
  \/ \E op \in Ops, manual \in BOOLEAN : ReserveBegin(c, op, manual)
  \/ ReserveCommit(c)
  \/ ReserveRefused(c)

Next ==
  \/ \E c \in Conns : ConnStep(c) \/ LedgerStep(c)
  \/ \E s \in Senders : SendStep(s)
  \/ \E n \in Nodes, op \in Ops : ReleaseMaintenance(n, op)

Spec == Init /\ [][Next]_vars
-----------------------------------------------------------------------------
(* Properties.                                                              *)

\* Every variable holds a value of its Go type.
TypeOK ==
  /\ handler \in [Conns -> {"idle", "registering", "connected", "returned"}]
  /\ streams \in [Nodes -> Conns \cup {None}]
  /\ retiring \in [Nodes -> Conns \cup {None}]
  /\ done \in SUBSET Conns
  /\ finishers \in SUBSET Conns
  /\ delivering \in SUBSET Conns
  /\ sender \in [Senders -> SenderStates]
  /\ reserving \in [Conns -> Reservations \cup {None}]
  /\ maintenance \in [Nodes -> Ops \cup {None}]
  /\ record \in [Keys -> {"absent", "admitted", "dispatched", "abandoned"}]
  /\ uncertain \in SUBSET Nodes
  /\ activityNodes \in [Nodes -> Nat]
  /\ activityCounts \in [Conns -> Nat]

\* "removal [is] the exact retirement boundary": while a send holds the
\* generation, from its admission until Stream.Send has returned, that
\* generation stays installed, so no replacement of it can be sending.
SendOnInstalledGeneration ==
  \A s \in Senders, c \in Conns : SendsUnder(s, c) => streams[ServerOf[c]] = c

\* WithCurrentGeneration: "a message that passed the check cannot be delivered
\* after its generation was retired": a delivery in progress belongs to the
\* installed generation, and nobody has begun to retire that generation.
DeliveryOnCurrentGeneration ==
  \A c \in delivering :
    streams[ServerOf[c]] = c /\ retiring[ServerOf[c]] # c

\* The ledger only ever charges the generation in service: neither a record
\* nor a reported count survives the detachment of its generation.
LedgerOfCurrentGeneration ==
  \A c \in Conns :
    (activityCounts[c] > 0 \/ \E i \in Ids : record[<<c, i>>] # "absent")
      => streams[ServerOf[c]] = c /\ retiring[ServerOf[c]] # c

\* activityNodes, kept incrementally on six paths, is the number of records of
\* the server plus its uncertainty slot, and a generation that reports running
\* work always holds a place.
LedgerAccounting ==
  /\ \A n \in Nodes : activityNodes[n] =
       Cardinality(NodeActivities(n)) + (IF n \in uncertain THEN 1 ELSE 0)
  /\ \A c \in Conns : activityCounts[c] > 0 => activityNodes[ServerOf[c]] > 0

\* Neither capacity is ever exceeded, although detaching and completing may
\* open an uncertainty slot without asking whether there is room for it.
LedgerBounds ==
  /\ Load <= MaxActivities
  /\ \A n \in Nodes : activityNodes[n] <= MaxNodeActivities

\* While a server is in maintenance none of its generations has a record, and
\* no message that would start work on the agent is being sent to it: both the
\* reservation and every admission pass through SendMu.
MaintenanceExcludesWork ==
  /\ \A n \in Nodes : maintenance[n] # None => NodeActivities(n) = {}
  /\ \A s \in Senders :
       sender[s].pc = "sending" /\ sender[s].msg.kind # "plain"
         => maintenance[ServerOf[sender[s].conn]] = None

\* What one step may do to the record of work that reached the agent.
KeepsWork(c, i) ==
  record[<<c, i>>] \in {"dispatched", "abandoned"} /\ record'[<<c, i>>] = "absent"
    => \/ CompleteActivity(c, i)
       \/ ServerOf[c] \in uncertain'
       \/ reserving[c] # None /\ reserving[c].manual /\ ReserveCommit(c)

\* Work that reached the agent is never forgotten by a disconnect, a time-out
\* or an abandoned waiter: its record goes only when the agent completes it, or
\* into the uncertainty slot, or by an administrator's idle assertion.
DispatchedWorkNeverForgotten == [][\A c \in Conns, i \in Ids : KeepsWork(c, i)]_vars
=============================================================================
