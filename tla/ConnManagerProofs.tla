------------------------- MODULE ConnManagerProofs --------------------------
(***************************************************************************)
(* Proofs about ConnManager, for every number of servers, generations,     *)
(* senders and activities and every capacity: the invariant of             *)
(* ConnManagerInvariants holds, layer by layer, and what follows from it.  *)
(***************************************************************************)
EXTENDS ConnManagerInvariants, FiniteSetTheorems, TLAPS

USE ServerOfAssumption, NoneAssumption

\* A hub that has just started has the right types.
LEMMA InitTypeInv == Init => TypeInv
BY CapacityAssumption DEF Init, TypeInv, SenderStates

\* A set of activity records is finite and has a natural cardinality.
LEMMA MineCardinality ==
  ASSUME NEW S \in SUBSET Keys
  PROVE  IsFiniteSet(S) /\ Cardinality(S) \in Nat
<1>1. IsFiniteSet(Keys)
  BY FS_Product, FiniteAssumption, Zenon DEF Keys
<1>2. QED
  BY <1>1, FS_Subset, FS_CardinalityType, Zenon

\* Every step of a Connect handler (Register, Detach, Finish...) keeps the types.
LEMMA TypeConn ==
  ASSUME TypeInv, NEW c \in Conns, ConnStep(c)
  PROVE  TypeInv'
<1>. USE DEF TypeInv, connVars, ledgerVars, Install
<1>0. {k \in Activities : k[1] = c} \in SUBSET Keys
  BY Zenon DEF Activities
<1>e. ASSUME endActivitiesLocked(c)
      PROVE  (record \in [Keys -> {"absent", "admitted", "dispatched", "abandoned"}])'
             /\ (uncertain \in SUBSET Nodes)' /\ (activityNodes \in [Nodes -> Int])'
             /\ (activityCounts \in [Conns -> Nat])'
  BY <1>e, <1>0, MineCardinality DEF endActivitiesLocked
<1>1. CASE ConnectStart(c)
  BY <1>1, Zenon DEF ConnectStart
<1>2. CASE Register(c)
  BY <1>2, Zenon DEF Register
<1>3. CASE RegisterRetire(c)
  BY <1>3 DEF RegisterRetire
<1>4. CASE Detach(c)
  BY <1>4, <1>e, ZenonT(30) DEF Detach
<1>5. CASE finishRetirement(c)
  BY <1>5 DEF finishRetirement
<1>6. CASE ConnectReturn(c)
  BY <1>6, <1>e DEF ConnectReturn
<1>7. CASE DeliverBegin(c)
  BY <1>7, Zenon DEF DeliverBegin
<1>8. CASE DeliverEnd(c)
  BY <1>8, Zenon DEF DeliverEnd
<1>. QED
  BY <1>1, <1>2, <1>3, <1>4, <1>5, <1>6, <1>7, <1>8, Zenon DEF ConnStep

\* A goroutine that is not idle has a connection and a message.
LEMMA BusySender ==
  ASSUME TypeInv, NEW s \in Senders, sender[s].pc # "idle"
  PROVE  /\ sender[s] \in [pc : {"queued", "guard", "ready", "sending"},
                           conn : Conns, msg : Messages]
         /\ sender[s].conn \in Conns
         /\ sender[s].msg \in Messages
         /\ sender[s].msg.kind \in WithActivity => sender[s].msg.id \in Ids
BY DEF TypeInv, SenderStates, IdleSender, Messages, WithActivity, Claiming

\* Every step of a sender (SendToAgent and its guard) keeps the types.
LEMMA TypeSend ==
  ASSUME TypeInv, NEW s \in Senders, SendStep(s)
  PROVE  TypeInv'
<1>. DEFINE Rec == {"absent", "admitted", "dispatched", "abandoned"}
<1>. USE DEF TypeInv, connVars, ledgerVars
<1>i. IdleSender \in SenderStates
  BY Zenon DEF SenderStates
<1>a. ASSUME NEW k \in Keys, NEW state \in Rec, addActivityLocked(k, state)
      PROVE  (record \in [Keys -> Rec])' /\ (uncertain \in SUBSET Nodes)'
             /\ (activityNodes \in [Nodes -> Int])' /\ (activityCounts \in [Conns -> Nat])'
  <2>1. ServerOf[k[1]] \in Nodes
    BY Zenon DEF Keys
  <2>. QED
    BY <1>a, <2>1 DEF addActivityLocked
<1>b. ASSUME NEW k \in Keys, abandonActivity(k)
      PROVE  (record \in [Keys -> Rec])' /\ (uncertain \in SUBSET Nodes)'
             /\ (activityNodes \in [Nodes -> Int])' /\ (activityCounts \in [Conns -> Nat])'
  <2>1. ServerOf[k[1]] \in Nodes
    BY Zenon DEF Keys
  <2>. QED
    BY <1>b, <2>1 DEF abandonActivity, removeActivityLocked
<1>1. ASSUME NEW c \in Conns, NEW m \in Messages, SendStart(s, c, m)
      PROVE  TypeInv'
  BY <1>1, Zenon DEF SendStart, SenderStates
<1>2. CASE SendLock(s)
  <2>1. [sender[s] EXCEPT !.pc = IF sender[s].msg.kind \in Claiming THEN "guard" ELSE "ready"]
          \in SenderStates
    BY <1>2, BusySender DEF SendLock, SenderStates
  <2>. QED
    BY <1>2, <2>1, Zenon DEF SendLock
<1>3. CASE SendRefused(s)
  BY <1>3, <1>i, Zenon DEF SendRefused
<1>4. CASE SendGuard(s)
  <2>1. [sender[s] EXCEPT !.pc = "ready"] \in SenderStates
    BY <1>4, BusySender, Zenon DEF SendGuard, SenderStates
  <2>. QED
    BY <1>4, <2>1, ZenonT(30) DEF SendGuard
<1>5. CASE prepareActivitySend(s)
  <2>1. [sender[s] EXCEPT !.pc = "sending"] \in SenderStates
    BY <1>5, BusySender DEF prepareActivitySend, SenderStates
  <2>2. sender' \in [Senders -> SenderStates]
    BY <1>5, <2>1, Zenon DEF prepareActivitySend
  <2>. DEFINE k == <<sender[s].conn, sender[s].msg.id>>
  <2>3. sender[s].msg.kind \in WithActivity => k \in Keys
    BY <1>5, BusySender, Zenon DEF prepareActivitySend, Keys
  <2>. QED
    BY <1>5, <2>2, <2>3, <1>a, Zenon DEF prepareActivitySend
<1>6. ASSUME NEW ok \in BOOLEAN, SendEnd(s, ok)
      PROVE  TypeInv'
  <2>. DEFINE k == <<sender[s].conn, sender[s].msg.id>>
  <2>3. sender[s].msg.kind \in WithActivity => k \in Keys
    BY <1>6, BusySender, Zenon DEF SendEnd, Keys
  <2>. QED
    BY <1>6, <2>3, <1>b, <1>i, Zenon DEF SendEnd
<1>7. CASE SendTimeout(s)
  BY <1>7, BusySender, Zenon DEF SendTimeout
<1>. QED
  BY <1>1, <1>2, <1>3, <1>4, <1>5, <1>6, <1>7, Zenon DEF SendStep

\* Every step of the activity ledger that belongs to a connection keeps the types.
LEMMA TypeLedger ==
  ASSUME TypeInv, NEW c \in Conns, LedgerStep(c)
  PROVE  TypeInv'
<1>. USE DEF TypeInv, connVars, ledgerVars
<1>0. ServerOf[c] \in Nodes /\ \A i \in Ids : <<c, i>> \in Keys
  BY Zenon DEF Keys
<1>1. ASSUME NEW i \in Ids, BeginActivity(c, i)
      PROVE  TypeInv'
  BY <1>0, <1>1 DEF BeginActivity, addActivityLocked
<1>2. ASSUME NEW i \in Ids, Abandon(<<c, i>>)
      PROVE  TypeInv'
  BY <1>0, <1>2 DEF Abandon, abandonActivity, removeActivityLocked
<1>3. ASSUME NEW i \in Ids, CompleteActivity(c, i)
      PROVE  TypeInv'
  BY <1>0, <1>3 DEF CompleteActivity, removeActivityLocked
<1>4. ASSUME NEW count \in 0 .. MaxNodeActivities, ObserveActivityCapabilities(c, count)
      PROVE  TypeInv'
  BY <1>0, <1>4 DEF ObserveActivityCapabilities
<1>5. ASSUME NEW op \in Ops, NEW manual \in BOOLEAN, ReserveBegin(c, op, manual)
      PROVE  TypeInv'
  BY <1>0, <1>5, Zenon DEF ReserveBegin, Reservations
<1>6. CASE ReserveCommit(c)
  <2>. DEFINE gone == {k \in Activities : k[1] = c /\ record[k] = "abandoned"}
  <2>1. gone \in SUBSET Keys
    BY Zenon DEF Activities
  <2>2. Cardinality(gone) \in Nat
    BY <2>1, MineCardinality, Zenon
  <2>3. reserving[c] \in Reservations /\ reserving[c].op \in Ops
    BY <1>6, Zenon DEF ReserveCommit, Reservations
  <2>4. clearAbandonedActivitiesLocked(c) =>
          (record \in [Keys -> {"absent", "admitted", "dispatched", "abandoned"}])'
          /\ (uncertain \in SUBSET Nodes)' /\ (activityNodes \in [Nodes -> Int])'
    BY <1>0, <2>2 DEF clearAbandonedActivitiesLocked
  <2>. QED
    BY <1>0, <1>6, <2>3, <2>4, Zenon DEF ReserveCommit, clearAbandonedActivitiesLocked
<1>7. CASE ReserveRefused(c)
  BY <1>7, Zenon DEF ReserveRefused
<1>. HIDE DEF TypeInv
<1>. QED
  BY <1>1, <1>2, <1>3, <1>4, <1>5, <1>6, <1>7, Zenon DEF LedgerStep

\* Every step keeps the types.
LEMMA NextTypeInv == TypeInv /\ [Next]_vars => TypeInv'
<1>1. ASSUME TypeInv, UNCHANGED vars
      PROVE  TypeInv'
  BY <1>1, Zenon DEF TypeInv, vars, connVars, ledgerVars
<1>2. ASSUME TypeInv, NEW n \in Nodes, NEW op \in Ops, ReleaseMaintenance(n, op)
      PROVE  TypeInv'
  BY <1>2, Zenon DEF TypeInv, ReleaseMaintenance, connVars, ledgerVars
<1>. QED
  BY <1>1, <1>2, TypeConn, TypeSend, TypeLedger, Zenon DEF Next
-----------------------------------------------------------------------------
(* The life of a generation.                                                *)

\* No generation is installed and nobody sends initially.
LEMMA InitGInv == Init => GInv
BY DEF Init, GInv, GenerationInv, SendOnInstalledGeneration, SendsUnder, Installed,
       DeliveryOnCurrentGeneration, IdleSender

\* Registering, detaching and finishing keep generations apart: delivery and
\* the generation mutex are given up before a stream is replaced.
LEMMA GConn ==
  ASSUME TypeInv, GInv, NEW c \in Conns, ConnStep(c)
  PROVE  GInv'
<1>. USE DEF TypeInv, GInv, GenerationInv, SendOnInstalledGeneration, SendsUnder, Installed,
             DeliveryOnCurrentGeneration, GenerationMuFree, ledgerVars
<1>1. CASE ConnectStart(c)
  BY <1>1 DEF ConnectStart
<1>2. CASE Register(c)
  BY <1>2 DEF Register, Install
<1>3. CASE RegisterRetire(c)
  <2>. DEFINE n == ServerOf[c]
              r == retiring[n]
  <2>1. /\ n \in Nodes /\ r \in Conns /\ r \in done /\ streams[n] = r /\ ServerOf[r] = n
        /\ handler[c] = "registering" /\ GenerationMuFree(r)
    BY <1>3 DEF RegisterRetire
  <2>2. /\ streams' = [streams EXCEPT ![n] = c]
        /\ handler' = [handler EXCEPT ![c] = "connected"]
        /\ retiring' = [retiring EXCEPT ![n] = None]
        /\ UNCHANGED <<done, finishers, delivering, sender, reserving>>
    BY <1>3, <2>1, Zenon DEF RegisterRetire, Install
  <2>3. GenerationInv'
    BY <2>1, <2>2
  <2>4. SendOnInstalledGeneration'
    BY <2>1, <2>2
  <2>5. DeliveryOnCurrentGeneration'
    BY <2>1, <2>2
  <2>. QED
    BY <2>3, <2>4, <2>5, Zenon
<1>4. CASE Detach(c)
  BY <1>4 DEF Detach
<1>5. CASE finishRetirement(c)
  BY <1>5 DEF finishRetirement
<1>6. CASE ConnectReturn(c)
  BY <1>6 DEF ConnectReturn
<1>7. CASE DeliverBegin(c)
  BY <1>7 DEF DeliverBegin, liveLocked
<1>8. CASE DeliverEnd(c)
  BY <1>8, Zenon DEF DeliverEnd
<1>. HIDE DEF TypeInv, GInv
<1>. QED
  BY <1>1, <1>2, <1>3, <1>4, <1>5, <1>6, <1>7, <1>8, Zenon DEF ConnStep

\* A sender touches a stream only while its generation is installed.
LEMMA GSend ==
  ASSUME TypeInv, GInv, NEW s \in Senders, SendStep(s)
  PROVE  GInv'
<1>. USE DEF TypeInv, GInv, GenerationInv, SendOnInstalledGeneration, SendsUnder, Installed,
             DeliveryOnCurrentGeneration, GenerationMuFree, connVars
<1>1. ASSUME NEW c \in Conns, NEW m \in Messages, SendStart(s, c, m)
      PROVE  GInv'
  BY <1>1 DEF SendStart
<1>2. CASE SendLock(s)
  BY <1>2 DEF SendLock, SendMuFree
<1>3. CASE SendRefused(s)
  BY <1>3, BusySender DEF SendRefused, IdleSender
<1>4. CASE SendGuard(s)
  BY <1>4, BusySender DEF SendGuard
<1>5. CASE prepareActivitySend(s)
  BY <1>5, BusySender, SMTT(90) DEF prepareActivitySend
<1>6. ASSUME NEW ok \in BOOLEAN, SendEnd(s, ok)
      PROVE  GInv'
  <2>1. /\ UNCHANGED <<handler, streams, retiring, done, delivering, reserving>>
        /\ \A t \in Senders \ {s} : sender'[t] = sender[t]
        /\ sender'[s].pc = "idle"
    BY <1>6, SMTT(90) DEF SendEnd, IdleSender
  <2>2. \A t \in Senders, c \in Conns : SendsUnder(t, c)' => SendsUnder(t, c)
    BY <2>1, Zenon
  <2>3. GenerationInv'
    BY <2>1, <2>2, SMTT(90)
  <2>. HIDE DEF GenerationInv, TypeInv
  <2>. QED
    BY <2>1, <2>2, <2>3, SMTT(90)
<1>7. CASE SendTimeout(s)
  BY <1>7, BusySender, Zenon DEF SendTimeout
<1>. HIDE DEF TypeInv, GInv
<1>. QED
  BY <1>1, <1>2, <1>3, <1>4, <1>5, <1>6, <1>7, Zenon DEF SendStep

\* The ledger neither installs nor removes generations.
LEMMA GLedger ==
  ASSUME TypeInv, GInv, NEW c \in Conns, LedgerStep(c)
  PROVE  GInv'
<1>. USE DEF TypeInv, GInv, GenerationInv, SendOnInstalledGeneration, SendsUnder, Installed,
             DeliveryOnCurrentGeneration, GenerationMuFree, connVars
<1>1. ASSUME NEW i \in Ids, BeginActivity(c, i)
      PROVE  GInv'
  BY <1>1, Zenon DEF BeginActivity
<1>2. ASSUME NEW i \in Ids, Abandon(<<c, i>>)
      PROVE  GInv'
  BY <1>2, Zenon DEF Abandon
<1>3. ASSUME NEW i \in Ids, CompleteActivity(c, i)
      PROVE  GInv'
  BY <1>3, Zenon DEF CompleteActivity
<1>4. ASSUME NEW count \in 0 .. MaxNodeActivities, ObserveActivityCapabilities(c, count)
      PROVE  GInv'
  BY <1>4, Zenon DEF ObserveActivityCapabilities
<1>5. ASSUME NEW op \in Ops, NEW manual \in BOOLEAN, ReserveBegin(c, op, manual)
      PROVE  GInv'
  <2>1. /\ UNCHANGED <<handler, streams, retiring, done, delivering, sender>>
        /\ \A d \in Conns : d # c => reserving'[d] = reserving[d]
        /\ GenerationMuFree(c)
    BY <1>5, ZenonT(60) DEF ReserveBegin, SendMuFree
  <2>2. \A d \in Conns : reserving'[d] # None => GenerationMuFree(d)'
    BY <2>1, ZenonT(60)
  <2>. QED
    BY <2>1, <2>2, ZenonT(60)
<1>6. CASE ReserveCommit(c)
  BY <1>6, ZenonT(60) DEF ReserveCommit
<1>7. CASE ReserveRefused(c)
  BY <1>7 DEF ReserveRefused
<1>. HIDE DEF TypeInv, GInv
<1>. QED
  BY <1>1, <1>2, <1>3, <1>4, <1>5, <1>6, <1>7, Zenon DEF LedgerStep

\* Every step keeps generations apart.
LEMMA NextGInv == TypeInv /\ GInv /\ [Next]_vars => GInv'
<1>. USE DEF GInv, GenerationInv, SendOnInstalledGeneration, SendsUnder, Installed,
             DeliveryOnCurrentGeneration, GenerationMuFree, connVars, ledgerVars
<1>1. ASSUME GInv, UNCHANGED vars
      PROVE  GInv'
  BY <1>1, Zenon DEF vars
<1>2. ASSUME GInv, NEW n \in Nodes, NEW op \in Ops, ReleaseMaintenance(n, op)
      PROVE  GInv'
  BY <1>2, Zenon DEF ReleaseMaintenance
<1>. HIDE DEF GInv
<1>. QED
  BY <1>1, <1>2, GConn, GSend, GLedger, Zenon DEF Next
-----------------------------------------------------------------------------
(* The generation and the maintenance of recorded work.                     *)

\* The ledger's invariant contains the two properties the Hub relies on.
LEMMA WorkInvImplies ==
  ASSUME TypeInv, WorkInv
  PROVE  LedgerOfCurrentGeneration /\ MaintenanceExcludesWork
<1>1. LedgerOfCurrentGeneration
  BY ZenonT(30) DEF LedgerOfCurrentGeneration, WorkInv
<1>2. ASSUME NEW n \in Nodes, maintenance[n] # None
      PROVE  NodeActivities(n) = {}
  <2>1. SUFFICES ASSUME NEW k \in NodeActivities(n)
                 PROVE  FALSE
    BY Zenon
  <2>2. PICK c \in Conns, i \in Ids : k = <<c, i>> /\ record[k] # "absent" /\ ServerOf[c] = n
    BY DEF NodeActivities, Activities, Keys
  <2>. QED
    BY <1>2, <2>2, Zenon DEF WorkInv
<1>. QED
  BY <1>1, <1>2, Zenon DEF MaintenanceExcludesWork, WorkInv

\* The ledger is empty initially.
LEMMA InitWorkInv == Init => WorkInv
BY DEF Init, WorkInv, IdleSender, Keys

\* Detach ends the records of the generation it removes, so none is left
\* under a generation that is no longer installed.
LEMMA WorkConn ==
  ASSUME TypeInv, GInv, WorkInv, NEW c \in Conns, ConnStep(c)
  PROVE  WorkInv'
<1>. USE DEF TypeInv, WorkInv, Keys, ledgerVars
<1>e. ASSUME endActivitiesLocked(c)
      PROVE  /\ \A d \in Conns, i \in Ids :
                  record'[<<d, i>>] = IF d = c THEN "absent" ELSE record[<<d, i>>]
             /\ activityCounts' = [activityCounts EXCEPT ![c] = 0]
  BY <1>e, Zenon DEF endActivitiesLocked
<1>1. CASE ConnectStart(c)
  BY <1>1, Zenon DEF ConnectStart
<1>2. CASE Register(c)
  BY <1>2, Zenon DEF Register, Install
<1>3. CASE RegisterRetire(c)
  BY <1>3 DEF RegisterRetire, Install, GInv, GenerationInv
<1>4. CASE Detach(c)
  BY <1>4, <1>e, SMTT(90) DEF Detach
<1>5. CASE finishRetirement(c)
  BY <1>5, SMTT(90) DEF finishRetirement, GInv, GenerationInv
<1>6. CASE ConnectReturn(c)
  <2>1. CASE streams[ServerOf[c]] = c
    BY <1>6, <1>e, <2>1 DEF ConnectReturn
  <2>2. CASE streams[ServerOf[c]] # c
    BY <1>6, <2>2, Zenon DEF ConnectReturn
  <2>. QED
    BY <2>1, <2>2, Zenon
<1>7. CASE DeliverBegin(c)
  BY <1>7, Zenon DEF DeliverBegin
<1>8. CASE DeliverEnd(c)
  BY <1>8, Zenon DEF DeliverEnd
<1>. HIDE DEF TypeInv, WorkInv
<1>. QED
  BY <1>1, <1>2, <1>3, <1>4, <1>5, <1>6, <1>7, <1>8, Zenon DEF ConnStep

\* Abandoning an activity never creates a record.
LEMMA AbandonShrinks ==
  ASSUME TypeInv, NEW k \in Keys, abandonActivity(k)
  PROVE  /\ \A h \in Keys : record'[h] # "absent" => record[h] # "absent"
         /\ UNCHANGED activityCounts
<1>. USE DEF TypeInv, ledgerVars
<1>1. CASE record[k] = "absent" /\ UNCHANGED ledgerVars
  BY <1>1, Zenon
<1>2. CASE record[k] = "admitted" /\ removeActivityLocked(k)
  BY <1>2, Zenon DEF removeActivityLocked
<1>3. CASE record[k] \in {"dispatched", "abandoned"}
  BY <1>3, Zenon DEF abandonActivity
<1>. QED
  BY <1>1, <1>2, <1>3, Zenon DEF abandonActivity

\* A record is admitted only under the installed generation and never under a
\* maintenance reservation.
LEMMA WorkSend ==
  ASSUME TypeInv, GInv, WorkInv, NEW s \in Senders, SendStep(s)
  PROVE  WorkInv'
<1>. USE DEF TypeInv, WorkInv, Keys, connVars, ledgerVars
<1>1. ASSUME NEW c \in Conns, NEW m \in Messages, SendStart(s, c, m)
      PROVE  WorkInv'
  BY <1>1 DEF SendStart
<1>2. CASE SendLock(s)
  BY <1>2, BusySender, SMTT(90) DEF SendLock
<1>3. CASE SendRefused(s)
  <2>1. /\ UNCHANGED <<streams, retiring, maintenance, record, activityCounts>>
        /\ \A t \in Senders \ {s} : sender'[t] = sender[t]
        /\ sender'[s].pc = "idle"
    BY <1>3, SMTT(90) DEF SendRefused, IdleSender
  <2>. QED
    BY <2>1, Zenon
<1>4. CASE SendGuard(s)
  <2>. DEFINE k == <<sender[s].conn, sender[s].msg.id>>
  <2>1. \A c \in Conns, i \in Ids : record'[<<c, i>>] # "absent" => record[<<c, i>>] # "absent"
    BY <1>4, ZenonT(30) DEF SendGuard
  <2>. QED
    BY <1>4, <2>1, BusySender DEF SendGuard
<1>5. CASE prepareActivitySend(s)
  <2>. DEFINE c == sender[s].conn
              k == <<c, sender[s].msg.id>>
  <2>1. /\ c \in Conns /\ streams[ServerOf[c]] = c /\ c \notin done
        /\ sender[s].msg.kind \in WithActivity => k \in Keys
    BY <1>5, BusySender, Zenon DEF prepareActivitySend, liveLocked
  <2>2. retiring[ServerOf[c]] # c
    <3>1. \A n \in Nodes : retiring[n] # None => retiring[n] \in done
      BY Zenon DEF GInv, GenerationInv
    <3>. QED
      BY <2>1, <3>1, SMTT(30)
  <2>3. sender[s].msg.kind # "plain" => maintenance[ServerOf[c]] = None
    BY <1>5, <2>1, Zenon DEF prepareActivitySend
  <2>4. \A d \in Conns, i \in Ids :
          record'[<<d, i>>] # "absent" => record[<<d, i>>] # "absent" \/
            (<<d, i>> = k /\ sender[s].msg.kind \in WithActivity)
    BY <1>5, <2>1, SMTT(30) DEF prepareActivitySend, addActivityLocked
  <2>5. "plain" \notin WithActivity
    BY Zenon DEF WithActivity, Claiming
  <2>6. UNCHANGED <<streams, retiring, maintenance, activityCounts>>
    BY <1>5, Zenon DEF prepareActivitySend, addActivityLocked
  <2>7. \A t \in Senders \ {s} : sender'[t] = sender[t]
    BY <1>5, Zenon DEF prepareActivitySend
  <2>8. sender'[s].conn = c /\ sender'[s].msg = sender[s].msg
    BY <1>5, BusySender, SMTT(90) DEF prepareActivitySend
  <2>. HIDE DEF c, k
  <2>9. \A d \in Conns, i \in Ids : record'[<<d, i>>] # "absent" =>
          /\ streams'[ServerOf[d]] = d
          /\ retiring'[ServerOf[d]] # d
          /\ maintenance'[ServerOf[d]] = None
    <3>1. \A d \in Conns, i \in Ids : <<d, i>> = k => d = c
      BY Zenon DEF k
    <3>. QED
      BY <2>1, <2>2, <2>3, <2>4, <2>5, <2>6, <3>1, SMTT(30)
  <2>10. \A t \in Senders : sender'[t].pc = "sending" /\ sender'[t].msg.kind # "plain" =>
           maintenance'[ServerOf[sender'[t].conn]] = None
    BY <2>3, <2>6, <2>7, <2>8, SMTT(30)
  <2>. QED
    BY <2>6, <2>9, <2>10, Zenon
<1>6. ASSUME NEW ok \in BOOLEAN, SendEnd(s, ok)
      PROVE  WorkInv'
  <2>. DEFINE k == <<sender[s].conn, sender[s].msg.id>>
  <2>1. sender[s].msg.kind \in WithActivity => k \in Keys
    BY <1>6, BusySender, Zenon DEF SendEnd
  <2>2. \A h \in Keys : record'[h] # "absent" => record[h] # "absent"
    BY <1>6, <2>1, AbandonShrinks, Zenon DEF SendEnd
  <2>3. UNCHANGED <<streams, retiring, maintenance, activityCounts>>
    BY <1>6, <2>1, AbandonShrinks, Zenon DEF SendEnd
  <2>. QED
    BY <1>6, <2>2, <2>3, SMTT(90) DEF SendEnd, IdleSender
<1>7. CASE SendTimeout(s)
  BY <1>7, BusySender, Zenon DEF SendTimeout
<1>. HIDE DEF TypeInv, WorkInv
<1>. QED
  BY <1>1, <1>2, <1>3, <1>4, <1>5, <1>6, <1>7, Zenon DEF SendStep

\* Completing, clearing and reserving keep records and reservations apart.
LEMMA WorkLedger ==
  ASSUME TypeInv, GInv, WorkInv, NEW c \in Conns, LedgerStep(c)
  PROVE  WorkInv'
<1>. USE DEF TypeInv, WorkInv, Keys, connVars, ledgerVars
<1>0. liveLocked(c) => retiring[ServerOf[c]] # c
  BY SMTT(90) DEF liveLocked, GInv, GenerationInv
<1>1. ASSUME NEW i \in Ids, BeginActivity(c, i)
      PROVE  WorkInv'
  BY <1>0, <1>1, SMTT(90) DEF BeginActivity, addActivityLocked, liveLocked
<1>2. ASSUME NEW i \in Ids, Abandon(<<c, i>>)
      PROVE  WorkInv'
  BY <1>2, AbandonShrinks, SMTT(90) DEF Abandon
<1>3. ASSUME NEW i \in Ids, CompleteActivity(c, i)
      PROVE  WorkInv'
  BY <1>3, Zenon DEF CompleteActivity, removeActivityLocked
<1>4. ASSUME NEW count \in 0 .. MaxNodeActivities, ObserveActivityCapabilities(c, count)
      PROVE  WorkInv'
  BY <1>0, <1>4, Zenon DEF ObserveActivityCapabilities, liveLocked
<1>5. ASSUME NEW op \in Ops, NEW manual \in BOOLEAN, ReserveBegin(c, op, manual)
      PROVE  WorkInv'
  BY <1>5, Zenon DEF ReserveBegin
<1>6. CASE ReserveCommit(c)
  <2>. DEFINE n == ServerOf[c]
  <2>1. /\ UNCHANGED <<streams, retiring, sender, activityCounts>>
        /\ \A m \in Nodes : m # n => maintenance'[m] = maintenance[m]
    BY <1>6, Zenon DEF ReserveCommit, clearAbandonedActivitiesLocked
  <2>2. streams[n] = c
    BY <1>6, Zenon DEF ReserveCommit, liveLocked
  <2>3. \A i \in Ids : record[<<c, i>>] # "absent" =>
          reserving[c].manual /\ record[<<c, i>>] = "abandoned"
    BY <1>6, SMTT(30) DEF ReserveCommit, activityIdleLocked, NodeActivities, Activities
  <2>4. \A d \in Conns, i \in Ids : record'[<<d, i>>] # "absent" => record[<<d, i>>] # "absent" /\ d # c
    <3>1. CASE reserving[c].manual
      BY <1>6, <2>3, <3>1, SMTT(90) DEF ReserveCommit, clearAbandonedActivitiesLocked, Activities
    <3>2. CASE ~reserving[c].manual
      BY <1>6, <2>3, <3>2, Zenon DEF ReserveCommit
    <3>. QED
      BY <3>1, <3>2, Zenon
  <2>5. \A d \in Conns, i \in Ids : record'[<<d, i>>] # "absent" => ServerOf[d] # n
    BY <2>2, <2>4, SMTT(90)
  <2>6. \A s \in Senders : sender[s].pc = "sending" => ServerOf[sender[s].conn] # n
    <3>1. SUFFICES ASSUME NEW s \in Senders, sender[s].pc = "sending",
                          ServerOf[sender[s].conn] = n
                   PROVE  FALSE
      BY Zenon
    <3>2. sender[s].conn \in Conns /\ SendsUnder(s, sender[s].conn)
      BY <3>1, BusySender, Zenon DEF SendsUnder
    <3>3. sender[s].conn = c
      BY <2>2, <3>1, <3>2, Zenon DEF GInv, SendOnInstalledGeneration
    <3>. QED
      BY <1>6, <3>2, <3>3, Zenon DEF ReserveCommit, GInv, GenerationInv, GenerationMuFree
  <2>7. \A s \in Senders : sender[s].pc = "sending" => ServerOf[sender[s].conn] \in Nodes
    BY BusySender, Zenon
  <2>. QED
    BY <2>1, <2>4, <2>5, <2>6, <2>7, SMTT(90)
<1>7. CASE ReserveRefused(c)
  BY <1>7, Zenon DEF ReserveRefused
<1>. HIDE DEF TypeInv, WorkInv
<1>. QED
  BY <1>1, <1>2, <1>3, <1>4, <1>5, <1>6, <1>7, Zenon DEF LedgerStep

\* Every step keeps the ledger's records and reservations apart.
LEMMA NextWorkInv == TypeInv /\ GInv /\ WorkInv /\ [Next]_vars => WorkInv'
<1>1. ASSUME WorkInv, UNCHANGED vars
      PROVE  WorkInv'
  BY <1>1, Zenon DEF WorkInv, vars, connVars, ledgerVars
<1>2. ASSUME TypeInv, WorkInv, NEW n \in Nodes, NEW op \in Ops, ReleaseMaintenance(n, op)
      PROVE  WorkInv'
  BY <1>2 DEF TypeInv, WorkInv, ReleaseMaintenance, connVars, ledgerVars
<1>. QED
  BY <1>1, <1>2, WorkConn, WorkSend, WorkLedger, Zenon DEF Next
-----------------------------------------------------------------------------
(* The arithmetic of the ledger.                                            *)

\* The sets the ledger counts are finite.
LEMMA Finite ==
  ASSUME TypeInv
  PROVE  /\ IsFiniteSet(Activities) /\ Cardinality(Activities) \in Nat
         /\ \A n \in Nodes : /\ IsFiniteSet(NodeActivities(n))
                             /\ Cardinality(NodeActivities(n)) \in Nat
         /\ IsFiniteSet(uncertain) /\ Cardinality(uncertain) \in Nat
<1>1. Activities \in SUBSET Keys /\ \A n \in Nodes : NodeActivities(n) \in SUBSET Keys
  BY Zenon DEF Activities, NodeActivities
<1>2. IsFiniteSet(uncertain)
  BY FS_Subset, FiniteAssumption, Zenon DEF TypeInv
<1>. QED
  BY <1>1, <1>2, MineCardinality, FS_CardinalityType, Zenon

\* One new record is one more activity, of one server.
LEMMA AddRecord ==
  ASSUME TypeInv, NEW k \in Keys, record[k] = "absent",
         \A h \in Keys : record'[h] # "absent" <=> record[h] # "absent" \/ h = k
  PROVE  /\ Cardinality(Activities') = Cardinality(Activities) + 1
         /\ \A m \in Nodes : Cardinality(NodeActivities(m)') =
              Cardinality(NodeActivities(m)) + (IF m = ServerOf[k[1]] THEN 1 ELSE 0)
<1>1. Activities' = Activities \cup {k} /\ k \notin Activities
  BY Zenon DEF Activities
<1>2. Cardinality(Activities') = Cardinality(Activities) + 1
  BY <1>1, Finite, FS_AddElement, ZenonT(30)
<1>3. ASSUME NEW m \in Nodes
      PROVE  Cardinality(NodeActivities(m)') =
               Cardinality(NodeActivities(m)) + (IF m = ServerOf[k[1]] THEN 1 ELSE 0)
  <2>1. CASE m = ServerOf[k[1]]
    <3>1. NodeActivities(m)' = NodeActivities(m) \cup {k} /\ k \notin NodeActivities(m)
      BY <1>1, <2>1, Zenon DEF NodeActivities
    <3>. QED
      BY <2>1, <3>1, Finite, FS_AddElement, ZenonT(30)
  <2>2. CASE m # ServerOf[k[1]]
    <3>1. NodeActivities(m)' = NodeActivities(m)
      BY <1>1, <2>2, Zenon DEF NodeActivities
    <3>. QED
      BY <2>2, <3>1, Finite
  <2>. QED
    BY <2>1, <2>2, Zenon
<1>. QED
  BY <1>2, <1>3, Zenon

\* Removing a set of records of one server removes as many activities.
LEMMA RemoveRecords ==
  ASSUME TypeInv, NEW n \in Nodes, NEW S \in SUBSET NodeActivities(n),
         \A h \in Keys : record'[h] # "absent" <=> record[h] # "absent" /\ h \notin S
  PROVE  /\ Cardinality(S) \in Nat
         /\ Cardinality(S) <= Cardinality(NodeActivities(n))
         /\ Cardinality(S) = Cardinality(NodeActivities(n)) => S = NodeActivities(n)
         /\ Cardinality(Activities') = Cardinality(Activities) - Cardinality(S)
         /\ \A m \in Nodes : Cardinality(NodeActivities(m)') =
              Cardinality(NodeActivities(m)) - (IF m = n THEN Cardinality(S) ELSE 0)
<1>1. /\ Cardinality(S) \in Nat
      /\ Cardinality(S) <= Cardinality(NodeActivities(n))
      /\ Cardinality(S) = Cardinality(NodeActivities(n)) => S = NodeActivities(n)
  BY Finite, FS_Subset, FS_CardinalityType, Zenon
<1>2. Activities' = Activities \ S /\ S \subseteq Activities
  BY Zenon DEF Activities, NodeActivities
<1>3. Cardinality(Activities') = Cardinality(Activities) - Cardinality(S)
  <2>1. Activities \cap S = S
    BY <1>2, Zenon
  <2>. QED
    BY <1>2, <2>1, Finite, FS_Difference, ZenonT(30)
<1>4. ASSUME NEW m \in Nodes
      PROVE  Cardinality(NodeActivities(m)') =
               Cardinality(NodeActivities(m)) - (IF m = n THEN Cardinality(S) ELSE 0)
  <2>1. CASE m = n
    <3>1. NodeActivities(m)' = NodeActivities(m) \ S /\ NodeActivities(m) \cap S = S
      BY <1>2, <2>1, Zenon DEF NodeActivities
    <3>. QED
      BY <2>1, <3>1, Finite, FS_Difference, ZenonT(30)
  <2>2. CASE m # n
    <3>1. NodeActivities(m)' = NodeActivities(m)
      BY <1>2, <2>2, Zenon DEF NodeActivities
    <3>. QED
      BY <2>2, <3>1, Finite
  <2>. QED
    BY <2>1, <2>2, Zenon
<1>. QED
  BY <1>1, <1>3, <1>4, Zenon

\* The number of uncertainty slots when one is opened or closed.
LEMMA UncertainCount ==
  ASSUME TypeInv, NEW n \in Nodes
  PROVE  /\ Cardinality(uncertain \cup {n}) =
              Cardinality(uncertain) + (IF n \in uncertain THEN 0 ELSE 1)
         /\ Cardinality(uncertain \ {n}) =
              Cardinality(uncertain) - (IF n \in uncertain THEN 1 ELSE 0)
<1>1. IsFiniteSet(uncertain) /\ Cardinality(uncertain) \in Nat
  BY Finite, Zenon
<1>2. Cardinality(uncertain \cup {n}) =
        IF n \in uncertain THEN Cardinality(uncertain) ELSE Cardinality(uncertain) + 1
  BY <1>1, FS_AddElement, Zenon
<1>3. Cardinality(uncertain \ {n}) =
        IF n \in uncertain THEN Cardinality(uncertain) - 1 ELSE Cardinality(uncertain)
  BY <1>1, FS_RemoveElement, ZenonT(30)
<1>. QED
  BY <1>1, <1>2, <1>3

\* An empty ledger is accounted for.
LEMMA InitAccInv == Init => AccInv
<1>. SUFFICES ASSUME Init PROVE AccInv
  BY Zenon
<1>1. Activities = {} /\ uncertain = {} /\ \A n \in Nodes : NodeActivities(n) = {}
  BY Zenon DEF Init, Activities, NodeActivities
<1>2. Load = 0 /\ \A n \in Nodes : Cardinality(NodeActivities(n)) = 0 /\ n \notin uncertain
  BY <1>1, FS_EmptySet DEF Load
<1>3. /\ \A n \in Nodes : activityNodes[n] = 0
      /\ \A c \in Conns : activityCounts[c] = 0
  BY Zenon DEF Init
<1>. QED
  BY <1>2, <1>3, CapacityAssumption DEF AccInv, LedgerAccounting, LedgerBounds

\* A step that changes neither which records exist nor the counters.
LEMMA AccSame ==
  ASSUME TypeInv, AccInv, UNCHANGED <<uncertain, activityNodes, activityCounts>>,
         \A h \in Keys : record'[h] # "absent" <=> record[h] # "absent"
  PROVE  AccInv'
<1>1. Activities' = Activities /\ \A n \in Nodes : NodeActivities(n)' = NodeActivities(n)
  BY Zenon DEF Activities, NodeActivities
<1>. QED
  BY <1>1, Zenon DEF AccInv, LedgerAccounting, LedgerBounds, Load

\* addActivityLocked takes a slot exactly when the node had none.
LEMMA AccAdd ==
  ASSUME TypeInv, AccInv, NEW k \in Keys, NEW state \in {"admitted", "dispatched"},
         record[k] = "absent", addActivityLocked(k, state)
  PROVE  AccInv'
<1>. DEFINE n == ServerOf[k[1]]
<1>1. n \in Nodes
  BY Zenon DEF Keys
<1>2. \A h \in Keys : record'[h] # "absent" <=> record[h] # "absent" \/ h = k
  BY Zenon DEF addActivityLocked, TypeInv
<1>3. /\ Cardinality(Activities') = Cardinality(Activities) + 1
      /\ \A m \in Nodes : Cardinality(NodeActivities(m)') =
           Cardinality(NodeActivities(m)) + (IF m = n THEN 1 ELSE 0)
  BY <1>2, AddRecord, Zenon
<1>4. /\ uncertain' = uncertain /\ activityCounts' = activityCounts
      /\ \A m \in Nodes : activityNodes'[m] = activityNodes[m] + (IF m = n THEN 1 ELSE 0)
      /\ activityNodes[n] < MaxNodeActivities /\ Load < MaxActivities
  BY <1>1 DEF addActivityLocked, TypeInv
<1>5. /\ Cardinality(Activities) \in Nat /\ Cardinality(uncertain) \in Nat
      /\ \A m \in Nodes : Cardinality(NodeActivities(m)) \in Nat /\ activityNodes[m] \in Int
      /\ \A c \in Conns : ServerOf[c] \in Nodes
  BY Finite, Zenon DEF TypeInv
<1>6. LedgerAccounting'
  BY <1>3, <1>4, <1>5, SMTT(30) DEF AccInv, LedgerAccounting
<1>7. LedgerBounds'
  BY <1>1, <1>3, <1>4, <1>5, CapacityAssumption DEF AccInv, LedgerBounds, Load
<1>. QED
  BY <1>6, <1>7, Zenon DEF AccInv

\* removeActivityLocked gives the slot back with the node's last record.
LEMMA AccRemove ==
  ASSUME TypeInv, WorkInv, AccInv, NEW k \in Keys, record[k] # "absent",
         removeActivityLocked(k)
  PROVE  AccInv'
<1>. DEFINE n == ServerOf[k[1]]
            keep == activityNodes[n] = 1 /\ activityCounts[k[1]] > 0
<1>1. n \in Nodes /\ k[1] \in Conns /\ k \in NodeActivities(n)
  BY Zenon DEF Keys, NodeActivities, Activities
<1>2. \A h \in Keys : record'[h] # "absent" <=> record[h] # "absent" /\ h \notin {k}
  BY Zenon DEF removeActivityLocked, TypeInv
<1>3. {k} \in SUBSET NodeActivities(n) /\ Cardinality({k}) = 1
  BY <1>1, FS_Singleton, ZenonT(30)
<1>4. /\ 1 <= Cardinality(NodeActivities(n))
      /\ Cardinality(Activities') = Cardinality(Activities) - 1
      /\ \A m \in Nodes : Cardinality(NodeActivities(m)') =
           Cardinality(NodeActivities(m)) - (IF m = n THEN 1 ELSE 0)
  <2>. HIDE DEF n
  <2>. QED
    BY <1>1, <1>2, <1>3, RemoveRecords
<1>5. /\ Cardinality(Activities) \in Nat /\ Cardinality(uncertain) \in Nat
      /\ \A m \in Nodes : Cardinality(NodeActivities(m)) \in Nat /\ activityNodes[m] \in Int
      /\ \A c \in Conns : ServerOf[c] \in Nodes /\ activityCounts[c] \in Nat
  BY Finite, Zenon DEF TypeInv
<1>6. activityCounts' = activityCounts
  BY Zenon DEF removeActivityLocked
<1>7. CASE keep
  <2>1. uncertain' = uncertain \cup {n} /\ activityNodes' = [activityNodes EXCEPT ![n] = 1]
    BY <1>7, ZenonT(30) DEF removeActivityLocked
  <2>2. n \notin uncertain /\ Cardinality(NodeActivities(n)) = 1
    BY <1>1, <1>4, <1>5, <1>7, SMTT(30) DEF AccInv, LedgerAccounting
  <2>3. Cardinality(uncertain') = Cardinality(uncertain) + 1
    BY <1>1, <2>1, <2>2, UncertainCount, Zenon
  <2>4. \A m \in Nodes : activityNodes'[m] = activityNodes[m]
    BY <1>7, <2>1, Zenon DEF TypeInv
  <2>5. LedgerAccounting'
    BY <1>1, <1>4, <1>5, <1>6, <2>1, <2>2, <2>4, SMTT(30) DEF AccInv, LedgerAccounting
  <2>6. LedgerBounds'
    <3>1. Load' = Load
      BY <1>4, <1>5, <2>3 DEF Load
    <3>2. Load <= MaxActivities /\ \A m \in Nodes : activityNodes[m] <= MaxNodeActivities
      BY Zenon DEF AccInv, LedgerBounds
    <3>. QED
      BY <2>4, <3>1, <3>2, ZenonT(30) DEF LedgerBounds
  <2>. QED
    BY <2>5, <2>6, Zenon DEF AccInv
<1>8. CASE ~keep
  <2>1. /\ uncertain' = uncertain
        /\ \A m \in Nodes : activityNodes'[m] = activityNodes[m] - (IF m = n THEN 1 ELSE 0)
    BY <1>1, <1>8, SMTT(30) DEF removeActivityLocked, TypeInv
  <2>2. ASSUME NEW c \in Conns, activityCounts[c] > 0
        PROVE  activityNodes'[ServerOf[c]] > 0
    <3>1. ServerOf[c] = n => c = k[1]
      <4>1. PICK i \in Ids : k = <<k[1], i>>
        BY DEF Keys
      <4>. QED
        BY <1>1, <2>2, <4>1 DEF WorkInv
    <3>2. activityNodes[ServerOf[c]] > 0
      BY <2>2, Zenon DEF AccInv, LedgerAccounting
    <3>. QED
      BY <1>5, <1>8, <2>1, <2>2, <3>1, <3>2
  <2>3. LedgerAccounting'
    BY <1>4, <1>5, <1>6, <2>1, <2>2, SMTT(30) DEF AccInv, LedgerAccounting
  <2>4. LedgerBounds'
    BY <1>4, <1>5, <2>1, CapacityAssumption DEF AccInv, LedgerBounds, Load
  <2>. QED
    BY <2>3, <2>4, Zenon DEF AccInv
<1>. QED
  BY <1>7, <1>8, Zenon

\* abandonActivity keeps the account whether it forgets or marks the record.
LEMMA AccAbandon ==
  ASSUME TypeInv, WorkInv, AccInv, NEW k \in Keys, abandonActivity(k)
  PROVE  AccInv'
<1>1. CASE record[k] = "absent" /\ UNCHANGED ledgerVars
  BY <1>1, AccSame, Zenon DEF ledgerVars
<1>2. CASE record[k] = "admitted" /\ removeActivityLocked(k)
  BY <1>2, AccRemove, Zenon
<1>3. CASE /\ record[k] \in {"dispatched", "abandoned"}
           /\ record' = [record EXCEPT ![k] = "abandoned"]
           /\ UNCHANGED <<uncertain, activityNodes, activityCounts>>
  <2>1. \A h \in Keys : record'[h] # "absent" <=> record[h] # "absent"
    BY <1>3, Zenon DEF TypeInv
  <2>. QED
    BY <1>3, <2>1, AccSame, Zenon
<1>. QED
  BY <1>1, <1>2, <1>3, Zenon DEF abandonActivity

\* endActivitiesLocked moves the slot of a lost generation to the node's
\* uncertainty instead of losing or doubling it.
LEMMA AccEnd ==
  ASSUME TypeInv, WorkInv, AccInv, NEW c \in Conns, streams[ServerOf[c]] = c,
         endActivitiesLocked(c)
  PROVE  AccInv'
<1>. DEFINE n == ServerOf[c]
            mine == {k \in Activities : k[1] = c}
            unknown == activityCounts[c] > 0 \/ \E k \in mine : record[k] # "admitted"
            slot == IF unknown /\ n \notin uncertain THEN 1 ELSE 0
<1>1. n \in Nodes /\ mine \in SUBSET NodeActivities(n)
  BY Zenon DEF NodeActivities
<1>2. \A h \in Keys : record'[h] # "absent" <=> record[h] # "absent" /\ h \notin mine
  BY Zenon DEF endActivitiesLocked, Activities
<1>3. /\ Cardinality(mine) \in Nat
      /\ Cardinality(mine) <= Cardinality(NodeActivities(n))
      /\ Cardinality(Activities') = Cardinality(Activities) - Cardinality(mine)
      /\ \A m \in Nodes : Cardinality(NodeActivities(m)') =
           Cardinality(NodeActivities(m)) - (IF m = n THEN Cardinality(mine) ELSE 0)
  <2>. HIDE DEF n, mine
  <2>. QED
    BY <1>1, <1>2, RemoveRecords, ZenonT(30)
<1>4. /\ Cardinality(Activities) \in Nat /\ Cardinality(uncertain) \in Nat
      /\ \A m \in Nodes : Cardinality(NodeActivities(m)) \in Nat /\ activityNodes[m] \in Int
      /\ \A d \in Conns : ServerOf[d] \in Nodes /\ activityCounts[d] \in Nat
  BY Finite, Zenon DEF TypeInv
<1>5. slot = 1 => Cardinality(mine) >= 1
  <2>0. mine # {} => Cardinality(mine) >= 1
    <3>1. mine \in SUBSET Keys
      BY Zenon DEF Activities
    <3>2. IsFiniteSet(mine)
      BY <3>1, MineCardinality, Zenon
    <3>. QED
      BY <1>3, <3>2, FS_EmptySet, SMTT(30)
  <2>1. SUFFICES ASSUME unknown, n \notin uncertain
                 PROVE  mine # {}
    BY <2>0
  <2>2. CASE activityCounts[c] > 0
    <3>1. Cardinality(NodeActivities(n)) > 0
      BY <1>1, <1>4, <2>1, <2>2 DEF AccInv, LedgerAccounting
    <3>2. PICK k \in NodeActivities(n) : TRUE
      BY <3>1, FS_EmptySet, SMTT(30)
    <3>3. k[1] = c
      BY <3>2, SMTT(30) DEF WorkInv, NodeActivities, Activities, Keys
    <3>. QED
      BY <3>2, <3>3, Zenon DEF NodeActivities
  <2>. QED
    BY <2>1, <2>2, Zenon
<1>6. /\ \A m \in Nodes : activityNodes'[m] =
           IF m = n THEN activityNodes[m] - Cardinality(mine) + slot ELSE activityNodes[m]
      /\ uncertain' = IF unknown THEN uncertain \cup {n} ELSE uncertain
      /\ activityCounts' = [activityCounts EXCEPT ![c] = 0]
  BY <1>1, ZenonT(30) DEF endActivitiesLocked, TypeInv
<1>7. \A m \in Nodes : (IF m \in uncertain' THEN 1 ELSE 0) =
        (IF m \in uncertain THEN 1 ELSE 0) + (IF m = n THEN slot ELSE 0)
  <2>1. uncertain' = IF unknown THEN uncertain \cup {n} ELSE uncertain
    BY <1>6, Zenon
  <2>. HIDE DEF n, mine, unknown
  <2>. QED
    BY <2>1 DEF slot
<1>8. Cardinality(uncertain') = Cardinality(uncertain) + slot
  <2>1. CASE unknown
    BY <1>1, <1>4, <1>6, <2>1, UncertainCount, ZenonT(30)
  <2>2. CASE ~unknown
    BY <1>4, <1>6, <2>2
  <2>. QED
    BY <2>1, <2>2, Zenon
<1>9. LedgerAccounting'
  <2>1. ASSUME NEW m \in Nodes
        PROVE  activityNodes'[m] =
                 Cardinality(NodeActivities(m)') + (IF m \in uncertain' THEN 1 ELSE 0)
    <3>1. activityNodes[m] =
            Cardinality(NodeActivities(m)) + (IF m \in uncertain THEN 1 ELSE 0)
      BY Zenon DEF AccInv, LedgerAccounting
    <3>. HIDE DEF n, mine, slot
    <3>2. slot \in {0, 1}
      BY Zenon DEF slot
    <3>. QED
      BY <1>3, <1>4, <1>6, <1>7, <3>1, <3>2, SMTT(30)
  <2>2. ASSUME NEW d \in Conns, activityCounts'[d] > 0
        PROVE  activityNodes'[ServerOf[d]] > 0
    <3>1. d # c /\ activityCounts[d] > 0
      BY <1>6, <2>2, SMTT(30) DEF TypeInv
    <3>2. ServerOf[d] # n
      BY <3>1, Zenon DEF WorkInv
    <3>. QED
      BY <1>4, <1>6, <3>1, <3>2, ZenonT(30) DEF AccInv, LedgerAccounting
  <2>. QED
    BY <2>1, <2>2, Zenon DEF LedgerAccounting
<1>10. LedgerBounds'
  <2>. HIDE DEF n, mine, slot
  <2>1. slot \in {0, 1}
    BY Zenon DEF slot
  <2>2. Load' <= MaxActivities
    BY <1>3, <1>4, <1>5, <1>8, <2>1, CapacityAssumption, SMTT(30) DEF AccInv, LedgerBounds, Load
  <2>3. ASSUME NEW m \in Nodes
        PROVE  activityNodes'[m] <= MaxNodeActivities
    <3>1. activityNodes[m] <= MaxNodeActivities /\ activityNodes[m] \in Int
      BY <1>4, Zenon DEF AccInv, LedgerBounds
    <3>. QED
      BY <1>3, <1>5, <1>6, <2>1, <3>1, CapacityAssumption, SMTT(30)
  <2>. QED
    BY <2>2, <2>3, Zenon DEF LedgerBounds
<1>. QED
  BY <1>9, <1>10, Zenon DEF AccInv

\* clearAbandonedActivitiesLocked drops the uncertainty the agent has answered.
LEMMA AccClear ==
  ASSUME TypeInv, WorkInv, AccInv, NEW c \in Conns, activityCounts[c] = 0,
         streams[ServerOf[c]] = c, clearAbandonedActivitiesLocked(c)
  PROVE  AccInv'
<1>. DEFINE n == ServerOf[c]
            gone == {k \in Activities : k[1] = c /\ record[k] = "abandoned"}
            slot == IF n \in uncertain THEN 1 ELSE 0
<1>1. n \in Nodes /\ gone \in SUBSET NodeActivities(n)
  BY Zenon DEF NodeActivities
<1>2. \A h \in Keys : record'[h] # "absent" <=> record[h] # "absent" /\ h \notin gone
  BY Zenon DEF clearAbandonedActivitiesLocked
<1>3. /\ Cardinality(gone) \in Nat
      /\ Cardinality(gone) <= Cardinality(NodeActivities(n))
      /\ Cardinality(Activities') = Cardinality(Activities) - Cardinality(gone)
      /\ \A m \in Nodes : Cardinality(NodeActivities(m)') =
           Cardinality(NodeActivities(m)) - (IF m = n THEN Cardinality(gone) ELSE 0)
  <2>. HIDE DEF n, gone
  <2>. QED
    BY <1>1, <1>2, RemoveRecords, Zenon
<1>4. /\ Cardinality(Activities) \in Nat /\ Cardinality(uncertain) \in Nat
      /\ \A m \in Nodes : Cardinality(NodeActivities(m)) \in Nat /\ activityNodes[m] \in Int
      /\ \A d \in Conns : ServerOf[d] \in Nodes /\ activityCounts[d] \in Nat
  BY Finite, Zenon DEF TypeInv
<1>5. /\ \A m \in Nodes : activityNodes'[m] =
           IF m = n THEN activityNodes[m] - Cardinality(gone) - slot ELSE activityNodes[m]
      /\ uncertain' = uncertain \ {n}
      /\ activityCounts' = activityCounts
  BY <1>1, Zenon DEF clearAbandonedActivitiesLocked, TypeInv
<1>6. Cardinality(uncertain') = Cardinality(uncertain) - slot /\ slot \in {0, 1}
  BY <1>1, <1>5, UncertainCount, ZenonT(30)
<1>7. ASSUME NEW m \in Nodes
      PROVE  (IF m \in uncertain' THEN 1 ELSE 0) =
               (IF m \in uncertain THEN 1 ELSE 0) - (IF m = n THEN slot ELSE 0)
  <2>. HIDE DEF n, gone
  <2>1. m \in uncertain' <=> m \in uncertain /\ m # n
    BY <1>5, Zenon
  <2>2. CASE m = n
    BY <2>1, <2>2
  <2>3. CASE m # n
    BY <2>1, <2>3
  <2>. QED
    BY <2>2, <2>3, Zenon
<1>8. ASSUME NEW d \in Conns, activityCounts'[d] > 0
      PROVE  ServerOf[d] # n
  BY <1>5, <1>8 DEF WorkInv
<1>. HIDE DEF n, gone, slot
<1>9. LedgerAccounting'
  BY <1>3, <1>4, <1>5, <1>6, <1>7, <1>8, SMTT(30) DEF AccInv, LedgerAccounting
<1>10. LedgerBounds'
  <2>1. Load' <= MaxActivities
    BY <1>3, <1>4, <1>6, CapacityAssumption, SMTT(30) DEF AccInv, LedgerBounds, Load
  <2>2. ASSUME NEW m \in Nodes
        PROVE  activityNodes'[m] <= MaxNodeActivities
    <3>1. activityNodes[m] <= MaxNodeActivities /\ activityNodes[m] \in Int
      BY <1>4, Zenon DEF AccInv, LedgerBounds
    <3>. QED
      BY <1>3, <1>5, <1>6, <3>1, CapacityAssumption, SMTT(30)
  <2>. QED
    BY <2>1, <2>2, Zenon DEF LedgerBounds
<1>. QED
  BY <1>9, <1>10, Zenon DEF AccInv

\* An observed capability report keeps the account.
LEMMA AccObserve ==
  ASSUME TypeInv, WorkInv, AccInv, NEW c \in Conns, NEW count \in 0 .. MaxNodeActivities,
         ObserveActivityCapabilities(c, count)
  PROVE  AccInv'
<1>. DEFINE n == ServerOf[c]
            carried == count > 0 /\ activityNodes[n] = 0
            clear == count = 0 /\ n \in uncertain
<1>1. n \in Nodes /\ count \in Nat
  BY CapacityAssumption, SMTT(30)
<1>2. Activities' = Activities /\ \A m \in Nodes : NodeActivities(m)' = NodeActivities(m)
  BY Zenon DEF ObserveActivityCapabilities, Activities, NodeActivities
<1>3. /\ Cardinality(Activities) \in Nat /\ Cardinality(uncertain) \in Nat
      /\ \A m \in Nodes : Cardinality(NodeActivities(m)) \in Nat /\ activityNodes[m] \in Int
      /\ \A d \in Conns : ServerOf[d] \in Nodes /\ activityCounts[d] \in Nat
  BY Finite, Zenon DEF TypeInv
<1>4. /\ uncertain' = IF carried THEN uncertain \cup {n}
                      ELSE IF clear THEN uncertain \ {n} ELSE uncertain
      /\ \A m \in Nodes : activityNodes'[m] =
           IF m # n THEN activityNodes[m]
           ELSE IF carried THEN activityNodes[m] + 1
           ELSE IF clear THEN activityNodes[m] - 1 ELSE activityNodes[m]
      /\ \A d \in Conns : activityCounts'[d] = IF d = c THEN count ELSE activityCounts[d]
      /\ carried => Load < MaxActivities
      /\ streams[n] = c
  BY <1>1, Zenon DEF ObserveActivityCapabilities, TypeInv, liveLocked
<1>5. carried => n \notin uncertain
  BY <1>1, <1>3, SMTT(90) DEF AccInv, LedgerAccounting
<1>6. Cardinality(uncertain') = Cardinality(uncertain) +
        (IF carried THEN 1 ELSE IF clear THEN -1 ELSE 0)
  BY <1>1, <1>3, <1>4, <1>5, UncertainCount
<1>7. ASSUME NEW d \in Conns, activityCounts'[d] > 0
      PROVE  activityNodes'[ServerOf[d]] > 0
  <2>1. CASE d = c
    BY <1>1, <1>3, <1>4, <1>7, <2>1, SMTT(30) DEF AccInv, LedgerAccounting
  <2>2. CASE d # c
    <3>1. ServerOf[d] # n
      BY <1>4, <1>7, <2>2 DEF WorkInv
    <3>2. activityNodes'[ServerOf[d]] = activityNodes[ServerOf[d]]
      BY <1>3, <1>4, <3>1, ZenonT(30)
    <3>3. activityCounts[d] > 0
      BY <1>4, <1>7, <2>2, Zenon
    <3>4. activityNodes[ServerOf[d]] > 0
      BY <3>3, Zenon DEF AccInv, LedgerAccounting
    <3>. QED
      BY <3>2, <3>4, Zenon
  <2>. QED
    BY <2>1, <2>2, Zenon
<1>8. LedgerAccounting'
  <2>1. ASSUME NEW m \in Nodes
        PROVE  activityNodes'[m] =
                 Cardinality(NodeActivities(m)') + (IF m \in uncertain' THEN 1 ELSE 0)
    <3>1. activityNodes[m] =
            Cardinality(NodeActivities(m)) + (IF m \in uncertain THEN 1 ELSE 0)
      BY Zenon DEF AccInv, LedgerAccounting
    <3>2. NodeActivities(m)' = NodeActivities(m) /\ Cardinality(NodeActivities(m)) \in Nat
      BY <1>2, <1>3, Zenon
    <3>. HIDE DEF n, carried, clear
    <3>3. CASE m # n
      BY <1>4, <3>1, <3>2, <3>3, Zenon
    <3>4. CASE m = n
      <4>1. clear => n \in uncertain
        BY Zenon DEF clear
      <4>2. carried => ~clear
        BY <1>1 DEF carried, clear
      <4>. QED
        BY <1>4, <1>5, <3>1, <3>2, <3>4, <4>1, <4>2
    <3>. QED
      BY <3>3, <3>4, Zenon
  <2>. QED
    BY <1>7, <2>1, Zenon DEF LedgerAccounting
<1>9. LedgerBounds'
  <2>1. Load <= MaxActivities /\ \A m \in Nodes : activityNodes[m] <= MaxNodeActivities
    BY Zenon DEF AccInv, LedgerBounds
  <2>2. carried => Load < MaxActivities /\ activityNodes[n] = 0
    BY <1>4, Zenon
  <2>3. Load \in Nat /\ Load' = Load + (IF carried THEN 1 ELSE IF clear THEN -1 ELSE 0)
    <3>. HIDE DEF n, carried, clear
    <3>. QED
      BY <1>2, <1>3, <1>6 DEF Load
  <2>. HIDE DEF n, carried, clear
  <2>4. Load' <= MaxActivities
    BY <2>1, <2>2, <2>3, CapacityAssumption, SMTT(30)
  <2>5. ASSUME NEW m \in Nodes
        PROVE  activityNodes'[m] <= MaxNodeActivities
    BY <1>3, <1>4, <2>1, <2>2, CapacityAssumption
  <2>. QED
    BY <2>4, <2>5, Zenon DEF LedgerBounds
<1>. QED
  BY <1>8, <1>9, Zenon DEF AccInv

\* Every step keeps the account of slots and counters.
LEMMA NextAccInv ==
  ASSUME TypeInv, WorkInv, AccInv, [Next]_vars
  PROVE  AccInv'
<1>. USE DEF connVars, ledgerVars
<1>u. ASSUME UNCHANGED ledgerVars
      PROVE  AccInv'
  BY <1>u, AccSame, Zenon
<1>1. CASE UNCHANGED vars
  BY <1>1, <1>u, Zenon DEF vars
<1>2. ASSUME NEW n \in Nodes, NEW op \in Ops, ReleaseMaintenance(n, op)
      PROVE  AccInv'
  BY <1>2, <1>u, Zenon DEF ReleaseMaintenance
<1>3. ASSUME NEW c \in Conns, ConnStep(c)
      PROVE  AccInv'
  <2>1. CASE Detach(c)
    BY <2>1, AccEnd, Zenon DEF Detach
  <2>2. CASE ConnectReturn(c)
    BY <2>2, <1>u, AccEnd, Zenon DEF ConnectReturn
  <2>3. CASE \/ ConnectStart(c) \/ Register(c) \/ RegisterRetire(c)
             \/ finishRetirement(c) \/ DeliverBegin(c) \/ DeliverEnd(c)
    BY <2>3, <1>u, Zenon
    DEF ConnectStart, Register, RegisterRetire, finishRetirement, DeliverBegin, DeliverEnd
  <2>. QED
    BY <1>3, <2>1, <2>2, <2>3, Zenon DEF ConnStep
<1>4. ASSUME NEW s \in Senders, SendStep(s)
      PROVE  AccInv'
  <2>. DEFINE k == <<sender[s].conn, sender[s].msg.id>>
  <2>1. CASE SendGuard(s)
    <3>1. \A h \in Keys : record'[h] # "absent" <=> record[h] # "absent"
      BY <2>1, Zenon DEF SendGuard, TypeInv
    <3>. QED
      BY <2>1, <3>1, AccSame, Zenon DEF SendGuard
  <2>2. CASE prepareActivitySend(s)
    <3>1. sender[s].msg.kind \in WithActivity => k \in Keys
      BY <2>2, BusySender, Zenon DEF prepareActivitySend, Keys
    <3>2. CASE sender[s].msg.kind \notin WithActivity
      BY <2>2, <3>2, <1>u, Zenon DEF prepareActivitySend
    <3>3. CASE sender[s].msg.kind \in WithActivity /\ record[k] = "absent"
      BY <2>2, <3>1, <3>3, AccAdd, Zenon DEF prepareActivitySend
    <3>4. CASE sender[s].msg.kind \in WithActivity /\ record[k] # "absent"
      <4>1. \A h \in Keys : record'[h] # "absent" <=> record[h] # "absent"
        BY <2>2, <3>4, Zenon DEF prepareActivitySend, TypeInv
      <4>. QED
        BY <2>2, <3>4, <4>1, AccSame, Zenon DEF prepareActivitySend
    <3>. QED
      BY <3>2, <3>3, <3>4, Zenon
  <2>3. ASSUME NEW ok \in BOOLEAN, SendEnd(s, ok)
        PROVE  AccInv'
    <3>1. sender[s].msg.kind \in WithActivity => k \in Keys
      BY <2>3, BusySender, Zenon DEF SendEnd, Keys
    <3>. QED
      BY <2>3, <3>1, <1>u, AccAbandon, ZenonT(30) DEF SendEnd
  <2>4. ASSUME NEW c \in Conns, NEW m \in Messages, SendStart(s, c, m)
        PROVE  AccInv'
    BY <2>4, <1>u, Zenon DEF SendStart
  <2>5. CASE SendLock(s) \/ SendRefused(s) \/ SendTimeout(s)
    BY <2>5, <1>u, Zenon DEF SendLock, SendRefused, SendTimeout
  <2>. QED
    BY <1>4, <2>1, <2>2, <2>3, <2>4, <2>5, Zenon DEF SendStep
<1>5. ASSUME NEW c \in Conns, LedgerStep(c)
      PROVE  AccInv'
  <2>0. \A i \in Ids : <<c, i>> \in Keys
    BY Zenon DEF Keys
  <2>1. ASSUME NEW i \in Ids, BeginActivity(c, i)
        PROVE  AccInv'
    BY <2>0, <2>1, AccAdd, Zenon DEF BeginActivity
  <2>2. ASSUME NEW i \in Ids, Abandon(<<c, i>>)
        PROVE  AccInv'
    BY <2>0, <2>2, AccAbandon, Zenon DEF Abandon
  <2>3. ASSUME NEW i \in Ids, CompleteActivity(c, i)
        PROVE  AccInv'
    BY <2>0, <2>3, AccRemove, Zenon DEF CompleteActivity
  <2>4. ASSUME NEW count \in 0 .. MaxNodeActivities, ObserveActivityCapabilities(c, count)
        PROVE  AccInv'
    BY <2>4, AccObserve, Zenon
  <2>5. ASSUME NEW op \in Ops, NEW manual \in BOOLEAN, ReserveBegin(c, op, manual)
        PROVE  AccInv'
    BY <2>5, <1>u, Zenon DEF ReserveBegin
  <2>6. CASE ReserveCommit(c)
    <3>1. streams[ServerOf[c]] = c /\ activityCounts[c] = 0
      BY <2>6, Zenon DEF ReserveCommit, activityIdleLocked, liveLocked
    <3>. QED
      BY <2>6, <3>1, <1>u, AccClear, Zenon DEF ReserveCommit
  <2>7. CASE ReserveRefused(c)
    BY <2>7, <1>u, Zenon DEF ReserveRefused
  <2>. QED
    BY <1>5, <2>1, <2>2, <2>3, <2>4, <2>5, <2>6, <2>7, Zenon DEF LedgerStep
<1>. QED
  BY <1>1, <1>2, <1>3, <1>4, <1>5, Zenon DEF Next
-----------------------------------------------------------------------------
(* The theorems.                                                            *)

\* The inductive invariant holds in every reachable state.
LEMMA Inductive == Spec => []IInv
<1>1. Init => IInv
  BY InitTypeInv, InitGInv, InitWorkInv, InitAccInv, Zenon DEF IInv
<1>2. IInv /\ [Next]_vars => IInv'
  BY NextTypeInv, NextGInv, NextWorkInv, NextAccInv, Zenon DEF IInv
<1>. QED
  BY <1>1, <1>2, PTL DEF Spec

\* Every variable keeps its type; in particular no path of the ledger takes a
\* server's counter below zero.
THEOREM TypeCorrect == Spec => []TypeOK
<1>1. IInv => TypeOK
  <2>. SUFFICES ASSUME IInv PROVE TypeOK
    BY Zenon
  <2>1. \A n \in Nodes : activityNodes[n] \in Nat
    BY Finite DEF IInv, AccInv, LedgerAccounting
  <2>. QED
    BY <2>1, Zenon DEF IInv, TypeInv, TypeOK
<1>. QED
  BY <1>1, Inductive, PTL

\* A send is made only on the installed generation, and a delivery in progress
\* belongs to the installed generation whose retirement has not begun.
THEOREM OneGenerationAtATime ==
  Spec => [](SendOnInstalledGeneration /\ DeliveryOnCurrentGeneration)
<1>1. IInv => SendOnInstalledGeneration /\ DeliveryOnCurrentGeneration
  BY Zenon DEF IInv, GInv
<1>. QED
  BY <1>1, Inductive, PTL

\* Neither a record nor a reported count outlives its generation, and a server
\* in maintenance has no recorded work and is sent none.
THEOREM LedgerSafety ==
  Spec => [](LedgerOfCurrentGeneration /\ MaintenanceExcludesWork)
<1>1. IInv => LedgerOfCurrentGeneration /\ MaintenanceExcludesWork
  BY WorkInvImplies, Zenon DEF IInv
<1>. QED
  BY <1>1, Inductive, PTL

\* The counters of the ledger are exact and both capacities are respected.
THEOREM LedgerArithmetic == Spec => [](LedgerAccounting /\ LedgerBounds)
<1>1. IInv => LedgerAccounting /\ LedgerBounds
  BY Zenon DEF IInv, AccInv
<1>. QED
  BY <1>1, Inductive, PTL

\* abandonActivity marks a dispatched record and does not remove it.
LEMMA AbandonKeepsWork ==
  ASSUME TypeInv, NEW k \in Keys, NEW h \in Keys, abandonActivity(k),
         record[h] \in {"dispatched", "abandoned"}
  PROVE  record'[h] # "absent"
<1>1. CASE record[k] = "absent" /\ UNCHANGED ledgerVars
  BY <1>1, Zenon DEF ledgerVars
<1>2. CASE record[k] = "admitted" /\ removeActivityLocked(k)
  BY <1>2, Zenon DEF removeActivityLocked, TypeInv
<1>3. CASE record[k] \in {"dispatched", "abandoned"}
  BY <1>3, Zenon DEF abandonActivity, TypeInv
<1>. QED
  BY <1>1, <1>2, <1>3, Zenon DEF abandonActivity

\* No step of the Hub removes a dispatched record but its completion, a report
\* of the agent, or the end of its generation.
LEMMA StepKeepsWork ==
  ASSUME TypeInv, Next, NEW d \in Conns, NEW j \in Ids
  PROVE  KeepsWork(d, j)
<1>. DEFINE h == <<d, j>>
<1>. USE DEF KeepsWork, connVars, ledgerVars
<1>0. h \in Keys
  BY Zenon DEF Keys
<1>1. SUFFICES ASSUME record[h] \in {"dispatched", "abandoned"}, record'[h] = "absent"
               PROVE  \/ CompleteActivity(d, j)
                      \/ ServerOf[d] \in uncertain'
                      \/ reserving[d] # None /\ reserving[d].manual /\ ReserveCommit(d)
  BY ZenonT(30)
<1>2. record' # record
  BY <1>1, Zenon
<1>e. ASSUME NEW c \in Conns, endActivitiesLocked(c)
      PROVE  ServerOf[d] \in uncertain'
  <2>1. d = c
    BY <1>0, <1>1, <1>e, Zenon DEF endActivitiesLocked
  <2>2. h \in {k \in Activities : k[1] = c} /\ record[h] # "admitted"
    BY <1>0, <1>1, <2>1, Zenon DEF Activities
  <2>. QED
    BY <1>e, <2>2, Zenon DEF endActivitiesLocked
<1>3. ASSUME NEW c \in Conns, ConnStep(c)
      PROVE  ServerOf[d] \in uncertain'
  <2>1. CASE Detach(c) \/ ConnectReturn(c)
    BY <1>2, <1>e, <2>1, Zenon DEF Detach, ConnectReturn
  <2>2. CASE \/ ConnectStart(c) \/ Register(c) \/ RegisterRetire(c)
             \/ finishRetirement(c) \/ DeliverBegin(c) \/ DeliverEnd(c)
    BY <1>2, <2>2, Zenon
    DEF ConnectStart, Register, RegisterRetire, finishRetirement, DeliverBegin, DeliverEnd
  <2>. QED
    BY <1>3, <2>1, <2>2, Zenon DEF ConnStep
<1>4. ASSUME NEW s \in Senders, SendStep(s)
      PROVE  FALSE
  <2>. DEFINE k == <<sender[s].conn, sender[s].msg.id>>
  <2>1. ~ SendGuard(s)
    BY <1>0, <1>1, Zenon DEF SendGuard, TypeInv
  <2>2. ~ prepareActivitySend(s)
    BY <1>0, <1>1, Zenon DEF prepareActivitySend, addActivityLocked, TypeInv
  <2>3. ASSUME NEW ok \in BOOLEAN, SendEnd(s, ok)
        PROVE  FALSE
    <3>1. sender[s].msg.kind \in WithActivity => k \in Keys
      BY <2>3, BusySender, Zenon DEF SendEnd, Keys
    <3>. QED
      BY <1>0, <1>1, <1>2, <2>3, <3>1, AbandonKeepsWork, Zenon DEF SendEnd
  <2>4. ASSUME NEW c \in Conns, NEW m \in Messages, SendStart(s, c, m)
        PROVE  FALSE
    BY <1>2, <2>4, Zenon DEF SendStart
  <2>5. ~ (SendLock(s) \/ SendRefused(s) \/ SendTimeout(s))
    BY <1>2, Zenon DEF SendLock, SendRefused, SendTimeout
  <2>. QED
    BY <1>4, <2>1, <2>2, <2>3, <2>4, <2>5, Zenon DEF SendStep
<1>5. ASSUME NEW c \in Conns, LedgerStep(c)
      PROVE  \/ CompleteActivity(d, j)
             \/ reserving[d] # None /\ reserving[d].manual /\ ReserveCommit(d)
  <2>0. \A i \in Ids : <<c, i>> \in Keys
    BY Zenon DEF Keys
  <2>1. ASSUME NEW i \in Ids, BeginActivity(c, i)
        PROVE  FALSE
    BY <1>0, <1>1, <2>0, <2>1, Zenon DEF BeginActivity, addActivityLocked, TypeInv
  <2>2. ASSUME NEW i \in Ids, Abandon(<<c, i>>)
        PROVE  FALSE
    BY <1>0, <1>1, <2>0, <2>2, AbandonKeepsWork, ZenonT(30) DEF Abandon
  <2>3. ASSUME NEW i \in Ids, CompleteActivity(c, i)
        PROVE  CompleteActivity(d, j)
    <3>1. h = <<c, i>>
      BY <1>0, <1>1, <2>0, <2>3, Zenon DEF CompleteActivity, removeActivityLocked, TypeInv
    <3>. QED
      BY <2>3, <3>1, Zenon
  <2>4. ASSUME NEW count \in 0 .. MaxNodeActivities, ObserveActivityCapabilities(c, count)
        PROVE  FALSE
    BY <1>2, <2>4, Zenon DEF ObserveActivityCapabilities
  <2>5. ASSUME NEW op \in Ops, NEW manual \in BOOLEAN, ReserveBegin(c, op, manual)
        PROVE  FALSE
    BY <1>2, <2>5, Zenon DEF ReserveBegin
  <2>6. CASE ReserveCommit(c)
    <3>1. reserving[c] # None /\ reserving[c].manual /\ clearAbandonedActivitiesLocked(c)
      BY <1>2, <2>6, Zenon DEF ReserveCommit
    <3>2. d = c
      BY <1>0, <1>1, <3>1, Zenon DEF clearAbandonedActivitiesLocked, Activities
    <3>. QED
      BY <2>6, <3>1, <3>2, Zenon
  <2>7. ~ ReserveRefused(c)
    BY <1>2, Zenon DEF ReserveRefused
  <2>. QED
    BY <1>5, <2>1, <2>2, <2>3, <2>4, <2>5, <2>6, <2>7, Zenon DEF LedgerStep
<1>6. ASSUME NEW n \in Nodes, NEW op \in Ops, ReleaseMaintenance(n, op)
      PROVE  FALSE
  BY <1>2, <1>6, Zenon DEF ReleaseMaintenance
<1>. QED
  BY <1>3, <1>4, <1>5, <1>6, Zenon DEF Next

\* Work that reached an agent leaves the ledger only by completion, into the
\* uncertainty slot of its server, or by an administrator's idle assertion.
THEOREM WorkIsNeverForgotten == Spec => DispatchedWorkNeverForgotten
<1>1. TypeInv /\ [Next]_vars => [\A c \in Conns, i \in Ids : KeepsWork(c, i)]_vars
  BY StepKeepsWork, Zenon
<1>2. IInv => TypeInv
  BY Zenon DEF IInv
<1>. QED
  BY <1>1, <1>2, Inductive, PTL DEF Spec, DispatchedWorkNeverForgotten
=============================================================================
