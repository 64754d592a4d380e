---------------------- MODULE AgentQuiescenceMessages -----------------------
(***************************************************************************)
(* The lower layers of the invariant of AgentQuiescence: the types, the    *)
(* order in which an agent's streams are opened, and the messages: every   *)
(* request reaches the agent at most once, and only a send creates work.   *)
(***************************************************************************)
EXTENDS AgentQuiescenceInvariants, TLAPS

USE ServerOfAssumption, NoneAssumption

-----------------------------------------------------------------------------
(* The registry and the ledger as before.                                  *)

\* The two forms of a report are told apart by their type.
LEMMA ReportForms ==
  /\ \A i \in Ids : Done(i) \in Reports /\ Done(i).type = "done" /\ Done(i).id = i
  /\ \A j \in Nat : Count(j) \in Reports /\ Count(j).type = "count" /\ Count(j).count = j
  /\ \A i : Done(i).type = "done" /\ Done(i).id = i
  /\ \A m \in Reports : /\ m.type \in {"done", "count"}
                        /\ m.type = "done" => m.id \in Ids /\ m = Done(m.id)
                        /\ m.type = "count" => m.count \in Nat
BY DEF Done, Count, Reports

\* A key is a generation and an id.
LEMMA KeyParts == \A k \in Keys : k[1] \in Conns /\ k[2] \in Ids /\ k = <<k[1], k[2]>> /\ ServerOf[k[1]] \in Nodes
BY DEF Keys

\* The Hub's own steps are steps of ConnManager.
LEMMA Alone == ASSUME HubAlone PROVE Next
<1>1. \A c \in Conns :
         Register(c) \/ RegisterRetire(c) \/ Detach(c) \/ finishRetirement(c) \/ ConnectReturn(c) => ConnStep(c)
  BY Zenon DEF ConnStep
<1>2. \A c \in Conns : ReserveRefused(c) => LedgerStep(c) BY Zenon DEF LedgerStep
<1>3. \A k \in Keys : BeginActivity(k[1], k[2]) \/ Abandon(k) => k[1] \in Conns /\ LedgerStep(k[1])
  BY KeyParts, Zenon DEF LedgerStep
<1>4. \A s \in Senders : SendLock(s) \/ SendRefused(s) \/ SendGuard(s)
         \/ (\E ok \in BOOLEAN : SendEnd(s, ok)) \/ SendTimeout(s) => SendStep(s)
  BY Zenon DEF SendStep
<1>. QED BY <1>1, <1>2, <1>3, <1>4, Zenon DEF HubAlone, Next

\* Routing a message completes an activity, ignores the response, or observes a
\* count within the capacity of the server.
LEMMA Routed ==
  ASSUME IInv, QTypes, NEW c \in Conns, routeAgentMessage(c)
  PROVE  LET m == Head(fromAgent[c]) IN
         /\ m \in Reports /\ fromAgent[c] # <<>> /\ fromAgent[c] \in Seq(Reports)
         /\ \/ /\ m.type = "done" /\ m.id \in Ids /\ m = Done(m.id)
               /\ CompleteActivity(c, m.id) \/ UNCHANGED vars
            \/ m.type = "count" /\ m.count \in 0..MaxNodeActivities /\ ObserveActivityCapabilities(c, m.count)
<1>1. fromAgent[c] \in Seq(Reports) BY Zenon DEF QTypes
<1>2. fromAgent[c] # <<>> BY Zenon DEF routeAgentMessage
<1>3. Head(fromAgent[c]) \in Reports BY <1>1, <1>2
<1>. DEFINE m == Head(fromAgent[c])
<1>4. m.type = "done" => CompleteActivity(c, m.id) \/ UNCHANGED vars
  BY Zenon DEF routeAgentMessage
<1>5. m.type # "done" => ObserveActivityCapabilities(c, m.count) BY Zenon DEF routeAgentMessage
<1>6. m.type # "done" => m.type = "count" /\ m.count \in Nat BY <1>3, ReportForms, Zenon
<1>7. m.type # "done" => m.count <= MaxNodeActivities
  BY <1>5, Zenon DEF ObserveActivityCapabilities
<1>8. m.type # "done" => m.count \in 0..MaxNodeActivities BY <1>6, <1>7, CapacityAssumption
<1>9. m.type = "done" => m.id \in Ids /\ m = Done(m.id) BY <1>3, ReportForms, Zenon
<1>. HIDE DEF m
<1>. QED BY <1>1, <1>2, <1>3, <1>4, <1>5, <1>6, <1>8, <1>9, Zenon DEF m

\* Every step but a crash of the Hub is a step of ConnManager or leaves its
\* variables alone.
LEMMA HubMoves == ASSUME IInv, QTypes, QNext PROVE [Next]_vars \/ HubCrash
<1>1. ASSUME NEW c \in Conns, AgentOpen(c) PROVE Next
  BY <1>1, Zenon DEF AgentOpen, Next, ConnStep
<1>2. ASSUME NEW n \in Nodes, AgentStep(n) PROVE UNCHANGED vars
  BY <1>2, Zenon DEF AgentStep, AgentClose, AgentDispatch, AgentReject, AgentCrash
<1>3. ASSUME NEW k \in Keys, WorkerStep(k) PROVE UNCHANGED vars
  BY <1>3, Zenon DEF WorkerStep, WorkerRespond, WorkerRelease
<1>4. ASSUME NEW s \in Senders, NEW k \in Keys, HubSendStart(s, k) PROVE Next
  <2>1. [kind |-> "claimed", id |-> k[2]] \in Messages
    BY KeyParts, ClaimedAssumption, Zenon DEF Messages, WithActivity, Claiming
  <2>2. SendStart(s, k[1], [kind |-> "claimed", id |-> k[2]]) BY <1>4, Zenon DEF HubSendStart
  <2>3. SendStep(s) BY <2>1, <2>2, KeyParts, Zenon DEF SendStep
  <2>. QED BY <2>3, Zenon DEF Next
<1>5. ASSUME NEW s \in Senders, HubSend(s) PROVE Next
  BY <1>5, Zenon DEF HubSend, SendStep, Next
<1>6. ASSUME NEW c \in Conns, routeAgentMessage(c) PROVE [Next]_vars
  <2>. DEFINE m == Head(fromAgent[c])
  <2>1. \/ m.id \in Ids /\ CompleteActivity(c, m.id)
        \/ UNCHANGED vars
        \/ m.count \in 0..MaxNodeActivities /\ ObserveActivityCapabilities(c, m.count)
    BY <1>6, Routed, Zenon
  <2>2. m.id \in Ids /\ CompleteActivity(c, m.id) => LedgerStep(c) BY Zenon DEF LedgerStep
  <2>3. m.count \in 0..MaxNodeActivities /\ ObserveActivityCapabilities(c, m.count) => LedgerStep(c)
    <3>. HIDE DEF m
    <3>. QED BY Zenon DEF LedgerStep
  <2>. QED BY <2>1, <2>2, <2>3, Zenon DEF Next
<1>7. ASSUME NEW c \in Conns, NEW op \in Ops, NEW manual \in BOOLEAN, StartUpdate(c, op, manual)
      PROVE  Next
  BY <1>7, Zenon DEF StartUpdate, LedgerStep, Next
<1>8. ASSUME NEW c \in Conns, CommitUpdate(c) PROVE Next
  BY <1>8, Zenon DEF CommitUpdate, LedgerStep, Next
<1>9. ASSUME NEW n \in Nodes, NEW op \in Ops, EndUpdate(n, op) PROVE Next
  BY <1>9, Zenon DEF EndUpdate, Next
<1>. QED BY <1>1, <1>2, <1>3, <1>4, <1>5, <1>6, <1>7, <1>8, <1>9, Alone, Zenon DEF QNext, HubStep

-----------------------------------------------------------------------------
(* The types.                                                              *)

\* The agent's steps keep its types.
LEMMA AgentTypes ==
  ASSUME Counting, QTypes, UNCHANGED late,
         (\E n \in Nodes : AgentStep(n)) \/ (\E k \in Keys : WorkerStep(k))
  PROVE  QTypes'
<1>0. /\ session \in [Nodes -> Conns \cup {None}]
      /\ toAgent \in [Conns -> Seq(Ids)] /\ fromAgent \in [Conns -> Seq(Reports)]
      /\ worker \in [Keys -> {"none", "running", "responded"}] /\ crashes \in Nat
  BY Zenon DEF QTypes
<1>1. ASSUME NEW n \in Nodes, AgentClose(n) PROVE QTypes'
  <2>1. session[n] \in Conns /\ toAgent' \in [Conns -> Seq(Ids)] BY <1>0, <1>1 DEF AgentClose
  <2>. QED BY <1>0, <1>1, <2>1, Zenon DEF AgentClose, QTypes
<1>2. ASSUME NEW n \in Nodes, AgentDispatch(n) PROVE QTypes'
  <2>. DEFINE c == session[n]
              k == <<c, Head(toAgent[c])>>
  <2>1. c \in Conns /\ toAgent[c] \in Seq(Ids) /\ toAgent[c] # <<>>
    BY <1>0, <1>2, Zenon DEF AgentDispatch
  <2>2. Tail(toAgent[c]) \in Seq(Ids) BY <2>1
  <2>3. activities(n) + 1 \in Nat BY DEF Counting
  <2>4. Append(fromAgent[c], Count(activities(n) + 1)) \in Seq(Reports)
    BY <1>0, <2>1, <2>3, ReportForms
  <2>5. toAgent' \in [Conns -> Seq(Ids)] BY <1>0, <1>2, <2>1, <2>2, Zenon DEF AgentDispatch
  <2>6. fromAgent' \in [Conns -> Seq(Reports)] BY <1>0, <1>2, <2>4, Zenon DEF AgentDispatch
  <2>7. worker' \in [Keys -> {"none", "running", "responded"}]
    BY <1>0, <1>2, ZenonT(30) DEF AgentDispatch
  <2>. QED BY <1>2, <2>5, <2>6, <2>7, Zenon DEF AgentDispatch, QTypes
<1>3. ASSUME NEW n \in Nodes, AgentReject(n) PROVE QTypes'
  <2>. DEFINE c == session[n]
  <2>1. c \in Conns /\ toAgent[c] \in Seq(Ids) /\ toAgent[c] # <<>>
    BY <1>0, <1>3, Zenon DEF AgentReject
  <2>2. Tail(toAgent[c]) \in Seq(Ids) /\ Head(toAgent[c]) \in Ids BY <2>1
  <2>4. Append(fromAgent[c], Done(Head(toAgent[c]))) \in Seq(Reports)
    BY <1>0, <2>1, <2>2, ReportForms
  <2>5. toAgent' \in [Conns -> Seq(Ids)] BY <1>0, <1>3, <2>1, <2>2, Zenon DEF AgentReject
  <2>6. fromAgent' \in [Conns -> Seq(Reports)] BY <1>0, <1>3, <2>4, Zenon DEF AgentReject
  <2>. QED BY <1>3, <2>5, <2>6, Zenon DEF AgentReject, QTypes
<1>4. ASSUME NEW n \in Nodes, AgentCrash(n) PROVE QTypes'
  <2>1. toAgent' \in [Conns -> Seq(Ids)] BY <1>0, <1>4 DEF AgentCrash
  <2>2. worker' \in [Keys -> {"none", "running", "responded"}] BY <1>0, <1>4, Zenon DEF AgentCrash
  <2>3. session' \in [Nodes -> Conns \cup {None}] /\ crashes' \in Nat BY <1>0, <1>4 DEF AgentCrash
  <2>. QED BY <1>4, <2>1, <2>2, <2>3, Zenon DEF AgentCrash, QTypes
<1>5. ASSUME NEW k \in Keys, WorkerRespond(k) PROVE QTypes'
  <2>1. Append(fromAgent[k[1]], Done(k[2])) \in Seq(Reports) BY <1>0, KeyParts, ReportForms
  <2>2. fromAgent' \in [Conns -> Seq(Reports)] BY <1>0, <1>5, <2>1, Zenon DEF WorkerRespond
  <2>3. worker' \in [Keys -> {"none", "running", "responded"}]
    BY <1>0, <1>5, Zenon DEF WorkerRespond
  <2>. QED BY <1>5, <2>2, <2>3, Zenon DEF WorkerRespond, QTypes
<1>6. ASSUME NEW k \in Keys, WorkerRelease(k) PROVE QTypes'
  <2>. DEFINE n == ServerOf[k[1]]
              s == session[n]
  <2>1. n \in Nodes /\ k \in Running(n) BY <1>6, KeyParts, Zenon DEF WorkerRelease, Running
  <2>2. activities(n) - 1 \in Nat BY <2>1 DEF Counting
  <2>3. s # None => Append(fromAgent[s], Count(activities(n) - 1)) \in Seq(Reports)
    BY <1>0, <2>1, <2>2, ReportForms, SMTT(30)
  <2>4. fromAgent' \in [Conns -> Seq(Reports)] BY <1>0, <1>6, <2>3, ZenonT(30) DEF WorkerRelease
  <2>5. worker' \in [Keys -> {"none", "running", "responded"}]
    BY <1>0, <1>6, Zenon DEF WorkerRelease
  <2>. QED BY <1>6, <2>4, <2>5, Zenon DEF WorkerRelease, QTypes
<1>. QED BY <1>1, <1>2, <1>3, <1>4, <1>5, <1>6, Zenon DEF AgentStep, WorkerStep

\* Opening a stream keeps the types.
LEMMA OpenTypes == ASSUME Counting, QTypes, UNCHANGED late, NEW c \in Conns, AgentOpen(c) PROVE QTypes'
<1>. DEFINE n == ServerOf[c]
<1>0. /\ n \in Nodes /\ dialed \in [Nodes -> Seq(Conns)] /\ fromAgent \in [Conns -> Seq(Reports)]
      /\ session \in [Nodes -> Conns \cup {None}]
  BY Zenon DEF QTypes
<1>1. Count(activities(n)) \in Reports BY <1>0, ReportForms, Zenon DEF Counting
<1>2. <<Count(activities(n))>> \in Seq(Reports) BY <1>1
<1>3. fromAgent' \in [Conns -> Seq(Reports)] BY <1>0, <1>2, Zenon DEF AgentOpen
<1>4. Append(dialed[n], c) \in Seq(Conns) BY <1>0
<1>5. dialed' \in [Nodes -> Seq(Conns)] BY <1>0, <1>4, Zenon DEF AgentOpen
<1>6. session' \in [Nodes -> Conns \cup {None}] BY <1>0, Zenon DEF AgentOpen
<1>. QED BY <1>3, <1>5, <1>6, Zenon DEF AgentOpen, QTypes

\* A busy sender carries a claimed request of one key.
LEMMA SenderKey ==
  ASSUME IInv, Once, NEW s \in Senders, sender[s].pc # "idle"
  PROVE  /\ sender[s].conn \in Conns /\ sender[s].msg.id \in Ids /\ Key(s) \in Keys
         /\ Key(s)[1] = sender[s].conn /\ Key(s)[2] = sender[s].msg.id /\ sender[s].msg.kind = "claimed"
<1>1. sender[s].msg.kind = "claimed"
  BY Zenon
  DEF Once, FreshUnsent, SendersClaim, WaitingUnsent, OneSender, WorkInstalled, QueuedInSession,
      QueuesDistinct
<1>2. sender[s].conn \in Conns /\ sender[s].msg.id \in Ids
  BY <1>1 DEF IInv, TypeInv, SenderStates, IdleSender, Messages, WithActivity, Claiming
<1>. QED BY <1>1, <1>2, Zenon DEF Key, Keys

\* The Hub's steps keep the agent's types.
LEMMA HubTypes ==
  ASSUME IInv, QTypes, Once, ((HubStep \/ HubCrash) /\ UNCHANGED late) \/ HubAlone
  PROVE  QTypes'
<1>0. /\ fromAgent \in [Conns -> Seq(Reports)] /\ toAgent \in [Conns -> Seq(Ids)]
      /\ observed \in SUBSET Nodes /\ fresh \in SUBSET Keys /\ crashes \in Nat
  BY Zenon DEF QTypes
<1>1. ASSUME NEW s \in Senders, NEW k \in Keys, HubSendStart(s, k), UNCHANGED late PROVE QTypes'
  BY <1>1, Zenon DEF HubSendStart, QTypes, agentVars
<1>2. ASSUME NEW s \in Senders, HubSend(s), UNCHANGED late PROVE QTypes'
  <2>. DEFINE c == sender[s].conn
  <2>1. sender[s].pc # "idle" BY <1>2, Zenon DEF HubSend, prepareActivitySend
  <2>2. c \in Conns /\ sender[s].msg.id \in Ids BY <2>1, SenderKey, Zenon
  <2>3. Append(toAgent[c], sender[s].msg.id) \in Seq(Ids) BY <1>0, <2>2, SMTT(30)
  <2>4. toAgent' \in [Conns -> Seq(Ids)] BY <1>0, <1>2, <2>3, Zenon DEF HubSend
  <2>. QED BY <1>2, <2>4, Zenon DEF HubSend, QTypes
<1>3. ASSUME NEW c \in Conns, routeAgentMessage(c), UNCHANGED late PROVE QTypes'
  <2>1. fromAgent[c] # <<>> BY <1>3, Zenon DEF routeAgentMessage
  <2>2. Tail(fromAgent[c]) \in Seq(Reports) BY <1>0, <2>1, SMTT(30)
  <2>3. fromAgent' \in [Conns -> Seq(Reports)] BY <1>0, <1>3, <2>2, Zenon DEF routeAgentMessage
  <2>4. observed' \in SUBSET Nodes BY <1>0, <1>3 DEF routeAgentMessage
  <2>. QED BY <1>3, <2>3, <2>4, Zenon DEF routeAgentMessage, QTypes
<1>4. ASSUME NEW c \in Conns, NEW op \in Ops, NEW manual \in BOOLEAN, StartUpdate(c, op, manual),
             UNCHANGED late
      PROVE  QTypes'
  BY <1>4, Zenon DEF StartUpdate, QTypes, agentVars
<1>5. ASSUME NEW c \in Conns, CommitUpdate(c), UNCHANGED late PROVE QTypes'
  BY <1>5, Zenon DEF CommitUpdate, QTypes, agentVars
<1>6. ASSUME NEW n \in Nodes, NEW op \in Ops, EndUpdate(n, op), UNCHANGED late PROVE QTypes'
  BY <1>6, Zenon DEF EndUpdate, QTypes, agentVars
<1>7. CASE HubCrash /\ UNCHANGED late BY <1>0, <1>7 DEF HubCrash, QTypes
<1>8. CASE HubAlone
  <2>1. UNCHANGED <<agentVars, fresh, observed, crashes>> /\ late' = late \cup Overtaking
    BY <1>8, Zenon DEF HubAlone
  <2>2. late' \in SUBSET Nodes BY <2>1, Zenon DEF QTypes, Overtaking
  <2>. QED BY <2>1, <2>2, Zenon DEF QTypes, agentVars
<1>. QED BY <1>1, <1>2, <1>3, <1>4, <1>5, <1>6, <1>7, <1>8, Zenon DEF HubStep

\* Every step keeps the types.
LEMMA TypesStep == ASSUME Counting, IInv, QTypes, Once, QNext PROVE QTypes'
BY AgentTypes, OpenTypes, HubTypes, Zenon DEF QNext

-----------------------------------------------------------------------------
(* The order of an agent's streams.                                        *)

\* A generation is overtaken only by an installation on its own server.
LEMMA OvertakenSame ==
  ASSUME IInv, QTypes, InOrder, dialed' = dialed, NEW c \in Conns,
         \A d \in Conns : ServerOf[d] = ServerOf[c] => (handler'[d] # "registering" => handler[d] # "registering")
  PROVE  ~Overtaken(c) => ~Overtaken(c)'
<1>. DEFINE opened == dialed[ServerOf[c]]
<1>1. opened \in Seq(Conns) /\ ServerOf[c] \in Nodes BY Zenon DEF QTypes
<1>2. \A j \in DOMAIN opened : opened[j] \in Conns /\ ServerOf[opened[j]] = ServerOf[c]
  BY <1>1 DEF InOrder, DialedOnce
<1>. QED BY <1>1, <1>2, Zenon DEF Overtaken

\* A late server remains one.
LEMMA LateGrows == ASSUME QNext PROVE late \subseteq late'
BY Zenon DEF QNext, HubAlone

\* A step that installs nothing and opens nothing keeps the order.
LEMMA InOrderKept ==
  ASSUME IInv, QTypes, InOrder, dialed' = dialed, late \subseteq late',
         \A n \in Nodes : session'[n] \in {session[n], None} /\ streams'[n] \in {streams[n], None},
         \A c \in Conns : /\ handler'[c] = "idle" <=> handler[c] = "idle"
                          /\ handler'[c] = "registering" <=> handler[c] = "registering"
                          /\ Installed(c) => Installed(c)'
  PROVE  InOrder'
<1>1. \A n \in Nodes : \A i \in 1..Len(dialed[n]) : dialed[n][i] \in Conns BY DEF QTypes
<1>2. \A c \in Conns : ~Overtaken(c) => ~Overtaken(c)' BY OvertakenSame, Zenon
<1>3. \A c \in Conns : streams'[ServerOf[c]] = c => streams[ServerOf[c]] = c BY Zenon
<1>4. \A c \in Conns : streams'[ServerOf[c]] = c => Installed(c)' /\ (Overtaken(c)' => ServerOf[c] \in late')
  BY <1>2, <1>3, Zenon DEF InOrder, NoneOvertaken
<1>. QED
  BY <1>1, <1>4, SMTT(30) DEF InOrder, DialedOnce, HandlersDialed, SessionIsLast, NoneOvertaken

\* A new stream is the last one its server dialed and overtakes nothing yet.
LEMMA OpenOrder ==
  ASSUME IInv, QTypes, InOrder, late \subseteq late', NEW c \in Conns, AgentOpen(c)
  PROVE  InOrder'
<1>. DEFINE n == ServerOf[c]
            new == Append(dialed[n], c)
<1>0. n \in Nodes /\ dialed[n] \in Seq(Conns) /\ dialed \in [Nodes -> Seq(Conns)]
  BY Zenon DEF QTypes
<1>1. /\ handler[c] = "idle" /\ handler' = [handler EXCEPT ![c] = "registering"] /\ streams' = streams
      /\ dialed' = [dialed EXCEPT ![n] = new] /\ session' = [session EXCEPT ![n] = c]
      /\ handler \in [Conns -> {"idle", "registering", "connected", "returned"}]
  BY Zenon DEF AgentOpen, ConnectStart, IInv, TypeInv
<1>2. /\ Len(new) = Len(dialed[n]) + 1 /\ new[Len(new)] = c /\ Len(dialed[n]) \in Nat
      /\ \A i \in 1..Len(dialed[n]) : new[i] = dialed[n][i]
  BY <1>0, SMTT(30)
<1>3. \A i \in 1..Len(dialed[n]) : dialed[n][i] \in Conns /\ dialed[n][i] # c
  BY <1>0, <1>1 DEF InOrder, DialedOnce
<1>4. \A i \in 1..Len(new) : (i \in 1..Len(dialed[n]) /\ new[i] = dialed[n][i]) \/ (i = Len(new) /\ new[i] = c)
  BY <1>2
<1>5. dialed'[n] = new /\ \A m \in Nodes : m # n => dialed'[m] = dialed[m] BY <1>0, <1>1, Zenon
<1>6. \A m \in Nodes : \A i \in 1..Len(dialed[m]) : dialed[m][i] \in Conns BY SMTT(30) DEF QTypes
<1>. HIDE DEF new
<1>7. ASSUME NEW m \in Nodes, NEW i \in 1..Len(dialed'[m])
      PROVE  /\ ServerOf[dialed'[m][i]] = m /\ handler'[dialed'[m][i]] # "idle"
             /\ \A j \in 1..Len(dialed'[m]) : dialed'[m][i] = dialed'[m][j] => i = j
  <2>1. CASE m = n
    <3>0. \A j \in 1..Len(dialed[n]) : /\ ServerOf[dialed[n][j]] = n /\ handler[dialed[n][j]] # "idle"
                                       /\ \A h \in 1..Len(dialed[n]) : dialed[n][j] = dialed[n][h] => j = h
      BY <1>0, Zenon DEF InOrder, DialedOnce, HandlersDialed, SessionIsLast, NoneOvertaken
    <3>1. i \in 1..Len(new) /\ dialed'[m] = new BY <1>5, <1>7, <2>1, Zenon
    <3>2. CASE i = Len(new) /\ new[i] = c
      <4>1. handler'[c] = "registering" /\ ServerOf[c] = n BY <1>1, Zenon
      <4>2. \A j \in 1..Len(new) : new[j] = c => j = i BY <1>3, <1>4, <3>2, Zenon
      <4>. QED BY <2>1, <3>1, <3>2, <4>1, <4>2, Zenon
    <3>3. CASE i \in 1..Len(dialed[n]) /\ new[i] = dialed[n][i]
      <4>1. handler'[dialed[n][i]] = handler[dialed[n][i]] BY <1>1, <1>3, <3>3, Zenon
      <4>2. \A j \in 1..Len(new) : new[i] = new[j] => i = j BY <1>3, <1>4, <3>0, <3>3, ZenonT(30)
      <4>. QED BY <2>1, <3>0, <3>1, <3>3, <4>1, <4>2, SMTT(30)
    <3>. QED BY <1>4, <3>1, <3>2, <3>3, Zenon
  <2>2. CASE m # n BY <1>1, <2>2 DEF InOrder, DialedOnce
  <2>. QED BY <2>1, <2>2, Zenon
<1>8. ASSUME NEW d \in Conns, handler'[d] # "idle"
      PROVE  \E i \in 1..Len(dialed'[ServerOf[d]]) : dialed'[ServerOf[d]][i] = d
  <2>1. CASE d = c BY <1>2, <1>5, <2>1, SMTT(30)
  <2>2. CASE d # c
    <3>1. PICK i \in 1..Len(dialed[ServerOf[d]]) : dialed[ServerOf[d]][i] = d
      BY <1>1, <1>8, <2>2, Zenon DEF InOrder, HandlersDialed
    <3>2. CASE ServerOf[d] = n
      <4>1. i \in 1..Len(new) /\ new[i] = d BY <1>2, <3>1, <3>2, SMTT(30)
      <4>. QED BY <1>5, <3>2, <4>1, Zenon
    <3>3. CASE ServerOf[d] # n BY <1>5, <3>1, <3>3, Zenon
    <3>. QED BY <3>2, <3>3, Zenon
  <2>. QED BY <2>1, <2>2, Zenon
<1>9. ASSUME NEW m \in Nodes, session'[m] # None
      PROVE  Len(dialed'[m]) > 0 /\ session'[m] = dialed'[m][Len(dialed'[m])]
  <2>0. session \in [Nodes -> Conns \cup {None}] BY Zenon DEF QTypes
  <2>1. CASE m = n BY <1>0, <1>1, <1>2, <1>5, <2>0, <2>1, SMTT(30)
  <2>2. CASE m # n BY <1>1, <1>9, <2>2 DEF InOrder, SessionIsLast
  <2>. QED BY <2>1, <2>2, Zenon
<1>10. ASSUME NEW d \in Conns, streams'[ServerOf[d]] = d, ServerOf[d] \notin late' PROVE ~Overtaken(d)'
  <2>1. ~Overtaken(d) /\ d # c
    BY <1>1, <1>10, Zenon DEF InOrder, NoneOvertaken, Installed
  <2>3. \A e \in Conns : handler'[e] # "registering" => handler[e] # "registering" \/ e = c
    BY <1>1, Zenon
  <2>4. CASE ServerOf[d] # n
    <3>1. dialed'[ServerOf[d]] = dialed[ServerOf[d]] BY <1>5, <2>4, Zenon
    <3>2. \A i \in DOMAIN dialed[ServerOf[d]] : dialed[ServerOf[d]][i] \in Conns /\ dialed[ServerOf[d]][i] # c
      BY <1>6, <2>4 DEF InOrder, DialedOnce
    <3>. QED BY <2>1, <2>3, <3>1, <3>2, Zenon DEF Overtaken
  <2>5. CASE ServerOf[d] = n
    <3>1. DOMAIN new = 1..Len(new) /\ DOMAIN dialed[n] = 1..Len(dialed[n]) BY <1>0, SMTT(30) DEF new
    <3>2. ASSUME NEW i \in DOMAIN new, NEW j \in DOMAIN new, i < j, new[i] = d, handler'[new[j]] # "registering"
          PROVE  FALSE
      <4>1. handler'[c] = "registering" BY <1>1, Zenon
      <4>2. j \in DOMAIN dialed[n] /\ new[j] = dialed[n][j] BY <1>4, <3>1, <3>2, <4>1, ZenonT(30)
      <4>3. i \in DOMAIN dialed[n] /\ new[i] = dialed[n][i] BY <1>4, <3>1, <3>2, <2>1, Zenon
      <4>4. handler[dialed[n][j]] # "registering" BY <1>3, <2>3, <3>1, <3>2, <4>2, Zenon
      <4>. QED BY <2>1, <2>5, <3>2, <4>2, <4>3, <4>4, Zenon DEF Overtaken
    <3>. QED BY <1>5, <2>5, <3>2, Zenon DEF Overtaken
  <2>. QED BY <2>4, <2>5, Zenon
<1>11. \A d \in Conns : streams'[ServerOf[d]] = d => Installed(d)'
  BY <1>1, Zenon DEF InOrder, NoneOvertaken, Installed
<1>. QED BY <1>7, <1>8, <1>9, <1>10, <1>11, Zenon
  DEF InOrder, DialedOnce, HandlersDialed, SessionIsLast, NoneOvertaken

\* Installing a generation keeps the order, if its server counts as late when the
\* generation was overtaken.
LEMMA InstallOrder ==
  ASSUME IInv, QTypes, InOrder, NEW c \in Conns, handler[c] = "registering", Install(c),
         Overtaken(c) => ServerOf[c] \in late', late \subseteq late', UNCHANGED <<dialed, session>>
  PROVE  InOrder'
<1>1. /\ handler' = [handler EXCEPT ![c] = "connected"] /\ streams' = [streams EXCEPT ![ServerOf[c]] = c]
      /\ handler \in [Conns -> {"idle", "registering", "connected", "returned"}]
      /\ streams \in [Nodes -> Conns \cup {None}] /\ ServerOf[c] \in Nodes
  BY Zenon DEF Install, IInv, TypeInv
<1>2. \A n \in Nodes : \A i \in 1..Len(dialed[n]) : dialed[n][i] \in Conns BY DEF QTypes
<1>3. ASSUME NEW d \in Conns, streams'[ServerOf[d]] = d
      PROVE  Installed(d)' /\ (Overtaken(d)' => ServerOf[d] \in late')
  <2>1. CASE d = c
    <3>1. Installed(c)' BY <1>1, Zenon DEF Installed
    <3>2. dialed[ServerOf[c]] \in Seq(Conns) BY <1>1, Zenon DEF QTypes
    <3>3. \A i, j \in DOMAIN dialed[ServerOf[c]] : i < j /\ dialed[ServerOf[c]][i] = c => dialed[ServerOf[c]][j] # c
      <4>1. \A i, j \in 1..Len(dialed[ServerOf[c]]) :
              dialed[ServerOf[c]][i] = dialed[ServerOf[c]][j] => i = j
        BY <1>1, ZenonT(30) DEF InOrder, DialedOnce, HandlersDialed, SessionIsLast, NoneOvertaken
      <4>. QED BY <3>2, <4>1, SMTT(30)
    <3>4. \A j \in DOMAIN dialed[ServerOf[c]] : dialed[ServerOf[c]][j] # c =>
            handler'[dialed[ServerOf[c]][j]] = handler[dialed[ServerOf[c]][j]]
      BY <1>1, <1>2, <3>2
    <3>5. Overtaken(c)' => Overtaken(c) BY <3>3, <3>4 DEF Overtaken
    <3>. QED BY <2>1, <3>1, <3>5, Zenon
  <2>2. CASE d # c
    <3>1. ServerOf[d] # ServerOf[c] /\ streams[ServerOf[d]] = d BY <1>1, <1>3, <2>2, Zenon
    <3>2. Installed(d) /\ (Overtaken(d) => ServerOf[d] \in late) BY <3>1, Zenon
      DEF InOrder, DialedOnce, HandlersDialed, SessionIsLast, NoneOvertaken
    <3>3. \A e \in Conns : ServerOf[e] = ServerOf[d] => handler'[e] = handler[e]
      BY <1>1, <3>1, Zenon
    <3>4. Overtaken(d)' => Overtaken(d) BY <3>3, OvertakenSame, Zenon
    <3>. QED BY <1>1, <2>2, <3>2, <3>4, Zenon DEF Installed
  <2>. QED BY <2>1, <2>2, Zenon
<1>4. \A d \in Conns : handler'[d] = "idle" <=> handler[d] = "idle" BY <1>1, Zenon
<1>5. dialed' = dialed /\ session' = session BY Zenon
<1>6. \A n \in Nodes : \A i \in 1..Len(dialed'[n]) :
        /\ ServerOf[dialed'[n][i]] = n /\ handler'[dialed'[n][i]] # "idle"
        /\ \A j \in 1..Len(dialed'[n]) : dialed'[n][i] = dialed'[n][j] => i = j
  <2>1. \A n \in Nodes : \A i \in 1..Len(dialed[n]) :
          /\ ServerOf[dialed[n][i]] = n /\ handler[dialed[n][i]] # "idle"
          /\ \A j \in 1..Len(dialed[n]) : dialed[n][i] = dialed[n][j] => i = j
    BY ZenonT(30) DEF InOrder, DialedOnce, HandlersDialed, SessionIsLast, NoneOvertaken
  <2>. QED BY <1>2, <1>4, <1>5, <2>1
<1>7. \A d \in Conns : handler'[d] # "idle" =>
        \E i \in 1..Len(dialed'[ServerOf[d]]) : dialed'[ServerOf[d]][i] = d
  <2>1. \A d \in Conns : handler[d] # "idle" =>
          \E i \in 1..Len(dialed[ServerOf[d]]) : dialed[ServerOf[d]][i] = d
    BY ZenonT(30) DEF InOrder, DialedOnce, HandlersDialed, SessionIsLast, NoneOvertaken
  <2>. QED BY <1>4, <1>5, <2>1, Zenon
<1>8. \A n \in Nodes : session'[n] # None =>
        Len(dialed'[n]) > 0 /\ session'[n] = dialed'[n][Len(dialed'[n])]
  <2>1. \A n \in Nodes : session[n] # None =>
          Len(dialed[n]) > 0 /\ session[n] = dialed[n][Len(dialed[n])]
    BY ZenonT(30) DEF InOrder, DialedOnce, HandlersDialed, SessionIsLast, NoneOvertaken
  <2>. QED BY <1>5, <2>1, Zenon
<1>. QED
  BY <1>3, <1>6, <1>7, <1>8, ZenonT(30)
  DEF InOrder, DialedOnce, HandlersDialed, SessionIsLast, NoneOvertaken

\* Every step keeps the order: a handler that registers an overtaken generation
\* makes its server a late one.
LEMMA OrderStep == ASSUME IInv, QTypes, InOrder, QNext PROVE InOrder'
<1>0. /\ handler \in [Conns -> {"idle", "registering", "connected", "returned"}]
      /\ streams \in [Nodes -> Conns \cup {None}] /\ session \in [Nodes -> Conns \cup {None}]
  BY Zenon DEF IInv, TypeInv, QTypes
<1>l. late \subseteq late' BY LateGrows, Zenon
<1>s. ASSUME UNCHANGED <<dialed, session, handler, streams>> PROVE InOrder'
  BY <1>l, <1>s, InOrderKept, Zenon DEF Installed
<1>1. ASSUME NEW n \in Nodes, AgentStep(n) PROVE InOrder'
  <2>1. dialed' = dialed /\ UNCHANGED vars /\ session' \in {session, [session EXCEPT ![n] = None]}
    BY <1>1, Zenon DEF AgentStep, AgentClose, AgentDispatch, AgentReject, AgentCrash
  <2>2. UNCHANGED <<handler, streams>> BY <2>1, Zenon DEF vars, connVars
  <2>. QED BY <1>0, <1>l, <2>1, <2>2, InOrderKept, Zenon DEF Installed
<1>2. ASSUME NEW k \in Keys, WorkerStep(k) PROVE InOrder'
  BY <1>2, <1>s, ZenonT(30) DEF WorkerStep, WorkerRespond, WorkerRelease, vars, connVars
<1>3. CASE HubStep
  <2>1. UNCHANGED <<dialed, session, handler, streams>>
    <3>1. ASSUME NEW s \in Senders, NEW k \in Keys, HubSendStart(s, k)
          PROVE  UNCHANGED <<dialed, session, handler, streams>>
      BY <3>1, ZenonT(30) DEF HubSendStart, SendStart, connVars, agentVars
    <3>2. ASSUME NEW s \in Senders, HubSend(s) PROVE UNCHANGED <<dialed, session, handler, streams>>
      BY <3>2, Zenon DEF HubSend, prepareActivitySend, connVars
    <3>3. ASSUME NEW c \in Conns, routeAgentMessage(c)
          PROVE  UNCHANGED <<dialed, session, handler, streams>>
      BY <3>3, ZenonT(30)
      DEF routeAgentMessage, CompleteActivity, ObserveActivityCapabilities, connVars, vars
    <3>4. ASSUME NEW c \in Conns, NEW op \in Ops, NEW manual \in BOOLEAN, StartUpdate(c, op, manual)
          PROVE UNCHANGED <<dialed, session, handler, streams>>
      BY <3>4, Zenon DEF StartUpdate, ReserveBegin, connVars, agentVars
    <3>5. ASSUME NEW c \in Conns, CommitUpdate(c) PROVE UNCHANGED <<dialed, session, handler, streams>>
      BY <3>5, Zenon DEF CommitUpdate, ReserveCommit, connVars, agentVars
    <3>6. ASSUME NEW n \in Nodes, NEW op \in Ops, EndUpdate(n, op)
          PROVE  UNCHANGED <<dialed, session, handler, streams>>
      BY <3>6, Zenon DEF EndUpdate, ReleaseMaintenance, connVars, agentVars
    <3>. QED BY <1>3, <3>1, <3>2, <3>3, <3>4, <3>5, <3>6, Zenon DEF HubStep
  <2>. QED BY <2>1, <1>s, Zenon
<1>4. CASE HubCrash
  <2>1. /\ UNCHANGED <<dialed, session>> /\ streams' = [n \in Nodes |-> None]
        /\ handler' = [c \in Conns |-> IF handler[c] = "idle" THEN "idle" ELSE "returned"]
    BY <1>4, Zenon DEF HubCrash
  <2>2. \A c \in Conns : handler'[c] = "idle" <=> handler[c] = "idle" BY <1>0, <2>1, Zenon
  <2>3. \A c \in Conns : streams'[ServerOf[c]] # c BY <2>1, Zenon
  <2>4. \A n \in Nodes : \A i \in 1..Len(dialed[n]) : dialed[n][i] \in Conns BY DEF QTypes
  <2>. QED BY <2>1, <2>4 DEF InOrder, DialedOnce, HandlersDialed, SessionIsLast, NoneOvertaken
<1>5. CASE HubAlone
  <2>0. UNCHANGED <<dialed, session>> BY <1>5, Zenon DEF HubAlone, agentVars
  <2>1. ASSUME NEW c \in Conns, Register(c) \/ RegisterRetire(c) PROVE InOrder'
    <3>1. handler[c] = "registering" /\ (Install(c) \/ UNCHANGED <<streams, handler>>)
      BY <2>1, Zenon DEF Register, RegisterRetire
    <3>2. ASSUME Install(c), Overtaken(c) PROVE ServerOf[c] \in late'
      <4>1. handler'[c] = "connected" /\ ServerOf[c] \in Nodes BY <1>0, <3>2, Zenon DEF Install
      <4>2. late' = late \cup Overtaking BY <1>5, Zenon DEF HubAlone
      <4>. QED BY <3>1, <3>2, <4>1, <4>2, Zenon DEF Overtaking
    <3>. QED BY <1>l, <1>s, <2>0, <3>1, <3>2, InstallOrder, Zenon
  <2>2. ASSUME NEW c \in Conns, Detach(c) \/ ReserveRefused(c) PROVE InOrder'
    BY <1>s, <2>0, <2>2, Zenon DEF Detach, ReserveRefused, connVars
  <2>3. ASSUME NEW c \in Conns, finishRetirement(c) PROVE InOrder'
    <3>1. UNCHANGED handler /\ \A n \in Nodes : streams'[n] \in {streams[n], None}
      BY <1>0, <2>3, Zenon DEF finishRetirement
    <3>. QED BY <1>l, <2>0, <3>1, InOrderKept, Zenon DEF Installed
  <2>4. ASSUME NEW c \in Conns, ConnectReturn(c) PROVE InOrder'
    <3>1. UNCHANGED streams /\ handler[c] = "connected" /\ handler' = [handler EXCEPT ![c] = "returned"]
      BY <2>4, Zenon DEF ConnectReturn
    <3>. QED BY <1>0, <1>l, <2>0, <3>1, InOrderKept, Zenon DEF Installed
  <2>5. ASSUME NEW k \in Keys, BeginActivity(k[1], k[2]) \/ Abandon(k) PROVE InOrder'
    BY <1>s, <2>0, <2>5, ZenonT(30) DEF BeginActivity, Abandon, connVars
  <2>6. ASSUME NEW s \in Senders, SendLock(s) \/ SendRefused(s) \/ SendGuard(s) \/ SendTimeout(s)
        PROVE  InOrder'
    BY <1>s, <2>0, <2>6, Zenon DEF SendLock, SendRefused, SendGuard, SendTimeout, connVars
  <2>7. ASSUME NEW s \in Senders, NEW ok \in BOOLEAN, SendEnd(s, ok) PROVE InOrder'
    BY <1>s, <2>0, <2>7, Zenon DEF SendEnd, connVars
  <2>. QED BY <1>5, <2>1, <2>2, <2>3, <2>4, <2>5, <2>6, <2>7, Zenon DEF HubAlone
<1>. QED BY <1>l, <1>1, <1>2, <1>3, <1>4, <1>5, OpenOrder, Zenon DEF QNext

-----------------------------------------------------------------------------
(* What the Hub's own steps keep.                                          *)

\* Once the generation of the open session is installed, every other generation
\* of the server is overtaken.
LEMMA LastOpened ==
  ASSUME IInv, QTypes, InOrder, NEW n \in Nodes, session[n] # None, Installed(session[n]),
         NEW d \in Conns, ServerOf[d] = n, d # session[n], handler[d] # "idle"
  PROVE  Overtaken(d)
<1>1. dialed[n] \in Seq(Conns) BY Zenon DEF QTypes
<1>2. PICK i \in 1..Len(dialed[n]) : dialed[n][i] = d BY Zenon
  DEF InOrder, DialedOnce, HandlersDialed, SessionIsLast, NoneOvertaken
<1>3. Len(dialed[n]) > 0 /\ session[n] = dialed[n][Len(dialed[n])] BY Zenon
  DEF InOrder, DialedOnce, HandlersDialed, SessionIsLast, NoneOvertaken
<1>4. i < Len(dialed[n]) BY <1>1, <1>2, <1>3, SMTT(30)
<1>5. handler[dialed[n][Len(dialed[n])]] # "registering" BY <1>3, Zenon DEF Installed
<1>6. i \in DOMAIN dialed[n] /\ Len(dialed[n]) \in DOMAIN dialed[n] BY <1>1, <1>2, <1>3, SMTT(30)
<1>. QED BY <1>2, <1>4, <1>5, <1>6, Zenon DEF Overtaken

\* An open session belongs to a generation of its server.
LEMMA SessionServer ==
  ASSUME QTypes, InOrder, NEW n \in Nodes, session[n] # None
  PROVE  session[n] \in Conns /\ ServerOf[session[n]] = n
<1>1. dialed[n] \in Seq(Conns) /\ session[n] \in Conns BY Zenon DEF QTypes
<1>. QED BY <1>1 DEF InOrder, DialedOnce, HandlersDialed, SessionIsLast, NoneOvertaken

\* A step that leaves the registry and the counts alone is steady if it keeps
\* what was sent.
LEMMA SteadyRegistry ==
  ASSUME UNCHANGED <<handler, streams, retiring, uncertain, activityCounts>>,
         \A k \in Keys : record[k] \in Sent => record'[k] \in Sent
  PROVE  Steady
BY Zenon DEF Steady, Current

\* endActivitiesLocked is steady: what it removes leaves an uncertainty slot.
LEMMA EndSteady ==
  ASSUME IInv, NEW c \in Conns, streams[ServerOf[c]] = c, endActivitiesLocked(c),
         streams' = streams, retiring' = [retiring EXCEPT ![ServerOf[c]] = c],
         \A d \in Conns : handler'[d] \in {"idle", "registering"} => handler'[d] = handler[d]
  PROVE  Steady
<1>. DEFINE n == ServerOf[c]
<1>0. /\ n \in Nodes /\ retiring \in [Nodes -> Conns \cup {None}] /\ activityCounts \in [Conns -> Nat]
      /\ record \in [Keys -> {"absent", "admitted", "dispatched", "abandoned"}]
  BY Zenon DEF IInv, TypeInv
<1>1. ~Current(c)' BY <1>0, Zenon DEF Current
<1>2. uncertain \subseteq uncertain' BY Zenon DEF endActivitiesLocked
<1>3. activityCounts[c] > 0 => n \in uncertain' BY Zenon DEF endActivitiesLocked
<1>4. ASSUME NEW k \in Keys, record[k] \in Sent, k[1] = c PROVE n \in uncertain'
  BY <1>4, Zenon DEF endActivitiesLocked, Activities, Sent
<1>5. \A k \in Keys : k[1] # c => record'[k] = record[k] BY Zenon DEF endActivitiesLocked
<1>6. \A d \in Conns : d # c => activityCounts'[d] = activityCounts[d]
  BY <1>0, Zenon DEF endActivitiesLocked
<1>7. \A d \in Conns : Current(d)' => Current(d) BY <1>0, Zenon DEF Current
<1>. QED BY <1>1, <1>2, <1>3, <1>4, <1>5, <1>6, <1>7, Zenon DEF Steady

\* Abandoning forgets nothing that was sent.
LEMMA AbandonKeepsSent ==
  ASSUME IInv, NEW k \in Keys, abandonActivity(k)
  PROVE  /\ \A h \in Keys : record[h] \in Sent => record'[h] \in Sent
         /\ uncertain \subseteq uncertain' /\ UNCHANGED activityCounts
<1>0. record \in [Keys -> {"absent", "admitted", "dispatched", "abandoned"}]
  BY Zenon DEF IInv, TypeInv
<1>1. CASE record[k] = "absent" /\ UNCHANGED ledgerVars BY <1>1, Zenon DEF ledgerVars
<1>2. CASE record[k] = "admitted" /\ removeActivityLocked(k)
  BY <1>0, <1>2, Zenon DEF removeActivityLocked, Sent
<1>3. CASE /\ record[k] \in {"dispatched", "abandoned"}
           /\ record' = [record EXCEPT ![k] = "abandoned"]
           /\ UNCHANGED <<uncertain, activityNodes, activityCounts>>
  BY <1>0, <1>3, Zenon DEF Sent
<1>. QED BY <1>1, <1>2, <1>3, Zenon DEF abandonActivity

\* A step that leaves the registry alone is steady if the ledger only grows.
LEMMA SteadyLedger ==
  ASSUME UNCHANGED <<handler, streams, retiring, activityCounts>>, uncertain \subseteq uncertain',
         \A k \in Keys : record[k] \in Sent => record'[k] \in Sent
  PROVE  Steady
BY Zenon DEF Steady, Current

\* prepareActivitySend is steady and records the request as sent, on a current
\* generation.
LEMMA PrepareSteady ==
  ASSUME IInv, Once, NEW s \in Senders, prepareActivitySend(s)
  PROVE  /\ Steady /\ record'[Key(s)] \in Sent /\ Current(sender[s].conn)
         /\ UNCHANGED <<connVars, reserving, maintenance, uncertain, activityCounts>>
<1>. DEFINE c == sender[s].conn
            k == Key(s)
<1>0. record \in [Keys -> {"absent", "admitted", "dispatched", "abandoned"}]
  BY Zenon DEF IInv, TypeInv
<1>1. sender[s].pc = "ready" BY Zenon DEF prepareActivitySend
<1>2. c \in Conns /\ k \in Keys /\ sender[s].msg.kind \in WithActivity
  BY <1>1, SenderKey, Zenon DEF WithActivity, Claiming
<1>3. streams[ServerOf[c]] = c /\ c \notin done BY Zenon DEF prepareActivitySend, liveLocked
<1>4. Current(c) BY <1>2, <1>3 DEF Current, IInv, GInv, GenerationInv
<1>5. UNCHANGED <<connVars, reserving, maintenance>> BY Zenon DEF prepareActivitySend
<1>7. /\ UNCHANGED <<uncertain, activityCounts>>
      /\ \/ record[k] # "absent" /\ record' = [record EXCEPT ![k] = IF @ = "admitted" THEN "dispatched" ELSE @]
         \/ record' = [record EXCEPT ![k] = "dispatched"]
  <2>1. CASE record[k] # "absent" BY <1>2, <2>1, Zenon DEF prepareActivitySend, Key
  <2>2. CASE record[k] = "absent"
    BY <1>2, <2>2, Zenon DEF prepareActivitySend, addActivityLocked, Key
  <2>. QED BY <2>1, <2>2, Zenon
<1>8. record'[k] \in Sent /\ \A h \in Keys : record[h] \in Sent => record'[h] \in Sent
  <2>. HIDE DEF k
  <2>. QED BY <1>0, <1>2, <1>7, Zenon DEF Sent
<1>. QED BY <1>4, <1>5, <1>7, <1>8, SteadyRegistry, Zenon DEF connVars, Key

\* The Hub's own steps are steady: registration, retirement, disconnects,
\* abandoned waiters and time-outs lose no work.
LEMMA AloneSteady == ASSUME IInv, Once, HubAlone PROVE Steady
<1>0. /\ handler \in [Conns -> {"idle", "registering", "connected", "returned"}]
      /\ streams \in [Nodes -> Conns \cup {None}] /\ retiring \in [Nodes -> Conns \cup {None}]
      /\ record \in [Keys -> {"absent", "admitted", "dispatched", "abandoned"}]
  BY Zenon DEF IInv, TypeInv
<1>1. ASSUME NEW c \in Conns, Register(c) \/ RegisterRetire(c) PROVE Steady
  <2>1. handler[c] = "registering" /\ UNCHANGED ledgerVars
    BY <1>1, Zenon DEF Register, RegisterRetire
  <2>2. \/ streams' = [streams EXCEPT ![ServerOf[c]] = c] /\ handler' = [handler EXCEPT ![c] = "connected"]
        \/ UNCHANGED <<streams, handler>>
    BY <1>1, Zenon DEF Register, RegisterRetire, Install
  <2>3. retiring' \in {retiring, [retiring EXCEPT ![ServerOf[c]] = None]}
    BY <1>1, Zenon DEF Register, RegisterRetire
  <2>4. retiring[ServerOf[c]] # None => streams[ServerOf[c]] = retiring[ServerOf[c]]
    BY Zenon DEF IInv, GInv, GenerationInv
  <2>5. retiring' = retiring \/ streams'[ServerOf[c]] = c
    BY <1>0, <1>1, <2>4, Zenon DEF Register, RegisterRetire, Install
  <2>6. \A d \in Conns : Current(d)' => Current(d) \/ handler[d] = "registering"
    BY <1>0, <2>1, <2>2, <2>3, <2>5, SMTT(30) DEF Current
  <2>7. \A d \in Conns : handler'[d] \in {"idle", "registering"} => handler'[d] = handler[d]
    BY <1>0, <2>2, Zenon
  <2>. QED BY <2>1, <2>6, <2>7, Zenon DEF Steady, ledgerVars
<1>2. ASSUME NEW c \in Conns, Detach(c) PROVE Steady BY <1>2, EndSteady, ZenonT(30) DEF Detach
<1>3. ASSUME NEW c \in Conns, finishRetirement(c) PROVE Steady
  <2>1. UNCHANGED <<handler, ledgerVars>> BY <1>3, Zenon DEF finishRetirement
  <2>2. retiring[ServerOf[c]] # None => streams[ServerOf[c]] = retiring[ServerOf[c]]
    BY Zenon DEF IInv, GInv, GenerationInv
  <2>3. \A d \in Conns : Current(d)' => Current(d) BY <1>0, <1>3, <2>2 DEF finishRetirement, Current
  <2>. QED BY <2>1, <2>3, Zenon DEF Steady, ledgerVars
<1>4. ASSUME NEW c \in Conns, ConnectReturn(c) PROVE Steady
  <2>1. /\ handler[c] = "connected" /\ handler' = [handler EXCEPT ![c] = "returned"] /\ streams' = streams
    BY <1>4, Zenon DEF ConnectReturn
  <2>2. \A d \in Conns : handler'[d] \in {"idle", "registering"} => handler'[d] = handler[d]
    BY <1>0, <2>1, Zenon
  <2>3. CASE streams[ServerOf[c]] = c
    <3>1. endActivitiesLocked(c) /\ retiring' = [retiring EXCEPT ![ServerOf[c]] = c]
      BY <1>4, <2>3, Zenon DEF ConnectReturn
    <3>. QED BY <2>1, <2>2, <2>3, <3>1, EndSteady, ZenonT(30)
  <2>4. CASE streams[ServerOf[c]] # c
    <3>1. UNCHANGED <<retiring, ledgerVars>> BY <1>4, <2>4, Zenon DEF ConnectReturn
    <3>. QED BY <2>1, <2>2, <3>1, Zenon DEF Steady, Current, ledgerVars
  <2>. QED BY <2>3, <2>4, Zenon
<1>5. ASSUME NEW c \in Conns, ReserveRefused(c) PROVE Steady
  BY <1>5, SteadyRegistry, Zenon DEF ReserveRefused, connVars, ledgerVars
<1>6. ASSUME NEW k \in Keys, BeginActivity(k[1], k[2]) PROVE Steady
  <2>1. <<k[1], k[2]>> = k BY KeyParts, Zenon
  <2>2. record[k] = "absent" /\ record' = [record EXCEPT ![k] = "admitted"]
    BY <1>6, <2>1, ZenonT(30) DEF BeginActivity, addActivityLocked
  <2>3. \A h \in Keys : record[h] \in Sent => record'[h] \in Sent BY <1>0, <2>2, Zenon DEF Sent
  <2>. QED BY <1>6, <2>3, SteadyRegistry, Zenon DEF BeginActivity, addActivityLocked, connVars
<1>7. ASSUME NEW k \in Keys, Abandon(k) PROVE Steady
  <2>1. abandonActivity(k) /\ UNCHANGED connVars BY <1>7, Zenon DEF Abandon
  <2>. QED BY <2>1, AbandonKeepsSent, SteadyLedger, Zenon DEF connVars
<1>8. ASSUME NEW s \in Senders, SendLock(s) \/ SendRefused(s) \/ SendTimeout(s) PROVE Steady
  BY <1>8, SteadyRegistry, Zenon DEF SendLock, SendRefused, SendTimeout, connVars, ledgerVars
<1>9. ASSUME NEW s \in Senders, SendGuard(s) PROVE Steady
  <2>1. \A h \in Keys : record[h] \in Sent => record'[h] \in Sent
    BY <1>0, <1>9, Zenon DEF SendGuard, Sent
  <2>. QED BY <1>9, <2>1, SteadyRegistry, Zenon DEF SendGuard, connVars
<1>10. ASSUME NEW s \in Senders, NEW ok \in BOOLEAN, SendEnd(s, ok) PROVE Steady
  <2>1. sender[s].pc # "idle" /\ UNCHANGED connVars BY <1>10, Zenon DEF SendEnd
  <2>2. Key(s) \in Keys BY <2>1, SenderKey, Zenon
  <2>3. UNCHANGED ledgerVars \/ abandonActivity(Key(s)) BY <1>10, Zenon DEF SendEnd, Key
  <2>4. CASE UNCHANGED ledgerVars BY <2>1, <2>4, SteadyRegistry, Zenon DEF connVars, ledgerVars
  <2>5. CASE abandonActivity(Key(s))
    BY <2>1, <2>2, <2>5, AbandonKeepsSent, SteadyLedger, Zenon DEF connVars
  <2>. QED BY <2>3, <2>4, <2>5, Zenon
<1>. QED BY <1>1, <1>2, <1>3, <1>4, <1>5, <1>6, <1>7, <1>8, <1>9, <1>10, Zenon DEF HubAlone

-----------------------------------------------------------------------------
(* Queues.                                                                 *)

\* What a queue holds after an element was appended.
LEMMA HasAppend ==
  ASSUME NEW S, NEW q \in Seq(S), NEW x \in S
  PROVE  \A y : Has(Append(q, x), y) <=> Has(q, y) \/ x = y
<1>. DEFINE t == Append(q, x)
<1>1. /\ Len(t) = Len(q) + 1 /\ Len(q) \in Nat /\ t[Len(t)] = x
      /\ \A i \in 1..Len(q) : t[i] = q[i]
  OBVIOUS
<1>. HIDE DEF t
<1>2. \A i \in 1..Len(t) : i \in 1..Len(q) \/ i = Len(t) BY <1>1
<1>3. Len(t) \in 1..Len(t) /\ \A i \in 1..Len(q) : i \in 1..Len(t) BY <1>1
<1>. QED BY <1>1, <1>2, <1>3, Zenon DEF Has, t

\* What a queue holds before its head was taken.
LEMMA HasTail ==
  ASSUME NEW S, NEW q \in Seq(S), q # <<>>
  PROVE  \A y : Has(q, y) <=> Has(Tail(q), y) \/ Head(q) = y
<1>. DEFINE t == Tail(q)
<1>1. /\ Len(t) = Len(q) - 1 /\ Len(q) \in Nat \ {0} /\ Head(q) = q[1]
      /\ \A i \in 1..Len(t) : t[i] = q[i + 1]
  OBVIOUS
<1>. HIDE DEF t
<1>2. \A i \in 1..Len(q) : i = 1 \/ (i - 1 \in 1..Len(t) /\ t[i - 1] = q[i]) BY <1>1
<1>3. \A i \in 1..Len(t) : i + 1 \in 1..Len(q) BY <1>1
<1>4. 1 \in 1..Len(q) BY <1>1
<1>5. ASSUME NEW y PROVE Has(q, y) <=> Has(t, y) \/ Head(q) = y
  BY <1>1, <1>2, <1>3, <1>4, Zenon DEF Has
<1>. QED BY <1>5, Zenon DEF t

\* The head of a queue without repetition does not occur in its rest.
LEMMA DistinctTail ==
  ASSUME NEW S, NEW q \in Seq(S), q # <<>>, Distinct(q)
  PROVE  Distinct(Tail(q)) /\ ~Has(Tail(q), Head(q))
<1>. DEFINE t == Tail(q)
<1>1. /\ Len(t) = Len(q) - 1 /\ Len(q) \in Nat \ {0} /\ Head(q) = q[1]
      /\ \A i \in 1..Len(t) : t[i] = q[i + 1]
  OBVIOUS
<1>. HIDE DEF t
<1>2. \A i \in 1..Len(t) : i + 1 \in 1..Len(q) /\ i + 1 # 1 BY <1>1
<1>3. 1 \in 1..Len(q) BY <1>1
<1>4. ~Has(t, Head(q)) BY <1>1, <1>2, <1>3 DEF Has, Distinct
<1>5. Distinct(t)
  <2>1. \A i, j \in 1..Len(t) : t[i] = t[j] => i + 1 = j + 1 BY <1>1, <1>2, Zenon DEF Distinct
  <2>. QED BY <2>1 DEF Distinct
<1>. QED BY <1>4, <1>5, Zenon DEF t

\* Appending a new element repeats nothing.
LEMMA DistinctAppend ==
  ASSUME NEW S, NEW q \in Seq(S), NEW x \in S, Distinct(q), ~Has(q, x)
  PROVE  Distinct(Append(q, x))
<1>. DEFINE t == Append(q, x)
<1>1. /\ Len(t) = Len(q) + 1 /\ Len(q) \in Nat /\ t[Len(t)] = x
      /\ \A i \in 1..Len(q) : t[i] = q[i]
  OBVIOUS
<1>. HIDE DEF t
<1>2. \A i \in 1..Len(t) : (i \in 1..Len(q) /\ t[i] = q[i] /\ t[i] # x) \/ i = Len(t)
  BY <1>1 DEF Has
<1>3. Distinct(t) BY <1>1, <1>2, Zenon DEF Distinct
<1>. QED BY <1>3, Zenon DEF t

\* An empty queue holds nothing.
LEMMA Empty == \A y : ~Has(<<>>, y)
BY DEF Has

\* What an agent step must respect to keep requests unrepeated; such a step
\* creates no work.
LEMMA OnceAgent ==
  ASSUME IInv, QTypes, Once, UNCHANGED <<vars, fresh>>,
         \A h \in Keys : Queued(h)' => /\ Queued(h) /\ session'[ServerOf[h[1]]] = session[ServerOf[h[1]]]
                                       /\ worker'[h] = worker[h] /\ (Answered(h)' => Answered(h)),
         \A h \in Keys : worker'[h] # "none" => worker[h] # "none" \/ Queued(h),
         \A h \in Keys : Answered(h)' => Answered(h) \/ Queued(h) \/ worker[h] # "none",
         \A c \in Conns : Distinct(toAgent[c])'
  PROVE  Once' /\ \A h \in Keys : Work(h)' => Work(h)
<1>0. /\ \A c \in Conns : Installed(c)' = Installed(c) /\ Current(c)' = Current(c)
      /\ UNCHANGED <<sender, record, fresh>>
  BY Zenon DEF Installed, Current, vars, connVars, ledgerVars
<1>1. \A h \in Keys : Unsent(h) => Unsent(h)' BY Zenon DEF Unsent
<1>2. \A s \in Senders : sender[s].pc # "idle" => Key(s) \in Keys BY SenderKey, Zenon
<1>3. \A s \in Senders : Key(s)' = Key(s) BY <1>0, Zenon DEF Key
<1>4. \A k \in fresh' : Unsent(k)' BY <1>0, <1>1, Zenon DEF Once, FreshUnsent, QTypes
<1>5. \A s \in Senders : sender'[s].pc # "idle" => sender'[s].msg.kind = "claimed" /\ Key(s)' \notin fresh'
  BY <1>0, <1>3, Zenon DEF Once, SendersClaim, WorkInstalled
<1>6. \A s \in Senders : sender'[s].pc \in {"queued", "guard", "ready"} => Unsent(Key(s))'
  BY <1>0, <1>1, <1>2, <1>3, Zenon DEF Once, WaitingUnsent
<1>7. \A s, t \in Senders : sender'[s].pc # "idle" /\ sender'[t].pc # "idle" /\ Key(s)' = Key(t)' => s = t
  BY <1>0, <1>3 DEF Once, OneSender
<1>8. \A k \in Keys : k[1] \in Conns BY KeyParts, Zenon
<1>9. \A k \in Keys : worker'[k] # "none" => Installed(k[1])' BY <1>0, <1>8, Zenon
  DEF Once, WorkInstalled, QueuedInSession
<1>10. \A k \in Keys : Queued(k)' =>
         /\ session'[ServerOf[k[1]]] = k[1] /\ Installed(k[1])' /\ worker'[k] = "none" /\ ~Answered(k)'
         /\ Current(k[1])' => record'[k] \in Sent
  BY <1>0, <1>8, Zenon DEF Once, QueuedInSession, QueuesDistinct
<1>11. \A h \in Keys : Work(h)' => Work(h) BY Zenon DEF Work
<1>12. Once' BY <1>4, <1>5, <1>6, <1>7, <1>9, <1>10, Zenon
  DEF Once, FreshUnsent, SendersClaim, WaitingUnsent, OneSender, WorkInstalled, QueuedInSession,
     QueuesDistinct
<1>. QED BY <1>11, <1>12, Zenon

-----------------------------------------------------------------------------
(* Requests reach the agent once: the agent's steps.                       *)

\* Closing, dispatching, refusing and crashing take requests, never repeat one.
LEMMA AgentOnce ==
  ASSUME Counting, IInv, QTypes, InOrder, Once, NEW n \in Nodes, AgentStep(n)
  PROVE  Once' /\ \A h \in Keys : Work(h)' => Work(h)
<1>0. /\ session \in [Nodes -> Conns \cup {None}]
      /\ toAgent \in [Conns -> Seq(Ids)] /\ fromAgent \in [Conns -> Seq(Reports)]
      /\ worker \in [Keys -> {"none", "running", "responded"}]
  BY Zenon DEF QTypes
<1>d. \A c \in Conns : Distinct(toAgent[c])
  BY Zenon
  DEF Once, FreshUnsent, SendersClaim, WaitingUnsent, OneSender, WorkInstalled, QueuedInSession,
      QueuesDistinct
<1>q. \A h \in Keys : Queued(h) => session[ServerOf[h[1]]] = h[1] BY Zenon
  DEF Once, FreshUnsent, SendersClaim, WaitingUnsent, OneSender, WorkInstalled, QueuedInSession,
     QueuesDistinct
<1>e. Distinct(<<>>) BY DEF Distinct
<1>1. CASE AgentClose(n)
  <2>. DEFINE c == session[n]
  <2>1. /\ c \in Conns /\ ServerOf[c] = n /\ toAgent' = [toAgent EXCEPT ![c] = <<>>]
        /\ session' = [session EXCEPT ![n] = None] /\ UNCHANGED <<vars, fromAgent, worker, fresh>>
    BY <1>1, SessionServer, Zenon DEF AgentClose
  <2>. HIDE DEF c
  <2>2. ASSUME NEW h \in Keys, Queued(h)'
        PROVE  Queued(h) /\ session'[ServerOf[h[1]]] = session[ServerOf[h[1]]]
    <3>1. h[1] \in Conns /\ h[1] # c BY <1>0, <2>1, <2>2, Empty, KeyParts, Zenon DEF Queued
    <3>2. Queued(h) BY <1>0, <2>1, <2>2, <3>1, Zenon DEF Queued
    <3>. QED BY <1>0, <1>q, <2>1, <3>1, <3>2, Zenon DEF c
  <2>3. \A d \in Conns : Distinct(toAgent[d])' BY <1>0, <1>d, <1>e, <2>1, Zenon
  <2>4. \A h \in Keys : Answered(h)' = Answered(h) BY <2>1, Zenon DEF Answered
  <2>. QED BY <2>1, <2>2, <2>3, <2>4, OnceAgent, Zenon
<1>2. CASE AgentDispatch(n)
  <2>. DEFINE c == session[n]
              i == Head(toAgent[c])
              k == <<c, i>>
              r == Count(activities(n) + 1)
  <2>0. c \in Conns /\ toAgent[c] \in Seq(Ids) /\ toAgent[c] # <<>>
    BY <1>0, <1>2, Zenon DEF AgentDispatch
  <2>1. /\ toAgent' = [toAgent EXCEPT ![c] = Tail(toAgent[c])] /\ worker' = [worker EXCEPT ![k] = "running"]
        /\ fromAgent' = [fromAgent EXCEPT ![c] = Append(fromAgent[c], r)] /\ UNCHANGED <<vars, session, fresh>>
    BY <1>2, Zenon DEF AgentDispatch
  <2>2. r \in Reports /\ r.type = "count" BY ReportForms DEF Counting
  <2>3. i \in Ids /\ k \in Keys /\ k[1] = c /\ k[2] = i BY <2>0 DEF Keys
  <2>4. \A y : Has(toAgent[c], y) <=> Has(Tail(toAgent[c]), y) \/ i = y BY <2>0, HasTail, Zenon
  <2>5. Distinct(Tail(toAgent[c])) /\ ~Has(Tail(toAgent[c]), i) BY <1>d, <2>0, DistinctTail, Zenon
  <2>6. \A y : Has(Append(fromAgent[c], r), y) <=> Has(fromAgent[c], y) \/ r = y
    BY <1>0, <2>0, <2>2, HasAppend, SMTT(30)
  <2>. HIDE DEF c, i, k, r
  <2>7. Queued(k) BY <2>3, <2>4, Zenon DEF Queued
  <2>8. ASSUME NEW h \in Keys, Queued(h)' PROVE Queued(h) /\ h # k
    <3>1. CASE h[1] = c BY <1>0, <2>0, <2>1, <2>3, <2>4, <2>5, <2>8, <3>1, SMTT(30) DEF Queued
    <3>2. CASE h[1] # c BY <1>0, <2>1, <2>3, <2>8, <3>2, KeyParts, Zenon DEF Queued
    <3>. QED BY <3>1, <3>2, Zenon
  <2>9. ASSUME NEW h \in Keys, Answered(h)' PROVE Answered(h)
    <3>0. r # Done(h[2]) BY <2>2, ReportForms, Zenon
    <3>1. CASE h[1] = c BY <1>0, <2>0, <2>1, <2>6, <2>9, <3>0, <3>1, Zenon DEF Answered
    <3>2. CASE h[1] # c BY <1>0, <2>1, <2>9, <3>2, KeyParts, Zenon DEF Answered
    <3>. QED BY <3>1, <3>2, Zenon
  <2>10. \A h \in Keys : h # k => worker'[h] = worker[h] BY <1>0, <2>1, Zenon
  <2>11. \A d \in Conns : Distinct(toAgent[d])' BY <1>0, <1>d, <2>1, <2>5, Zenon
  <2>. QED BY <2>1, <2>7, <2>8, <2>9, <2>10, <2>11, OnceAgent, Zenon
<1>3. CASE AgentReject(n)
  <2>. DEFINE c == session[n]
              i == Head(toAgent[c])
              k == <<c, i>>
              r == Done(i)
  <2>0. c \in Conns /\ toAgent[c] \in Seq(Ids) /\ toAgent[c] # <<>>
    BY <1>0, <1>3, Zenon DEF AgentReject
  <2>1. /\ toAgent' = [toAgent EXCEPT ![c] = Tail(toAgent[c])]
        /\ fromAgent' = [fromAgent EXCEPT ![c] = Append(fromAgent[c], r)] /\ UNCHANGED <<vars, session, fresh, worker>>
    BY <1>3, Zenon DEF AgentReject
  <2>3. i \in Ids /\ k \in Keys /\ k[1] = c /\ k[2] = i BY <2>0 DEF Keys
  <2>2. r \in Reports BY <2>3, ReportForms, Zenon
  <2>4. \A y : Has(toAgent[c], y) <=> Has(Tail(toAgent[c]), y) \/ i = y BY <2>0, HasTail, Zenon
  <2>5. Distinct(Tail(toAgent[c])) /\ ~Has(Tail(toAgent[c]), i) BY <1>d, <2>0, DistinctTail, Zenon
  <2>6. \A y : Has(Append(fromAgent[c], r), y) <=> Has(fromAgent[c], y) \/ r = y
    BY <1>0, <2>0, <2>2, HasAppend, SMTT(30)
  <2>12. \A h \in Keys : h[1] = c /\ r = Done(h[2]) => h = k BY KeyParts, ReportForms, SMTT(30)
  <2>. HIDE DEF c, i, k, r
  <2>7. Queued(k) BY <2>3, <2>4, Zenon DEF Queued
  <2>8. ASSUME NEW h \in Keys, Queued(h)' PROVE Queued(h) /\ h # k
    <3>1. CASE h[1] = c BY <1>0, <2>0, <2>1, <2>3, <2>4, <2>5, <2>8, <3>1, SMTT(30) DEF Queued
    <3>2. CASE h[1] # c BY <1>0, <2>1, <2>3, <2>8, <3>2, KeyParts, Zenon DEF Queued
    <3>. QED BY <3>1, <3>2, Zenon
  <2>9. ASSUME NEW h \in Keys, Answered(h)' PROVE Answered(h) \/ h = k
    <3>1. CASE h[1] = c BY <1>0, <2>0, <2>1, <2>6, <2>9, <2>12, <3>1, Zenon DEF Answered
    <3>2. CASE h[1] # c BY <1>0, <2>1, <2>9, <3>2, KeyParts, Zenon DEF Answered
    <3>. QED BY <3>1, <3>2, Zenon
  <2>11. \A d \in Conns : Distinct(toAgent[d])' BY <1>0, <1>d, <2>1, <2>5, Zenon
  <2>. QED BY <2>1, <2>7, <2>8, <2>9, <2>11, OnceAgent, Zenon
<1>4. CASE AgentCrash(n)
  <2>1. /\ toAgent' = [c \in Conns |-> IF c = session[n] THEN <<>> ELSE toAgent[c]]
        /\ session' = [session EXCEPT ![n] = None] /\ UNCHANGED <<vars, fromAgent, fresh>>
        /\ worker' = [k \in Keys |-> IF ServerOf[k[1]] = n THEN "none" ELSE worker[k]]
    BY <1>4, Zenon DEF AgentCrash
  <2>2. ASSUME NEW h \in Keys, Queued(h)' PROVE Queued(h) /\ ServerOf[h[1]] # n
    <3>1. h[1] \in Conns /\ h[1] # session[n] BY <2>1, <2>2, Empty, KeyParts, Zenon DEF Queued
    <3>2. Queued(h) BY <2>1, <2>2, <3>1, Zenon DEF Queued
    <3>. QED BY <1>q, <3>1, <3>2, Zenon
  <2>3. \A d \in Conns : Distinct(toAgent[d])' BY <1>d, <1>e, <2>1, Zenon
  <2>4. \A h \in Keys : Answered(h)' = Answered(h) BY <2>1, Zenon DEF Answered
  <2>5. \A h \in Keys : ServerOf[h[1]] # n => /\ worker'[h] = worker[h]
                                              /\ session'[ServerOf[h[1]]] = session[ServerOf[h[1]]]
    BY <1>0, <2>1, KeyParts, Zenon
  <2>6. \A h \in Keys : worker'[h] # "none" => worker[h] # "none" BY <2>1, Zenon
  <2>. QED BY <2>1, <2>2, <2>3, <2>4, <2>5, OnceAgent, Zenon
<1>. QED BY <1>1, <1>2, <1>3, <1>4, Zenon DEF AgentStep

\* A worker answers a request that was dispatched.
LEMMA WorkerOnce ==
  ASSUME Counting, IInv, QTypes, InOrder, Once, NEW k \in Keys, WorkerStep(k)
  PROVE  Once' /\ \A h \in Keys : Work(h)' => Work(h)
<1>0. /\ session \in [Nodes -> Conns \cup {None}]
      /\ toAgent \in [Conns -> Seq(Ids)] /\ fromAgent \in [Conns -> Seq(Reports)]
      /\ worker \in [Keys -> {"none", "running", "responded"}]
  BY Zenon DEF QTypes
<1>1. /\ UNCHANGED <<vars, session, toAgent, fresh>> /\ worker[k] # "none"
      /\ worker' \in {[worker EXCEPT ![k] = "responded"], [worker EXCEPT ![k] = "none"]}
  BY ZenonT(30) DEF WorkerStep, WorkerRespond, WorkerRelease
<1>2. \A h \in Keys : Queued(h)' = Queued(h) /\ (Queued(h) => h # k) BY <1>1, Zenon
  DEF Queued, Once, SendersClaim, QueuedInSession
<1>3. \A h \in Keys : h # k => worker'[h] = worker[h] BY <1>0, <1>1, Zenon
<1>4. \A d \in Conns : Distinct(toAgent[d])' BY <1>1, Zenon DEF Once, QueuesDistinct
<1>5. ASSUME NEW h \in Keys, Answered(h)' PROVE Answered(h) \/ h = k
  <2>1. CASE WorkerRespond(k)
    <3>1. fromAgent' \in {fromAgent, [fromAgent EXCEPT ![k[1]] = Append(fromAgent[k[1]], Done(k[2]))]}
      BY <2>1, Zenon DEF WorkerRespond
    <3>2. \A y : Has(Append(fromAgent[k[1]], Done(k[2])), y) <=> Has(fromAgent[k[1]], y) \/ Done(k[2]) = y
      BY <1>0, KeyParts, ReportForms, HasAppend
    <3>3. h[1] = k[1] /\ Done(k[2]) = Done(h[2]) => h = k BY KeyParts, ReportForms, SMTT(30)
    <3>. QED BY <1>0, <1>5, <3>1, <3>2, <3>3, KeyParts, ZenonT(30) DEF Answered
  <2>2. CASE WorkerRelease(k)
    <3>. DEFINE n == ServerOf[k[1]]
                c == session[n]
                r == Count(activities(n) - 1)
    <3>1. fromAgent' = fromAgent \/ (c # None /\ fromAgent' = [fromAgent EXCEPT ![c] = Append(fromAgent[c], r)])
      BY <2>2, Zenon DEF WorkerRelease
    <3>2. n \in Nodes /\ k \in Running(n) BY <1>1, KeyParts, Zenon DEF Running
    <3>3. activities(n) - 1 \in Nat BY <3>2 DEF Counting
    <3>4. r \in Reports /\ r # Done(h[2]) BY <3>3, ReportForms, Zenon
    <3>5. CASE fromAgent' = fromAgent BY <1>5, <3>5, Zenon DEF Answered
    <3>6. CASE c # None /\ fromAgent' = [fromAgent EXCEPT ![c] = Append(fromAgent[c], r)]
      <4>1. c \in Conns BY <1>0, <3>2, <3>6, Zenon
      <4>2. \A y : Has(Append(fromAgent[c], r), y) <=> Has(fromAgent[c], y) \/ r = y
        BY <1>0, <3>4, <4>1, HasAppend, SMTT(30)
      <4>. HIDE DEF c, r
      <4>3. CASE h[1] = c BY <1>0, <1>5, <3>4, <3>6, <4>1, <4>2, <4>3, Zenon DEF Answered
      <4>4. CASE h[1] # c BY <1>0, <1>5, <3>6, <4>4, KeyParts, Zenon DEF Answered
      <4>. QED BY <4>3, <4>4, Zenon
    <3>. QED BY <3>1, <3>5, <3>6, ZenonT(30)
  <2>. QED BY <2>1, <2>2, Zenon DEF WorkerStep
<1>. QED BY <1>1, <1>2, <1>3, <1>4, <1>5, OnceAgent, Zenon

-----------------------------------------------------------------------------
(* Requests reach the agent once: the Hub's steps.                         *)

\* What a Hub step that sends nothing must respect; it creates no work either.
LEMMA OnceHub ==
  ASSUME IInv, QTypes, Once, worker' = worker, fresh' \subseteq fresh,
         \A c \in Conns : Installed(c) => Installed(c)',
         \A h \in Keys : Answered(h)' => Answered(h),
         \A h \in Keys : Queued(h)' => Queued(h) /\ session'[ServerOf[h[1]]] = session[ServerOf[h[1]]],
         \A h \in Keys : Queued(h) /\ Current(h[1])' => record'[h] \in Sent,
         \A c \in Conns : Distinct(toAgent[c])',
         \A s \in Senders : sender'[s].pc # "idle" =>
           /\ sender[s].pc # "idle" /\ Key(s)' = Key(s) /\ sender'[s].msg = sender[s].msg
           /\ sender'[s].pc \in {"queued", "guard", "ready"} => sender[s].pc \in {"queued", "guard", "ready"}
  PROVE  Once' /\ \A h \in Keys : Work(h)' => Work(h)
<1>1. \A h \in Keys : Unsent(h) => Unsent(h)' BY Zenon DEF Unsent
<1>2. \A s \in Senders : sender[s].pc # "idle" => Key(s) \in Keys BY SenderKey, Zenon
<1>4. \A k \in fresh' : Unsent(k)'
  BY <1>1, ZenonT(30)
  DEF Once, FreshUnsent, SendersClaim, WaitingUnsent, OneSender, WorkInstalled, QueuedInSession,
      QueuesDistinct, QTypes
<1>5. \A s \in Senders : sender'[s].pc # "idle" => sender'[s].msg.kind = "claimed" /\ Key(s)' \notin fresh'
  BY Zenon DEF Once, FreshUnsent, SendersClaim
<1>6. \A s \in Senders : sender'[s].pc \in {"queued", "guard", "ready"} => Unsent(Key(s))'
  <2>. SUFFICES ASSUME NEW s \in Senders, sender'[s].pc \in {"queued", "guard", "ready"}
                PROVE  Unsent(Key(s))'
    BY Zenon
  <2>1. sender'[s].pc # "idle" BY Zenon
  <2>2. Key(s)' = Key(s) /\ sender[s].pc \in {"queued", "guard", "ready"} /\ Key(s) \in Keys
    BY <1>2, Zenon
  <2>3. Unsent(Key(s)) BY <2>2, Zenon DEF Once, WaitingUnsent
  <2>4. \A h \in Keys : Key(s)' = h /\ Unsent(h)' => Unsent(Key(s))'
    BY ZenonT(30) DEF Unsent, Queued, Answered
  <2>. QED BY <1>1, <2>2, <2>3, Zenon
<1>7. \A s, t \in Senders : sender'[s].pc # "idle" /\ sender'[t].pc # "idle" /\ Key(s)' = Key(t)' => s = t
  <2>. SUFFICES ASSUME NEW s \in Senders, NEW t \in Senders, sender'[s].pc # "idle", sender'[t].pc # "idle",
                       Key(s)' = Key(t)'
                PROVE  s = t
    BY Zenon
  <2>1. sender[s].pc # "idle" /\ sender[t].pc # "idle" /\ Key(s) = Key(t) BY Zenon
  <2>. QED BY <2>1, Zenon DEF Once, SendersClaim, WaitingUnsent, OneSender, WorkInstalled
<1>8. \A k \in Keys : k[1] \in Conns BY KeyParts, Zenon
<1>9. \A k \in Keys : worker'[k] # "none" => Installed(k[1])' BY <1>8, Zenon DEF Once, WorkInstalled
<1>10. \A k \in Keys : Queued(k)' =>
         /\ session'[ServerOf[k[1]]] = k[1] /\ Installed(k[1])' /\ worker'[k] = "none" /\ ~Answered(k)'
         /\ Current(k[1])' => record'[k] \in Sent
  BY <1>8, Zenon DEF Once, WorkInstalled, QueuedInSession
<1>11. \A h \in Keys : Work(h)' => Work(h) BY ZenonT(30) DEF Work
<1>12. Once'
  BY <1>4, <1>5, <1>6, <1>7, <1>9, <1>10, ZenonT(30)
  DEF Once, FreshUnsent, SendersClaim, WaitingUnsent, OneSender, WorkInstalled, QueuedInSession,
      QueuesDistinct
<1>. QED BY <1>11, <1>12, Zenon

\* A steady step keeps the records of the requests on their way.
LEMMA SteadyQueue ==
  ASSUME IInv, IInv', Once, Steady
  PROVE  /\ \A c \in Conns : Installed(c) => Installed(c)'
         /\ \A h \in Keys : Queued(h) /\ Current(h[1])' => record'[h] \in Sent
<1>1. \A c \in Conns : handler'[c] \in {"idle", "registering", "connected", "returned"}
  BY Zenon DEF IInv, TypeInv
<1>2. \A c \in Conns : Installed(c) => Installed(c)' BY <1>1, Zenon DEF Installed, Steady
<1>3. ASSUME NEW h \in Keys, Queued(h), Current(h[1])' PROVE record'[h] \in Sent
  <2>1. h[1] \in Conns /\ Installed(h[1])
    BY <1>3, KeyParts, Zenon DEF Once, QueuedInSession, QueuesDistinct
  <2>2. Current(h[1]) BY <1>3, <2>1, Zenon DEF Steady, Installed
  <2>. QED BY <1>3, <2>2, Zenon DEF Once, QueuedInSession, QueuesDistinct, Steady
<1>. QED BY <1>2, <1>3, Zenon

\* A new stream starts with nothing queued to the agent.
LEMMA OpenOnce ==
  ASSUME Counting, IInv, IInv', QTypes, Once, NEW c \in Conns, AgentOpen(c)
  PROVE  Once' /\ \A h \in Keys : Work(h)' => Work(h)
<1>. DEFINE n == ServerOf[c]
            r == Count(activities(n))
<1>0. /\ session \in [Nodes -> Conns \cup {None}] /\ fromAgent \in [Conns -> Seq(Reports)] /\ n \in Nodes
      /\ handler \in [Conns -> {"idle", "registering", "connected", "returned"}]
  BY Zenon DEF QTypes, IInv, TypeInv
<1>1. /\ session[n] = None /\ session' = [session EXCEPT ![n] = c] /\ fromAgent' = [fromAgent EXCEPT ![c] = <<r>>]
      /\ UNCHANGED <<toAgent, worker, fresh>> /\ UNCHANGED <<streams, retiring, sender, ledgerVars>>
      /\ handler[c] = "idle" /\ handler' = [handler EXCEPT ![c] = "registering"]
  BY Zenon DEF AgentOpen, ConnectStart
<1>2. r \in Reports /\ r.type = "count" BY <1>0, ReportForms, Zenon DEF Counting
<1>3. \A d \in Conns : Installed(d) => Installed(d)' BY <1>0, <1>1, Zenon DEF Installed
<1>4. ASSUME NEW h \in Keys, Answered(h)' PROVE Answered(h)
  <2>0. r # Done(h[2]) BY <1>2, ReportForms, Zenon
  <2>. HIDE DEF r
  <2>1. CASE h[1] = c
    <3>1. fromAgent'[c] = <<r>> BY <1>0, <1>1, Zenon
    <3>. QED BY <1>4, <2>0, <2>1, <3>1, SMTT(30) DEF Answered, Has
  <2>2. CASE h[1] # c BY <1>0, <1>1, <1>4, <2>2, KeyParts, Zenon DEF Answered
  <2>. QED BY <2>1, <2>2, Zenon
<1>5. ASSUME NEW h \in Keys, Queued(h)'
      PROVE  Queued(h) /\ session'[ServerOf[h[1]]] = session[ServerOf[h[1]]]
  <2>1. Queued(h) /\ h[1] \in Conns /\ ServerOf[h[1]] \in Nodes
    BY <1>1, <1>5, KeyParts, Zenon DEF Queued
  <2>2. session[ServerOf[h[1]]] = h[1] BY <2>1, Zenon DEF Once, QueuedInSession
  <2>3. ServerOf[h[1]] # n BY <1>1, <2>1, <2>2, Zenon
  <2>. QED BY <1>0, <1>1, <2>1, <2>3, Zenon
<1>6. \A h \in Keys : Queued(h) /\ Current(h[1])' => record'[h] \in Sent
  BY <1>1, ZenonT(30)
  DEF Once, FreshUnsent, SendersClaim, WaitingUnsent, OneSender, WorkInstalled, QueuedInSession,
      QueuesDistinct, Current, ledgerVars
<1>7. \A d \in Conns : Distinct(toAgent[d])'
  BY <1>1, ZenonT(30)
  DEF Once, FreshUnsent, SendersClaim, WaitingUnsent, OneSender, WorkInstalled, QueuedInSession,
      QueuesDistinct
<1>8. \A s \in Senders : Key(s)' = Key(s) BY <1>1, Zenon DEF Key
<1>. QED BY <1>1, <1>3, <1>4, <1>5, <1>6, <1>7, <1>8, OnceHub, ZenonT(30)

\* The Hub's own steps move a sender towards its send or end it.
LEMMA AloneSenders ==
  ASSUME IInv, HubAlone
  PROVE  \A s \in Senders : sender'[s].pc # "idle" =>
           /\ sender[s].pc # "idle" /\ Key(s)' = Key(s) /\ sender'[s].msg = sender[s].msg
           /\ sender'[s].pc \in {"queued", "guard", "ready"} => sender[s].pc \in {"queued", "guard", "ready"}
<1>. DEFINE G(s) == sender'[s].pc # "idle" =>
           /\ sender[s].pc # "idle" /\ Key(s)' = Key(s) /\ sender'[s].msg = sender[s].msg
           /\ sender'[s].pc \in {"queued", "guard", "ready"} => sender[s].pc \in {"queued", "guard", "ready"}
            A == \A s \in Senders : G(s)
<1>0. sender \in [Senders -> SenderStates] BY Zenon DEF IInv, TypeInv
<1>1. ASSUME sender' = sender PROVE A BY <1>1, Zenon DEF Key
<1>2. ASSUME NEW t \in Senders, sender' = [sender EXCEPT ![t] = IdleSender] PROVE A
  BY <1>0, <1>2, Zenon DEF Key, IdleSender
<1>3. ASSUME NEW t \in Senders, sender[t].pc \in {"queued", "guard"},
             NEW p \in {"guard", "ready"}, sender' = [sender EXCEPT ![t].pc = p]
      PROVE  A
  <2>1. \A s \in Senders : s # t => sender'[s] = sender[s] BY <1>0, <1>3, Zenon
  <2>2. sender[t] \in SenderStates BY <1>0, Zenon
  <2>3. sender'[t] = [sender[t] EXCEPT !.pc = p] BY <1>0, <1>3, Zenon
  <2>4. sender[t] \in [pc : {"queued", "guard", "ready", "sending"}, conn : Conns, msg : Messages]
    BY <1>3, <2>2 DEF SenderStates, IdleSender
  <2>5. sender'[t].pc = p /\ sender'[t].conn = sender[t].conn /\ sender'[t].msg = sender[t].msg
    <3>. HIDE DEF A, G
    <3>. QED BY <2>3, <2>4, Zenon
  <2>. QED BY <1>3, <2>1, <2>5, Zenon DEF Key
<1>. HIDE DEF A
<1>4. ASSUME NEW c \in Conns, Register(c) \/ RegisterRetire(c) \/ Detach(c) \/ finishRetirement(c)
                                \/ ConnectReturn(c) \/ ReserveRefused(c)
      PROVE  A
  BY <1>1, <1>4, Zenon
  DEF Register, RegisterRetire, Detach, finishRetirement, ConnectReturn, ReserveRefused
<1>5. ASSUME NEW k \in Keys, BeginActivity(k[1], k[2]) \/ Abandon(k) PROVE A
  BY <1>1, <1>5, ZenonT(30) DEF BeginActivity, Abandon
<1>6. ASSUME NEW s \in Senders, SendLock(s) PROVE A
  <2>1. CASE sender[s].msg.kind \in Claiming BY <1>3, <1>6, <2>1, Zenon DEF SendLock
  <2>2. CASE sender[s].msg.kind \notin Claiming BY <1>3, <1>6, <2>2, Zenon DEF SendLock
  <2>. QED BY <2>1, <2>2, Zenon
<1>7. ASSUME NEW s \in Senders, SendGuard(s) PROVE A BY <1>3, <1>7, ZenonT(30) DEF SendGuard
<1>8. ASSUME NEW s \in Senders, SendRefused(s) \/ SendTimeout(s) PROVE A
  BY <1>1, <1>2, <1>8, Zenon DEF SendRefused, SendTimeout
<1>9. ASSUME NEW s \in Senders, NEW ok \in BOOLEAN, SendEnd(s, ok) PROVE A
  BY <1>2, <1>9, Zenon DEF SendEnd
<1>10. A BY <1>4, <1>5, <1>6, <1>7, <1>8, <1>9, Zenon DEF HubAlone
<1>. QED BY <1>10, Zenon DEF A

\* A send takes a fresh id.
LEMMA StartOnce ==
  ASSUME IInv, QTypes, Once, NEW s \in Senders, NEW k \in Keys, HubSendStart(s, k)
  PROVE  Once' /\ \A h \in Keys : Work(h)' => Work(h)
<1>. DEFINE m == [kind |-> "claimed", id |-> k[2]]
<1>0. sender \in [Senders -> SenderStates] /\ k[1] \in Conns /\ k = <<k[1], k[2]>>
  BY KeyParts, Zenon DEF IInv, TypeInv
<1>1. /\ k \in fresh /\ fresh' = fresh \ {k} /\ sender[s].pc = "idle"
      /\ sender' = [sender EXCEPT ![s] = [pc |-> "queued", conn |-> k[1], msg |-> m]]
      /\ UNCHANGED <<connVars, ledgerVars, agentVars>>
  BY Zenon DEF HubSendStart, SendStart
<1>2. sender'[s] = [pc |-> "queued", conn |-> k[1], msg |-> m] /\ \A t \in Senders : t # s => sender'[t] = sender[t]
  BY <1>0, <1>1, Zenon
<1>3. Key(s)' = k /\ sender'[s].msg.kind = "claimed" BY <1>0, <1>2, SMTT(30) DEF Key
<1>. HIDE DEF m
<1>o. /\ \A t \in Senders : sender[t].pc # "idle" => sender[t].msg.kind = "claimed" /\ Key(t) \notin fresh
      /\ \A t, u \in Senders : sender[t].pc # "idle" /\ sender[u].pc # "idle" /\ Key(t) = Key(u) => t = u
  BY ZenonT(30)
  DEF Once, FreshUnsent, SendersClaim, WaitingUnsent, OneSender, WorkInstalled, QueuedInSession,
      QueuesDistinct
<1>4. \A t \in Senders : t # s => Key(t)' = Key(t) BY <1>2, Zenon DEF Key
<1>5. \A h \in Keys : Unsent(h)' = Unsent(h) /\ Queued(h)' = Queued(h) /\ Answered(h)' = Answered(h)
  BY <1>1, Zenon DEF agentVars, Unsent, Queued, Answered
<1>6. \A c \in Conns : Installed(c)' = Installed(c) /\ Current(c)' = Current(c)
  BY <1>1, Zenon DEF connVars, Installed, Current
<1>7. UNCHANGED <<session, toAgent, worker, record>> BY <1>1, Zenon DEF agentVars, ledgerVars
<1>8. \A h \in fresh' : Unsent(h)' BY <1>1, <1>5, Zenon DEF Once, FreshUnsent, QTypes
<1>9. \A t \in Senders : sender'[t].pc # "idle" => sender'[t].msg.kind = "claimed" /\ Key(t)' \notin fresh'
  <2>1. k \notin fresh' BY <1>1, Zenon
  <2>2. ASSUME NEW t \in Senders, t # s, sender'[t].pc # "idle"
        PROVE  sender'[t].msg.kind = "claimed" /\ Key(t)' \notin fresh'
    <3>1. sender[t].pc # "idle" BY <1>2, <2>2, Zenon
    <3>2. sender[t].msg.kind = "claimed" /\ Key(t) \notin fresh BY <1>o, <3>1, Zenon
    <3>. QED BY <1>1, <1>2, <1>4, <2>2, <3>2, Zenon
  <2>. QED BY <1>3, <2>1, <2>2, Zenon
<1>10. \A t \in Senders : sender'[t].pc \in {"queued", "guard", "ready"} => Unsent(Key(t))'
  <2>0. \A h \in Keys, t \in Senders : Key(t)' = h /\ Unsent(h)' => Unsent(Key(t))'
    BY ZenonT(30) DEF Unsent, Queued, Answered
  <2>1. Unsent(Key(s))' BY <1>1, <1>3, <1>5, Zenon DEF Once, FreshUnsent
  <2>2. ASSUME NEW t \in Senders, t # s, sender'[t].pc \in {"queued", "guard", "ready"}
        PROVE  Unsent(Key(t))'
    <3>1. sender[t].pc \in {"queued", "guard", "ready"} /\ sender[t].pc # "idle"
      BY <1>2, <2>2, Zenon
    <3>2. Unsent(Key(t)) /\ Key(t) \in Keys BY <3>1, SenderKey, Zenon DEF Once, WaitingUnsent
    <3>. QED BY <1>4, <1>5, <2>2, <3>2, Zenon
  <2>. QED BY <2>1, <2>2, Zenon
<1>11. \A t, u \in Senders : sender'[t].pc # "idle" /\ sender'[u].pc # "idle" /\ Key(t)' = Key(u)' => t = u
  <2>1. \A t \in Senders : t # s /\ sender'[t].pc # "idle" => Key(t)' # k
    BY <1>1, <1>2, <1>4, <1>o, Zenon
  <2>2. \A t, u \in Senders : t # s /\ u # s /\ sender'[t].pc # "idle" /\ sender'[u].pc # "idle" /\ Key(t)' = Key(u)'
           => t = u
    BY <1>2, <1>4, <1>o
  <2>. QED BY <1>3, <2>1, <2>2, Zenon
<1>12. \A h \in Keys : worker'[h] # "none" => Installed(h[1])' BY <1>6, <1>7, KeyParts, Zenon
  DEF Once, WorkInstalled
<1>13. \A h \in Keys : Queued(h)' =>
         /\ session'[ServerOf[h[1]]] = h[1] /\ Installed(h[1])' /\ worker'[h] = "none" /\ ~Answered(h)'
         /\ Current(h[1])' => record'[h] \in Sent
  BY <1>5, <1>6, <1>7, KeyParts, Zenon DEF Once, FreshUnsent, QueuedInSession, QueuesDistinct
<1>14. \A c \in Conns : Distinct(toAgent[c])'
  BY <1>7, ZenonT(30)
  DEF Once, FreshUnsent, SendersClaim, WaitingUnsent, OneSender, WorkInstalled, QueuedInSession,
      QueuesDistinct
<1>15. \A h \in Keys : Work(h)' => Work(h) BY <1>5, <1>7, Zenon DEF Work
<1>16. Once'
  BY <1>8, <1>9, <1>10, <1>11, <1>12, <1>13, <1>14, ZenonT(30)
  DEF Once, FreshUnsent, SendersClaim, WaitingUnsent, OneSender, WorkInstalled, QueuedInSession,
      QueuesDistinct
<1>. QED BY <1>15, <1>16, Zenon

\* The request handed to the transport was nowhere before.
LEMMA SendOnce ==
  ASSUME IInv, IInv', QTypes, Once, NEW s \in Senders, HubSend(s)
  PROVE  Once' /\ \A h \in Keys : Work(h)' => Work(h) \/ Sending(h)
<1>. DEFINE c == sender[s].conn
            i == sender[s].msg.id
            k == Key(s)
<1>0. /\ sender \in [Senders -> SenderStates] /\ toAgent \in [Conns -> Seq(Ids)]
  BY Zenon DEF IInv, TypeInv, QTypes
<1>1. sender[s].pc = "ready" /\ sender' = [sender EXCEPT ![s].pc = "sending"] BY Zenon
  DEF HubSend, prepareActivitySend
<1>2. c \in Conns /\ i \in Ids /\ k \in Keys /\ k[1] = c /\ k[2] = i BY <1>1, SenderKey, Zenon
<1>3. Steady /\ record'[k] \in Sent /\ Current(c) /\ UNCHANGED connVars
  BY PrepareSteady, ZenonT(30) DEF HubSend
<1>4. UNCHANGED <<session, fromAgent, worker, fresh>> BY Zenon DEF HubSend
<1>5. \/ session[ServerOf[c]] = c /\ toAgent' = [toAgent EXCEPT ![c] = Append(toAgent[c], i)]
      \/ UNCHANGED toAgent
  BY Zenon DEF HubSend
<1>6. /\ sender'[s].pc = "sending" /\ sender'[s].conn = c /\ sender'[s].msg = sender[s].msg
      /\ \A t \in Senders : t # s => sender'[t] = sender[t]
  <2>1. sender[s] \in [pc : {"queued", "guard", "ready", "sending"}, conn : Conns, msg : Messages]
    BY <1>0, <1>1 DEF SenderStates, IdleSender
  <2>2. sender'[s] = [sender[s] EXCEPT !.pc = "sending"] BY <1>0, <1>1, Zenon
  <2>. QED BY <1>0, <1>1, <2>1, <2>2, Zenon
<1>7. \A t \in Senders : Key(t)' = Key(t) BY <1>6, Zenon DEF Key
<1>8. Unsent(k) BY <1>1, Zenon DEF Once, WaitingUnsent
<1>9. \A y : Has(Append(toAgent[c], i), y) <=> Has(toAgent[c], y) \/ i = y
  BY <1>0, <1>2, HasAppend, SMTT(30)
<1>. HIDE DEF c, i, k
<1>10. ASSUME NEW h \in Keys, Queued(h)' PROVE Queued(h) \/ (h = k /\ session[ServerOf[c]] = c)
  <2>1. CASE UNCHANGED toAgent BY <1>10, <2>1, Zenon DEF Queued
  <2>2. CASE session[ServerOf[c]] = c /\ toAgent' = [toAgent EXCEPT ![c] = Append(toAgent[c], i)]
    <3>1. CASE h[1] = c
      <4>1. Has(toAgent[c], h[2]) \/ i = h[2]
        BY <1>0, <1>2, <1>9, <1>10, <2>2, <3>1, Zenon DEF Queued
      <4>2. i = h[2] => h = k BY <1>2, <3>1, KeyParts, Zenon
      <4>. QED BY <2>2, <3>1, <4>1, <4>2, Zenon DEF Queued
    <3>2. CASE h[1] # c BY <1>0, <1>10, <2>2, <3>2, KeyParts, Zenon DEF Queued
    <3>. QED BY <3>1, <3>2, Zenon
  <2>. QED BY <1>5, <2>1, <2>2, Zenon
<1>11. \A h \in Keys : Answered(h)' = Answered(h) BY <1>4, Zenon DEF Answered
<1>12. \A d \in Conns : Distinct(toAgent[d])'
  <2>0. \A d \in Conns : Distinct(toAgent[d])
    BY Zenon
    DEF Once, FreshUnsent, SendersClaim, WaitingUnsent, OneSender, WorkInstalled,
        QueuedInSession, QueuesDistinct
  <2>1. ~Has(toAgent[c], i) BY <1>2, <1>8, Zenon DEF Unsent, Queued
  <2>2. Distinct(Append(toAgent[c], i)) BY <1>0, <1>2, <2>0, <2>1, DistinctAppend, Zenon
  <2>. QED BY <1>0, <1>5, <2>0, <2>2, ZenonT(30)
<1>13. Installed(c) BY <1>1, Zenon DEF IInv, GInv, GenerationInv, c
<1>14. \A d \in Conns : Installed(d)' = Installed(d) /\ Current(d)' = Current(d)
  BY <1>3, Zenon DEF connVars, Installed, Current
<1>15. \A h \in Keys : h # k => (Unsent(h) => Unsent(h)') BY <1>4, <1>10, <1>11, Zenon DEF Unsent
<1>16. k \notin fresh /\ \A t \in Senders : t # s /\ sender[t].pc # "idle" => Key(t) # k
  BY <1>1, Zenon DEF Once, SendersClaim, OneSender, k
<1>17. \A h \in fresh' : Unsent(h)' BY <1>4, <1>15, <1>16, Zenon
  DEF Once, FreshUnsent, SendersClaim, WorkInstalled, QTypes
<1>18. \A t \in Senders : sender'[t].pc # "idle" => sender'[t].msg.kind = "claimed" /\ Key(t)' \notin fresh'
  <2>1. \A t \in Senders : sender'[t].pc # "idle" => sender[t].pc # "idle" /\ sender'[t].msg = sender[t].msg
    BY <1>1, <1>6, Zenon
  <2>. QED BY <1>4, <1>7, <2>1, Zenon DEF Once, SendersClaim, WorkInstalled
<1>19. \A t \in Senders : sender'[t].pc \in {"queued", "guard", "ready"} => Unsent(Key(t))'
  <2>. SUFFICES ASSUME NEW t \in Senders, sender'[t].pc \in {"queued", "guard", "ready"}
                PROVE  Unsent(Key(t))'
    BY Zenon
  <2>1. t # s /\ sender[t].pc \in {"queued", "guard", "ready"} /\ sender[t].pc # "idle"
    BY <1>6, Zenon
  <2>2. Unsent(Key(t)) /\ Key(t) \in Keys /\ Key(t) # k
    BY <1>16, <2>1, SenderKey, Zenon DEF Once, WaitingUnsent
  <2>3. \A h \in Keys : Key(t)' = h /\ Unsent(h)' => Unsent(Key(t))'
    BY Zenon DEF Unsent, Queued, Answered
  <2>. QED BY <1>7, <1>15, <2>2, Zenon
<1>20. \A t, u \in Senders : sender'[t].pc # "idle" /\ sender'[u].pc # "idle" /\ Key(t)' = Key(u)' => t = u
  <2>1. \A t \in Senders : sender'[t].pc # "idle" => sender[t].pc # "idle" BY <1>1, <1>6, Zenon
  <2>. QED BY <1>7, <2>1, Zenon DEF Once, OneSender
<1>21. \A h \in Keys : worker'[h] # "none" => Installed(h[1])'
  BY <1>4, <1>14, KeyParts, Zenon DEF Once, WorkInstalled
<1>22. ASSUME NEW h \in Keys, Queued(h)'
       PROVE  /\ session'[ServerOf[h[1]]] = h[1] /\ Installed(h[1])' /\ worker'[h] = "none" /\ ~Answered(h)'
              /\ Current(h[1])' => record'[h] \in Sent
  <2>1. CASE Queued(h)
    <3>1. Current(h[1])' => record'[h] \in Sent BY <1>3, <2>1, SteadyQueue, Zenon
    <3>. QED BY <1>4, <1>11, <1>14, <2>1, <3>1, KeyParts, Zenon DEF Once, QueuedInSession
  <2>2. CASE h = k /\ session[ServerOf[c]] = c
    BY <1>2, <1>3, <1>4, <1>8, <1>11, <1>13, <1>14, <2>2, ZenonT(30) DEF Unsent
  <2>. QED BY <1>10, <1>22, <2>1, <2>2, Zenon
<1>23. Once'
  BY <1>12, <1>17, <1>18, <1>19, <1>20, <1>21, <1>22, ZenonT(30)
  DEF Once, FreshUnsent, SendersClaim, WaitingUnsent, OneSender, WorkInstalled, QueuedInSession,
      QueuesDistinct
<1>24. liveLocked(c) /\ ~GenerationMuFree(c)
  BY <1>1, Zenon DEF HubSend, prepareActivitySend, c, GenerationMuFree, SendsUnder
<1>25. ASSUME NEW h \in Keys, Work(h)' PROVE Work(h) \/ Sending(h)
  BY <1>2, <1>3, <1>4, <1>10, <1>24, <1>25, Zenon DEF Work, Sending
<1>. QED BY <1>23, <1>25, Zenon

\* Routing a message takes it from its queue and changes only the record of the
\* activity whose response it is.
LEMMA RouteEffect ==
  ASSUME IInv, QTypes, Once, NEW c \in Conns, routeAgentMessage(c)
  PROVE  /\ UNCHANGED <<connVars, sender, reserving, maintenance, dialed, session, toAgent, worker, fresh>>
         /\ fromAgent' = [fromAgent EXCEPT ![c] = Tail(fromAgent[c])]
         /\ \A h \in Keys : Answered(h)' => Answered(h)
         /\ \A h \in Keys : record'[h] # record[h] =>
              /\ Head(fromAgent[c]).type = "done" /\ Head(fromAgent[c]).id = h[2] /\ h[1] = c /\ Answered(h)
<1>. DEFINE m == Head(fromAgent[c])
            q == fromAgent[c]
<1>0. fromAgent \in [Conns -> Seq(Reports)] /\ record \in [Keys -> {"absent", "admitted", "dispatched", "abandoned"}]
  BY Zenon DEF QTypes, IInv, TypeInv
<1>1. /\ m \in Reports /\ q # <<>> /\ q \in Seq(Reports)
      /\ \/ m.type = "done" /\ m.id \in Ids /\ m = Done(m.id) /\ (CompleteActivity(c, m.id) \/ UNCHANGED vars)
         \/ m.type = "count" /\ ObserveActivityCapabilities(c, m.count)
  BY Routed, Zenon
<1>2. UNCHANGED <<dialed, session, toAgent, worker, fresh>> /\ fromAgent' = [fromAgent EXCEPT ![c] = Tail(q)]
  BY Zenon DEF routeAgentMessage
<1>3. \A y : Has(q, y) <=> Has(Tail(q), y) \/ m = y BY <1>1, HasTail, ZenonT(30)
<1>. HIDE DEF m, q
<1>4. UNCHANGED <<connVars, sender, reserving, maintenance>>
  BY <1>1, ZenonT(30) DEF CompleteActivity, ObserveActivityCapabilities, vars
<1>5. ASSUME NEW h \in Keys, Answered(h)' PROVE Answered(h)
  <2>1. CASE h[1] = c BY <1>0, <1>2, <1>3, <1>5, <2>1, Zenon DEF Answered, q
  <2>2. CASE h[1] # c BY <1>0, <1>2, <1>5, <2>2, KeyParts, Zenon DEF Answered
  <2>. QED BY <2>1, <2>2, Zenon
<1>6. ASSUME NEW h \in Keys, record'[h] # record[h]
      PROVE  m.type = "done" /\ m.id = h[2] /\ h[1] = c /\ Answered(h)
  <2>1. m.type = "done" /\ m.id \in Ids /\ m = Done(m.id) /\ CompleteActivity(c, m.id)
    BY <1>1, <1>6, Zenon DEF ObserveActivityCapabilities, vars, ledgerVars
  <2>2. record' = [record EXCEPT ![<<c, m.id>>] = "absent"]
    BY <2>1, ZenonT(30) DEF CompleteActivity, removeActivityLocked
  <2>3. h = <<c, m.id>> BY <1>0, <1>6, <2>2, Zenon
  <2>4. h[1] = c /\ h[2] = m.id BY <2>3, Zenon
  <2>. QED BY <1>3, <2>1, <2>4, Zenon DEF Answered, q
<1>. QED BY <1>2, <1>4, <1>5, <1>6, Zenon DEF m, q

-----------------------------------------------------------------------------
(* An idle agent.                                                          *)

\* An agent is quiescent when no key of its server has work.
LEMMA QuiescentWork ==
  ASSUME QTypes, InOrder, Once, NEW n \in Nodes
  PROVE  Quiescent(n) <=> \A k \in Keys : ServerOf[k[1]] = n => ~Work(k)
<1>1. ASSUME Quiescent(n), NEW k \in Keys, ServerOf[k[1]] = n PROVE ~Work(k)
  <2>1. worker[k] = "none" BY <1>1, Zenon DEF Quiescent, Running
  <2>2. ASSUME Queued(k) PROVE FALSE
    <3>1. session[n] = k[1] /\ k[1] \in Conns
      BY <1>1, <2>2, KeyParts, Zenon DEF Once, QueuedInSession
    <3>2. toAgent[k[1]] = <<>> BY <1>1, <3>1, Zenon DEF Quiescent
    <3>. QED BY <2>2, <3>2, Empty, Zenon DEF Queued
  <2>. QED BY <2>1, <2>2, Zenon DEF Work
<1>2. ASSUME \A k \in Keys : ServerOf[k[1]] = n => ~Work(k) PROVE Quiescent(n)
  <2>1. Running(n) = {} BY <1>2, Zenon DEF Running, Work
  <2>2. ASSUME session[n] # None, toAgent[session[n]] # <<>> PROVE FALSE
    <3>. DEFINE c == session[n]
                k == <<c, Head(toAgent[c])>>
    <3>1. c \in Conns /\ ServerOf[c] = n BY <2>2, SessionServer, Zenon
    <3>2. toAgent[c] \in Seq(Ids) BY <3>1, Zenon DEF QTypes
    <3>3. Head(toAgent[c]) \in Ids /\ Has(toAgent[c], Head(toAgent[c]))
      BY <2>2, <3>2, HasTail, SMTT(30)
    <3>4. k \in Keys /\ Queued(k) BY <3>1, <3>3, Zenon DEF Keys, Queued
    <3>. QED BY <1>2, <3>1, <3>4, Zenon DEF Work
  <2>. QED BY <2>1, <2>2, Zenon DEF Quiescent
<1>. QED BY <1>1, <1>2, Zenon

\* activityIdleLocked without an administrator's assertion is right about a server
\* that was observed and is not late.
LEMMA IdleQuiescent ==
  ASSUME IInv, QTypes, InOrder, Once, AllAccounted, NEW c \in Conns,
         ServerOf[c] \in observed \ late,
         streams[ServerOf[c]] = c, activityIdleLocked(c, FALSE)
  PROVE  Quiescent(ServerOf[c])
<1>. DEFINE n == ServerOf[c]
<1>1. activityCounts[c] = 0 /\ n \notin uncertain /\ NodeActivities(n) = {}
  BY Zenon DEF activityIdleLocked
<1>2. ASSUME NEW k \in Keys, ServerOf[k[1]] = n, Work(k) PROVE FALSE
  <2>1. Accounted(k) BY <1>2, Zenon DEF AllAccounted
  <2>2. record[k] \notin Sent BY <1>1, <1>2, Zenon DEF NodeActivities, Activities, Sent
  <2>3. \A d \in Conns : ServerOf[d] = n /\ activityCounts[d] > 0 => d = c
    BY Zenon DEF IInv, WorkInv
  <2>. QED BY <1>1, <1>2, <2>1, <2>2, <2>3, SMTT(30) DEF Accounted
<1>. QED BY <1>2, QuiescentWork, Zenon

\* A reservation commits only on a quiescent agent, unless the server is late and
\* nobody asserted that it is idle; it touches only the ledger of its own server,
\* and that only if the agent is quiescent.
LEMMA CommitEffect ==
  ASSUME IInv, QTypes, InOrder, Once, AllAccounted, Reserved, NEW c \in Conns, CommitUpdate(c)
  PROVE  /\ UNCHANGED <<connVars, sender, activityCounts, agentVars, fresh, observed>>
         /\ Quiescent(ServerOf[c]) \/ (ServerOf[c] \in late /\ UNCHANGED ledgerVars)
         /\ \A k \in Keys : ServerOf[k[1]] # ServerOf[c] => record'[k] = record[k]
         /\ \A n \in Nodes : n # ServerOf[c] =>
              (n \in uncertain' <=> n \in uncertain) /\ maintenance'[n] = maintenance[n]
         /\ reserving' = [reserving EXCEPT ![c] = None]
<1>. DEFINE n == ServerOf[c]
<1>0. record \in [Keys -> {"absent", "admitted", "dispatched", "abandoned"}] /\ n \in Nodes
      /\ maintenance \in [Nodes -> Ops \cup {None}]
  BY Zenon DEF IInv, TypeInv
<1>1. ReserveCommit(c) /\ UNCHANGED <<agentVars, fresh, observed>> BY Zenon DEF CommitUpdate
<1>2. /\ reserving[c] # None /\ liveLocked(c) /\ activityIdleLocked(c, reserving[c].manual)
      /\ UNCHANGED <<connVars, sender>> /\ reserving' = [reserving EXCEPT ![c] = None]
      /\ maintenance' = [maintenance EXCEPT ![n] = reserving[c].op]
  BY <1>1, Zenon DEF ReserveCommit
<1>3. CASE reserving[c].manual
  <2>1. Quiescent(n) BY <1>2, <1>3, Zenon DEF Reserved
  <2>2. clearAbandonedActivitiesLocked(c) BY <1>1, <1>3, Zenon DEF ReserveCommit
  <2>3. UNCHANGED activityCounts /\ uncertain' = uncertain \ {n}
    BY <2>2, Zenon DEF clearAbandonedActivitiesLocked
  <2>4. \A k \in Keys : ServerOf[k[1]] # n => record'[k] = record[k]
    BY <2>2, Zenon DEF clearAbandonedActivitiesLocked
  <2>. QED BY <1>0, <1>1, <1>2, <2>1, <2>3, <2>4, Zenon
<1>4. CASE ~reserving[c].manual
  <2>1. UNCHANGED ledgerVars BY <1>1, <1>4, Zenon DEF ReserveCommit
  <2>2. reserving[c].manual = FALSE
    <3>1. reserving[c] \in Reservations BY <1>2, Zenon DEF IInv, TypeInv
    <3>. QED BY <1>4, <3>1, Zenon DEF Reservations
  <2>3. Quiescent(n) \/ n \in late BY <1>2, <2>2, IdleQuiescent, Zenon DEF Reserved, liveLocked
  <2>. QED BY <1>0, <1>1, <1>2, <2>1, <2>3, Zenon DEF ledgerVars
<1>. QED BY <1>3, <1>4, ZenonT(30)

\* Every step keeps requests unrepeated, and only a send creates work.
LEMMA OnceStep ==
  ASSUME Counting, IInv, IInv', QTypes, InOrder, Once, AllAccounted, Reserved, QNext
  PROVE  Once' /\ \A h \in Keys : Work(h)' => Work(h) \/ Sending(h)
<1>. DEFINE Fine == Once' /\ \A h \in Keys : Work(h)' => Work(h)
<1>s. ASSUME Steady, UNCHANGED <<agentVars, fresh, sender>> PROVE Fine
  <2>1. \A h \in Keys : Queued(h)' = Queued(h) /\ Answered(h)' = Answered(h)
    BY <1>s, ZenonT(30) DEF agentVars, Queued, Answered
  <2>2. \A s \in Senders : Key(s)' = Key(s) BY <1>s, Zenon DEF Key
  <2>3. \A d \in Conns : Distinct(toAgent[d])' BY <1>s, Zenon DEF Once, QueuesDistinct, agentVars
  <2>4. UNCHANGED <<worker, session>> BY <1>s, Zenon DEF agentVars
  <2>. QED BY <1>s, <2>1, <2>2, <2>3, <2>4, SteadyQueue, OnceHub, ZenonT(30)
<1>1. ASSUME NEW c \in Conns, routeAgentMessage(c) PROVE Fine
  <2>1. /\ UNCHANGED <<connVars, sender, session, toAgent, worker, fresh>>
        /\ \A h \in Keys : Answered(h)' => Answered(h)
        /\ \A h \in Keys : record'[h] # record[h] => Answered(h)
    BY <1>1, RouteEffect, ZenonT(30)
  <2>2. \A h \in Keys : Queued(h)' = Queued(h) BY <2>1, Zenon DEF Queued
  <2>3. \A s \in Senders : Key(s)' = Key(s) BY <2>1, Zenon DEF Key
  <2>4. \A d \in Conns : Distinct(toAgent[d])' BY <2>1, Zenon DEF Once, QueuesDistinct
  <2>5. \A d \in Conns : Installed(d)' = Installed(d) /\ Current(d)' = Current(d)
    BY <2>1, Zenon DEF connVars, Installed, Current
  <2>6. \A h \in Keys : Queued(h) /\ Current(h[1])' => record'[h] \in Sent
    BY <2>1, <2>5, KeyParts, Zenon DEF Once, QueuedInSession
  <2>. QED BY <2>1, <2>2, <2>3, <2>4, <2>5, <2>6, OnceHub, ZenonT(30)
<1>2. ASSUME NEW c \in Conns, NEW op \in Ops, NEW manual \in BOOLEAN, StartUpdate(c, op, manual)
      PROVE  Fine
  <2>1. UNCHANGED <<connVars, ledgerVars, agentVars, fresh, sender>>
    BY <1>2, Zenon DEF StartUpdate, ReserveBegin
  <2>. QED BY <1>s, <2>1, SteadyRegistry, Zenon DEF connVars, ledgerVars
<1>3. ASSUME NEW n \in Nodes, NEW op \in Ops, EndUpdate(n, op) PROVE Fine
  <2>1. UNCHANGED <<connVars, ledgerVars, agentVars, fresh, sender>>
    BY <1>3, Zenon DEF EndUpdate, ReleaseMaintenance
  <2>. QED BY <1>s, <2>1, SteadyRegistry, Zenon DEF connVars, ledgerVars
<1>4. ASSUME NEW c \in Conns, CommitUpdate(c) PROVE Fine
  <2>1. /\ UNCHANGED <<connVars, sender, agentVars, fresh>>
        /\ Quiescent(ServerOf[c]) \/ UNCHANGED ledgerVars
        /\ \A k \in Keys : ServerOf[k[1]] # ServerOf[c] => record'[k] = record[k]
    BY <1>4, CommitEffect, ZenonT(30)
  <2>2. \A h \in Keys : Queued(h)' = Queued(h) /\ Answered(h)' = Answered(h)
    BY <2>1, ZenonT(30) DEF agentVars, Queued, Answered
  <2>3. \A s \in Senders : Key(s)' = Key(s) BY <2>1, Zenon DEF Key
  <2>4. \A d \in Conns : Distinct(toAgent[d])'
    BY <2>1, ZenonT(30)
    DEF Once, FreshUnsent, SendersClaim, WaitingUnsent, OneSender, WorkInstalled,
        QueuedInSession, QueuesDistinct, agentVars
  <2>5. \A d \in Conns : Installed(d)' = Installed(d) /\ Current(d)' = Current(d)
    BY <2>1, Zenon DEF connVars, Installed, Current
  <2>6. \A h \in Keys : Queued(h) => record'[h] = record[h]
    <3>1. CASE UNCHANGED ledgerVars BY <3>1, Zenon DEF ledgerVars
    <3>2. CASE Quiescent(ServerOf[c]) BY <2>1, <3>2, QuiescentWork, Zenon DEF Work
    <3>. QED BY <2>1, <3>1, <3>2, Zenon
  <2>7. \A h \in Keys : Queued(h) /\ Current(h[1])' => record'[h] \in Sent
    BY <2>5, <2>6, KeyParts, Zenon DEF Once, QueuedInSession
  <2>8. UNCHANGED <<worker, session>> BY <2>1, Zenon DEF agentVars
  <2>. QED BY <2>1, <2>2, <2>3, <2>4, <2>5, <2>7, <2>8, OnceHub, ZenonT(30)
<1>5. CASE HubCrash
  <2>0. handler \in [Conns -> {"idle", "registering", "connected", "returned"}]
    BY Zenon DEF IInv, TypeInv
  <2>1. /\ handler' = [c \in Conns |-> IF handler[c] = "idle" THEN "idle" ELSE "returned"]
        /\ streams' = [n \in Nodes |-> None] /\ sender' = [s \in Senders |-> IdleSender]
        /\ fromAgent' = [c \in Conns |-> <<>>] /\ UNCHANGED <<session, toAgent, worker, fresh>>
    BY <1>5, ZenonT(30) DEF HubCrash
  <2>2. \A d \in Conns : (Installed(d) => Installed(d)') /\ ~Current(d)'
    BY <2>0, <2>1, Zenon DEF Installed, Current
  <2>3. \A h \in Keys : ~Answered(h)' BY <2>1, Empty, KeyParts, Zenon DEF Answered
  <2>4. \A h \in Keys : Queued(h)' = Queued(h) BY <2>1, Zenon DEF Queued
  <2>5. \A s \in Senders : sender'[s].pc = "idle" BY <2>1, Zenon DEF IdleSender
  <2>6. \A d \in Conns : Distinct(toAgent[d])' BY <2>1, Zenon DEF Once, QueuesDistinct
  <2>. QED BY <2>1, <2>2, <2>3, <2>4, <2>5, <2>6, OnceHub, KeyParts, Zenon
<1>6. CASE HubAlone
  <2>1. Steady /\ UNCHANGED <<agentVars, fresh>> BY <1>6, AloneSteady, Zenon DEF HubAlone
  <2>2. \A h \in Keys : Queued(h)' = Queued(h) /\ Answered(h)' = Answered(h)
    BY <2>1, Zenon DEF agentVars, Queued, Answered
  <2>3. \A d \in Conns : Distinct(toAgent[d])' BY <2>1, Zenon DEF Once, QueuesDistinct, agentVars
  <2>4. UNCHANGED <<worker, session>> BY <2>1, Zenon DEF agentVars
  <2>. QED BY <1>6, <2>1, <2>2, <2>3, <2>4, SteadyQueue, AloneSenders, OnceHub, ZenonT(30)
<1>. QED
  BY <1>1, <1>2, <1>3, <1>4, <1>5, <1>6, OpenOnce, AgentOnce, WorkerOnce, StartOnce, SendOnce,
     Zenon
  DEF QNext, HubStep

=============================================================================
