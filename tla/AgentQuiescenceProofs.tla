----------------------- MODULE AgentQuiescenceProofs ------------------------
(***************************************************************************)
(* Proofs about AgentQuiescence: the Hub's conclusion that an agent is idle*)
(* is right, for any number of servers, generations, requests and crashes, *)
(* at every server where no handler registered late: after the handler of a*)
(* stream that the agent opened later.                                     *)
(*                                                                         *)
(* The argument follows the reports.  A worker is counted in the report    *)
(* queued when it starts and in the first report of every later stream, and*)
(* a zero is queued only when no worker is left.  Reports of one stream stay*)
(* in order, so the Hub reads a count with the worker before its response, *)
(* and a zero only after it has gone.  Where no overtaken stream is        *)
(* installed, no zero of an earlier time reaches the Hub either.           *)
(***************************************************************************)
EXTENDS AgentQuiescenceMessages, ConnManagerProofs

USE ServerOfAssumption, NoneAssumption
-----------------------------------------------------------------------------
(* Queued reports.                                                         *)

\* Appending a report that is no idle count keeps a queue busy and its promises,
\* and a new count promises every activity not answered before it.
LEMMA AppendBusy ==
  ASSUME NEW q \in Seq(Reports), NEW r \in Reports, r.type = "count" => r.count > 0
  PROVE  /\ Busy(q, 1) => Busy(Append(q, r), 1)
         /\ \A i \in Ids : Promised(q, i) => Promised(Append(q, r), i)
         /\ r.type = "count" => \A i \in Ids : ~Has(q, Done(i)) => Promised(Append(q, r), i)
<1>. DEFINE t == Append(q, r)
<1>1. /\ Len(t) = Len(q) + 1 /\ Len(q) \in Nat /\ t[Len(t)] = r
      /\ \A i \in 1..Len(q) : t[i] = q[i]
  OBVIOUS
<1>. HIDE DEF t
<1>2. \A i \in 1..Len(t) : (i \in 1..Len(q) /\ t[i] = q[i]) \/ i = Len(t) BY <1>1, SMTT(30)
<1>3. ASSUME NEW p \in 1..Len(q), Busy(q, p) PROVE p \in 1..Len(t) /\ Busy(t, p)
  <2>1. p \in 1..Len(t) BY <1>1, SMTT(30)
  <2>2. \A j \in p..Len(t) : (j \in p..Len(q) /\ t[j] = q[j]) \/ j = Len(t) BY <1>1, SMTT(30)
  <2>. QED BY <1>1, <1>3, <2>1, <2>2, Zenon DEF Busy
<1>4. Busy(q, 1) => Busy(t, 1) BY <1>1, <1>2, Zenon DEF Busy
<1>5. ASSUME NEW i \in Ids, Promised(q, i) PROVE Promised(t, i)
  <2>1. PICK p \in 1..Len(q) : q[p].type = "count" /\ Busy(q, p) /\ \A j \in 1..p : q[j] # Done(i)
    BY <1>5, Zenon DEF Promised
  <2>2. p \in 1..Len(t) /\ t[p] = q[p] /\ Busy(t, p) BY <1>1, <1>3, <2>1, Zenon
  <2>3. \A j \in 1..p : t[j] = q[j] BY <1>1, <2>1, SMTT(30)
  <2>. QED BY <2>1, <2>2, <2>3, Zenon DEF Promised
<1>6. ASSUME r.type = "count", NEW i \in Ids, ~Has(q, Done(i)) PROVE Promised(t, i)
  <2>1. Len(t) \in 1..Len(t) BY <1>1
  <2>2. \A j \in Len(t)..Len(t) : j = Len(t) BY <1>1, SMTT(30)
  <2>3. Busy(t, Len(t)) BY <1>1, <1>6, <2>2, Zenon DEF Busy
  <2>4. r # Done(i) BY <1>6, ReportForms, Zenon
  <2>5. \A j \in 1..Len(t) : t[j] # Done(i) BY <1>1, <1>2, <1>6, <2>4, ZenonT(30) DEF Has
  <2>. QED BY <1>1, <1>6, <2>1, <2>3, <2>5, Zenon DEF Promised
<1>. QED BY <1>4, <1>5, <1>6, Zenon DEF t

\* What the first report of a queue says when it is taken.
LEMMA TailBusy ==
  ASSUME NEW q \in Seq(Reports), q # <<>>
  PROVE  /\ Busy(q, 1) => Busy(Tail(q), 1) /\ (Head(q).type = "count" => Head(q).count > 0)
         /\ \A i \in Ids : Promised(q, i) =>
              /\ Head(q) # Done(i)
              /\ \/ Promised(Tail(q), i)
                 \/ Head(q).type = "count" /\ Head(q).count > 0 /\ Busy(Tail(q), 1)
<1>. DEFINE t == Tail(q)
<1>1. /\ Len(t) = Len(q) - 1 /\ Len(q) \in Nat \ {0} /\ Head(q) = q[1]
      /\ \A i \in 1..Len(t) : t[i] = q[i + 1]
  OBVIOUS
<1>. HIDE DEF t
<1>2. ASSUME NEW p \in 1..Len(q), Busy(q, p), p > 1
      PROVE  p - 1 \in 1..Len(t) /\ t[p - 1] = q[p] /\ Busy(t, p - 1)
  <2>1. p - 1 \in 1..Len(t) /\ t[p - 1] = q[p] BY <1>1, <1>2, SMTT(30)
  <2>2. \A j \in (p - 1)..Len(t) : j + 1 \in p..Len(q) /\ t[j] = q[j + 1] BY <1>1, <2>1, SMTT(30)
  <2>. QED BY <1>2, <2>1, <2>2, Zenon DEF Busy
<1>3. ASSUME Busy(q, 1) PROVE Busy(t, 1) /\ (Head(q).type = "count" => Head(q).count > 0)
  <2>1. \A j \in 1..Len(t) : j + 1 \in 1..Len(q) /\ t[j] = q[j + 1] BY <1>1
  <2>2. 1 \in 1..Len(q) BY <1>1
  <2>. QED BY <1>1, <1>3, <2>1, <2>2, Zenon DEF Busy
<1>4. ASSUME NEW i \in Ids, Promised(q, i)
      PROVE  /\ Head(q) # Done(i)
             /\ Promised(t, i) \/ (Head(q).type = "count" /\ Head(q).count > 0 /\ Busy(t, 1))
  <2>1. PICK p \in 1..Len(q) : q[p].type = "count" /\ Busy(q, p) /\ \A j \in 1..p : q[j] # Done(i)
    BY <1>4, Zenon DEF Promised
  <2>2. Head(q) # Done(i) BY <1>1, <2>1
  <2>3. CASE p = 1 BY <1>1, <1>3, <2>1, <2>2, <2>3, Zenon
  <2>4. CASE p # 1
    <3>1. p - 1 \in 1..Len(t) /\ t[p - 1] = q[p] /\ Busy(t, p - 1) BY <1>2, <2>1, <2>4, SMTT(30)
    <3>2. \A j \in 1..(p - 1) : t[j] = q[j + 1] /\ j + 1 \in 1..p BY <1>1, <2>1, <2>4, SMTT(30)
    <3>3. \A j \in 1..(p - 1) : t[j] # Done(i) BY <2>1, <3>2, Zenon
    <3>. QED BY <2>1, <2>2, <3>1, <3>3, Zenon DEF Promised
  <2>. QED BY <2>3, <2>4, Zenon
<1>. QED BY <1>3, <1>4, Zenon DEF t

\* An overtaken generation stays overtaken.
LEMMA OvertakenGrows ==
  ASSUME QTypes, InOrder, dialed' = dialed, NEW d \in Conns,
         \A e \in Conns : handler[e] \notin {"idle", "registering"} => handler'[e] # "registering"
  PROVE  Overtaken(d) => Overtaken(d)'
<1>. DEFINE opened == dialed[ServerOf[d]]
<1>1. opened \in Seq(Conns) /\ ServerOf[d] \in Nodes BY Zenon DEF QTypes
<1>2. \A j \in DOMAIN opened : opened[j] \in Conns /\ handler[opened[j]] # "idle"
  BY <1>1 DEF InOrder, DialedOnce
<1>. QED BY <1>1, <1>2, Zenon DEF Overtaken

\* A steady step keeps every worker reported.
LEMMA SteadyReported ==
  ASSUME IInv, QTypes, InOrder, Once, Reported, Steady, UNCHANGED <<dialed, fromAgent, worker>>
  PROVE  Reported'
<1>1. \A d \in Conns : Overtaken(d) => Overtaken(d)' BY OvertakenGrows, Zenon DEF Steady
<1>2. \A d \in Conns : Coming(d)' => Coming(d) BY <1>1, Zenon DEF Coming, Steady
<1>3. ASSUME NEW k \in Keys, worker'[k] # "none", Current(k[1])' PROVE Counted(k)'
  <2>1. k[1] \in Conns /\ Installed(k[1]) BY <1>3, KeyParts, Zenon DEF Once, WorkInstalled
  <2>2. Current(k[1]) BY <1>3, <2>1, ZenonT(30) DEF Steady, Installed
  <2>3. Counted(k) BY <1>3, <2>2, Zenon DEF Reported
  <2>4. activityCounts'[k[1]] = activityCounts[k[1]] BY <1>3, <2>1, Zenon DEF Steady
  <2>5. record[k] \in Sent => record'[k] \in Sent BY <1>3, Zenon DEF Steady
  <2>. QED BY <2>3, <2>4, <2>5, ZenonT(30) DEF Counted
<1>4. \A k \in Keys : worker'[k] # "none" =>
         \A d \in Conns : d # k[1] /\ ServerOf[d] = ServerOf[k[1]] /\ Coming(d)' => Busy(fromAgent[d], 1)'
  BY <1>2, ZenonT(30) DEF Reported
<1>. QED BY <1>3, <1>4, ZenonT(30) DEF Reported

\* Taking a report off its queue keeps every worker reported: a response is
\* followed by its worker's count, and a count takes the place of the promise.
LEMMA RouteReported ==
  ASSUME IInv, QTypes, InOrder, Once, Reported, NEW c \in Conns, routeAgentMessage(c)
  PROVE  Reported'
<1>. DEFINE q == fromAgent[c]
            m == Head(q)
<1>0. fromAgent \in [Conns -> Seq(Reports)] /\ activityCounts \in [Conns -> Nat]
  BY Zenon DEF QTypes, IInv, TypeInv
<1>1. /\ UNCHANGED <<connVars, dialed, worker>> /\ fromAgent' = [fromAgent EXCEPT ![c] = Tail(q)]
      /\ \A h \in Keys : record'[h] # record[h] => m.type = "done" /\ m.id = h[2] /\ h[1] = c
  BY RouteEffect, ZenonT(30)
<1>2. /\ m \in Reports /\ q # <<>> /\ q \in Seq(Reports)
      /\ \/ m.type = "done" /\ m = Done(m.id) /\ UNCHANGED activityCounts
         \/ m.type = "count" /\ activityCounts' = [activityCounts EXCEPT ![c] = m.count]
  <2>1. /\ m \in Reports /\ q # <<>> /\ q \in Seq(Reports)
        /\ \/ m.type = "done" /\ m.id \in Ids /\ m = Done(m.id) /\ (CompleteActivity(c, m.id) \/ UNCHANGED vars)
           \/ m.type = "count" /\ ObserveActivityCapabilities(c, m.count)
    BY Routed, Zenon
  <2>2. CompleteActivity(c, m.id) \/ UNCHANGED vars => UNCHANGED activityCounts
    BY ZenonT(30) DEF CompleteActivity, removeActivityLocked, vars, ledgerVars
  <2>3. ObserveActivityCapabilities(c, m.count) => activityCounts' = [activityCounts EXCEPT ![c] = m.count]
    BY ZenonT(30) DEF ObserveActivityCapabilities
  <2>. QED BY <2>1, <2>2, <2>3, Zenon
<1>3. /\ Busy(q, 1) => Busy(Tail(q), 1) /\ (m.type = "count" => m.count > 0)
      /\ \A i \in Ids : Promised(q, i) =>
           m # Done(i) /\ (Promised(Tail(q), i) \/ (m.type = "count" /\ m.count > 0 /\ Busy(Tail(q), 1)))
  BY <1>2, TailBusy, ZenonT(30)
<1>4. fromAgent'[c] = Tail(q) /\ \A d \in Conns : d # c => fromAgent'[d] = fromAgent[d]
  BY <1>0, <1>1, Zenon
<1>. HIDE DEF q, m
<1>5. \A d \in Conns : Current(d)' = Current(d) /\ Coming(d)' = Coming(d)
  BY <1>1, ZenonT(30) DEF connVars, Current, Coming, Overtaken
<1>6. \A d \in Conns : Busy(fromAgent[d], 1) => Busy(fromAgent[d], 1)'
  BY <1>3, <1>4, ZenonT(30) DEF q
<1>7. ASSUME NEW k \in Keys, worker'[k] # "none", Current(k[1])' PROVE Counted(k)'
  <2>1. k[1] \in Conns /\ k[2] \in Ids BY KeyParts, Zenon
  <2>2. Counted(k) BY <1>1, <1>5, <1>7, <2>1, ZenonT(30) DEF Reported
  <2>3. CASE k[1] # c
    <3>1. record'[k] = record[k] BY <1>1, <2>3, Zenon
    <3>2. activityCounts'[k[1]] = activityCounts[k[1]] BY <1>0, <1>2, <2>1, <2>3, Zenon
    <3>3. fromAgent'[k[1]] = fromAgent[k[1]] BY <1>4, <2>1, <2>3, Zenon
    <3>. QED BY <2>2, <3>1, <3>2, <3>3, ZenonT(30) DEF Counted
  <2>4. CASE k[1] = c /\ m.type = "done"
    <3>1. activityCounts'[c] = activityCounts[c] /\ m = Done(m.id) BY <1>2, <2>4, Zenon
    <3>2. CASE activityCounts[c] > 0 /\ Busy(q, 1)
      BY <1>3, <1>4, <2>4, <3>1, <3>2, ZenonT(30) DEF Counted
    <3>3. CASE record[k] \in Sent /\ Promised(q, k[2])
      <4>1. m # Done(k[2]) /\ Promised(Tail(q), k[2]) BY <1>3, <2>1, <2>4, <3>3, ZenonT(30)
      <4>2. record'[k] = record[k] BY <1>1, <3>1, <4>1, Zenon
      <4>. QED BY <1>4, <2>4, <3>3, <4>1, <4>2, ZenonT(30) DEF Counted
    <3>. QED BY <2>2, <2>4, <3>2, <3>3, ZenonT(30) DEF Counted, q
  <2>5. CASE k[1] = c /\ m.type = "count"
    <3>1. activityCounts'[c] = m.count /\ record'[k] = record[k]
      BY <1>0, <1>1, <1>2, <2>5, ZenonT(30)
    <3>2. CASE activityCounts[c] > 0 /\ Busy(q, 1)
      BY <1>3, <1>4, <2>5, <3>1, <3>2, ZenonT(30) DEF Counted
    <3>3. CASE record[k] \in Sent /\ Promised(q, k[2])
      BY <1>3, <1>4, <2>1, <2>5, <3>1, <3>3, ZenonT(30) DEF Counted
    <3>. QED BY <2>2, <2>5, <3>2, <3>3, ZenonT(30) DEF Counted, q
  <2>. QED BY <1>2, <2>3, <2>4, <2>5, Zenon
<1>8. ASSUME NEW k \in Keys, worker'[k] # "none", NEW d \in Conns, d # k[1], ServerOf[d] = ServerOf[k[1]], Coming(d)'
      PROVE  Busy(fromAgent[d], 1)'
  BY <1>1, <1>5, <1>6, <1>8, ZenonT(30) DEF Reported
<1>. QED BY <1>7, <1>8, ZenonT(30) DEF Reported

-----------------------------------------------------------------------------
(* Running workers are reported.                                           *)

\* Reports that count what runs keep every worker reported.
LEMMA AgentReported ==
  ASSUME IInv, QTypes, Reported, UNCHANGED <<vars, dialed>>, \A c \in Conns : Grows(c),
         \A h \in Keys : worker'[h] # "none" =>
           \/ worker[h] # "none"
           \/ /\ Current(h[1]) => Counted(h)'
              /\ \A d \in Conns : d # h[1] /\ ServerOf[d] = ServerOf[h[1]] => ~Coming(d)
  PROVE  Reported'
<1>0. fromAgent \in [Conns -> Seq(Reports)] BY Zenon DEF QTypes
<1>1. UNCHANGED <<connVars, record, activityCounts>> BY Zenon DEF vars, ledgerVars
<1>2. \A d \in Conns : Current(d)' = Current(d) /\ Coming(d)' = Coming(d)
  BY <1>1, Zenon DEF connVars, Current, Coming, Overtaken
<1>3. ASSUME NEW c \in Conns, NEW h \in Keys, ServerOf[h[1]] = ServerOf[c], worker'[h] # "none"
      PROVE  /\ Busy(fromAgent[c], 1) => Busy(fromAgent[c], 1)'
             /\ \A i \in Ids : Promised(fromAgent[c], i) => Promised(fromAgent'[c], i)
  <2>1. CASE fromAgent'[c] = fromAgent[c] BY <2>1, Zenon
  <2>2. ASSUME NEW r \in Reports, fromAgent'[c] = Append(fromAgent[c], r), r.type = "count" => r.count > 0
        PROVE  /\ Busy(fromAgent[c], 1) => Busy(fromAgent[c], 1)'
               /\ \A i \in Ids : Promised(fromAgent[c], i) => Promised(fromAgent'[c], i)
    <3>1. /\ Busy(fromAgent[c], 1) => Busy(Append(fromAgent[c], r), 1)
          /\ \A i \in Ids : Promised(fromAgent[c], i) => Promised(Append(fromAgent[c], r), i)
      BY <1>0, <2>2, AppendBusy, Zenon
    <3>. QED BY <2>2, <3>1, Zenon
  <2>3. Grows(c) BY Zenon
  <2>. QED BY <1>3, <2>1, <2>2, <2>3, Zenon DEF Grows
<1>4. ASSUME NEW k \in Keys, worker'[k] # "none", Current(k[1])' PROVE Counted(k)'
  <2>1. k[1] \in Conns /\ k[2] \in Ids BY KeyParts, Zenon
  <2>2. CASE worker[k] # "none"
    <3>1. Counted(k) BY <1>2, <1>4, <2>1, <2>2, Zenon DEF Reported
    <3>2. /\ Busy(fromAgent[k[1]], 1) => Busy(fromAgent'[k[1]], 1)
          /\ Promised(fromAgent[k[1]], k[2]) => Promised(fromAgent'[k[1]], k[2])
      BY <1>3, <1>4, <2>1, Zenon
    <3>. QED BY <1>1, <3>1, <3>2, Zenon DEF Counted
  <2>3. CASE worker[k] = "none" BY <1>2, <1>4, <2>1, <2>3, Zenon
  <2>. QED BY <2>2, <2>3, Zenon
<1>5. ASSUME NEW k \in Keys, worker'[k] # "none", NEW d \in Conns, d # k[1], ServerOf[d] = ServerOf[k[1]], Coming(d)'
      PROVE  Busy(fromAgent[d], 1)'
  <2>1. Coming(d) BY <1>2, <1>5, Zenon
  <2>2. worker[k] # "none" BY <1>5, <2>1, Zenon
  <2>3. Busy(fromAgent[d], 1) BY <1>5, <2>1, <2>2, Zenon DEF Reported
  <2>. QED BY <1>3, <1>5, <2>3, Zenon
<1>. QED BY <1>4, <1>5, Zenon DEF Reported

\* A dispatched worker is counted in the report queued with it, and no other
\* generation of the server can still become current.
LEMMA AgentStepReported ==
  ASSUME Counting, IInv, QTypes, InOrder, Once, Reported, NEW n \in Nodes, AgentStep(n)
  PROVE  Reported'
<1>0. /\ session \in [Nodes -> Conns \cup {None}]
      /\ toAgent \in [Conns -> Seq(Ids)] /\ fromAgent \in [Conns -> Seq(Reports)]
      /\ worker \in [Keys -> {"none", "running", "responded"}]
  BY Zenon DEF QTypes
<1>1. CASE AgentClose(n) \/ AgentCrash(n)
  <2>1. UNCHANGED <<vars, dialed, fromAgent>> BY <1>1, Zenon DEF AgentClose, AgentCrash
  <2>2. \A h \in Keys : worker'[h] # "none" => worker[h] # "none"
    BY <1>0, <1>1, Zenon DEF AgentClose, AgentCrash
  <2>3. \A c \in Conns : Grows(c) BY <2>1, Zenon DEF Grows
  <2>. QED BY <2>1, <2>2, <2>3, AgentReported, Zenon
<1>2. CASE AgentReject(n)
  <2>. DEFINE c == session[n]
              i == Head(toAgent[c])
  <2>0. c \in Conns /\ toAgent[c] \in Seq(Ids) /\ toAgent[c] # <<>>
    BY <1>0, <1>2, Zenon DEF AgentReject
  <2>1. /\ fromAgent' = [fromAgent EXCEPT ![c] = Append(fromAgent[c], Done(i))] /\ UNCHANGED <<vars, dialed, worker>>
    BY <1>2, Zenon DEF AgentReject
  <2>2. Done(i) \in Reports /\ Done(i).type = "done" BY <2>0, ReportForms, SMTT(30)
  <2>. HIDE DEF c, i
  <2>3. \A d \in Conns : Grows(d) BY <1>0, <2>1, <2>2, Zenon DEF Grows
  <2>. QED BY <2>1, <2>3, AgentReported, Zenon
<1>3. CASE AgentDispatch(n)
  <2>. DEFINE c == session[n]
              i == Head(toAgent[c])
              k == <<c, i>>
              r == Count(activities(n) + 1)
  <2>0. /\ c \in Conns /\ ServerOf[c] = n /\ c # None /\ toAgent[c] \in Seq(Ids) /\ toAgent[c] # <<>>
    BY <1>0, <1>3, SessionServer, Zenon DEF AgentDispatch
  <2>1. /\ worker' = [worker EXCEPT ![k] = "running"]
        /\ fromAgent' = [fromAgent EXCEPT ![c] = Append(fromAgent[c], r)] /\ UNCHANGED <<vars, dialed>>
    BY <1>3, Zenon DEF AgentDispatch
  <2>2. r \in Reports /\ r.type = "count" /\ r.count > 0 BY ReportForms DEF Counting
  <2>3. i \in Ids /\ k \in Keys /\ k[1] = c /\ k[2] = i /\ Has(toAgent[c], i)
    BY <2>0, HasTail DEF Keys
  <2>. HIDE DEF c, i, k, r
  <2>4. Queued(k) BY <2>3, Zenon DEF Queued
  <2>5. Installed(c) /\ ~Answered(k) /\ (Current(c) => record[k] \in Sent) BY <2>3, <2>4, Zenon
    DEF Once, QueuedInSession
  <2>6. fromAgent'[c] = Append(fromAgent[c], r) BY <1>0, <2>0, <2>1, Zenon
  <2>7. Promised(fromAgent'[c], i)
    <3>1. ~Has(fromAgent[c], Done(i)) BY <2>3, <2>5, Zenon DEF Answered
    <3>2. fromAgent[c] \in Seq(Reports) BY <1>0, <2>0, Zenon
    <3>. QED BY <2>2, <2>3, <2>6, <3>1, <3>2, AppendBusy, Zenon
  <2>8. \A h \in Keys : h = k /\ Current(h[1]) => Counted(h)'
    BY <2>1, <2>3, <2>5, <2>7, Zenon DEF Counted, vars, ledgerVars
  <2>9. ASSUME NEW d \in Conns, d # c, ServerOf[d] = n, Coming(d) PROVE FALSE
    <3>1. handler[d] # "idle" BY <2>9, Zenon DEF Coming, Current, InOrder, NoneOvertaken, Installed
    <3>. QED BY <2>0, <2>5, <2>9, <3>1, LastOpened, Zenon DEF c, Coming
  <2>10. \A d \in Conns : Grows(d)
    <3>1. \A d \in Conns : d # c => fromAgent'[d] = fromAgent[d] BY <1>0, <2>1, Zenon
    <3>. QED BY <2>2, <2>6, <3>1, Zenon DEF Grows
  <2>11. \A h \in Keys : h # k => worker'[h] = worker[h] BY <1>0, <2>1, Zenon
  <2>. QED BY <2>0, <2>1, <2>3, <2>8, <2>9, <2>10, <2>11, AgentReported, Zenon
<1>. QED BY <1>1, <1>2, <1>3, Zenon DEF AgentStep

\* A release is reported as idle only when no worker is left.
LEMMA WorkerReported ==
  ASSUME Counting, IInv, QTypes, InOrder, Reported, NEW k \in Keys, WorkerStep(k)
  PROVE  Reported'
<1>0. /\ session \in [Nodes -> Conns \cup {None}] /\ fromAgent \in [Conns -> Seq(Reports)]
      /\ worker \in [Keys -> {"none", "running", "responded"}]
  BY Zenon DEF QTypes
<1>1. /\ UNCHANGED <<vars, dialed>> /\ worker[k] # "none"
      /\ worker' \in {[worker EXCEPT ![k] = "responded"], [worker EXCEPT ![k] = "none"]}
  BY Zenon DEF WorkerStep, WorkerRespond, WorkerRelease
<1>2. \A h \in Keys : worker'[h] # "none" => worker[h] # "none" BY <1>0, <1>1, Zenon
<1>3. CASE WorkerRespond(k)
  <2>1. fromAgent' \in {fromAgent, [fromAgent EXCEPT ![k[1]] = Append(fromAgent[k[1]], Done(k[2]))]}
    BY <1>3, Zenon DEF WorkerRespond
  <2>2. Done(k[2]) \in Reports /\ Done(k[2]).type = "done" BY KeyParts, ReportForms, Zenon
  <2>3. \A c \in Conns : c # k[1] => fromAgent'[c] = fromAgent[c] BY <1>0, <2>1, Zenon
  <2>4. fromAgent'[k[1]] \in {fromAgent[k[1]], Append(fromAgent[k[1]], Done(k[2]))}
    BY <1>0, <2>1, KeyParts, Zenon
  <2>5. \A c \in Conns : Grows(c) BY <2>2, <2>3, <2>4, Zenon DEF Grows
  <2>. QED BY <1>1, <1>2, <2>5, AgentReported, Zenon
<1>4. CASE WorkerRelease(k)
  <2>. DEFINE n == ServerOf[k[1]]
              c == session[n]
              r == Count(activities(n) - 1)
  <2>1. fromAgent' = fromAgent \/ (c # None /\ fromAgent' = [fromAgent EXCEPT ![c] = Append(fromAgent[c], r)])
    BY <1>4, ZenonT(30) DEF WorkerRelease
  <2>2. n \in Nodes /\ k \in Running(n) BY <1>1, KeyParts, Zenon DEF Running
  <2>3. activities(n) - 1 \in Nat BY <2>2 DEF Counting
  <2>4. r \in Reports /\ r.count = activities(n) - 1 BY <2>3, ReportForms, Zenon
  <2>5. worker' = [worker EXCEPT ![k] = "none"] BY <1>4, Zenon DEF WorkerRelease
  <2>6. ASSUME ~(r.count > 0), NEW h \in Keys, ServerOf[h[1]] = n PROVE worker'[h] = "none"
    <3>1. CASE h = k BY <1>0, <2>5, <3>1, Zenon
    <3>2. CASE h # k
      <4>1. h \notin Running(n) BY <2>2, <2>3, <2>4, <2>6, <3>2 DEF Counting
      <4>. QED BY <1>0, <2>5, <2>6, <3>2, <4>1, Zenon DEF Running
    <3>. QED BY <3>1, <3>2, Zenon
  <2>7. c # None => c \in Conns /\ ServerOf[c] = n BY <2>2, SessionServer, Zenon
  <2>. HIDE DEF c, r, n
  <2>8. \A d \in Conns : Grows(d)
    <3>1. CASE fromAgent' = fromAgent BY <3>1, Zenon DEF Grows
    <3>2. CASE c # None /\ fromAgent' = [fromAgent EXCEPT ![c] = Append(fromAgent[c], r)]
      <4>1. \A d \in Conns : d # c => fromAgent'[d] = fromAgent[d] BY <1>0, <3>2, Zenon
      <4>2. fromAgent'[c] = Append(fromAgent[c], r) BY <1>0, <2>7, <3>2, Zenon
      <4>. QED BY <2>4, <2>6, <2>7, <3>2, <4>1, <4>2, Zenon DEF Grows
    <3>. QED BY <2>1, <3>1, <3>2, Zenon
  <2>. QED BY <1>1, <1>2, <2>8, AgentReported, Zenon
<1>. QED BY <1>3, <1>4, Zenon DEF WorkerStep

\* A new stream starts with the count of the workers that run.
LEMMA OpenReported ==
  ASSUME Counting, IInv, QTypes, InOrder, Once, Reported, NEW c \in Conns, AgentOpen(c)
  PROVE  Reported'
<1>. DEFINE n == ServerOf[c]
            r == Count(activities(n))
<1>0. /\ fromAgent \in [Conns -> Seq(Reports)] /\ n \in Nodes /\ dialed \in [Nodes -> Seq(Conns)]
      /\ handler \in [Conns -> {"idle", "registering", "connected", "returned"}]
  BY Zenon DEF QTypes, IInv, TypeInv
<1>1. /\ fromAgent' = [fromAgent EXCEPT ![c] = <<r>>] /\ dialed' = [dialed EXCEPT ![n] = Append(dialed[n], c)]
      /\ UNCHANGED worker /\ UNCHANGED <<streams, retiring, ledgerVars>>
      /\ handler[c] = "idle" /\ handler' = [handler EXCEPT ![c] = "registering"]
  BY Zenon DEF AgentOpen, ConnectStart
<1>2. \A k \in Keys : worker[k] # "none" => k[1] \in Conns /\ k[1] # c BY <1>1, KeyParts, Zenon
  DEF Once, WorkInstalled, Installed
<1>3. \A d \in Conns : Current(d)' = Current(d) BY <1>1, Zenon DEF Current
<1>4. \A d \in Conns : d # c => fromAgent'[d] = fromAgent[d] BY <1>0, <1>1, Zenon
<1>5. ASSUME NEW d \in Conns, d # c, Overtaken(d) PROVE Overtaken(d)'
  <2>. DEFINE m == ServerOf[d]
  <2>0. m \in Nodes /\ dialed[m] \in Seq(Conns) BY <1>0, Zenon
  <2>1. PICK i \in DOMAIN dialed[m], j \in DOMAIN dialed[m] :
          i < j /\ dialed[m][i] = d /\ handler[dialed[m][j]] # "registering"
    BY <1>5, Zenon DEF Overtaken
  <2>2. dialed[m][j] \in Conns /\ handler[dialed[m][j]] # "idle" BY <2>0 DEF InOrder, DialedOnce
  <2>3. handler'[dialed[m][j]] # "registering" BY <1>0, <1>1, <2>1, <2>2, Zenon
  <2>4. /\ i \in DOMAIN dialed'[m] /\ j \in DOMAIN dialed'[m] /\ dialed'[m][i] = dialed[m][i]
        /\ dialed'[m][j] = dialed[m][j]
    <3>1. CASE m # n BY <1>0, <1>1, <2>0, <3>1, Zenon
    <3>2. CASE m = n
      <4>1. dialed'[m] = Append(dialed[m], c) BY <1>0, <1>1, <3>2, Zenon
      <4>. QED BY <2>0, <2>1, <4>1, SMTT(30)
    <3>. QED BY <3>1, <3>2, Zenon
  <2>. QED BY <2>1, <2>3, <2>4, Zenon DEF Overtaken
<1>6. \A d \in Conns : d # c /\ Coming(d)' => Coming(d)
  BY <1>0, <1>1, <1>3, <1>5, Zenon DEF Coming
<1>7. ASSUME NEW k \in Keys, worker'[k] # "none", Current(k[1])' PROVE Counted(k)'
  <2>1. k[1] \in Conns /\ k[1] # c BY <1>1, <1>2, <1>7, Zenon
  <2>2. Counted(k) BY <1>1, <1>3, <1>7, <2>1, Zenon DEF Reported
  <2>3. fromAgent'[k[1]] = fromAgent[k[1]] BY <1>4, <2>1, Zenon
  <2>. QED BY <1>1, <2>2, <2>3, Zenon DEF Counted, ledgerVars
<1>8. ASSUME NEW k \in Keys, worker'[k] # "none", NEW d \in Conns, d # k[1], ServerOf[d] = ServerOf[k[1]], Coming(d)'
      PROVE  Busy(fromAgent[d], 1)'
  <2>1. CASE d # c
    <3>1. Busy(fromAgent[d], 1) BY <1>1, <1>6, <1>8, <2>1, Zenon DEF Reported
    <3>. QED BY <1>4, <2>1, <3>1, Zenon
  <2>2. CASE d = c
    <3>1. k \in Running(n) BY <1>1, <1>8, <2>2, Zenon DEF Running
    <3>2. r.type = "count" /\ r.count > 0 BY <1>0, <3>1, ReportForms DEF Counting
    <3>. HIDE DEF r
    <3>3. fromAgent'[d] = <<r>> BY <1>0, <1>1, <2>2, Zenon
    <3>4. Busy(<<r>>, 1) BY <3>2 DEF Busy
    <3>. QED BY <3>3, <3>4, Zenon
  <2>. QED BY <2>1, <2>2, Zenon
<1>. QED BY <1>7, <1>8, Zenon DEF Reported

\* A commit changes no record of a running worker.
LEMMA CommitReported ==
  ASSUME IInv, QTypes, InOrder, Once, Reported, AllAccounted, Reserved, NEW c \in Conns, CommitUpdate(c)
  PROVE  Reported'
<1>1. /\ UNCHANGED <<connVars, activityCounts, agentVars>>
      /\ Quiescent(ServerOf[c]) \/ UNCHANGED ledgerVars
      /\ \A k \in Keys : ServerOf[k[1]] # ServerOf[c] => record'[k] = record[k]
  BY CommitEffect, Zenon
<1>2. UNCHANGED <<dialed, fromAgent, worker>> BY <1>1, Zenon DEF agentVars
<1>3. \A d \in Conns : Current(d)' = Current(d) /\ Coming(d)' = Coming(d)
  BY <1>1, <1>2 DEF connVars, Current, Coming, Overtaken
<1>4. \A k \in Keys : worker[k] # "none" => record'[k] = record[k]
  <2>1. CASE UNCHANGED ledgerVars BY <2>1, Zenon DEF ledgerVars
  <2>2. CASE Quiescent(ServerOf[c]) BY <1>1, <2>2, Zenon DEF Quiescent, Running
  <2>. QED BY <1>1, <2>1, <2>2, Zenon
<1>5. \A k \in Keys : worker[k] # "none" /\ Counted(k) => Counted(k)'
  BY <1>1, <1>2, <1>4, Zenon DEF Counted
<1>. QED BY <1>2, <1>3, <1>5, KeyParts, Zenon DEF Reported

\* Every step keeps every worker reported.
LEMMA ReportedStep ==
  ASSUME Counting, IInv, IInv', QTypes, InOrder, Once, Reported, AllAccounted, Reserved, QNext
  PROVE  Reported'
<1>1. ASSUME NEW s \in Senders, NEW k \in Keys, HubSendStart(s, k) PROVE Reported'
  <2>1. UNCHANGED <<connVars, ledgerVars, agentVars>> BY <1>1, Zenon DEF HubSendStart, SendStart
  <2>. QED BY <2>1, SteadyRegistry, SteadyReported, Zenon DEF connVars, ledgerVars, agentVars
<1>2. ASSUME NEW s \in Senders, HubSend(s) PROVE Reported'
  BY <1>2, PrepareSteady, SteadyReported, Zenon DEF HubSend
<1>3. ASSUME NEW c \in Conns, NEW op \in Ops, NEW manual \in BOOLEAN, StartUpdate(c, op, manual)
      PROVE  Reported'
  <2>1. UNCHANGED <<connVars, ledgerVars, agentVars>> BY <1>3, Zenon DEF StartUpdate, ReserveBegin
  <2>. QED BY <2>1, SteadyRegistry, SteadyReported, Zenon DEF connVars, ledgerVars, agentVars
<1>4. ASSUME NEW n \in Nodes, NEW op \in Ops, EndUpdate(n, op) PROVE Reported'
  <2>1. UNCHANGED <<connVars, ledgerVars, agentVars>>
    BY <1>4, Zenon DEF EndUpdate, ReleaseMaintenance
  <2>. QED BY <2>1, SteadyRegistry, SteadyReported, Zenon DEF connVars, ledgerVars, agentVars
<1>5. CASE HubCrash
  <2>1. /\ handler' = [c \in Conns |-> IF handler[c] = "idle" THEN "idle" ELSE "returned"]
        /\ streams' = [n \in Nodes |-> None]
    BY <1>5, Zenon DEF HubCrash
  <2>2. \A d \in Conns : ~Current(d)' /\ ~Coming(d)' BY <2>1, Zenon DEF Current, Coming
  <2>. QED BY <2>2, KeyParts, Zenon DEF Reported
<1>6. CASE HubAlone
  <2>1. UNCHANGED agentVars BY <1>6, Zenon DEF HubAlone
  <2>. QED BY <1>6, <2>1, AloneSteady, SteadyReported, Zenon DEF agentVars
<1>. QED
  BY <1>1, <1>2, <1>3, <1>4, <1>5, <1>6, OpenReported, AgentStepReported, WorkerReported,
     RouteReported, CommitReported, Zenon
  DEF QNext, HubStep

-----------------------------------------------------------------------------
(* Work is accounted for.                                                  *)

\* A steady step keeps all work accounted for.
LEMMA SteadyAccounted ==
  ASSUME AllAccounted, Steady, UNCHANGED observed, late \subseteq late',
         \A h \in Keys : Work(h)' => Work(h) \/ Sending(h)
  PROVE  AllAccounted'
<1>1. ASSUME NEW k \in Keys, Accounted(k) PROVE Accounted(k)'
  BY <1>1, Zenon DEF Accounted, Steady
<1>2. \A k \in Keys : Sending(k) => Accounted(k)' BY Zenon DEF Sending, Accounted
<1>. QED BY <1>1, <1>2, Zenon DEF AllAccounted

\* Neither the completion of an activity nor a count takes running work off the
\* Hub's books, a count of zero of a later generation included, at a server that
\* is not late.
LEMMA RouteAccounted ==
  ASSUME IInv, QTypes, InOrder, Once, Reported, AllAccounted, UNCHANGED late,
         NEW c \in Conns, routeAgentMessage(c)
  PROVE  AllAccounted'
<1>. DEFINE q == fromAgent[c]
            m == Head(q)
            n == ServerOf[c]
<1>0. /\ activityCounts \in [Conns -> Nat] /\ n \in Nodes
      /\ record \in [Keys -> {"absent", "admitted", "dispatched", "abandoned"}]
  BY Zenon DEF IInv, TypeInv
<1>1. /\ UNCHANGED <<toAgent, worker>>
      /\ \A h \in Keys : record'[h] # record[h] =>
              m.type = "done" /\ m.id = h[2] /\ h[1] = c /\ Answered(h)
  BY RouteEffect, Zenon
<1>2. /\ m \in Reports /\ q # <<>> /\ q \in Seq(Reports)
      /\ \/ m.type = "done" /\ m.id \in Ids /\ m = Done(m.id) /\ (CompleteActivity(c, m.id) \/ UNCHANGED vars)
         \/ m.type = "count" /\ m.count \in 0..MaxNodeActivities /\ ObserveActivityCapabilities(c, m.count)
  BY Routed, Zenon
<1>3. /\ Busy(q, 1) => (m.type = "count" => m.count > 0)
      /\ \A i \in Ids : Promised(q, i) => m # Done(i)
  BY <1>2, TailBusy, ZenonT(30)
<1>4. \A h \in Keys : Work(h)' => Work(h) BY <1>1, Zenon DEF Work, Queued
<1>5. m.type = "done" => observed' = observed BY Zenon DEF routeAgentMessage
<1>6. observed' \in {observed, observed \cup {n}} BY Zenon DEF routeAgentMessage
<1>. HIDE DEF q, m
<1>7. CASE m.type = "done" /\ UNCHANGED vars
  <2>1. UNCHANGED <<record, uncertain, activityCounts>> BY <1>7, Zenon DEF vars, ledgerVars
  <2>. QED BY <1>4, <1>5, <1>7, <2>1, Zenon DEF AllAccounted, Accounted
<1>8. CASE m.type = "done" /\ m.id \in Ids /\ m = Done(m.id) /\ CompleteActivity(c, m.id)
  <2>. DEFINE k == <<c, m.id>>
  <2>0. k \in Keys /\ k[1] = c /\ k[2] = m.id BY <1>8, Zenon DEF Keys
  <2>1. /\ record[k] # "absent" /\ UNCHANGED activityCounts /\ record' = [record EXCEPT ![k] = "absent"]
        /\ uncertain \subseteq uncertain'
    BY <1>8, Zenon DEF CompleteActivity, removeActivityLocked
  <2>2. Current(c) BY <1>8, <2>1, Zenon DEF IInv, WorkInv, Current
  <2>. HIDE DEF k
  <2>3. \A h \in Keys : h # k => record'[h] = record[h] BY <1>0, <2>1, Zenon
  <2>4. ASSUME Work(k) PROVE activityCounts[c] > 0 \/ record[k] \notin Sent
    <3>1. SUFFICES ASSUME record[k] \in Sent PROVE activityCounts[c] > 0 BY Zenon
    <3>2. record'[k] # record[k] BY <1>0, <2>0, <2>1, Zenon
    <3>3. Answered(k) BY <1>1, <2>0, <3>2, Zenon
    <3>4. worker[k] # "none" BY <2>0, <2>4, <3>3, Zenon DEF Once, QueuedInSession, Work
    <3>5. Counted(k) BY <2>0, <2>2, <3>4, Zenon DEF Reported
    <3>. QED BY <1>3, <1>8, <2>0, <3>5, Zenon DEF Counted, q
  <2>5. ASSUME NEW h \in Keys, Work(h), Accounted(h) PROVE Accounted(h)'
    <3>1. CASE h # k BY <2>1, <2>3, <2>5, <3>1, Zenon DEF Accounted
    <3>2. CASE h = k BY <2>0, <2>1, <2>4, <2>5, <3>2, Zenon DEF Accounted
    <3>. QED BY <3>1, <3>2, Zenon
  <2>. QED BY <1>4, <1>5, <1>8, <2>5, Zenon DEF AllAccounted
<1>9. CASE m.type = "count" /\ m.count \in 0..MaxNodeActivities /\ ObserveActivityCapabilities(c, m.count)
  <2>1. /\ activityCounts' = [activityCounts EXCEPT ![c] = m.count] /\ UNCHANGED record /\ liveLocked(c)
        /\ \A x \in Nodes : x # n => (x \in uncertain' <=> x \in uncertain)
    BY <1>9, Zenon DEF ObserveActivityCapabilities
  <2>2. Current(c) /\ Installed(c) /\ (n \notin late => ~Overtaken(c)) /\ handler[c] # "idle"
    BY <2>1 DEF liveLocked, Current, InOrder, NoneOvertaken, IInv, GInv, GenerationInv, Installed
  <2>3. n \notin late => Coming(c) BY <2>2, Zenon DEF Coming
  <2>4. ASSUME NEW h \in Keys, Work(h), ServerOf[h[1]] = n, n \notin late PROVE Accounted(h)'
    <3>1. CASE m.count > 0
      <4>1. activityCounts'[c] > 0 BY <1>0, <2>1, <3>1, Zenon
      <4>. QED BY <2>4, <4>1, Zenon DEF Accounted
    <3>2. CASE ~(m.count > 0)
      <4>0. ~Busy(q, 1) BY <1>3, <1>9, <3>2, Zenon
      <4>1. h[1] \in Conns BY KeyParts, Zenon
      <4>2. ASSUME worker[h] # "none" PROVE record[h] \in Sent
        <5>1. h[1] = c BY <2>3, <2>4, <4>0, <4>2, Zenon DEF Reported, q
        <5>2. Counted(h) BY <2>2, <4>2, <5>1, Zenon DEF Reported
        <5>. QED BY <4>0, <5>1, <5>2, Zenon DEF Counted, q
      <4>3. ASSUME Queued(h) PROVE record[h] \in Sent
        <5>1. session[n] = h[1] /\ Installed(h[1]) /\ (Current(h[1]) => record[h] \in Sent)
          BY <2>4, <4>3, Zenon DEF Once, QueuedInSession
        <5>2. h[1] = c BY <2>2, <2>4, <4>1, <5>1, LastOpened, Zenon
        <5>. QED BY <2>2, <5>1, <5>2, Zenon
      <4>. QED BY <2>1, <2>4, <4>2, <4>3, Zenon DEF Work, Accounted
    <3>. QED BY <3>1, <3>2, Zenon
  <2>5. ASSUME NEW h \in Keys, Work(h), ServerOf[h[1]] # n, Accounted(h) PROVE Accounted(h)'
    <3>1. \A d \in Conns : ServerOf[d] # n => activityCounts'[d] = activityCounts[d]
      BY <1>0, <2>1, Zenon
    <3>2. ServerOf[h[1]] \in Nodes BY KeyParts, Zenon
    <3>. QED BY <2>1, <2>5, <3>1, <3>2, Zenon DEF Accounted
  <2>. QED BY <1>4, <1>6, <2>4, <2>5, Zenon DEF AllAccounted
<1>. QED BY <1>2, <1>7, <1>8, <1>9, Zenon

\* A commit clears the books of a quiescent agent only.
LEMMA CommitAccounted ==
  ASSUME IInv, QTypes, InOrder, Once, AllAccounted, Reserved, UNCHANGED late,
         NEW c \in Conns, CommitUpdate(c)
  PROVE  AllAccounted'
<1>1. /\ UNCHANGED <<activityCounts, agentVars, observed>>
      /\ Quiescent(ServerOf[c]) \/ UNCHANGED ledgerVars
      /\ \A k \in Keys : ServerOf[k[1]] # ServerOf[c] => record'[k] = record[k]
      /\ \A n \in Nodes : n # ServerOf[c] => (n \in uncertain' <=> n \in uncertain)
  BY CommitEffect, Zenon
<1>2. \A k \in Keys : Work(k)' => Work(k) BY <1>1, Zenon DEF Work, Queued, agentVars
<1>4. \A k \in Keys : Work(k) /\ Accounted(k) => Accounted(k)'
  <2>1. CASE UNCHANGED ledgerVars BY <2>1, Zenon DEF ledgerVars, Accounted
  <2>2. CASE Quiescent(ServerOf[c])
    <3>1. \A k \in Keys : Work(k) => ServerOf[k[1]] # ServerOf[c] BY <2>2, QuiescentWork, Zenon
    <3>. QED BY <1>1, <3>1, KeyParts, Zenon DEF Accounted
  <2>. QED BY <1>1, <2>1, <2>2, Zenon
<1>. QED BY <1>1, <1>2, <1>4, Zenon DEF AllAccounted

\* Every step keeps all work accounted for.
LEMMA AccountedStep ==
  ASSUME IInv, QTypes, InOrder, Once, Reported, AllAccounted, Reserved, QNext,
         \A h \in Keys : Work(h)' => Work(h) \/ Sending(h)
  PROVE  AllAccounted'
<1>l. late \subseteq late' BY LateGrows, Zenon
<1>v. ASSUME UNCHANGED <<handler, streams, retiring, ledgerVars, observed>> PROVE AllAccounted'
  BY <1>l, <1>v, SteadyRegistry, SteadyAccounted, Zenon DEF ledgerVars
<1>1. ASSUME NEW c \in Conns, AgentOpen(c) PROVE AllAccounted'
  <2>1. UNCHANGED <<ledgerVars, observed>> BY <1>1, Zenon DEF AgentOpen, ConnectStart
  <2>2. \A h \in Keys : (Accounted(h) => Accounted(h)') /\ (Sending(h) => Accounted(h)')
    BY <2>1, Zenon DEF ledgerVars, Accounted, Sending
  <2>. QED BY <1>l, <2>1, <2>2, Zenon DEF AllAccounted
<1>2. ASSUME NEW n \in Nodes, AgentStep(n) PROVE AllAccounted'
  BY <1>v, <1>2, Zenon
  DEF AgentStep, AgentClose, AgentDispatch, AgentReject, AgentCrash, vars, connVars
<1>3. ASSUME NEW k \in Keys, WorkerStep(k) PROVE AllAccounted'
  BY <1>v, <1>3, ZenonT(30) DEF WorkerStep, WorkerRespond, WorkerRelease, vars, connVars
<1>4. ASSUME NEW s \in Senders, NEW k \in Keys, HubSendStart(s, k) PROVE AllAccounted'
  BY <1>v, <1>4, Zenon DEF HubSendStart, SendStart, connVars
<1>5. ASSUME NEW s \in Senders, HubSend(s) PROVE AllAccounted'
  BY <1>l, <1>5, PrepareSteady, SteadyAccounted, Zenon DEF HubSend
<1>6. ASSUME NEW c \in Conns, NEW op \in Ops, NEW manual \in BOOLEAN, StartUpdate(c, op, manual)
      PROVE  AllAccounted'
  BY <1>v, <1>6, Zenon DEF StartUpdate, ReserveBegin, connVars
<1>7. ASSUME NEW n \in Nodes, NEW op \in Ops, EndUpdate(n, op) PROVE AllAccounted'
  BY <1>v, <1>7, Zenon DEF EndUpdate, ReleaseMaintenance, connVars
<1>8. CASE HubCrash BY <1>8, Zenon DEF HubCrash, AllAccounted
<1>9. CASE HubAlone BY <1>l, <1>9, AloneSteady, SteadyAccounted, Zenon DEF HubAlone
<1>. QED
  BY <1>1, <1>2, <1>3, <1>4, <1>5, <1>6, <1>7, <1>8, <1>9, RouteAccounted, CommitAccounted, Zenon
  DEF QNext, HubStep

\* A quiescent agent stays so while no work is created for it.
LEMMA QuietKept ==
  ASSUME QTypes, QTypes', InOrder, InOrder', Once, Once', NEW n \in Nodes, Quiescent(n),
         \A h \in Keys : ServerOf[h[1]] = n => (Work(h)' => Work(h))
  PROVE  Quiescent(n)'
<1>1. \A k \in Keys : ServerOf[k[1]] = n => ~Work(k)' BY QuiescentWork, Zenon
<1>2. Quiescent(n)' <=> \A k \in Keys : ServerOf[k[1]] = n => ~Work(k)'
  <2>1. (QTypes /\ InOrder /\ Once => (Quiescent(n) <=> \A k \in Keys : ServerOf[k[1]] = n => ~Work(k)))'
    BY QuiescentWork, PTL
  <2>. QED BY <2>1, Zenon
<1>. QED BY <1>1, <1>2, Zenon

-----------------------------------------------------------------------------
(* Reservations and maintenance.                                           *)

\* Without a crash of the Hub a closed generation stays closed, and an installed
\* one is never dialed again.
LEMMA DoneGrows ==
  ASSUME IInv, IInv', QTypes, QNext, ~HubCrash
  PROVE  done \subseteq done' /\ \A c \in Conns : Installed(c) => Installed(c)'
<1>1. handler \in [Conns -> {"idle", "registering", "connected", "returned"}]
  BY Zenon DEF IInv, TypeInv
<1>2. [Next]_vars BY HubMoves, Zenon
<1>3. ASSUME UNCHANGED <<handler, done>>
      PROVE  done \subseteq done' /\ \A c \in Conns : Installed(c) => Installed(c)'
  BY <1>3, Zenon DEF Installed
<1>4. ASSUME NEW c \in Conns, ConnStep(c)
      PROVE  done \subseteq done' /\ \A d \in Conns : Installed(d) => Installed(d)'
  BY <1>1, <1>4, Zenon
  DEF ConnStep, ConnectStart, Register, RegisterRetire, Install, Detach, finishRetirement,
      ConnectReturn,
     DeliverBegin, DeliverEnd, Installed
<1>5. ASSUME NEW c \in Conns, LedgerStep(c) PROVE UNCHANGED <<handler, done>>
  BY <1>5, ZenonT(30)
  DEF LedgerStep, BeginActivity, Abandon, CompleteActivity, ObserveActivityCapabilities,
              ReserveBegin, ReserveCommit, ReserveRefused, connVars
<1>6. ASSUME NEW s \in Senders, SendStep(s) PROVE UNCHANGED handler /\ done \subseteq done'
  BY <1>6, Zenon
  DEF SendStep, SendStart, SendLock, SendRefused, SendGuard, prepareActivitySend, SendEnd,
      SendTimeout,
     connVars
<1>7. ASSUME NEW n \in Nodes, NEW op \in Ops, ReleaseMaintenance(n, op) PROVE UNCHANGED <<handler, done>>
  BY <1>7, Zenon DEF ReleaseMaintenance, connVars
<1>8. CASE UNCHANGED vars BY <1>3, <1>8, Zenon DEF vars, connVars
<1>9. CASE Next BY <1>4, <1>5, <1>6, <1>7, <1>9, Zenon DEF Next, Installed
<1>. QED BY <1>2, <1>8, <1>9, Zenon

\* A reservation begins with StartUpdate.
LEMMA ReservingKept ==
  ASSUME IInv, QTypes, QNext, ~HubCrash, NEW c \in Conns, reserving'[c] # None
  PROVE  reserving'[c] = reserving[c] \/ \E op \in Ops, manual \in BOOLEAN : StartUpdate(c, op, manual)
<1>0. reserving \in [Conns -> Reservations \cup {None}] BY Zenon DEF IInv, TypeInv
<1>1. ASSUME NEW d \in Conns, AgentOpen(d) PROVE UNCHANGED reserving
  BY <1>1, Zenon DEF AgentOpen, ConnectStart
<1>2. ASSUME NEW n \in Nodes, AgentStep(n) PROVE UNCHANGED reserving
  BY <1>2, Zenon DEF AgentStep, AgentClose, AgentDispatch, AgentReject, AgentCrash, vars
<1>3. ASSUME NEW k \in Keys, WorkerStep(k) PROVE UNCHANGED reserving
  BY <1>3, ZenonT(30) DEF WorkerStep, WorkerRespond, WorkerRelease, vars
<1>4. ASSUME NEW s \in Senders, NEW k \in Keys, HubSendStart(s, k) PROVE UNCHANGED reserving
  BY <1>4, Zenon DEF HubSendStart, SendStart
<1>5. ASSUME NEW s \in Senders, HubSend(s) PROVE UNCHANGED reserving
  BY <1>5, Zenon DEF HubSend, prepareActivitySend
<1>6. ASSUME NEW d \in Conns, routeAgentMessage(d) PROVE UNCHANGED reserving
  BY <1>6, ZenonT(30) DEF routeAgentMessage, CompleteActivity, ObserveActivityCapabilities, vars
<1>7. ASSUME NEW d \in Conns, NEW op \in Ops, NEW manual \in BOOLEAN, StartUpdate(d, op, manual)
      PROVE  d = c \/ reserving'[c] = reserving[c]
  BY <1>0, <1>7, Zenon DEF StartUpdate, ReserveBegin
<1>8. ASSUME NEW d \in Conns, CommitUpdate(d) PROVE reserving'[c] = reserving[c]
  BY <1>0, <1>8, Zenon DEF CommitUpdate, ReserveCommit
<1>9. ASSUME NEW n \in Nodes, NEW op \in Ops, EndUpdate(n, op) PROVE UNCHANGED reserving
  BY <1>9, Zenon DEF EndUpdate, ReleaseMaintenance
<1>10. CASE HubAlone
  <2>1. ASSUME NEW d \in Conns, ReserveRefused(d) PROVE reserving'[c] = reserving[c]
    BY <1>0, <2>1, Zenon DEF ReserveRefused
  <2>2. ASSUME NEW d \in Conns, Register(d) \/ RegisterRetire(d) \/ Detach(d) \/ finishRetirement(d) \/ ConnectReturn(d)
        PROVE  UNCHANGED reserving
    BY <2>2, ZenonT(30) DEF Register, RegisterRetire, Detach, finishRetirement, ConnectReturn
  <2>3. ASSUME NEW k \in Keys, BeginActivity(k[1], k[2]) \/ Abandon(k) PROVE UNCHANGED reserving
    BY <2>3, ZenonT(30) DEF BeginActivity, Abandon
  <2>4. ASSUME NEW s \in Senders, SendLock(s) \/ SendRefused(s) \/ SendGuard(s) \/ SendTimeout(s)
        PROVE  UNCHANGED reserving
    BY <2>4, Zenon DEF SendLock, SendRefused, SendGuard, SendTimeout
  <2>5. ASSUME NEW s \in Senders, NEW ok \in BOOLEAN, SendEnd(s, ok) PROVE UNCHANGED reserving
    BY <2>5, Zenon DEF SendEnd
  <2>. QED BY <1>10, <2>1, <2>2, <2>3, <2>4, <2>5, Zenon DEF HubAlone
<1>. QED BY <1>1, <1>2, <1>3, <1>4, <1>5, <1>6, <1>7, <1>8, <1>9, <1>10, Zenon DEF QNext, HubStep

\* Every step keeps reservations safe: nobody sends on a reserved generation,
\* and a replaced generation is no longer live.
LEMMA ReservedStep ==
  ASSUME IInv, IInv', QTypes, QTypes', InOrder, InOrder', Once, Once', Reserved, QNext,
         \A h \in Keys : Work(h)' => Work(h) \/ Sending(h)
  PROVE  Reserved'
<1>1. CASE HubCrash
  <2>1. \A c \in Conns : reserving'[c] = None BY <1>1, Zenon DEF HubCrash
  <2>. QED BY <2>1, Zenon DEF Reserved
<1>2. CASE ~HubCrash
  <2>0. observed \subseteq observed'
    <3>1. ASSUME NEW c \in Conns, AgentOpen(c) \/ routeAgentMessage(c) \/ CommitUpdate(c)
          PROVE  observed \subseteq observed'
      BY <3>1, ZenonT(30) DEF AgentOpen, routeAgentMessage, CommitUpdate
    <3>2. ASSUME NEW n \in Nodes, AgentStep(n) PROVE UNCHANGED observed
      BY <3>2, Zenon DEF AgentStep, AgentClose, AgentDispatch, AgentReject, AgentCrash
    <3>3. ASSUME NEW k \in Keys, WorkerStep(k) PROVE UNCHANGED observed
      BY <3>3, ZenonT(30) DEF WorkerStep, WorkerRespond, WorkerRelease
    <3>4. ASSUME NEW s \in Senders, HubSend(s) \/ \E k \in Keys : HubSendStart(s, k)
          PROVE  UNCHANGED observed
      BY <3>4, ZenonT(30) DEF HubSend, HubSendStart
    <3>5. ASSUME NEW c \in Conns, NEW op \in Ops, NEW manual \in BOOLEAN, StartUpdate(c, op, manual)
          PROVE  UNCHANGED observed
      BY <3>5, Zenon DEF StartUpdate
    <3>6. ASSUME NEW n \in Nodes, NEW op \in Ops, EndUpdate(n, op) PROVE UNCHANGED observed
      BY <3>6, Zenon DEF EndUpdate
    <3>7. HubAlone => UNCHANGED observed BY Zenon DEF HubAlone
    <3>. QED BY <1>2, <3>1, <3>2, <3>3, <3>4, <3>5, <3>6, <3>7, Zenon DEF QNext, HubStep
  <2>1. ASSUME NEW c \in Conns, reserving'[c] # None, reserving'[c] = reserving[c]
        PROVE  /\ Installed(c)' /\ (reserving'[c].manual /\ liveLocked(c)' => Quiescent(ServerOf[c])')
               /\ ~reserving'[c].manual => ServerOf[c] \in observed'
    <3>0. ServerOf[c] \in Nodes BY Zenon
    <3>1. Installed(c) /\ Installed(c)' BY <1>2, <2>1, DoneGrows, Zenon DEF Reserved
    <3>2. ~reserving'[c].manual => ServerOf[c] \in observed' BY <2>0, <2>1, Zenon DEF Reserved
    <3>3. ASSUME reserving'[c].manual, liveLocked(c)' PROVE Quiescent(ServerOf[c])'
      <4>1. c \notin done BY <1>2, <3>3, DoneGrows, Zenon DEF liveLocked
      <4>2. streams[ServerOf[c]] = c /\ GenerationMuFree(c)
        BY <2>1, <3>1, <4>1, ZenonT(30) DEF IInv, GInv, GenerationInv
      <4>3. Quiescent(ServerOf[c]) BY <2>1, <3>3, <4>1, <4>2, ZenonT(30) DEF Reserved, liveLocked
      <4>4. \A h \in Keys : ServerOf[h[1]] = ServerOf[c] => ~Sending(h)
        BY <4>2, ZenonT(30) DEF Sending, liveLocked
      <4>. QED BY <3>0, <4>3, <4>4, QuietKept, Zenon
    <3>. QED BY <3>1, <3>2, <3>3, Zenon
  <2>2. ASSUME NEW c \in Conns, NEW op \in Ops, NEW manual \in BOOLEAN, StartUpdate(c, op, manual)
        PROVE  /\ Installed(c)' /\ (reserving'[c].manual /\ liveLocked(c)' => Quiescent(ServerOf[c])')
               /\ ~reserving'[c].manual => ServerOf[c] \in observed'
    <3>0. reserving \in [Conns -> Reservations \cup {None}] BY Zenon DEF IInv, TypeInv
    <3>1. /\ IF manual THEN Quiescent(ServerOf[c]) ELSE ServerOf[c] \in observed
          /\ liveLocked(c) /\ reserving' = [reserving EXCEPT ![c] = [op |-> op, manual |-> manual]]
          /\ UNCHANGED <<connVars, agentVars, observed>>
      BY <2>2, Zenon DEF StartUpdate, ReserveBegin
    <3>2. reserving'[c].manual = manual BY <3>0, <3>1, Zenon
    <3>3. Installed(c)' BY <3>1, Zenon DEF InOrder, NoneOvertaken, liveLocked, connVars
    <3>4. Quiescent(ServerOf[c])' = Quiescent(ServerOf[c])
      BY <3>1, ZenonT(30) DEF Quiescent, Running, agentVars
    <3>. QED BY <3>1, <3>2, <3>3, <3>4, Zenon
  <2>. QED BY <1>2, <2>1, <2>2, ReservingKept, ZenonT(30) DEF Reserved
<1>. QED BY <1>1, <1>2, Zenon

\* Maintenance begins with a commit.
LEMMA MaintenanceKept ==
  ASSUME IInv, QTypes, QNext, NEW n \in Nodes, maintenance'[n] # None
  PROVE  maintenance[n] # None \/ \E c \in Conns : ServerOf[c] = n /\ CommitUpdate(c)
<1>0. maintenance \in [Nodes -> Ops \cup {None}] BY ZenonT(30) DEF IInv, TypeInv
<1>1. ASSUME NEW d \in Conns, AgentOpen(d) PROVE UNCHANGED maintenance
  BY <1>1, Zenon DEF AgentOpen, ConnectStart
<1>2. ASSUME NEW m \in Nodes, AgentStep(m) PROVE UNCHANGED maintenance
  BY <1>2, ZenonT(30) DEF AgentStep, AgentClose, AgentDispatch, AgentReject, AgentCrash, vars
<1>3. ASSUME NEW k \in Keys, WorkerStep(k) PROVE UNCHANGED maintenance
  BY <1>3, ZenonT(30) DEF WorkerStep, WorkerRespond, WorkerRelease, vars
<1>4. ASSUME NEW s \in Senders, NEW k \in Keys, HubSendStart(s, k) PROVE UNCHANGED maintenance
  BY <1>4, Zenon DEF HubSendStart, SendStart
<1>5. ASSUME NEW s \in Senders, HubSend(s) PROVE UNCHANGED maintenance
  BY <1>5, Zenon DEF HubSend, prepareActivitySend
<1>6. ASSUME NEW d \in Conns, routeAgentMessage(d) PROVE UNCHANGED maintenance
  BY <1>6, ZenonT(30) DEF routeAgentMessage, CompleteActivity, ObserveActivityCapabilities, vars
<1>7. ASSUME NEW d \in Conns, NEW op \in Ops, NEW manual \in BOOLEAN, StartUpdate(d, op, manual)
      PROVE  UNCHANGED maintenance
  BY <1>7, Zenon DEF StartUpdate, ReserveBegin
<1>8. ASSUME NEW d \in Conns, CommitUpdate(d) PROVE ServerOf[d] = n \/ maintenance'[n] = maintenance[n]
  BY <1>0, <1>8, ZenonT(30) DEF CommitUpdate, ReserveCommit
<1>9. ASSUME NEW m \in Nodes, NEW op \in Ops, EndUpdate(m, op) PROVE maintenance'[n] = maintenance[n]
  BY <1>0, <1>9, Zenon DEF EndUpdate, ReleaseMaintenance
<1>10. CASE HubAlone
  <2>1. ASSUME NEW d \in Conns, Register(d) \/ RegisterRetire(d) \/ Detach(d) \/ finishRetirement(d)
                                  \/ ConnectReturn(d) \/ ReserveRefused(d)
        PROVE  UNCHANGED maintenance
    BY <2>1, ZenonT(30)
    DEF Register, RegisterRetire, Detach, finishRetirement, ConnectReturn, ReserveRefused
  <2>2. ASSUME NEW k \in Keys, BeginActivity(k[1], k[2]) \/ Abandon(k) PROVE UNCHANGED maintenance
    BY <2>2, ZenonT(30) DEF BeginActivity, Abandon
  <2>3. ASSUME NEW s \in Senders, SendLock(s) \/ SendRefused(s) \/ SendGuard(s) \/ SendTimeout(s)
        PROVE  UNCHANGED maintenance
    BY <2>3, Zenon DEF SendLock, SendRefused, SendGuard, SendTimeout
  <2>4. ASSUME NEW s \in Senders, NEW ok \in BOOLEAN, SendEnd(s, ok) PROVE UNCHANGED maintenance
    BY <2>4, Zenon DEF SendEnd
  <2>5. UNCHANGED maintenance BY <1>10, <2>1, <2>2, <2>3, <2>4, Zenon DEF HubAlone
  <2>. QED BY <2>5, Zenon
<1>11. CASE HubCrash
  <2>1. PICK kept \in SUBSET Nodes : maintenance' = [m \in Nodes |-> IF m \in kept THEN maintenance[m] ELSE None]
    BY <1>11, ZenonT(30) DEF HubCrash
  <2>. QED BY <2>1, Zenon
<1>. QED
  BY <1>1, <1>2, <1>3, <1>4, <1>5, <1>6, <1>7, <1>8, <1>9, <1>10, <1>11, ZenonT(30)
  DEF QNext, HubStep

\* Every step keeps the agents in maintenance quiescent: a request is recorded
\* before it is sent, and nothing is recorded under maintenance.
LEMMA QuietStep ==
  ASSUME IInv, IInv', QTypes, QTypes', InOrder, InOrder', Once, Once', AllAccounted, Reserved,
         MaintenanceIsQuiescent, QNext, \A h \in Keys : Work(h)' => Work(h) \/ Sending(h)
  PROVE  MaintenanceIsQuiescent'
<1>. SUFFICES ASSUME NEW n \in Nodes, n \notin late', maintenance'[n] # None PROVE Quiescent(n)'
  BY Zenon DEF MaintenanceIsQuiescent
<1>0. n \notin late BY LateGrows, Zenon
<1>1. CASE maintenance[n] # None
  <2>1. Quiescent(n) BY <1>0, <1>1, Zenon DEF MaintenanceIsQuiescent
  <2>2. ASSUME NEW h \in Keys, ServerOf[h[1]] = n, Sending(h) PROVE FALSE
    <3>1. h[1] \in Conns /\ h[2] \in Ids /\ h = <<h[1], h[2]>> BY KeyParts, Zenon
    <3>2. record'[<<h[1], h[2]>>] # "absent" BY <2>2, <3>1, Zenon DEF Sending, Sent
    <3>3. WorkInv' BY Zenon DEF IInv
    <3>4. maintenance'[ServerOf[h[1]]] = None BY <3>1, <3>2, <3>3, Zenon DEF WorkInv
    <3>. QED BY <2>2, <3>4, Zenon
  <2>. QED BY <2>1, <2>2, QuietKept, Zenon
<1>2. ASSUME NEW c \in Conns, ServerOf[c] = n, CommitUpdate(c) PROVE Quiescent(n)'
  <2>1. Quiescent(n) /\ UNCHANGED agentVars BY <1>0, <1>2, CommitEffect, Zenon
  <2>. QED BY <2>1, Zenon DEF Quiescent, Running, agentVars
<1>. QED BY <1>1, <1>2, MaintenanceKept, Zenon

-----------------------------------------------------------------------------
(* What an agent counts.                                                   *)

\* An agent runs finitely many workers, and counts at least one if one runs.
LEMMA Workers ==
  ASSUME NEW n \in Nodes
  PROVE  /\ Running(n) \in SUBSET Keys /\ IsFiniteSet(Running(n)) /\ activities(n) \in Nat
         /\ Running(n) # {} => activities(n) > 0
<1>1. Running(n) \in SUBSET Keys BY Zenon DEF Running
<1>2. IsFiniteSet(Running(n)) /\ activities(n) \in Nat
  BY <1>1, MineCardinality, Zenon DEF activities
<1>3. Running(n) # {} => activities(n) # 0 BY <1>2, FS_EmptySet, Zenon DEF activities
<1>. QED BY <1>1, <1>2, <1>3

\* An agent that releases one of two workers reports at least one.
LEMMA TwoWorkers ==
  ASSUME NEW n \in Nodes, NEW k \in Running(n), NEW h \in Running(n), h # k
  PROVE  activities(n) - 1 > 0
<1>1. IsFiniteSet(Running(n)) /\ Running(n) \in SUBSET Keys BY Workers, Zenon
<1>2. IsFiniteSet(Running(n) \ {k}) /\ Cardinality(Running(n) \ {k}) = activities(n) - 1
  BY <1>1, FS_RemoveElement, Zenon DEF activities
<1>3. Cardinality(Running(n) \ {k}) \in Nat BY <1>2, FS_CardinalityType, Zenon
<1>4. Cardinality(Running(n) \ {k}) # 0 BY <1>2, FS_EmptySet
<1>5. activities(n) \in Nat BY Workers, Zenon
<1>. HIDE DEF activities
<1>. QED BY <1>2, <1>3, <1>4, <1>5

\* An agent's count says whether it runs workers.
LEMMA Counts == Counting
<1>1. \A n \in Nodes : activities(n) \in Nat /\ (Running(n) # {} => activities(n) > 0)
  BY Workers, Zenon
<1>2. ASSUME NEW n \in Nodes, NEW k \in Running(n), NEW h \in Running(n), h # k
      PROVE  activities(n) > 1
  <2>1. activities(n) - 1 > 0 BY <1>2, TwoWorkers, Zenon
  <2>. QED BY <1>1, <2>1
<1>. QED BY <1>1, <1>2, Zenon DEF Counting

-----------------------------------------------------------------------------
(* The registry and the ledger as before.                                  *)

\* A Hub that restarts has an empty registry and an empty ledger, for which the
\* invariant of ConnManager holds whatever maintenance is restored.
LEMMA CrashIInv == ASSUME IInv, HubCrash PROVE IInv'
<1>0. /\ handler' = [c \in Conns |-> IF handler[c] = "idle" THEN "idle" ELSE "returned"]
      /\ streams' = [n \in Nodes |-> None] /\ retiring' = [n \in Nodes |-> None]
      /\ done' = {c \in Conns : handler[c] # "idle"}
      /\ finishers' = {} /\ delivering' = {} /\ sender' = [s \in Senders |-> IdleSender]
      /\ reserving' = [c \in Conns |-> None] /\ record' = [k \in Keys |-> "absent"]
      /\ uncertain' = {} /\ activityNodes' = [n \in Nodes |-> 0] /\ activityCounts' = [c \in Conns |-> 0]
  BY Zenon DEF HubCrash
<1>1. maintenance' \in [Nodes -> Ops \cup {None}]
  <2>1. maintenance \in [Nodes -> Ops \cup {None}] BY Zenon DEF IInv, TypeInv
  <2>2. \E kept \in SUBSET Nodes :
          maintenance' = [n \in Nodes |-> IF n \in kept THEN maintenance[n] ELSE None]
    BY Zenon DEF HubCrash
  <2>. QED BY <2>1, <2>2, Zenon
<1>2. TypeInv' BY <1>0, <1>1 DEF TypeInv, SenderStates
<1>3. GInv'
  BY <1>0, Zenon
  DEF GInv, GenerationInv, SendOnInstalledGeneration, SendsUnder, Installed,
      DeliveryOnCurrentGeneration, IdleSender
<1>4. WorkInv' BY <1>0 DEF WorkInv, IdleSender, Keys
<1>5. AccInv'
  <2>1. Activities' = {} /\ \A n \in Nodes : NodeActivities(n)' = {}
    BY <1>0, Zenon DEF Activities, NodeActivities
  <2>2. Load' = 0 /\ \A n \in Nodes : Cardinality(NodeActivities(n)') = 0
    <3>1. Cardinality({}) = 0 BY FS_EmptySet, Zenon
    <3>2. uncertain' = {} BY <1>0, Zenon
    <3>. QED BY <2>1, <3>1, <3>2 DEF Load
  <2>3. /\ uncertain' = {} /\ \A n \in Nodes : activityNodes'[n] = 0
        /\ \A c \in Conns : activityCounts'[c] = 0
    BY <1>0, Zenon
  <2>4. LedgerAccounting' BY <2>2, <2>3 DEF LedgerAccounting
  <2>5. LedgerBounds' BY <2>2, <2>3, CapacityAssumption DEF LedgerBounds
  <2>. QED BY <2>4, <2>5, Zenon DEF AccInv
<1>. QED BY <1>2, <1>3, <1>4, <1>5, Zenon DEF IInv

\* The invariant of ConnManager holds with the agents attached, crashes included.
LEMMA IInvStep == ASSUME IInv, QTypes, QNext PROVE IInv'
<1>1. ASSUME [Next]_vars PROVE IInv'
  BY <1>1, NextTypeInv, NextGInv, NextWorkInv, NextAccInv, Zenon DEF IInv
<1>. QED BY <1>1, CrashIInv, HubMoves, Zenon

-----------------------------------------------------------------------------
(* The theorems.                                                           *)

\* The invariant holds initially.
LEMMA QInitially == QInit => QInv
<1>. SUFFICES ASSUME QInit PROVE QInv BY Zenon
<1>1. Init BY Zenon DEF QInit
<1>2. IInv BY <1>1, InitTypeInv, InitGInv, InitWorkInv, InitAccInv, Zenon DEF IInv
<1>3. /\ handler = [c \in Conns |-> "idle"] /\ streams = [n \in Nodes |-> None]
      /\ sender = [s \in Senders |-> IdleSender] /\ reserving = [c \in Conns |-> None]
  BY <1>1, Zenon DEF Init
<1>4. /\ maintenance = [n \in Nodes |-> None] /\ dialed = [n \in Nodes |-> <<>>]
      /\ session = [n \in Nodes |-> None] /\ toAgent = [c \in Conns |-> <<>>]
      /\ fromAgent = [c \in Conns |-> <<>>] /\ worker = [k \in Keys |-> "none"]
      /\ fresh = Keys /\ observed = {} /\ late = {} /\ crashes = 0
  BY Zenon DEF QInit, AgentInit
<1>5. QTypes BY <1>4, SMTT(30) DEF QTypes
<1>6. InOrder
  <2>1. \A n \in Nodes : dialed[n] = <<>> /\ session[n] = None BY <1>4, Zenon
  <2>2. \A c \in Conns : handler[c] = "idle" /\ streams[ServerOf[c]] # c BY <1>3, Zenon
  <2>. QED BY <2>1, <2>2 DEF InOrder, DialedOnce, HandlersDialed, SessionIsLast, NoneOvertaken
<1>7. \A k \in Keys : ~Queued(k) /\ ~Answered(k) /\ worker[k] = "none"
  BY <1>4, Empty, KeyParts, Zenon DEF Queued, Answered
<1>8. Once
  <2>1. \A s \in Senders : sender[s].pc = "idle" BY <1>3, Zenon DEF IdleSender
  <2>2. \A c \in Conns : Distinct(toAgent[c]) BY <1>4, SMTT(30) DEF Distinct
  <2>. QED
    BY <1>4, <1>7, <2>1, <2>2, ZenonT(30)
    DEF Once, FreshUnsent, SendersClaim, WaitingUnsent, OneSender, WorkInstalled,
        QueuedInSession, QueuesDistinct, Unsent
<1>9. Reported BY <1>7, Zenon DEF Reported
<1>10. AllAccounted BY <1>7, Zenon DEF AllAccounted, Work
<1>11. Reserved BY <1>3, Zenon DEF Reserved
<1>12. MaintenanceIsQuiescent BY <1>4, Zenon DEF MaintenanceIsQuiescent
<1>. QED BY <1>2, <1>5, <1>6, <1>8, <1>9, <1>10, <1>11, <1>12, Zenon DEF QInv

\* The invariant holds across stuttering.
LEMMA QStutter == ASSUME QInv, UNCHANGED allVars PROVE QInv'
<1>1. UNCHANGED <<vars, agentVars, fresh, observed, late, crashes>> BY Zenon DEF allVars
<1>2. UNCHANGED vars BY <1>1, Zenon
<1>3. IInv' BY <1>2, NextTypeInv, NextGInv, NextWorkInv, NextAccInv, Zenon DEF QInv, IInv
<1>4. UNCHANGED <<dialed, session, toAgent, fromAgent, worker>> BY <1>1, Zenon DEF agentVars
<1>5. UNCHANGED <<handler, streams, retiring, done, sender, reserving, maintenance, record, uncertain, activityCounts>>
  BY <1>2, Zenon DEF vars, connVars, ledgerVars
<1>6. QTypes' BY <1>1, <1>4, Zenon DEF QTypes, QInv
<1>7. InOrder' BY <1>1, <1>4, <1>5, InOrderKept, Zenon DEF Installed, QInv
<1>8. Once'
  BY <1>1, <1>4, <1>5, ZenonT(30)
  DEF Once, FreshUnsent, SendersClaim, WaitingUnsent, OneSender, WorkInstalled, QueuedInSession,
      QueuesDistinct, Unsent, Queued, Answered, Key, Current, Installed, QInv
<1>9. Reported' BY <1>4, <1>5, ZenonT(30) DEF Reported, Current, Counted, Coming, Overtaken, QInv
<1>10. AllAccounted' BY <1>1, <1>4, <1>5, ZenonT(30) DEF AllAccounted, Accounted, Work, Queued, QInv
<1>11. \A n \in Nodes : Quiescent(n)' = Quiescent(n) BY <1>4, Zenon DEF Quiescent, Running
<1>12. Reserved' BY <1>1, <1>5, <1>11, ZenonT(30) DEF Reserved, liveLocked, Installed, QInv
<1>13. MaintenanceIsQuiescent' BY <1>1, <1>5, <1>11, Zenon DEF MaintenanceIsQuiescent, QInv
<1>. QED BY <1>3, <1>6, <1>7, <1>8, <1>9, <1>10, <1>12, <1>13, Zenon DEF QInv

\* Every step keeps the invariant.
LEMMA QStep == ASSUME QInv, QNext PROVE QInv'
<1>. USE DEF QInv
<1>1. IInv' BY IInvStep, Zenon
<1>2. QTypes' BY Counts, TypesStep, Zenon
<1>3. InOrder' BY OrderStep, Zenon
<1>4. Once' /\ \A h \in Keys : Work(h)' => Work(h) \/ Sending(h) BY <1>1, Counts, OnceStep, Zenon
<1>5. Reported' BY <1>1, Counts, ReportedStep, Zenon
<1>6. AllAccounted' BY <1>4, AccountedStep, Zenon
<1>7. Reserved' BY <1>1, <1>2, <1>3, <1>4, ReservedStep, Zenon
<1>8. MaintenanceIsQuiescent' BY <1>1, <1>2, <1>3, <1>4, QuietStep, Zenon
<1>. QED BY <1>1, <1>2, <1>3, <1>4, <1>5, <1>6, <1>7, <1>8, Zenon

\* The inductive invariant of the ledger with its agents holds in every reachable
\* state, for any number of servers, generations, requests, senders and crashes.
THEOREM LedgerAndAgent == QSpec => []QInv
<1>1. QInv /\ [QNext]_allVars => QInv' BY QStep, QStutter, Zenon
<1>. QED BY <1>1, QInitially, PTL DEF QSpec

\* "Active or unconfirmed node work blocks start without being treated as idle":
\* ReserveMaintenance never puts a server in maintenance whose agent runs or is
\* about to run anything, unless a handler registered there after that of a later
\* stream.
THEOREM QuiescenceHolds == QSpec => []MaintenanceIsQuiescent
<1>1. QInv => MaintenanceIsQuiescent BY Zenon DEF QInv
<1>2. QSpec => []QInv BY LedgerAndAgent, Zenon
<1>. QED BY <1>1, <1>2, PTL

\* Every worker of an observed agent is accounted for by activityNodes, also when
\* its own generation is long gone or the agent was observed through another,
\* with the same proviso.
THEOREM AccountingHolds == QSpec => []RunningWorkIsAccounted
<1>1. QInv => RunningWorkIsAccounted
  <2>. SUFFICES ASSUME QInv, NEW n \in observed \ late, Running(n) # {} PROVE activityNodes[n] > 0
    BY Zenon DEF RunningWorkIsAccounted
  <2>0. IInv /\ TypeInv /\ n \in Nodes BY Zenon DEF QInv, QTypes, IInv
  <2>1. PICK k \in Keys : ServerOf[k[1]] = n /\ worker[k] # "none" BY Zenon DEF Running
  <2>2. Accounted(k) BY <2>1, Zenon DEF QInv, AllAccounted, Work
  <2>3. /\ activityNodes[n] = Cardinality(NodeActivities(n)) + (IF n \in uncertain THEN 1 ELSE 0)
        /\ \A c \in Conns : activityCounts[c] > 0 => activityNodes[ServerOf[c]] > 0
    BY <2>0, Zenon DEF IInv, AccInv, LedgerAccounting
  <2>4. IsFiniteSet(NodeActivities(n)) /\ Cardinality(NodeActivities(n)) \in Nat
    BY <2>0, Finite, Zenon
  <2>5. CASE n \in uncertain BY <2>3, <2>4, <2>5, SMTT(30)
  <2>6. CASE record[k] \in Sent
    <3>1. k \in NodeActivities(n) BY <2>1, <2>6, Zenon DEF NodeActivities, Activities, Sent
    <3>2. Cardinality(NodeActivities(n)) # 0 BY <2>4, <3>1, FS_EmptySet, Zenon
    <3>. QED BY <2>3, <2>4, <3>2, SMTT(30)
  <2>7. CASE \E c \in Conns : ServerOf[c] = n /\ activityCounts[c] > 0 BY <2>3, <2>7, Zenon
  <2>. QED BY <2>1, <2>2, <2>5, <2>6, <2>7, Zenon DEF Accounted
<1>2. QSpec => []QInv BY LedgerAndAgent, Zenon
<1>. QED BY <1>1, <1>2, PTL

\* Whatever order the handlers register in, the Hub forgets work that reached the
\* agent only when the agent completes it, into the uncertainty slot, by an
\* administrator's assertion or in a crash.
THEOREM WorkSurvives == QSpec => WorkForgottenOnlyInCrash
<1>. DEFINE Kept == \A c \in Conns, i \in Ids : KeepsWork(c, i)
<1>1. QInv /\ [QNext]_allVars => [Kept \/ HubCrash]_allVars
  <2>. SUFFICES ASSUME QInv, QNext PROVE Kept \/ HubCrash BY Zenon
  <2>1. TypeInv /\ IInv /\ QTypes BY Zenon DEF QInv, IInv
  <2>2. [Next]_vars \/ HubCrash BY <2>1, HubMoves, Zenon
  <2>3. UNCHANGED vars => Kept BY Zenon DEF vars, ledgerVars, KeepsWork
  <2>. QED BY <2>1, <2>2, <2>3, StepKeepsWork, Zenon
<1>. HIDE DEF Kept
<1>2. QSpec => [][Kept \/ HubCrash]_allVars BY <1>1, LedgerAndAgent, PTL DEF QSpec
<1>. QED BY <1>2, PTL DEF Kept, WorkForgottenOnlyInCrash

=============================================================================
