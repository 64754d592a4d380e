------------------------ MODULE HubExecutionOutputs ------------------------
(***************************************************************************)
(* The proof of DrainedBeforeExit: the status of a command that exited     *)
(* undisturbed is reported after everything it wrote.                      *)
(*                                                                         *)
(* The argument keeps an account of every output: what the process wrote   *)
(* is what the channel got, what is in the session's queue and what is     *)
(* still on the stream (Flow).  The end of an output is sent behind its    *)
(* last frame, and the result behind every end, so that a result that was  *)
(* accepted leaves no frame on the stream (Flowing).  A relay that ends    *)
(* undisturbed leaves an empty queue (Relayed), and runExec counts the     *)
(* relays before it reports (Reported).  The layers, and the steps that    *)
(* move no frame, are in HubExecutionProofs; here frames are counted by    *)
(* their places on the stream.                                             *)
(***************************************************************************)
EXTENDS HubExecutionProofs, FiniteSetTheorems

-----------------------------------------------------------------------------
(* Places on a stream.                                                     *)

\* A message has finitely many places in a stream.
LEMMA PlacesFinite ==
  ASSUME NEW S, NEW s \in Seq(S), NEW m
  PROVE  IsFiniteSet(Places(s, m)) /\ Cardinality(Places(s, m)) \in Nat
<1>1. Len(s) \in Nat OBVIOUS
<1>2. IsFiniteSet(1..Len(s)) BY <1>1, FS_Interval, SMTT(30)
<1>3. Places(s, m) \in SUBSET (1..Len(s)) BY Zenon DEF Places
<1>4. IsFiniteSet(Places(s, m)) BY <1>2, <1>3, FS_Subset, Zenon
<1>. QED BY <1>4, FS_CardinalityType, Zenon

\* A message that is sent gets one more place, behind all others.
LEMMA PlacesAppend ==
  ASSUME NEW S, NEW s \in Seq(S), NEW x \in S, NEW m
  PROVE  /\ x # m => Places(Append(s, x), m) = Places(s, m)
         /\ x = m => /\ Places(Append(s, x), m) = Places(s, m) \cup {Len(s) + 1}
                     /\ Cardinality(Places(Append(s, x), m)) = Cardinality(Places(s, m)) + 1
<1>. DEFINE t == Append(s, x)
<1>1. Len(s) \in Nat /\ Len(t) = Len(s) + 1 /\ t[Len(s) + 1] = x /\ \A i \in 1..Len(s) : t[i] = s[i] OBVIOUS
<1>2. 1..Len(t) = (1..Len(s)) \cup {Len(s) + 1} BY <1>1
<1>3. x # m => Places(t, m) = Places(s, m)
  <2>. HIDE DEF t
  <2>. QED BY <1>1, <1>2, Zenon DEF Places
<1>4. x = m => Places(t, m) = Places(s, m) \cup {Len(s) + 1}
  <2>. HIDE DEF t
  <2>. QED BY <1>1, <1>2, Zenon DEF Places
<1>5. Len(s) + 1 \notin Places(s, m) BY <1>1 DEF Places
<1>6. Cardinality(Places(s, m) \cup {Len(s) + 1}) = Cardinality(Places(s, m)) + 1
  BY <1>5, PlacesFinite, FS_AddElement, Zenon
<1>. QED BY <1>3, <1>4, <1>6, Zenon

\* Receiving the first message moves every other one a place forward.
LEMMA PlacesTail ==
  ASSUME NEW S, NEW s \in Seq(S), s # <<>>, NEW m
  PROVE  /\ \A i \in Places(Tail(s), m) : i + 1 \in Places(s, m)
         /\ Cardinality(Places(s, m)) =
              Cardinality(Places(Tail(s), m)) + (IF Head(s) = m THEN 1 ELSE 0)
<1>. DEFINE t == Tail(s)
            A == Places(t, m)
            B == Places(s, m) \ {1}
            f == [i \in A |-> i + 1]
<1>1. /\ Len(s) \in Nat \ {0} /\ Len(t) = Len(s) - 1 /\ Head(s) = s[1]
      /\ \A i \in 1..Len(t) : t[i] = s[i + 1]
  OBVIOUS
<1>2. \A i \in A : i \in Nat /\ i + 1 \in B
  <2>. HIDE DEF t
  <2>. QED BY <1>1 DEF Places
<1>3. \A j \in B : j - 1 \in A /\ (j - 1) + 1 = j
  <2>. HIDE DEF t
  <2>. QED BY <1>1 DEF Places
<1>4. f \in Bijection(A, B)
  <2>. HIDE DEF A, B
  <2>1. f \in [A -> B] BY <1>2, Zenon
  <2>2. \A a, b \in A : f[a] = f[b] => a = b BY <1>2
  <2>3. \A j \in B : \E i \in A : f[i] = j BY <1>3, Zenon
  <2>4. f \in Injection(A, B)
    <3>. HIDE DEF f
    <3>. QED BY <2>1, <2>2, Zenon DEF Injection, IsInjective
  <2>5. f \in Surjection(A, B)
    <3>. HIDE DEF f
    <3>. QED BY <2>1, <2>3, Zenon DEF Surjection
  <2>. QED BY <2>4, <2>5, Zenon DEF Bijection
<1>5. IsFiniteSet(A) /\ Cardinality(A) \in Nat /\ IsFiniteSet(Places(s, m)) /\ Cardinality(Places(s, m)) \in Nat
  <2>1. t \in Seq(S) OBVIOUS
  <2>. QED BY <2>1, PlacesFinite, Zenon
<1>6. Cardinality(B) = Cardinality(A)
  <2>. HIDE DEF A, B, f
  <2>. QED BY <1>4, <1>5, FS_Bijection, Zenon DEF ExistsBijection
<1>7. Cardinality(B) = IF 1 \in Places(s, m) THEN Cardinality(Places(s, m)) - 1 ELSE Cardinality(Places(s, m))
  BY <1>5, FS_RemoveElement, ZenonT(30)
<1>8. 1 \in Places(s, m) <=> Head(s) = m BY <1>1 DEF Places
<1>9. \A i \in A : i + 1 \in Places(s, m) BY <1>2, Zenon
<1>10. Cardinality(Places(s, m)) = Cardinality(A) + (IF Head(s) = m THEN 1 ELSE 0)
  <2>. DEFINE cs == Cardinality(Places(s, m))
              ca == Cardinality(A)
              cb == Cardinality(B)
  <2>1. cs \in Nat /\ ca \in Nat /\ cb = ca /\ cb = IF Head(s) = m THEN cs - 1 ELSE cs
    BY <1>5, <1>6, <1>7, <1>8, Zenon
  <2>. HIDE DEF cs, ca, cb
  <2>2. cs = ca + (IF Head(s) = m THEN 1 ELSE 0) BY <2>1
  <2>. QED BY <2>2, Zenon DEF cs, ca
<1>. QED BY <1>9, <1>10, Zenon

-----------------------------------------------------------------------------
(* The account of an output.                                               *)

\* Receiving the first message keeps the order of frames and end, and takes one frame off the
\* account when that message is one.
LEMMA TailOrder ==
  ASSUME TypeOK, up # <<>>, up' = Tail(up), NEW o \in Outputs, Flow(o), out'[o].ended = out[o].ended
  PROVE  /\ Frames(o) = {} => Frames(o)' = {}
         /\ \A i \in Places(up, Msg("eof", o))' : out'[o].ended /\ \A j \in Frames(o)' : j < i
         /\ Cardinality(Frames(o)) \in Nat /\ Cardinality(Frames(o)') \in Nat
         /\ Cardinality(Frames(o)) = Cardinality(Frames(o)') + (IF Head(up) = Msg("frame", o) THEN 1 ELSE 0)
<1>0. up \in Seq(Ups) BY Zenon DEF TypeOK
<1>a. Tail(up) \in Seq(Ups) BY <1>0
<1>. DEFINE F == Places(up, Msg("frame", o))
            G == Places(Tail(up), Msg("frame", o))
            E == Places(up, Msg("eof", o))
            D == Places(Tail(up), Msg("eof", o))
<1>1. Frames(o) = F /\ Frames(o)' = G /\ Places(up, Msg("eof", o))' = D BY Zenon DEF Frames
<1>2. (\A j \in G : j + 1 \in F) /\ Cardinality(F) = Cardinality(G) + (IF Head(up) = Msg("frame", o) THEN 1 ELSE 0)
  BY <1>0, PlacesTail, Zenon
<1>3. \A i \in D : i + 1 \in E BY <1>0, PlacesTail, Zenon
<1>4. D \subseteq Nat /\ G \subseteq Nat BY <1>a DEF Places
<1>5. Cardinality(F) \in Nat /\ Cardinality(G) \in Nat BY <1>0, <1>a, PlacesFinite, ZenonT(30)
<1>6. \A i \in E : out[o].ended /\ \A j \in F : j < i BY <1>1, Zenon DEF Flow
<1>7. \A i \in D : out[o].ended /\ \A j \in G : j < i
  <2>. HIDE DEF D, E, F, G
  <2>1. ASSUME NEW i \in D, NEW j \in G PROVE j < i
    <3>1. j + 1 < i + 1 BY <1>2, <1>3, <1>6, <2>1, Zenon
    <3>2. i \in Nat /\ j \in Nat BY <1>4, <2>1, Zenon
    <3>. QED BY <3>1, <3>2, SMTT(30)
  <2>. QED BY <1>3, <1>6, <2>1, Zenon
<1>8. F = {} => G = {}
  <2>. HIDE DEF F, G
  <2>. QED BY <1>2, Zenon
<1>. HIDE DEF F, G, D, E
<1>. QED BY <1>1, <1>2, <1>5, <1>7, <1>8, Zenon

\* A message that is no frame of an output leaves that output's account alone when it is
\* received,
LEMMA FlowTail ==
  ASSUME TypeOK, up # <<>>, up' = Tail(up), NEW o \in Outputs, Flow(o), SameOutput(o),
         Head(up) # Msg("frame", o)
  PROVE  Flow(o)'
<1>1. out'[o].ended = out[o].ended BY Zenon DEF SameOutput
<1>2. Cardinality(Frames(o)') = Cardinality(Frames(o)) BY <1>1, TailOrder, SMTT(30)
<1>3. Frames(o) = {} => Frames(o)' = {} BY <1>1, TailOrder, Zenon
<1>4. \A i \in Places(up, Msg("eof", o))' : out'[o].ended /\ \A j \in Frames(o)' : j < i
  BY <1>1, TailOrder, Zenon
<1>. QED BY <1>2, <1>3, <1>4, Zenon DEF Flow, SameOutput

\* and when it is sent, unless it is its end.
LEMMA FlowAppend ==
  ASSUME TypeOK, NEW m \in Ups, up' = Append(up, m), NEW o \in Outputs, Flow(o), SameOutput(o),
         m # Msg("frame", o), m # Msg("eof", o)
  PROVE  Flow(o)'
<1>0. up \in Seq(Ups) BY Zenon DEF TypeOK
<1>1. Frames(o)' = Frames(o) BY <1>0, PlacesAppend DEF Frames
<1>2. Places(up, Msg("eof", o))' = Places(up, Msg("eof", o)) BY <1>0, PlacesAppend
<1>. QED BY <1>1, <1>2, Zenon DEF Flow, SameOutput

\* The sender, and Execute that takes the attachment, keep Flowing.
LEMMA SendingFlowing == ASSUME TypeOK, Flowing, Sending PROVE Flowing'
<1>. USE DEF rpcOnly, controlVars, hubVars, streamVars, agentVars, storeVars
<1>0. ses \in Sessions /\ rpc \in Rpcs BY Zenon DEF TypeOK
<1>1. CASE Attach
  <2>1. ses'.result = ses.result /\ ses'.done = ses.done
    BY <1>0, <1>1, Zenon DEF Attach, Sessions
  <2>2. /\ rpc.handler = "off" /\ rpc'.handler \in {"serving", "over"} /\ rpc'.stream \in {"open", "cut"}
        /\ rpc'.recv \in {rpc.recv, "on"}
    BY <1>0, <1>1, Zenon DEF Attach, Rpcs
  <2>3. rpc.recv = "off" /\ ses.result = "none" BY <2>2, Zenon DEF Flowing
  <2>4. up # <<>> /\ up' = Tail(up) /\ out' = out /\ gw' = gw /\ Head(up).t = "attach"
    BY <1>1, Zenon DEF Attach
  <2>5. ASSUME NEW o \in Outputs, Flow(o) PROVE Flow(o)'
    BY <2>4, <2>5, AttachHead, FlowTail, Zenon DEF SameOutput
  <2>6. Undisturbed' => Undisturbed BY <2>1, <2>4, Zenon DEF Undisturbed
  <2>. QED BY <2>1, <2>2, <2>3, <2>5, <2>6, Zenon DEF Flowing
<1>2. ASSUME NEW next, Sends(next), UNCHANGED <<out, up, gw>>, ses'.result = ses.result, ses'.done = ses.done
      PROVE  Flowing'
  BY <1>2, SendsFields, FlowingKept, Zenon DEF SameOutput
<1>3. CASE sendAttached
  <2>1. ses'.result = ses.result /\ ses'.done = ses.done
    BY <1>0, <1>3, Zenon DEF sendAttached, Sessions
  <2>. QED BY <1>2, <1>3, <2>1, Zenon DEF sendAttached
<1>4. CASE dequeueStart
  <2>1. ses'.result = ses.result /\ ses'.done = ses.done
    BY <1>0, <1>4, Zenon DEF dequeueStart, Sessions
  <2>. QED BY <1>2, <1>4, <2>1, Zenon DEF dequeueStart
<1>5. CASE attemptStart
  <2>1. ses'.result = ses.result /\ ses'.done = ses.done
    BY <1>0, <1>5, Zenon DEF attemptStart, Sessions
  <2>. QED BY <1>2, <1>5, <2>1, Zenon DEF attemptStart
<1>6. CASE sendProtectedScript BY <1>2, <1>6, Zenon DEF sendProtectedScript
<1>7. CASE beforeStart BY <1>2, <1>7, Zenon DEF beforeStart
<1>8. CASE sendStart BY <1>2, <1>8, Zenon DEF sendStart
<1>9. CASE senderEnds BY <1>2, <1>9, Zenon DEF senderEnds
<1>. QED BY <1>1, <1>3, <1>4, <1>5, <1>6, <1>7, <1>8, <1>9, Zenon DEF Sending

\* The receiver moves frames to the queue in order; it accepts a result only when every output
\* ended, and then no frame is left on the stream.
LEMMA ReceivingFlowing == ASSUME TypeOK, Flowing, Receiving PROVE Flowing'
<1>. USE DEF rpcOnly, controlVars, hubVars, streamVars, agentVars, storeVars
<1>0. ses \in Sessions /\ rpc \in Rpcs /\ out \in [Outputs -> Pipes] /\ up \in Seq(Ups)
  BY Zenon DEF TypeOK
<1>a. ASSUME up # <<>>, rpc.recv = "on", Receives, gw' = gw, ses'.result = ses.result, ses'.done = ses.done,
             \A o \in Outputs : Flow(o) => Flow(o)'
      PROVE  Flowing'
  <2>1. rpc' = rpc BY <1>a, Zenon DEF Receives
  <2>2. ses.result = "none" /\ rpc.handler # "off" /\ rpc.stream # "none"
    BY <1>a, Zenon DEF Flowing
  <2>3. Undisturbed' => Undisturbed BY <1>a, Zenon DEF Undisturbed
  <2>. QED BY <1>a, <2>1, <2>2, <2>3, Zenon DEF Flowing
<1>1. CASE receiveStarted
  <2>1. rpc.recv = "on" /\ up # <<>> /\ Head(up).t = "started"
    BY <1>1, Zenon DEF receiveStarted, Arrived
  <2>2. ses'.result = ses.result /\ ses'.done = ses.done
    BY <1>0, <1>1, Zenon DEF receiveStarted, Sessions
  <2>3. CASE Returns("error") BY <2>1, <2>2, <2>3, ReceiverGivesUp, Zenon
  <2>4. CASE Receives
    <3>1. up' = Tail(up) /\ out' = out /\ gw' = gw
      BY <1>1, <2>4, Zenon DEF receiveStarted, Receives
    <3>2. ASSUME NEW o \in Outputs, Flow(o) PROVE Flow(o)'
      BY <2>1, <3>1, <3>2, AttachHead, FlowTail, Zenon DEF SameOutput
    <3>. QED BY <1>a, <2>1, <2>2, <2>4, <3>1, <3>2, Zenon
  <2>. QED BY <1>1, <2>3, <2>4, Zenon DEF receiveStarted
<1>2. CASE receiveStartFailed
  <2>1. rpc.recv = "on" BY <1>2, Zenon DEF receiveStartFailed, Arrived
  <2>2. CASE Returns("error") /\ UNCHANGED ses BY <2>1, <2>2, ReceiverGivesUp, Zenon
  <2>3. CASE Returns("nil") /\ ses' = [ses EXCEPT !.result = Head(up).arg]
    <3>1. Head(up) \in Ups /\ Head(up).t = "failed"
      BY <1>2, ArrivedType, Zenon DEF receiveStartFailed
    <3>2. Head(up).arg # "exited" BY <3>1, Zenon DEF Ups
    <3>3. ses'.result # "exited" BY <1>0, <2>3, <3>2, Zenon DEF Sessions
    <3>4. /\ rpc'.handler = rpc.handler /\ rpc'.stream = rpc.stream /\ up' = <<>>
          /\ rpc'.recv \in {"nil", "over"}
      BY <2>1, <2>3, ReturnsFields, Zenon
    <3>5. rpc.handler # "off" BY <2>1, Zenon DEF Flowing
    <3>. QED BY <3>3, <3>4, <3>5, Zenon DEF Flowing
  <2>. QED BY <1>2, <2>2, <2>3, Zenon DEF receiveStartFailed
<1>3. CASE receiveResult
  <2>1. rpc.recv = "on" BY <1>3, Zenon DEF receiveResult, Arrived
  <2>2. CASE Returns("error") /\ UNCHANGED ses BY <2>1, <2>2, ReceiverGivesUp, Zenon
  <2>3. CASE Returns("nil") /\ ses' = [ses EXCEPT !.result = Head(up).arg] /\ \A o \in Outputs : out[o].eof
    <3>1. ses'.done = ses.done /\ out' = out /\ gw' = gw
      BY <1>0, <1>3, <2>3, Zenon DEF Sessions, receiveResult
    <3>2. /\ rpc'.handler = rpc.handler /\ rpc'.stream = rpc.stream /\ up' = <<>>
          /\ rpc'.recv \in {"nil", "over"}
      BY <2>1, <2>3, ReturnsFields, Zenon
    <3>3. rpc.handler # "off" /\ rpc.stream # "none" BY <2>1, Zenon DEF Flowing
    <3>4. ASSUME Undisturbed, NEW o \in Outputs
          PROVE  out[o].ended /\ out[o].eof /\ out[o].made = out[o].written + out[o].queue
      <4>1. Flow(o) /\ out[o].eof BY <2>1, <2>3, <3>4, Zenon DEF Flowing
      <4>2. Frames(o) = {} /\ out[o].ended BY <4>1, Zenon DEF Flow
      <4>3. Cardinality(Frames(o)) = 0 BY <4>2, FS_EmptySet, Zenon
      <4>4. out[o].made = out[o].written + out[o].queue + 0 BY <4>1, <4>3, Zenon DEF Flow
      <4>5. out[o].written \in Nat /\ out[o].queue \in Nat BY <1>0 DEF Pipes
      <4>6. out[o].written + out[o].queue + 0 = out[o].written + out[o].queue BY <4>5
      <4>. QED BY <4>1, <4>2, <4>4, <4>6, Zenon
    <3>5. Undisturbed' => Undisturbed BY <3>1, Zenon DEF Undisturbed
    <3>. QED BY <3>1, <3>2, <3>3, <3>4, <3>5, Zenon DEF Flowing
  <2>. QED BY <1>3, <2>2, <2>3, Zenon DEF receiveResult
<1>4. CASE receiverEnds BY <1>4, ReceiverGivesUp, Zenon DEF receiverEnds
<1>5. ASSUME NEW o \in Outputs, receiveOutput(o) PROVE Flowing'
  <2>1. rpc.recv = "on" /\ up # <<>> /\ Head(up).t = "frame" /\ Head(up).arg = o /\ ses' = ses /\ gw' = gw
    BY <1>5, Zenon DEF receiveOutput, Arrived
  <2>2. CASE Returns("error") BY <2>1, <2>2, ReceiverGivesUp, Zenon
  <2>3. CASE /\ Receives /\ ~out[o].eof
             /\ out' = [out EXCEPT ![o].queue = @ + 1]
    <3>1. up' = Tail(up) BY <2>3, Zenon DEF Receives
    <3>2. Head(up) = Msg("frame", o) BY <1>0, <2>1, Messages, SMTT(30)
    <3>3. ASSUME NEW q \in Outputs, Flow(q) PROVE Flow(q)'
      <4>1. CASE q # o
        <5>1. SameOutput(q) BY <1>0, <2>3, <4>1, Zenon DEF SameOutput
        <5>2. Head(up) # Msg("frame", q) BY <3>2, <4>1, Messages, Zenon
        <5>. QED BY <2>1, <3>1, <3>3, <5>1, <5>2, FlowTail, Zenon
      <4>2. CASE q = o
        <5>. DEFINE p == out[o]
                    n == out'[o]
                    c == Cardinality(Frames(o))
                    d == Cardinality(Frames(o)')
        <5>0. p \in Pipes /\ p.written \in Nat /\ p.queue \in Nat BY <1>0 DEF Pipes
        <5>1. /\ n.made = p.made /\ n.ended = p.ended /\ n.eof = p.eof /\ n.queue = p.queue + 1
              /\ n.written = p.written
          BY <1>0, <2>3, Zenon DEF Pipes
        <5>2. /\ c \in Nat /\ d \in Nat /\ c = d + 1
              /\ \A i \in Places(up, Msg("eof", o))' : out'[o].ended /\ \A j \in Frames(o)' : j < i
          BY <2>1, <3>1, <3>2, <3>3, <4>2, <5>1, TailOrder, Zenon
        <5>3. p.made = p.written + p.queue + c BY <3>3, <4>2, Zenon DEF Flow
        <5>4. n.made = n.written + n.queue + d
          <6>. DEFINE w == p.written
                      k == p.queue
          <6>1. w \in Nat /\ k \in Nat /\ n.made = w + k + c /\ n.written = w /\ n.queue = k + 1
            BY <5>0, <5>1, <5>3, Zenon
          <6>. HIDE DEF w, k, n, c, d
          <6>2. w + k + c = w + (k + 1) + d BY <5>2, <6>1, SMTT(30)
          <6>. QED BY <6>1, <6>2, Zenon
        <5>5. ~n.eof BY <2>3, <5>1, Zenon
        <5>. QED BY <4>2, <5>2, <5>4, <5>5, Zenon DEF Flow
      <4>. QED BY <4>1, <4>2, Zenon
    <3>. QED BY <1>a, <2>1, <2>3, <3>3, Zenon
  <2>. QED BY <1>5, <2>2, <2>3, Zenon DEF receiveOutput
<1>6. ASSUME NEW o \in Outputs, receiveEOF(o) PROVE Flowing'
  <2>1. rpc.recv = "on" /\ up # <<>> /\ Head(up).t = "eof" /\ Head(up).arg = o /\ ses' = ses /\ gw' = gw
    BY <1>6, Zenon DEF receiveEOF, Arrived
  <2>2. CASE Returns("error") BY <2>1, <2>2, ReceiverGivesUp, Zenon
  <2>3. CASE Receives /\ out' = [out EXCEPT ![o].eof = TRUE]
    <3>1. up' = Tail(up) BY <2>3, Zenon DEF Receives
    <3>2. Head(up) = Msg("eof", o) BY <1>0, <2>1, Messages, SMTT(30)
    <3>3. ASSUME NEW q \in Outputs, Flow(q) PROVE Flow(q)'
      <4>a. Head(up) # Msg("frame", q) BY <3>2, Messages, Zenon
      <4>1. CASE q # o
        <5>1. SameOutput(q) BY <1>0, <2>3, <4>1, Zenon DEF SameOutput
        <5>. QED BY <2>1, <3>1, <3>3, <4>a, <5>1, FlowTail, Zenon
      <4>2. CASE q = o
        <5>. DEFINE p == out[o]
                    n == out'[o]
        <5>1. /\ n.made = p.made /\ n.ended = p.ended /\ n.queue = p.queue /\ n.written = p.written /\ n.eof = TRUE
          BY <1>0, <2>3, Zenon DEF Pipes
        <5>2. /\ Cardinality(Frames(o)') = Cardinality(Frames(o)) /\ (Frames(o) = {} => Frames(o)' = {})
              /\ \A i \in Places(up, Msg("eof", o))' : out'[o].ended /\ \A j \in Frames(o)' : j < i
          BY <2>1, <3>1, <3>3, <4>a, <4>2, <5>1, TailOrder, SMTT(30)
        <5>3. 1 \in Places(up, Msg("eof", o)) BY <1>0, <2>1, <3>2, SMTT(30) DEF Places
        <5>4. p.ended /\ \A j \in Frames(o) : j < 1 BY <3>3, <4>2, <5>3, Zenon DEF Flow
        <5>5. \A j \in Frames(o) : j >= 1 BY <1>0 DEF Frames, Places
        <5>6. Frames(o) = {}
          <6>1. Frames(o) \subseteq Int BY <1>0, SMTT(30) DEF Frames, Places
          <6>. QED BY <5>4, <5>5, <6>1, SMTT(30)
        <5>7. p.made = p.written + p.queue + Cardinality(Frames(o)) BY <3>3, <4>2, Zenon DEF Flow
        <5>. QED BY <4>2, <5>1, <5>2, <5>4, <5>6, <5>7, Zenon DEF Flow
      <4>. QED BY <4>1, <4>2, Zenon
    <3>. QED BY <1>a, <2>1, <2>3, <3>3, Zenon
  <2>. QED BY <1>6, <2>2, <2>3, Zenon DEF receiveEOF
<1>7. CASE ExecuteReturns
  <2>. DEFINE finished == [ses EXCEPT !.transportDone = TRUE]
  <2>a. finished \in Sessions BY <1>0, SessionUpdates, ZenonT(30)
  <2>1. finished.result = ses.result /\ finished.done = ses.done BY <1>0, Zenon DEF Sessions
  <2>2. ses' = finished \/ ses' = Cancel(finished, "lost") BY <1>7, Zenon DEF ExecuteReturns
  <2>3. ses'.result = ses.result /\ (ses.done => ses'.done)
    <3>. HIDE DEF finished
    <3>. QED BY <2>a, <2>1, <2>2, CancelFields, Zenon
  <2>4. /\ rpc'.handler = "over" /\ rpc'.stream = "cut"
        /\ rpc'.recv = IF rpc.recv \in {"nil", "error"} THEN "over" ELSE rpc.recv
    BY <1>0, <1>7, Zenon DEF ExecuteReturns, Rpcs
  <2>5. UNCHANGED <<up, out, gw>> BY <1>7, Zenon DEF ExecuteReturns
  <2>6. Undisturbed' => Undisturbed BY <2>3, <2>5, Zenon DEF Undisturbed
  <2>7. (\A o \in Outputs : Flow(o)) => \A o \in Outputs : Flow(o)'
    BY <2>5, FlowKept, Zenon DEF SameOutput
  <2>. QED BY <2>3, <2>4, <2>5, <2>6, <2>7, Zenon DEF Flowing
<1>. QED BY <1>1, <1>2, <1>3, <1>4, <1>5, <1>6, <1>7, Zenon DEF Receiving

\* The process counts what it writes, and ends an output behind its last frame.
LEMMA AgentFlowing == ASSUME TypeOK, OneStart, Flowing, NEW g \in Generations, Agent(g) PROVE Flowing'
<1>. USE DEF agentOnly, controlVars, hubVars, streamVars, agentVars, storeVars
<1>0. rpc \in Rpcs /\ out \in [Outputs -> Pipes] /\ up \in Seq(Ups) BY Zenon DEF TypeOK
<1>a. UNCHANGED <<ses, gw>> BY AgentKeeps, Zenon
<1>b. ASSUME NEW m \in Ups, m.t \notin {"frame", "eof"}, Reports(m), UNCHANGED <<rpc, out>>, rpc.stream # "none"
      PROVE  Flowing'
  <2>1. Undisturbed' = Undisturbed BY <1>a, Zenon DEF Undisturbed
  <2>2. \A o \in Outputs : m # Msg("frame", o) /\ m # Msg("eof", o) BY <1>b DEF Msg
  <2>3. ASSUME rpc.recv \in {"off", "on"}, NEW o \in Outputs, Flow(o) PROVE Flow(o)'
    <3>1. up' = Append(up, m) BY <1>b, <2>3, Zenon DEF Reports
    <3>. QED BY <1>b, <2>2, <2>3, <3>1, FlowAppend, Zenon DEF SameOutput
  <2>. QED BY <1>a, <1>b, <2>1, <2>3, Zenon DEF Flowing
<1>1. CASE handlePrepare(g) \/ handleCancel(g) \/ handleAttached(g)
  BY <1>1, FlowingKept, Zenon DEF handlePrepare, handleCancel, handleAttached, SameOutput
<1>2. CASE handleAttach(g)
  <2>1. CASE UNCHANGED <<up, rpc>>
    BY <1>2, <2>1, FlowingKept, ZenonT(30) DEF handleAttach, SameOutput
  <2>2. CASE rpc.stream = "none" /\ up' = <<Msg("attach", "")>> /\ rpc' = [rpc EXCEPT !.stream = "open"]
    <3>1. up = <<>> /\ rpc.handler = "off" /\ rpc.recv = "off" BY <2>2, ZenonT(30) DEF Flowing
    <3>2. rpc'.stream = "open" /\ rpc'.handler = "off" /\ rpc'.recv = "off"
      BY <1>0, <2>2, <3>1, ZenonT(30) DEF Rpcs
    <3>a. \A m : Append(<<>>, m) = <<m>> OBVIOUS
    <3>3. up' = Append(up, Msg("attach", "")) BY <2>2, <3>1, <3>a, ZenonT(30)
    <3>4. out' = out BY <1>2, ZenonT(30) DEF handleAttach
    <3>5. ASSUME NEW o \in Outputs, Flow(o) PROVE Flow(o)'
      <4>1. Msg("attach", "") # Msg("frame", o) /\ Msg("attach", "") # Msg("eof", o)
        BY ZenonT(30) DEF Msg
      <4>2. SameOutput(o) /\ Msg("attach", "") \in Ups
        BY <3>4, MessageType, ZenonT(30) DEF SameOutput
      <4>. QED BY <3>3, <3>5, <4>1, <4>2, FlowAppend, ZenonT(30)
    <3>6. Undisturbed' = Undisturbed BY <1>a, Zenon DEF Undisturbed
    <3>7. ses.result = "none" BY <3>1, Zenon DEF Flowing
    <3>. QED BY <1>a, <3>1, <3>2, <3>5, <3>6, <3>7, Zenon DEF Flowing
  <2>. QED BY <1>2, <2>1, <2>2, ZenonT(30) DEF handleAttach
<1>3. CASE handleStart(g)
  <2>1. down # <<>> BY <1>3, ZenonT(30) DEF handleStart
  <2>2. rpc.stream # "none" BY <2>1, Zenon DEF OneStart, Flowing
  <2>3. PICK m \in {Msg("started", ""), Msg("failed", "launch_failed"), Msg("failed", "outcome_unknown")} : Reports(m)
    BY <1>3, ZenonT(30) DEF handleStart
  <2>a. m \in Ups BY <2>3, MessageType, ZenonT(30)
  <2>b. \A t, a : Msg(t, a).t = t BY Messages, ZenonT(30)
  <2>c. /\ Msg("started", "").t = "started" /\ Msg("failed", "launch_failed").t = "failed"
        /\ Msg("failed", "outcome_unknown").t = "failed"
    BY <2>b, ZenonT(30)
  <2>d. m.t \in {"started", "failed"} BY <2>3, <2>c, Zenon
  <2>4. m \in Ups /\ m.t \notin {"frame", "eof"} BY <2>a, <2>d, ZenonT(30)
  <2>. QED BY <1>b, <1>3, <2>2, <2>3, <2>4, ZenonT(30) DEF handleStart
<1>4. CASE sendResult(g)
  <2>3. PICK r \in {"cancelled", "exited"} : Reports(Msg("result", r))
    BY <1>4, Zenon DEF sendResult
  <2>4. Msg("result", r) \in Ups /\ Msg("result", r).t \notin {"frame", "eof"}
    BY MessageType, ZenonT(30) DEF Msg
  <2>. QED BY <1>b, <1>4, <2>3, <2>4, Zenon DEF sendResult
<1>5. CASE serveEnds(g) \/ agentEnds(g)
  <2>1. rpc' \in {rpc, [rpc EXCEPT !.stream = "cut"]} /\ UNCHANGED <<up, out>>
    BY <1>5, Zenon DEF serveEnds, agentEnds
  <2>2. /\ rpc'.recv = rpc.recv /\ rpc'.handler = rpc.handler
        /\ rpc'.stream = rpc.stream \/ rpc'.stream = "cut"
    BY <1>0, <2>1, Zenon DEF Rpcs
  <2>. QED BY <1>a, <2>1, <2>2, FlowingKept, Zenon DEF SameOutput
<1>6. ASSUME NEW o \in Outputs, processWrites(g, o) PROVE Flowing'
  <2>. DEFINE p == out[o]
              n == out'[o]
  <2>0. /\ rpc' = rpc /\ rpc.stream = "open" /\ Reports(Msg("frame", o)) /\ ~p.ended
        /\ out' = [out EXCEPT ![o].made = @ + 1]
    BY <1>6, Zenon DEF processWrites
  <2>1. /\ n.made = p.made + 1 /\ n.ended = p.ended /\ n.queue = p.queue /\ n.eof = p.eof
        /\ n.written = p.written
    BY <1>0, <2>0, Zenon DEF Pipes
  <2>2. p.made \in Nat /\ p.written \in Nat /\ p.queue \in Nat BY <1>0 DEF Pipes
  <2>3. \A q \in Outputs : q # o => SameOutput(q) BY <1>0, <2>0, Zenon DEF SameOutput
  <2>4. ASSUME rpc.recv \in {"off", "on"}, NEW q \in Outputs, Flow(q) PROVE Flow(q)'
    <3>1. up' = Append(up, Msg("frame", o)) /\ Msg("frame", o) \in Ups
      BY <2>0, <2>4, MessageType, ZenonT(30) DEF Reports
    <3>2. CASE q # o
      <4>1. Msg("frame", o) # Msg("frame", q) /\ Msg("frame", o) # Msg("eof", q)
        BY <3>2, Messages, Zenon
      <4>. QED BY <2>3, <2>4, <3>1, <3>2, <4>1, FlowAppend, Zenon
    <3>3. CASE q = o
      <4>1. Places(up, Msg("eof", o))' = Places(up, Msg("eof", o))
        BY <1>0, <3>1, Messages, PlacesAppend, SMTT(30)
      <4>2. Places(up, Msg("eof", o)) = {} /\ ~p.eof BY <2>0, <2>4, <3>3, Zenon DEF Flow
      <4>. DEFINE c == Cardinality(Frames(o))
                  d == Cardinality(Frames(o)')
                  w == p.written
                  k == p.queue
      <4>3. d = c + 1 BY <1>0, <3>1, PlacesAppend, SMTT(30) DEF Frames
      <4>4. c \in Nat BY <1>0, PlacesFinite, Zenon DEF Frames
      <4>5. n.made = (w + k + c) + 1 BY <2>1, <2>4, <3>3, Zenon DEF Flow
      <4>6. w \in Nat /\ k \in Nat /\ n.written = w /\ n.queue = k BY <2>1, <2>2, Zenon
      <4>7. n.made = n.written + n.queue + d
        <5>. HIDE DEF c, d, w, k, n
        <5>. QED BY <4>3, <4>4, <4>5, <4>6, SMTT(30)
      <4>8. n.eof = FALSE BY <1>0, <2>1, <4>2, Zenon DEF Pipes
      <4>. QED BY <3>3, <4>1, <4>2, <4>7, <4>8, Zenon DEF Flow
    <3>. QED BY <3>2, <3>3, Zenon
  <2>5. Undisturbed' = Undisturbed BY <1>a, Zenon DEF Undisturbed
  <2>6. ~(Undisturbed /\ ses.result = "exited") BY <2>0, Zenon DEF Flowing
  <2>. QED BY <1>a, <2>0, <2>4, <2>5, <2>6, Zenon DEF Flowing
<1>7. ASSUME NEW o \in Outputs, processEOF(g, o) PROVE Flowing'
  <2>. DEFINE p == out[o]
              n == out'[o]
  <2>0. /\ rpc' = rpc /\ rpc.stream = "open" /\ Reports(Msg("eof", o)) /\ ~p.ended
        /\ out' = [out EXCEPT ![o].ended = TRUE]
    BY <1>7, Zenon DEF processEOF
  <2>1. /\ n.made = p.made /\ n.ended = TRUE /\ n.queue = p.queue /\ n.eof = p.eof
        /\ n.written = p.written
    BY <1>0, <2>0, Zenon DEF Pipes
  <2>3. \A q \in Outputs : q # o => SameOutput(q) BY <1>0, <2>0, Zenon DEF SameOutput
  <2>4. ASSUME rpc.recv \in {"off", "on"}, NEW q \in Outputs, Flow(q) PROVE Flow(q)'
    <3>1. up' = Append(up, Msg("eof", o)) /\ Msg("eof", o) \in Ups
      BY <2>0, <2>4, MessageType, ZenonT(30) DEF Reports
    <3>2. CASE q # o
      <4>1. Msg("eof", o) # Msg("frame", q) /\ Msg("eof", o) # Msg("eof", q)
        BY <3>2, Messages, Zenon
      <4>. QED BY <2>3, <2>4, <3>1, <3>2, <4>1, FlowAppend, Zenon
    <3>3. CASE q = o
      <4>1. Frames(o)' = Frames(o) BY <1>0, <3>1, Messages, PlacesAppend, SMTT(30) DEF Frames
      <4>2. Places(up, Msg("eof", o)) = {} /\ ~p.eof BY <2>0, <2>4, <3>3, Zenon DEF Flow
      <4>3. Places(up, Msg("eof", o))' = {Len(up) + 1} BY <1>0, <3>1, <4>2, PlacesAppend, SMTT(30)
      <4>4. \A j \in Frames(o) : j < Len(up) + 1 BY <1>0, SMTT(30) DEF Frames, Places
      <4>5. n.made = n.written + n.queue + Cardinality(Frames(o)')
        BY <2>1, <2>4, <3>3, <4>1, Zenon DEF Flow
      <4>6. n.eof = FALSE BY <1>0, <2>1, <4>2, Zenon DEF Pipes
      <4>7. \A i \in Places(up, Msg("eof", o))' : n.ended /\ \A j \in Frames(o)' : j < i
        BY <2>1, <4>1, <4>3, <4>4, Zenon
      <4>. QED BY <3>3, <4>5, <4>6, <4>7, Zenon DEF Flow
    <3>. QED BY <3>2, <3>3, Zenon
  <2>5. Undisturbed' = Undisturbed BY <1>a, Zenon DEF Undisturbed
  <2>6. ~(Undisturbed /\ ses.result = "exited") BY <2>0, Zenon DEF Flowing
  <2>. QED BY <1>a, <2>0, <2>4, <2>5, <2>6, Zenon DEF Flowing
<1>. QED BY <1>1, <1>2, <1>3, <1>4, <1>5, <1>6, <1>7, Zenon DEF Agent

\* Every step keeps Flowing.
LEMMA NextFlowing == ASSUME IInv, Fresh, Flowing, Next PROVE Flowing'
<1>1. TypeOK /\ OneStart BY Zenon DEF IInv
<1>. QED
  BY <1>1, GatewayFlowing, WatchingFlowing, RelayingFlowing, SendingFlowing, ReceivingFlowing,
     ControlFlowing, AgentFlowing, EnvironmentFlowing, Zenon
  DEF Next

-----------------------------------------------------------------------------
(* The relays and the report.                                              *)

\* drain counts the relays: the last one it waits for is the last that ends.
LEMMA LastRelay == ASSUME TypeOK, drain, gw'.pc = "finishing" PROVE AllOver
<1>. DEFINE R == {o \in Outputs : out[o].relay = "over"}
<1>0. gw \in Gateways BY Zenon DEF TypeOK
<1>1. gw.drained \in Nat /\ gw.drained < Cardinality(R) BY <1>0, ZenonT(30) DEF Gateways, drain
<1>2. gw.drained + 1 = Cardinality(Outputs) BY <1>0, ZenonT(30) DEF drain, Gateways
<1>3. R \in SUBSET Outputs BY Zenon
<1>4. IsFiniteSet(R) /\ Cardinality(R) <= Cardinality(Outputs) /\ (Cardinality(Outputs) = Cardinality(R) => Outputs = R)
  BY <1>3, OutputsAssumption, FS_Subset, Zenon
<1>5. Cardinality(R) \in Nat /\ Cardinality(Outputs) \in Nat
  BY <1>4, OutputsAssumption, FS_CardinalityType, Zenon
<1>6. Cardinality(Outputs) = Cardinality(R)
  <2>. DEFINE a == Cardinality(Outputs)
              b == Cardinality(R)
              d == gw.drained
  <2>1. a \in Nat /\ b \in Nat /\ d \in Nat /\ d < b /\ d + 1 = a /\ b <= a
    BY <1>1, <1>2, <1>4, <1>5, Zenon
  <2>. HIDE DEF a, b, d
  <2>2. a = b BY <2>1, SMTT(30)
  <2>. QED BY <2>2, Zenon DEF a, b
<1>7. Outputs = R BY <1>4, <1>6, Zenon
<1>. QED BY <1>7, Zenon DEF AllOver

\* runExec reports an exit after every relay ended, or not at all.
LEMMA CompletionReports == ASSUME TypeOK, Reported, Completion PROVE Reported'
<1>. USE DEF gwOnly, Goto, controlVars, hubVars, streamVars, agentVars, storeVars
<1>0. gw \in Gateways /\ ses \in Sessions /\ db \in Rows BY Zenon DEF TypeOK
<1>a. out' = out /\ gw.pc # "idle"
  BY Zenon
  DEF Completion, MarkExecutionRunning, waitResult, waitDone, waitRuntime, drain, judge,
      cancelPreparedExecution, finishExec, Remove
<1>b. AllOver' = AllOver BY <1>a, Zenon DEF AllOver
<1>c. ses'.result = ses.result /\ (ses.done => ses'.done) BY <1>a, GatewayOutputs, Zenon
<1>1. CASE MarkExecutionRunning
  <2>1. gw.pc = "wait" /\ gw'.pc = "wait"
    BY <1>0, <1>1, ZenonT(30) DEF MarkExecutionRunning, Gateways
  <2>2. db' = db \/ db'.state = "running"
    BY <1>0, <1>1, ZenonT(30) DEF MarkExecutionRunning, Moved, Rows
  <2>. QED BY <2>1, <2>2, Zenon DEF Reported
<1>2. CASE waitResult
  <2>1. gw.pc = "wait" /\ gw'.pc = "drain" /\ gw'.outcome = ses.result /\ ses.result # "none" /\ db' = db
    BY <1>0, <1>2, ZenonT(30) DEF waitResult, Gateways
  <2>. QED BY <1>c, <2>1, Zenon DEF Reported
<1>3. CASE waitDone \/ waitRuntime
  <2>1. gw.pc \in {"wait", "drain"} /\ gw'.pc = "failing" /\ db' = db
    BY <1>0, <1>3, ZenonT(30) DEF waitDone, waitRuntime, Gateways
  <2>. QED BY <2>1, Zenon DEF Reported
<1>4. CASE drain
  <2>1. gw.pc = "drain" /\ gw'.pc \in {"drain", "finishing"} /\ gw'.outcome = gw.outcome /\ db' = db
    BY <1>0, <1>4, ZenonT(30) DEF drain, Gateways
  <2>2. gw'.pc = "finishing" => AllOver' BY <1>4, <1>b, LastRelay, Zenon
  <2>. QED BY <1>c, <2>1, <2>2, Zenon DEF Reported
<1>5. CASE judge
  <2>1. gw.pc = "failing" /\ gw'.pc = "abort" /\ gw'.outcome # "exited"
    BY <1>0, <1>5, ZenonT(30) DEF judge, Gateways
  <2>2. db'.state = db.state BY <1>0, <1>5, ZenonT(30) DEF judge, MarkExecutionAdmissionUnused, Rows
  <2>. QED BY <2>1, <2>2, Zenon DEF Reported
<1>6. CASE cancelPreparedExecution
  <2>1. gw.pc = "abort" /\ gw'.pc = "finishing" /\ gw'.outcome = gw.outcome /\ db' = db
    BY <1>0, <1>6, ZenonT(30) DEF cancelPreparedExecution, Gateways
  <2>. QED BY <2>1, Zenon DEF Reported
<1>7. CASE finishExec
  <2>1. gw.pc = "finishing" /\ gw'.pc = "close" BY <1>0, <1>7, ZenonT(30) DEF finishExec, Gateways
  <2>2. db.state # "exited" BY <2>1, Zenon DEF Reported
  <2>3. db'.state = "exited" => gw.outcome = "exited"
    BY <1>0, <1>7, <2>2, ZenonT(30) DEF finishExec, FinishExecution, Rows
  <2>. QED BY <1>b, <1>c, <2>1, <2>3, Zenon DEF Reported
<1>8. CASE Remove
  <2>1. gw'.pc = "over" BY <1>8, Zenon DEF Remove, NoGateway
  <2>. QED BY <2>1, Zenon DEF Reported
<1>. QED BY <1>1, <1>2, <1>3, <1>4, <1>5, <1>6, <1>7, <1>8, Zenon DEF Completion

\* Every step keeps Reported: a result that is there is never replaced.
LEMMA NextReported == ASSUME IInv, Flowing, Reported, Next PROVE Reported'
<1>. USE DEF StoreState, controlVars, hubVars, streamVars, agentVars, storeVars
<1>0. TypeOK BY Zenon DEF IInv
<1>a. ses \in Sessions /\ out \in [Outputs -> Pipes] BY <1>0, Zenon DEF TypeOK
<1>1. CASE Gateway BY <1>0, <1>1, GatewayReports, Zenon DEF Reported
<1>2. CASE Completion BY <1>0, <1>2, CompletionReports, Zenon
<1>3. CASE Watching
  <2>1. out' = out /\ ses' \in {ses, Cancel(ses, "other")}
    BY <1>3, Zenon DEF Watching, watchExecution, watchEnd
  <2>2. ses'.result = ses.result BY <1>a, <2>1, CancelFields, ZenonT(30)
  <2>. QED BY <1>0, <1>3, <2>1, <2>2, WatchingKeeps, ReportedKept, Zenon
<1>4. CASE Relaying
  <2>1. ses' \in {ses, Cancel(ses, "other")}
    BY <1>4, Zenon DEF Relaying, inputFailed, relayWrite, relayEnd
  <2>2. ses'.result = ses.result BY <1>a, <2>1, CancelFields, ZenonT(30)
  <2>3. \A o \in Outputs : out[o].relay = "over" => out'[o].relay = "over"
    <3>1. CASE inputFailed BY <3>1, Zenon DEF inputFailed
    <3>2. ASSUME NEW o \in Outputs, relayWrite(o) \/ relayEnd(o)
          PROVE  \A q \in Outputs : out[q].relay = "over" => out'[q].relay = "over"
      <4>1. out[o].relay = "copy" BY <3>2, Zenon DEF relayWrite, relayEnd
      <4>2. \A q \in Outputs : q # o => out'[q] = out[q]
        BY <1>a, <3>2, Zenon DEF relayWrite, relayEnd
      <4>. QED BY <4>1, <4>2, Zenon
    <3>. QED BY <1>4, <3>1, <3>2, Zenon DEF Relaying
  <2>. QED BY <1>0, <1>4, <2>2, <2>3, RelayingKeeps, ReportedKept, Zenon
<1>5. CASE Sending
  <2>1. out' = out
    BY <1>5, Zenon
    DEF Sending, Attach, sendAttached, dequeueStart, sendProtectedScript, beforeStart,
        attemptStart, sendStart, senderEnds
  <2>2. ses'.result = ses.result
    <3>1. CASE Attach BY <1>a, <3>1, Zenon DEF Attach, Sessions
    <3>2. CASE sendAttached \/ dequeueStart \/ attemptStart
      BY <1>a, <3>2, Zenon DEF sendAttached, dequeueStart, attemptStart, Sessions
    <3>3. CASE sendProtectedScript \/ beforeStart \/ sendStart \/ senderEnds
      BY <3>3, Zenon DEF sendProtectedScript, beforeStart, sendStart, senderEnds
    <3>. QED BY <1>5, <3>1, <3>2, <3>3, Zenon DEF Sending
  <2>. QED BY <1>0, <1>5, <2>1, <2>2, SendingKeeps, ReportedKept, Zenon
<1>6. CASE Receiving
  <2>1. \A o \in Outputs : out'[o].relay = out[o].relay
    <3>1. \/ out' = out \/ out' = [o \in Outputs |-> [out[o] EXCEPT !.eof = TRUE]]
          \/ \E o \in Outputs : \/ out' = [out EXCEPT ![o].eof = TRUE]
                                \/ out' = [out EXCEPT ![o].queue = @ + 1]
      BY <1>6, Zenon
      DEF Receiving, receiveStarted, receiveStartFailed, receiveResult, receiverEnds,
          receiveOutput, receiveEOF, ExecuteReturns
    <3>. QED BY <1>a, <3>1, SMTT(30) DEF Pipes
  <2>2. ses'.result = ses.result \/ ses.result = "none"
    <3>1. CASE rpc.recv = "on" BY <3>1, Zenon DEF Flowing
    <3>2. CASE rpc.recv # "on"
      <4>1. ExecuteReturns
        BY <1>6, <3>2, Zenon
        DEF Receiving, receiveStarted, receiveStartFailed, receiveResult, receiverEnds,
            receiveOutput, receiveEOF, Arrived
      <4>. DEFINE finished == [ses EXCEPT !.transportDone = TRUE]
      <4>2. finished \in Sessions BY <1>a, SessionUpdates, Zenon
      <4>3. finished.result = ses.result BY <1>a, Zenon DEF Sessions
      <4>4. ses' = finished \/ ses' = Cancel(finished, "lost") BY <4>1, Zenon DEF ExecuteReturns
      <4>5. ses'.result = ses.result
        <5>. HIDE DEF finished
        <5>. QED BY <4>2, <4>3, <4>4, CancelFields, ZenonT(30)
      <4>. QED BY <4>5, Zenon
    <3>. QED BY <3>1, <3>2, Zenon
  <2>. QED BY <1>0, <1>6, <2>1, <2>2, ReceivingKeeps, ReportedKept, Zenon
<1>7. ASSUME NEW g \in Generations, Control(g) PROVE Reported'
  <2>1. out' = out
    BY <1>7, Zenon DEF Control, Connect, SetCapabilities, onAgentDisconnected, DeliverPrepared
  <2>2. ses' \in {ses, Cancel(ses, "other")} \/ \E v \in {"ok", "error"} : ses' = [ses EXCEPT !.prepared = v]
    BY <1>7, Zenon DEF Control, Connect, SetCapabilities, onAgentDisconnected, DeliverPrepared
  <2>3. ASSUME NEW v, ses' = [ses EXCEPT !.prepared = v] PROVE ses'.result = ses.result
    BY <1>a, <2>3, Zenon DEF Sessions
  <2>4. ses'.result = ses.result BY <1>a, <2>2, <2>3, CancelFields, ZenonT(30)
  <2>. QED BY <1>0, <1>7, <2>1, <2>4, ControlKeeps, ReportedKept, Zenon
<1>8. ASSUME NEW g \in Generations, Agent(g) PROVE Reported'
  <2>1. \/ out' = out
        \/ \E o \in Outputs : \/ out' = [out EXCEPT ![o].made = @ + 1] \/ out' = [out EXCEPT ![o].ended = TRUE]
    BY <1>8, ZenonT(30)
    DEF Agent, handlePrepare, handleAttach, handleCancel, handleAttached, handleStart, sendResult,
                serveEnds, agentEnds, processWrites, processEOF, agentOnly
  <2>2. \A o \in Outputs : out'[o].relay = out[o].relay BY <1>a, <2>1, SMTT(30) DEF Pipes
  <2>. QED BY <1>0, <1>8, <2>2, AgentKeeps, ReportedKept, Zenon
<1>9. CASE Environment
  <2>1. CASE Revoke \/ PreparationExpires \/ StreamLost
    BY <2>1, ReportedKept, Zenon DEF Revoke, PreparationExpires, StreamLost, envOnly
  <2>2. ASSUME NEW power \in BOOLEAN, Crash(power) PROVE Reported'
    <3>1. gw'.pc = "over" BY <2>2, Zenon DEF Crash, NoGateway
    <3>. QED BY <3>1, Zenon DEF Reported
  <2>. QED BY <1>9, <2>1, <2>2, Zenon DEF Environment
<1>. QED BY <1>1, <1>2, <1>3, <1>4, <1>5, <1>6, <1>7, <1>8, <1>9, Zenon DEF Next

\* Initially nothing was written.
LEMMA OutputsInitially == Init => Fresh /\ Flowing /\ Relayed /\ Reported
<1>. SUFFICES ASSUME Init PROVE Fresh /\ Flowing /\ Relayed /\ Reported BY Zenon
<1>1. Fresh BY ZenonT(30) DEF Init, Fresh, NoSession
<1>2. \A o \in Outputs : Flow(o)
  <2>. SUFFICES ASSUME NEW o \in Outputs PROVE Flow(o) BY Zenon
  <2>1. up = <<>> /\ Len(up) = 0 BY Zenon DEF Init
  <2>2. Frames(o) = {} /\ Places(up, Msg("eof", o)) = {} BY <2>1 DEF Frames, Places
  <2>3. Cardinality(Frames(o)) = 0 BY <2>2, FS_EmptySet, Zenon
  <2>4. out[o].made = 0 /\ out[o].written = 0 /\ out[o].queue = 0 /\ ~out[o].eof
    BY Zenon DEF Init
  <2>. QED BY <2>2, <2>3, <2>4, SMTT(30) DEF Flow
<1>3. Flowing BY <1>2, ZenonT(30) DEF Init, Flowing, NoSession
<1>4. Relayed BY Zenon DEF Init, Relayed
<1>5. Reported BY ZenonT(30) DEF Init, Reported, NoGateway, NoRow
<1>. QED BY <1>1, <1>3, <1>4, <1>5, Zenon

\* An exit that nothing disturbed is reported after every byte of every output reached the SSH
\* channel (exec_bridge.go execute's wait for its relays), for any outputs, frames and queues.
THEOREM DrainedHolds == Spec => []DrainedBeforeExit
<1>1. Init => DInv BY Initially, OutputsInitially DEF DInv
<1>2. DInv /\ [Next]_vars => DInv'
  <2>1. ASSUME DInv, Next PROVE DInv'
    BY <2>1, Inductive, NextFresh, NextFlowing, NextRelayed, NextReported, SMTT(30) DEF DInv
  <2>2. ASSUME DInv, UNCHANGED vars PROVE DInv'
    BY <2>2, Stuttering, OutputsStutter, SMTT(30) DEF DInv
  <2>. QED BY <2>1, <2>2, SMTT(30)
<1>3. DInv => DrainedBeforeExit
  <2>. SUFFICES ASSUME DInv, gw.pc = "close", db.state = "exited", ~ses.done, NEW o \in Outputs
                PROVE  out[o].written = out[o].made
    BY DEF DrainedBeforeExit
  <2>1. ses.result = "exited" /\ AllOver BY DEF DInv, Reported
  <2>2. Undisturbed BY DEF Undisturbed
  <2>3. out[o].made = out[o].written + out[o].queue BY <2>1, <2>2, SMTT(30) DEF DInv, Flowing
  <2>4. out[o].queue = 0 BY <2>1, <2>2, SMTT(30) DEF DInv, Relayed, AllOver
  <2>5. out[o].written \in Nat BY DEF DInv, IInv, TypeOK, Pipes
  <2>. QED BY <2>3, <2>4, <2>5, SMTT(30)
<1>. QED BY <1>1, <1>2, <1>3, PTL DEF Spec
=============================================================================
