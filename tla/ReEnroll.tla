------------------------------ MODULE ReEnroll ------------------------------
(***************************************************************************)
(* Re-enrolment of one node whose certificate ran out: the Hub's registry  *)
(* of bootstrap sessions (grpcserver/reenroll.go), the durable request     *)
(* rows (store/reenroll.go), the administrators' HTTP decisions            *)
(* (server/handlers_reenroll.go) and the agent's half of the exchange      *)
(* (agent/internal/client/client.go).  A request, its bootstrap stream and *)
(* its session have one number; a step that the code runs under reEnrollMu *)
(* is one action.                                                          *)
(***************************************************************************)
EXTENDS Naturals, FiniteSets

CONSTANTS
    MaxRequests,    \* requests the agent makes
    Calls,          \* the administrators' HTTP calls
    MaxCrashes      \* restarts of the Hub

VARIABLES
    row,        \* reenroll_requests.status of each request
    current,    \* the request in reEnrollSessions; 0 is none
    sess,       \* state of each session
    outcome,    \* how a finished session ended: "ok", "denied" or "failed"
    approval,   \* the approve channel of the session holds a decision
    late,       \* proofUntil has passed
    stream,     \* the bootstrap streams: "none", "open" or "closed"
    handler,    \* where the stream's Connect handler stands
    toAgent,    \* the messages the Hub sent on the stream and not yet read
    toHub,      \* a proof the agent sent: "none", "good" or "bad"
    call,       \* the HTTP decisions
    agent,      \* the request the agent waits for; 0 is none
    crashes

vars == <<row, current, sess, outcome, approval, late, stream, handler,
          toAgent, toHub, call, agent, crashes>>

Requests == 1..MaxRequests

Decided == {"approved", "denied", "expired"}

Idle == [pc |-> "idle", req |-> 0]

TypeOK ==
    /\ row \in [Requests -> {"none", "pending"} \cup Decided]
    /\ current \in 0..MaxRequests
    /\ sess \in [Requests -> {"none", "pending", "preparing", "awaiting",
                              "delivering", "finished", "lost"}]
    /\ outcome \in [Requests -> {"none", "ok", "denied", "failed"}]
    /\ approval \in [Requests -> BOOLEAN]
    /\ late \in [Requests -> BOOLEAN]
    /\ stream \in [Requests -> {"none", "open", "closed"}]
    /\ handler \in [Requests -> {"none", "wait", "send", "recv", "proof", "deliver", "gone"}]
    /\ toAgent \in [Requests -> SUBSET {"approved", "denied", "cert"}]
    /\ toHub \in [Requests -> {"none", "good", "bad"}]
    /\ call \in [Calls -> [pc : {"idle", "approve", "deny", "preparing", "waiting",
                                 "approved", "denied", "refused"},
                           req : 0..MaxRequests]]
    /\ agent \in 0..MaxRequests
    /\ crashes \in 0..MaxCrashes

Init ==
    /\ row = [r \in Requests |-> "none"]
    /\ current = 0
    /\ sess = [r \in Requests |-> "none"]
    /\ outcome = [r \in Requests |-> "none"]
    /\ approval = [r \in Requests |-> FALSE]
    /\ late = [r \in Requests |-> FALSE]
    /\ stream = [r \in Requests |-> "none"]
    /\ handler = [r \in Requests |-> "none"]
    /\ toAgent = [r \in Requests |-> {}]
    /\ toHub = [r \in Requests |-> "none"]
    /\ call = [c \in Calls |-> Idle]
    /\ agent = 0
    /\ crashes = 0

-----------------------------------------------------------------------------
(* The registry and the rows. *)

DecidePendingReEnroll_Any(rows, r, status) == [rows EXCEPT ![r] = status]

DecidePendingReEnroll(rows, r, status) ==
    [rows EXCEPT ![r] = IF @ = "pending" THEN status ELSE @]

\* finishReEnrollLocked: the first end is the one that counts, and it frees
\* the registry only if the session still is the current one.
FinishReEnroll(r, o) ==
    /\ sess' = [sess EXCEPT ![r] = "finished"]
    /\ outcome' = [outcome EXCEPT ![r] = IF sess[r] = "finished" THEN @ ELSE o]
    /\ current' = IF current = r THEN 0 ELSE current

EndReEnroll(r, o, status) ==
    /\ row' = IF sess[r] = "finished" \/ status = "" THEN row
              ELSE DecidePendingReEnroll(row, r, status)
    /\ FinishReEnroll(r, o)

\* What a caller of EndReEnroll is told.
EndedAs(r, o) == IF sess[r] = "finished" THEN outcome[r] ELSE o

\* CreateCurrentReEnrollRequest: the earlier pending request expires in the
\* transaction that records this one.
CreateCurrentReEnrollRequest(r) ==
    row' = [q \in Requests |-> IF q = r THEN "pending"
                               ELSE IF row[q] = "pending" THEN "expired" ELSE row[q]]

\* registerReEnrollLocked: the session before it ends as superseded.
RegisterReEnroll(r) ==
    /\ current' = r
    /\ sess' = [q \in Requests |-> IF q = r THEN "pending"
                                   ELSE IF q = current THEN "finished" ELSE sess[q]]
    /\ outcome' = [q \in Requests |-> IF q = current /\ q # r THEN "failed" ELSE outcome[q]]

\* The handler returns: its stream ends, and what the Hub had sent stays
\* readable.
Return(r) ==
    /\ handler' = [handler EXCEPT ![r] = "gone"]
    /\ stream' = [stream EXCEPT ![r] = "closed"]

-----------------------------------------------------------------------------
(* The stream's handler. *)

\* reEnroll: the agent has one attempt at a time, on a bootstrap stream of
\* its own.
Asks(r) ==
    /\ agent = 0 /\ stream[r] = "none"
    /\ \A q \in Requests : q < r => stream[q] # "none"
    /\ agent' = r
    /\ stream' = [stream EXCEPT ![r] = "open"]

\* The agent opens a bootstrap stream and the Hub takes its first message:
\* the row, the replaced row and the registry change under one lock.
HandleReEnrollRequest(r) ==
    /\ Asks(r)
    /\ handler' = [handler EXCEPT ![r] = "wait"]
    /\ CreateCurrentReEnrollRequest(r)
    /\ RegisterReEnroll(r)
    /\ UNCHANGED <<approval, late, toAgent, toHub, call, crashes>>

\* The decision reaches the handler, which looks again whether the session
\* still is the current one before it releases anything.
TakeApproval(r) ==
    /\ handler[r] = "wait" /\ approval[r]
    /\ approval' = [approval EXCEPT ![r] = FALSE]
    /\ IF current = r /\ sess[r] = "awaiting" /\ stream[r] = "open"
       THEN handler' = [handler EXCEPT ![r] = "send"] /\ UNCHANGED stream
       ELSE Return(r)
    /\ UNCHANGED <<row, current, sess, outcome, late, toAgent, toHub, call, agent, crashes>>

\* The session ended while the handler waited: the agent is told.
ToldEnded(r) ==
    /\ handler[r] = "wait" /\ sess[r] = "finished"
    /\ Return(r)
    /\ \/ toAgent' = [toAgent EXCEPT ![r] = @ \cup {"denied"}]
       \/ UNCHANGED toAgent
    /\ UNCHANGED <<row, current, sess, outcome, approval, late, toHub, call, agent, crashes>>

\* Ten minutes without a decision, or the agent's stream is gone.
ApprovalTimeout(r) ==
    /\ handler[r] = "wait"
    /\ EndReEnroll(r, "failed", "expired")
    /\ Return(r)
    /\ UNCHANGED <<approval, late, toAgent, toHub, call, agent, crashes>>

SendReEnrollMessage(r, m) == toAgent' = [toAgent EXCEPT ![r] = @ \cup {m}]

\* The sealed key and the challenge go out.  A send that is given up may
\* still have left, because it runs in a worker of its own.
SendApproval(r) ==
    /\ handler[r] = "send"
    /\ \/ /\ stream[r] = "open" /\ sess[r] # "finished" /\ ~late[r]
          /\ SendReEnrollMessage(r, "approved")
          /\ handler' = [handler EXCEPT ![r] = "recv"]
          /\ UNCHANGED <<row, current, sess, outcome, stream>>
       \/ /\ stream[r] = "closed" \/ sess[r] = "finished" \/ late[r]
          /\ SendReEnrollMessage(r, "approved") \/ UNCHANGED toAgent
          /\ EndReEnroll(r, "failed", "expired")
          /\ Return(r)
    /\ UNCHANGED <<approval, late, toHub, call, agent, crashes>>

\* receiveReEnrollProof begins only on the session that is still current.
ReceiveReEnrollProof(r) ==
    /\ handler[r] = "recv"
    /\ IF current = r /\ sess[r] = "awaiting"
       THEN handler' = [handler EXCEPT ![r] = "proof"] /\ UNCHANGED stream
       ELSE Return(r)
    /\ UNCHANGED <<row, current, sess, outcome, approval, late, toAgent, toHub, call,
                   agent, crashes>>

\* No proof came in time, or the session or the stream ended.
ProofTimeout(r) ==
    /\ handler[r] = "proof"
    /\ late[r] \/ sess[r] = "finished" \/ stream[r] = "closed"
    /\ EndReEnroll(r, "failed", "expired")
    /\ Return(r)
    /\ UNCHANGED <<approval, late, toAgent, toHub, call, agent, crashes>>

\* A proof may be used: the session is current and awaits it, in time, on
\* its own stream.
ProofUsable(r) ==
    current = r /\ sess[r] = "awaiting" /\ ~late[r] /\ stream[r] = "open"

\* verifyReEnrollProofLocked and issueRegistrationCertificate succeed; the
\* signing authority may still refuse a good proof.
VerifyReEnrollProof(r) == toHub[r] = "good"

\* Verification, issuance and the durable decision are one step under the
\* lock; the certificate is sent after it.
HandleReEnrollProof(r) ==
    /\ handler[r] = "proof" /\ toHub[r] # "none"
    /\ toHub' = [toHub EXCEPT ![r] = "none"]
    /\ \/ /\ ProofUsable(r) /\ VerifyReEnrollProof(r) /\ row[r] = "pending"
          /\ row' = DecidePendingReEnroll(row, r, "approved")
          /\ sess' = [sess EXCEPT ![r] = "delivering"]
          /\ current' = 0
          /\ handler' = [handler EXCEPT ![r] = "deliver"]
          /\ UNCHANGED <<outcome, stream, toAgent>>
       \/ /\ ProofUsable(r)
          /\ row' = DecidePendingReEnroll(row, r, "denied")
          /\ FinishReEnroll(r, "failed")
          /\ SendReEnrollMessage(r, "denied")
          /\ Return(r)
       \/ /\ ~ProofUsable(r)
          /\ EndReEnroll(r, "failed", "expired")
          /\ SendReEnrollMessage(r, "denied")
          /\ Return(r)
    /\ UNCHANGED <<approval, late, call, agent, crashes>>

\* The certificate is sent; only a send that succeeded ends the session well.
DeliverCertificate(r) ==
    /\ handler[r] = "deliver"
    /\ \/ /\ stream[r] = "open" /\ sess[r] # "finished" /\ ~late[r]
          /\ SendReEnrollMessage(r, "cert")
          /\ EndReEnroll(r, "ok", "")
       \/ /\ stream[r] = "closed" \/ sess[r] = "finished" \/ late[r]
          /\ SendReEnrollMessage(r, "cert") \/ UNCHANGED toAgent
          /\ EndReEnroll(r, "failed", "")
    /\ Return(r)
    /\ UNCHANGED <<approval, late, toHub, call, agent, crashes>>

\* The thirty seconds for the proof and the delivery run out.
ProofDeadline(r) ==
    /\ sess[r] \in {"awaiting", "delivering"} /\ ~late[r]
    /\ late' = [late EXCEPT ![r] = TRUE]
    /\ UNCHANGED <<row, current, sess, outcome, approval, stream, handler, toAgent, toHub,
                   call, agent, crashes>>

-----------------------------------------------------------------------------
(* The administrators' decisions. *)

Answer(c, a) == call' = [call EXCEPT ![c].pc = a]

\* requireCurrentPendingReEnroll: the request named must be the pending row.
RequireCurrentPendingReEnroll(r) == row[r] = "pending"

Begin(c, r, kind) ==
    /\ call[c] = Idle /\ RequireCurrentPendingReEnroll(r)
    /\ call' = [call EXCEPT ![c] = [pc |-> kind, req |-> r]]
    /\ UNCHANGED <<row, current, sess, outcome, approval, late, stream, handler, toAgent,
                   toHub, agent, crashes>>

\* The approval and the denial of one request.  The administrator's own
\* second factor has been verified before the approval begins; a call that
\* is refused before this point changes nothing.
HandleReEnrollApprove(c, r) == Begin(c, r, "approve")

HandleReEnrollDeny(c, r) == Begin(c, r, "deny")

\* ReleaseKEK reserves the decision for exactly this request; it is the
\* reservation that a second decision meets.
ReleaseKEK(c) ==
    LET r == call[c].req IN
    /\ call[c].pc = "approve"
    /\ IF current = r /\ sess[r] = "pending"
       THEN sess' = [sess EXCEPT ![r] = "preparing"] /\ Answer(c, "preparing")
       ELSE Answer(c, "refused") /\ UNCHANGED sess
    /\ UNCHANGED <<row, current, outcome, approval, late, stream, handler, toAgent, toHub,
                   agent, crashes>>

\* The key material is read and sealed to the node, or it cannot be.
PrepareReEnrollApproval == BOOLEAN

\* The key is sealed outside the lock; under it again, the session must
\* still be the one that was reserved.  A key that cannot be sealed gives
\* the reservation back.
ReleasePrepared(c) ==
    LET r == call[c].req
        Kept == current = r /\ sess[r] = "preparing" /\ stream[r] = "open" IN
    /\ call[c].pc = "preparing"
    /\ \E sealed \in PrepareReEnrollApproval :
        \/ /\ ~Kept
           /\ EndReEnroll(r, "failed", "expired")
           /\ Answer(c, "refused")
           /\ UNCHANGED approval
        \/ /\ Kept /\ ~sealed
           /\ sess' = [sess EXCEPT ![r] = "pending"]
           /\ Answer(c, "refused")
           /\ UNCHANGED <<row, current, outcome, approval>>
        \/ /\ Kept /\ sealed /\ row[r] = "pending"
           /\ sess' = [sess EXCEPT ![r] = "awaiting"]
           /\ approval' = [approval EXCEPT ![r] = TRUE]
           /\ Answer(c, "waiting")
           /\ UNCHANGED <<row, current, outcome>>
        \/ /\ Kept /\ sealed /\ row[r] # "pending"
           /\ FinishReEnroll(r, "failed")
           /\ Answer(c, "refused")
           /\ UNCHANGED <<row, approval>>
    /\ UNCHANGED <<late, stream, handler, toAgent, toHub, agent, crashes>>

Told(o) == IF o = "ok" THEN "approved" ELSE "refused"

\* The call waits for the session's end, the deadline or the stream's end,
\* and reports what the session came to.
AwaitProof(c) ==
    LET r == call[c].req IN
    /\ call[c].pc = "waiting"
    /\ \/ /\ sess[r] = "finished"
          /\ Answer(c, Told(outcome[r]))
          /\ UNCHANGED <<row, current, sess, outcome>>
       \/ /\ late[r] \/ stream[r] = "closed"
          /\ Answer(c, Told(EndedAs(r, "failed")))
          /\ EndReEnroll(r, "failed", "expired")
    /\ UNCHANGED <<approval, late, stream, handler, toAgent, toHub, agent, crashes>>

\* A decision that has begun cannot be denied any more.
Deniable(r) == current = r /\ sess[r] = "pending"

DenyReEnroll(c) ==
    LET r == call[c].req IN
    /\ call[c].pc = "deny"
    /\ IF Deniable(r) /\ row[r] = "pending"
       THEN /\ row' = DecidePendingReEnroll(row, r, "denied")
            /\ FinishReEnroll(r, "denied")
            /\ Answer(c, "denied")
       ELSE Answer(c, "refused") /\ UNCHANGED <<row, current, sess, outcome>>
    /\ UNCHANGED <<approval, late, stream, handler, toAgent, toHub, agent, crashes>>

-----------------------------------------------------------------------------
(* The agent, and faults. *)

\* handleReEnrollApproved: the agent opens the key the Hub released, opens
\* its own sealed key with it and signs the challenge; a sealed key of
\* another registration gives no proof or a bad one.
HandleReEnrollApproved == {"none", "good", "bad"}

\* sendReEnrollProof: the proof goes out, or the attempt is given up.
SendReEnrollProof(r) ==
    /\ agent = r /\ "approved" \in toAgent[r]
    /\ toAgent' = [toAgent EXCEPT ![r] = @ \ {"approved"}]
    /\ \E p \in HandleReEnrollApproved :
        /\ toHub' = [toHub EXCEPT ![r] = p]
        /\ agent' = IF p = "none" THEN 0 ELSE r
        /\ stream' = [stream EXCEPT ![r] = IF p = "none" THEN "closed" ELSE @]
    /\ UNCHANGED <<row, current, sess, outcome, approval, late, handler, call, crashes>>

\* The certificate, a refusal or the end of the stream ends the attempt; the
\* agent closes its side, and Run backs off and asks again.
AttemptEnds(r) ==
    /\ agent = r
    /\ \/ toAgent[r] \cap {"cert", "denied"} # {}
       \/ stream[r] = "closed" /\ toAgent[r] = {}
    /\ agent' = 0
    /\ stream' = [stream EXCEPT ![r] = "closed"]
    /\ UNCHANGED <<row, current, sess, outcome, approval, late, handler, toAgent, toHub,
                   call, crashes>>

\* The agent stops or its host loses the network: the Hub has yet to notice, and
\* the next attempt may find this request current and its stream open.
AttemptLost(r) ==
    /\ agent = r
    /\ agent' = 0
    /\ UNCHANGED <<row, current, sess, outcome, approval, late, stream, handler, toAgent,
                   toHub, call, crashes>>

StreamBreaks(r) ==
    /\ stream[r] = "open"
    /\ stream' = [stream EXCEPT ![r] = "closed"]
    /\ UNCHANGED <<row, current, sess, outcome, approval, late, handler, toAgent, toHub,
                   call, agent, crashes>>

\* The Hub restarts: the registry and the calls are lost, the rows are not.
HubRestarts ==
    /\ crashes < MaxCrashes
    /\ crashes' = crashes + 1
    /\ current' = 0
    /\ sess' = [r \in Requests |-> IF sess[r] = "none" THEN "none" ELSE "lost"]
    /\ approval' = [r \in Requests |-> FALSE]
    /\ stream' = [r \in Requests |-> IF stream[r] = "open" THEN "closed" ELSE stream[r]]
    /\ handler' = [r \in Requests |-> IF handler[r] = "none" THEN "none" ELSE "gone"]
    /\ call' = [c \in Calls |-> IF call[c].pc \in {"approve", "deny", "preparing", "waiting"}
                                THEN [call[c] EXCEPT !.pc = "refused"] ELSE call[c]]
    /\ toHub' = [r \in Requests |-> "none"]
    /\ UNCHANGED <<row, outcome, late, toAgent, agent>>

-----------------------------------------------------------------------------

HandlerStep(r) ==
    \/ TakeApproval(r) \/ ToldEnded(r) \/ ApprovalTimeout(r) \/ SendApproval(r)
    \/ ReceiveReEnrollProof(r) \/ ProofTimeout(r) \/ HandleReEnrollProof(r)
    \/ DeliverCertificate(r)

CallStep(c) ==
    ReleaseKEK(c) \/ ReleasePrepared(c) \/ AwaitProof(c) \/ DenyReEnroll(c)

Next ==
    \/ \E r \in Requests :
        \/ HandleReEnrollRequest(r) \/ HandlerStep(r) \/ ProofDeadline(r)
        \/ SendReEnrollProof(r) \/ AttemptEnds(r) \/ AttemptLost(r)
        \/ StreamBreaks(r)
        \/ \E c \in Calls : HandleReEnrollApprove(c, r) \/ HandleReEnrollDeny(c, r)
    \/ \E c \in Calls : CallStep(c)
    \/ HubRestarts

(***************************************************************************)
(* The Hub's goroutines run, and their timers fire.  The agent and the     *)
(* administrators owe nothing.                                             *)
(***************************************************************************)
Fairness ==
    WF_vars(\/ \E r \in Requests : HandlerStep(r) \/ ProofDeadline(r)
            \/ \E c \in Calls : CallStep(c))

Spec == Init /\ [][Next]_vars /\ Fairness

-----------------------------------------------------------------------------

\* A certificate leaves the Hub only for a request whose durable row says
\* approved, and no later denial, expiry or replacement ever changes that
\* row (reenroll.go handleReEnrollProof, endReEnroll).
IssuedStaysApproved ==
    \A r \in Requests :
        (handler[r] = "deliver" \/ "cert" \in toAgent[r]) => row[r] = "approved"

\* What an administrator is told is what happened: "approved" only if the
\* certificate was sent on that request's stream, "denied" only if none was
\* and the row says so (ReleaseKEK, DenyReEnroll and their HTTP handlers).
DecisionIsTrue ==
    \A c \in Calls :
        /\ call[c].pc = "approved" => /\ row[call[c].req] = "approved"
                                      /\ "cert" \in toAgent[call[c].req]
        /\ call[c].pc = "denied" => /\ row[call[c].req] = "denied"
                                    /\ toAgent[call[c].req] \cap {"approved", "cert"} = {}

\* Every decision is answered and every bootstrap stream ends, whatever the
\* agent, the other administrators and the streams do (the two timers of
\* reenroll.go, and the end that never waits for a caller).
DecisionsReturn ==
    /\ \A c \in Calls :
        call[c].pc \in {"approve", "deny"} ~> call[c].pc \in {"approved", "denied", "refused"}
    /\ \A r \in Requests : handler[r] = "wait" ~> handler[r] = "gone"
=============================================================================
