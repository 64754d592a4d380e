-------------------------- MODULE NodeCertificates --------------------------
(***************************************************************************)
(* How one agent gets, keeps and renews the certificate it is known by:    *)
(* registration with a one-time token, the certificate store and its three *)
(* files, the choice of credentials for a dial, renewal on a live          *)
(* connection, and the way into re-enrolment (agent/internal/client,       *)
(* agent/internal/certs), with the Hub's half of each exchange             *)
(* (grpcserver/handler.go).  A key pair, the request signed with it and    *)
(* the certificate issued for it have one number; 0 is none.  The          *)
(* re-enrolment exchange itself is the module ReEnroll.                    *)
(***************************************************************************)
EXTENDS Naturals, FiniteSets

CONSTANTS
    MaxKeys,        \* key pairs the agent generates
    MaxDrops,       \* connections and exchanges the network loses
    MaxFaults,      \* failing file writes
    MaxCrashes,     \* restarts of the agent
    ClocksAgree     \* the two clocks see a certificate expire together

VARIABLES
    token,      \* the Hub still takes the registration token
    id,         \* [mem, saved]: the agent knows its server id, in memory and in its file
    key,        \* certs.Store.key: the key generated last
    generated,  \* keys generated so far
    pair,       \* [crt, key]: the certificate and key of the next TLS configuration
    disk,       \* [crt, key, ca]: client.crt, client.key and ca.crt
    writers,    \* StoreCert calls that are writing: [crt, key, left]
    pc,         \* the Run loop: where the agent stands
    conn,       \* the certificate the connection was made with
    renewing,   \* certRenewalSent
    reconnect,  \* a signal in reconnectCh
    toHub,      \* renewal requests on the connection
    toAgent,    \* renewal answers on the connection: a certificate, or 0 for a refusal
    expired,    \* [hub, agent]: the certificates each clock sees as expired
    failures,   \* consecutive registration failures
    drops, faults, crashes

vars == <<token, id, key, generated, pair, disk, writers, pc, conn, renewing, reconnect,
          toHub, toAgent, expired, failures, drops, faults, crashes>>

Files == {"crt", "key", "ca"}
NoPair == [crt |-> 0, key |-> 0]

TypeOK ==
    /\ token \in BOOLEAN
    /\ id \in [mem : BOOLEAN, saved : BOOLEAN]
    /\ key \in 0..MaxKeys /\ generated \in 0..MaxKeys
    /\ pair \in [crt : 0..MaxKeys, key : 0..MaxKeys]
    /\ disk \in [Files -> 0..MaxKeys]
    /\ \A w \in writers : w \in [crt : 1..MaxKeys, key : 1..MaxKeys, left : SUBSET Files,
                                 then : {"signal", "register", "reenroll"}]
    /\ pc \in {"dial", "hello", "up", "ask", "store", "wait", "exited"}
    /\ conn \in 0..MaxKeys
    /\ renewing \in BOOLEAN /\ reconnect \in BOOLEAN
    /\ toHub \subseteq 1..MaxKeys /\ toAgent \subseteq 0..MaxKeys
    /\ expired \in [hub : SUBSET (1..MaxKeys), agent : SUBSET (1..MaxKeys)]
    /\ failures \in 0..3
    /\ drops \in 0..MaxDrops /\ faults \in 0..MaxFaults /\ crashes \in 0..MaxCrashes

Init ==
    /\ token = TRUE
    /\ id = [mem |-> FALSE, saved |-> FALSE]
    /\ key = 0 /\ generated = 0
    /\ pair = NoPair
    /\ disk = [f \in Files |-> 0]
    /\ writers = {}
    /\ pc = "dial"
    /\ conn = 0
    /\ renewing = FALSE /\ reconnect = FALSE
    /\ toHub = {} /\ toAgent = {}
    /\ expired = [hub |-> {}, agent |-> {}]
    /\ failures = 0
    /\ drops = 0 /\ faults = 0 /\ crashes = 0

-----------------------------------------------------------------------------
(* The certificate store. *)

\* GenerateCSR: a fresh key replaces the store's key at once; the pair in
\* use stays.
GenerateCSR ==
    /\ generated < MaxKeys
    /\ generated' = generated + 1
    /\ key' = generated + 1

VerifyCertMatchesKey(c, k) == c = k

Stores(c, k) == k # 0 /\ VerifyCertMatchesKey(c, k)

\* StoreCert changes the pair in memory first and then writes the files, in
\* no particular order.
StoreCert(c, k, then) ==
    /\ pair' = [crt |-> c, key |-> k]
    /\ writers' = writers \cup {[crt |-> c, key |-> k, left |-> Files, then |-> then]}

Content(w, f) == CASE f = "crt" -> w.crt [] f = "key" -> w.key [] OTHER -> 1

\* loadFromDisk: all three files, and a key that fits the certificate.
LoadFromDisk ==
    IF disk["ca"] # 0 /\ disk["crt"] # 0 /\ Stores(disk["crt"], disk["key"])
    THEN [crt |-> disk["crt"], key |-> disk["key"]] ELSE NoPair

\* TLSConfig: the certificate to present, or none if the agent's clock is
\* past its end.
TLSConfig == IF pair.crt \in expired.agent THEN 0 ELSE pair.crt

\* bootstrapTLSConfig: the Hub is checked against its pinned authority and
\* the agent presents nothing.
BootstrapTLSConfig == 0

\* saveNewConfig, called when the registration is finished.
SaveNewConfig == id' = [id EXCEPT !.saved = TRUE]

Stored_Silent(w) ==
    CASE w.then = "signal" -> UNCHANGED <<id, pc, reconnect>>
      [] w.then = "register" -> /\ SaveNewConfig
                                /\ pc' = "dial"
                                /\ UNCHANGED reconnect
      [] OTHER -> pc' = "wait" /\ UNCHANGED <<id, reconnect>>

\* What follows the last file: the renewal signals a reconnect, the
\* registration saves the configuration.
Stored(w) ==
    CASE w.then = "signal" -> reconnect' = TRUE /\ UNCHANGED <<id, pc>>
      [] w.then = "register" -> /\ SaveNewConfig
                                /\ pc' = "dial"
                                /\ UNCHANGED reconnect
      [] OTHER -> pc' = "wait" /\ UNCHANGED <<id, reconnect>>

WriteFile(w, f) ==
    /\ w \in writers /\ f \in w.left
    /\ disk' = [disk EXCEPT ![f] = Content(w, f)]
    /\ IF w.left = {f}
       THEN writers' = writers \ {w} /\ Stored(w)
       ELSE /\ writers' = (writers \ {w}) \cup {[w EXCEPT !.left = @ \ {f}]}
            /\ UNCHANGED <<id, pc, reconnect>>
    /\ UNCHANGED <<token, key, generated, pair, conn, renewing, toHub, toAgent, expired,
                   failures, drops, faults, crashes>>

\* A file cannot be written: StoreCert gives up.  The renewal then sends no
\* signal; the registration goes on without its certificate on disk.
WriteFails(w, f) ==
    /\ w \in writers /\ f \in w.left /\ faults < MaxFaults
    /\ faults' = faults + 1
    /\ disk' = [disk EXCEPT ![f] = 0]
    /\ writers' = writers \ {w}
    /\ IF w.then = "signal" THEN UNCHANGED <<id, pc, reconnect>> ELSE Stored(w)
    /\ UNCHANGED <<token, key, generated, pair, conn, renewing, toHub, toAgent, expired,
                   failures, drops, crashes>>

-----------------------------------------------------------------------------
(* The Run loop. *)

\* The connection and what was on it are gone.
Leave == conn' = 0 /\ toHub' = {} /\ toAgent' = {}

\* ActivateServer clears the token of the row.
ActivateServer == token' = FALSE

\* handleRegister: the token is spent when the row is activated, before the
\* node's keys are recorded and the answer is sent.
HandleRegister == token /\ ActivateServer

\* performRegisterHandshake refuses: the token is not known, or a step after
\* the activation failed.
RegistrationRefused == HandleRegister \/ (~token /\ UNCHANGED token)

\* sendRegisterAndRecvAck fails on the stream, before or after the Hub has
\* handled the registration.
RegistrationLost ==
    /\ drops < MaxDrops /\ drops' = drops + 1
    /\ HandleRegister \/ UNCHANGED token

\* finishRegistration: the id is taken over, the certificate is stored and
\* the configuration saved.
FinishRegistration(c) ==
    /\ id' = [id EXCEPT !.mem = TRUE]
    /\ StoreCert(c, c, "register")
    /\ pc' = "store"

\* sendRegister: the answer arrives and the certificate is stored, the
\* exchange is lost, or the Hub refuses.  Three refusals in a row end the
\* agent.
SendRegister ==
    /\ pc = "dial" /\ ~id.mem
    /\ GenerateCSR
    /\ \/ /\ HandleRegister
          /\ FinishRegistration(generated + 1)
          /\ failures' = 0
          /\ UNCHANGED drops
       \/ /\ RegistrationLost
          /\ pc' = "wait" /\ failures' = 0
          /\ UNCHANGED <<id, pair, writers>>
       \/ /\ RegistrationRefused
          /\ failures' = failures + 1
          /\ pc' = IF failures + 1 >= 3 THEN "exited" ELSE "wait"
          /\ UNCHANGED <<id, pair, writers, drops>>
    /\ UNCHANGED <<disk, conn, renewing, reconnect, toHub, toAgent, expired, faults, crashes>>

\* dialHub: the stored certificate if there is a usable one, and otherwise
\* the pinned bootstrap connection that presents none.
DialHub ==
    /\ pc = "dial" /\ id.mem
    /\ pc' = "hello"
    /\ conn' = IF TLSConfig # 0 THEN TLSConfig ELSE BootstrapTLSConfig
    /\ UNCHANGED <<token, id, key, generated, pair, disk, writers, renewing, reconnect, toHub,
                   toAgent, expired, failures, drops, faults, crashes>>

\* verifyCertCN: a reconnect must present a certificate that is current by
\* the Hub's clock.
Authenticated == conn # 0 /\ conn \notin expired.hub

\* The certificate was presented and refused for its age: the one error text
\* that isCertExpiredError knows.
IsCertExpiredError == conn # 0 /\ conn \in expired.hub

\* What Run does with the result of an attempt.
AfterHandshake ==
    IF Authenticated THEN "up" ELSE IF IsCertExpiredError THEN "ask" ELSE "wait"

\* The agent's first heartbeat on the stream, which the Hub acknowledges or
\* answers with an error.
HeartbeatHandshake ==
    /\ pc = "hello"
    /\ pc' = AfterHandshake
    /\ conn' = IF Authenticated THEN conn ELSE 0
    /\ failures' = IF Authenticated \/ ~IsCertExpiredError THEN 0 ELSE failures
    /\ UNCHANGED <<token, id, key, generated, pair, disk, writers, renewing, reconnect, toHub,
                   toAgent, expired, drops, faults, crashes>>

\* storeReEnrolledCert: the certificate for this attempt's request.
StoreReEnrolledCert(c) == StoreCert(c, c, "reenroll") /\ pc' = "store"

\* reEnroll: a new request is sent on a bootstrap stream; a certificate for
\* it comes back, or the attempt fails.  Run backs off after both.
ReEnroll ==
    /\ pc = "ask"
    /\ GenerateCSR
    /\ \/ StoreReEnrolledCert(generated + 1)
       \/ pc' = "wait" /\ UNCHANGED <<pair, writers>>
    /\ UNCHANGED <<token, id, disk, conn, renewing, reconnect, toHub, toAgent, expired,
                   failures, drops, faults, crashes>>

Backoff ==
    /\ pc = "wait"
    /\ pc' = "dial"
    /\ UNCHANGED <<token, id, key, generated, pair, disk, writers, conn, renewing, reconnect,
                   toHub, toAgent, expired, failures, drops, faults, crashes>>

\* The connection or the attempt is lost.
Drop ==
    /\ pc \in {"hello", "up"} /\ drops < MaxDrops
    /\ drops' = drops + 1
    /\ pc' = "wait" /\ failures' = 0
    /\ Leave
    /\ UNCHANGED <<token, id, key, generated, pair, disk, writers, renewing, reconnect,
                   expired, faults, crashes>>

\* connectAndStream takes the signal and Run dials again at once.
AdoptRenewed ==
    /\ pc = "up" /\ reconnect
    /\ reconnect' = FALSE
    /\ pc' = "dial" /\ failures' = 0
    /\ Leave
    /\ UNCHANGED <<token, id, key, generated, pair, disk, writers, renewing, expired, drops,
                   faults, crashes>>

-----------------------------------------------------------------------------
(* Renewal on the live connection. *)

\* certRenewalInFlight and its minute.
CertRenewalInFlight == renewing

\* The ticker finds the certificate near its end and no request under way.
RenewalTick ==
    /\ pc = "up" /\ pair # NoPair /\ ~CertRenewalInFlight
    /\ GenerateCSR
    /\ toHub' = toHub \cup {generated + 1}
    /\ renewing' = TRUE
    /\ UNCHANGED <<token, id, pair, disk, writers, pc, conn, reconnect, toAgent, expired,
                   failures, drops, faults, crashes>>

\* A minute without an answer: the ticker forgets the request.
RenewalTimeout ==
    /\ pc = "up" /\ CertRenewalInFlight
    /\ renewing' = FALSE
    /\ UNCHANGED <<token, id, key, generated, pair, disk, writers, pc, conn, reconnect, toHub,
                   toAgent, expired, failures, drops, faults, crashes>>

\* handleCertRenewal: the Hub signs for a connection whose certificate is
\* still current, and refuses any other.
HandleCertRenewal(k) ==
    /\ k \in toHub
    /\ toHub' = toHub \ {k}
    /\ toAgent' = toAgent \cup {IF Authenticated THEN k ELSE 0}
    /\ UNCHANGED <<token, id, key, generated, pair, disk, writers, pc, conn, renewing,
                   reconnect, expired, failures, drops, faults, crashes>>

\* handleCertRenewResponse: an answer to an earlier request meets a key that
\* has been replaced, and StoreCert refuses it.
HandleCertRenewResponse(k) ==
    /\ k \in toAgent
    /\ toAgent' = toAgent \ {k}
    /\ renewing' = FALSE
    /\ IF k # 0 /\ Stores(k, key) THEN StoreCert(k, key, "signal")
                                  ELSE UNCHANGED <<pair, writers>>
    /\ UNCHANGED <<token, id, key, generated, disk, pc, conn, reconnect, toHub, expired,
                   failures, drops, faults, crashes>>

-----------------------------------------------------------------------------
(* Time, and restarts. *)

\* A certificate in use passes its end, by one clock or by both.
Expire(c, clocks) ==
    /\ c \in {pair.crt, conn} \ {0}
    /\ clocks = (IF ClocksAgree THEN {"hub", "agent"} ELSE clocks)
    /\ \E x \in clocks : c \notin expired[x]
    /\ expired' = [x \in {"hub", "agent"} |->
                    IF x \in clocks THEN expired[x] \cup {c} ELSE expired[x]]
    /\ UNCHANGED <<token, id, key, generated, pair, disk, writers, pc, conn, renewing,
                   reconnect, toHub, toAgent, failures, drops, faults, crashes>>

\* resolveConfig: a saved configuration wins over the token on the command
\* line.
ResolveConfig == id' = [id EXCEPT !.mem = id.saved]

\* The agent stops and starts: what is on disk is what it knows, and a file
\* that was being written may be torn.
RestartAgent(torn) ==
    /\ crashes < MaxCrashes
    /\ crashes' = crashes + 1
    /\ torn \subseteq UNION {w.left : w \in writers} /\ Cardinality(torn) <= 1
    /\ disk' = [f \in Files |-> IF f \in torn THEN 0 ELSE disk[f]]
    /\ ResolveConfig
    /\ pair' = IF torn = {} THEN LoadFromDisk ELSE NoPair
    /\ key' = pair'.key
    /\ writers' = {}
    /\ pc' = "dial" /\ failures' = 0
    /\ renewing' = FALSE /\ reconnect' = FALSE
    /\ Leave
    /\ UNCHANGED <<token, generated, expired, drops, faults>>

Next ==
    \/ SendRegister \/ DialHub \/ HeartbeatHandshake \/ ReEnroll \/ Backoff \/ Drop
    \/ AdoptRenewed \/ RenewalTick \/ RenewalTimeout
    \/ \E w \in writers, f \in Files : WriteFile(w, f) \/ WriteFails(w, f)
    \/ \E k \in 0..MaxKeys : HandleCertRenewal(k) \/ HandleCertRenewResponse(k)
    \/ \E c \in 1..MaxKeys, clocks \in SUBSET {"hub", "agent"} : Expire(c, clocks)
    \/ \E torn \in SUBSET Files : RestartAgent(torn)

(***************************************************************************)
(* The Run loop, the handshake and the file writes go on; the network, the *)
(* clocks and the operator owe nothing.                                    *)
(***************************************************************************)
Fairness ==
    /\ WF_vars(DialHub) /\ WF_vars(HeartbeatHandshake) /\ WF_vars(Backoff)
    /\ WF_vars(AdoptRenewed)
    /\ WF_vars(\E w \in writers, f \in Files : WriteFile(w, f))

Spec == Init /\ [][Next]_vars /\ Fairness

-----------------------------------------------------------------------------

\* The pair the agent presents is a certificate with its own key: no late
\* renewal answer, restart or torn write ever installs a pair that does not
\* fit (certs.go StoreCert and loadFromDisk).
InstalledPairMatches == pair.crt = pair.key

\* A certificate the agent has stored does not stay unused behind a
\* connection made with an older one, unless a file could not be written
\* (client.go handleCertRenewResponse and reconnectCh).
RenewedIsAdopted ==
    (pc = "up" /\ pair.crt # conn) ~> (pc # "up" \/ pair.crt = conn \/ faults > 0)

\* An enrolled node whose certificate has run out asks to be re-enrolled
\* when it is back (client.go Run and isCertExpiredError).
ExpiredNodeAsks ==
    (pc = "dial" /\ id.mem /\ pair # NoPair /\ pair.crt \in expired.hub) ~> (pc = "ask")
=============================================================================
