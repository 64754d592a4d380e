---------------------------- MODULE MCGovernance -----------------------------
(*****************************************************************************)
(* Small instances of who may do what: accounts and sign-in, the             *)
(* certificates of nodes, the decisions about security, the archive that     *)
(* keeps them and who reads its originals. Each behaviour is one of one      *)
(* component: Init chooses it, and the components share the variables below. *)
(*****************************************************************************)
EXTENDS Naturals, TLC

CONSTANTS x, y, i, j, z, o, a, b, b2, None

VARIABLES component,   \* the component of this behaviour
          v1, v2, v3, v4, v5, v6, v7, v8, v9, v10, v11, v12, v13, v14, v15,
          v16, v17, v18   \* its variables, in order

slots == <<v1, v2, v3, v4, v5, v6, v7, v8, v9, v10, v11, v12, v13, v14, v15,
           v16, v17, v18>>

Unused(v) == v = "unused"

\* A security officer and two approvers, one of them with a second account.
PersonOf == [u \in {o, a, b, b2} |-> IF u = b2 THEN b ELSE u]
Nominated == [u \in {o, a, b, b2} |->
                CASE u = o -> {"security-officer"}
                  [] u = b2 -> {}
                  [] OTHER -> {"security-approver"}]

\* Three records that want the same event.
Records == {[e |-> 1, kind |-> k, v |-> 1] : k \in {"admission", "policy", "intent"}}


Changing == INSTANCE SignIn WITH
    Requests <- {x, y}, Sessions <- {z}, Threshold <- 1, MaxRevision <- 2,
    MaxChallenges <- 1, MaxPairs <- 2, user <- v1, row <- v2, req <- v3,
    challenges <- v4, pairs <- v5, blacklist <- v6, used <- v7, guesses <- v8

Refreshing == INSTANCE SignIn WITH
    Requests <- {x, y}, Sessions <- {z}, Threshold <- 1, MaxRevision <- 1,
    MaxChallenges <- 1, MaxPairs <- 3, user <- v1, row <- v2, req <- v3,
    challenges <- v4, pairs <- v5, blacklist <- v6, used <- v7, guesses <- v8

People == INSTANCE Accounts WITH
    Ids <- {i, j}, Requests <- {x, y}, acct <- v1, complete <- v2, req <- v3,
    reg <- v4, protected <- v5

Rejoining == INSTANCE ReEnroll WITH
    MaxRequests <- 2, Calls <- {x, y}, MaxCrashes <- 1, row <- v1,
    current <- v2, sess <- v3, outcome <- v4, approval <- v5, late <- v6,
    stream <- v7, handler <- v8, toAgent <- v9, toHub <- v10, call <- v11,
    agent <- v12, crashes <- v13

Certificates == INSTANCE NodeCertificates WITH
    MaxKeys <- 2, MaxDrops <- 1, MaxFaults <- 1, MaxCrashes <- 1,
    ClocksAgree <- FALSE, token <- v1, id <- v2, key <- v3, generated <- v4,
    pair <- v5, disk <- v6, writers <- v7, pc <- v8, conn <- v9,
    renewing <- v10, reconnect <- v11, toHub <- v12, toAgent <- v13,
    expired <- v14, failures <- v15, drops <- v16, faults <- v17,
    crashes <- v18

Transition == INSTANCE PolicyTransition WITH
    Changes <- {z, i, j}, Bootstrap <- z, NoChange <- None, Procs <- {x, y},
    MaxRestores <- 1, MaxCrashes <- 0, db <- v1, marker <- v2, anchors <- v3,
    kept <- v4, hub <- v5, proc <- v6, backup <- v7, restores <- v8,
    crashes <- v9, last <- v10

Recovery == INSTANCE PolicyTransition WITH
    Changes <- {z, i}, Bootstrap <- z, NoChange <- None, Procs <- {x, y},
    MaxRestores <- 1, MaxCrashes <- 1, db <- v1, marker <- v2, anchors <- v3,
    kept <- v4, hub <- v5, proc <- v6, backup <- v7, restores <- v8,
    crashes <- v9, last <- v10

Decision == INSTANCE SecurityChanges WITH
    Users <- {o, a, b, b2}, Targets <- {a, b2}, Changes <- {z},
    Nobody <- None, PersonOf <- PersonOf, Nominated <- Nominated,
    MaxVersion <- 3, active <- v1, st <- v2, pend <- v3, chg <- v4,
    user <- v5, proof <- v6, lost <- v7

Decisions == INSTANCE SecurityChanges WITH
    Users <- {o, a, b}, Targets <- {}, Changes <- {i, j}, Nobody <- None,
    PersonOf <- PersonOf, Nominated <- Nominated, MaxVersion <- 3,
    active <- v1, st <- v2, pend <- v3, chg <- v4, user <- v5, proof <- v6,
    lost <- v7

Archive == INSTANCE AuditArchive WITH
    Requests <- {x, y}, Submitted <- Records, NoRecord <- None, MaxTime <- 1,
    now <- v1, part <- v2, manifest <- v3, ledger <- v4, req <- v5,
    receipts <- v6, reads <- v7

Originals == INSTANCE OriginalAccess WITH
    Requests <- {z}, Downloads <- {x, y}, Bytes <- 1, MaxCrashes <- 0,
    authority <- v1, time <- v2, proof <- v3, req <- v4, row <- v5,
    queue <- v6, confirmed <- v7, archive <- v8, dl <- v9, sent <- v10,
    worker <- v11, crashes <- v12

Init ==
    \/ /\ component = "Changing" /\ Changing!Init
       /\ Unused(v9) /\ Unused(v10) /\ Unused(v11) /\ Unused(v12) /\ Unused(v13)
       /\ Unused(v14) /\ Unused(v15) /\ Unused(v16) /\ Unused(v17) /\ Unused(v18)
    \/ /\ component = "Refreshing" /\ Refreshing!Init
       /\ Unused(v9) /\ Unused(v10) /\ Unused(v11) /\ Unused(v12) /\ Unused(v13)
       /\ Unused(v14) /\ Unused(v15) /\ Unused(v16) /\ Unused(v17) /\ Unused(v18)
    \/ /\ component = "People" /\ People!Init
       /\ Unused(v6) /\ Unused(v7) /\ Unused(v8) /\ Unused(v9) /\ Unused(v10)
       /\ Unused(v11) /\ Unused(v12) /\ Unused(v13) /\ Unused(v14) /\ Unused(v15)
       /\ Unused(v16) /\ Unused(v17) /\ Unused(v18)
    \/ /\ component = "Rejoining" /\ Rejoining!Init
       /\ Unused(v14) /\ Unused(v15) /\ Unused(v16) /\ Unused(v17) /\ Unused(v18)
    \/ /\ component = "Certificates" /\ Certificates!Init
    \/ /\ component = "Transition" /\ Transition!Init
       /\ Unused(v11) /\ Unused(v12) /\ Unused(v13) /\ Unused(v14) /\ Unused(v15)
       /\ Unused(v16) /\ Unused(v17) /\ Unused(v18)
    \/ /\ component = "Recovery" /\ Recovery!Init
       /\ Unused(v11) /\ Unused(v12) /\ Unused(v13) /\ Unused(v14) /\ Unused(v15)
       /\ Unused(v16) /\ Unused(v17) /\ Unused(v18)
    \/ /\ component = "Decision" /\ Decision!Init
       /\ Unused(v8) /\ Unused(v9) /\ Unused(v10) /\ Unused(v11) /\ Unused(v12)
       /\ Unused(v13) /\ Unused(v14) /\ Unused(v15) /\ Unused(v16) /\ Unused(v17)
       /\ Unused(v18)
    \/ /\ component = "Decisions" /\ Decisions!Init
       /\ Unused(v8) /\ Unused(v9) /\ Unused(v10) /\ Unused(v11) /\ Unused(v12)
       /\ Unused(v13) /\ Unused(v14) /\ Unused(v15) /\ Unused(v16) /\ Unused(v17)
       /\ Unused(v18)
    \/ /\ component = "Archive" /\ Archive!Init
       /\ Unused(v8) /\ Unused(v9) /\ Unused(v10) /\ Unused(v11) /\ Unused(v12)
       /\ Unused(v13) /\ Unused(v14) /\ Unused(v15) /\ Unused(v16) /\ Unused(v17)
       /\ Unused(v18)
    \/ /\ component = "Originals" /\ Originals!Init
       /\ Unused(v13) /\ Unused(v14) /\ Unused(v15) /\ Unused(v16) /\ Unused(v17)
       /\ Unused(v18)

Next ==
    \/ /\ component = "Changing" /\ Changing!Next
       /\ UNCHANGED <<component, v9, v10, v11, v12, v13, v14, v15, v16, v17, v18>>
    \/ /\ component = "Refreshing" /\ Refreshing!Next
       /\ UNCHANGED <<component, v9, v10, v11, v12, v13, v14, v15, v16, v17, v18>>
    \/ /\ component = "People" /\ People!Next
       /\ UNCHANGED <<component, v6, v7, v8, v9, v10, v11, v12, v13, v14, v15, v16, v17, v18>>
    \/ /\ component = "Rejoining" /\ Rejoining!Next
       /\ UNCHANGED <<component, v14, v15, v16, v17, v18>>
    \/ /\ component = "Certificates" /\ Certificates!Next
       /\ UNCHANGED <<component>>
    \/ /\ component = "Transition" /\ Transition!Next
       /\ UNCHANGED <<component, v11, v12, v13, v14, v15, v16, v17, v18>>
    \/ /\ component = "Recovery" /\ Recovery!Next
       /\ UNCHANGED <<component, v11, v12, v13, v14, v15, v16, v17, v18>>
    \/ /\ component = "Decision" /\ Decision!Next
       /\ UNCHANGED <<component, v8, v9, v10, v11, v12, v13, v14, v15, v16, v17, v18>>
    \/ /\ component = "Decisions" /\ Decisions!Next
       /\ UNCHANGED <<component, v8, v9, v10, v11, v12, v13, v14, v15, v16, v17, v18>>
    \/ /\ component = "Archive" /\ Archive!Next
       /\ UNCHANGED <<component, v8, v9, v10, v11, v12, v13, v14, v15, v16, v17, v18>>
    \/ /\ component = "Originals" /\ Originals!Next
       /\ UNCHANGED <<component, v13, v14, v15, v16, v17, v18>>

Symmetry == Permutations({x, y}) \cup Permutations({i, j})

-----------------------------------------------------------------------------

\* SignIn: a credential that works was obtained with the password and the
\* authenticator the account has now, a refresh token is spent once, and the lock
\* bounds the guesses.  Accounts: an enabled administrator remains, and
\* registration makes one founder (validateSession, RotateSession,
\* RecordLoginFailure, actorCurrent, CompleteSetup).
AccountsAreSound ==
    /\ component = "Changing" =>
          /\ Changing!TypeOK /\ Changing!UsableMatchesAccount
          /\ Changing!RefreshSpentOnce /\ Changing!GuessesAreBounded
    /\ component = "Refreshing" =>
          Refreshing!UsableMatchesAccount /\ Refreshing!RefreshSpentOnce
    /\ component = "People" =>
          People!TypeOK /\ People!AnAdministratorRemains /\ People!OneFounder

\* ReEnroll: a certificate leaves the Hub only for a request that is and stays
\* approved, and administrators are told what happened.  NodeCertificates: the
\* pair an agent presents fits (handleReEnrollProof, ReleaseKEK, StoreCert).
NodesAreIdentified ==
    /\ component = "Rejoining" =>
          Rejoining!TypeOK /\ Rejoining!IssuedStaysApproved /\ Rejoining!DecisionIsTrue
    /\ component = "Certificates" =>
          Certificates!TypeOK /\ Certificates!InstalledPairMatches

\* PolicyTransition: after a rollback of database or marker the Hub admits nothing
\* that the archive's anchor does not confirm, a version in force is evidenced
\* there, and there is one history of policies (Startup, ValidateAnchor,
\* ActivateSecurityChange).
OnePolicyHistory ==
    /\ component = "Transition" =>
          /\ Transition!TypeOK /\ Transition!RollbackFailsClosed
          /\ Transition!ActivatedIsArchived /\ Transition!OneHistory
    /\ component = "Recovery" =>
          /\ Recovery!TypeOK /\ Recovery!RollbackFailsClosed
          /\ Recovery!ActivatedIsArchived /\ Recovery!OneHistory

\* SecurityChanges: a change takes effect only on the word of enough different
\* people who still stand by it (validateSecurityQuorumConn).
DecidedByQuorum ==
    [][/\ component = "Decision" => Decision!DecidedByQuorum
       /\ component = "Decisions" => Decisions!DecidedByQuorum]_slots

\* OriginalAccess: one handle serves one download, whose intent and start are in
\* the archive before its first byte leaves; the archived result is what
\* happened; a read shown as confirmed is there from intent to result
\* (ConsumeOriginalAccess, RecordOriginalOutcome, confirmOriginal).
ReadsAreRecorded ==
    component = "Originals" =>
        /\ Originals!TypeOK /\ Originals!ReadIsRecorded
        /\ Originals!ResultIsTrue /\ Originals!ConfirmedIsComplete

\* AuditArchive: a receipt means that exactly its record is held, and no retry
\* extends a permit (Preserve, reconcile, Lookup).
ReceiptsAreTrue ==
    component = "Archive" => Archive!ReceiptMeansHeld /\ Archive!PermitKeepsItsExpiry
=============================================================================
