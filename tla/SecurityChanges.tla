--------------------------- MODULE SecurityChanges ---------------------------
(***************************************************************************)
(* Who decides about security: step-up proofs, requests, independent       *)
(* approvals, the applier's claim and the transactions that begin,         *)
(* activate and finish a change (hub/internal/authorization/               *)
(* authorization.go, hub/internal/store/security.go, the triggers of       *)
(* migration 025, hub/internal/server/handlers_security.go).               *)
(*                                                                         *)
(* A decision is spread over days and over several people's accounts, and  *)
(* every one of those accounts may change before the change takes effect:  *)
(* it is disabled, its password or second factor is replaced, its roles or *)
(* the person behind it are changed by another decision.  A revision that  *)
(* a database trigger advances ties each part of a decision to the account *)
(* as it was; here a part is fresh until the revision moves.               *)
(*                                                                         *)
(* The archive, marker and anchor between these transactions are           *)
(* PolicyTransition; a transition may stop between any two of them.        *)
(***************************************************************************)
EXTENDS FiniteSets, Naturals

CONSTANTS
    Users,
    Targets,        \* bound: the accounts that changes are about
    Changes,
    Nobody,         \* no user, no change
    PersonOf,       \* Users -> person: the verified people of a new installation
    Nominated,      \* Users -> set of roles: the nominations of the bootstrap
    MaxVersion      \* bound: policy versions

VARIABLES
    active,     \* audit_policy_state.active_version
    st,         \* audit_policy_state.state
    pend,       \* audit_policy_state.pending_change
    chg,        \* security_changes, with their approvals
    user,       \* users, user_roles and security_identity_links
    proof,      \* the step-up proofs not yet used (bound: one at a time)
    lost        \* history: the words given for a change whose giver changed since

vars == <<active, st, pend, chg, user, proof, lost>>

Roles == {"security-officer", "security-approver"}

RoleFor(action) == IF action = "approve" THEN "security-approver" ELSE "security-officer"

NoProof == [action |-> "none", c |-> Nobody]

NoChange == [st |-> "none", kind |-> "policy", target |-> Nobody, arg |-> Nobody, exp |-> 0,
             by |-> Nobody, byPerson |-> Nobody, fresh |-> FALSE,
             votes |-> {}, applier |-> Nobody, applierFresh |-> FALSE, commit |-> FALSE]

Open(c) == chg[c].st \in {"requested", "partially_approved", "approved", "applying"}

\* A hub with its nominees' accounts and no governance yet, or one enrolled,
\* where the accounts that were not nominated have become approvers too.
Init ==
    /\ \E enrolled \in BOOLEAN :
        /\ active = IF enrolled THEN 2 ELSE 1
        /\ st = IF enrolled THEN "enhanced" ELSE "standard"
        /\ user = [u \in Users |->
                    [ok |-> TRUE,
                     roles |-> IF ~enrolled THEN {}
                               ELSE IF Nominated[u] = {} THEN {"security-approver"}
                               ELSE Nominated[u],
                     person |-> IF enrolled THEN PersonOf[u] ELSE u]]
    /\ pend = Nobody
    /\ chg = [c \in Changes |-> NoChange]
    /\ proof = [u \in Users |-> NoProof]
    /\ lost = [c \in Changes |-> {}]

-----------------------------------------------------------------------------
(* Accounts and the triggers on them *)

\* Who gave their word for the change, and as what.
TookPart(c) ==
    {<<"request", chg[c].by>>, <<"apply", chg[c].applier>>}
        \cup {<<"approve", v.u>> : v \in chg[c].votes}

\* governance_credentials and its siblings: the revision of u advances, its
\* proofs are spent and its votes, wherever cast, no longer count.
Stale(cs, u) ==
    [c \in Changes |->
        [cs[c] EXCEPT !.fresh = @ /\ cs[c].by # u,
                      !.applierFresh = @ /\ cs[c].applier # u,
                      !.votes = {IF v.u = u THEN [v EXCEPT !.valid = FALSE] ELSE v : v \in @}]]

Revised(cs, u) ==
    /\ chg' = Stale(cs, u)
    /\ proof' = [proof EXCEPT ![u] = NoProof]
    /\ lost' = [c \in Changes |-> IF Open(c) THEN lost[c] \cup {w \in TookPart(c) : w[2] = u}
                                  ELSE lost[c]]

\* An account is disabled, or has its credentials replaced and must be set up
\* again before it is fit for governance.
AccountFalls(u) ==
    /\ user[u].ok
    /\ user' = [user EXCEPT ![u].ok = FALSE]
    /\ Revised(chg, u)
    /\ UNCHANGED <<active, st, pend>>

\* The account is fit again: password changed, second factor enrolled.
AccountRecovers(u) ==
    /\ ~user[u].ok
    /\ user' = [user EXCEPT ![u].ok = TRUE]
    /\ Revised(chg, u)
    /\ UNCHANGED <<active, st, pend>>

-----------------------------------------------------------------------------
(* Authority *)

PersonFor(c, u) == IF chg[c].kind = "bootstrap" THEN PersonOf[u] ELSE user[u].person

\* AuthorityForChange: the bootstrap is decided by its own nominees.
AuthorityForChange(c, u, action) ==
    /\ user[u].ok
    /\ IF chg[c].kind = "bootstrap"
       THEN RoleFor(action) \in Nominated[u] /\ (action # "approve" => u = chg[c].by)
       ELSE RoleFor(action) \in user[u].roles

\* checkSecurityPrincipal, for a part whose revision is still the account's.
\* The person recorded must be the one the account is linked to.
CheckSecurityPrincipal(c, u, person, fresh, action) ==
    /\ fresh /\ user[u].ok
    /\ IF chg[c].kind = "bootstrap"
       THEN RoleFor(action) \in Nominated[u] /\ person = PersonOf[u]
       ELSE RoleFor(action) \in user[u].roles /\ person = user[u].person

Valid(c) == {v \in chg[c].votes : v.valid}

\* validateSecurityQuorumConn: the requester and at least two voters, no two of
\* them the same person, every one of them checked again.
ValidateSecurityQuorum(c) ==
    /\ CheckSecurityPrincipal(c, chg[c].by, chg[c].byPerson, chg[c].fresh, "request")
    /\ Cardinality(Valid(c)) >= 2
    /\ \A v \in Valid(c) :
        /\ v.person # chg[c].byPerson /\ v.u # chg[c].by
        /\ \A w \in Valid(c) \ {v} : w.person # v.person
        /\ CheckSecurityPrincipal(c, v.u, v.person, TRUE, "approve")

-----------------------------------------------------------------------------
(* The decision *)

\* handleSecurityStepup: a fresh second factor for one action on one change.
Stepup(u, action, c) ==
    /\ \A w \in Users : proof[w] = NoProof
    /\ user[u].ok
    /\ IF action = "request"
       THEN chg[c].st = "none" /\ (active = 1 \/ "security-officer" \in user[u].roles)
       ELSE Open(c) /\ chg[c].st # "applying" /\ AuthorityForChange(c, u, action)
    /\ proof' = [proof EXCEPT ![u] = [action |-> action, c |-> c]]
    /\ UNCHANGED <<active, st, pend, chg, user, lost>>

\* A proof is good for five minutes.
ProofExpires(u) ==
    /\ proof[u] # NoProof
    /\ proof' = [proof EXCEPT ![u] = NoProof]
    /\ UNCHANGED <<active, st, pend, chg, user, lost>>

Proposals ==
    [kind : {"policy"}, target : {Nobody}, arg : {Nobody}]
        \cup [kind : {"grant", "revoke"}, target : Targets, arg : Roles]
        \cup [kind : {"person"}, target : Targets, arg : {PersonOf[u] : u \in Targets}]
        \cup [kind : {"recovery"}, target : Targets, arg : {Nobody}]

Requested(c, u, p, person) ==
    [NoChange EXCEPT !.st = "requested", !.kind = p.kind, !.target = p.target, !.arg = p.arg,
                     !.exp = active, !.by = u, !.byPerson = person, !.fresh = TRUE]

\* Request and CreateSecurityChange, before enrolment: the bootstrap, at most
\* one at a time, with nominees whose accounts are complete.
RequestBootstrap(c, u) ==
    /\ proof[u] = [action |-> "request", c |-> c] /\ user[u].ok
    /\ active = 1 /\ st \in {"standard", "setup_pending"}
    /\ chg[c].st = "none"
    /\ "security-officer" \in Nominated[u]
    /\ \A n \in Users : Nominated[n] # {} => user[n].ok
    /\ \A d \in Changes : Open(d) => chg[d].kind # "bootstrap"
    /\ chg' = [chg EXCEPT ![c] = Requested(c, u,
                    [kind |-> "bootstrap", target |-> Nobody, arg |-> Nobody], PersonOf[u])]
    /\ st' = "setup_pending"
    /\ proof' = [proof EXCEPT ![u] = NoProof]
    /\ UNCHANGED <<active, pend, user, lost>>

\* Request and CreateSecurityChange afterwards.
RequestChange(c, u) ==
    /\ proof[u] = [action |-> "request", c |-> c] /\ user[u].ok
    /\ active > 1 /\ st \notin {"applying", "recovery_required"}
    /\ chg[c].st = "none"
    /\ "security-officer" \in user[u].roles
    /\ \E p \in Proposals : chg' = [chg EXCEPT ![c] = Requested(c, u, p, user[u].person)]
    /\ proof' = [proof EXCEPT ![u] = NoProof]
    /\ UNCHANGED <<active, st, pend, user, lost>>

\* Approve's independence checks and the keys of security_approvals.
Independent(c, u) ==
    /\ u # chg[c].by /\ PersonFor(c, u) # chg[c].byPerson
    /\ \A v \in chg[c].votes : v.person # PersonFor(c, u) /\ v.u # u

\* Approve and AddSecurityApproval.
Approve(c, u) ==
    /\ proof[u] = [action |-> "approve", c |-> c]
    /\ AuthorityForChange(c, u, "approve")
    /\ Independent(c, u)
    /\ chg[c].st \in {"requested", "partially_approved"}
    /\ active = chg[c].exp
    /\ LET votes == chg[c].votes \cup {[u |-> u, person |-> PersonFor(c, u), valid |-> TRUE]}
       IN chg' = [chg EXCEPT ![c].votes = votes,
                    ![c].st = IF Cardinality({v \in votes : v.valid}) >= 2
                              THEN "approved" ELSE "partially_approved"]
    /\ proof' = [proof EXCEPT ![u] = NoProof]
    /\ UNCHANGED <<active, st, pend, user, lost>>

\* Apply's ValidateQuorum and ClaimSecurityApplier: the first officer to claim
\* stays the applier.
ClaimSecurityApplier(c, u) ==
    /\ proof[u] = [action |-> "apply", c |-> c]
    /\ chg[c].st = "approved"
    /\ AuthorityForChange(c, u, "apply")
    /\ ValidateSecurityQuorum(c)
    /\ chg[c].applier = Nobody \/ (chg[c].applier = u /\ chg[c].applierFresh)
    /\ chg' = [chg EXCEPT ![c].applier = u, ![c].applierFresh = TRUE]
    /\ proof' = [proof EXCEPT ![u] = NoProof]
    /\ UNCHANGED <<active, st, pend, user, lost>>

Applier(c) ==
    /\ chg[c].applier # Nobody
    /\ CheckSecurityPrincipal(c, chg[c].applier, PersonFor(c, chg[c].applier),
                              chg[c].applierFresh, "apply")

\* BeginSecurityApply, after the intent is archived.
BeginSecurityApply(c) ==
    /\ chg[c].st = "approved" /\ Applier(c) /\ ValidateSecurityQuorum(c)
    /\ active = chg[c].exp /\ pend = Nobody
    /\ st \in {"standard", "enhanced", "setup_pending"}
    /\ active < MaxVersion
    /\ chg' = [chg EXCEPT ![c].st = "applying"]
    /\ st' = "applying" /\ pend' = c
    /\ UNCHANGED <<active, user, proof, lost>>

\* RecordSecurityCommit.
RecordSecurityCommit(c) ==
    /\ chg[c].st = "applying" /\ ~chg[c].commit
    /\ chg' = [chg EXCEPT ![c].commit = TRUE]
    /\ UNCHANGED <<active, st, pend, user, proof, lost>>

\* applySecurityPayload, with the triggers its writes fire.
ApplySecurityPayload(c) ==
    LET k == chg[c].kind
        t == chg[c].target
        changed == \/ k = "recovery"
                   \/ k = "grant" /\ chg[c].arg \notin user[t].roles
                   \/ k = "revoke" /\ chg[c].arg \in user[t].roles
                   \/ k = "person" /\ user[t].person # chg[c].arg
    IN CASE k = "bootstrap" ->
                /\ user' = [u \in Users |-> IF Nominated[u] = {} THEN user[u] ELSE
                              [user[u] EXCEPT !.roles = Nominated[u], !.person = PersonOf[u]]]
                /\ chg' = [d \in Changes |-> [chg[d] EXCEPT !.fresh = FALSE, !.applierFresh = FALSE,
                              !.votes = {[v EXCEPT !.valid = FALSE] : v \in @}]]
                /\ proof' = [u \in Users |-> NoProof]
                /\ UNCHANGED lost
         [] k = "policy" -> UNCHANGED <<user, chg, proof, lost>>
         [] OTHER ->
                /\ user' = [user EXCEPT ![t] =
                     CASE k = "grant" -> [@ EXCEPT !.roles = @ \cup {chg[c].arg}]
                       [] k = "revoke" -> [@ EXCEPT !.roles = @ \ {chg[c].arg}]
                       [] k = "person" -> [@ EXCEPT !.person = chg[c].arg]
                       [] k = "recovery" -> [@ EXCEPT !.ok = FALSE]]
                /\ IF changed THEN Revised(chg, t)
                   ELSE proof' = [proof EXCEPT ![t] = NoProof] /\ UNCHANGED <<chg, lost>>

\* An activation that trusts the checks BeginSecurityApply made.
Endorsed_Begun(c) == chg[c].commit

\* What ActivateSecurityChange checks again in its own transaction.
Endorsed(c) == chg[c].commit /\ Applier(c) /\ ValidateSecurityQuorum(c)

\* ActivateSecurityChange.
ActivateSecurityChange(c) ==
    /\ st = "applying" /\ pend = c
    /\ active = chg[c].exp
    /\ Endorsed(c)
    /\ ApplySecurityPayload(c)
    /\ active' = active + 1
    /\ UNCHANGED <<st, pend>>

\* A closed change is read by nobody again; its details are dropped.
Closed(c, state) ==
    /\ chg' = [chg EXCEPT ![c] = [NoChange EXCEPT !.st = state]]
    /\ lost' = [lost EXCEPT ![c] = {}]

\* FinishSecurityChange.
FinishSecurityChange(c) ==
    /\ st = "applying" /\ pend = c /\ active = chg[c].exp + 1
    /\ Closed(c, "applied")
    /\ st' = "enhanced" /\ pend' = Nobody
    /\ UNCHANGED <<active, user, proof>>

\* ExpireSecurityChanges: a decision is open for a day; with the last open
\* bootstrap the hub leaves setup.
ExpireSecurityChanges(c) ==
    /\ Open(c) /\ chg[c].st # "applying"
    /\ Closed(c, "expired")
    /\ st' = IF st = "setup_pending" /\ \A d \in Changes \ {c} :
                                            Open(d) => chg[d].kind # "bootstrap"
             THEN "standard" ELSE st
    /\ UNCHANGED <<active, pend, user, proof>>

Next ==
    \/ \E u \in Users : AccountFalls(u) \/ AccountRecovers(u) \/ ProofExpires(u)
    \/ \E u \in Users, c \in Changes :
        \/ \E action \in {"request", "approve", "apply"} : Stepup(u, action, c)
        \/ RequestBootstrap(c, u) \/ RequestChange(c, u)
        \/ Approve(c, u) \/ ClaimSecurityApplier(c, u)
    \/ \E c \in Changes :
        \/ BeginSecurityApply(c) \/ RecordSecurityCommit(c)
        \/ ActivateSecurityChange(c) \/ FinishSecurityChange(c)
        \/ ExpireSecurityChanges(c)

Spec == Init /\ [][Next]_vars

-----------------------------------------------------------------------------

\* (Of every step.)  A change takes effect only on the word of people who still stand by it: at
\* the moment it is activated there are a requester, an applier and at least
\* two voters, the voters and the requester all different people, and none of
\* them was disabled, re-credentialed, re-linked or re-roled since giving
\* their word, even if the account was put right again afterwards
\* (validateSecurityQuorumConn, checkSecurityPrincipal, migration 025).
DecidedByQuorum ==
    active' # active =>
        /\ pend # Nobody /\ active = chg[pend].exp
        /\ <<"request", chg[pend].by>> \notin lost[pend]
        /\ <<"apply", chg[pend].applier>> \notin lost[pend]
        /\ LET standing == {v \in chg[pend].votes : <<"approve", v.u>> \notin lost[pend]}
           IN Cardinality({PersonFor(pend, v.u) : v \in standing}
                            \ {PersonFor(pend, chg[pend].by)}) >= 2

=============================================================================
