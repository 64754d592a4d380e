------------------------------ MODULE Accounts ------------------------------
(***************************************************************************)
(* The accounts of a hub: the registration that founds it, and the changes *)
(* administrators make to one another's accounts afterwards.               *)
(*                                                                         *)
(* A handler collects the caller's authority (accountManagementActor) when *)
(* the request arrives and changes the target in a transaction of its own, *)
(* which checks that authority again: between the two, another             *)
(* administrator may have demoted, disabled or deleted the caller.  The    *)
(* first registration has no caller at all; it is guarded by reading the   *)
(* set-up state and by counting accounts after the insert.                 *)
(***************************************************************************)
EXTENDS Naturals, FiniteSets

CONSTANTS Ids,         \* identities of accounts
          Requests     \* requests of administrators that may run at a time

VARIABLES
  acct,       \* table users
  complete,   \* _config initial_setup_complete
  req,        \* requests of administrators, between authority and transaction
  reg,        \* registrations in progress, by the identity they will use
  protected   \* accounts that take part in security governance

vars == <<acct, complete, req, reg, protected>>

(***************************************************************************)
(* activity: the account was used within the time the policy allows, has   *)
(* been idle for longer, or is exempt from dormancy.  An identity is never *)
(* used twice.                                                             *)
(***************************************************************************)
Accounts == [state : {"none", "there", "gone"}, role : {"admin", "viewer"}, on : BOOLEAN,
             temp : {"no", "temporary", "recovery"}, disabled : BOOLEAN, activity : {"fresh", "stale", "exempt"}]

NoAccount == [state |-> "none", role |-> "viewer", on |-> FALSE, temp |-> "no",
              disabled |-> FALSE, activity |-> "fresh"]
Gone == [NoAccount EXCEPT !.state = "gone"]
Administrator == [NoAccount EXCEPT !.state = "there", !.role = "admin", !.on = TRUE]

\* A request holds the caller's authority: fresh until token_generation or
\* security_revision of the caller's account changes.
Idle == [actor |-> "none", fresh |-> FALSE]

\* A hub that nobody has set up, or one whose accounts are administrators.
Init ==
  /\ \/ acct = [u \in Ids |-> NoAccount] /\ complete = FALSE
     \/ acct = [u \in Ids |-> Administrator] /\ complete = TRUE
  /\ req = [r \in Requests |-> Idle]
  /\ reg = [u \in Ids |-> "none"]
  /\ protected = {}

There(u) == acct[u].state = "there"

\* The trigger governance_credentials and the UPDATE statements: the account
\* changes, and authority collected for it before is void.
Change(u, res) ==
  /\ acct' = [acct EXCEPT ![u] = res]
  /\ req' = [r \in Requests |-> [req[r] EXCEPT !.fresh = @ /\ req[r].actor # u]]

(***************************************************************************)
(* Registration.                                                           *)
(***************************************************************************)
\* handleRegister: refused once the set-up is complete.
RegisterBegin(u) ==
  /\ reg[u] = "none" /\ acct[u].state = "none"
  /\ ~complete
  /\ reg' = [reg EXCEPT ![u] = "cleanup"]
  /\ UNCHANGED <<acct, complete, req, protected>>

\* DeleteIncompleteUsers removes accounts without an authenticator, but not
\* those that take part in governance.
RegisterCleanup(u) ==
  /\ reg[u] = "cleanup"
  /\ acct' = [v \in Ids |-> IF There(v) /\ ~acct[v].on /\ v \notin protected THEN Gone ELSE acct[v]]
  /\ reg' = [reg EXCEPT ![u] = "create"]
  /\ UNCHANGED <<complete, req, protected>>

\* The founder is an administrator whom dormancy does not touch.
RegisterCreate(u) ==
  /\ reg[u] = "create"
  /\ acct' = [acct EXCEPT ![u] = [NoAccount EXCEPT !.state = "there", !.role = "admin", !.activity = "exempt"]]
  /\ reg' = [reg EXCEPT ![u] = "count"]
  /\ UNCHANGED <<complete, req, protected>>

\* UserCount after the insert: anyone else means the set-up was someone else's.
Alone(u) == \A v \in Ids \ {u} : ~There(v)

\* Answered with a set-up token, or taken back.
RegisterAnswer(u) ==
  /\ reg[u] = "count"
  /\ IF Alone(u)
       THEN reg' = [reg EXCEPT ![u] = "answered"] /\ UNCHANGED acct
       ELSE reg' = [reg EXCEPT ![u] = "none"] /\ acct' = [acct EXCEPT ![u] = Gone]
  /\ UNCHANGED <<complete, req, protected>>

\* CompleteTOTPSetup: whoever holds a set-up token finishes the account.  An
\* account with a temporary password replaces it in the same transaction.  The
\* browser of a founder waits for the answer to its registration first.  A
\* protected account may do so after a recovery only.
CompleteTOTPSetup(u) ==
  /\ reg[u] # "count"
  /\ There(u) /\ ~acct[u].on /\ ~acct[u].disabled /\ acct[u].activity # "stale"
  /\ u \notin protected \/ acct[u].temp = "recovery"
  /\ Change(u, [acct[u] EXCEPT !.on = TRUE, !.temp = "no"])
  /\ complete' = TRUE
  /\ UNCHANGED <<reg, protected>>

(***************************************************************************)
(* Administrators at work.                                                 *)
(***************************************************************************)
\* The account may act as an administrator now.
Administers(u) ==
  /\ There(u) /\ acct[u].role = "admin" /\ acct[u].on
  /\ acct[u].temp = "no" /\ ~acct[u].disabled /\ acct[u].activity # "stale"

\* accountManagementActor, behind the middleware that lets the request in; the
\* body of the request is read afterwards.
Begin(r, u) ==
  /\ req[r] = Idle
  /\ Administers(u)
  /\ req' = [req EXCEPT ![r] = [actor |-> u, fresh |-> TRUE]]
  /\ UNCHANGED <<acct, complete, reg, protected>>

\* guardAccountManagementActor, inside the transaction.
ActorCurrent(r) == Administers(req[r].actor) /\ req[r].fresh

\* An enabled administrator besides t.
AnotherAdmin(t) == \E v \in Ids \ {t} : There(v) /\ acct[v].role = "admin" /\ ~acct[v].disabled

\* One transaction: the authority is checked before the change and after it.
Write(r, t, res) ==
  /\ req[r] # Idle /\ ActorCurrent(r)
  /\ Change(t, res)
  /\ UNCHANGED <<complete, reg, protected>>

\* A transaction that leaves the target's credentials alone.
Note(r, t, res) ==
  /\ req[r] # Idle /\ ActorCurrent(r)
  /\ acct' = [acct EXCEPT ![t] = res]
  /\ UNCHANGED <<complete, req, reg, protected>>

Other(r, t) == req[r].actor # t
Open(t) == There(t) /\ t \notin protected

UpdateUserRole(r, t) ==
  /\ Other(r, t) /\ Open(t)
  /\ \/ Write(r, t, [acct[t] EXCEPT !.role = "admin"])
     \/ \E idle \in {"fresh", "stale"} :
          Write(r, t, [acct[t] EXCEPT !.role = "viewer", !.activity = IF @ = "exempt" THEN idle ELSE @])

DeleteUser(r, t) == Other(r, t) /\ Open(t) /\ Write(r, t, Gone)

DisableUser(r, t) ==
  /\ Other(r, t) /\ There(t) /\ ~acct[t].disabled
  /\ acct[t].role = "admin" => AnotherAdmin(t)
  /\ Write(r, t, [acct[t] EXCEPT !.disabled = TRUE])

EnableUser(r, t) ==
  /\ Open(t) /\ acct[t].disabled
  /\ Write(r, t, [acct[t] EXCEPT !.disabled = FALSE, !.activity = IF @ = "stale" THEN "fresh" ELSE @])

\* Unlocking an account that was locked counts as activity; so does
\* reactivating one that is dormant, unless it is disabled.
UnlockUser(r, t) == Open(t) /\ Note(r, t, [acct[t] EXCEPT !.activity = IF @ = "stale" THEN "fresh" ELSE @])

ReactivateUser(r, t) ==
  /\ Open(t) /\ ~acct[t].disabled /\ acct[t].activity = "stale"
  /\ Note(r, t, [acct[t] EXCEPT !.activity = "fresh"])

\* An exemption that ends leaves the account as active as it was.
SetDormancyExempt(r, t) ==
  /\ Open(t) /\ acct[t].role = "admin"
  /\ \E a \in IF acct[t].activity = "exempt" THEN {"fresh", "stale"} ELSE {"exempt"} :
       Note(r, t, [acct[t] EXCEPT !.activity = a])

ResetLocalPassword(r, t) == Other(r, t) /\ Open(t) /\ Write(r, t, [acct[t] EXCEPT !.temp = "temporary"])

DisableUserTOTP(r, t) == Other(r, t) /\ Open(t) /\ Write(r, t, [acct[t] EXCEPT !.on = FALSE])

CreateUser(r, t) ==
  /\ acct[t].state = "none" /\ reg[t] = "none"
  /\ \E x \in {"admin", "viewer"} :
       Write(r, t, [NoAccount EXCEPT !.state = "there", !.role = x, !.temp = "temporary"])

\* The request ends: its change is made, or refused.  The caller's session may
\* have ended, or its token expired, at any moment.
Finish(r) ==
  /\ req[r] # Idle
  /\ req' = [req EXCEPT ![r] = Idle]
  /\ UNCHANGED <<acct, complete, reg, protected>>

(***************************************************************************)
(* What else befalls an account.                                           *)
(***************************************************************************)
\* Time passes without the account being used.
GoesDormant(u) ==
  /\ There(u) /\ acct[u].activity = "fresh"
  /\ acct' = [acct EXCEPT ![u].activity = "stale"]
  /\ UNCHANGED <<complete, req, reg, protected>>

\* ChangeLocalPassword: the holder replaces a temporary password.
ChangeLocalPassword(u) ==
  /\ There(u) /\ acct[u].temp # "no" /\ acct[u].on /\ ~acct[u].disabled /\ acct[u].activity # "stale"
  /\ u \notin protected
  /\ Change(u, [acct[u] EXCEPT !.temp = "no"])
  /\ UNCHANGED <<complete, reg, protected>>

\* Governance takes an account under its protection and lets it go again.
Govern(u) ==
  /\ There(u)
  /\ protected' = IF u \in protected THEN protected \ {u} ELSE protected \cup {u}
  /\ UNCHANGED <<acct, complete, req, reg>>

\* ResetLocalTOTPBreakGlass, from the hub's shell: a way back in.  Its operator
\* is not there in the moment in which the hub is being founded.
BreakGlass(u) ==
  /\ \A v \in Ids : reg[v] \in {"none", "answered"}
  /\ There(u)
  /\ Change(u, [acct[u] EXCEPT !.on = FALSE, !.temp = "recovery"])
  /\ complete' = TRUE
  /\ UNCHANGED <<reg, protected>>

Next ==
  \/ \E u \in Ids : \/ RegisterBegin(u) \/ RegisterCleanup(u) \/ RegisterCreate(u) \/ RegisterAnswer(u)
                    \/ CompleteTOTPSetup(u) \/ ChangeLocalPassword(u)
                    \/ GoesDormant(u) \/ Govern(u) \/ BreakGlass(u)
  \/ \E r \in Requests : \/ Finish(r)
                         \/ \E u \in Ids : Begin(r, u)
                         \/ \E t \in Ids : \/ UpdateUserRole(r, t) \/ DeleteUser(r, t) \/ DisableUser(r, t)
                                           \/ EnableUser(r, t) \/ UnlockUser(r, t) \/ ReactivateUser(r, t)
                                           \/ SetDormancyExempt(r, t) \/ ResetLocalPassword(r, t)
                                           \/ DisableUserTOTP(r, t) \/ CreateUser(r, t)

Spec == Init /\ [][Next]_vars

(***************************************************************************)
(* Properties.                                                             *)
(***************************************************************************)
TypeOK ==
  /\ acct \in [Ids -> Accounts]
  /\ complete \in BOOLEAN
  /\ req \in [Requests -> [actor : Ids \cup {"none"}, fresh : BOOLEAN]]
  /\ reg \in [Ids -> {"none", "cleanup", "create", "count", "answered"}]
  /\ protected \subseteq Ids

\* Once the hub is set up there is an enabled administrator, whatever
\* administrators do to each other at the same time: nobody can be left with a
\* hub that nobody may administer.
AnAdministratorRemains ==
  complete => \E u \in Ids : There(u) /\ acct[u].role = "admin" /\ ~acct[u].disabled

\* Registration makes one founder: of the registrations that were answered with
\* a set-up token, at most one account exists.
OneFounder ==
  \A u, v \in Ids : reg[u] = "answered" /\ reg[v] = "answered" /\ There(u) /\ There(v) => u = v

=============================================================================
