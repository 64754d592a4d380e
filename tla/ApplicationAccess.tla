------------------------- MODULE ApplicationAccess --------------------------
(***************************************************************************)
(* Who may use a published application: launch tickets, application sessions, *)
(* the check every request and every second of an open stream goes through,   *)
(* and the revocations the Hub has observed but could not store yet.          *)
(* server/application_authority, application_pending_revocation,              *)
(* application_proxy, application_audit, handlers_applications and            *)
(* store/applications.  One application and one user; a ticket and the        *)
(* session made of it have one name.                                          *)
(*                                                                           *)
(* A check of a request is three steps, because it reads the store several    *)
(* times: the session it was given, the grants, and the session again.        *)
(***************************************************************************)
EXTENDS Naturals, FiniteSets

CONSTANTS Sessions, Requests, NoSession,
          MaxVersion,   \* configurations of the application
          MaxRevision,  \* changes of what the user is a member of
          MaxPending,   \* revocations kept in memory, 1024 in the code
          MaxCrashes

VARIABLES
  app,        \* "on", "deleting" or "gone"
  version,    \* config_version
  member,     \* the user has a granted role, group or name ...
  revision,   \* ... and how often that changed
  anchor,     \* the login the sessions descend from is not revoked
  ticket,     \* launch tickets
  row,        \* application_sessions
  log,        \* audit entries of the end of each session
  auditor,    \* auditApplicationSessionEnds between its two writes
  pending, quarantine,   \* applicationRevocations
  closing,    \* a handler has yet to close the streams of the application
  req,        \* requests
  denied,     \* sessions a check has found to have lost access
  crashes

storeVars == <<app, version, member, revision, anchor, ticket, row, log>>
vars == <<storeVars, auditor, pending, quarantine, closing, req, denied, crashes>>
-----------------------------------------------------------------------------
NoRow == [at |-> "none", version |-> 0, revision |-> 0, audited |-> FALSE]
NoTicket == [at |-> "none", version |-> 0, revision |-> 0]
Idle(sessions) == [at |-> "idle", s |-> sessions, version |-> 0, ended |-> FALSE,
                   launch |-> FALSE]

Init ==
  /\ app = "on" /\ version = 1 /\ member = TRUE /\ revision = 1 /\ anchor = TRUE
  /\ ticket = [s \in Sessions |-> NoTicket] /\ row = [s \in Sessions |-> NoRow]
  /\ log = [s \in Sessions |-> 0] /\ auditor = NoSession
  /\ pending = {} /\ quarantine = FALSE /\ closing = FALSE
  /\ req = [r \in Requests |-> Idle(NoSession)] /\ denied = {} /\ crashes = 0

Ended(rows, S) ==
  [s \in Sessions |-> IF s \in S /\ rows[s].at = "live" THEN [rows[s] EXCEPT !.at = "ended"]
                                                        ELSE rows[s]]
Dropped(tickets) ==
  [s \in Sessions |-> IF tickets[s].at = "issued" THEN [tickets[s] EXCEPT !.at = "void"]
                                                  ELSE tickets[s]]
\* closeSession and closeAll: what is registered is cancelled.
Closed(reqs, S) ==
  [r \in Requests |-> IF reqs[r].at = "open" /\ reqs[r].s \in S THEN Idle(NoSession)
                                                               ELSE reqs[r]]
-----------------------------------------------------------------------------
\* retryApplicationRevocationQuarantine: everything ends, or the store is not there
\* and the quarantine stays.
Quarantined(reqs) ==
  /\ quarantine
  /\ \/ /\ row' = Ended(row, Sessions) /\ ticket' = Dropped(ticket)
        /\ pending' = {} /\ quarantine' = FALSE
     \/ UNCHANGED <<row, ticket, pending, quarantine>>
  /\ req' = Closed(reqs, Sessions)

\* A pending revocation is stored, or stays pending.
Retire(s, marked, reqs) ==
  /\ \/ row' = Ended(row, {s}) /\ pending' = marked \ {s}
     \/ pending' = marked /\ UNCHANGED row
  /\ req' = Closed(reqs, {s})
  /\ UNCHANGED <<ticket, quarantine>>

\* The session as the store has it now.
EndedNow(r) == row[req[r].s].at = "ended"

\* checkApplicationPendingRevocation refuses ...
Refused(r) == quarantine \/ req[r].s \in pending \/ EndedNow(r)

\* ... and does its part of the work when it does.
Refuse(r) ==
  LET gone == [req EXCEPT ![r] = Idle(NoSession)] IN
  \/ Quarantined(gone)
  \/ ~quarantine /\ req[r].s \in pending /\ Retire(req[r].s, pending, gone)
  \/ /\ ~quarantine /\ req[r].s \notin pending /\ req' = gone
     /\ UNCHANGED <<row, ticket, pending, quarantine>>

\* persistApplicationAccessChanged: the marker first, a full table is a quarantine.
AccessChanged(r) ==
  LET s == req[r].s
      gone == [req EXCEPT ![r] = Idle(NoSession)]
      full == s \notin pending /\ Cardinality(pending) = MaxPending
  IN
  /\ denied' = denied \cup {s}
  /\ \/ Quarantined(gone)
     \/ /\ ~quarantine /\ full /\ req' = Closed(gone, Sessions)
        /\ \/ /\ row' = Ended(row, Sessions) /\ ticket' = Dropped(ticket) /\ pending' = {}
              /\ UNCHANGED quarantine
           \/ quarantine' = TRUE /\ UNCHANGED <<row, ticket, pending>>
     \/ ~quarantine /\ ~full /\ Retire(s, pending \cup {s}, gone)
-----------------------------------------------------------------------------
\* applicationAuthorization: the user holds a grant, by what it is a member of now.
Authorized == ~quarantine /\ member

\* The membership the session was made with is the one of now.
Current(s) == row[s].revision = revision

\* handleApplicationLaunch: the authorization, and later the ticket, which the
\* anchor and the configuration must still allow.
Launch(s) ==
  /\ ticket[s].at = "none" /\ app = "on" /\ Authorized
  /\ ticket' = [ticket EXCEPT ![s] = [at |-> "allowed", version |-> version,
                                      revision |-> revision]]
  /\ UNCHANGED <<app, version, member, revision, anchor, row, log, auditor, pending,
                 quarantine, closing, req, denied, crashes>>

CreateTicket(s) ==
  /\ ticket[s].at = "allowed"
  /\ ticket' = [ticket EXCEPT ![s].at =
       IF anchor /\ app = "on" /\ ticket[s].version = version THEN "issued" ELSE "void"]
  /\ UNCHANGED <<app, version, member, revision, anchor, row, log, auditor, pending,
                 quarantine, closing, req, denied, crashes>>

\* exchangeApplicationLaunch: the ticket is consumed and the session made in one
\* transaction, then the new session is checked.
Exchange(r, s) ==
  /\ req[r].at = "idle" /\ ticket[s].at = "issued"
  /\ anchor /\ app = "on" /\ ticket[s].version = version /\ ticket[s].revision = revision
  /\ ticket' = [ticket EXCEPT ![s].at = "used"]
  /\ row' = [row EXCEPT ![s] = [at |-> "live", version |-> version, revision |-> revision,
                                audited |-> FALSE]]
  /\ req' = [req EXCEPT ![r] = [at |-> "begin", s |-> s, version |-> version,
                                ended |-> FALSE, launch |-> TRUE]]
  /\ UNCHANGED <<app, version, member, revision, anchor, log, auditor, pending, quarantine,
                 closing, denied, crashes>>

\* serveApplication reads the application and the session of its cookie.
Request(r, s) ==
  /\ req[r].at = "idle" /\ row[s].at # "none" /\ app # "gone"
  /\ req' = [req EXCEPT ![r] = [at |-> "begin", s |-> s, version |-> version,
                                ended |-> row[s].at = "ended", launch |-> FALSE]]
  /\ UNCHANGED <<storeVars, auditor, pending, quarantine, closing, denied, crashes>>

\* checkApplicationSession up to the anchor.
CheckBegin(r) ==
  /\ req[r].at = "begin"
  /\ \/ Refused(r) /\ Refuse(r)
     \/ /\ ~Refused(r)
        /\ req' = IF req[r].ended \/ row[req[r].s].version # req[r].version \/ ~anchor
                  THEN [req EXCEPT ![r] = Idle(NoSession)]
                  ELSE [req EXCEPT ![r].at = "authorize"]
        /\ UNCHANGED <<row, ticket, pending, quarantine>>
  /\ UNCHANGED <<app, version, member, revision, anchor, log, auditor, closing, denied,
                 crashes>>

\* applicationAuthorization and the comparison of the revision.  A lookup that fails
\* while the caller waits is a loss of access, one of an aborted request is not.
Authorize(r) ==
  /\ req[r].at = "authorize"
  /\ \/ /\ Authorized /\ Current(req[r].s)
        /\ req' = [req EXCEPT ![r].at = "final"]
        /\ UNCHANGED <<row, ticket, pending, quarantine, denied>>
     \/ AccessChanged(r)
     \/ /\ req' = [req EXCEPT ![r] = Idle(NoSession)]
        /\ UNCHANGED <<row, ticket, pending, quarantine, denied>>
  /\ UNCHANGED <<app, version, member, revision, anchor, log, auditor, closing, crashes>>

\* Mutant: what was revoked since the check began is not looked at again.
CheckFinal_Once(r) ==
  /\ req[r].at = "final"
  /\ req' = IF req[r].launch THEN [req EXCEPT ![r] = Idle(NoSession)]
                             ELSE [req EXCEPT ![r].at = "admitted"]
  /\ UNCHANGED <<storeVars, auditor, pending, quarantine, closing, denied, crashes>>

\* The second look at the revocations; an exchange has nothing more to do.
CheckFinal(r) ==
  /\ req[r].at = "final"
  /\ \/ Refused(r) /\ Refuse(r)
     \/ /\ ~Refused(r)
        /\ req' = IF req[r].launch THEN [req EXCEPT ![r] = Idle(NoSession)]
                                   ELSE [req EXCEPT ![r].at = "admitted"]
        /\ UNCHANGED <<row, ticket, pending, quarantine>>
  /\ UNCHANGED <<app, version, member, revision, anchor, log, auditor, closing, denied,
                 crashes>>

\* The stream is registered.
Open(r) ==
  /\ req[r].at = "admitted" /\ req' = [req EXCEPT ![r].at = "open"]
  /\ UNCHANGED <<storeVars, auditor, pending, quarantine, closing, denied, crashes>>

\* What the check of the ticker finds, at every second.
Unfit(r) ==
  \/ Refused(r) \/ app = "gone" \/ row[req[r].s].version # version \/ ~anchor
  \/ ~Authorized \/ ~Current(req[r].s)

\* The ticker of an open stream.
Tick(r) ==
  /\ req[r].at = "open" /\ Unfit(r)
  /\ \/ Refused(r) /\ Refuse(r) /\ UNCHANGED denied
     \/ /\ ~Refused(r) /\ (app = "gone" \/ row[req[r].s].version # version \/ ~anchor)
        /\ req' = [req EXCEPT ![r] = Idle(NoSession)]
        /\ UNCHANGED <<row, ticket, pending, quarantine, denied>>
     \/ /\ ~Refused(r) /\ app # "gone" /\ row[req[r].s].version = version /\ anchor
        /\ AccessChanged(r)
  /\ UNCHANGED <<app, version, member, revision, anchor, log, auditor, closing, crashes>>

\* The directory does not answer the ticker in time.
LookupFails(r) ==
  /\ req[r].at = "open" /\ ~Unfit(r) /\ AccessChanged(r)
  /\ UNCHANGED <<app, version, member, revision, anchor, log, auditor, closing, crashes>>

\* The response is complete.
Done(r) ==
  /\ req[r].at = "open" /\ req' = [req EXCEPT ![r] = Idle(NoSession)]
  /\ UNCHANGED <<storeVars, auditor, pending, quarantine, closing, denied, crashes>>

\* retryPendingApplicationRevocations in the housekeeping.
Housekeeping ==
  /\ \/ Quarantined(req)
     \/ ~quarantine /\ \E s \in pending :
          /\ row' = Ended(row, {s}) /\ pending' = pending \ {s}
          /\ UNCHANGED <<ticket, quarantine, req>>
  /\ UNCHANGED <<app, version, member, revision, anchor, log, auditor, closing, denied,
                 crashes>>
-----------------------------------------------------------------------------
\* A new version of the application ends the sessions in its transaction; the streams
\* are closed after it.
Reconfigured ==
  /\ app = "on" /\ version < MaxVersion /\ version' = version + 1
  /\ row' = Ended(row, Sessions) /\ closing' = TRUE
  /\ UNCHANGED <<app, revision, anchor, ticket, log, auditor, pending, quarantine, req,
                 denied, crashes>>

UpdateApplication == Reconfigured /\ UNCHANGED member

ReplaceApplicationGrants == Reconfigured /\ member' \in BOOLEAN

CloseApp ==
  /\ closing /\ closing' = FALSE /\ req' = Closed(req, Sessions)
  /\ UNCHANGED <<storeVars, auditor, pending, quarantine, denied, crashes>>

\* A role, a group or the directory: nothing ends the sessions but their checks.
ChangeMembership ==
  /\ revision < MaxRevision /\ revision' = revision + 1 /\ member' = ~member
  /\ UNCHANGED <<app, version, anchor, ticket, row, log, auditor, pending, quarantine,
                 closing, req, denied, crashes>>

\* RevokeApplicationFamily and RevokeUserApplications.
RevokeAnchor ==
  /\ anchor /\ anchor' = FALSE /\ row' = Ended(row, Sessions)
  /\ UNCHANGED <<app, version, member, revision, ticket, log, auditor, pending, quarantine,
                 closing, req, denied, crashes>>

\* handleApplicationSessionEnd, and the end by age or idleness.
EndSession(s) ==
  /\ row[s].at = "live" /\ row' = Ended(row, {s})
  /\ \/ req' = Closed(req, {s}) \/ UNCHANGED req
  /\ UNCHANGED <<app, version, member, revision, anchor, ticket, log, auditor, pending,
                 quarantine, closing, denied, crashes>>

\* handleApplicationDelete: the application is withdrawn ...
BeginApplicationDeletion ==
  /\ app = "on" /\ app' = "deleting" /\ version' = version + 1
  /\ ticket' = Dropped(ticket) /\ row' = Ended(row, Sessions) /\ closing' = TRUE
  /\ UNCHANGED <<member, revision, anchor, log, auditor, pending, quarantine, req, denied,
                 crashes>>

\* Mutant: sessions that ended may still miss their audit entry.
Deletable_Ended == \A s \in Sessions : row[s].at # "live"

Deletable == \A s \in Sessions : row[s].at = "none" \/ (row[s].at = "ended" /\ row[s].audited)

\* ... and deleted once all that ended was audited.
DeleteApplication ==
  /\ app = "deleting" /\ Deletable /\ app' = "gone"
  /\ UNCHANGED <<version, member, revision, anchor, ticket, row, log, auditor, pending,
                 quarantine, closing, req, denied, crashes>>

\* ApplicationAuditExists
Logged(s) == log[s] > 0

\* auditApplicationSessionEnds, under its mutex: the entry, then the marker.
AuditEnd(s) ==
  /\ auditor = NoSession /\ row[s].at = "ended" /\ ~row[s].audited
  /\ log' = IF Logged(s) THEN log ELSE [log EXCEPT ![s] = @ + 1]
  /\ auditor' = s
  /\ UNCHANGED <<app, version, member, revision, anchor, ticket, row, pending, quarantine,
                 closing, req, denied, crashes>>

\* MarkApplicationEndAudited, which may fail.
MarkAudited ==
  /\ auditor # NoSession /\ auditor' = NoSession
  /\ \/ row' = [row EXCEPT ![auditor].audited = TRUE] \/ UNCHANGED row
  /\ UNCHANGED <<app, version, member, revision, anchor, ticket, log, pending, quarantine,
                 closing, req, denied, crashes>>

\* The Hub restarts: what it had observed and not stored is gone, so
\* newApplicationRevocations begins in quarantine.
Restart ==
  /\ crashes < MaxCrashes /\ crashes' = crashes + 1
  /\ pending' = {} /\ quarantine' = TRUE /\ closing' = FALSE
  /\ auditor' = NoSession /\ req' = [r \in Requests |-> Idle(NoSession)]
  /\ ticket' = [s \in Sessions |-> IF ticket[s].at = "allowed" THEN NoTicket ELSE ticket[s]]
  /\ UNCHANGED <<app, version, member, revision, anchor, row, log, denied>>
-----------------------------------------------------------------------------
Check(r) == CheckBegin(r) \/ Authorize(r) \/ CheckFinal(r) \/ Open(r) \/ Tick(r)

Next ==
  \/ \E s \in Sessions : Launch(s) \/ CreateTicket(s) \/ EndSession(s) \/ AuditEnd(s)
  \/ \E r \in Requests : Check(r) \/ Done(r) \/ LookupFails(r)
  \/ \E r \in Requests, s \in Sessions : Exchange(r, s) \/ Request(r, s)
  \/ Housekeeping \/ UpdateApplication \/ ReplaceApplicationGrants \/ CloseApp \/ ChangeMembership \/ RevokeAnchor
  \/ BeginApplicationDeletion \/ DeleteApplication \/ MarkAudited \/ Restart

\* The handler of a request and its ticker go on.
Fairness == \A r \in Requests : WF_vars(Check(r))

Spec == Init /\ [][Next]_vars /\ Fairness
-----------------------------------------------------------------------------
TypeOK ==
  /\ app \in {"on", "deleting", "gone"} /\ version \in 1 .. MaxVersion + 1
  /\ pending \subseteq Sessions /\ Cardinality(pending) <= MaxPending

\* (Of every step.)  A session a check has found without access is never admitted again, not by a check
\* that read it before, not when the store was away, not after a restart, and not
\* when the access has come back since.
DeniedStaysDenied ==
  \A r \in Requests :
      req'[r].at = "admitted" /\ req[r].at # "admitted" => req'[r].s \notin denied

\* An application is deleted only when every session it had has ended and the end is
\* in the audit log, and no session appears afterwards.
DeletedIsAudited ==
  app = "gone" => \A s \in Sessions : row[s].at = "none" \/ (row[s].at = "ended" /\ log[s] > 0)

\* The end of a session has one audit entry, also when the Hub stopped between the
\* entry and its marker.
EndAuditedOnce == \A s \in Sessions : log[s] <= 1

\* A stream of a session that has no access any more is closed, also when it was
\* registered after the streams of the session had been closed.
StreamsEnd ==
  \A r \in Requests :
    req[r].at = "open" /\ (row[req[r].s].at = "ended" \/ ~member) ~> req[r].at # "open"
=============================================================================
