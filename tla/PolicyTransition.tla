-------------------------- MODULE PolicyTransition --------------------------
(***************************************************************************)
(* How an approved security change becomes the policy in force            *)
(* (hub/internal/authorization/transition.go, policy_continuity.go,       *)
(* receipt_evidence.go, the transition half of store/security.go).        *)
(*                                                                         *)
(* Three places remember the policy: the hub's database, an enrolment      *)
(* marker in a file beside it, and the latest policy anchor in an archive  *)
(* the hub does not own.  A transition moves them one after the other, and *)
(* every step of it may be the last: the archive stops answering, an       *)
(* answer is lost, the hub crashes.  Startup and the reconciliation API    *)
(* take it up again, possibly both at once.  An operator may also restore  *)
(* the database, the marker, or both from a backup while the hub is down.  *)
(*                                                                         *)
(* Who may approve a change is SecurityChanges; here a change is approved  *)
(* once, and the quorum recheck of ActivateSecurityChange is one of the    *)
(* ways in which a step may give up.                                       *)
(***************************************************************************)
EXTENDS Naturals, Sequences

CONSTANTS
    Changes,        \* identifiers of security changes
    Bootstrap,      \* the one that enrolled the hub, when Init has an enrolled one
    NoChange,       \* audit_policy_state.pending_change = ''
    Procs,          \* goroutines that apply or reconcile; one also serves Startup
    MaxRestores,    \* bound: restores from the backup
    MaxCrashes      \* bound: hub crashes

VARIABLES
    db,         \* audit_policy_state, audit_policy_versions, security_changes, security_evidence
    marker,     \* the enrolment marker file: [ver, pol], ver = 0 while it is absent
    anchors,    \* the archive's anchors: anchors[v - 1] is the anchor of version v
    kept,       \* the archive's records: kept[c][k] is the copy preserved, 0 for none
    hub,        \* "down", "starting" (authorization.Startup) or "up"
    proc,       \* what each goroutine is doing
    backup,     \* the operator's backup of database and marker
    restores,   \* restores so far; a record written after one is a different copy
    crashes,    \* crashes so far
    last        \* bound: the last policy version of this behaviour

vars == <<db, marker, anchors, kept, hub, proc, backup, restores, crashes, last>>

Kinds == {"intent", "commit", "anchor", "result"}

\* A policy is told apart by the change that wrote it and by its profile; two
\* versions share a digest exactly when they share this value.
Policies == [by : Changes \cup {NoChange}, profile : {"standard", "enhanced"}]

Initial == [by |-> NoChange, profile |-> "standard"]

Idle == [pc |-> "idle", c |-> NoChange, activated |-> FALSE, frozen |-> FALSE]

Unset == [st |-> "none", exp |-> 0, pol |-> Initial, commit |-> FALSE]

Enhanced(c) == [by |-> c, profile |-> "enhanced"]

\* A hub that was never enrolled, or one whose bootstrap is complete.
Init ==
    /\ \E enrolled \in BOOLEAN :
        LET pol == IF enrolled THEN Enhanced(Bootstrap) ELSE Initial
            first == <<[req |-> NoChange, pol |-> Initial]>>
            second == <<[req |-> Bootstrap, pol |-> pol]>>
            rows == [c \in Changes |-> [k \in Kinds |->
                        IF enrolled /\ c = Bootstrap THEN 1 ELSE 0]]
        IN /\ db = [active |-> IF enrolled THEN 2 ELSE 1, st |-> pol.profile, pend |-> NoChange,
                    ver |-> IF enrolled THEN first \o second ELSE first,
                    chg |-> [c \in Changes |-> IF enrolled /\ c = Bootstrap
                        THEN [st |-> "applied", exp |-> 1, pol |-> pol, commit |-> TRUE]
                        ELSE Unset],
                    ev |-> rows]
           /\ marker = [ver |-> IF enrolled THEN 2 ELSE 0, pol |-> pol]
           /\ anchors = IF enrolled THEN second ELSE <<>>
           /\ kept = rows
           /\ last = db.active + 1
    /\ hub = "up"
    /\ proc = [p \in Procs |-> Idle]
    /\ backup = <<>>
    /\ restores \in {0, MaxRestores}
    /\ crashes = 0

Active == db.ver[db.active]

\* latestAnchor: the newest anchor of this installation.
Latest == [ver |-> Len(anchors) + 1, at |-> anchors[Len(anchors)]]

-----------------------------------------------------------------------------
(* Continuity checks *)

MarkerIs(v, pol) == marker.ver = v /\ marker.pol = pol

\* The anchor names the version, its policy and the change that made it.
AnchorIs(v, version) ==
    anchors # <<>> /\ Latest.ver = v /\ Latest.at = [req |-> version.req, pol |-> version.pol]

\* checkPendingRecovery, for the change c as its caller read it.
CheckPendingRecovery(c, activated) ==
    LET chg == db.chg[c]
        old == db.ver[chg.exp]
        new == db.ver[chg.exp + 1]
        initial == chg.exp = 1
    IN /\ \/ marker.ver = 0 /\ initial /\ ~activated
          \/ MarkerIs(chg.exp, old.pol) /\ ~activated
          \/ MarkerIs(chg.exp + 1, new.pol)
       /\ \/ anchors = <<>> /\ initial /\ ~activated
          \/ AnchorIs(chg.exp + 1, new)
          \/ ~activated /\ AnchorIs(chg.exp, old)

GovernanceEnrolled == Len(db.ver) > 1

\* ValidateAnchor, when the archive answers.
ValidateAnchor ==
    IF db.pend # NoChange
    THEN CheckPendingRecovery(db.pend, db.active # db.chg[db.pend].exp)
    ELSE IF marker.ver = 0 /\ ~GovernanceEnrolled
    THEN db.active = 1 /\ anchors = <<>>
    ELSE /\ MarkerIs(db.active, Active.pol)
         /\ AnchorIs(db.active, Active)
         /\ db.chg[Active.req].st = "applied"

\* validateLocalExecutionPolicy and validateApprovedPolicy: what every
\* execution and terminal is checked against, without asking the archive.
ValidateExecutionPolicy ==
    IF db.pend = NoChange
    THEN \/ db.active = 1 /\ marker.ver = 0 /\ ~GovernanceEnrolled
         \/ /\ MarkerIs(db.active, Active.pol)
            /\ db.active > 1 => db.chg[Active.req].st = "applied"
    ELSE LET chg == db.chg[db.pend]
             activated == db.active = chg.exp + 1
         IN /\ chg.st = "applying"
            /\ \/ marker.ver = 0 /\ ~activated /\ chg.exp = 1
               \/ MarkerIs(chg.exp + 1, db.ver[chg.exp + 1].pol)
               \/ ~activated /\ MarkerIs(chg.exp, db.ver[chg.exp].pol)

\* PolicyForExecution admits work that no pending policy covers.
PolicyForExecution ==
    hub = "up" /\ db.st # "recovery_required" /\ ValidateExecutionPolicy

-----------------------------------------------------------------------------
(* Steps of a goroutine *)

\* A goroutine ends.  In Startup that ends the start of the hub: with an error
\* the hub serves, but closed (server.New).
Ends(p, failed, frozen) ==
    /\ proc' = [proc EXCEPT ![p] = Idle]
    /\ hub' = "up"
    /\ db' = IF frozen \/ (failed /\ hub = "starting")
             THEN [db EXCEPT !.st = "recovery_required"] ELSE db

Goes(p, pc) == proc' = [proc EXCEPT ![p].pc = pc] /\ UNCHANGED hub

At(p, pc) == proc[p].pc = pc

\* The copy of a record: the row in security_evidence if there is one, else a
\* new one, with its own time of writing.
Copy(c, k) == IF db.ev[c][k] = 0 THEN restores + 1 ELSE db.ev[c][k]

\* external: the archive keeps the first copy of an event id, and an anchor
\* only on top of the version it expects.
Preservable(c, k) ==
    /\ kept[c][k] \in {0, Copy(c, k)}
    /\ k = "anchor" => \/ Len(anchors) + 1 = db.chg[c].exp
                       \/ /\ Len(anchors) >= db.chg[c].exp
                          /\ kept[c][k] = Copy(c, k)
                          /\ anchors[db.chg[c].exp] = [req |-> c, pol |-> db.chg[c].pol]

Anchored(c) ==
    anchors' = IF Len(anchors) + 1 = db.chg[c].exp
               THEN Append(anchors, [req |-> c, pol |-> db.chg[c].pol]) ELSE anchors

\* archive: the row is written first, then the record is preserved, and the
\* goroutine goes on only with a verified receipt.
Archive(p, k, next) ==
    LET c == proc[p].c IN
    /\ Preservable(c, k)
    /\ kept' = [kept EXCEPT ![c][k] = Copy(c, k)]
    /\ IF k = "anchor" THEN Anchored(c) ELSE UNCHANGED anchors
    /\ db' = [db EXCEPT !.ev[c][k] = Copy(c, k)]
    /\ Goes(p, next)
    /\ UNCHANGED <<marker, backup, restores, crashes, last>>

\* archive fails: the archive refuses or does not answer, or it preserved the
\* record and the answer was lost.
ArchiveFails(p, k) ==
    LET c == proc[p].c
        row == [db EXCEPT !.ev[c][k] = Copy(c, k)]
    IN /\ \/ UNCHANGED <<kept, anchors>>
          \/ /\ kept[c][k] \in {0, Copy(c, k)}
             /\ kept' = [kept EXCEPT ![c][k] = Copy(c, k)]
             /\ \/ UNCHANGED anchors
                \/ k = "anchor" /\ Preservable(c, k) /\ Anchored(c)
       /\ proc' = [proc EXCEPT ![p] = Idle]
       /\ hub' = "up"
       /\ db' = IF hub = "starting" THEN [row EXCEPT !.st = "recovery_required"] ELSE row
       /\ UNCHANGED <<marker, backup, restores, crashes, last>>

\* Any other error return: an account that lost its authority, a secret that
\* cannot be resolved, a request cancelled or timed out.
GiveUp(p) ==
    /\ proc[p].pc # "idle"
    /\ Ends(p, TRUE, FALSE)
    /\ UNCHANGED <<marker, anchors, kept, backup, restores, crashes, last>>

-----------------------------------------------------------------------------
(* Apply *)

\* Only the bootstrap precedes enrolment, and it brings the Enhanced profile;
\* a later change keeps the policy (role, person, settings) or replaces it.
Candidates(c) ==
    IF db.active = 1 THEN {Enhanced(c)} ELSE {Active.pol, [by |-> c, profile |-> "standard"]}

\* A change reaches its quorum.  It never had this identifier before.
Approved(c) ==
    /\ hub = "up"
    /\ db.chg[c].st = "none" /\ kept[c]["intent"] = 0
    /\ db.pend = NoChange /\ db.st # "recovery_required"
    /\ db.active < last
    /\ db.active = 1 <=> c = Bootstrap
    /\ \E pol \in Candidates(c) :
        db' = [db EXCEPT !.chg[c] = [st |-> "approved", exp |-> db.active, pol |-> pol,
                                     commit |-> FALSE]]
    /\ UNCHANGED <<marker, anchors, kept, hub, proc, backup, restores, crashes, last>>

\* bound: one goroutine at a time while a restore is still to come.
MayBegin(p) ==
    /\ hub = "up" /\ At(p, "idle")
    /\ restores < MaxRestores => \A q \in Procs : At(q, "idle")

\* Apply, up to the archive: the quorum is checked, the applier claimed, and
\* the change must still follow the active version.
Apply(p, c) ==
    /\ MayBegin(p)
    /\ db.chg[c].st = "approved"
    /\ db.active = db.chg[c].exp /\ db.pend = NoChange /\ db.st \in {"standard", "enhanced"}
    /\ proc' = [proc EXCEPT ![p] = [Idle EXCEPT !.pc = IF Active.pol.profile = "enhanced"
                                                       THEN "continuity" ELSE "intent", !.c = c]]
    /\ UNCHANGED <<db, marker, anchors, kept, hub, backup, restores, crashes, last>>

\* Apply's CheckAnchor on an Enhanced hub.
ApplyCheckAnchor(p) ==
    /\ At(p, "continuity")
    /\ ValidateAnchor
    /\ Goes(p, "intent")
    /\ UNCHANGED <<db, marker, anchors, kept, backup, restores, crashes, last>>

\* CheckAnchor closes the hub when the check fails or the archive is silent.
ApplyCheckAnchorFails(p) ==
    /\ At(p, "continuity")
    /\ Ends(p, TRUE, TRUE)
    /\ UNCHANGED <<marker, anchors, kept, backup, restores, crashes, last>>

\* BeginSecurityApply.
BeginSecurityApply(p) ==
    LET c == proc[p].c IN
    /\ At(p, "begin")
    /\ IF /\ db.chg[c].st = "approved"
          /\ db.active = db.chg[c].exp /\ db.pend = NoChange
          /\ db.st \in {"standard", "enhanced"}
          /\ Len(db.ver) = db.chg[c].exp
       THEN /\ db' = [db EXCEPT !.st = "applying", !.pend = c, !.chg[c].st = "applying",
                                !.ver = Append(@, [req |-> c, pol |-> db.chg[c].pol])]
            /\ Goes(p, "read")
       ELSE Ends(p, TRUE, FALSE)
    /\ UNCHANGED <<marker, anchors, kept, backup, restores, crashes, last>>

-----------------------------------------------------------------------------
(* ReconcileChange: the end of Apply, the reconciliation API and Startup *)

\* handleSecurityReconcile.
Reconcile(p, c) ==
    /\ MayBegin(p)
    /\ db.chg[c].st = "applying"
    /\ proc' = [proc EXCEPT ![p] = [Idle EXCEPT !.pc = "read", !.c = c]]
    /\ UNCHANGED <<db, marker, anchors, kept, hub, backup, restores, crashes, last>>

\* The change and the policy state are read; what follows works on them.
ReconcileRead(p) ==
    LET c == proc[p].c IN
    /\ At(p, "read")
    /\ IF db.chg[c].st = "applying" /\ db.pend = c
       THEN /\ proc' = [proc EXCEPT ![p] = [pc |-> "check", c |-> c,
                            activated |-> db.active # db.chg[c].exp,
                            frozen |-> db.st = "recovery_required"]]
            /\ UNCHANGED <<db, hub>>
       ELSE Ends(p, db.chg[c].st # "applied", FALSE)
    /\ UNCHANGED <<marker, anchors, kept, backup, restores, crashes, last>>

\* checkPendingRecovery and ResumeSecurityApplying.
ReconcileCheck(p) ==
    LET c == proc[p].c IN
    /\ At(p, "check")
    /\ CheckPendingRecovery(c, proc[p].activated)
    /\ IF proc[p].frozen /\ ~(db.st = "recovery_required" /\ db.pend = c)
       THEN Ends(p, TRUE, FALSE)
       ELSE /\ db' = IF proc[p].frozen THEN [db EXCEPT !.st = "applying"] ELSE db
            /\ Goes(p, IF proc[p].activated THEN "result" ELSE "again")
    /\ UNCHANGED <<marker, anchors, kept, backup, restores, crashes, last>>

\* The check fails, or the archive does not answer it.
ReconcileCheckFails(p) ==
    /\ At(p, "check")
    /\ Ends(p, TRUE, TRUE)
    /\ UNCHANGED <<marker, anchors, kept, backup, restores, crashes, last>>

\* RecordSecurityCommit writes only while the change is applying.
RecordSecurityCommit(p) ==
    LET c == proc[p].c IN
    /\ At(p, "record")
    /\ db' = [db EXCEPT !.chg[c].commit = @ \/ db.chg[c].st = "applying"]
    /\ Goes(p, "marker")
    /\ UNCHANGED <<marker, anchors, kept, backup, restores, crashes, last>>

\* writeMarker: never backwards, and never another policy for a version.
WriteMarker(p) ==
    LET chg == db.chg[proc[p].c] IN
    /\ At(p, "marker")
    /\ IF marker.ver > chg.exp + 1 \/ (marker.ver = chg.exp + 1 /\ marker.pol # chg.pol)
       THEN Ends(p, TRUE, FALSE) /\ UNCHANGED marker
       ELSE /\ marker' = [ver |-> chg.exp + 1, pol |-> chg.pol]
            /\ Goes(p, "anchor") /\ UNCHANGED db
    /\ UNCHANGED <<anchors, kept, backup, restores, crashes, last>>

\* ActivateSecurityChange: idempotent, and only with the commit recorded.
ActivateSecurityChange(p) ==
    LET c == proc[p].c IN
    /\ At(p, "activate")
    /\ IF /\ db.st = "applying" /\ db.pend = c
          /\ \/ db.active = db.chg[c].exp + 1
             \/ db.active = db.chg[c].exp /\ db.chg[c].commit
       THEN /\ db' = [db EXCEPT !.active = db.chg[c].exp + 1]
            /\ Goes(p, "result")
       ELSE Ends(p, TRUE, FALSE)
    /\ UNCHANGED <<marker, anchors, kept, backup, restores, crashes, last>>

\* FinishSecurityChange.  In Startup the final CheckAnchor follows.
FinishSecurityChange(p) ==
    LET c == proc[p].c IN
    /\ At(p, "finish")
    /\ IF db.st = "applying" /\ db.pend = c /\ db.active = db.chg[c].exp + 1
       THEN /\ db' = [db EXCEPT !.st = Active.pol.profile, !.pend = NoChange,
                                !.chg[c].st = "applied"]
            /\ IF hub = "starting" THEN Goes(p, "startup")
               ELSE proc' = [proc EXCEPT ![p] = Idle] /\ UNCHANGED hub
       ELSE Ends(p, TRUE, FALSE)
    /\ UNCHANGED <<marker, anchors, kept, backup, restores, crashes, last>>

\* A reconciliation that records a commit it never archived.
After_Uncommitted(pc) ==
    CASE pc = "intent" -> "begin"
      [] pc = "again" -> "record"
      [] pc = "commit" -> "record"
      [] pc = "anchor" -> "activate"
      [] pc = "result" -> "finish"

\* The step that follows an archived record.
After(pc) ==
    CASE pc = "intent" -> "begin"
      [] pc = "again" -> "commit"
      [] pc = "commit" -> "record"
      [] pc = "anchor" -> "activate"
      [] pc = "result" -> "finish"

KindOf(pc) == IF pc = "again" THEN "intent" ELSE pc

ArchiveStep(p) ==
    /\ proc[p].pc \in Kinds \cup {"again"}
    /\ \/ Archive(p, KindOf(proc[p].pc), After(proc[p].pc))
       \/ ArchiveFails(p, KindOf(proc[p].pc))

-----------------------------------------------------------------------------
(* Startup, crashes, backups and restores *)

\* Startup: a recorded transition is taken up, then continuity is checked.
Startup(p) ==
    /\ hub = "down"
    /\ hub' = "starting"
    /\ proc' = [proc EXCEPT ![p] = [Idle EXCEPT !.c = db.pend,
                    !.pc = IF db.pend # NoChange THEN "read" ELSE "startup"]]
    /\ UNCHANGED <<db, marker, anchors, kept, backup, restores, crashes, last>>

\* Startup's CheckAnchor.
StartupCheckAnchor(p) ==
    /\ At(p, "startup")
    /\ \/ ValidateAnchor /\ Ends(p, FALSE, FALSE)
       \/ Ends(p, TRUE, TRUE)
    /\ UNCHANGED <<marker, anchors, kept, backup, restores, crashes, last>>

Crash ==
    /\ hub # "down" /\ crashes < MaxCrashes
    /\ hub' = "down"
    /\ proc' = [p \in Procs |-> Idle]
    /\ crashes' = crashes + 1
    /\ UNCHANGED <<db, marker, anchors, kept, backup, restores, last>>

\* The operator copies the database and the marker.
Backup ==
    /\ backup = <<>> /\ restores < MaxRestores
    /\ backup' = <<[db |-> db, marker |-> marker]>>
    /\ UNCHANGED <<db, marker, anchors, kept, hub, proc, restores, crashes, last>>

\* The operator restores the database, the marker, or both.
Restore ==
    /\ hub = "down" /\ backup # <<>> /\ restores < MaxRestores
    /\ \/ db' = backup[1].db /\ UNCHANGED marker
       \/ marker' = backup[1].marker /\ UNCHANGED db
       \/ db' = backup[1].db /\ marker' = backup[1].marker
    /\ backup' = <<>>
    /\ restores' = restores + 1
    /\ UNCHANGED <<anchors, kept, hub, proc, crashes, last>>

Next ==
    \/ \E c \in Changes : Approved(c)
    \/ \E p \in Procs, c \in Changes : Apply(p, c) \/ Reconcile(p, c)
    \/ \E p \in Procs :
        \/ ApplyCheckAnchor(p) \/ ApplyCheckAnchorFails(p) \/ BeginSecurityApply(p)
        \/ ReconcileRead(p) \/ ReconcileCheck(p) \/ ReconcileCheckFails(p)
        \/ ArchiveStep(p) \/ RecordSecurityCommit(p) \/ WriteMarker(p)
        \/ ActivateSecurityChange(p) \/ FinishSecurityChange(p) \/ GiveUp(p)
        \/ Startup(p) \/ StartupCheckAnchor(p)
    \/ Crash \/ Backup \/ Restore

Spec == Init /\ [][Next]_vars

-----------------------------------------------------------------------------

\* The shape of the state.
TypeOK ==
    /\ db.active \in 1..last /\ db.pend \in Changes \cup {NoChange}
    /\ db.st \in {"standard", "enhanced", "applying", "recovery_required"}
    /\ marker.ver \in 0..last /\ marker.pol \in Policies
    /\ hub \in {"down", "starting", "up"}
    /\ \A c \in Changes : db.chg[c].st \in {"none", "approved", "applying", "applied"}

\* docs/wiki/Architecture.md: "A database or enrollment marker rollback ... is
\* checked against the latest authenticated external anchor and fails closed
\* when it cannot reconcile."  Whenever the hub admits executions or
\* terminals (PolicyForExecution), the archive's latest anchor is that of the
\* version in force or of the change being applied on top of it, whatever
\* crashed or was restored before.
RollbackFailsClosed ==
    PolicyForExecution =>
        \/ anchors = <<>> /\ db.active = 1
        \/ AnchorIs(db.active, Active)
        \/ db.pend # NoChange /\ AnchorIs(Len(db.ver), db.ver[Len(db.ver)])

\* A version in force is evidenced outside the hub: intent, commit and anchor
\* of the change that made it, and for a finished change its result, are in the
\* archive, in the very copy the hub's database holds (ActivateSecurityChange,
\* FinishSecurityChange, SecurityEvidenceBytes).
ActivatedIsArchived ==
    /\ \A v \in 2..db.active : \A k \in {"intent", "commit", "anchor"} :
        LET c == db.ver[v].req IN kept[c][k] # 0 /\ db.ev[c][k] = kept[c][k]
    /\ \A c \in Changes : db.chg[c].st = "applied" =>
        kept[c]["result"] # 0 /\ db.ev[c]["result"] = kept[c]["result"]

\* There is one history of policies: no hub, however its database or marker
\* was rolled back, ever puts a version in force that is not the one anchored
\* under that number (ensureAnchor, checkPendingRecovery).
OneHistory ==
    \A v \in 2..db.active : v <= Len(anchors) + 1 /\ anchors[v - 1] = [req |-> db.ver[v].req, pol |-> db.ver[v].pol]

=============================================================================
