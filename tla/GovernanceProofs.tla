-------------------------- MODULE GovernanceProofs --------------------------
(***************************************************************************)
(* What the governance of a hub rests on, for any number of accounts,      *)
(* changes, records and concurrent requests: that a security change takes  *)
(* effect by the decision of two people (SecurityChanges), that a hub that *)
(* was set up is never left without an administrator (Accounts), and what  *)
(* a receipt of the protected archive is worth (AuditArchive).  The three  *)
(* components share no state; Accounts and AuditArchive are instances with *)
(* variables of their own.                                                 *)
(***************************************************************************)
EXTENDS SecurityChanges, FiniteSetTheorems, TLAPS

-----------------------------------------------------------------------------
(* The security changes *)

\* What is assumed of the constants.
ChangeConstants == Nobody \notin Users \cup Targets \cup Changes

Fields == {"st", "kind", "target", "arg", "exp", "by", "byPerson", "fresh", "votes", "applier",
           "applierFresh", "commit"}

\* A word whose giver changed is no longer marked as good: r is a change, l the
\* words lost for it.  Only words that were given are lost.
Marked(r, l) ==
    /\ DOMAIN r = Fields
    /\ r.fresh \in BOOLEAN /\ r.applierFresh \in BOOLEAN
    /\ IsFiniteSet(r.votes)
    /\ \A v \in r.votes : DOMAIN v = {"u", "person", "valid"} /\ v.valid \in BOOLEAN
    /\ r.st = "none" => l = {}
    /\ r.kind \notin {"policy", "bootstrap"} => r.target # Nobody
    /\ r.fresh => <<"request", r.by>> \notin l
    /\ r.applierFresh => <<"apply", r.applier>> \notin l
    /\ \A v \in r.votes : v.valid => <<"approve", v.u>> \notin l
    /\ \A w : <<"apply", w>> \in l => w = r.applier /\ w # Nobody
    /\ \A w : <<"approve", w>> \in l => \E v \in r.votes : v.u = w

ChangesInv ==
    /\ ChangeConstants
    /\ chg = [c \in Changes |-> chg[c]]
    /\ lost = [c \in Changes |-> lost[c]]
    /\ \A c \in Changes : Marked(chg[c], lost[c])

\* A change that nobody has asked for, or that is over.
LEMMA EmptyMarked ==
    ASSUME NEW state PROVE Marked([NoChange EXCEPT !.st = state], {}) /\ Marked(NoChange, {})
<1>1. IsFiniteSet({})
  BY FS_EmptySet, Zenon
<1>2. QED
  BY <1>1, Zenon DEF Marked, NoChange, Fields

\* The votes of the change r when the revision of u has advanced.
Voided(r, u) == {IF v.u = u THEN [v EXCEPT !.valid = FALSE] ELSE v : v \in r.votes}

\* The votes of an account whose revision advances stay, but are void.
LEMMA StaleVotes ==
    ASSUME NEW r, NEW l, Marked(r, l), NEW u, NEW votes, votes = Voided(r, u)
    PROVE  /\ IsFiniteSet(votes)
           /\ \A v \in votes : DOMAIN v = {"u", "person", "valid"} /\ v.valid \in BOOLEAN
           /\ \A v \in votes : v.valid => v \in r.votes /\ v.u # u
           /\ \A v \in r.votes : \E w \in votes : w.u = v.u
<1>. USE DEF Voided
<1>1. \A v \in r.votes : DOMAIN v = {"u", "person", "valid"} /\ v.valid \in BOOLEAN
  BY Zenon DEF Marked
<1>2. \A v \in r.votes : LET w == [v EXCEPT !.valid = FALSE]
                         IN DOMAIN w = {"u", "person", "valid"} /\ w.valid = FALSE /\ w.u = v.u
  BY <1>1, Zenon
<1>3. IsFiniteSet(votes)
  <2>1. IsFiniteSet(r.votes)
    BY Zenon DEF Marked
  <2>. DEFINE f == [v \in r.votes |-> IF v.u = u THEN [v EXCEPT !.valid = FALSE] ELSE v]
  <2>2. f \in Surjection(r.votes, votes)
    BY Zenon DEF Surjection
  <2>. HIDE DEF f
  <2>3. QED
    BY <2>1, <2>2, FS_Surjection, Zenon
<1>4. \A v \in votes : DOMAIN v = {"u", "person", "valid"} /\ v.valid \in BOOLEAN
  BY <1>1, <1>2, Zenon
<1>5. \A v \in votes : v.valid => v \in r.votes /\ v.u # u
  BY <1>1, <1>2, Zenon
<1>6. \A v \in r.votes : \E w \in votes : w.u = v.u
  BY <1>2, Zenon
<1>7. QED
  BY <1>3, <1>4, <1>5, <1>6, Zenon

\* An account's revision advances: every word it gave is taken as lost, and
\* none of them is marked as good (the triggers of migration 025).
LEMMA RevisedMarked ==
    ASSUME ChangesInv, NEW u, u # Nobody, Revised(chg, u)
    PROVE  ChangesInv'
<1>1. /\ chg' = [c \in Changes |-> chg'[c]] /\ lost' = [c \in Changes |-> lost'[c]]
  BY Zenon DEF Revised, Stale
<1>2. ASSUME NEW c \in Changes PROVE Marked(chg'[c], lost'[c])
  <2>. DEFINE r == chg[c]  l == lost[c]
              votes == Voided(r, u)
  <2>1. Marked(r, l)
    BY Zenon DEF ChangesInv
  <2>2. /\ IsFiniteSet(votes)
        /\ \A v \in votes : DOMAIN v = {"u", "person", "valid"} /\ v.valid \in BOOLEAN
        /\ \A v \in votes : v.valid => v \in r.votes /\ v.u # u
        /\ \A v \in r.votes : \E w \in votes : w.u = v.u
    <3>. HIDE DEF r, l
    <3>. QED
      BY <2>1, StaleVotes
  <2>3. chg'[c] = [r EXCEPT !.fresh = @ /\ r.by # u, !.applierFresh = @ /\ r.applier # u,
                            !.votes = votes]
    BY Zenon DEF Revised, Stale, Voided
  <2>4. lost'[c] = l \/ lost'[c] = l \cup {w \in TookPart(c) : w[2] = u}
    BY Zenon DEF Revised
  <2>5. Open(c) \/ lost'[c] = l
    BY Zenon DEF Revised
  <2>6. /\ \A w : <<"request", w>> \in lost'[c] => <<"request", w>> \in l \/ w = u
        /\ \A w : <<"apply", w>> \in lost'[c] =>
                <<"apply", w>> \in l \/ (w = u /\ w = r.applier)
        /\ \A w : <<"approve", w>> \in lost'[c] =>
                <<"approve", w>> \in l \/ (w = u /\ \E v \in r.votes : v.u = w)
    BY <2>4, Zenon DEF TookPart
  <2>7. r.st = "none" => lost'[c] = l
    BY <2>5, Zenon DEF Open
  <2>8. /\ DOMAIN chg'[c] = Fields
        /\ chg'[c].fresh = (r.fresh /\ r.by # u) /\ chg'[c].by = r.by
        /\ chg'[c].applierFresh = (r.applierFresh /\ r.applier # u)
        /\ chg'[c].applier = r.applier /\ chg'[c].votes = votes /\ chg'[c].st = r.st
        /\ chg'[c].kind = r.kind /\ chg'[c].target = r.target
    <3>. HIDE DEF r, votes
    <3>. QED
      BY <2>1, <2>3, Zenon DEF Marked, Fields
  <2>. HIDE DEF r, l, votes
  <2>9. /\ DOMAIN chg'[c] = Fields
        /\ chg'[c].fresh \in BOOLEAN /\ chg'[c].applierFresh \in BOOLEAN
        /\ IsFiniteSet(chg'[c].votes)
        /\ \A v \in chg'[c].votes : DOMAIN v = {"u", "person", "valid"} /\ v.valid \in BOOLEAN
    BY <2>1, <2>2, <2>8, Zenon DEF Marked
  <2>10. /\ chg'[c].st = "none" => lost'[c] = {}
         /\ chg'[c].kind \notin {"policy", "bootstrap"} => chg'[c].target # Nobody
    BY <2>1, <2>7, <2>8, Zenon DEF Marked
  <2>11. /\ chg'[c].fresh => <<"request", chg'[c].by>> \notin lost'[c]
         /\ chg'[c].applierFresh => <<"apply", chg'[c].applier>> \notin lost'[c]
         /\ \A w : <<"apply", w>> \in lost'[c] => w = chg'[c].applier /\ w # Nobody
    BY <2>1, <2>6, <2>8, Zenon DEF Marked
  <2>12. \A v \in votes : v.valid => <<"approve", v.u>> \notin lost'[c]
    BY <2>1, <2>2, <2>6, Zenon DEF Marked
  <2>13. \A w : <<"approve", w>> \in lost'[c] => \E v \in votes : v.u = w
    BY <2>1, <2>2, <2>6 DEF Marked
  <2>14. QED
    BY <2>8, <2>9, <2>10, <2>11, <2>12, <2>13, Zenon DEF Marked
<1>3. QED
  BY <1>1, <1>2, Zenon DEF ChangesInv, ChangeConstants

\* The bootstrap takes effect: it revises every account, so that no word given
\* before counts for a change that is still open (applySecurityPayload).
LEMMA BootstrapMarked ==
    ASSUME ChangesInv, UNCHANGED lost,
           chg' = [d \in Changes |-> [chg[d] EXCEPT !.fresh = FALSE, !.applierFresh = FALSE,
                              !.votes = {[v EXCEPT !.valid = FALSE] : v \in @}]]
    PROVE  ChangesInv'
<1>1. ASSUME NEW c \in Changes PROVE Marked(chg'[c], lost[c])
  <2>. DEFINE r == chg[c]
              votes == {[v EXCEPT !.valid = FALSE] : v \in r.votes}
              f == [v \in r.votes |-> [v EXCEPT !.valid = FALSE]]
  <2>1. Marked(r, lost[c])
    BY Zenon DEF ChangesInv
  <2>2. IsFiniteSet(r.votes) /\ \A v \in r.votes : DOMAIN v = {"u", "person", "valid"}
    <3>. HIDE DEF r
    <3>. QED
      BY <2>1, Zenon DEF Marked
  <2>3. f \in Surjection(r.votes, votes)
    BY Zenon DEF Surjection
  <2>4. IsFiniteSet(votes)
    <3>. HIDE DEF f, r, votes
    <3>. QED
      BY <2>2, <2>3, FS_Surjection, Zenon
  <2>5. \A v \in r.votes : LET w == [v EXCEPT !.valid = FALSE]
                           IN DOMAIN w = {"u", "person", "valid"} /\ w.valid = FALSE /\ w.u = v.u
    <3>. HIDE DEF r
    <3>. QED
      BY <2>2, Zenon
  <2>6. /\ \A v \in votes : DOMAIN v = {"u", "person", "valid"} /\ v.valid = FALSE
        /\ \A v \in r.votes : \E w \in votes : w.u = v.u
    <3>. HIDE DEF r
    <3>. QED
      BY <2>5, Zenon
  <2>7. chg'[c] = [r EXCEPT !.fresh = FALSE, !.applierFresh = FALSE, !.votes = votes]
    BY Zenon
  <2>8. /\ DOMAIN chg'[c] = Fields /\ ~chg'[c].fresh /\ ~chg'[c].applierFresh
        /\ chg'[c].fresh \in BOOLEAN /\ chg'[c].applierFresh \in BOOLEAN
        /\ chg'[c].applier = r.applier /\ chg'[c].votes = votes /\ chg'[c].st = r.st
        /\ chg'[c].kind = r.kind /\ chg'[c].target = r.target
    <3>. HIDE DEF r, votes
    <3>. QED
      BY <2>1, <2>7, Zenon DEF Marked, Fields
  <2>. HIDE DEF r, votes
  <2>9. \A v \in votes : DOMAIN v = {"u", "person", "valid"} /\ v.valid \in BOOLEAN
    BY <2>6, Zenon
  <2>10. /\ r.st = "none" => lost[c] = {}
         /\ r.kind \notin {"policy", "bootstrap"} => r.target # Nobody
         /\ \A w : <<"apply", w>> \in lost[c] => w = r.applier /\ w # Nobody
    BY <2>1, Zenon DEF Marked
  <2>11. \A w : <<"approve", w>> \in lost[c] => \E v \in votes : v.u = w
    <3>1. \A w : <<"approve", w>> \in lost[c] => \E v \in r.votes : v.u = w
      BY <2>1, Zenon DEF Marked
    <3>2. \A v \in r.votes : \E w \in votes : w.u = v.u
      BY <2>6, Zenon
    <3>. HIDE DEF r, votes
    <3>3. QED
      BY <3>1, <3>2, Zenon
  <2>12. \A v \in votes : ~v.valid
    BY <2>6, Zenon
  <2>13. QED
    BY <2>4, <2>8, <2>9, <2>10, <2>11, <2>12, Zenon DEF Marked
<1>2. QED
  BY <1>1, Zenon DEF ChangesInv, ChangeConstants

\* A step that touches one change leaves the others as they were.
LEMMA OneChanged ==
    ASSUME ChangesInv, NEW c \in Changes, Marked(chg'[c], lost'[c]),
           chg' = [chg EXCEPT ![c] = chg'[c]], lost' = [lost EXCEPT ![c] = lost'[c]]
    PROVE  ChangesInv'
<1>1. chg' = [d \in Changes |-> chg'[d]] /\ lost' = [d \in Changes |-> lost'[d]]
  BY Zenon DEF ChangesInv
<1>2. ASSUME NEW d \in Changes PROVE Marked(chg'[d], lost'[d])
  <2>1. CASE d = c
    BY <2>1, Zenon
  <2>2. CASE d # c
    <3>1. chg'[d] = chg[d] /\ lost'[d] = lost[d] /\ Marked(chg[d], lost[d])
      BY <2>2, Zenon DEF ChangesInv
    <3>2. QED
      BY <3>1, Zenon
  <2>3. QED
    BY <2>1, <2>2, Zenon
<1>3. QED
  BY <1>1, <1>2, Zenon DEF ChangesInv, ChangeConstants

\* Every step keeps the marks true: what Request, Approve, Claim and the
\* transactions write, and the triggers that fire on the accounts.
LEMMA ChangesKeep == ChangesInv /\ [Next]_vars => ChangesInv'
<1>. SUFFICES ASSUME ChangesInv, [Next]_vars PROVE ChangesInv'
  BY Zenon
<1>a. /\ ChangeConstants /\ chg = [c \in Changes |-> chg[c]] /\ lost = [c \in Changes |-> lost[c]]
      /\ \A c \in Changes : Marked(chg[c], lost[c])
  BY Zenon DEF ChangesInv
<1>1. CASE chg' = chg /\ lost' = lost
  BY <1>1, Zenon DEF ChangesInv, ChangeConstants
<1>2. ASSUME NEW u \in Users, AccountFalls(u) \/ AccountRecovers(u) PROVE ChangesInv'
  BY <1>2, <1>a, RevisedMarked, Zenon DEF AccountFalls, AccountRecovers, ChangeConstants
<1>3. ASSUME NEW u \in Users, NEW c \in Changes, NEW p, NEW person,
             p.kind \notin {"policy", "bootstrap"} => p.target # Nobody,
             chg' = [chg EXCEPT ![c] = Requested(c, u, p, person)], chg[c].st = "none", lost' = lost
      PROVE  ChangesInv'
  <2>1. Marked(Requested(c, u, p, person), {})
    BY <1>3, FS_EmptySet, Zenon DEF Marked, Requested, NoChange, Fields
  <2>2. lost[c] = {}
    BY <1>3, <1>a, Zenon DEF Marked
  <2>3. /\ chg'[c] = Requested(c, u, p, person) /\ chg' = [chg EXCEPT ![c] = chg'[c]]
        /\ lost'[c] = {} /\ lost' = [lost EXCEPT ![c] = lost'[c]]
    BY <1>3, <1>a, <2>2, Zenon
  <2>4. QED
    BY <2>1, <2>3, OneChanged, Zenon
<1>4. ASSUME NEW u \in Users, NEW c \in Changes, RequestBootstrap(c, u) PROVE ChangesInv'
  <2>. DEFINE p == [kind |-> "bootstrap", target |-> Nobody, arg |-> Nobody]
  <2>1. p.kind \notin {"policy", "bootstrap"} => p.target # Nobody
    BY Zenon
  <2>2. /\ chg' = [chg EXCEPT ![c] = Requested(c, u, p, PersonOf[u])]
        /\ chg[c].st = "none" /\ lost' = lost
    BY <1>4, Zenon DEF RequestBootstrap
  <2>. HIDE DEF p
  <2>3. QED
    BY <2>1, <2>2, <1>3, Zenon
<1>5. ASSUME NEW u \in Users, NEW c \in Changes, RequestChange(c, u) PROVE ChangesInv'
  <2>1. PICK p \in Proposals : chg' = [chg EXCEPT ![c] = Requested(c, u, p, user[u].person)]
    BY <1>5, Zenon DEF RequestChange
  <2>2. p.kind \notin {"policy", "bootstrap"} => p.target # Nobody
    BY <1>a, Zenon DEF Proposals, ChangeConstants
  <2>3. chg[c].st = "none" /\ lost' = lost
    BY <1>5, Zenon DEF RequestChange
  <2>4. QED
    BY <2>1, <2>2, <2>3, <1>3, Zenon
<1>6. ASSUME NEW u \in Users, NEW c \in Changes, Approve(c, u) PROVE ChangesInv'
  <2>. DEFINE vote == [u |-> u, person |-> PersonFor(c, u), valid |-> TRUE]
              votes == chg[c].votes \cup {vote}
  <2>1. Marked(chg[c], lost[c])
    BY <1>a, Zenon
  <2>2. /\ DOMAIN vote = {"u", "person", "valid"} /\ vote.valid \in BOOLEAN /\ vote.u = u
    BY Zenon
  <2>3. IsFiniteSet(votes)
    BY <2>1, FS_AddElement, Zenon DEF Marked
  <2>4. /\ chg' = [chg EXCEPT ![c].votes = votes,
                    ![c].st = IF Cardinality({v \in votes : v.valid}) >= 2
                              THEN "approved" ELSE "partially_approved"]
        /\ lost' = lost /\ \A v \in chg[c].votes : v.u # u
    BY <1>6, Zenon DEF Approve, Independent
  <2>. HIDE DEF vote
  <2>5. /\ DOMAIN chg'[c] = Fields
        /\ chg'[c].fresh = chg[c].fresh /\ chg'[c].by = chg[c].by
        /\ chg'[c].applierFresh = chg[c].applierFresh /\ chg'[c].applier = chg[c].applier
        /\ chg'[c].votes = votes /\ chg'[c].st # "none"
        /\ chg'[c].kind = chg[c].kind /\ chg'[c].target = chg[c].target
        /\ chg' = [chg EXCEPT ![c] = chg'[c]]
    <3>. HIDE DEF votes
    <3>. QED
      BY <2>1, <2>4, <1>a, Zenon DEF Marked, Fields
  <2>6. <<"approve", u>> \notin lost[c]
    BY <2>1, <2>4, Zenon DEF Marked
  <2>7. Marked(chg'[c], lost[c])
    BY <2>1, <2>2, <2>3, <2>5, <2>6, Zenon DEF Marked
  <2>8. lost'[c] = lost[c] /\ lost' = [lost EXCEPT ![c] = lost'[c]]
    BY <2>4, <1>a, Zenon
  <2>9. QED
    BY <2>5, <2>7, <2>8, OneChanged, Zenon
<1>7. ASSUME NEW u \in Users, NEW c \in Changes, ClaimSecurityApplier(c, u) PROVE ChangesInv'
  <2>1. Marked(chg[c], lost[c]) /\ u # Nobody
    BY <1>a, Zenon DEF ChangeConstants
  <2>2. /\ chg' = [chg EXCEPT ![c].applier = u, ![c].applierFresh = TRUE] /\ lost' = lost
        /\ chg[c].applier = Nobody \/ (chg[c].applier = u /\ chg[c].applierFresh)
    BY <1>7, Zenon DEF ClaimSecurityApplier
  <2>3. /\ DOMAIN chg'[c] = Fields
        /\ chg'[c].fresh = chg[c].fresh /\ chg'[c].by = chg[c].by
        /\ chg'[c].applierFresh = TRUE /\ chg'[c].applier = u
        /\ chg'[c].votes = chg[c].votes /\ chg'[c].st = chg[c].st
        /\ chg'[c].kind = chg[c].kind /\ chg'[c].target = chg[c].target
        /\ chg' = [chg EXCEPT ![c] = chg'[c]]
    BY <2>1, <2>2, <1>a, Zenon DEF Marked, Fields
  <2>4. \A w : <<"apply", w>> \notin lost[c]
    BY <2>1, <2>2, Zenon DEF Marked
  <2>5. Marked(chg'[c], lost[c])
    <3>1. chg'[c].fresh \in BOOLEAN /\ chg'[c].applierFresh \in BOOLEAN
      BY <2>1, <2>3, Zenon DEF Marked
    <3>2. QED
      BY <2>1, <2>3, <2>4, <3>1, Zenon DEF Marked
  <2>6. lost'[c] = lost[c] /\ lost' = [lost EXCEPT ![c] = lost'[c]]
    BY <2>2, <1>a, Zenon
  <2>7. QED
    BY <2>3, <2>5, <2>6, OneChanged, Zenon
<1>8. ASSUME NEW c \in Changes, BeginSecurityApply(c) \/ RecordSecurityCommit(c) PROVE ChangesInv'
  <2>1. Marked(chg[c], lost[c])
    BY <1>a, Zenon
  <2>2. /\ chg' = [chg EXCEPT ![c].st = "applying"] \/ chg' = [chg EXCEPT ![c].commit = TRUE]
        /\ lost' = lost
    BY <1>8, Zenon DEF BeginSecurityApply, RecordSecurityCommit
  <2>3. /\ DOMAIN chg'[c] = Fields
        /\ chg'[c].fresh = chg[c].fresh /\ chg'[c].by = chg[c].by
        /\ chg'[c].applierFresh = chg[c].applierFresh /\ chg'[c].applier = chg[c].applier
        /\ chg'[c].votes = chg[c].votes /\ (chg'[c].st = "none" => chg[c].st = "none")
        /\ chg'[c].kind = chg[c].kind /\ chg'[c].target = chg[c].target
        /\ chg' = [chg EXCEPT ![c] = chg'[c]]
    BY <2>1, <2>2, <1>a DEF Marked, Fields
  <2>4. Marked(chg'[c], lost[c])
    BY <2>1, <2>3, Zenon DEF Marked
  <2>5. lost'[c] = lost[c] /\ lost' = [lost EXCEPT ![c] = lost'[c]]
    BY <2>2, <1>a, Zenon
  <2>6. QED
    BY <2>3, <2>4, <2>5, OneChanged, Zenon
<1>9. ASSUME NEW c \in Changes, ActivateSecurityChange(c) PROVE ChangesInv'
  <2>. DEFINE k == chg[c].kind
  <2>1. CASE k = "bootstrap"
    BY <1>9, <2>1, BootstrapMarked, Zenon DEF ActivateSecurityChange, ApplySecurityPayload
  <2>2. CASE k = "policy"
    BY <1>9, <2>2, <1>1, Zenon DEF ActivateSecurityChange, ApplySecurityPayload
  <2>3. CASE k \notin {"policy", "bootstrap"}
    <3>1. chg[c].target # Nobody
      BY <2>3, <1>a, Zenon DEF Marked
    <3>2. Revised(chg, chg[c].target) \/ (chg' = chg /\ lost' = lost)
      BY <1>9, <2>3, Zenon DEF ActivateSecurityChange, ApplySecurityPayload
    <3>3. QED
      BY <3>1, <3>2, <1>1, RevisedMarked, Zenon
  <2>4. QED
    BY <2>1, <2>2, <2>3, Zenon
<1>10. ASSUME NEW c \in Changes, FinishSecurityChange(c) \/ ExpireSecurityChanges(c)
       PROVE  ChangesInv'
  <2>1. PICK state : chg' = [chg EXCEPT ![c] = [NoChange EXCEPT !.st = state]]
                     /\ lost' = [lost EXCEPT ![c] = {}]
    BY <1>10, Zenon DEF FinishSecurityChange, ExpireSecurityChanges, Closed
  <2>2. Marked([NoChange EXCEPT !.st = state], {})
    BY EmptyMarked, Zenon
  <2>3. /\ chg'[c] = [NoChange EXCEPT !.st = state] /\ chg' = [chg EXCEPT ![c] = chg'[c]]
        /\ lost'[c] = {} /\ lost' = [lost EXCEPT ![c] = lost'[c]]
    BY <2>1, <1>a, Zenon
  <2>4. QED
    BY <2>2, <2>3, OneChanged, Zenon
<1>11. ASSUME NEW u \in Users, ProofExpires(u) PROVE ChangesInv'
  BY <1>11, <1>1, Zenon DEF ProofExpires
<1>12. ASSUME NEW u \in Users, NEW c \in Changes, NEW action, Stepup(u, action, c)
       PROVE  ChangesInv'
  BY <1>12, <1>1, Zenon DEF Stepup
<1>13. CASE UNCHANGED vars
  BY <1>13, <1>1, Zenon DEF vars
<1>14. QED
  BY <1>2, <1>4, <1>5, <1>6, <1>7, <1>8, <1>9, <1>10, <1>11, <1>12, <1>13, Zenon DEF Next

\* Two of a finite set that has at least two.
LEMMA TwoOf ==
    ASSUME NEW S, IsFiniteSet(S), Cardinality(S) >= 2
    PROVE  \E v, w \in S : v # w
<1>1. S # {}
  BY FS_EmptySet
<1>2. PICK v \in S : TRUE
  BY <1>1, Zenon
<1>3. S # {v}
  BY FS_Singleton
<1>4. \E w \in S : w # v
  BY <1>2, <1>3, Zenon
<1>5. QED
  BY <1>2, <1>4, Zenon

\* A finite set with two elements has at least two.
LEMMA TwoIn ==
    ASSUME NEW S, IsFiniteSet(S), NEW a \in S, NEW b \in S, a # b
    PROVE  Cardinality(S) >= 2
<1>1. IsFiniteSet({a}) /\ Cardinality({a}) = 1
  BY FS_Singleton, Zenon
<1>2. IsFiniteSet({a} \cup {b}) /\ Cardinality({a} \cup {b}) = 2
  <2>1. b \notin {a}
    BY Zenon
  <2>2. Cardinality({a} \cup {b}) = IF b \in {a} THEN Cardinality({a}) ELSE Cardinality({a}) + 1
    BY <1>1, FS_AddElement, Zenon
  <2>3. IsFiniteSet({a} \cup {b})
    BY <1>1, FS_AddElement, Zenon
  <2>4. QED
    BY <1>1, <2>1, <2>2, <2>3
<1>3. Cardinality({a} \cup {b}) <= Cardinality(S)
  BY FS_Subset, Zenon
<1>4. Cardinality(S) \in Nat
  BY FS_CardinalityType, Zenon
<1>5. QED
  BY <1>2, <1>3, <1>4, Zenon

\* What ActivateSecurityChange checks again is enough: the votes still marked
\* are votes of people who stand by them, and they are two people besides the
\* requester (validateSecurityQuorumConn).
LEMMA QuorumStands ==
    ASSUME ChangesInv, NEW c \in Changes, Endorsed(c)
    PROVE  /\ <<"request", chg[c].by>> \notin lost[c]
           /\ <<"apply", chg[c].applier>> \notin lost[c]
           /\ LET standing == {v \in chg[c].votes : <<"approve", v.u>> \notin lost[c]}
              IN Cardinality({PersonFor(c, v.u) : v \in standing}
                               \ {PersonFor(c, chg[c].by)}) >= 2
<1>. DEFINE standing == {v \in chg[c].votes : <<"approve", v.u>> \notin lost[c]}
            people == {PersonFor(c, v.u) : v \in standing}
            requester == PersonFor(c, chg[c].by)
<1>1. Marked(chg[c], lost[c])
  BY Zenon DEF ChangesInv
<1>2. chg[c].applierFresh /\ ValidateSecurityQuorum(c)
  BY Zenon DEF Endorsed, Applier, CheckSecurityPrincipal
<1>3. chg[c].fresh /\ chg[c].byPerson = requester
  BY <1>2, Zenon DEF ValidateSecurityQuorum, CheckSecurityPrincipal, PersonFor
<1>4. Valid(c) \subseteq standing /\ standing \subseteq chg[c].votes
  BY <1>1, Zenon DEF Marked, Valid
<1>5. IsFiniteSet(standing) /\ IsFiniteSet(Valid(c))
  BY <1>1, <1>4, FS_Subset, Zenon DEF Marked
<1>6. PICK v, w \in Valid(c) : v # w
  BY <1>2, <1>5, TwoOf, Zenon DEF ValidateSecurityQuorum
<1>7. \A x \in Valid(c) : x.person # chg[c].byPerson /\ x.person = PersonFor(c, x.u)
  BY <1>2, Zenon DEF ValidateSecurityQuorum, CheckSecurityPrincipal, PersonFor
<1>8. v.person # w.person
  BY <1>2, <1>6, Zenon DEF ValidateSecurityQuorum
<1>9. IsFiniteSet(people)
  <2>. DEFINE f == [x \in standing |-> PersonFor(c, x.u)]
  <2>1. f \in Surjection(standing, people)
    BY Zenon DEF Surjection
  <2>. HIDE DEF f, people, standing
  <2>2. QED
    BY <1>5, <2>1, FS_Surjection, Zenon
<1>10. IsFiniteSet(people \ {requester})
  <2>. HIDE DEF people, requester
  <2>. QED
    BY <1>9, FS_Subset, Zenon
<1>11. v.person \in people \ {requester} /\ w.person \in people \ {requester}
  <2>. HIDE DEF standing, requester
  <2>. QED
    BY <1>3, <1>4, <1>6, <1>7, Zenon
<1>12. Cardinality(people \ {requester}) >= 2
  <2>. HIDE DEF people, requester
  <2>. QED
    BY <1>8, <1>10, <1>11, TwoIn, Zenon
<1>13. QED
  BY <1>1, <1>2, <1>3, <1>12, Zenon DEF Marked

\* A change takes effect only on the word of people who still stand by it: of
\* every step of ActivateSecurityChange, whatever happened to the accounts in
\* the meantime and however many changes are open (validateSecurityQuorumConn,
\* checkSecurityPrincipal, the triggers of migration 025).
THEOREM QuorumDecides == ChangeConstants /\ Spec => [][DecidedByQuorum]_vars
<1>1. ChangeConstants /\ Init => ChangesInv
  <2>. SUFFICES ASSUME ChangeConstants, Init PROVE ChangesInv
    BY Zenon
  <2>1. /\ chg = [c \in Changes |-> NoChange] /\ lost = [c \in Changes |-> {}]
    BY Zenon DEF Init
  <2>2. Marked(NoChange, {})
    BY EmptyMarked, Zenon
  <2>3. QED
    BY <2>1, <2>2, Zenon DEF ChangesInv
<1>2. ChangesInv /\ [Next]_vars => [DecidedByQuorum]_vars
  <2>. SUFFICES ASSUME ChangesInv, [Next]_vars, active' # active PROVE DecidedByQuorum
    BY Zenon DEF DecidedByQuorum, vars
  <2>1. PICK c \in Changes : ActivateSecurityChange(c)
    <3>1. Next
      BY Zenon DEF vars
    <3>2. \A u \in Users : ~AccountFalls(u) /\ ~AccountRecovers(u) /\ ~ProofExpires(u)
      BY Zenon DEF AccountFalls, AccountRecovers, ProofExpires
    <3>3. ASSUME NEW u \in Users, NEW c \in Changes
          PROVE  /\ \A action \in {"request", "approve", "apply"} : ~Stepup(u, action, c)
                 /\ ~RequestBootstrap(c, u) /\ ~RequestChange(c, u)
                 /\ ~Approve(c, u) /\ ~ClaimSecurityApplier(c, u)
      <4>1. \A action \in {"request", "approve", "apply"} : ~Stepup(u, action, c)
        BY Zenon DEF Stepup
      <4>2. ~RequestBootstrap(c, u) /\ ~RequestChange(c, u)
        BY Zenon DEF RequestBootstrap, RequestChange
      <4>3. ~Approve(c, u) /\ ~ClaimSecurityApplier(c, u)
        BY Zenon DEF Approve, ClaimSecurityApplier
      <4>4. QED
        BY <4>1, <4>2, <4>3, Zenon
    <3>4. \A c \in Changes :
            /\ ~BeginSecurityApply(c) /\ ~RecordSecurityCommit(c)
            /\ ~FinishSecurityChange(c) /\ ~ExpireSecurityChanges(c)
      BY Zenon
      DEF BeginSecurityApply, RecordSecurityCommit, FinishSecurityChange, ExpireSecurityChanges
    <3>5. QED
      BY <3>1, <3>2, <3>3, <3>4, Zenon DEF Next
  <2>2. pend = c /\ active = chg[c].exp /\ Endorsed(c) /\ pend # Nobody
    BY <2>1, Zenon DEF ActivateSecurityChange, ChangesInv, ChangeConstants
  <2>3. QED
    BY <2>2, QuorumStands, Zenon DEF DecidedByQuorum
<1>3. QED
  BY <1>1, <1>2, ChangesKeep, PTL DEF Spec

-----------------------------------------------------------------------------
(* The administrators *)

CONSTANTS Ids,
          Callers       \* the Requests of Accounts

VARIABLES acct, complete, reg, protected,
          asked         \* its req

People == INSTANCE Accounts WITH Requests <- Callers, req <- asked

Enabled(u) == People!There(u) /\ acct[u].role = "admin" /\ ~acct[u].disabled
Signed(u) == Enabled(u) /\ acct[u].on

\* A registration is between its first check and its answer.
Founding == \E v \in Ids : reg[v] \in {"cleanup", "create", "count"}

\* Authority that is fresh is somebody's.
FreshIsSomeone == \A r \in Callers : asked[r].fresh => asked[r].actor \in Ids

\* Before the set-up is complete there are only founders who have no
\* authenticator yet; afterwards there is an administrator, and one with an
\* authenticator while a registration that began before is still under way.
Administrated ==
  /\ ~complete => \A u \in Ids : People!There(u) => Enabled(u) /\ ~acct[u].on
  /\ complete => \E u \in Ids : Enabled(u)
  /\ complete /\ Founding => \E u \in Ids : Signed(u)

\* How far a registration is tells what has become of its account.
Registered ==
  \A u \in Ids :
    /\ reg[u] \in {"cleanup", "create"} => acct[u].state = "none"
    /\ reg[u] \in {"count", "answered"} => acct[u].state # "none"
    /\ reg[u] = "count" => ~acct[u].on

PeopleInv == People!TypeOK /\ FreshIsSomeone /\ Administrated /\ Registered /\ People!OneFounder

\* The hub starts without accounts, or with administrators.
LEMMA PeopleInit == (Ids # {} /\ People!Init) => PeopleInv
<1> SUFFICES ASSUME Ids # {}, People!Init PROVE PeopleInv
  BY Zenon
<1>1. People!TypeOK
  <2>1. People!NoAccount \in People!Accounts
    BY Zenon DEF People!NoAccount, People!Accounts
  <2>2. People!Administrator \in People!Accounts
    BY Zenon DEF People!Administrator, People!NoAccount, People!Accounts
  <2>3. People!Idle \in [actor : Ids \cup {"none"}, fresh : BOOLEAN]
    BY Zenon DEF People!Idle
  <2>4. QED
    BY <2>1, <2>2, <2>3, Zenon DEF People!Init, People!TypeOK
<1>2. FreshIsSomeone
  BY Zenon DEF People!Init, FreshIsSomeone, People!Idle
<1>3. Administrated
  <2>1. /\ People!Administrator.state = "there" /\ People!Administrator.role = "admin"
        /\ People!Administrator.on = TRUE /\ People!Administrator.disabled = FALSE /\ People!NoAccount.state = "none"
    BY Zenon DEF People!Administrator, People!NoAccount
  <2>2. ~Founding
    BY Zenon DEF People!Init, Founding
  <2>3. PICK w \in Ids : TRUE
    BY Zenon
  <2>4. complete => Enabled(w)
    BY <2>1, Zenon DEF People!Init, Enabled, People!There
  <2>5. ~complete => \A u \in Ids : ~People!There(u)
    BY <2>1, Zenon DEF People!Init, People!There
  <2>6. QED
    BY <2>2, <2>4, <2>5, Zenon DEF Administrated
<1>4. Registered /\ People!OneFounder
  BY Zenon DEF People!Init, Registered, People!OneFounder
<1>5. QED
  BY <1>1, <1>2, <1>3, <1>4, Zenon DEF PeopleInv

\* A change of an account voids authority and gives nobody any.
LEMMA ChangeKeepsRequests ==
  ASSUME People!TypeOK, FreshIsSomeone, NEW u,
         asked' = [r \in Callers |-> [asked[r] EXCEPT !.fresh = @ /\ asked[r].actor # u]]
  PROVE  /\ asked' \in [Callers -> [actor : Ids \cup {"none"}, fresh : BOOLEAN]]
         /\ FreshIsSomeone'
<1>1. \A r \in Callers : asked[r] \in [actor : Ids \cup {"none"}, fresh : BOOLEAN]
  BY Zenon DEF People!TypeOK
<1>2. \A r \in Callers : /\ asked'[r].actor = asked[r].actor
                          /\ asked'[r].fresh = (asked[r].fresh /\ asked[r].actor # u)
                          /\ asked'[r] \in [actor : Ids \cup {"none"}, fresh : BOOLEAN]
  BY <1>1, Zenon
<1>3. QED
  BY <1>2, Zenon DEF FreshIsSomeone

\* Whoever passes guardAccountManagementActor is an enabled administrator with
\* an authenticator, so the set-up is complete.
LEMMA ActorIsSigned ==
  ASSUME PeopleInv, NEW r \in Callers, People!ActorCurrent(r)
  PROVE  complete /\ asked[r].actor \in Ids /\ Signed(asked[r].actor)
<1>1. asked[r].actor \in Ids
  BY Zenon DEF PeopleInv, FreshIsSomeone, People!ActorCurrent
<1>2. Signed(asked[r].actor)
  BY Zenon DEF People!ActorCurrent, People!Administers, Signed, Enabled
<1>3. complete
  BY <1>1, <1>2, Zenon DEF PeopleInv, Administrated, Signed, Enabled, People!TypeOK
<1>4. QED
  BY <1>1, <1>2, <1>3, Zenon

\* One account is rewritten while an administrator with an authenticator stays.
LEMMA Rewrite ==
  ASSUME PeopleInv, complete, NEW t \in Ids, NEW res \in People!Accounts,
         acct' = [acct EXCEPT ![t] = res],
         \/ People!There(t) /\ res.state # "none" /\ (res.on => acct[t].on)
         \/ reg[t] = "none",
         \E u \in Ids : Signed(u)',
         asked' \in [Callers -> [actor : Ids \cup {"none"}, fresh : BOOLEAN]],
         FreshIsSomeone',
         UNCHANGED <<complete, reg, protected>>
  PROVE  PeopleInv'
<1>1. People!TypeOK'
  BY Zenon DEF PeopleInv, People!TypeOK
<1>2. \A u \in Ids : acct'[u] = IF u = t THEN res ELSE acct[u]
  BY Zenon DEF PeopleInv, People!TypeOK
<1>3. Administrated'
  BY Zenon DEF Administrated, Signed
<1>4. Registered'
  BY <1>2 DEF PeopleInv, Registered, People!There
<1>5. People!OneFounder'
  BY <1>2 DEF PeopleInv, People!OneFounder, People!There
<1>6. QED
  BY <1>1, <1>3, <1>4, <1>5, Zenon DEF PeopleInv

\* An administrator's transaction on another account, or on one it leaves an
\* administrator: the caller remains.
LEMMA ByAdministrator ==
  ASSUME PeopleInv, NEW r \in Callers, NEW t \in Ids, NEW res \in People!Accounts,
         People!Write(r, t, res) \/ People!Note(r, t, res),
         \/ People!There(t) /\ res.state # "none" /\ (res.on => acct[t].on)
         \/ reg[t] = "none",
         \/ asked[r].actor # t
         \/ People!There(t) => /\ res.state = "there" /\ res.role = acct[t].role
                        /\ res.disabled = acct[t].disabled /\ res.on = acct[t].on
  PROVE  PeopleInv'
<1>1. complete /\ asked[r].actor \in Ids /\ Signed(asked[r].actor)
  BY ActorIsSigned, Zenon DEF People!Write, People!Note
<1>2. acct' = [acct EXCEPT ![t] = res] /\ UNCHANGED <<complete, reg, protected>>
  BY Zenon DEF People!Write, People!Note, People!Change
<1>3. PICK a \in Ids : a = asked[r].actor
  BY <1>1, Zenon
<1>4. Signed(a)'
  BY <1>1, <1>2, <1>3, Zenon DEF Signed, Enabled, People!There, PeopleInv, People!TypeOK
<1>5. /\ asked' \in [Callers -> [actor : Ids \cup {"none"}, fresh : BOOLEAN]]
      /\ FreshIsSomeone'
  <2>1. CASE People!Write(r, t, res)
    BY <2>1, ChangeKeepsRequests, Zenon DEF People!Write, People!Change, PeopleInv
  <2>2. CASE People!Note(r, t, res)
    BY <2>2, Zenon DEF People!Note, PeopleInv, People!TypeOK, FreshIsSomeone
  <2>3. QED
    BY <2>1, <2>2, Zenon
<1>6. QED
  BY <1>1, <1>2, <1>4, <1>5, Rewrite, Zenon

-----------------------------------------------------------------------------
\* The transactions of administrators keep the invariant.
LEMMA AdministratorsKeep ==
  ASSUME PeopleInv, NEW r \in Callers, NEW t \in Ids,
         \/ People!UpdateUserRole(r, t) \/ People!DeleteUser(r, t) \/ People!DisableUser(r, t)
         \/ People!EnableUser(r, t) \/ People!UnlockUser(r, t) \/ People!ReactivateUser(r, t)
         \/ People!SetDormancyExempt(r, t) \/ People!ResetLocalPassword(r, t)
         \/ People!DisableUserTOTP(r, t) \/ People!CreateUser(r, t)
  PROVE  PeopleInv'
<1>1. acct[t] \in People!Accounts
  BY Zenon DEF PeopleInv, People!TypeOK
<1>2. ASSUME People!UpdateUserRole(r, t) PROVE PeopleInv'
  <2>1. CASE People!Write(r, t, [acct[t] EXCEPT !.role = "admin"])
    <3>1. [acct[t] EXCEPT !.role = "admin"] \in People!Accounts
      BY <1>1, Zenon DEF People!Accounts
    <3>2. QED
      BY <1>1, <1>2, <2>1, <3>1, ByAdministrator, Zenon
      DEF People!UpdateUserRole, People!Other, People!Open, People!There, People!Accounts
  <2>2. ASSUME NEW idle \in {"fresh", "stale"},
               People!Write(r, t, [acct[t] EXCEPT !.role = "viewer", !.activity = IF @ = "exempt" THEN idle ELSE @])
        PROVE  PeopleInv'
    <3> DEFINE res == [acct[t] EXCEPT !.role = "viewer", !.activity = IF @ = "exempt" THEN idle ELSE @]
    <3>1. res \in People!Accounts /\ res.state = acct[t].state /\ res.on = acct[t].on
      BY <1>1, <2>2, Zenon DEF People!Accounts
    <3>2. QED
      BY <1>2, <2>2, <3>1, ByAdministrator, Zenon
      DEF People!UpdateUserRole, People!Other, People!Open, People!There
  <2>3. QED
    BY <1>2, <2>1, <2>2, Zenon DEF People!UpdateUserRole
<1>3. ASSUME People!DeleteUser(r, t) PROVE PeopleInv'
  <2>1. People!Gone \in People!Accounts /\ People!Gone.state = "gone" /\ People!Gone.on = FALSE
    BY Zenon DEF People!Gone, People!NoAccount, People!Accounts
  <2>2. QED
    BY <1>3, <2>1, ByAdministrator, Zenon DEF People!DeleteUser, People!Other, People!Open
<1>4. ASSUME People!DisableUser(r, t) PROVE PeopleInv'
  <2> DEFINE res == [acct[t] EXCEPT !.disabled = TRUE]
  <2>1. res \in People!Accounts /\ res.state = acct[t].state /\ res.on = acct[t].on
    BY <1>1, Zenon DEF People!Accounts
  <2>2. QED
    BY <1>4, <2>1, ByAdministrator, Zenon DEF People!DisableUser, People!Other, People!There
<1>5. ASSUME People!EnableUser(r, t) PROVE PeopleInv'
  <2> DEFINE res == [acct[t] EXCEPT !.disabled = FALSE, !.activity = IF @ = "stale" THEN "fresh" ELSE @]
  <2>1. res \in People!Accounts /\ res.state = acct[t].state /\ res.on = acct[t].on
    BY <1>1, Zenon DEF People!Accounts
  <2>2. asked[r].actor # t
    BY <1>5, Zenon DEF People!EnableUser, People!Write, People!ActorCurrent, People!Administers
  <2>3. QED
    BY <1>5, <2>1, <2>2, ByAdministrator, Zenon DEF People!EnableUser, People!Open, People!There
<1>6. ASSUME People!UnlockUser(r, t) \/ People!ReactivateUser(r, t) \/ People!SetDormancyExempt(r, t)
      PROVE  PeopleInv'
  <2>1. PICK a \in {"fresh", "stale", "exempt"} : People!Note(r, t, [acct[t] EXCEPT !.activity = a])
    BY <1>1, <1>6, Zenon
    DEF People!UnlockUser, People!ReactivateUser, People!SetDormancyExempt, People!Accounts
  <2> DEFINE res == [acct[t] EXCEPT !.activity = a]
  <2>2. /\ res \in People!Accounts /\ res.state = acct[t].state /\ res.on = acct[t].on
        /\ res.role = acct[t].role /\ res.disabled = acct[t].disabled
    BY <1>1, Zenon DEF People!Accounts
  <2>3. People!There(t)
    BY <1>6, Zenon
    DEF People!UnlockUser, People!ReactivateUser, People!SetDormancyExempt, People!Open
  <2>4. QED
    BY <2>1, <2>2, <2>3, ByAdministrator, Zenon DEF People!There
<1>7. ASSUME People!ResetLocalPassword(r, t) PROVE PeopleInv'
  <2> DEFINE res == [acct[t] EXCEPT !.temp = "temporary"]
  <2>1. res \in People!Accounts /\ res.state = acct[t].state /\ res.on = acct[t].on
    BY <1>1, Zenon DEF People!Accounts
  <2>2. QED
    BY <1>7, <2>1, ByAdministrator, Zenon
    DEF People!ResetLocalPassword, People!Other, People!Open, People!There
<1>8. ASSUME People!DisableUserTOTP(r, t) PROVE PeopleInv'
  <2> DEFINE res == [acct[t] EXCEPT !.on = FALSE]
  <2>1. res \in People!Accounts /\ res.state = acct[t].state /\ res.on = FALSE
    BY <1>1, Zenon DEF People!Accounts
  <2>2. QED
    BY <1>8, <2>1, ByAdministrator, Zenon
    DEF People!DisableUserTOTP, People!Other, People!Open, People!There
<1>9. ASSUME People!CreateUser(r, t) PROVE PeopleInv'
  <2>1. PICK x \in {"admin", "viewer"} :
          People!Write(r, t, [People!NoAccount EXCEPT !.state = "there", !.role = x, !.temp = "temporary"])
    BY <1>9, Zenon DEF People!CreateUser
  <2>2. [People!NoAccount EXCEPT !.state = "there", !.role = x, !.temp = "temporary"] \in People!Accounts
    BY Zenon DEF People!NoAccount, People!Accounts
  <2>3. reg[t] = "none" /\ ~People!There(t)
    BY <1>9, Zenon DEF People!CreateUser, People!There
  <2>4. QED
    BY <2>1, <2>2, <2>3, ByAdministrator, Zenon
<1>10. QED
  BY <1>2, <1>3, <1>4, <1>5, <1>6, <1>7, <1>8, <1>9, Zenon

-----------------------------------------------------------------------------
\* The steps of a registration keep the invariant.
LEMMA RegistrationsKeep ==
  ASSUME PeopleInv, NEW u \in Ids,
         People!RegisterBegin(u) \/ People!RegisterCleanup(u) \/ People!RegisterCreate(u) \/ People!RegisterAnswer(u)
  PROVE  PeopleInv'
<1> USE DEF PeopleInv
<1>1. FreshIsSomeone'
  BY Zenon
  DEF FreshIsSomeone, People!RegisterBegin, People!RegisterCleanup, People!RegisterCreate,
      People!RegisterAnswer
<1>2. ASSUME People!RegisterBegin(u) PROVE PeopleInv'
  <2>1. People!TypeOK'
    BY <1>2, Zenon DEF People!RegisterBegin, People!TypeOK
  <2>2. Administrated'
    BY <1>2, Zenon DEF People!RegisterBegin, Administrated, Enabled, People!There
  <2>3. Registered' /\ People!OneFounder'
    BY <1>2, Zenon
    DEF People!RegisterBegin, Registered, People!OneFounder, People!There, People!TypeOK
  <2>4. QED
    BY <1>1, <2>1, <2>2, <2>3, Zenon
<1>3. ASSUME People!RegisterCleanup(u) PROVE PeopleInv'
  <2>1. People!Gone \in People!Accounts /\ People!Gone.state = "gone" /\ People!Gone.on = FALSE
    BY Zenon DEF People!Gone, People!NoAccount, People!Accounts
  <2>2. People!TypeOK'
    BY <1>3, <2>1, Zenon DEF People!RegisterCleanup, People!TypeOK
  <2>3. \A v \in Ids : acct'[v] = acct[v] \/ (People!There(v) /\ ~acct[v].on /\ acct'[v] = People!Gone)
    BY <1>3, Zenon DEF People!RegisterCleanup
  <2>4. Administrated'
    <3>1. CASE ~complete
      BY <1>3, <2>1, <2>3, <3>1, Zenon
      DEF People!RegisterCleanup, Administrated, Enabled, People!There
    <3>2. CASE complete
      <4>1. Founding
        BY <1>3, Zenon DEF Founding, People!RegisterCleanup
      <4>2. PICK w \in Ids : Signed(w)
        BY <3>2, <4>1, Zenon DEF Administrated
      <4>3. Signed(w)'
        BY <2>3, <4>2, Zenon DEF Signed, Enabled, People!There
      <4>4. QED
        BY <1>3, <3>2, <4>3, Zenon DEF People!RegisterCleanup, Administrated, Signed
    <3>3. QED
      BY <3>1, <3>2, Zenon
  <2>5. Registered' /\ People!OneFounder'
    BY <1>3, <2>1, <2>3
    DEF People!RegisterCleanup, Registered, People!OneFounder, People!There, People!TypeOK
  <2>6. QED
    BY <1>1, <2>2, <2>4, <2>5, Zenon
<1>4. ASSUME People!RegisterCreate(u) PROVE PeopleInv'
  <2> DEFINE new == [People!NoAccount EXCEPT !.state = "there", !.role = "admin", !.activity = "exempt"]
  <2>1. /\ new \in People!Accounts /\ new.state = "there" /\ new.role = "admin"
        /\ new.disabled = FALSE /\ new.on = FALSE
    BY Zenon DEF People!NoAccount, People!Accounts
  <2>2. /\ acct' = [acct EXCEPT ![u] = new] /\ acct[u].state = "none" /\ reg[u] = "create"
        /\ reg' = [reg EXCEPT ![u] = "count"] /\ UNCHANGED <<complete, asked, protected>>
    BY <1>4, Zenon DEF People!RegisterCreate, Registered
  <2> HIDE DEF new
  <2>3. People!TypeOK'
    BY <2>1, <2>2, Zenon DEF People!TypeOK
  <2>4. \A v \in Ids : acct'[v] = IF v = u THEN new ELSE acct[v]
    BY <2>2, Zenon DEF People!TypeOK
  <2>5. Administrated'
    <3>1. CASE ~complete
      BY <2>1, <2>2, <2>4, <3>1 DEF Administrated, Enabled, People!There
    <3>2. CASE complete
      <4>1. Founding
        BY <2>2, Zenon DEF Founding
      <4>2. PICK w \in Ids : Signed(w)
        BY <3>2, <4>1, Zenon DEF Administrated
      <4>3. Signed(w)'
        BY <2>2, <2>4, <4>2, Zenon DEF Signed, Enabled, People!There
      <4>4. QED
        BY <2>2, <3>2, <4>3, Zenon DEF Administrated, Signed
    <3>3. QED
      BY <3>1, <3>2, Zenon
  <2>6. \A v \in Ids : reg'[v] = IF v = u THEN "count" ELSE reg[v]
    BY <2>2, Zenon DEF People!TypeOK
  <2>7. Registered'
    BY <2>1, <2>4, <2>6, Zenon DEF Registered
  <2>8. People!OneFounder'
    BY <2>4, <2>6 DEF People!OneFounder, People!There
  <2>9. QED
    BY <1>1, <2>3, <2>5, <2>7, <2>8, Zenon
<1>5. ASSUME People!RegisterAnswer(u), People!Alone(u) PROVE PeopleInv'
  <2>1. reg[u] = "count" /\ reg' = [reg EXCEPT ![u] = "answered"]
        /\ UNCHANGED <<acct, complete, asked, protected>>
    BY <1>5, Zenon DEF People!RegisterAnswer
  <2>2. People!TypeOK'
    BY <2>1, Zenon DEF People!TypeOK
  <2>3. Administrated'
    <3>1. Founding' => Founding
      BY <2>1, Zenon DEF Founding, People!TypeOK
    <3>2. QED
      BY <2>1, <3>1, Zenon DEF Administrated, Enabled, Signed, People!There
  <2>4. Registered'
    BY <2>1, Zenon DEF Registered, People!TypeOK
  <2>5. People!OneFounder'
    BY <1>5, <2>1, Zenon DEF People!OneFounder, People!Alone, People!There, People!TypeOK
  <2>6. QED
    BY <1>1, <2>2, <2>3, <2>4, <2>5, Zenon
<1>6. ASSUME People!RegisterAnswer(u), ~People!Alone(u) PROVE PeopleInv'
  <2>1. reg[u] = "count" /\ reg' = [reg EXCEPT ![u] = "none"] /\ acct' = [acct EXCEPT ![u] = People!Gone]
        /\ UNCHANGED <<complete, asked, protected>>
    BY <1>6, Zenon DEF People!RegisterAnswer
  <2>2. People!Gone \in People!Accounts /\ People!Gone.state = "gone" /\ People!Gone.on = FALSE
    BY Zenon DEF People!Gone, People!NoAccount, People!Accounts
  <2>3. People!TypeOK'
    BY <2>1, <2>2, Zenon DEF People!TypeOK
  <2>4. \A v \in Ids : acct'[v] = IF v = u THEN People!Gone ELSE acct[v]
    BY <2>1, Zenon DEF People!TypeOK
  <2>5. Administrated'
    <3>1. CASE ~complete
      BY <2>1, <2>2, <2>4, <3>1 DEF Administrated, Enabled, People!There
    <3>2. CASE complete
      <4>1. Founding
        BY <2>1, Zenon DEF Founding
      <4>2. PICK w \in Ids : Signed(w)
        BY <3>2, <4>1, Zenon DEF Administrated
      <4>3. w # u
        BY <2>1, <4>2, Zenon DEF Signed, Registered
      <4>4. Signed(w)'
        BY <2>4, <4>2, <4>3, Zenon DEF Signed, Enabled, People!There
      <4>5. QED
        BY <2>1, <3>2, <4>4, Zenon DEF Administrated, Signed
    <3>3. QED
      BY <3>1, <3>2, Zenon
  <2>6. Registered' /\ People!OneFounder'
    BY <2>1, <2>2, <2>4 DEF Registered, People!OneFounder, People!There, People!TypeOK
  <2>7. QED
    BY <1>1, <2>3, <2>5, <2>6, Zenon
<1>7. QED
  BY <1>2, <1>3, <1>4, <1>5, <1>6, Zenon

\* What befalls an account that stays as it is but for authenticator, password
\* and activity: a new authenticator completes the set-up.
LEMMA AccountsKeep ==
  ASSUME PeopleInv, NEW u \in Ids,
         \/ People!CompleteTOTPSetup(u) \/ People!ChangeLocalPassword(u)
         \/ People!GoesDormant(u) \/ People!Govern(u) \/ People!BreakGlass(u)
  PROVE  PeopleInv'
<1> USE DEF PeopleInv
<1>1. acct[u] \in People!Accounts
  BY Zenon DEF People!TypeOK
<1>2. ASSUME People!CompleteTOTPSetup(u) PROVE PeopleInv'
  <2> DEFINE res == [acct[u] EXCEPT !.on = TRUE, !.temp = "no"]
  <2>1. /\ res \in People!Accounts /\ res.state = "there" /\ res.role = acct[u].role
        /\ res.disabled = acct[u].disabled /\ res.on = TRUE /\ People!There(u) /\ reg[u] # "count"
    BY <1>1, <1>2, Zenon DEF People!CompleteTOTPSetup, People!Accounts, People!There
  <2>2. acct' = [acct EXCEPT ![u] = res] /\ complete' = TRUE /\ UNCHANGED <<reg, protected>>
    BY <1>2, Zenon DEF People!CompleteTOTPSetup, People!Change
  <2> HIDE DEF res
  <2>3. \A v \in Ids : acct'[v] = IF v = u THEN res ELSE acct[v]
    BY <2>2, Zenon DEF People!TypeOK
  <2>4. /\ asked' \in [Callers -> [actor : Ids \cup {"none"}, fresh : BOOLEAN]]
        /\ FreshIsSomeone'
    BY <1>2, ChangeKeepsRequests, Zenon DEF People!CompleteTOTPSetup, People!Change
  <2>5. People!TypeOK'
    BY <2>1, <2>2, <2>4, Zenon DEF People!TypeOK
  <2>6. Administrated'
    <3>1. CASE ~complete
      <4>1. Signed(u)'
        BY <2>1, <2>3, <3>1, Zenon DEF Administrated, Signed, Enabled, People!There
      <4>2. QED
        BY <2>2, <4>1, Zenon DEF Administrated, Signed
    <3>2. CASE complete
      <4>1. \A v \in Ids : (Enabled(v) => Enabled(v)') /\ (Signed(v) => Signed(v)')
        BY <2>1, <2>3, Zenon DEF Enabled, Signed, People!There
      <4>2. Founding' = Founding
        BY <2>2, Zenon DEF Founding
      <4>3. QED
        BY <2>2, <3>2, <4>1, <4>2, Zenon DEF Administrated
    <3>3. QED
      BY <3>1, <3>2, Zenon
  <2>7. Registered' /\ People!OneFounder'
    BY <2>1, <2>2, <2>3 DEF Registered, People!OneFounder, People!There
  <2>8. QED
    BY <2>4, <2>5, <2>6, <2>7, Zenon
<1>3. ASSUME NEW res \in People!Accounts, People!There(u), res.state = "there", res.role = acct[u].role,
             res.disabled = acct[u].disabled, res.on = acct[u].on,
             acct' = [acct EXCEPT ![u] = res], UNCHANGED <<complete, reg, protected>>,
             asked' \in [Callers -> [actor : Ids \cup {"none"}, fresh : BOOLEAN]],
             FreshIsSomeone'
      PROVE  PeopleInv'
  <2>1. \A v \in Ids : acct'[v] = IF v = u THEN res ELSE acct[v]
    BY <1>3, Zenon DEF People!TypeOK
  <2>2. People!TypeOK'
    BY <1>3, Zenon DEF People!TypeOK
  <2>3. \A v \in Ids : (Enabled(v)' <=> Enabled(v)) /\ (Signed(v)' <=> Signed(v))
                       /\ (People!There(v)' <=> People!There(v)) /\ acct'[v].on = acct[v].on
    BY <1>3, <2>1, Zenon DEF Enabled, Signed, People!There
  <2>4. Founding' <=> Founding
    BY <1>3, Zenon DEF Founding
  <2>5. Administrated'
    BY <1>3, <2>3, <2>4, Zenon DEF Administrated
  <2>6. Registered' /\ People!OneFounder'
    BY <1>3, <2>1 DEF Registered, People!OneFounder, People!There
  <2>7. QED
    BY <1>3, <2>2, <2>5, <2>6, Zenon
<1>4. ASSUME People!ChangeLocalPassword(u) PROVE PeopleInv'
  <2> DEFINE res == [acct[u] EXCEPT !.temp = "no"]
  <2>1. /\ res \in People!Accounts /\ res.state = acct[u].state /\ res.role = acct[u].role
        /\ res.disabled = acct[u].disabled /\ res.on = acct[u].on
    BY <1>1, Zenon DEF People!Accounts
  <2>2. /\ asked' \in [Callers -> [actor : Ids \cup {"none"}, fresh : BOOLEAN]]
        /\ FreshIsSomeone'
    BY <1>4, ChangeKeepsRequests, Zenon DEF People!ChangeLocalPassword, People!Change
  <2>3. QED
    BY <1>3, <1>4, <2>1, <2>2, Zenon DEF People!ChangeLocalPassword, People!Change, People!There
<1>5. ASSUME People!GoesDormant(u) PROVE PeopleInv'
  <2> DEFINE res == [acct[u] EXCEPT !.activity = "stale"]
  <2>1. /\ res \in People!Accounts /\ res.state = acct[u].state /\ res.role = acct[u].role
        /\ res.disabled = acct[u].disabled /\ res.on = acct[u].on
    BY <1>1, Zenon DEF People!Accounts
  <2>2. acct' = [acct EXCEPT ![u] = res]
    BY <1>5, Zenon DEF People!GoesDormant
  <2>3. /\ asked' \in [Callers -> [actor : Ids \cup {"none"}, fresh : BOOLEAN]]
        /\ FreshIsSomeone'
    BY <1>5, Zenon DEF People!GoesDormant, FreshIsSomeone, People!TypeOK
  <2>4. QED
    BY <1>3, <1>5, <2>1, <2>2, <2>3, Zenon DEF People!GoesDormant, People!There
<1>6. ASSUME People!Govern(u) PROVE PeopleInv'
  BY <1>6, Zenon
  DEF People!Govern, People!TypeOK, FreshIsSomeone, Administrated, Founding, Enabled, Signed,
      People!There, Registered, People!OneFounder
<1>7. ASSUME People!BreakGlass(u) PROVE PeopleInv'
  <2> DEFINE res == [acct[u] EXCEPT !.on = FALSE, !.temp = "recovery"]
  <2>1. /\ res \in People!Accounts /\ res.state = "there" /\ res.role = acct[u].role
        /\ res.disabled = acct[u].disabled /\ res.on = FALSE /\ People!There(u)
    BY <1>1, <1>7, Zenon DEF People!BreakGlass, People!Accounts, People!There
  <2>2. acct' = [acct EXCEPT ![u] = res] /\ complete' = TRUE /\ UNCHANGED <<reg, protected>>
    BY <1>7, Zenon DEF People!BreakGlass, People!Change
  <2> HIDE DEF res
  <2>3. \A v \in Ids : acct'[v] = IF v = u THEN res ELSE acct[v]
    BY <2>2, Zenon DEF People!TypeOK
  <2>4. /\ asked' \in [Callers -> [actor : Ids \cup {"none"}, fresh : BOOLEAN]]
        /\ FreshIsSomeone'
    BY <1>7, ChangeKeepsRequests, Zenon DEF People!BreakGlass, People!Change
  <2>5. People!TypeOK'
    BY <2>1, <2>2, <2>4, Zenon DEF People!TypeOK
  <2>6. ~Founding'
    BY <1>7, <2>2, Zenon DEF People!BreakGlass, Founding
  <2>7. \E v \in Ids : Enabled(v)'
    <3>1. PICK w \in Ids : Enabled(w)
      BY <2>1, Zenon DEF Administrated
    <3>2. Enabled(w)'
      BY <2>1, <2>3, <3>1, Zenon DEF Enabled, People!There
    <3>3. QED
      BY <3>2, Zenon
  <2>8. Administrated'
    BY <2>2, <2>6, <2>7, Zenon DEF Administrated
  <2>9. Registered' /\ People!OneFounder'
    BY <2>1, <2>2, <2>3 DEF Registered, People!OneFounder, People!There
  <2>10. QED
    BY <2>4, <2>5, <2>8, <2>9, Zenon
<1>8. QED
  BY <1>2, <1>4, <1>5, <1>6, <1>7, Zenon

\* A request begins with the authority of an administrator and ends without.
LEMMA RequestsKeep ==
  ASSUME PeopleInv, NEW r \in Callers, People!Finish(r) \/ \E u \in Ids : People!Begin(r, u)
  PROVE  PeopleInv'
<1>1. UNCHANGED <<acct, complete, reg, protected>>
  BY Zenon DEF People!Finish, People!Begin
<1>2. PICK s \in [actor : Ids \cup {"none"}, fresh : BOOLEAN] :
        asked' = [asked EXCEPT ![r] = s] /\ (s.fresh => s.actor \in Ids)
  <2>1. CASE People!Finish(r)
    <3>1. People!Idle \in [actor : Ids \cup {"none"}, fresh : BOOLEAN] /\ People!Idle.fresh = FALSE
      BY Zenon DEF People!Idle
    <3>2. QED
      BY <2>1, <3>1, Zenon DEF People!Finish
  <2>2. ASSUME NEW u \in Ids, People!Begin(r, u)
        PROVE  \E s \in [actor : Ids \cup {"none"}, fresh : BOOLEAN] :
                 asked' = [asked EXCEPT ![r] = s] /\ (s.fresh => s.actor \in Ids)
    <3> DEFINE s == [actor |-> u, fresh |-> TRUE]
    <3>1. s \in [actor : Ids \cup {"none"}, fresh : BOOLEAN] /\ s.actor \in Ids
      BY Zenon
    <3>2. asked' = [asked EXCEPT ![r] = s]
      BY <2>2, Zenon DEF People!Begin
    <3> HIDE DEF s
    <3>3. QED
      BY <3>1, <3>2, Zenon
  <2>3. QED
    BY <2>1, <2>2, Zenon
<1>3. People!TypeOK' /\ FreshIsSomeone'
  BY <1>1, <1>2, Zenon DEF PeopleInv, People!TypeOK, FreshIsSomeone
<1>4. QED
  BY <1>1, <1>3, Zenon
  DEF PeopleInv, Administrated, Founding, Enabled, Signed, People!There, Registered,
      People!OneFounder

-----------------------------------------------------------------------------
\* Every step keeps the invariant.
LEMMA PeopleKeep == PeopleInv /\ [People!Next]_People!vars => PeopleInv'
<1> SUFFICES ASSUME PeopleInv, [People!Next]_People!vars PROVE PeopleInv'
  BY Zenon
<1>1. CASE UNCHANGED People!vars
  BY <1>1, Zenon
  DEF People!vars, PeopleInv, People!TypeOK, FreshIsSomeone, Administrated, Founding, Enabled,
      Signed, People!There, Registered, People!OneFounder
<1>2. QED
  BY <1>1, AdministratorsKeep, RegistrationsKeep, AccountsKeep, RequestsKeep, Zenon
  DEF People!Next

\* Once the hub is set up there is an enabled administrator, whatever any number of
\* administrators do to each other at the same time and whatever registrations are
\* still under way (guardAccountManagementActor, DisableUser, DeleteIncompleteUsers).
THEOREM AdministratorsRemain == Ids # {} /\ People!Spec => []People!AnAdministratorRemains
<1>1. Ids # {} /\ People!Init => PeopleInv
  BY PeopleInit, Zenon
<1>2. PeopleInv /\ [People!Next]_People!vars => PeopleInv'
  BY PeopleKeep, Zenon
<1>3. PeopleInv => People!AnAdministratorRemains
  BY Zenon DEF PeopleInv, Administrated, People!AnAdministratorRemains, Enabled
<1>4. QED
  BY <1>1, <1>2, <1>3, PTL DEF People!Spec

\* However many registrations race, at most one of those that were answered with a
\* set-up token has an account (handleRegister, UserCount).
THEOREM FoundedOnce == Ids # {} /\ People!Spec => []People!OneFounder
<1>1. Ids # {} /\ People!Init => PeopleInv
  BY PeopleInit, Zenon
<1>2. PeopleInv /\ [People!Next]_People!vars => PeopleInv'
  BY PeopleKeep, Zenon
<1>3. PeopleInv => People!OneFounder
  BY Zenon DEF PeopleInv
<1>4. QED
  BY <1>1, <1>2, <1>3, PTL DEF People!Spec

-----------------------------------------------------------------------------
(* The archive *)

CONSTANTS Requests, Submitted, NoRecord, MaxTime

VARIABLES now, part, manifest, ledger, req, receipts, reads

Archive == INSTANCE AuditArchive

\* What is assumed of the constants.
ArchiveConstants == NoRecord \notin Submitted /\ MaxTime \in Nat

Times == 0 .. MaxTime

\* The four stores are functions of their keys, and a request is a record.
ArchiveShape ==
    /\ now \in Times
    /\ part = [x \in Submitted |-> part[x]]
    /\ \A x \in Submitted : part[x] \in [Archive!PartsOf(x) -> 0 .. MaxTime + 1]
    /\ manifest = [b \in Archive!Buckets |-> [e \in Archive!Events |-> manifest[b][e]]]
    /\ \A b \in Archive!Buckets, e \in Archive!Events : manifest[b][e].at \in Times
    /\ ledger \in [Archive!Events -> Submitted \cup {NoRecord}]
    /\ req = [q \in Requests |-> req[q]]
    /\ \A q \in Requests :
        /\ DOMAIN req[q] = {"pc", "x", "at", "done"}
        /\ req[q].at \in Times
        /\ req[q].pc # "idle" => req[q].x \in Submitted

ManifestOf(x) == manifest[Archive!ArchiveFor(x)][x.e]

\* The manifest is this record's, and every part is there as it promises.
Held(x) ==
    /\ ManifestOf(x).x = x
    /\ \A p \in Archive!PartsOf(x) : part[x][p] = ManifestOf(x).at

\* A request about to sign has seen everything it signs for.
ArchiveSeen == \A q \in Requests : req[q].pc = "ensure" => Held(req[q].x)

\* A receipt's record is in every store, and a permit has the manifest's expiry.
Receipted ==
    \A r \in receipts :
        /\ r.x \in Submitted
        /\ Held(r.x)
        /\ ledger[r.x.e] = r.x
        /\ ~Archive!Historical(r.x) => r.exp = ManifestOf(r.x).exp

\* An original was released while the permit of its intent was valid.
Released ==
    \A d \in reads :
        /\ d.x \in Submitted
        /\ ~Archive!Historical(d.x)
        /\ ManifestOf(d.x).x = d.x
        /\ d.at < ManifestOf(d.x).exp

ArchiveInv == ArchiveConstants /\ ArchiveShape /\ ArchiveSeen /\ Receipted /\ Released

\* What the store promises of a step: what has been created stays as it is.
Kept ==
    /\ \A x \in Submitted : \A p \in Archive!PartsOf(x) :
          part[x][p] # Archive!Absent => part'[x][p] = part[x][p]
    /\ \A b \in Archive!Buckets, e \in Archive!Events :
          manifest[b][e] # Archive!NoManifest => manifest'[b][e] = manifest[b][e]
    /\ \A e \in Archive!Events : ledger[e] # NoRecord => ledger'[e] = ledger[e]

\* A submitted record has its event, its bucket and its parts.
LEMMA Keys ==
    ASSUME NEW x \in Submitted
    PROVE  x.e \in Archive!Events /\ Archive!ArchiveFor(x) \in Archive!Buckets
           /\ Archive!PartsOf(x) \subseteq {"attachment", "envelope"} /\ "envelope" \in Archive!PartsOf(x)
BY Zenon DEF Archive!Events, Archive!ArchiveFor, Archive!Buckets, Archive!PartsOf

\* The part that protectIn handles next is one the record has.
LEMMA NextPartIsPart ==
    ASSUME NEW q \in Requests
    PROVE  Archive!NextPart(q) \in Archive!PartsOf(req[q].x)
BY Zenon DEF Archive!NextPart, Archive!PartsOf

\* S3Archive.Put of a part: the stores keep their shape and what is in them.
LEMMA CreatePartKeeps ==
    ASSUME ArchiveConstants, ArchiveShape, NEW x \in Submitted, NEW p \in Archive!PartsOf(x), NEW at \in Times,
           Archive!CreatePart(x, p, at)
    PROVE  /\ part' = [y \in Submitted |-> part'[y]]
           /\ \A y \in Submitted : part'[y] \in [Archive!PartsOf(y) -> 0 .. MaxTime + 1]
           /\ Kept
<1>1. part' = [part EXCEPT ![x] = [part[x] EXCEPT ![p] = IF part[x][p] = Archive!Absent THEN at ELSE part[x][p]]]
  BY Zenon DEF Archive!CreatePart
<1>2. at \in 0 .. MaxTime + 1
  BY DEF ArchiveConstants, Times
<1>3. part[x] \in [Archive!PartsOf(x) -> 0 .. MaxTime + 1]
  BY Zenon DEF ArchiveShape
<1>4. [part[x] EXCEPT ![p] = IF part[x][p] = Archive!Absent THEN at ELSE part[x][p]]
         \in [Archive!PartsOf(x) -> 0 .. MaxTime + 1]
  BY <1>2, <1>3, Zenon
<1>5. part' = [y \in Submitted |-> part'[y]]
  BY <1>1, Zenon DEF ArchiveShape
<1>6. \A y \in Submitted : part'[y] \in [Archive!PartsOf(y) -> 0 .. MaxTime + 1]
  BY <1>1, <1>4, Zenon DEF ArchiveShape
<1>7. \A y \in Submitted : \A o \in Archive!PartsOf(y) : part[y][o] # Archive!Absent => part'[y][o] = part[y][o]
  BY <1>1, Zenon DEF ArchiveShape
<1>8. QED
  BY <1>5, <1>6, Zenon DEF Kept, Archive!CreatePart

\* Put of a manifest: whoever was first stays.
LEMMA CreateManifestKeeps ==
    ASSUME ArchiveConstants, ArchiveShape, NEW x \in Submitted, NEW at \in Times, NEW parts,
           Archive!CreateManifest(x, at, parts)
    PROVE  /\ manifest' = [b \in Archive!Buckets |-> [e \in Archive!Events |-> manifest'[b][e]]]
           /\ \A b \in Archive!Buckets, e \in Archive!Events : manifest'[b][e].at \in Times
           /\ Kept
<1> DEFINE new == IF manifest[Archive!ArchiveFor(x)][x.e] = Archive!NoManifest
                  THEN [x |-> x, at |-> at, exp |-> Archive!Expires(x, at), parts |-> parts]
                  ELSE manifest[Archive!ArchiveFor(x)][x.e]
<1>1. manifest' = [manifest EXCEPT ![Archive!ArchiveFor(x)] = [manifest[Archive!ArchiveFor(x)] EXCEPT ![x.e] = new]]
  BY Zenon DEF Archive!CreateManifest
<1>2. x.e \in Archive!Events /\ Archive!ArchiveFor(x) \in Archive!Buckets
  BY Keys, Zenon
<1>3. new.at \in Times
  BY <1>2, Zenon DEF ArchiveShape
<1>4. \A b \in Archive!Buckets, e \in Archive!Events :
        manifest'[b][e] = IF b = Archive!ArchiveFor(x) /\ e = x.e THEN new ELSE manifest[b][e]
  BY <1>1, <1>2 DEF ArchiveShape
<1>5. manifest' = [b \in Archive!Buckets |-> [e \in Archive!Events |-> manifest'[b][e]]]
  BY <1>1, <1>2, Zenon DEF ArchiveShape
<1>6. \A b \in Archive!Buckets, e \in Archive!Events : manifest'[b][e].at \in Times
  <2> HIDE DEF new
  <2> QED
    BY <1>3, <1>4 DEF ArchiveShape
<1>7. \A b \in Archive!Buckets, e \in Archive!Events :
        manifest[b][e] # Archive!NoManifest => manifest'[b][e] = manifest[b][e]
  BY <1>4, Zenon
<1>8. QED
  BY <1>5, <1>6, <1>7, Zenon DEF Kept, Archive!CreateManifest

\* ensureLedger: the event is taken once.
LEMMA CreateLedgerKeeps ==
    ASSUME ArchiveConstants, ArchiveShape, NEW x \in Submitted,
           ledger' = [ledger EXCEPT ![x.e] = IF @ = NoRecord THEN x ELSE @]
    PROVE  /\ ledger' \in [Archive!Events -> Submitted \cup {NoRecord}]
           /\ \A e \in Archive!Events : ledger[e] # NoRecord => ledger'[e] = ledger[e]
BY Keys, Zenon DEF ArchiveShape

\* What is held stays held: nothing the archive does changes an object.
LEMMA HeldStays ==
    ASSUME ArchiveConstants, ArchiveShape, Kept, NEW x \in Submitted, Held(x)
    PROVE  Held(x)' /\ ManifestOf(x)' = ManifestOf(x)
<1>1. x.e \in Archive!Events /\ Archive!ArchiveFor(x) \in Archive!Buckets
  BY Keys, Zenon
<1>2. ManifestOf(x) # Archive!NoManifest
  BY DEF Held, ArchiveConstants, Archive!NoManifest
<1>3. ManifestOf(x)' = ManifestOf(x)
  BY <1>1, <1>2, Zenon DEF Kept, ManifestOf
<1>4. ManifestOf(x).at \in Times
  BY <1>1, Zenon DEF ArchiveShape, ManifestOf
<1>5. \A p \in Archive!PartsOf(x) : part[x][p] # Archive!Absent
  BY <1>4 DEF Held, Times, Archive!Absent, ArchiveConstants
<1>6. QED
  BY <1>3, <1>5, Zenon DEF Kept, Held

\* Preserve, Lookup and ReadOriginal only ever add to the stores, whatever is lost.
LEMMA StoresKeep ==
    ASSUME ArchiveConstants, ArchiveShape, [Archive!Next]_Archive!vars
    PROVE  Kept
<1>1. ASSUME UNCHANGED <<part, manifest, ledger>> PROVE Kept
  BY <1>1, Zenon DEF Kept
<1>2. ASSUME NEW q \in Requests, Archive!Protect(q) PROVE Kept
  BY <1>2, NextPartIsPart, CreatePartKeeps, Zenon DEF Archive!Protect, ArchiveShape
<1>3. ASSUME NEW q \in Requests, Archive!PutManifest(q) PROVE Kept
  BY <1>3, CreateManifestKeeps, Zenon DEF Archive!PutManifest, ArchiveShape
<1>4. ASSUME NEW q \in Requests, Archive!Sign(q) PROVE Kept
  <2>1. req[q].x \in Submitted
    BY <1>4, Zenon DEF Archive!Sign, ArchiveShape
  <2>2. \A e \in Archive!Events : ledger[e] # NoRecord => ledger'[e] = ledger[e]
    BY <1>4, <2>1, CreateLedgerKeeps, Zenon DEF Archive!Sign
  <2>3. QED
    BY <1>4, <2>2, Zenon DEF Archive!Sign, Kept
<1>5. ASSUME NEW q \in Requests, Archive!PutLost(q) PROVE Kept
  <2>1. req[q].pc # "idle"
    BY <1>5, Zenon DEF Archive!PutLost
  <2>2. req[q].x \in Submitted /\ req[q].at \in Times
    BY <2>1, Zenon DEF ArchiveShape
  <2>3. CASE Archive!CreatePart(req[q].x, Archive!NextPart(q), req[q].at)
    BY <2>2, <2>3, NextPartIsPart, CreatePartKeeps, Zenon
  <2>4. CASE Archive!CreateManifest(req[q].x, req[q].at, req[q].done)
    BY <2>2, <2>4, CreateManifestKeeps, Zenon
  <2>5. CASE /\ ledger' = [ledger EXCEPT ![req[q].x.e] = IF @ = NoRecord THEN req[q].x ELSE @]
             /\ UNCHANGED <<now, part, manifest, receipts, reads>>
    BY <2>2, <2>5, CreateLedgerKeeps, Zenon DEF Kept
  <2>6. QED
    BY <1>5, <2>3, <2>4, <2>5, Zenon DEF Archive!PutLost
<1>6. QED
  BY <1>1, <1>2, <1>3, <1>4, <1>5, Zenon
  DEF Archive!Next, Archive!Step, Archive!vars, Archive!Stores, Archive!Submit, Archive!ReadLedger,
     Archive!FindManifest, Archive!Reconcile, Archive!Lookup, Archive!Unavailable, Archive!ReadOriginal,
     Archive!Tick

-----------------------------------------------------------------------------
\* The archive starts empty.
LEMMA ArchiveInit == ArchiveConstants /\ Archive!Init => ArchiveInv
<1> SUFFICES ASSUME ArchiveConstants, Archive!Init PROVE ArchiveInv
  BY Zenon
<1>1. ArchiveShape
  <2>1. \A x \in Submitted : part[x] \in [Archive!PartsOf(x) -> 0 .. MaxTime + 1]
    BY DEF Archive!Init, Archive!Absent, ArchiveConstants
  <2>2. QED
    BY <2>1
    DEF ArchiveShape, Archive!Init, ArchiveConstants, Times, Archive!NoManifest, Archive!Idle
<1>2. QED
  BY <1>1, Zenon DEF ArchiveInv, Archive!Init, ArchiveSeen, Receipted, Released, Archive!Idle

\* Every step keeps the shape.
LEMMA ShapeStays == ArchiveConstants /\ ArchiveShape /\ [Archive!Next]_Archive!vars => ArchiveShape'
<1> SUFFICES ASSUME ArchiveConstants, ArchiveShape, [Archive!Next]_Archive!vars PROVE ArchiveShape'
  BY Zenon
<1> DEFINE Good(s) == /\ DOMAIN s = {"pc", "x", "at", "done"}
                      /\ s.at \in Times
                      /\ s.pc # "idle" => s.x \in Submitted
           ReqShape == /\ req = [o \in Requests |-> req[o]]
                       /\ \A o \in Requests : Good(req[o])
<1>1. ASSUME NEW q \in Requests, NEW s, Good(s), req' = [req EXCEPT ![q] = s]
      PROVE  ReqShape'
  BY <1>1, Zenon DEF ArchiveShape
<1>2. Good(Archive!Idle)
  BY DEF Archive!Idle, Times, ArchiveConstants
<1>3. ASSUME NEW q \in Requests, Archive!Refuse(q) PROVE ReqShape'
  BY <1>1, <1>2, <1>3, Zenon DEF Archive!Refuse
<1>4. ASSUME NEW q \in Requests, NEW pc, Archive!To(q, pc), req[q].pc # "idle" PROVE ReqShape'
  <2>1. Good(req[q])
    BY Zenon DEF ArchiveShape
  <2>2. Good([req[q] EXCEPT !.pc = pc])
    BY <1>4, <2>1, Zenon
  <2>3. QED
    BY <1>1, <1>4, <2>2, Zenon DEF Archive!To
<1>5. ASSUME ReqShape', UNCHANGED Archive!Stores PROVE ArchiveShape'
  BY <1>5, Zenon DEF ArchiveShape, Archive!Stores
<1>6. ASSUME NEW q \in Requests, NEW x \in Submitted, Archive!Submit(q, x) PROVE ArchiveShape'
  <2>1. Good([Archive!Idle EXCEPT !.pc = "ledger", !.x = x])
    BY <1>2, Zenon
  <2>2. QED
    BY <1>1, <1>5, <1>6, <2>1, Zenon DEF Archive!Submit
<1>7. ASSUME NEW q \in Requests, NEW e \in Archive!Events, Archive!Lookup(q, e) PROVE ArchiveShape'
  <2>1. ledger[e] \in Submitted
    BY <1>7, Zenon DEF Archive!Lookup, ArchiveShape
  <2>2. Good([Archive!Idle EXCEPT !.pc = "reconcile", !.x = ledger[e]])
    BY <1>2, <2>1, Zenon
  <2>3. QED
    BY <1>1, <1>5, <1>7, <2>2, Zenon DEF Archive!Lookup
<1>8. ASSUME NEW q \in Requests, Archive!ReadLedger(q) \/ Archive!Reconcile(q) PROVE ArchiveShape'
  BY <1>3, <1>4, <1>5, <1>8, Zenon DEF Archive!ReadLedger, Archive!Reconcile
<1>9. ASSUME NEW q \in Requests, Archive!FindManifest(q) PROVE ArchiveShape'
  <2>1. CASE req' = [req EXCEPT ![q].pc = "protect", ![q].at = now]
    <3>0. Good(req[q]) /\ req[q].pc # "idle" /\ now \in Times
      BY <1>9, Zenon DEF ArchiveShape, Archive!FindManifest
    <3>1. Good([req[q] EXCEPT !.pc = "protect", !.at = now])
      BY <3>0, Zenon
    <3>2. req' = [req EXCEPT ![q] = [req[q] EXCEPT !.pc = "protect", !.at = now]]
      BY <2>1, Zenon DEF ArchiveShape
    <3>3. QED
      BY <1>1, <1>5, <1>9, <3>1, <3>2, Zenon DEF Archive!FindManifest
  <2>2. QED
    BY <1>3, <1>4, <1>5, <1>9, <2>1, Zenon DEF Archive!FindManifest
<1>10. ASSUME NEW q \in Requests, req[q].pc # "idle",
              Archive!CreatePart(req[q].x, Archive!NextPart(q), req[q].at), ReqShape'
       PROVE  ArchiveShape'
  <2>1. req[q].x \in Submitted /\ req[q].at \in Times
    BY <1>10, Zenon DEF ArchiveShape
  <2>2. /\ part' = [y \in Submitted |-> part'[y]]
        /\ \A y \in Submitted : part'[y] \in [Archive!PartsOf(y) -> 0 .. MaxTime + 1]
    BY <1>10, <2>1, NextPartIsPart, CreatePartKeeps, Zenon
  <2>3. UNCHANGED <<now, manifest, ledger>>
    BY <1>10, Zenon DEF Archive!CreatePart
  <2>4. QED
    BY <1>10, <2>2, <2>3, Zenon DEF ArchiveShape
<1>11. ASSUME NEW q \in Requests, req[q].pc # "idle",
              Archive!CreateManifest(req[q].x, req[q].at, req[q].done), ReqShape'
       PROVE  ArchiveShape'
  <2>1. req[q].x \in Submitted /\ req[q].at \in Times
    BY <1>11, Zenon DEF ArchiveShape
  <2>2. /\ manifest' = [b \in Archive!Buckets |-> [e \in Archive!Events |-> manifest'[b][e]]]
        /\ \A b \in Archive!Buckets, e \in Archive!Events : manifest'[b][e].at \in Times
    BY <1>11, <2>1, CreateManifestKeeps, Zenon
  <2>3. QED
    BY <1>11, <2>2, Zenon DEF ArchiveShape, Archive!CreateManifest
<1>12. ASSUME NEW q \in Requests, req[q].pc # "idle",
              ledger' = [ledger EXCEPT ![req[q].x.e] = IF @ = NoRecord THEN req[q].x ELSE @],
              UNCHANGED <<now, part, manifest>>, ReqShape'
       PROVE  ArchiveShape'
  <2>1. req[q].x \in Submitted
    BY <1>12, Zenon DEF ArchiveShape
  <2>2. ledger' \in [Archive!Events -> Submitted \cup {NoRecord}]
    BY <1>12, <2>1, CreateLedgerKeeps, Zenon
  <2>3. QED
    BY <1>12, Zenon DEF ArchiveShape
<1>13. ASSUME NEW q \in Requests, Archive!Protect(q) PROVE ArchiveShape'
  <2> DEFINE s == req[q].x
             p == Archive!NextPart(q)
  <2>1. ReqShape'
    <3>1. CASE Archive!Refuse(q)
      BY <1>3, <3>1, Zenon
    <3>2. CASE req' = [req EXCEPT ![q].done = Archive!With(@, p, part'[s][p]),
                         ![q].pc = IF p = "envelope" THEN "publish" ELSE "protect"]
      <4> DEFINE r == [req[q] EXCEPT !.done = Archive!With(@, p, part'[s][p]),
                         !.pc = IF p = "envelope" THEN "publish" ELSE "protect"]
      <4>1. Good(r)
        <5>1. Good(req[q]) /\ req[q].pc # "idle"
          BY <1>13, Zenon DEF ArchiveShape, Archive!Protect
        <5>2. QED
          BY <5>1, Zenon
      <4>2. req' = [req EXCEPT ![q] = r]
        BY <3>2, Zenon
      <4>3. QED
        BY <1>1, <4>1, <4>2, Zenon
    <3>3. QED
      BY <1>13, <3>1, <3>2, Zenon DEF Archive!Protect
  <2>2. QED
    BY <1>10, <1>13, <2>1, Zenon DEF Archive!Protect
<1>14. ASSUME NEW q \in Requests, Archive!PutManifest(q) PROVE ArchiveShape'
  BY <1>4, <1>11, <1>14, Zenon DEF Archive!PutManifest
<1>15. ASSUME NEW q \in Requests, Archive!Sign(q) PROVE ArchiveShape'
  BY <1>3, <1>12, <1>15, Zenon DEF Archive!Sign
<1>16. ASSUME NEW q \in Requests, Archive!PutLost(q) PROVE ArchiveShape'
  BY <1>3, <1>10, <1>11, <1>12, <1>16, Zenon DEF Archive!PutLost
<1>17. ASSUME NEW q \in Requests, Archive!Unavailable(q) PROVE ArchiveShape'
  BY <1>3, <1>5, <1>17, Zenon DEF Archive!Unavailable
<1>18. ASSUME NEW r \in receipts, Archive!ReadOriginal(r) PROVE ArchiveShape'
  BY <1>18, Zenon DEF Archive!ReadOriginal, ArchiveShape
<1>19. CASE Archive!Tick
  BY <1>19 DEF Archive!Tick, ArchiveShape, Times, ArchiveConstants
<1>20. CASE UNCHANGED Archive!vars
  BY <1>20, Zenon DEF Archive!vars, ArchiveShape
<1>21. QED
  BY <1>6, <1>7, <1>8, <1>9, <1>13, <1>14, <1>15, <1>16, <1>17, <1>18, <1>19, <1>20, Zenon
  DEF Archive!Next, Archive!Step

-----------------------------------------------------------------------------
\* A request reaches "ensure" only through reconcile, which has seen everything.
LEMMA SeenStays == ArchiveInv /\ [Archive!Next]_Archive!vars => ArchiveSeen'
<1> SUFFICES ASSUME ArchiveInv, [Archive!Next]_Archive!vars, NEW q \in Requests, req'[q].pc = "ensure"
             PROVE  Held(req[q].x)'
  BY Zenon DEF ArchiveSeen
<1> USE DEF ArchiveInv
<1>1. Kept
  BY StoresKeep, Zenon
<1>2. ASSUME req[q].pc = "ensure", req'[q].x = req[q].x PROVE Held(req[q].x)'
  <2>1. req[q].x \in Submitted /\ Held(req[q].x)
    BY <1>2, Zenon DEF ArchiveShape, ArchiveSeen
  <2>2. QED
    BY <1>1, <1>2, <2>1, HeldStays, Zenon
<1>3. ASSUME Archive!Reconcile(q) PROVE Held(req[q].x)'
  <2>1. req[q].x \in Submitted /\ req'[q].x = req[q].x
    BY <1>3 DEF Archive!Reconcile, Archive!Refuse, Archive!To, ArchiveShape, Archive!Idle
  <2>2. Held(req[q].x)
    <3>1. ~Archive!Refuse(q)
      BY DEF Archive!Refuse, ArchiveShape, Archive!Idle
    <3>2. Archive!M(q).x = req[q].x /\ Archive!Intact(Archive!M(q))
      BY <1>3, <3>1, Zenon DEF Archive!Reconcile
    <3>3. QED
      BY <3>2, Zenon DEF Held, ManifestOf, Archive!M, Archive!Intact
  <2>3. QED
    BY <1>1, <2>1, <2>2, HeldStays, Zenon
<1>4. ASSUME ~Archive!Reconcile(q) PROVE req[q].pc = "ensure" /\ req'[q].x = req[q].x
  <2>1. CASE req' = req
    BY <2>1, Zenon
  <2>2. ASSUME NEW o \in Requests, NEW s, req' = [req EXCEPT ![o] = s], s.pc # "ensure"
        PROVE  req[q].pc = "ensure" /\ req'[q].x = req[q].x
    BY <2>2, Zenon DEF ArchiveShape
  <2>3. ASSUME NEW o \in Requests, Archive!Refuse(o)
        PROVE  req[q].pc = "ensure" /\ req'[q].x = req[q].x
    BY <2>2, <2>3 DEF Archive!Refuse, Archive!Idle
  <2>4. ASSUME NEW o \in Requests, NEW pc, pc # "ensure", Archive!To(o, pc)
        PROVE  req[q].pc = "ensure" /\ req'[q].x = req[q].x
    BY <2>4, Zenon DEF ArchiveShape, Archive!To
  <2>5. ASSUME NEW o \in Requests, o # q, Archive!Reconcile(o)
        PROVE  req[q].pc = "ensure" /\ req'[q].x = req[q].x
    BY <2>5, Zenon DEF ArchiveShape, Archive!To, Archive!Refuse, Archive!Reconcile
  <2>6. ASSUME NEW o \in Requests, \/ \E x \in Submitted : Archive!Submit(o, x)
                                   \/ \E e \in Archive!Events : Archive!Lookup(o, e)
        PROVE  req[q].pc = "ensure" /\ req'[q].x = req[q].x
    <3>1. PICK s : req' = [req EXCEPT ![o] = s] /\ s.pc \in {"ledger", "reconcile"}
      <4>1. \A x : /\ [Archive!Idle EXCEPT !.pc = "ledger", !.x = x].pc = "ledger"
                   /\ [Archive!Idle EXCEPT !.pc = "reconcile", !.x = x].pc = "reconcile"
        BY Zenon DEF Archive!Idle
      <4>2. CASE \E x \in Submitted : Archive!Submit(o, x)
        <5>1. PICK x \in Submitted : Archive!Submit(o, x)
          BY <4>2, Zenon
        <5>2. req' = [req EXCEPT ![o] = [Archive!Idle EXCEPT !.pc = "ledger", !.x = x]]
          BY <5>1, Zenon DEF Archive!Submit
        <5>3. QED
          BY <4>1, <5>2, Zenon
      <4>3. CASE \E e \in Archive!Events : Archive!Lookup(o, e)
        <5>1. PICK e \in Archive!Events : Archive!Lookup(o, e)
          BY <4>3, Zenon
        <5>2. req' = [req EXCEPT ![o] = [Archive!Idle EXCEPT !.pc = "reconcile", !.x = ledger[e]]]
          BY <5>1, Zenon DEF Archive!Lookup
        <5>3. QED
          BY <4>1, <5>2, Zenon
      <4>4. QED
        BY <2>6, <4>2, <4>3, Zenon
    <3>2. QED
      BY <2>2, <3>1, Zenon
  <2>7. ASSUME NEW o \in Requests, Archive!FindManifest(o)
        PROVE  req[q].pc = "ensure" /\ req'[q].x = req[q].x
    <3>1. CASE req' = [req EXCEPT ![o].pc = "protect", ![o].at = now]
      BY <3>1, Zenon DEF ArchiveShape
    <3>2. QED
      BY <2>3, <2>4, <2>7, <3>1, Zenon DEF Archive!FindManifest
  <2>8. ASSUME NEW o \in Requests, Archive!Protect(o)
        PROVE  req[q].pc = "ensure" /\ req'[q].x = req[q].x
    BY <2>3, <2>8 DEF Archive!Protect, ArchiveShape
  <2>9. ASSUME NEW o \in Requests,
               Archive!ReadLedger(o) \/ Archive!PutManifest(o) \/ Archive!Sign(o) \/ Archive!PutLost(o) \/ Archive!Unavailable(o)
        PROVE  req[q].pc = "ensure" /\ req'[q].x = req[q].x
    BY <2>3, <2>4, <2>9, Zenon
    DEF Archive!ReadLedger, Archive!PutManifest, Archive!Sign, Archive!PutLost, Archive!Unavailable
  <2>10. QED
    BY <1>4, <2>1, <2>5, <2>6, <2>7, <2>8, <2>9, Zenon
    DEF Archive!Next, Archive!Step, Archive!vars, Archive!ReadOriginal, Archive!Tick
<1>5. QED
  BY <1>2, <1>3, <1>4, Zenon

\* Only Sign makes a receipt, for a record it has seen and whose event is its own.
LEMMA ReceiptedStays == ArchiveInv /\ [Archive!Next]_Archive!vars => Receipted'
<1> SUFFICES ASSUME ArchiveInv, [Archive!Next]_Archive!vars, NEW r \in receipts'
             PROVE  /\ r.x \in Submitted
                    /\ Held(r.x)'
                    /\ ledger'[r.x.e] = r.x
                    /\ ~Archive!Historical(r.x) => r.exp = ManifestOf(r.x)'.exp
  BY Zenon DEF Receipted
<1> USE DEF ArchiveInv
<1>1. Kept
  BY StoresKeep, Zenon
<1>2. CASE r \in receipts
  <2>1. r.x \in Submitted /\ Held(r.x) /\ ledger[r.x.e] = r.x /\ r.x.e \in Archive!Events
    BY <1>2, Keys, Zenon DEF Receipted
  <2>2. Held(r.x)' /\ ManifestOf(r.x)' = ManifestOf(r.x)
    BY <1>1, <2>1, HeldStays, Zenon
  <2>3. ledger'[r.x.e] = r.x
    BY <1>1, <2>1 DEF Kept, ArchiveConstants
  <2>4. QED
    BY <1>2, <2>2, <2>3, Zenon DEF Receipted
<1>3. CASE r \notin receipts
  <2>1. PICK q \in Requests : Archive!Sign(q)
    BY <1>3, Zenon
    DEF Archive!Next, Archive!Step, Archive!vars, Archive!Stores, Archive!Submit,
        Archive!ReadLedger,
       Archive!FindManifest, Archive!Protect, Archive!CreatePart, Archive!CreateManifest,
       Archive!PutManifest, Archive!Reconcile, Archive!Lookup, Archive!PutLost, Archive!Unavailable,
       Archive!ReadOriginal, Archive!Tick
  <2>2. PICK x \in Submitted : x = req[q].x
    BY <2>1, Zenon DEF Archive!Sign, ArchiveShape
  <2>3. r = [x |-> x, exp |-> Archive!Validity(x, Archive!M(q))] /\ ledger'[x.e] = x
    BY <1>3, <2>1, <2>2, Zenon DEF Archive!Sign, Archive!Claimed
  <2>4. Held(x)
    BY <2>1, <2>2, Zenon DEF Archive!Sign, ArchiveSeen
  <2>5. Held(x)' /\ ManifestOf(x)' = ManifestOf(x)
    BY <1>1, <2>4, HeldStays, Zenon
  <2>6. ~Archive!Historical(x) => r.exp = ManifestOf(x).exp
    BY <2>2, <2>3, Zenon DEF Archive!Validity, Archive!M, ManifestOf
  <2>7. QED
    BY <2>3, <2>5, <2>6, Zenon
<1>4. QED
  BY <1>2, <1>3, Zenon

\* Only ReadOriginal releases, on a receipt that has not expired.
LEMMA ReleasedStays == ArchiveInv /\ [Archive!Next]_Archive!vars => Released'
<1> SUFFICES ASSUME ArchiveInv, [Archive!Next]_Archive!vars, NEW d \in reads'
             PROVE  /\ d.x \in Submitted
                    /\ ~Archive!Historical(d.x)
                    /\ ManifestOf(d.x)'.x = d.x
                    /\ d.at < ManifestOf(d.x)'.exp
  BY Zenon DEF Released
<1> USE DEF ArchiveInv
<1>1. Kept
  BY StoresKeep, Zenon
<1>2. CASE d \in reads
  <2>1. /\ d.x \in Submitted /\ ~Archive!Historical(d.x)
        /\ ManifestOf(d.x).x = d.x /\ d.at < ManifestOf(d.x).exp
        /\ d.x.e \in Archive!Events /\ Archive!ArchiveFor(d.x) \in Archive!Buckets
    BY <1>2, Keys, Zenon DEF Released
  <2>2. ManifestOf(d.x) # Archive!NoManifest
    BY <2>1 DEF ArchiveConstants, Archive!NoManifest
  <2>3. ManifestOf(d.x)' = ManifestOf(d.x)
    BY <1>1, <2>1, <2>2, Zenon DEF Kept, ManifestOf
  <2>4. QED
    BY <2>1, <2>3, Zenon
<1>3. CASE d \notin reads
  <2>1. PICK r \in receipts : Archive!ReadOriginal(r)
    BY <1>3, Zenon
    DEF Archive!Next, Archive!Step, Archive!vars, Archive!Stores, Archive!Submit,
        Archive!ReadLedger,
       Archive!FindManifest, Archive!Protect, Archive!CreatePart, Archive!CreateManifest,
       Archive!PutManifest, Archive!Reconcile, Archive!Sign, Archive!Lookup, Archive!PutLost,
       Archive!Unavailable, Archive!Tick
  <2>2. d = [x |-> r.x, at |-> now] /\ r.x.kind = "intent" /\ now < r.exp
    BY <1>3, <2>1, Zenon DEF Archive!ReadOriginal, Archive!Proves
  <2>3. r.x \in Submitted /\ Held(r.x) /\ ~Archive!Historical(r.x) /\ r.exp = ManifestOf(r.x).exp
    BY <2>2, Zenon DEF Receipted, Archive!Historical
  <2>4. ManifestOf(r.x)' = ManifestOf(r.x)
    BY <1>1, <2>3, HeldStays, Zenon
  <2>5. QED
    BY <2>2, <2>3, <2>4, Zenon DEF Held
<1>4. QED
  BY <1>2, <1>3, Zenon

-----------------------------------------------------------------------------
\* The invariant says what the properties promise.
LEMMA ArchivePromises == ArchiveInv => Archive!ReceiptMeansHeld /\ Archive!PermitKeepsItsExpiry
<1> SUFFICES ASSUME ArchiveInv PROVE Archive!ReceiptMeansHeld /\ Archive!PermitKeepsItsExpiry
  BY Zenon
<1>1. Archive!ReceiptMeansHeld
  BY Zenon DEF ArchiveInv, Receipted, Held, ManifestOf, Archive!ReceiptMeansHeld
<1>2. \A r, s \in receipts : ~Archive!Historical(r.x) /\ r.x = s.x => r.exp = s.exp
  BY Zenon DEF ArchiveInv, Receipted
<1>3. \A d \in reads, r \in receipts : d.x = r.x => d.at < r.exp
  BY Zenon DEF ArchiveInv, Receipted, Released
<1>4. QED
  BY <1>1, <1>2, <1>3, Zenon DEF Archive!PermitKeepsItsExpiry

\* A receipt is true for good, and no retry extends a permit, for any number of
\* requests, records and lost replies (Preserve, reconcile, ensureLedger, Lookup,
\* ReadOriginal).
THEOREM ReceiptsAreForGood ==
    ArchiveConstants /\ Archive!Spec => [](Archive!ReceiptMeansHeld /\ Archive!PermitKeepsItsExpiry)
<1>1. ArchiveConstants /\ Archive!Init => ArchiveInv
  BY ArchiveInit, Zenon
<1>2. ArchiveInv /\ [Archive!Next]_Archive!vars => ArchiveInv'
  BY ShapeStays, SeenStays, ReceiptedStays, ReleasedStays, Zenon DEF ArchiveInv, ArchiveConstants
<1>3. ArchiveInv => Archive!ReceiptMeansHeld /\ Archive!PermitKeepsItsExpiry
  BY ArchivePromises, Zenon
<1>4. QED
  BY <1>1, <1>2, <1>3, PTL DEF Archive!Spec
=============================================================================
