------------------------------- MODULE SignIn -------------------------------
(***************************************************************************)
(* Signing in to one local account of the hub, and the credentials that    *)
(* come of it.                                                             *)
(*                                                                         *)
(* Two steps lead to a session: the password, which buys a short-lived     *)
(* challenge token, and the authenticator code, which buys a session row   *)
(* and a pair of tokens.  Each step reads the account once and then works  *)
(* on that snapshot while the account may change under it: an              *)
(* administrator resets the password, removes the factor, disables the     *)
(* account or changes its role, and the user changes the password from     *)
(* another browser.  What holds everything together is the generation      *)
(* number every token carries, the security revision, and the one guarded  *)
(* UPDATE (RotateSessionRefresh) without which no token is handed out.     *)
(*                                                                         *)
(* A request is a sequence of steps, one for every read or transaction     *)
(* after which another request may run.  A transaction (BEGIN IMMEDIATE)   *)
(* is one step.  Accounts whose password lives in a directory, protected   *)
(* accounts (whose recovery needs an approved change) and shells are not   *)
(* part of this module.                                                    *)
(***************************************************************************)
EXTENDS Naturals, FiniteSets, FiniteSetsExt

CONSTANTS Requests,     \* handlers that may run at the same time
          Sessions,     \* identities of session rows
          Threshold,    \* failures that lock the account
          MaxRevision,  \* bound on changes of the account
          MaxChallenges,\* bound on challenges in clients' hands at a time
          MaxPairs      \* bound on token pairs handed out

VARIABLES
  user,        \* the row of the account
  row,         \* the rows of table sessions
  req,         \* what each request is doing
  challenges,  \* challenge tokens handed out
  pairs,       \* token pairs handed out, in the order of their serials
  blacklist,   \* serials of access tokens revoked by a logout
  used,        \* the authenticator code of this moment was used
  guesses      \* wrong guesses evaluated since the count last started over

vars == <<user, row, req, challenges, pairs, blacklist, used, guesses>>

Min2(a, b) == IF a < b THEN a ELSE b

(***************************************************************************)
(* The row of table users.  A password and an authenticator secret are     *)
(* named by the revision that installed them; 0 is no secret.  temp tells  *)
(* whether the password is a temporary one that must be changed.           *)
(***************************************************************************)
Users == [gen : 0..MaxRevision, rev : 0..MaxRevision, pw : 0..MaxRevision,
          temp : {"no", "live", "expired"},
          secret : 0..MaxRevision, on : BOOLEAN, disabled : BOOLEAN,
          count : 0..Threshold, locked : BOOLEAN]

Rows == [state : {"free", "live", "ended"},
         why : {"", "logout", "revoked", "password_changed", "mfa_reset", "expired"},
         refresh : 0..MaxPairs, idle : BOOLEAN]

Free == [state |-> "free", why |-> "", refresh |-> 0, idle |-> FALSE]

Challenges == [kind : {"totp", "setup", "recovery"}, gen : 0..MaxRevision,
               pw : 0..MaxRevision]

\* prev is the serial of the refresh token that was spent for this pair, 0 at
\* sign-in; pw, secret and via remember what the sign-in showed.
Pairs == [sid : Sessions, serial : 1..MaxPairs, prev : 0..MaxPairs, gen : 0..MaxRevision,
          pw : 0..MaxRevision, secret : 0..MaxRevision, via : {"login", "enable"}]

Idle == [at |-> "idle"]

\* An account an administrator made or reset has a temporary password; one that
\* was set up has an authenticator.
Init ==
  /\ \E secret \in {0, 1}, on, disabled \in BOOLEAN, temp \in {"no", "live"} :
       /\ on => secret = 1
       /\ user = [gen |-> 0, rev |-> 1, pw |-> 0, temp |-> temp, secret |-> secret, on |-> on,
                  disabled |-> disabled, count |-> 0, locked |-> FALSE]
  /\ row = [s \in Sessions |-> Free]
  /\ req = [r \in Requests |-> Idle]
  /\ challenges = {}
  /\ pairs = {}
  /\ blacklist = {}
  /\ used = FALSE
  /\ guesses = 0

\* The refusals both sign-in steps share, in the order of the code: a disabled
\* account, then a locked one.
Refused(u) == u.disabled \/ u.locked

\* What a request keeps of the row it read.
Snap(u) == [gen |-> u.gen, rev |-> u.rev, pw |-> u.pw, temp |-> u.temp, secret |-> u.secret, on |-> u.on]

\* lockout.NextState for a failure now.  A count older than the window is worth
\* nothing (WindowPasses sets it to 0), and the count saturates at the
\* threshold, the only value it is compared with.
NextState(u) ==
  LET count == Min2(u.count + 1, Threshold)
  IN  [u EXCEPT !.count = count, !.locked = @ \/ count >= Threshold]

\* store.RecordLoginFailure, on the row as it is by now.
RecordLoginFailure ==
  /\ user' = NextState(user)
  /\ guesses' = guesses + 1

\* store.RecordLoginSuccess, on the row as it is by now.
RecordLoginSuccess ==
  /\ user' = [user EXCEPT !.count = 0, !.locked = FALSE]
  /\ guesses' = 0

\* The session a request works with.
Session(q) == IF "sid" \in DOMAIN q THEN q.sid ELSE IF "pair" \in DOMAIN q THEN q.pair.sid ELSE "none"

\* A challenge token goes to the client.
Challenge(c) ==
  /\ challenges' = challenges \cup {c}
  /\ Cardinality(challenges') <= MaxChallenges

Go(r, to) == req' = [req EXCEPT ![r] = to]
Done(r) == Go(r, Idle)

(***************************************************************************)
(* The first step: the password.                                           *)
(***************************************************************************)
\* handleLogin reads the account and refuses it before it looks at the password.
LoginRead(r) ==
  /\ req[r] = Idle
  /\ ~Refused(user)
  /\ Go(r, [at |-> "password", snap |-> Snap(user)])
  /\ UNCHANGED <<user, row, challenges, pairs, blacklist, used, guesses>>

\* The password is right.  An expired temporary one is refused; otherwise
\* respondAfterPrimaryLogin hands out a challenge for the generation it read.
LoginRight(r) ==
  /\ req[r].at = "password"
  /\ LET u == req[r].snap
     IN  IF u.temp = "expired" THEN UNCHANGED challenges
         ELSE Challenge([kind |-> IF u.on THEN "totp" ELSE "setup", gen |-> u.gen, pw |-> u.pw])
  /\ Done(r)
  /\ UNCHANGED <<user, row, pairs, blacklist, used, guesses>>

LoginWrong(r) ==
  /\ req[r].at = "password"
  /\ RecordLoginFailure
  /\ Done(r)
  /\ UNCHANGED <<row, challenges, pairs, blacklist, used>>

(***************************************************************************)
(* The second step: the authenticator code.                                *)
(***************************************************************************)

\* A challenge counts only for the generation it was made for.
Stands(c, u) == c.gen = u.gen /\ u.temp # "expired"

TOTPRead(r) ==
  /\ req[r] = Idle
  /\ \E c \in challenges :
       /\ c.kind = "totp"
       /\ Stands(c, user)
       /\ ~Refused(user)
       /\ Go(r, [at |-> "code", snap |-> Snap(user), pw |-> c.pw])
  /\ UNCHANGED <<user, row, challenges, pairs, blacklist, used, guesses>>

\* ValidateTOTPWithReplayAt accepts the code and marks it in one step.  A
\* temporary password leads to the recovery challenge and to no session.
TOTPRight(r) ==
  /\ req[r].at = "code"
  /\ req[r].snap.on
  /\ ~used
  /\ used' = TRUE
  /\ LET q == req[r]
     IN  IF q.snap.temp = "no"
           THEN /\ Go(r, [at |-> "success", snap |-> q.snap, pw |-> q.pw, via |-> "login"])
                /\ UNCHANGED challenges
           ELSE /\ Challenge([kind |-> "recovery", gen |-> q.snap.gen, pw |-> q.pw])
                /\ Done(r)
  /\ UNCHANGED <<user, row, pairs, blacklist, guesses>>

\* A wrong code, and a code that was used before, are counted alike.
TOTPWrong(r) ==
  /\ req[r].at = "code"
  /\ RecordLoginFailure
  /\ Done(r)
  /\ UNCHANGED <<row, challenges, pairs, blacklist, used>>

Succeed(r) ==
  /\ req[r].at = "success"
  /\ RecordLoginSuccess
  /\ Go(r, [req[r] EXCEPT !.at = IF @ = "success" /\ req[r].via = "enable" THEN "reread" ELSE "session"])
  /\ UNCHANGED <<row, challenges, pairs, blacklist, used>>

\* newSession inserts the row without looking at the account again.
NewSession(r) ==
  /\ req[r].at = "session"
  /\ \E s \in Sessions :
       /\ row[s].state = "free"
       /\ row' = [row EXCEPT ![s] = [Free EXCEPT !.state = "live"]]
       /\ Go(r, [at |-> "issue", snap |-> req[r].snap, sid |-> s,
                 from |-> [serial |-> 0, pw |-> req[r].pw, secret |-> req[r].snap.secret, via |-> req[r].via]])
  /\ UNCHANGED <<user, challenges, pairs, blacklist, used, guesses>>

(***************************************************************************)
(* RotateSessionRefresh: one UPDATE that names everything it relies on.    *)
(***************************************************************************)
\* What would let a refresh token be spent twice: the row's digest is replaced
\* without being compared.
Spendable_Any(s, serial) == TRUE

\* The digest on the row is that of the token being spent, or none yet.
Spendable(s, serial) == row[s].refresh \in {serial, 0}

\* The account is still the one that was read.
SameAccount(snap) ==
  /\ user.gen = snap.gen /\ user.rev = snap.rev
  /\ ~user.disabled /\ user.on
  /\ user.temp = "no" /\ snap.temp = "no"

Rotates(r) ==
  LET q == req[r]
  IN  /\ row[q.sid].state = "live" /\ ~row[q.sid].idle
      /\ Spendable(q.sid, q.from.serial)
      /\ SameAccount(q.snap)

\* issueSessionTokens: the pair exists only once the row names its refresh token.
Issue(r) ==
  /\ req[r].at = "issue"
  /\ LET q == req[r]
         next == Max({p.serial : p \in pairs} \cup {0}) + 1
     IN  IF Rotates(r)
           THEN /\ next <= MaxPairs
                /\ row' = [row EXCEPT ![q.sid].refresh = next]
                /\ pairs' = pairs \cup
                     {[sid |-> q.sid, serial |-> next, prev |-> q.from.serial, gen |-> q.snap.gen,
                       pw |-> q.from.pw, secret |-> q.from.secret, via |-> q.from.via]}
           ELSE UNCHANGED <<row, pairs>>
  /\ Done(r)
  /\ UNCHANGED <<user, challenges, blacklist, used, guesses>>

(***************************************************************************)
(* Using and refreshing what was handed out.                               *)
(***************************************************************************)
\* The account accepts a pair: its generation is current, the account enabled
\* and its password not temporary.
Accepts(p) == p.gen = user.gen /\ user.temp = "no" /\ ~user.disabled

\* handleRefresh and authenticateRequestToken read the account first and the
\* session afterwards.
RefreshRead(r) ==
  /\ req[r] = Idle
  /\ \E p \in pairs :
       /\ Accepts(p)
       /\ Go(r, [at |-> "refresh", snap |-> Snap(user), pair |-> p])
  /\ UNCHANGED <<user, row, challenges, pairs, blacklist, used, guesses>>

AuthRead(r) ==
  /\ req[r] = Idle
  /\ \E p \in pairs :
       /\ p.serial \notin blacklist
       /\ Accepts(p)
       /\ Go(r, [at |-> "auth", pair |-> p])
  /\ UNCHANGED <<user, row, challenges, pairs, blacklist, used, guesses>>

\* checkSessionAccess: an ended row refuses, an idle one is marked expired by
\* the first to notice, and a live one lets the request through.
CheckSession(r) ==
  /\ req[r].at \in {"refresh", "auth"}
  /\ LET q == req[r]
         s == q.pair.sid
         ok == row[s].state = "live" /\ ~row[s].idle
     IN  /\ row' = IF row[s].state = "live" /\ row[s].idle
                     THEN [row EXCEPT ![s].state = "ended", ![s].why = "expired"] ELSE row
         /\ \/ ok /\ q.at = "refresh"
               /\ Go(r, [at |-> "issue", snap |-> q.snap, sid |-> s, from |-> q.pair])
            \/ ok /\ q.at = "auth" /\ Go(r, [at |-> "served", pair |-> q.pair])
            \/ ~ok /\ Done(r)
  /\ UNCHANGED <<user, challenges, pairs, blacklist, used, guesses>>

Served(r) ==
  /\ req[r].at = "served"
  /\ Done(r)
  /\ UNCHANGED <<user, row, challenges, pairs, blacklist, used, guesses>>

(***************************************************************************)
(* What ends credentials.                                                  *)
(***************************************************************************)
End(rows, which, why) ==
  [s \in Sessions |-> IF s \in which /\ rows[s].state = "live"
                        THEN [rows[s] EXCEPT !.state = "ended", !.why = why] ELSE rows[s]]

\* revokeCredentialAuthorityConn ends every session and forgets its digest.
Revoke(why) ==
  row' = [s \in Sessions |->
            IF row[s].state = "live"
              THEN [row[s] EXCEPT !.state = "ended", !.why = why, !.refresh = 0] ELSE row[s]]

\* Any change of a credential column raises the security revision (a trigger).
CanChange == user.rev < MaxRevision

Changed(u) == [u EXCEPT !.rev = user.rev + 1]
NewPassword(u, temp) == [Changed(u) EXCEPT !.gen = user.gen + 1, !.pw = user.rev + 1, !.temp = temp]
NoFactor(u) == [Changed(u) EXCEPT !.gen = user.gen + 1, !.secret = 0, !.on = FALSE]

\* samePasswordSnapshot, with the generation the token carries.
SameSnapshot(snap) ==
  /\ user.gen = snap.gen /\ user.rev = snap.rev /\ user.pw = snap.pw
  /\ user.on = snap.on /\ user.secret = snap.secret /\ user.temp = snap.temp

\* handleChangePassword: the account is read, the current password compared.
ChangeRead(r) ==
  /\ req[r].at = "served"
  /\ user.gen = req[r].pair.gen
  /\ Go(r, [at |-> "change", snap |-> Snap(user), sid |-> req[r].pair.sid])
  /\ UNCHANGED <<user, row, challenges, pairs, blacklist, used, guesses>>

\* ChangeLocalPassword, whose guard reads the owning session as well.
ChangeCommit(r) ==
  /\ req[r].at = "change"
  /\ LET q == req[r]
     IN  IF /\ SameSnapshot(q.snap) /\ ~user.disabled
            /\ row[q.sid].state = "live" /\ ~row[q.sid].idle
           THEN CanChange /\ user' = NewPassword(user, "no") /\ Revoke("password_changed")
           ELSE UNCHANGED <<user, row>>
  /\ Done(r)
  /\ UNCHANGED <<challenges, pairs, blacklist, used, guesses>>

\* handleCompletePasswordRecovery: the challenge of a temporary password.
RecoveryRead(r) ==
  /\ req[r] = Idle
  /\ \E c \in challenges :
       /\ c.kind = "recovery"
       /\ Stands(c, user) /\ user.temp = "live" /\ user.on /\ ~user.disabled
       /\ Go(r, [at |-> "recover", snap |-> Snap(user)])
  /\ UNCHANGED <<user, row, challenges, pairs, blacklist, used, guesses>>

RecoveryCommit(r) ==
  /\ req[r].at = "recover"
  /\ IF SameSnapshot(req[r].snap) /\ ~user.disabled /\ user.temp = "live"
       THEN CanChange /\ user' = NewPassword(user, "no") /\ Revoke("password_changed")
       ELSE UNCHANGED <<user, row>>
  /\ Done(r)
  /\ UNCHANGED <<challenges, pairs, blacklist, used, guesses>>

(***************************************************************************)
(* Setting up the authenticator.                                           *)
(***************************************************************************)
\* handleTOTPSetup stores a new secret, not yet enabled; its transaction
\* repeats the check of the generation.
TOTPSetup ==
  /\ CanChange
  /\ \E c \in challenges : c.kind = "setup" /\ Stands(c, user)
  /\ ~user.disabled /\ ~user.on
  /\ user' = [Changed(user) EXCEPT !.secret = user.rev + 1]
  /\ UNCHANGED <<row, req, challenges, pairs, blacklist, used, guesses>>

EnableRead(r) ==
  /\ req[r] = Idle
  /\ \E c \in challenges :
       /\ c.kind = "setup" /\ Stands(c, user)
       /\ ~user.disabled /\ ~user.on /\ user.secret # 0
       /\ Go(r, [at |-> "enable", snap |-> Snap(user)])
  /\ UNCHANGED <<user, row, challenges, pairs, blacklist, used, guesses>>

\* CompleteTOTPSetup: the first factor, together with the replacement of a
\* temporary password when there is one.
EnableCommit(r) ==
  /\ req[r].at = "enable"
  /\ ~used
  /\ used' = TRUE
  /\ LET on(u) == [Changed(u) EXCEPT !.on = TRUE]
     IN  IF SameSnapshot(req[r].snap) /\ ~user.disabled /\ ~user.on /\ user.temp # "expired"
           THEN /\ CanChange
                /\ \/ user.temp = "no" /\ user' = on(user) /\ UNCHANGED row
                   \/ user.temp = "live" /\ user' = on(NewPassword(user, "no")) /\ Revoke("password_changed")
                /\ Go(r, [at |-> "success", snap |-> Snap(user'), pw |-> user'.pw, via |-> "enable"])
           ELSE UNCHANGED <<user, row>> /\ Done(r)
  /\ UNCHANGED <<challenges, pairs, blacklist, guesses>>

EnableWrong(r) ==
  /\ req[r].at = "enable"
  /\ Done(r)
  /\ UNCHANGED <<user, row, challenges, pairs, blacklist, used, guesses>>

\* The handler reads the account again before it makes the session.
EnableReread(r) ==
  /\ req[r].at = "reread"
  /\ IF user.on /\ user.temp = "no"
       THEN Go(r, [at |-> "session", snap |-> Snap(user), pw |-> req[r].pw, via |-> "enable"])
       ELSE Done(r)
  /\ UNCHANGED <<user, row, challenges, pairs, blacklist, used, guesses>>

(***************************************************************************)
(* Administrators.                                                         *)
(***************************************************************************)
ResetPassword ==
  /\ CanChange
  /\ user' = NewPassword(user, "live")
  /\ Revoke("password_changed")
  /\ UNCHANGED <<req, challenges, pairs, blacklist, used, guesses>>

DisableTOTP ==
  /\ CanChange
  /\ user' = NoFactor(user)
  /\ Revoke("mfa_reset")
  /\ UNCHANGED <<req, challenges, pairs, blacklist, used, guesses>>

\* ResetLocalTOTPBreakGlass, run from the hub's shell.
BreakGlass ==
  /\ CanChange
  /\ user' = NoFactor(NewPassword(user, "live"))
  /\ Revoke("mfa_reset")
  /\ UNCHANGED <<req, challenges, pairs, blacklist, used, guesses>>

DisableUser ==
  /\ CanChange /\ ~user.disabled
  /\ user' = [Changed(user) EXCEPT !.gen = @ + 1, !.disabled = TRUE]
  /\ row' = End(row, Sessions, "revoked")
  /\ UNCHANGED <<req, challenges, pairs, blacklist, used, guesses>>

EnableUser ==
  /\ CanChange /\ user.disabled
  /\ user' = [Changed(user) EXCEPT !.disabled = FALSE, !.locked = FALSE, !.count = 0]
  /\ guesses' = 0
  /\ UNCHANGED <<row, req, challenges, pairs, blacklist, used>>

UnlockUser ==
  /\ user.locked
  /\ user' = [user EXCEPT !.locked = FALSE, !.count = 0]
  /\ guesses' = 0
  /\ UNCHANGED <<row, req, challenges, pairs, blacklist, used>>

\* A change of role ends no session: the generation alone makes its tokens void.
UpdateUserRole ==
  /\ CanChange
  /\ user' = [Changed(user) EXCEPT !.gen = @ + 1]
  /\ UNCHANGED <<row, req, challenges, pairs, blacklist, used, guesses>>

\* endSessions for one session, for all, or for all but the caller's own.
EndSessions ==
  /\ \E which \in SUBSET Sessions :
       /\ \E s \in which : row[s].state = "live"
       /\ row' = End(row, which, "revoked")
  /\ UNCHANGED <<user, req, challenges, pairs, blacklist, used, guesses>>

\* handleLogout needs nothing but a token this hub signed.
Logout ==
  /\ \E p \in pairs :
       /\ row[p.sid].state = "live" /\ row[p.sid].refresh = p.serial
       /\ blacklist' = blacklist \cup {p.serial}
       /\ row' = End(row, {p.sid}, "logout")
  /\ UNCHANGED <<user, req, challenges, pairs, used, guesses>>

(***************************************************************************)
(* Time and restarts.                                                      *)
(***************************************************************************)
\* A lock that has run out lets attempts in; the count stays until the window
\* has passed, or a success sets it back.
LockExpires ==
  /\ user.locked
  /\ user' = [user EXCEPT !.locked = FALSE]
  /\ guesses' = 0
  /\ UNCHANGED <<row, req, challenges, pairs, blacklist, used>>

WindowPasses ==
  /\ user.count > 0
  /\ user' = [user EXCEPT !.count = 0]
  /\ guesses' = 0
  /\ UNCHANGED <<row, req, challenges, pairs, blacklist, used>>

TemporaryPasswordExpires ==
  /\ user.temp = "live"
  /\ user' = [user EXCEPT !.temp = "expired"]
  /\ UNCHANGED <<row, req, challenges, pairs, blacklist, used, guesses>>

ChallengeExpires ==
  /\ \E c \in challenges : challenges' = challenges \ {c}
  /\ UNCHANGED <<user, row, req, pairs, blacklist, used, guesses>>

NextCode ==
  /\ used
  /\ used' = FALSE
  /\ UNCHANGED <<user, row, req, challenges, pairs, blacklist, guesses>>

SessionIdles(s) ==
  /\ row[s].state = "live" /\ ~row[s].idle
  /\ row' = [row EXCEPT ![s].idle = TRUE]
  /\ UNCHANGED <<user, req, challenges, pairs, blacklist, used, guesses>>

\* PruneEndedSessions, a month after the end: the tokens that named the session
\* have expired long before, and so has what the blacklist knew of them.
PruneEndedSessions(s) ==
  LET old == {p \in pairs : p.sid = s}
  IN  /\ row[s].state = "ended"
      /\ \A r \in Requests : Session(req[r]) # s
      /\ row' = [row EXCEPT ![s] = Free]
      /\ pairs' = pairs \ old
      /\ blacklist' = blacklist \ {p.serial : p \in old}
      /\ UNCHANGED <<user, req, challenges, used, guesses>>

\* The hub restarts: requests are gone and so is the memory of used codes; the
\* blacklist is read back from its table.
Restart ==
  /\ req' = [r \in Requests |-> Idle]
  /\ used' = FALSE
  /\ UNCHANGED <<user, row, challenges, pairs, blacklist, guesses>>

Step(r) ==
  \/ LoginRead(r) \/ LoginRight(r) \/ LoginWrong(r)
  \/ TOTPRead(r) \/ TOTPRight(r) \/ TOTPWrong(r) \/ Succeed(r) \/ NewSession(r) \/ Issue(r)
  \/ RefreshRead(r) \/ AuthRead(r) \/ CheckSession(r) \/ Served(r)
  \/ ChangeRead(r) \/ ChangeCommit(r) \/ RecoveryRead(r) \/ RecoveryCommit(r)
  \/ EnableRead(r) \/ EnableCommit(r) \/ EnableWrong(r) \/ EnableReread(r)

Next ==
  \/ \E r \in Requests : Step(r)
  \/ TOTPSetup
  \/ ResetPassword \/ DisableTOTP \/ BreakGlass \/ DisableUser \/ EnableUser \/ UnlockUser
  \/ UpdateUserRole \/ EndSessions \/ Logout
  \/ LockExpires \/ WindowPasses \/ TemporaryPasswordExpires \/ NextCode \/ ChallengeExpires
  \/ \E s \in Sessions : SessionIdles(s) \/ PruneEndedSessions(s)
  \/ Restart

Spec == Init /\ [][Next]_vars

(***************************************************************************)
(* Properties.                                                             *)
(***************************************************************************)
TypeOK ==
  /\ user \in Users
  /\ row \in [Sessions -> Rows]
  /\ challenges \subseteq Challenges
  /\ pairs \subseteq Pairs
  /\ blacklist \subseteq 1..MaxPairs
  /\ used \in BOOLEAN
  /\ guesses \in Nat

\* A pair that a request made now would be let in with.
Usable(p) == Accepts(p) /\ row[p.sid].state = "live" /\ ~row[p.sid].idle

\* A credential that works was obtained by showing the password and the
\* authenticator the account has now, however the sign-in, the refreshes after
\* it and the changes of the account were interleaved.  (A session made at the
\* end of the authenticator's set-up is left out: its handler reads the account
\* a second time and takes over the generation it finds.)
UsableMatchesAccount ==
  \A p \in pairs : Usable(p) /\ p.via = "login" =>
     p.pw = user.pw /\ p.secret = user.secret /\ user.on /\ user.temp = "no"

\* A refresh token is spent once: the pairs of a session form one line, however
\* many refreshes with the same token run at the same time.
RefreshSpentOnce ==
  \A p, q \in pairs : p.sid = q.sid /\ p.prev = q.prev => p = q

\* The lock bounds guessing: between two moments at which the count starts over,
\* no more wrong passwords and codes are evaluated than the threshold allows
\* plus the requests that had passed the check before the lock fell.
GuessesAreBounded == guesses <= Threshold + Cardinality(Requests) - 1

=============================================================================
