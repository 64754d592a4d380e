--------------------------- MODULE CliCredentials ---------------------------
(***************************************************************************)
(* The credentials the command line client keeps for one Hub              *)
(* (cli/internal/auth/store.go, refresh.go, login.go) and the commands     *)
(* that read and write them (cli/internal/commands).                       *)
(*                                                                         *)
(* A refresh token can be spent once.  Commands of several shells run side *)
(* by side, each a process of its own: a command re-reads the stored token *)
(* under an advisory lock, spends it at the Hub and stores the rotated one *)
(* before it uses the access token that came with it.  "vey login",        *)
(* "vey logout" and "vey ssh-cert" write the same record without taking    *)
(* that lock.  A write reads the whole record, replaces one half and       *)
(* writes the whole record back: in one call to the keyring, or to a       *)
(* temporary file of a fixed name which is then renamed.                   *)
(***************************************************************************)
EXTENDS Naturals, FiniteSets, FiniteSetsExt

CONSTANTS Procs,        \* processes of the client that may run at one time
          NoProc,       \* not a process: nobody holds the lock
          Kinds,        \* the commands users start
          Alone,        \* login, logout and ssh-cert overlap no other command
          MaxStarts,    \* bound: commands started
          MaxSessions,  \* bound: sessions the Hub opens
          MaxFaults     \* bound: lost replies, failed writes, killed processes

VARIABLES backend,  \* which store the keyring probe selected
          gen,      \* the Hub: the generation of each session's token
          content,  \* what the keyring or the files (by inode) hold
          cred,     \* the inode credentials.json names
          tmp,      \* the inode credentials.json.tmp names, or NoFile
          lock,     \* the holder of the flock on credentials.lock
          proc,     \* the running commands
          starts, faults,
          signedIn, \* the session the last completed login stored, 0 none
          lost      \* its rotated token was lost with a reply or a process

store == <<content, cred, tmp>>
vars == <<backend, gen, store, lock, proc, starts, faults, signedIn, lost>>

NoFile == 0

\* A session the Hub has not opened yet, and one it has ended.
NotOpened == 0
Ended == 99

Inodes == 1 .. Cardinality(Procs) + 2

\* A token names the Hub session it belongs to and its generation.
NoToken == [s |-> 0, g |-> 0]
Entry(t, ssh) == [t |-> t, ssh |-> ssh]

\* No record for the Hub.  An empty file decodes to the same thing.
NoEntry == Entry(NoToken, FALSE)

\* The bytes of two writers in one file: not JSON.
Torn == Entry([s |-> 99, g |-> 99], FALSE)

Idle == [kind |-> "none", pc |-> "idle", t |-> NoToken, pair |-> NoToken,
         entry |-> NoEntry, f |-> NoFile, access |-> 0, left |-> 0,
         again |-> FALSE, newer |-> FALSE]

Writers == {"login", "logout", "ssh-cert"}

TypeOK ==
    /\ backend \in {"keyring", "file"}
    /\ gen \in [1 .. MaxSessions -> Nat]
    /\ cred \in Inodes /\ tmp \in Inodes \cup {NoFile}
    /\ lock \in Procs \cup {NoProc}
    /\ \A p \in Procs : proc[p].f \in Inodes \cup {NoFile}
    /\ signedIn \in 0 .. MaxSessions

\* A user signed in earlier, with or without a certificate.
Init ==
    /\ backend \in {"keyring", "file"}
    /\ gen = [s \in 1 .. MaxSessions |-> IF s = 1 THEN 1 ELSE 0]
    /\ \E ssh \in BOOLEAN :
          content = [i \in Inodes |->
                        IF i = 1 THEN Entry([s |-> 1, g |-> 1], ssh)
                                 ELSE NoEntry]
    /\ cred = 1 /\ tmp = NoFile
    /\ lock = NoProc
    /\ proc = [p \in Procs |-> Idle]
    /\ starts = 0 /\ faults = 0
    /\ signedIn = 1 /\ lost = FALSE

Stored == content[cred]
Open(s) == gen[s] \notin {NotOpened, Ended}
Live(t) == t \notin {NoToken, Torn.t} /\ Open(t.s) /\ gen[t.s] = t.g

At(p, pc) == proc[p].pc = pc
Become(p, r) == proc' = [proc EXCEPT ![p] = r]
Goto(p, pc) == Become(p, [proc[p] EXCEPT !.pc = pc])
Release_Held(p) == UNCHANGED lock
Release(p) == lock' = IF lock = p THEN NoProc ELSE lock

Fault == faults < MaxFaults /\ faults' = faults + 1

\* A failed command ends; logout only warns and removes the record all the
\* same.
Failed(p) ==
    IF proc[p].kind = "logout"
    THEN [Idle EXCEPT !.kind = "logout", !.pc = "delete"] ELSE Idle

Fails(p) == Become(p, Failed(p)) /\ Release(p)

(***************************************************************************)
(* Starting a command: the mode is resolved from the stored record.        *)
(***************************************************************************)

\* Users keep the unlocked writers apart from other commands (Alone).
MayStart(k) ==
    Alone => /\ k \in Writers => \A q \in Procs : At(q, "idle")
             /\ \A q \in Procs : proc[q].kind \notin Writers

\* A server is looked up by its id and, when that finds nothing, by its name.
ResolveServer == {1, 2}

\* The Hub requests of a command: ssh-cert asks for the host key and then for
\* the certificate, ssh resolves the server and asks for the host key.
Requests(k) ==
    CASE k = "ssh-cert" -> {2}
      [] k = "ssh" -> {n + 1 : n \in ResolveServer}
      [] OTHER -> {1}

\* ssh needs a stored key with its certificate.
LoadSSHCredential(k) == k = "ssh" => Stored.ssh

\* A corrupt record is an error, no token means not signed in, and in both
\* cases the command ends at once.
Resolve(p, k) ==
    /\ proc[p].kind = "none" /\ k # "login"
    /\ starts < MaxStarts /\ starts' = starts + 1
    /\ MayStart(k)
    /\ IF Stored # Torn /\ Stored.t # NoToken /\ LoadSSHCredential(k)
       THEN \E n \in Requests(k) :
               Become(p, [Idle EXCEPT !.kind = k, !.pc = "client", !.left = n])
       ELSE UNCHANGED proc
    /\ UNCHANGED <<backend, gen, store, lock, faults, signedIn, lost>>

\* The three legs of a sign-in: the Hub opens a session, or refuses.
Login(p) ==
    /\ proc[p].kind = "none"
    /\ starts < MaxStarts /\ starts' = starts + 1
    /\ MayStart("login")
    /\ \/ \E s \in 1 .. MaxSessions :
             /\ gen[s] = NotOpened
             /\ gen' = [gen EXCEPT ![s] = 1]
             /\ Become(p, [Idle EXCEPT !.kind = "login", !.pc = "read",
                                       !.pair = [s |-> s, g |-> 1]])
       \/ UNCHANGED <<gen, proc>>
    /\ UNCHANGED <<backend, store, lock, faults, signedIn, lost>>

(***************************************************************************)
(* AuthContext.refresh                                                     *)
(***************************************************************************)

\* A process has no access token until it has spent the stored one.
Client(p) ==
    /\ At(p, "client")
    /\ Goto(p, IF proc[p].access = 0 THEN "locking" ELSE "call")
    /\ UNCHANGED <<backend, gen, store, lock, starts, faults, signedIn, lost>>

Unlocked_Never == TRUE
Unlocked == lock = NoProc

LockRefresh(p) ==
    /\ At(p, "locking") /\ Unlocked
    /\ lock' = p
    /\ Goto(p, "load")
    /\ UNCHANGED <<backend, gen, store, starts, faults, signedIn, lost>>

LoadSession(p) ==
    /\ At(p, "load")
    /\ IF Stored # Torn /\ Stored.t # NoToken
       THEN /\ Become(p, [proc[p] EXCEPT !.pc = "post", !.t = Stored.t,
                                         !.newer = FALSE])
            /\ UNCHANGED lock
       ELSE Fails(p)
    /\ UNCHANGED <<backend, gen, store, starts, faults, signedIn, lost>>

\* The Hub rotates a live token and refuses any other one (401).
Rotate(p) ==
    /\ At(p, "post")
    /\ LET t == proc[p].t
           n == [s |-> t.s, g |-> t.g + 1] IN
       IF Live(t)
       THEN /\ gen' = [gen EXCEPT ![t.s] = n.g]
            /\ Become(p, [proc[p] EXCEPT !.pc = "read", !.pair = n])
            /\ UNCHANGED lock
       ELSE /\ UNCHANGED gen
            /\ IF proc[p].newer THEN Fails(p)
               ELSE Goto(p, "newer") /\ UNCHANGED lock
    /\ UNCHANGED <<backend, store, starts, faults, signedIn, lost>>

\* The request fails: the Hub never had it, or its reply is lost after the
\* rotation.
RotateLost(p) ==
    /\ At(p, "post") /\ Fault
    /\ Fails(p)
    /\ LET t == proc[p].t IN
       \/ UNCHANGED <<gen, lost>>
       \/ /\ Live(t)
          /\ gen' = [gen EXCEPT ![t.s] = t.g + 1]
          /\ lost' = (lost \/ t.s = signedIn)
    /\ UNCHANGED <<backend, store, starts, signedIn>>

\* After a refusal a token other than the refused one is tried, once.
NewerSession(p) ==
    /\ At(p, "newer")
    /\ IF Stored # Torn /\ Stored.t \notin {NoToken, proc[p].t}
       THEN /\ Become(p, [proc[p] EXCEPT !.pc = "post", !.t = Stored.t,
                                         !.newer = TRUE])
            /\ UNCHANGED lock
       ELSE Fails(p)
    /\ UNCHANGED <<backend, gen, store, starts, faults, signedIn, lost>>

(***************************************************************************)
(* Writing the record                                                      *)
(***************************************************************************)

\* Save replaces the session, SaveSSH the certificate; each keeps the half it
\* does not own.  Delete leaves no record.
Applied(p, e) ==
    IF proc[p].pair # NoToken THEN Entry(proc[p].pair, e.ssh)
    ELSE IF proc[p].kind = "ssh-cert" THEN Entry(e.t, TRUE) ELSE NoEntry

\* update reads first, and a corrupt file stops the write: the pair a refresh
\* could not store is lost.
UpdateRead(p) ==
    /\ At(p, "read")
    /\ IF Stored = Torn
       THEN /\ Fails(p)
            /\ lost' = (lost \/ proc[p].pair.s = signedIn)
       ELSE /\ Become(p, [proc[p] EXCEPT !.entry = Applied(p, Stored),
                          !.pc = IF backend = "file" THEN "open" ELSE "set"])
            /\ UNCHANGED <<lock, lost>>
    /\ UNCHANGED <<backend, gen, store, starts, faults, signedIn>>

\* A logout removes the record if there is one: in the keyring with one call,
\* in the file by writing it anew.
KeyringDelete(p) ==
    /\ At(p, "delete") /\ backend = "keyring"
    /\ signedIn' = 0
    /\ content' = [content EXCEPT ![cred] = NoEntry]
    /\ Become(p, Idle)
    /\ UNCHANGED <<backend, gen, cred, tmp, lock, starts, faults, lost>>

FileDelete(p) ==
    /\ At(p, "delete") /\ backend = "file"
    /\ signedIn' = 0
    /\ Become(p, IF Stored \in {NoEntry, Torn} THEN Idle
                 ELSE [proc[p] EXCEPT !.pc = "open"])
    /\ UNCHANGED <<backend, gen, store, lock, starts, faults, lost>>

\* What the command does once its write is published: a refresh adopts the
\* access token and unlocks, a login is complete, the others end.
Published(p) ==
    LET r == proc[p] IN
    /\ IF r.kind \notin {"login"} /\ r.pair # NoToken
       THEN Become(p, [r EXCEPT !.pc = "call", !.pair = NoToken, !.f = NoFile,
                                !.entry = NoEntry, !.t = NoToken,
                                !.newer = FALSE, !.access = r.pair.s])
       ELSE Become(p, Idle)
    /\ Release(p)
    /\ signedIn' = IF r.kind = "login" THEN r.pair.s ELSE signedIn
    /\ lost' = (lost /\ r.kind # "login")

KeyringSet(p) ==
    /\ At(p, "set")
    /\ content' = [content EXCEPT ![cred] = proc[p].entry]
    /\ Published(p)
    /\ UNCHANGED <<backend, gen, cred, tmp, starts, faults>>

\* O_CREATE|O_TRUNC on the one temporary name: another writer's file is
\* emptied, not replaced.
OpenTemp(p) ==
    /\ At(p, "open")
    /\ LET used == {cred, tmp} \cup {proc[q].f : q \in Procs}
           i == IF tmp # NoFile THEN tmp ELSE Min(Inodes \ used) IN
       /\ tmp' = i
       /\ content' = [content EXCEPT ![i] = NoEntry]
       /\ Become(p, [proc[p] EXCEPT !.pc = "write", !.f = i])
    /\ UNCHANGED <<backend, gen, cred, lock, starts, faults, signedIn, lost>>

\* The bytes go over what another writer put there; a shorter record leaves
\* the other one's end behind.
Halves(e) == (IF e.t # NoToken THEN 1 ELSE 0) + (IF e.ssh THEN 1 ELSE 0)

WriteTemp(p) ==
    /\ At(p, "write")
    /\ LET e == proc[p].entry
           old == content[proc[p].f] IN
       content' = [content EXCEPT ![proc[p].f] =
                     IF old = Torn \/ Halves(e) < Halves(old)
                     THEN Torn ELSE e]
    /\ Goto(p, "rename")
    /\ UNCHANGED <<backend, gen, cred, tmp, lock, starts, faults, signedIn,
                   lost>>

\* The write or the sync fails: the temporary name is removed.
WriteFails(p) ==
    /\ At(p, "write") /\ Fault
    /\ tmp' = NoFile
    /\ lost' = (lost \/ (proc[p].pair # NoToken /\ proc[p].pair.s = signedIn))
    /\ Become(p, Idle) /\ Release(p)
    /\ UNCHANGED <<backend, gen, content, cred, starts, signedIn>>

\* The rename publishes whatever file the temporary name stands for; without
\* one it fails.
Rename(p) ==
    /\ At(p, "rename")
    /\ IF tmp # NoFile
       THEN /\ cred' = tmp /\ tmp' = NoFile
            /\ Published(p)
       ELSE /\ UNCHANGED <<cred, tmp, signedIn>>
            /\ lost' = (lost \/ (proc[p].pair # NoToken
                                 /\ proc[p].pair.s = signedIn))
            /\ Become(p, Idle) /\ Release(p)
    /\ UNCHANGED <<backend, gen, content, starts, faults>>

(***************************************************************************)
(* AuthContext.Do: the command's request, replayed once after a refresh.   *)
(***************************************************************************)

\* What follows the last request: logout removes the record, ssh-cert stores
\* the certificate, everything else is done.
Answered(p) ==
    LET r == proc[p] IN
    CASE r.left > 1 -> [r EXCEPT !.left = @ - 1, !.again = FALSE,
                                 !.pc = "client"]
      [] r.kind = "logout" -> Failed(p)
      [] r.kind = "ssh-cert" -> [r EXCEPT !.pc = "read"]
      [] OTHER -> Idle

\* The Hub serves the access token of a session that has not ended, unless
\* the token aged out; logout ends the session.
Call(p) ==
    /\ At(p, "call")
    /\ LET r == proc[p] IN
       \/ /\ Open(r.access)
          /\ Become(p, Answered(p))
          /\ gen' = IF r.kind = "logout" THEN [gen EXCEPT ![r.access] = Ended]
                    ELSE gen
       \/ /\ Become(p, IF r.again THEN Failed(p)
                       ELSE [r EXCEPT !.again = TRUE, !.pc = "locking"])
          /\ UNCHANGED gen
    /\ UNCHANGED <<backend, store, lock, starts, faults, signedIn, lost>>

\* A process is killed: the kernel drops its lock, what it knew is gone.
Killed(p) ==
    /\ ~At(p, "idle") /\ Fault
    /\ Become(p, Idle) /\ Release(p)
    /\ lost' = (lost \/ (proc[p].pair # NoToken /\ proc[p].pair.s = signedIn))
    /\ signedIn' = IF proc[p].kind = "logout" THEN 0 ELSE signedIn
    /\ UNCHANGED <<backend, gen, store, starts>>

\* The Hub ends a session: an administrator, a timeout, a changed password.
SessionEnds ==
    /\ \E s \in 1 .. MaxSessions :
          Open(s) /\ gen' = [gen EXCEPT ![s] = Ended]
    /\ UNCHANGED <<backend, store, lock, proc, starts, faults, signedIn, lost>>

Step(p) ==
    \/ Client(p) \/ LockRefresh(p) \/ LoadSession(p) \/ Rotate(p)
    \/ NewerSession(p) \/ UpdateRead(p) \/ KeyringDelete(p) \/ FileDelete(p)
    \/ KeyringSet(p) \/ OpenTemp(p) \/ WriteTemp(p) \/ Rename(p) \/ Call(p)

Next ==
    \/ \E p \in Procs :
          \/ \E k \in Kinds : Resolve(p, k)
          \/ "login" \in Kinds /\ Login(p)
          \/ Step(p) \/ RotateLost(p) \/ WriteFails(p) \/ Killed(p)
    \/ SessionEnds

Fairness == \A p \in Procs : WF_vars(Step(p))

Spec == Init /\ [][Next]_vars /\ Fairness

(***************************************************************************)
(* Properties                                                              *)
(***************************************************************************)

\* Between the Hub's answer and the rename the rotated token is only in the
\* memory of the process that holds the lock.
InHand(p) == proc[p].pair # NoToken /\ proc[p].pair.s = signedIn

\* A user who signed in and did not sign out, whose session the Hub has not
\* ended and whose rotated token was not lost with a reply, a failed write or
\* a killed process, stays signed in: at every moment the stored token is the
\* one the Hub would accept, or the lock holder is about to store that one
\* (AuthContext.refresh, Store.Save and SaveSSH).
StaysSignedIn ==
    (signedIn # 0 /\ ~lost /\ Open(signedIn)) =>
        \/ Stored # Torn /\ Live(Stored.t)
        \/ \E p \in Procs : InHand(p) /\ Live(proc[p].pair)

\* The Hub refuses a token a command spent only when that session is over, or
\* its rotated token was lost: two commands of one user never make each other
\* report an expired session (AuthContext.refresh, LockRefresh).
RefusedIsOver ==
    \A p \in Procs :
        At(p, "newer") => lost \/ proc[p].t.s # signedIn \/ ~Open(signedIn)

\* A command that was started ends, whoever else is running or was killed
\* while it held the lock (LockRefresh).
CommandsEnd == \A p \in Procs : ~At(p, "idle") ~> At(p, "idle")
=============================================================================
