------------------------------ MODULE CliUpdate ------------------------------
(***************************************************************************)
(* vey update (cli/internal/update): processes that replace the one          *)
(* installed executable by a newer release of the Hub.  A process checks the *)
(* Hub's metadata, looks at the installed file, takes the lock without       *)
(* waiting, downloads and verifies the candidate, keeps a link to the        *)
(* previous file, renames the candidate over it, validates what is now       *)
(* installed, and renames the previous file back if that fails.  Any step    *)
(* may fail, a process may be killed, and the power may fail, which takes    *)
(* the directory back to any state since it was last synced.                 *)
(* A file is its version: the releases of the Hub are numbered.  Nothing     *)
(* but this command replaces the file.                                       *)
(***************************************************************************)
EXTENDS Naturals

CONSTANTS Procs,
          NoProc,
          MaxVersion,   \* releases
          MaxOutages    \* power failures

VARIABLES
  latest,    \* the release the Hub offers
  dir,       \* the directory: the installed version, and the links in the stages
  durable,   \* the states of the directory since it was last synced
  lock,      \* the process that holds the lock
  proc,      \* the processes: where they are, their version, artifact, original
  outages

vars == <<latest, dir, durable, lock, proc, outages>>
-----------------------------------------------------------------------------
Init ==
  /\ latest = 1 /\ lock = NoProc /\ outages = 0
  /\ dir = [target |-> 1, backup |-> [p \in Procs |-> 0]] /\ durable = {dir}
  /\ proc = [p \in Procs |-> [at |-> "idle", current |-> 0, artifact |-> 0, original |-> 0]]

At(p, where) == proc[p].at = where
Goes(p, where) == proc' = [proc EXCEPT ![p].at = where]
Same == UNCHANGED <<latest, dir, durable, outages>>

\* A change of the directory, and one that syncDirectory makes durable.
Write(d) == dir' = d /\ durable' = durable \cup {d}
Sync(d) == dir' = d /\ durable' = {d}

\* The link to the installed file, and the sync of the stage that holds it: what else
\* has changed is as durable as it was.
Keep(p) ==
  LET kept(d) == [d EXCEPT !.backup[p] = dir.target] IN
  dir' = kept(dir) /\ durable' = {kept(d) : d \in durable}

\* apply returns, which gives up the lock.
Returns(p, result) ==
  /\ Goes(p, result) /\ lock' = IF lock = p THEN NoProc ELSE lock
-----------------------------------------------------------------------------
Release ==
  /\ latest < MaxVersion /\ latest' = latest + 1
  /\ UNCHANGED <<dir, durable, lock, proc, outages>>

\* The process runs the installed executable.
Run(p) ==
  /\ At(p, "idle") /\ proc' = [proc EXCEPT ![p].at = "check", ![p].current = dir.target]
  /\ UNCHANGED lock /\ Same

\* check: metadata of the Hub, and only what is newer is installed.
Check(p) ==
  /\ At(p, "check")
  /\ \/ /\ latest > proc[p].current
        /\ proc' = [proc EXCEPT ![p].at = "inspect", ![p].artifact = latest]
     \/ Goes(p, "failed")
  /\ UNCHANGED lock /\ Same

\* checkDestination, before the lock.
CheckDestination(p) ==
  /\ At(p, "inspect")
  /\ \/ proc' = [proc EXCEPT ![p].at = "lock", ![p].original = dir.target]
     \/ Goes(p, "failed")
  /\ UNCHANGED lock /\ Same

\* The installed file is the one that runs, and the one that was looked at: a file
\* is never installed again once it was replaced.
VerifyCurrentIdentity(p) == dir.target = proc[p].current
SameDestination(p) == dir.target = proc[p].original

\* acquireLock does not wait; and the installed file must be the running one.
AcquireLock(p) == lock = NoProc /\ lock' = p

LockInstallation(p) ==
  /\ At(p, "lock")
  /\ \/ VerifyCurrentIdentity(p) /\ AcquireLock(p) /\ Goes(p, "download")
     \/ ~(lock = NoProc /\ VerifyCurrentIdentity(p)) /\ UNCHANGED lock /\ Goes(p, "failed")
  /\ Same

\* An error before the rename: the stage is removed, the link in it included.
Fails(p) ==
  /\ Returns(p, "failed") /\ Write([dir EXCEPT !.backup[p] = 0])
  /\ UNCHANGED <<latest, outages>>

Download(p) ==
  /\ At(p, "download")
  /\ \/ Goes(p, "prepare") /\ UNCHANGED lock /\ Same
     \/ Fails(p)

\* prepareCandidate: the file is what the metadata say, and runs.
PrepareCandidate(p) ==
  /\ At(p, "prepare")
  /\ \/ Goes(p, "link") /\ UNCHANGED lock /\ Same
     \/ Fails(p)

\* commitCandidate: the file is the one that was looked at and that runs, and is
\* linked into the stage, which is synced.
Link(p) ==
  /\ At(p, "link")
  /\ \/ /\ SameDestination(p) /\ VerifyCurrentIdentity(p)
        /\ Keep(p)
        /\ Goes(p, "replace") /\ UNCHANGED <<latest, lock, outages>>
     \/ Fails(p)

\* A second look at the destination, and the rename.
Replace(p) ==
  /\ At(p, "replace")
  /\ \/ /\ SameDestination(p)
        /\ Write([dir EXCEPT !.target = proc[p].artifact])
        /\ Goes(p, "validate") /\ UNCHANGED <<latest, lock, outages>>
     \/ Fails(p)

\* validateReplacement, which ends with the sync of the directory.
ValidateReplacement(p) ==
  /\ At(p, "validate")
  /\ \/ /\ dir.target = proc[p].artifact /\ Sync(dir) /\ Returns(p, "installed")
     \/ Goes(p, "restore") /\ UNCHANGED <<dir, durable, lock>>
  /\ UNCHANGED <<latest, outages>>

\* restorePrevious: the rename back, and a sync that may fail; if the rename fails
\* the previous file stays in the stage.
RestorePrevious(p) ==
  /\ At(p, "restore")
  /\ LET restored == [target |-> dir.backup[p], backup |-> [dir.backup EXCEPT ![p] = 0]] IN
     \/ Returns(p, "restored") /\ (Sync(restored) \/ Write(restored))
     \/ Returns(p, "stranded") /\ UNCHANGED <<dir, durable>>
  /\ UNCHANGED <<latest, outages>>

Running(p) == proc[p].at \notin {"idle", "failed", "installed", "restored", "stranded", "killed"}

\* The lock goes with the process; the stage stays.
Kill(p) == Running(p) /\ Returns(p, "killed") /\ Same

PowerFails ==
  /\ outages < MaxOutages /\ outages' = outages + 1
  /\ \E d \in durable : Sync(d)
  /\ lock' = NoProc
  /\ proc' = [p \in Procs |-> IF Running(p) THEN [proc[p] EXCEPT !.at = "killed"] ELSE proc[p]]
  /\ UNCHANGED latest
-----------------------------------------------------------------------------
Next ==
  \/ Release \/ PowerFails
  \/ \E p \in Procs :
       \/ Run(p) \/ Check(p) \/ CheckDestination(p) \/ LockInstallation(p)
       \/ Download(p) \/ PrepareCandidate(p) \/ Link(p) \/ Replace(p) \/ ValidateReplacement(p)
       \/ RestorePrevious(p) \/ Kill(p)

Spec == Init /\ [][Next]_vars
-----------------------------------------------------------------------------
TypeOK ==
  /\ dir \in durable /\ \A d \in durable : d.target \in 1 .. latest
  /\ lock \in Procs \cup {NoProc}

\* A version that was reported as installed is not lost: neither an update that had
\* read older metadata, nor a rollback of another process, nor a power failure brings
\* an older file back (lockInstallation, commitCandidate, validateReplacement).
InstalledStays == \A p \in Procs : At(p, "installed") => dir.target >= proc[p].artifact

\* The first version, and those an update has validated.
Validated == {1} \cup {proc[p].artifact : p \in {q \in Procs : At(q, "installed")}}

\* While the installed file has not passed validation, one that did is in the stage of
\* some process, even if that process or the power is gone (commitCandidate,
\* restorePrevious).
PreviousIsKept ==
  dir.target \in Validated \/ \E p \in Procs : dir.backup[p] \in Validated

\* From its rename to its end, an update has the installation for itself: what is
\* installed is its candidate, and what it would restore is what it replaced.
ReplacesItsOwn ==
  \A p \in Procs : proc[p].at \in {"validate", "restore"} =>
                     dir.target = proc[p].artifact /\ dir.backup[p] = proc[p].current
=============================================================================
