--------------------------- MODULE AgentExecution ---------------------------
(***************************************************************************)
(* The agent's owner of non-interactive commands: the execution Manager     *)
(* (agent/internal/execution/manager.go, script.go), its launch Journal on  *)
(* disk (journal.go) and the session Budget it shares with the terminals    *)
(* (agent/internal/sessionlimit).  A manager and its journal live as long   *)
(* as one control session; budget, disk and processes outlive them.         *)
(*                                                                         *)
(* An attempt p is one Prepare request for the execution IdOf[p]; its        *)
(* binding (preparation id, boot id, expiry) is its own, so "the binding     *)
(* equals" is "it is the same attempt".  The state the code keeps in the     *)
(* maps pending, prepared, launching and runs is the attempt's phase.        *)
(***************************************************************************)
EXTENDS Integers, FiniteSets

CONSTANTS
  Attempts,     \* Prepare requests
  Executions,   \* execution ids
  IdOf,         \* the execution each attempt is for
  Enhanced,     \* attempts that carry a protected script
  Maximum,      \* capacity of the budget
  MaxCrashes,   \* bound on crashes of the agent or its machine
  Absent        \* no journal file, no lock holder

ASSUME IdOfAssumption == IdOf \in [Attempts -> Executions]
ASSUME EnhancedAssumption == Enhanced \subseteq Attempts
ASSUME MaximumAssumption == Maximum \in Nat \ {0}
ASSUME AbsentAssumption == Absent \notin Attempts
ASSUME FiniteAssumption == IsFiniteSet(Attempts)

VARIABLES
  phase,        \* where each attempt is in Prepare, Start or lifecycle
  pending,      \* m.pending
  attached,     \* attempts with an execution transport
  sealed,       \* attempts whose script is complete
  expired,      \* attempts whose binding has expired
  cancelled,    \* attempts whose launch or run context is cancelled
  manager,      \* the manager: "open", "closing", "cancelling" or "down"
  used,         \* Budget.used
  terminals,    \* terminal sessions holding a place of the budget
  maintenance,  \* Budget.maintenance
  records,      \* j.records: the claims kept in memory
  disk,         \* the journal's files as the system sees them ...
  stable,       \* ... and what of them has reached the disk
  writer,       \* the attempt holding j.mu in the middle of a write
  started,      \* history: attempts whose process was started
  alive,        \* attempts whose process runs
  orphans,      \* processes that outlived a crash of the agent
  crashes

attemptVars == <<phase, pending, attached, sealed, expired, cancelled>>
budgetVars == <<used, terminals, maintenance>>
journalVars == <<records, disk, stable, writer>>
processVars == <<started, alive, orphans>>
vars == <<attemptVars, manager, budgetVars, journalVars, processVars, crashes>>

Launching ==
  {"launching", "claiming", "claimed", "authorized", "started", "failing", "killing", "unwinding"}
Runs == {"running", "exited", "recorded"}
Phases == {"new", "checked", "resolving", "failed", "releasing", "prepared", "gone"}
            \cup Launching \cup Runs

\* The phases in which an attempt holds a place of the budget.
Holding == {"resolving", "failed", "releasing", "prepared"} \cup Launching \cup Runs
SlotHolders == {p \in Attempts : phase[p] \in Holding}

File(p, state) == [owner |-> p, state |-> state]
FileStates == {"torn", "claimed", "running", "launch_failed", "ended"}
Files == [owner : Attempts, state : FileStates]

ASSUME AbsentIsNoFile == Absent \notin Files

\* Journal.Status: a claim in memory, or the file as readRecord presents it.
JournalStatus(e) ==
  IF records[e] # "none" THEN records[e]
  ELSE IF disk[e] = Absent THEN "not_found"
  ELSE IF disk[e].state \in {"torn", "claimed", "running"} THEN "outcome_unknown"
  ELSE disk[e].state

Status(e) ==
  IF JournalStatus(e) # "not_found" THEN JournalStatus(e)
  ELSE IF \E p \in Attempts : IdOf[p] = e /\ phase[p] = "prepared" THEN "prepared"
  ELSE "not_found"

\* Under m.mu: the id is in none of the maps but, possibly, as p itself.
Unowned(p) ==
  \A q \in Attempts \ {p} :
    IdOf[q] = IdOf[p] => q \notin pending /\ phase[q] \notin {"prepared"} \cup Launching \cup Runs

Goto(p, next) == phase' = [phase EXCEPT ![p] = next]

Init ==
  /\ phase = [p \in Attempts |-> "new"]
  /\ pending = {} /\ attached = {} /\ sealed = {} /\ expired = {} /\ cancelled = {}
  /\ manager = "open"
  /\ used = 0 /\ terminals = 0 /\ maintenance = FALSE
  /\ records = [e \in Executions |-> "none"]
  /\ disk = [e \in Executions |-> Absent]
  /\ stable = disk
  /\ writer = Absent
  /\ started = {} /\ alive = {} /\ orphans = {}
  /\ crashes = 0
-----------------------------------------------------------------------------
(* The budget.                                                              *)

CanAcquire == ~maintenance /\ used < Maximum
Acquire == CanAcquire /\ used' = used + 1 /\ UNCHANGED maintenance

\* Release, called once for each of n places.
Release(n) == used' = (IF used >= n THEN used - n ELSE 0) /\ UNCHANGED maintenance

TerminalOpen ==
  /\ Acquire
  /\ terminals' = terminals + 1
  /\ UNCHANGED <<attemptVars, manager, journalVars, processVars, crashes>>

TerminalClose ==
  /\ terminals > 0
  /\ Release(1)
  /\ terminals' = terminals - 1
  /\ UNCHANGED <<attemptVars, manager, journalVars, processVars, crashes>>

TryMaintenance ==
  /\ ~maintenance
  /\ used = 0
  /\ maintenance' = TRUE
  /\ UNCHANGED <<attemptVars, manager, used, terminals, journalVars, processVars, crashes>>

EndMaintenance ==
  /\ maintenance
  /\ maintenance' = FALSE
  /\ UNCHANGED <<attemptVars, manager, used, terminals, journalVars, processVars, crashes>>
-----------------------------------------------------------------------------
(* Preparation.                                                             *)

\* Prepare looks for the id in the journal before it takes m.mu ...
PrepareCheck(p) ==
  /\ phase[p] = "new"
  /\ manager = "open"
  /\ writer = Absent
  /\ JournalStatus(IdOf[p]) = "not_found"
  /\ Goto(p, "checked")
  /\ UNCHANGED <<pending, attached, sealed, expired, cancelled, manager, budgetVars,
                 journalVars, processVars, crashes>>

\* ... and reserves id and place together under it ...
PrepareAdmit(p) ==
  /\ phase[p] = "checked"
  /\ manager = "open"
  /\ Unowned(p)
  /\ Acquire
  /\ Goto(p, "resolving")
  /\ pending' = pending \cup {p}
  /\ UNCHANGED <<attached, sealed, expired, cancelled, manager, terminals, journalVars,
                 processVars, crashes>>

\* ... or refuses the request.
PrepareRefuse(p) ==
  /\ phase[p] = "checked"
  /\ manager # "open" \/ ~Unowned(p) \/ ~CanAcquire
  /\ Goto(p, "gone")
  /\ UNCHANGED <<pending, attached, sealed, expired, cancelled, manager, budgetVars,
                 journalVars, processVars, crashes>>

\* Identity and script storage are there, and the manager is still open: the
\* preparation is installed.  An attempt without a script is complete.
PrepareInstall(p) ==
  /\ phase[p] = "resolving"
  /\ manager = "open"
  /\ \A q \in Attempts : IdOf[q] = IdOf[p] => phase[q] \notin {"prepared"} \cup Runs
  /\ Goto(p, "prepared")
  /\ sealed' = IF p \in Enhanced THEN sealed ELSE sealed \cup {p}
  /\ UNCHANGED <<pending, attached, expired, cancelled, manager, budgetVars, journalVars,
                 processVars, crashes>>

PrepareFail(p) ==
  /\ phase[p] = "resolving"
  /\ Goto(p, "failed")
  /\ UNCHANGED <<pending, attached, sealed, expired, cancelled, manager, budgetVars,
                 journalVars, processVars, crashes>>

\* The deferred end of Prepare: the id is no longer pending ...
PrepareReturn(p) ==
  /\ p \in pending
  /\ phase[p] # "resolving"
  /\ pending' = pending \ {p}
  /\ phase' = [phase EXCEPT ![p] = IF @ = "failed" THEN "releasing" ELSE @]
  /\ UNCHANGED <<attached, sealed, expired, cancelled, manager, budgetVars, journalVars,
                 processVars, crashes>>

\* ... and what was not installed gives its place back.
PrepareRelease(p) ==
  /\ phase[p] = "releasing"
  /\ Release(1)
  /\ Goto(p, "gone")
  /\ UNCHANGED <<pending, attached, sealed, expired, cancelled, manager, terminals,
                 journalVars, processVars, crashes>>

\* Mutant: the place of a withdrawn preparation is forgotten.
Withdraw_KeepsPlace(p) ==
  /\ phase[p] = "prepared"
  /\ Goto(p, "gone")
  /\ UNCHANGED <<pending, attached, sealed, expired, cancelled, manager, budgetVars,
                 journalVars, processVars, crashes>>

\* A preparation is withdrawn, with its place.
Withdraw(p) ==
  /\ phase[p] = "prepared"
  /\ Release(1)
  /\ Goto(p, "gone")
  /\ UNCHANGED <<pending, attached, sealed, expired, cancelled, manager, terminals,
                 journalVars, processVars, crashes>>

\* The binding's expiry time passes.
Expiry(p) ==
  /\ phase[p] \in {"prepared"} \cup Launching
  /\ p \notin expired
  /\ expired' = expired \cup {p}
  /\ UNCHANGED <<phase, pending, attached, sealed, cancelled, manager, budgetVars,
                 journalVars, processVars, crashes>>

\* Mutant: attaching a transport stops the timer.
expire_NotAttached(p) == p \in expired \ attached /\ Withdraw(p)

\* The preparation's timer fires.
expire(p) == p \in expired /\ Withdraw(p)

Attach(p) ==
  /\ manager = "open"
  /\ phase[p] = "prepared"
  /\ p \notin expired
  /\ p \notin attached
  /\ attached' = attached \cup {p}
  /\ UNCHANGED <<phase, pending, sealed, expired, cancelled, manager, budgetVars,
                 journalVars, processVars, crashes>>

\* The last chunk has arrived in order and length and digest agree.
ScriptEOF(p) ==
  /\ manager = "open"
  /\ phase[p] = "prepared"
  /\ p \in attached
  /\ p \notin expired
  /\ p \in Enhanced \ sealed
  /\ sealed' = sealed \cup {p}
  /\ UNCHANGED <<phase, pending, attached, expired, cancelled, manager, budgetVars,
                 journalVars, processVars, crashes>>

\* A chunk or an end that does not fit ends the preparation.
invalidateScript(p) == p \in attached /\ Withdraw(p)
-----------------------------------------------------------------------------
(* Launch.                                                                  *)

\* Start takes the preparation out of m.prepared ...
Start(p) ==
  /\ manager = "open"
  /\ writer = Absent
  /\ JournalStatus(IdOf[p]) = "not_found"
  /\ phase[p] = "prepared"
  /\ p \in attached
  /\ p \notin expired
  /\ p \in sealed
  /\ Goto(p, "launching")
  /\ UNCHANGED <<pending, attached, sealed, expired, cancelled, manager, budgetVars,
                 journalVars, processVars, crashes>>

\* ... gives up before the claim: the identity changed, the context ended, or
\* the journal has the id or cannot create its file ...
LaunchAbort(p) ==
  /\ phase[p] = "launching"
  /\ Goto(p, "unwinding")
  /\ UNCHANGED <<pending, attached, sealed, expired, cancelled, manager, budgetVars,
                 journalVars, processVars, crashes>>

\* ... or claims the id: O_EXCL creates the file, and from here on even an
\* uncertain write consumes the id.
Claim(p) ==
  /\ phase[p] = "launching"
  /\ p \notin cancelled
  /\ writer = Absent
  /\ records[IdOf[p]] = "none"
  /\ disk[IdOf[p]] = Absent
  /\ disk' = [disk EXCEPT ![IdOf[p]] = File(p, "torn")]
  /\ records' = [records EXCEPT ![IdOf[p]] = "claimed"]
  /\ writer' = p
  /\ Goto(p, "claiming")
  /\ UNCHANGED <<pending, attached, sealed, expired, cancelled, manager, budgetVars, stable,
                 processVars, crashes>>

\* Mutant: the directory that links the claim is not synced.
ClaimSync_NoDirectory(p) ==
  /\ phase[p] = "claiming"
  /\ disk' = [disk EXCEPT ![IdOf[p]] = File(p, "claimed")]
  /\ writer' = Absent
  /\ Goto(p, "claimed")
  /\ UNCHANGED <<pending, attached, sealed, expired, cancelled, manager, budgetVars, records,
                 stable, processVars, crashes>>

\* File and directory are synced: the claim is durable.
ClaimSync(p) ==
  /\ phase[p] = "claiming"
  /\ disk' = [disk EXCEPT ![IdOf[p]] = File(p, "claimed")]
  /\ stable' = [stable EXCEPT ![IdOf[p]] = File(p, "claimed")]
  /\ writer' = Absent
  /\ Goto(p, "claimed")
  /\ UNCHANGED <<pending, attached, sealed, expired, cancelled, manager, budgetVars, records,
                 processVars, crashes>>

\* The write or a sync fails: the launch is given up, the file stays.
ClaimFail(p, state) ==
  /\ phase[p] = "claiming"
  /\ disk' = [disk EXCEPT ![IdOf[p]] = File(p, state)]
  /\ records' = [records EXCEPT ![IdOf[p]] = "none"]
  /\ writer' = Absent
  /\ Goto(p, "unwinding")
  /\ UNCHANGED <<pending, attached, sealed, expired, cancelled, manager, budgetVars, stable,
                 processVars, crashes>>

\* The protected input cannot be opened: Start returns without a result.
ScriptOpenFail(p) ==
  /\ phase[p] = "claimed"
  /\ p \in Enhanced
  /\ Goto(p, "unwinding")
  /\ UNCHANGED <<pending, attached, sealed, expired, cancelled, manager, budgetVars,
                 journalVars, processVars, crashes>>

\* The last launchAuthorityValid before cmd.Start.
Authorize(p) ==
  /\ phase[p] = "claimed"
  /\ p \notin cancelled \cup expired
  /\ Goto(p, "authorized")
  /\ UNCHANGED <<pending, attached, sealed, expired, cancelled, manager, budgetVars,
                 journalVars, processVars, crashes>>

\* Authority gone, no pipe, or no process: launch_failed will be recorded.
LaunchFail(p) ==
  /\ phase[p] \in {"claimed", "authorized"}
  /\ Goto(p, "failing")
  /\ UNCHANGED <<pending, attached, sealed, expired, cancelled, manager, budgetVars,
                 journalVars, processVars, crashes>>

\* cmd.Start.
Launch(p) ==
  /\ phase[p] = "authorized"
  /\ started' = started \cup {p}
  /\ alive' = alive \cup {p}
  /\ Goto(p, "started")
  /\ UNCHANGED <<pending, attached, sealed, expired, cancelled, manager, budgetVars,
                 journalVars, orphans, crashes>>

\* The record could not be written: kill the process group and wait for it.
Kill(p) ==
  /\ phase[p] = "killing"
  /\ alive' = alive \ {p}
  /\ Goto(p, "unwinding")
  /\ UNCHANGED <<pending, attached, sealed, expired, cancelled, manager, budgetVars,
                 journalVars, started, orphans, crashes>>

\* The deferred end of a Start that launched nothing.
Unwind(p) ==
  /\ phase[p] = "unwinding"
  /\ cancelled' = cancelled \cup {p}
  /\ Release(1)
  /\ Goto(p, "gone")
  /\ UNCHANGED <<pending, attached, sealed, expired, manager, terminals, journalVars,
                 processVars, crashes>>
-----------------------------------------------------------------------------
(* Journal updates: a new file is written, renamed over the old one, and     *)
(* the directory synced, all under j.mu.                                    *)

Recorded == [started |-> "running", failing |-> "launch_failed", exited |-> "ended"]
AfterUpdate == [started |-> "running", failing |-> "unwinding", exited |-> "recorded"]

\* Mutant: a process whose start could not be recorded is called not launched.
AfterFailure_NotLaunched ==
  [started |-> "failing", failing |-> "unwinding", exited |-> "recorded"]

AfterFailure == [started |-> "killing", failing |-> "unwinding", exited |-> "recorded"]

UpdateRename(p) ==
  /\ phase[p] \in DOMAIN Recorded
  /\ writer = Absent
  /\ disk' = [disk EXCEPT ![IdOf[p]] = File(p, Recorded[phase[p]])]
  /\ writer' = p
  /\ UNCHANGED <<attemptVars, manager, budgetVars, records, stable, processVars, crashes>>

UpdateSync(p) ==
  /\ phase[p] \in DOMAIN Recorded
  /\ writer = p
  /\ stable' = [stable EXCEPT ![IdOf[p]] = disk[IdOf[p]]]
  /\ records' = [records EXCEPT ![IdOf[p]] = IF phase[p] = "started" THEN "running" ELSE "none"]
  /\ writer' = Absent
  /\ Goto(p, AfterUpdate[phase[p]])
  /\ UNCHANGED <<pending, attached, sealed, expired, cancelled, manager, budgetVars, disk,
                 processVars, crashes>>

\* One of the steps fails and the claim leaves the memory, unless it was the first
\* one, the creation of the new file.
UpdateFail(p) ==
  /\ phase[p] \in DOMAIN Recorded
  /\ writer \in {Absent, p}
  /\ \/ records' = [records EXCEPT ![IdOf[p]] = "none"]
     \/ writer = Absent /\ UNCHANGED records
  /\ writer' = Absent
  /\ Goto(p, AfterFailure[phase[p]])
  /\ UNCHANGED <<pending, attached, sealed, expired, cancelled, manager, budgetVars, disk,
                 stable, processVars, crashes>>
-----------------------------------------------------------------------------
(* Running processes and their end.                                         *)

ProcessExit(p) ==
  /\ p \in alive
  /\ alive' = alive \ {p}
  /\ orphans' = orphans \ {p}
  /\ UNCHANGED <<attemptVars, manager, budgetVars, journalVars, started, crashes>>

\* lifecycle: the process and its group are gone and the output is drained.
Reap(p) ==
  /\ phase[p] = "running"
  /\ p \notin alive
  /\ Goto(p, "exited")
  /\ UNCHANGED <<pending, attached, sealed, expired, cancelled, manager, budgetVars,
                 journalVars, processVars, crashes>>

\* The deferred end of lifecycle.
finish(p) ==
  /\ phase[p] = "recorded"
  /\ cancelled' = cancelled \cup {p}
  /\ Release(1)
  /\ Goto(p, "gone")
  /\ UNCHANGED <<pending, attached, sealed, expired, manager, terminals, journalVars,
                 processVars, crashes>>

\* Manager.Cancel and Run.Cancel, a lost transport, the runtime limit.
Cancel(p) ==
  \/ Withdraw(p)
  \/ /\ phase[p] \in Launching \cup Runs
     /\ p \notin cancelled
     /\ cancelled' = cancelled \cup {p}
     /\ UNCHANGED <<phase, pending, attached, sealed, expired, manager, budgetVars,
                    journalVars, processVars, crashes>>
-----------------------------------------------------------------------------
(* The manager's life.                                                      *)

\* Close: no more admissions; what is prepared is withdrawn, what is launching
\* is cancelled.
CloseBegin ==
  LET withdrawn == {p \in Attempts : phase[p] = "prepared"} IN
  /\ manager = "open"
  /\ manager' = "closing"
  /\ phase' = [p \in Attempts |-> IF p \in withdrawn THEN "gone" ELSE phase[p]]
  /\ Release(Cardinality(withdrawn))
  /\ cancelled' = cancelled \cup {p \in Attempts : phase[p] \in Launching}
  /\ UNCHANGED <<pending, attached, sealed, expired, terminals, journalVars, processVars,
                 crashes>>

\* launchWG.Wait is over: the runs, which can only become fewer, are cancelled.
CloseCancel ==
  /\ manager = "closing"
  /\ \A p \in Attempts : phase[p] \notin Launching
  /\ manager' = "cancelling"
  /\ cancelled' = cancelled \cup {p \in Attempts : phase[p] \in Runs}
  /\ UNCHANGED <<phase, pending, attached, sealed, expired, budgetVars, journalVars,
                 processVars, crashes>>

\* Every run is done and the transport's goroutines have returned.
CloseEnd ==
  /\ manager = "cancelling"
  /\ SlotHolders = {}
  /\ pending = {}
  /\ \A p \in Attempts : phase[p] # "checked"
  /\ manager' = "down"
  /\ UNCHANGED <<attemptVars, budgetVars, journalVars, processVars, crashes>>

\* The next control session: NewManager and OpenJournal.
NewManager ==
  /\ manager = "down"
  /\ manager' = "open"
  /\ records' = [e \in Executions |-> "none"]
  /\ UNCHANGED <<attemptVars, budgetVars, disk, stable, writer, processVars, crashes>>

\* The agent dies.  Its processes may live on; the journal is as the system
\* last saw it, or, when the machine dies too, as much of it as reached the disk.
Crash(machine) ==
  /\ crashes < MaxCrashes
  /\ crashes' = crashes + 1
  /\ phase' = [p \in Attempts |-> IF phase[p] = "new" THEN "new" ELSE "gone"]
  /\ pending' = {} /\ attached' = {} /\ sealed' = {} /\ expired' = {} /\ cancelled' = {}
  /\ manager' = "down"
  /\ used' = 0 /\ terminals' = 0 /\ maintenance' = FALSE
  /\ records' = [e \in Executions |-> "none"]
  /\ writer' = Absent
  /\ IF machine
     THEN /\ \E kept \in SUBSET Executions :
               disk' = [e \in Executions |-> IF e \in kept THEN disk[e] ELSE stable[e]]
          /\ stable' = disk'
          /\ alive' = {}
     ELSE /\ UNCHANGED <<disk, stable>>
          /\ alive' \in SUBSET alive
  /\ orphans' = alive'
  /\ UNCHANGED started
-----------------------------------------------------------------------------
PrepareStep(p) ==
  \/ PrepareCheck(p) \/ PrepareAdmit(p) \/ PrepareRefuse(p)
  \/ PrepareInstall(p) \/ PrepareFail(p) \/ PrepareReturn(p) \/ PrepareRelease(p)
  \/ Expiry(p) \/ expire(p) \/ Attach(p) \/ ScriptEOF(p) \/ invalidateScript(p)

LaunchStep(p) ==
  \/ Start(p) \/ LaunchAbort(p) \/ Claim(p) \/ ClaimSync(p)
  \/ \E state \in {"torn", "claimed"} : ClaimFail(p, state)
  \/ ScriptOpenFail(p) \/ Authorize(p) \/ LaunchFail(p) \/ Launch(p) \/ Kill(p) \/ Unwind(p)
  \/ UpdateRename(p) \/ UpdateSync(p) \/ UpdateFail(p)

RunStep(p) == ProcessExit(p) \/ Reap(p) \/ finish(p) \/ Cancel(p)

ManagerStep ==
  \/ CloseBegin \/ CloseCancel \/ CloseEnd \/ NewManager
  \/ TerminalOpen \/ TerminalClose \/ TryMaintenance \/ EndMaintenance
  \/ \E machine \in BOOLEAN : Crash(machine)

Next ==
  \/ \E p \in Attempts : PrepareStep(p) \/ LaunchStep(p) \/ RunStep(p)
  \/ ManagerStep

Spec == Init /\ [][Next]_vars

\* The goroutine that owns the attempt takes its next step.
Progress(p) ==
  \/ PrepareAdmit(p) \/ PrepareRefuse(p) \/ PrepareInstall(p) \/ PrepareFail(p)
  \/ PrepareRelease(p)
  \/ LaunchAbort(p) \/ Claim(p) \/ ClaimSync(p)
  \/ \E state \in {"torn", "claimed"} : ClaimFail(p, state)
  \/ ScriptOpenFail(p) \/ Authorize(p) \/ LaunchFail(p) \/ Launch(p) \/ Kill(p) \/ Unwind(p)
  \/ UpdateRename(p) \/ UpdateSync(p) \/ UpdateFail(p)
  \/ Reap(p) \/ finish(p)

\* Goroutines run and mutexes are starvation-free; a preparation's timer fires;
\* a cancelled process is killed after its grace period.  That some goroutine goes on
\* is enough.
Fairness ==
  /\ SF_vars(\E p \in Attempts : Progress(p))
  /\ WF_vars(\/ CloseCancel \/ CloseEnd
             \/ \E p \in Attempts :
                  \/ PrepareReturn(p) \/ (Expiry(p) /\ phase[p] = "prepared") \/ expire(p)
                  \/ (p \in cancelled /\ ProcessExit(p)))

FairSpec == Spec /\ Fairness
-----------------------------------------------------------------------------
(* Properties.                                                              *)

\* Every variable holds a value of its type.
TypeOK ==
  /\ phase \in [Attempts -> Phases]
  /\ pending \in SUBSET Attempts
  /\ attached \in SUBSET Attempts
  /\ sealed \in SUBSET Attempts
  /\ expired \in SUBSET Attempts
  /\ cancelled \in SUBSET Attempts
  /\ manager \in {"open", "closing", "cancelling", "down"}
  /\ used \in 0 .. Maximum
  /\ terminals \in 0 .. Maximum
  /\ maintenance \in BOOLEAN
  /\ records \in [Executions -> {"none", "claimed", "running"}]
  /\ disk \in [Executions -> Files \cup {Absent}]
  /\ stable \in [Executions -> Files \cup {Absent}]
  /\ writer \in Attempts \cup {Absent}
  /\ started \in SUBSET Attempts
  /\ alive \in SUBSET Attempts
  /\ orphans \in SUBSET Attempts
  /\ crashes \in Nat

\* A submitted command runs at most once: over retried preparations, lost
\* sessions, failed writes and crashes of agent or machine at any point, no two
\* attempts of one execution ever start a process.
AtMostOneLaunch ==
  \A p, q \in started : IdOf[p] = IdOf[q] => p = q

\* An execution that was launched is never reported as unknown to the agent or
\* merely prepared, whatever was lost since: the Hub cannot be led to retry it.
LaunchedIsNeverForgotten ==
  \A p \in started : Status(IdOf[p]) \notin {"not_found", "prepared"}

\* What the journal states as a fact is one: "launch_failed" means that no
\* process was ever started, a result that its process is gone, and "running"
\* that there was one.
JournalTellsTheTruth ==
  \A e \in Executions :
    LET mine == {p \in started : IdOf[p] = e} IN
    /\ JournalStatus(e) = "launch_failed" => mine = {}
    /\ JournalStatus(e) = "ended" => mine # {} /\ mine \cap alive = {}
    /\ JournalStatus(e) = "running" => mine # {}

\* The budget, given back on nine different paths, counts exactly its holders:
\* no place is leaked or returned twice, although Release forgives the latter.
BudgetAccounting ==
  used = terminals + Cardinality(SlotHolders) /\ used <= Maximum

\* A process keeps its place until it is dead: neither the maintenance lease
\* nor the end of a session finds a process of this agent still running.
ProcessesAreOwned ==
  /\ alive \ orphans \subseteq SlotHolders
  /\ maintenance \/ manager = "down" => alive \subseteq orphans

\* Close always comes to its end, whatever was being prepared, launched or run.
CloseCompletes == manager = "closing" ~> manager = "down"

\* A preparation that nobody starts, and a launch or run that was cancelled,
\* give their place back.
PlacesComeBack ==
  \A p \in Attempts :
    /\ phase[p] = "prepared" ~> phase[p] # "prepared"
    /\ p \in cancelled ~> phase[p] = "gone"

\* How far an execution has come, from what is durable and what was started.
OutcomeOf(e) ==
  LET mine == {p \in started : IdOf[p] = e} IN
  IF mine \cap alive # {} THEN "launched"
  ELSE IF mine # {} THEN "over"
  ELSE IF stable[e] # Absent THEN "claimed"
  ELSE "open"

Once == INSTANCE ExecutionOnce WITH outcome <- [e \in Executions |-> OutcomeOf(e)]

\* The agent implements its promise: claims are durable before launches, and no
\* crash, retry or failure moves an execution backwards.
ImplementsOnce == Once!OnceSpec
=============================================================================
