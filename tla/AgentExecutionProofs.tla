------------------------ MODULE AgentExecutionProofs ------------------------
(***************************************************************************)
(* Proofs about AgentExecution, for any attempts, executions and capacity.   *)
(*                                                                         *)
(* The argument for "at most once" is ownership of the journal file: the     *)
(* attempt that created the file of an execution (O_EXCL) is the owner of    *)
(* whatever is on disk for it, now and after any crash, and only an owner    *)
(* goes on to launch.  The owner's file has reached the disk before the      *)
(* launch, so no crash gives the name away again.                            *)
(***************************************************************************)
EXTENDS AgentExecution, FiniteSetTheorems, TLAPS

(* The types, the ownership of journal files, and the places of the budget. *)

TypeInv ==
  /\ phase \in [Attempts -> Phases]
  /\ pending \in SUBSET Attempts
  /\ attached \in SUBSET Attempts
  /\ sealed \in SUBSET Attempts
  /\ expired \in SUBSET Attempts
  /\ cancelled \in SUBSET Attempts
  /\ manager \in {"open", "closing", "cancelling", "down"}
  /\ maintenance \in BOOLEAN
  /\ records \in [Executions -> {"none", "claimed", "running"}]
  /\ disk \in [Executions -> Files \cup {Absent}]
  /\ stable \in [Executions -> Files \cup {Absent}]
  /\ writer \in Attempts \cup {Absent}
  /\ started \in SUBSET Attempts
  /\ alive \in SUBSET Attempts
  /\ orphans \in SUBSET Attempts
  /\ crashes \in Nat

\* The phases of an attempt that has made its claim durable and may still
\* write to the journal, and those it can be in once its process was started.
Owning == {"claimed", "authorized", "started", "failing", "killing"} \cup {"running", "exited"}
AfterLaunch == {"started", "killing", "unwinding", "gone"} \cup Runs

Owns(p) ==
  /\ disk[IdOf[p]] # Absent
  /\ disk[IdOf[p]].owner = p

OwnInv ==
  /\ \A p \in Attempts :
       /\ phase[p] \in Owning \cup {"claiming"} \/ p \in started => Owns(p)
       /\ phase[p] \in Owning \/ p \in started => stable[IdOf[p]] # Absent
       /\ p \in started => phase[p] \in AfterLaunch
       /\ phase[p] \in {"started", "killing", "running", "exited"} => p \in started
       /\ p \in alive => p \in started
  /\ \A e \in Executions :
       stable[e] # Absent => disk[e] # Absent /\ disk[e].owner = stable[e].owner
-----------------------------------------------------------------------------
(* Types.                                                                   *)

\* The initial state has the right types.
LEMMA InitTypeInv == Init => TypeInv
<1>. SUFFICES ASSUME Init PROVE TypeInv
  BY Zenon
<1>1. maintenance \in BOOLEAN
  BY Zenon DEF Init
<1>2. disk \in [Executions -> Files \cup {Absent}] /\ stable = disk
  BY Zenon DEF Init
<1>3. phase \in [Attempts -> Phases] /\ records \in [Executions -> {"none", "claimed", "running"}]
  BY Zenon DEF Init, Phases
<1>4. /\ pending = {} /\ attached = {} /\ sealed = {} /\ expired = {} /\ cancelled = {}
      /\ manager = "open" /\ writer = Absent
      /\ started = {} /\ alive = {} /\ orphans = {} /\ crashes = 0
  BY Zenon DEF Init
<1>. QED
  BY <1>1, <1>2, <1>3, <1>4, Zenon DEF TypeInv

\* Preparing preserves the types.
LEMMA TypePrepare ==
  ASSUME TypeInv, NEW p \in Attempts, PrepareStep(p)
  PROVE  TypeInv'
<1>. USE DEF TypeInv, Goto, budgetVars, journalVars, processVars, Phases, Release, Acquire
<1>1. CASE PrepareCheck(p) \/ PrepareAdmit(p) \/ PrepareRefuse(p)
  BY <1>1, Zenon DEF PrepareCheck, PrepareAdmit, PrepareRefuse
<1>2. CASE PrepareInstall(p) \/ PrepareFail(p) \/ PrepareReturn(p) \/ PrepareRelease(p)
  BY <1>2, Zenon DEF PrepareInstall, PrepareFail, PrepareReturn, PrepareRelease
<1>3. CASE Expiry(p) \/ expire(p) \/ Attach(p) \/ ScriptEOF(p) \/ invalidateScript(p)
  BY <1>3, Zenon DEF Expiry, expire, Attach, ScriptEOF, invalidateScript, Withdraw
<1>. QED
  BY <1>1, <1>2, <1>3, Zenon DEF PrepareStep

\* Launching preserves the types.
LEMMA TypeLaunch ==
  ASSUME TypeInv, NEW p \in Attempts, LaunchStep(p)
  PROVE  TypeInv'
<1>. USE IdOfAssumption
     DEF TypeInv, Goto, attemptVars, budgetVars, journalVars, processVars, Phases, Launching,
         Release, File, Files, FileStates
<1>1. CASE Start(p) \/ LaunchAbort(p) \/ Authorize(p) \/ LaunchFail(p) \/ ScriptOpenFail(p)
  BY <1>1, Zenon DEF Start, LaunchAbort, Authorize, LaunchFail, ScriptOpenFail
<1>2. CASE Claim(p)
  BY <1>2, Zenon DEF Claim
<1>3. CASE ClaimSync(p)
  BY <1>3, Zenon DEF ClaimSync
<1>4. ASSUME NEW state \in {"torn", "claimed"}, ClaimFail(p, state)
      PROVE  TypeInv'
  BY <1>4, Zenon DEF ClaimFail
<1>5. CASE Launch(p) \/ Kill(p) \/ Unwind(p)
  BY <1>5, Zenon DEF Launch, Kill, Unwind
<1>6. CASE UpdateRename(p)
  BY <1>6 DEF UpdateRename, Recorded
<1>7. CASE UpdateSync(p) \/ UpdateFail(p)
  BY <1>7 DEF UpdateSync, UpdateFail, Recorded, AfterUpdate, AfterFailure, Runs
<1>. HIDE DEF TypeInv
<1>. QED
  BY <1>1, <1>2, <1>3, <1>4, <1>5, <1>6, <1>7, Zenon DEF LaunchStep

\* Running preserves the types.
LEMMA TypeRun ==
  ASSUME TypeInv, NEW p \in Attempts, RunStep(p)
  PROVE  TypeInv'
BY Zenon
DEF RunStep, ProcessExit, Reap, finish, Cancel, Withdraw, Release, Goto, TypeInv, attemptVars,
    budgetVars, journalVars, processVars, Phases, Runs

\* The manager's steps preserve the types.
LEMMA TypeManager ==
  ASSUME TypeInv, ManagerStep
  PROVE  TypeInv'
<1>. USE DEF TypeInv, attemptVars, budgetVars, journalVars, processVars, Phases, Release
<1>1. CASE CloseBegin \/ CloseCancel \/ CloseEnd \/ NewManager
  BY <1>1, Zenon DEF CloseBegin, CloseCancel, CloseEnd, NewManager
<1>2. CASE TerminalOpen \/ TerminalClose \/ TryMaintenance \/ EndMaintenance
  BY <1>2, ZenonT(30) DEF TerminalOpen, TerminalClose, TryMaintenance, EndMaintenance, Acquire
<1>3. ASSUME NEW machine \in BOOLEAN, Crash(machine)
      PROVE  TypeInv'
  <2>. maintenance' \in BOOLEAN
    BY <1>3, Zenon DEF Crash
  <2>1. CASE machine
    <3>1. PICK kept \in SUBSET Executions :
            disk' = [e \in Executions |-> IF e \in kept THEN disk[e] ELSE stable[e]]
      BY <1>3, <2>1, Zenon DEF Crash
    <3>2. disk' \in [Executions -> Files \cup {Absent}]
      BY <3>1, Zenon
    <3>. QED
      BY <1>3, <2>1, <3>2 DEF Crash
  <2>2. CASE ~machine
    BY <1>3, <2>2 DEF Crash
  <2>. QED
    BY <2>1, <2>2, Zenon
<1>. HIDE DEF TypeInv
<1>. QED
  BY <1>1, <1>2, <1>3, Zenon DEF ManagerStep

\* Every step preserves the types.
LEMMA NextTypeInv == TypeInv /\ [Next]_vars => TypeInv'
<1>1. TypeInv /\ Next => TypeInv'
  BY TypePrepare, TypeLaunch, TypeRun, TypeManager, Zenon DEF Next
<1>2. TypeInv /\ UNCHANGED vars => TypeInv'
  BY Zenon DEF TypeInv, vars, attemptVars, budgetVars, journalVars, processVars
<1>. QED
  BY <1>1, <1>2, Zenon
-----------------------------------------------------------------------------
(* Ownership of the journal's files.                                        *)

\* Nobody owns or has started anything initially.
LEMMA InitOwnInv == Init => OwnInv
BY Zenon DEF Init, OwnInv, Owning, Runs

\* Preparing touches neither files nor processes, and happens before a launch.
LEMMA OwnPrepare ==
  ASSUME TypeInv, OwnInv, NEW p \in Attempts, PrepareStep(p)
  PROVE  OwnInv'
<1>. USE DEF TypeInv, OwnInv, Owns, Owning, AfterLaunch, Runs, Goto, journalVars, processVars
<1>1. CASE PrepareCheck(p) \/ PrepareAdmit(p) \/ PrepareRefuse(p)
  BY <1>1 DEF PrepareCheck, PrepareAdmit, PrepareRefuse
<1>2. CASE PrepareInstall(p) \/ PrepareFail(p) \/ PrepareRelease(p)
  BY <1>2 DEF PrepareInstall, PrepareFail, PrepareRelease
<1>3. CASE PrepareReturn(p)
  BY <1>3 DEF PrepareReturn
<1>4. CASE expire(p) \/ invalidateScript(p)
  BY <1>4 DEF expire, invalidateScript, Withdraw
<1>5. CASE Expiry(p) \/ Attach(p) \/ ScriptEOF(p)
  BY <1>5, Zenon DEF Expiry, Attach, ScriptEOF
<1>. HIDE DEF OwnInv
<1>. QED
  BY <1>1, <1>2, <1>3, <1>4, <1>5, Zenon DEF PrepareStep

\* The claim finds no file, so no owner; every later write is the owner's.
LEMMA OwnLaunch ==
  ASSUME TypeInv, OwnInv, NEW p \in Attempts, LaunchStep(p)
  PROVE  OwnInv'
<1>. USE IdOfAssumption
     DEF TypeInv, OwnInv, Owns, Owning, AfterLaunch, Runs, Goto, journalVars, processVars, Files,
         File, FileStates
<1>1. CASE Start(p) \/ LaunchAbort(p) \/ Authorize(p) \/ LaunchFail(p) \/ ScriptOpenFail(p)
  BY <1>1 DEF Start, LaunchAbort, Authorize, LaunchFail, ScriptOpenFail
<1>w. ASSUME NEW state \in FileStates, disk' = [disk EXCEPT ![IdOf[p]] = File(p, state)]
      PROVE  /\ disk'[IdOf[p]] # Absent /\ disk'[IdOf[p]].owner = p
             /\ \A e \in Executions : e # IdOf[p] => disk'[e] = disk[e]
  <2>1. IdOf[p] \in Executions
    BY Zenon
  <2>2. disk'[IdOf[p]] = [owner |-> p, state |-> state]
    BY <1>w, <2>1
  <2>3. [owner |-> p, state |-> state] # Absent
    BY AbsentIsNoFile DEF Files
  <2>. QED
    BY <1>w, <2>1, <2>2, <2>3
<1>2. CASE Claim(p)
  <2>1. \A q \in Attempts : IdOf[q] = IdOf[p] =>
          phase[q] \notin Owning \cup {"claiming"} /\ q \notin started
    BY <1>2, Zenon DEF Claim
  <2>2. stable[IdOf[p]] = Absent /\ phase[p] = "launching"
    BY <1>2, Zenon DEF Claim
  <2>3. /\ phase' = [phase EXCEPT ![p] = "claiming"]
        /\ UNCHANGED <<stable, started, alive>>
        /\ disk' = [disk EXCEPT ![IdOf[p]] = File(p, "torn")]
    BY <1>2, Zenon DEF Claim
  <2>. QED
    BY <1>w, <2>1, <2>2, <2>3
<1>3. CASE ClaimSync(p)
  BY <1>3, <1>w DEF ClaimSync
<1>o. ASSUME phase[p] \in Owning \cup {"claiming"}
      PROVE  \A q \in Attempts : q # p /\ IdOf[q] = IdOf[p] =>
                phase[q] \notin Owning \cup {"claiming"} /\ q \notin started
  BY <1>o
<1>4. ASSUME NEW state \in {"torn", "claimed"}, ClaimFail(p, state)
      PROVE  OwnInv'
  <2>1. /\ phase[p] = "claiming"
        /\ phase' = [phase EXCEPT ![p] = "unwinding"]
        /\ UNCHANGED <<stable, started, alive>>
        /\ disk' = [disk EXCEPT ![IdOf[p]] = File(p, state)]
    BY <1>4, Zenon DEF ClaimFail
  <2>2. p \notin started /\ disk[IdOf[p]].owner = p
    BY <2>1, Zenon
  <2>3. /\ disk'[IdOf[p]] # Absent /\ disk'[IdOf[p]].owner = p
        /\ \A e \in Executions : e # IdOf[p] => disk'[e] = disk[e]
    BY <1>w, <2>1, ZenonT(30)
  <2>4. \A q \in Attempts : q # p => phase'[q] = phase[q]
    BY <2>1
  <2>5. phase'[p] = "unwinding"
    BY <2>1, Zenon
  <2>. QED
    BY <1>o, <2>1, <2>2, <2>3, <2>4, <2>5
<1>5. CASE Launch(p)
  BY <1>5 DEF Launch
<1>6. CASE Kill(p) \/ Unwind(p)
  BY <1>6 DEF Kill, Unwind
<1>7. CASE UpdateRename(p)
  <2>1. /\ phase[p] \in {"started", "failing", "exited"}
        /\ UNCHANGED <<phase, stable, started, alive>>
    BY <1>7, Zenon DEF UpdateRename, Recorded, attemptVars
  <2>2. Recorded[phase[p]] \in FileStates
    BY <2>1 DEF Recorded
  <2>3. disk' = [disk EXCEPT ![IdOf[p]] = File(p, Recorded[phase[p]])]
    BY <1>7, Zenon DEF UpdateRename
  <2>4. /\ disk'[IdOf[p]] # Absent /\ disk'[IdOf[p]].owner = p
        /\ \A e \in Executions : e # IdOf[p] => disk'[e] = disk[e]
    BY <1>w, <2>2, <2>3, ZenonT(30)
  <2>. QED
    BY <1>o, <2>1, <2>4
<1>8. CASE UpdateSync(p)
  BY <1>8 DEF UpdateSync, Recorded, AfterUpdate
<1>9. CASE UpdateFail(p)
  BY <1>9 DEF UpdateFail, Recorded, AfterFailure
<1>. HIDE DEF OwnInv
<1>. QED
  BY <1>1, <1>2, <1>3, <1>4, <1>5, <1>6, <1>7, <1>8, <1>9, Zenon DEF LaunchStep

\* A run keeps its file.
LEMMA OwnRun ==
  ASSUME TypeInv, OwnInv, NEW p \in Attempts, RunStep(p)
  PROVE  OwnInv'
<1>. USE DEF TypeInv, OwnInv, Owns, Owning, AfterLaunch, Runs, Goto, journalVars, processVars,
            attemptVars
<1>1. CASE ProcessExit(p) \/ Reap(p) \/ finish(p)
  BY <1>1 DEF ProcessExit, Reap, finish
<1>2. CASE Cancel(p)
  BY <1>2 DEF Cancel, Withdraw
<1>. QED
  BY <1>1, <1>2, Zenon DEF RunStep

\* A crash keeps every file that has reached the disk, and its owner.
LEMMA OwnManager ==
  ASSUME TypeInv, OwnInv, ManagerStep
  PROVE  OwnInv'
<1>. USE DEF TypeInv, OwnInv, Owns, Owning, AfterLaunch, Runs, attemptVars, journalVars,
            processVars
<1>1. CASE CloseBegin
  BY <1>1, Zenon DEF CloseBegin
<1>2. CASE CloseCancel \/ CloseEnd \/ NewManager
  BY <1>2, Zenon DEF CloseCancel, CloseEnd, NewManager
<1>3. CASE TerminalOpen \/ TerminalClose \/ TryMaintenance \/ EndMaintenance
  BY <1>3, Zenon DEF TerminalOpen, TerminalClose, TryMaintenance, EndMaintenance
<1>4. ASSUME NEW machine \in BOOLEAN, Crash(machine)
      PROVE  OwnInv'
  <2>1. CASE machine
    <3>1. PICK kept \in SUBSET Executions :
            disk' = [e \in Executions |-> IF e \in kept THEN disk[e] ELSE stable[e]]
      BY <1>4, <2>1, ZenonT(30) DEF Crash
    <3>2. stable' = disk' /\ alive' = {} /\ started' = started
      BY <1>4, <2>1, Zenon DEF Crash
    <3>3. \A e \in Executions :
            stable[e] # Absent => disk'[e] # Absent /\ disk'[e].owner = stable[e].owner
      BY <3>1, Zenon
    <3>4. \A q \in Attempts : phase'[q] \in {"new", "gone"} /\ (phase[q] # "new" => phase'[q] = "gone")
      BY <1>4, Zenon DEF Crash
    <3>5. \A q \in started : q \in Attempts /\ IdOf[q] \in Executions /\ phase'[q] = "gone"
      BY <3>4, IdOfAssumption, Zenon
    <3>6. \A q \in started : disk'[IdOf[q]] # Absent /\ disk'[IdOf[q]].owner = q
      BY <3>3, <3>5
    <3>. QED
      BY <3>2, <3>4, <3>5, <3>6, Zenon
  <2>2. CASE ~machine
    BY <1>4, <2>2, Zenon DEF Crash
  <2>. QED
    BY <2>1, <2>2, Zenon
<1>. HIDE DEF OwnInv
<1>. QED
  BY <1>1, <1>2, <1>3, <1>4, Zenon DEF ManagerStep

\* Every step preserves ownership.
LEMMA NextOwnInv == TypeInv /\ OwnInv /\ [Next]_vars => OwnInv'
<1>1. TypeInv /\ OwnInv /\ Next => OwnInv'
  BY OwnPrepare, OwnLaunch, OwnRun, OwnManager, Zenon DEF Next
<1>2. OwnInv /\ UNCHANGED vars => OwnInv'
  BY Zenon DEF OwnInv, Owns, vars, attemptVars, journalVars, processVars
<1>. QED
  BY <1>1, <1>2, Zenon
-----------------------------------------------------------------------------
(* The budget.                                                              *)

HoldInv ==
  /\ used \in Nat /\ terminals \in Nat
  /\ used = terminals + Cardinality(SlotHolders)
  /\ used <= Maximum
  /\ maintenance => used = 0
  /\ manager = "down" => SlotHolders = {}
  /\ \A p \in alive : p \in orphans \/ phase[p] \in {"started", "killing", "running"}

\* There are finitely many holders.
LEMMA Finite == IsFiniteSet(SlotHolders) /\ Cardinality(SlotHolders) \in Nat
<1>1. IsFiniteSet(SlotHolders)
  BY FiniteAssumption, FS_Subset, Zenon DEF SlotHolders
<1>. QED
  BY <1>1, FS_CardinalityType, Zenon

\* An attempt moves between two phases that both hold a place, or both do not.
LEMMA HoldSame ==
  ASSUME TypeInv, NEW p \in Attempts, NEW next, Goto(p, next), phase[p] \in Holding <=> next \in Holding
  PROVE  SlotHolders' = SlotHolders
BY Zenon DEF TypeInv, Goto, SlotHolders

\* An attempt that gave its place back is one holder less.
LEMMA HoldLess ==
  ASSUME TypeInv, HoldInv, NEW p \in Attempts, Goto(p, "gone"), phase[p] \in Holding, Release(1)
  PROVE  /\ Cardinality(SlotHolders') = Cardinality(SlotHolders) - 1
         /\ used >= 1 /\ used' = used - 1
         /\ SlotHolders' = SlotHolders \ {p}
<1>1. SlotHolders' = SlotHolders \ {p} /\ p \in SlotHolders
  BY Zenon DEF TypeInv, Goto, SlotHolders, Holding, Launching, Runs
<1>2. Cardinality(SlotHolders') = Cardinality(SlotHolders) - 1
  BY <1>1, Finite, FS_RemoveElement, Zenon
<1>3. Cardinality(SlotHolders) >= 1
  BY <1>1, Finite, FS_EmptySet
<1>. QED
  BY <1>1, <1>2, <1>3, Finite DEF HoldInv, Release

\* An attempt that was admitted is one holder more.
LEMMA HoldMore ==
  ASSUME TypeInv, NEW p \in Attempts, PrepareAdmit(p)
  PROVE  Cardinality(SlotHolders') = Cardinality(SlotHolders) + 1
<1>1. SlotHolders' = SlotHolders \cup {p} /\ p \notin SlotHolders
  BY Zenon DEF TypeInv, PrepareAdmit, Goto, SlotHolders, Holding, Launching, Runs
<1>. QED
  BY <1>1, Finite, FS_AddElement, Zenon

\* A step that gives back the place of an attempt without a process.
LEMMA HoldRelease ==
  ASSUME TypeInv, HoldInv, NEW p \in Attempts, Goto(p, "gone"), phase[p] \in Holding, Release(1),
         p \notin alive \ orphans, UNCHANGED <<manager, terminals, alive, orphans>>
  PROVE  HoldInv'
<1>1. /\ Cardinality(SlotHolders') = Cardinality(SlotHolders) - 1
      /\ used >= 1 /\ used' = used - 1
      /\ SlotHolders' = SlotHolders \ {p}
  BY HoldLess, Zenon
<1>a. used # 0
  BY <1>1 DEF HoldInv
<1>b. ~maintenance
  BY <1>a, Zenon DEF HoldInv
<1>2. ~maintenance'
  BY <1>b, Zenon DEF Release
<1>3. \A q \in alive' : q \in orphans' \/ phase'[q] \in {"started", "killing", "running"}
  BY Zenon DEF HoldInv, TypeInv, Goto
<1>4. /\ used' \in Nat /\ terminals' \in Nat
      /\ used' = terminals' + Cardinality(SlotHolders')
      /\ used' <= Maximum
  BY <1>1, Finite, MaximumAssumption DEF HoldInv
<1>5. manager' = "down" => SlotHolders' = {}
  BY <1>1, Zenon DEF HoldInv
<1>. QED
  BY <1>2, <1>3, <1>4, <1>5, Zenon DEF HoldInv

\* A step between two phases that hold a place.
LEMMA HoldMove ==
  ASSUME TypeInv, HoldInv, NEW p \in Attempts, NEW next, Goto(p, next),
         phase[p] \in Holding <=> next \in Holding,
         p \in alive' \ orphans' => next \in {"started", "killing", "running"},
         alive' \subseteq alive \cup {p}, UNCHANGED <<manager, used, terminals, maintenance, orphans>>
  PROVE  HoldInv'
<1>1. SlotHolders' = SlotHolders
  BY HoldSame, Zenon
<1>2. \A q \in alive' : q \in orphans' \/ phase'[q] \in {"started", "killing", "running"}
  BY Zenon DEF HoldInv, TypeInv, Goto
<1>. QED
  BY <1>1, <1>2, Zenon DEF HoldInv

\* The manager and the budget are empty initially.
LEMMA InitHoldInv == Init => HoldInv
<1>. SUFFICES ASSUME Init PROVE HoldInv
  BY Zenon
<1>1. SlotHolders = {}
  BY Zenon DEF Init, SlotHolders, Holding, Launching, Runs
<1>2. used = 0 /\ terminals = 0 /\ manager = "open" /\ alive = {}
  BY Zenon DEF Init
<1>. QED
  BY <1>1, <1>2, FS_EmptySet, MaximumAssumption DEF HoldInv

\* Preparing keeps the account.
LEMMA HoldPrepare ==
  ASSUME TypeInv, OwnInv, HoldInv, NEW p \in Attempts, PrepareStep(p)
  PROVE  HoldInv'
<1>. USE DEF budgetVars, processVars
<1>a. \A q \in alive : q \in Attempts
  BY Zenon DEF TypeInv
<1>b. phase[p] \notin {"started", "killing", "running"} => p \notin alive \ orphans
  BY Zenon DEF HoldInv
<1>1. CASE PrepareAdmit(p)
  <2>1. /\ manager = "open" /\ manager' = manager /\ used' = used + 1 /\ used < Maximum
        /\ terminals' = terminals /\ maintenance' = maintenance /\ ~maintenance
        /\ phase' = [phase EXCEPT ![p] = "resolving"] /\ phase[p] = "checked"
        /\ alive' = alive /\ orphans' = orphans
    BY <1>1, Zenon DEF PrepareAdmit, Acquire, CanAcquire, Goto
  <2>2. Cardinality(SlotHolders') = Cardinality(SlotHolders) + 1
    BY <1>1, HoldMore, Zenon
  <2>. QED
    BY <1>a, <1>b, <2>1, <2>2, Finite, MaximumAssumption DEF HoldInv, TypeInv
<1>2. CASE PrepareCheck(p) \/ PrepareRefuse(p) \/ PrepareInstall(p) \/ PrepareFail(p)
  <2>1. PICK next \in {"checked", "gone", "prepared", "failed"} : Goto(p, next)
    BY <1>2, Zenon DEF PrepareCheck, PrepareRefuse, PrepareInstall, PrepareFail
  <2>2. /\ UNCHANGED <<manager, used, terminals, maintenance, alive, orphans>>
        /\ phase[p] \in {"new", "checked", "resolving"}
    BY <1>2, Zenon DEF PrepareCheck, PrepareRefuse, PrepareInstall, PrepareFail
  <2>3. phase[p] \in Holding <=> next \in Holding
    BY <1>2, <2>1, Zenon
    DEF PrepareCheck, PrepareRefuse, PrepareInstall, PrepareFail, Goto, TypeInv, Holding,
        Launching, Runs
  <2>4. SlotHolders' = SlotHolders
    BY <2>1, <2>3, HoldSame, Zenon
  <2>. QED
    BY <2>1, <2>2, <2>4, Zenon DEF HoldInv, TypeInv, Goto
<1>3. CASE PrepareReturn(p)
  <2>1. /\ UNCHANGED <<manager, used, terminals, maintenance, alive, orphans>>
        /\ phase' = [phase EXCEPT ![p] = IF @ = "failed" THEN "releasing" ELSE @]
    BY <1>3, Zenon DEF PrepareReturn
  <2>2. SlotHolders' = SlotHolders
    BY <2>1, Zenon DEF SlotHolders, Holding, TypeInv, Launching, Runs
  <2>. QED
    BY <1>a, <1>b, <2>1, <2>2, Zenon DEF HoldInv, TypeInv
<1>4. CASE PrepareRelease(p) \/ expire(p) \/ invalidateScript(p)
  <2>1. /\ Goto(p, "gone") /\ Release(1) /\ phase[p] \in {"releasing", "prepared"}
        /\ UNCHANGED <<manager, terminals, alive, orphans>>
    BY <1>4, Zenon DEF PrepareRelease, expire, invalidateScript, Withdraw
  <2>2. phase[p] \in Holding
    BY <2>1, Zenon DEF Holding
  <2>. QED
    BY <1>b, <2>1, <2>2, HoldRelease, Zenon
<1>5. CASE Expiry(p) \/ Attach(p) \/ ScriptEOF(p)
  <2>1. UNCHANGED <<phase, manager, used, terminals, maintenance, alive, orphans>>
    BY <1>5, Zenon DEF Expiry, Attach, ScriptEOF
  <2>. QED
    BY <2>1, Zenon DEF HoldInv, SlotHolders
<1>. HIDE DEF HoldInv
<1>. QED
  BY <1>1, <1>2, <1>3, <1>4, <1>5, Zenon DEF PrepareStep

\* Launching keeps the account; only a process that was started keeps its
\* attempt in the phases of a live one.
LEMMA HoldLaunch ==
  ASSUME TypeInv, OwnInv, HoldInv, NEW p \in Attempts, LaunchStep(p)
  PROVE  HoldInv'
<1>. USE DEF budgetVars, processVars
<1>b. phase[p] \notin {"started", "killing", "running"} => p \notin alive \ orphans
  BY Zenon DEF HoldInv
<1>h. Launching \cup Runs \cup {"prepared"} \subseteq Holding
  BY Zenon DEF Holding
<1>1. CASE Start(p) \/ LaunchAbort(p) \/ ScriptOpenFail(p) \/ Authorize(p) \/ LaunchFail(p)
  <2>1. PICK next \in Launching : Goto(p, next)
    BY <1>1, Zenon DEF Start, LaunchAbort, ScriptOpenFail, Authorize, LaunchFail, Launching
  <2>2. /\ UNCHANGED <<manager, used, terminals, maintenance, alive, orphans>>
        /\ phase[p] \in {"prepared", "launching", "claimed", "authorized"}
    BY <1>1, Zenon DEF Start, LaunchAbort, ScriptOpenFail, Authorize, LaunchFail
  <2>3. phase[p] \in Holding /\ next \in Holding
    BY <1>h, <2>1, <2>2, Zenon DEF Launching
  <2>. QED
    BY <1>b, <2>1, <2>2, <2>3, HoldMove, Zenon
<1>2. CASE Claim(p) \/ ClaimSync(p) \/ (\E state \in {"torn", "claimed"} : ClaimFail(p, state))
  <2>1. PICK next \in Launching : Goto(p, next)
    BY <1>2, ZenonT(30) DEF Claim, ClaimSync, ClaimFail, Launching
  <2>2. /\ UNCHANGED <<manager, used, terminals, maintenance, alive, orphans>>
        /\ phase[p] \in {"launching", "claiming"}
    BY <1>2, Zenon DEF Claim, ClaimSync, ClaimFail
  <2>3. phase[p] \in Holding /\ next \in Holding
    BY <1>h, <2>1, <2>2, Zenon DEF Launching
  <2>. QED
    BY <1>b, <2>1, <2>2, <2>3, HoldMove, Zenon
<1>3. CASE Launch(p)
  <2>1. /\ Goto(p, "started") /\ phase[p] = "authorized" /\ alive' = alive \cup {p}
        /\ UNCHANGED <<manager, used, terminals, maintenance, orphans>>
    BY <1>3, Zenon DEF Launch
  <2>2. phase[p] \in Holding /\ "started" \in Holding
    BY <1>h, <2>1, Zenon DEF Launching
  <2>. QED
    BY <2>1, <2>2, HoldMove, Zenon
<1>4. CASE Kill(p)
  <2>1. /\ Goto(p, "unwinding") /\ phase[p] = "killing" /\ alive' = alive \ {p}
        /\ UNCHANGED <<manager, used, terminals, maintenance, orphans>>
    BY <1>4, Zenon DEF Kill
  <2>2. phase[p] \in Holding /\ "unwinding" \in Holding
    BY <1>h, <2>1, Zenon DEF Launching
  <2>. QED
    BY <2>1, <2>2, HoldMove, Zenon
<1>5. CASE Unwind(p)
  <2>1. /\ Goto(p, "gone") /\ Release(1) /\ phase[p] = "unwinding"
        /\ UNCHANGED <<manager, terminals, alive, orphans>>
    BY <1>5, Zenon DEF Unwind
  <2>2. phase[p] \in Holding
    BY <1>h, <2>1, Zenon DEF Launching
  <2>. QED
    BY <1>b, <2>1, <2>2, HoldRelease, Zenon
<1>6. CASE UpdateRename(p)
  BY <1>6, Zenon DEF UpdateRename, HoldInv, SlotHolders, attemptVars
<1>7. CASE UpdateSync(p) \/ UpdateFail(p)
  <2>1. /\ phase[p] \in {"started", "failing", "exited"}
        /\ UNCHANGED <<manager, used, terminals, maintenance, alive, orphans>>
        /\ Goto(p, AfterUpdate[phase[p]]) \/ Goto(p, AfterFailure[phase[p]])
    BY <1>7, Zenon DEF UpdateSync, UpdateFail, Recorded
  <2>2. PICK next \in {"running", "unwinding", "recorded", "killing"} :
          /\ Goto(p, next)
          /\ phase[p] = "started" => next \in {"running", "killing"}
    BY <2>1 DEF AfterUpdate, AfterFailure
  <2>3. phase[p] \in Holding /\ next \in Holding
    BY <1>h, <2>1, <2>2, Zenon DEF Launching, Runs
  <2>. QED
    BY <1>b, <2>1, <2>2, <2>3, HoldMove, Zenon
<1>. HIDE DEF HoldInv
<1>. QED
  BY <1>1, <1>2, <1>3, <1>4, <1>5, <1>6, <1>7, Zenon DEF LaunchStep

\* Running keeps the account: a run is reaped only once its process is gone.
LEMMA HoldRun ==
  ASSUME TypeInv, OwnInv, HoldInv, NEW p \in Attempts, RunStep(p)
  PROVE  HoldInv'
<1>. USE DEF budgetVars, processVars
<1>b. phase[p] \notin {"started", "killing", "running"} => p \notin alive \ orphans
  BY Zenon DEF HoldInv
<1>h. Launching \cup Runs \cup {"prepared"} \subseteq Holding
  BY Zenon DEF Holding
<1>1. CASE ProcessExit(p)
  <2>1. /\ UNCHANGED <<phase, manager, used, terminals, maintenance>>
        /\ alive' = alive \ {p} /\ orphans' = orphans \ {p}
    BY <1>1, Zenon DEF ProcessExit, attemptVars
  <2>. QED
    BY <2>1, Zenon DEF HoldInv, SlotHolders
<1>2. CASE Reap(p)
  <2>1. /\ Goto(p, "exited") /\ phase[p] = "running" /\ p \notin alive
        /\ UNCHANGED <<manager, used, terminals, maintenance, alive, orphans>>
    BY <1>2, Zenon DEF Reap
  <2>2. phase[p] \in Holding /\ "exited" \in Holding
    BY <1>h, <2>1, Zenon DEF Runs
  <2>. QED
    BY <2>1, <2>2, HoldMove, Zenon
<1>3. CASE finish(p) \/ Withdraw(p)
  <2>1. /\ Goto(p, "gone") /\ Release(1) /\ phase[p] \in {"recorded", "prepared"}
        /\ UNCHANGED <<manager, terminals, alive, orphans>>
    BY <1>3, Zenon DEF finish, Withdraw
  <2>2. phase[p] \in Holding
    BY <1>h, <2>1, Zenon DEF Runs
  <2>. QED
    BY <1>b, <2>1, <2>2, HoldRelease, Zenon
<1>4. CASE Cancel(p) /\ ~Withdraw(p)
  BY <1>4 DEF Cancel, HoldInv, SlotHolders
<1>. QED
  BY <1>1, <1>2, <1>3, <1>4, Zenon DEF RunStep, Cancel

\* Close gives back as many places as it withdraws preparations.
LEMMA HoldClose ==
  ASSUME TypeInv, HoldInv, CloseBegin
  PROVE  HoldInv'
<1>. DEFINE withdrawn == {p \in Attempts : phase[p] = "prepared"}
<1>1. /\ phase' = [p \in Attempts |-> IF p \in withdrawn THEN "gone" ELSE phase[p]]
      /\ Release(Cardinality(withdrawn))
      /\ manager' = "closing" /\ UNCHANGED <<terminals, alive, orphans>>
  BY Zenon DEF CloseBegin, processVars
<1>2. withdrawn \subseteq SlotHolders /\ SlotHolders' = SlotHolders \ withdrawn
  BY <1>1, Zenon DEF TypeInv, SlotHolders, Holding, Launching, Runs
<1>3. \A q \in alive' : q \in orphans' \/ phase'[q] \in {"started", "killing", "running"}
  BY <1>1, Zenon DEF HoldInv, TypeInv
<1>. HIDE DEF withdrawn
<1>4. IsFiniteSet(SlotHolders)
  BY Finite, Zenon
<1>5. IsFiniteSet(withdrawn) /\ Cardinality(withdrawn) \in Nat
      /\ Cardinality(withdrawn) <= Cardinality(SlotHolders)
  BY <1>2, <1>4, FS_Subset, FS_CardinalityType, Zenon
<1>6. Cardinality(SlotHolders \ withdrawn)
        = Cardinality(SlotHolders) - Cardinality(SlotHolders \cap withdrawn)
  BY <1>4, FS_Difference, ZenonT(30)
<1>7. SlotHolders \cap withdrawn = withdrawn
  BY <1>2, Zenon
<1>8. Cardinality(SlotHolders') = Cardinality(SlotHolders) - Cardinality(withdrawn)
  BY <1>2, <1>6, <1>7, Zenon
<1>a. used \in Nat /\ terminals \in Nat /\ used = terminals + Cardinality(SlotHolders)
      /\ used <= Maximum
  BY Zenon DEF HoldInv
<1>9. used >= Cardinality(withdrawn) /\ used' = used - Cardinality(withdrawn)
  BY <1>1, <1>5, <1>a, Finite DEF Release
<1>10. /\ used' \in Nat /\ terminals' \in Nat
       /\ used' = terminals' + Cardinality(SlotHolders')
       /\ used' <= Maximum
  BY <1>1, <1>5, <1>8, <1>9, <1>a, Finite, MaximumAssumption
<1>11. maintenance' => used' = 0
  <2>1. maintenance' = maintenance
    BY <1>1, Zenon DEF Release
  <2>2. used = 0 => used' = 0
    BY <1>5, <1>9, <1>a
  <2>. QED
    BY <2>1, <2>2, Zenon DEF HoldInv
<1>12. manager' # "down"
  BY <1>1, Zenon
<1>. QED
  BY <1>3, <1>10, <1>11, <1>12, Zenon DEF HoldInv

\* The manager's life and the terminals keep the account.
LEMMA HoldManager ==
  ASSUME TypeInv, OwnInv, HoldInv, ManagerStep
  PROVE  HoldInv'
<1>1. CASE CloseBegin
  BY <1>1, HoldClose, Zenon
<1>2. CASE CloseCancel \/ CloseEnd \/ NewManager
  <2>1. /\ UNCHANGED <<phase, used, terminals, alive, orphans>>
        /\ manager' = "down" => SlotHolders = {}
    BY <1>2, Zenon DEF CloseCancel, CloseEnd, NewManager, attemptVars, budgetVars, processVars
  <2>2. maintenance' = maintenance
    BY <1>2, Zenon DEF CloseCancel, CloseEnd, NewManager, budgetVars
  <2>. QED
    BY <2>1, <2>2, Zenon DEF HoldInv, SlotHolders
<1>3. CASE TerminalOpen \/ TerminalClose
  <2>1. UNCHANGED <<phase, manager, alive, orphans, maintenance>>
    BY <1>3, Zenon DEF TerminalOpen, TerminalClose, Acquire, Release, attemptVars, processVars
  <2>2. SlotHolders' = SlotHolders
    BY <2>1, Zenon DEF SlotHolders
  <2>3. /\ used' \in Nat /\ terminals' \in Nat
        /\ used' = terminals' + Cardinality(SlotHolders')
        /\ used' <= Maximum
    BY <1>3, <2>2, Finite, MaximumAssumption
       DEF HoldInv, TerminalOpen, TerminalClose, Acquire, CanAcquire, Release
  <2>4. ~maintenance'
    <3>1. TerminalClose => used # 0
      BY Finite DEF HoldInv, TerminalClose
    <3>2. ~maintenance
      BY <1>3, <3>1, Zenon DEF HoldInv, TerminalOpen, Acquire, CanAcquire
    <3>. QED
      BY <2>1, <3>2, Zenon
  <2>5. \A q \in alive' : q \in orphans' \/ phase'[q] \in {"started", "killing", "running"}
    BY <2>1, Zenon DEF HoldInv
  <2>6. manager' = "down" => SlotHolders' = {}
    BY <2>1, <2>2, Zenon DEF HoldInv
  <2>. QED
    BY <2>3, <2>4, <2>5, <2>6, Zenon DEF HoldInv
<1>4. CASE TryMaintenance \/ EndMaintenance
  <2>1. UNCHANGED <<phase, manager, used, terminals, alive, orphans>>
    BY <1>4, Zenon DEF TryMaintenance, EndMaintenance, attemptVars, processVars
  <2>2. maintenance' => used = 0
    BY <1>4, Zenon DEF TryMaintenance, EndMaintenance
  <2>3. /\ used' \in Nat /\ terminals' \in Nat
        /\ used' = terminals' + Cardinality(SlotHolders')
        /\ used' <= Maximum
        /\ manager' = "down" => SlotHolders' = {}
        /\ \A q \in alive' : q \in orphans' \/ phase'[q] \in {"started", "killing", "running"}
    BY <2>1, Zenon DEF HoldInv, SlotHolders
  <2>. QED
    BY <2>1, <2>2, <2>3, Zenon DEF HoldInv
<1>5. ASSUME NEW machine \in BOOLEAN, Crash(machine)
      PROVE  HoldInv'
  <2>1. used' = 0 /\ terminals' = 0 /\ orphans' = alive'
    BY <1>5, Zenon DEF Crash
  <2>2. phase' = [p \in Attempts |-> IF phase[p] = "new" THEN "new" ELSE "gone"]
    BY <1>5, Zenon DEF Crash
  <2>3. SlotHolders' = {}
    BY <2>2, Zenon DEF SlotHolders, Holding, Launching, Runs
  <2>. QED
    BY <2>1, <2>3, FS_EmptySet, MaximumAssumption DEF HoldInv
<1>. HIDE DEF HoldInv
<1>. QED
  BY <1>1, <1>2, <1>3, <1>4, <1>5, Zenon DEF ManagerStep

\* Every step keeps the account.
LEMMA NextHoldInv == TypeInv /\ OwnInv /\ HoldInv /\ [Next]_vars => HoldInv'
<1>1. TypeInv /\ OwnInv /\ HoldInv /\ Next => HoldInv'
  BY HoldPrepare, HoldLaunch, HoldRun, HoldManager, Zenon DEF Next
<1>2. HoldInv /\ UNCHANGED vars => HoldInv'
  BY DEF HoldInv, SlotHolders, vars, attemptVars, budgetVars, processVars
<1>. QED
  BY <1>1, <1>2, Zenon
-----------------------------------------------------------------------------
(* What the journal says.                                                   *)

GoodFile(e, f) ==
  f # Absent =>
    /\ IdOf[f.owner] = e
    /\ f.state = "launch_failed" =>
         f.owner \notin started /\ phase[f.owner] \in {"failing", "unwinding", "gone"}
    /\ f.state = "ended" =>
         f.owner \in started \ alive /\ phase[f.owner] \in {"exited", "recorded", "gone"}

TruthInv ==
  /\ \A e \in Executions : GoodFile(e, disk[e]) /\ GoodFile(e, stable[e])
  /\ \A e \in Executions : records[e] = "running" => disk[e] # Absent /\ disk[e].owner \in started
  /\ \A p \in Attempts : phase[p] \in {"exited", "recorded"} => p \notin alive

\* The variables the journal's truth is about, and what is known of them.
LEMMA JournalFacts ==
  ASSUME TypeInv, TruthInv
  PROVE  /\ phase \in [Attempts -> Phases] /\ records \in [Executions -> {"none", "claimed", "running"}]
         /\ disk \in [Executions -> Files \cup {Absent}] /\ stable \in [Executions -> Files \cup {Absent}]
         /\ \A e \in Executions : GoodFile(e, disk[e]) /\ GoodFile(e, stable[e])
         /\ \A e \in Executions : records[e] = "running" => disk[e] # Absent /\ disk[e].owner \in started
         /\ \A q \in Attempts : phase[q] \in {"exited", "recorded"} => q \notin alive
<1>1. /\ phase \in [Attempts -> Phases] /\ records \in [Executions -> {"none", "claimed", "running"}]
      /\ disk \in [Executions -> Files \cup {Absent}] /\ stable \in [Executions -> Files \cup {Absent}]
  BY Zenon DEF TypeInv
<1>. QED
  BY <1>1, Zenon DEF TruthInv

\* No file exists initially.
LEMMA InitTruthInv == Init => TruthInv
BY Zenon DEF Init, TruthInv, GoodFile

\* A step that neither writes files nor starts processes keeps every file
\* good, as long as the attempts it moves keep the phases the files rest on.
LEMMA FilesStayGood ==
  ASSUME TypeInv, TruthInv, UNCHANGED <<disk, stable, started>>, alive' \subseteq alive,
         \A q \in Attempts :
           /\ phase[q] \in {"failing", "unwinding", "gone"} =>
                phase'[q] \in {"failing", "unwinding", "gone"}
           /\ phase[q] \in {"exited", "recorded", "gone"} =>
                phase'[q] \in {"exited", "recorded", "gone"}
  PROVE  \A e \in Executions : GoodFile(e, disk[e])' /\ GoodFile(e, stable[e])'
<1>t. /\ phase \in [Attempts -> Phases] /\ records \in [Executions -> {"none", "claimed", "running"}]
      /\ disk \in [Executions -> Files \cup {Absent}] /\ stable \in [Executions -> Files \cup {Absent}]
  BY JournalFacts, Zenon
<1>g. \A e \in Executions : GoodFile(e, disk[e]) /\ GoodFile(e, stable[e])
  BY JournalFacts, Zenon
<1>r. \A e \in Executions : records[e] = "running" => disk[e] # Absent /\ disk[e].owner \in started
  BY JournalFacts, Zenon
<1>x. \A q \in Attempts : phase[q] \in {"exited", "recorded"} => q \notin alive
  BY JournalFacts, Zenon
<1>. SUFFICES ASSUME NEW e \in Executions, NEW f \in {disk[e], stable[e]}
              PROVE  GoodFile(e, f)'
  BY Zenon
<1>1. f \in Files \cup {Absent} /\ GoodFile(e, f)
  BY <1>t, <1>g, Zenon
<1>2. f # Absent => f.owner \in Attempts
  BY <1>1, Zenon DEF Files
<1>. QED
  BY <1>1, <1>2, Zenon DEF GoodFile

\* Preparing writes nothing.
LEMMA TruthPrepare ==
  ASSUME TypeInv, OwnInv, TruthInv, NEW p \in Attempts, PrepareStep(p)
  PROVE  TruthInv'
<1>t. /\ phase \in [Attempts -> Phases] /\ records \in [Executions -> {"none", "claimed", "running"}]
      /\ disk \in [Executions -> Files \cup {Absent}] /\ stable \in [Executions -> Files \cup {Absent}]
  BY JournalFacts, Zenon
<1>g. \A e \in Executions : GoodFile(e, disk[e]) /\ GoodFile(e, stable[e])
  BY JournalFacts, Zenon
<1>r. \A e \in Executions : records[e] = "running" => disk[e] # Absent /\ disk[e].owner \in started
  BY JournalFacts, Zenon
<1>x. \A q \in Attempts : phase[q] \in {"exited", "recorded"} => q \notin alive
  BY JournalFacts, Zenon
<1>1. UNCHANGED <<disk, stable, records, started, alive>>
  BY ZenonT(30)
  DEF PrepareStep, PrepareCheck, PrepareAdmit, PrepareRefuse, PrepareInstall, PrepareFail,
         PrepareReturn, PrepareRelease, Expiry, expire, Attach, ScriptEOF, invalidateScript,
         Withdraw, journalVars, processVars
<1>2. PICK next \in {"checked", "resolving", "failed", "releasing", "prepared", "gone", phase[p]} :
        /\ phase' = [phase EXCEPT ![p] = next]
        /\ next = phase[p] \/
             phase[p] \in {"new", "checked", "resolving", "failed", "releasing", "prepared"}
  <2>1. CASE PrepareCheck(p) \/ PrepareAdmit(p) \/ PrepareRefuse(p) \/ PrepareInstall(p)
             \/ PrepareFail(p)
    BY <2>1, Zenon
    DEF PrepareCheck, PrepareAdmit, PrepareRefuse, PrepareInstall, PrepareFail, Goto
  <2>2. CASE PrepareReturn(p)
    BY <1>t, <2>2, ZenonT(30) DEF PrepareReturn
  <2>3. CASE PrepareRelease(p) \/ expire(p) \/ invalidateScript(p)
    BY <2>3, Zenon DEF PrepareRelease, expire, invalidateScript, Withdraw, Goto
  <2>4. CASE Expiry(p) \/ Attach(p) \/ ScriptEOF(p)
    BY <1>t, <2>4, Zenon DEF Expiry, Attach, ScriptEOF
  <2>. QED
    BY <2>1, <2>2, <2>3, <2>4, Zenon DEF PrepareStep
<1>4. \A e \in Executions : GoodFile(e, disk[e])' /\ GoodFile(e, stable[e])'
  BY <1>t, <1>1, <1>2, FilesStayGood, Zenon
<1>5. \A q \in Attempts : phase'[q] \in {"exited", "recorded"} => phase[q] = phase'[q]
  BY <1>t, <1>2, Zenon
<1>6. \A q \in Attempts : phase'[q] \in {"exited", "recorded"} => q \notin alive'
  BY <1>x, <1>1, <1>5, Zenon
<1>7. \A e \in Executions : records'[e] = "running" => disk'[e] # Absent /\ disk'[e].owner \in started'
  BY <1>r, <1>1, Zenon
<1>. QED
  BY <1>4, <1>6, <1>7, Zenon DEF TruthInv

\* Launching: a claim is no statement of fact, and a result is written in the
\* phase it states.
LEMMA TruthLaunch ==
  ASSUME TypeInv, OwnInv, HoldInv, TruthInv, NEW p \in Attempts, LaunchStep(p)
  PROVE  TruthInv'
<1>. USE IdOfAssumption
<1>t. /\ phase \in [Attempts -> Phases] /\ records \in [Executions -> {"none", "claimed", "running"}]
      /\ disk \in [Executions -> Files \cup {Absent}] /\ stable \in [Executions -> Files \cup {Absent}]
  BY JournalFacts, Zenon
<1>g. \A e \in Executions : GoodFile(e, disk[e]) /\ GoodFile(e, stable[e])
  BY JournalFacts, Zenon
<1>r. \A e \in Executions : records[e] = "running" => disk[e] # Absent /\ disk[e].owner \in started
  BY JournalFacts, Zenon
<1>x. \A q \in Attempts : phase[q] \in {"exited", "recorded"} => q \notin alive
  BY JournalFacts, Zenon
<1>a. p \in alive => phase[p] \in {"started", "killing", "unwinding", "gone", "running"}
  BY <1>x, Zenon DEF OwnInv, AfterLaunch, Runs
<1>1. CASE Start(p) \/ LaunchAbort(p) \/ ScriptOpenFail(p) \/ Authorize(p) \/ LaunchFail(p)
           \/ Kill(p) \/ Unwind(p)
  <2>1. UNCHANGED <<disk, stable, records, started>> /\ alive' \subseteq alive
    BY <1>1, Zenon
    DEF Start, LaunchAbort, ScriptOpenFail, Authorize, LaunchFail, Kill, Unwind, journalVars,
        processVars
  <2>2. PICK next \in {"launching", "unwinding", "authorized", "failing", "gone"} : Goto(p, next)
    BY <1>1, Zenon DEF Start, LaunchAbort, ScriptOpenFail, Authorize, LaunchFail, Kill, Unwind
  <2>3. /\ phase[p] \in {"prepared", "launching", "claimed", "authorized", "killing", "unwinding"}
        /\ phase[p] = "unwinding" => next = "gone"
    BY <1>t, <1>1, <2>2, Zenon
    DEF Start, LaunchAbort, ScriptOpenFail, Authorize, LaunchFail, Kill, Unwind, Goto
  <2>4. \A e \in Executions : GoodFile(e, disk[e])' /\ GoodFile(e, stable[e])'
    <3>1. \A q \in Attempts : phase'[q] = phase[q] \/ (q = p /\ phase'[q] = next)
      BY <1>t, <2>2, Zenon DEF Goto
    <3>. QED
      BY <2>1, <2>3, <3>1, FilesStayGood, Zenon
  <2>5. \A q \in Attempts : phase'[q] \in {"exited", "recorded"} => q \notin alive'
    BY <1>t, <1>x, <2>1, <2>2, Zenon DEF Goto
  <2>6. \A e \in Executions : records'[e] = "running" => disk'[e] # Absent /\ disk'[e].owner \in started'
    BY <1>r, <2>1, Zenon
  <2>. QED
    BY <2>4, <2>5, <2>6, Zenon DEF TruthInv
<1>2. CASE Claim(p) \/ ClaimSync(p) \/ (\E state \in {"torn", "claimed"} : ClaimFail(p, state))
  <2>1. PICK state \in {"torn", "claimed"} :
          /\ disk' = [disk EXCEPT ![IdOf[p]] = File(p, state)]
          /\ stable' = stable \/ stable' = [stable EXCEPT ![IdOf[p]] = File(p, state)]
    BY <1>2, Zenon DEF Claim, ClaimSync, ClaimFail
  <2>2. UNCHANGED <<started, alive>>
    BY <1>2, Zenon DEF Claim, ClaimSync, ClaimFail, processVars
  <2>3. PICK next \in {"claiming", "claimed", "unwinding"} : Goto(p, next)
    BY <1>2, Zenon DEF Claim, ClaimSync, ClaimFail
  <2>4. phase[p] \in {"launching", "claiming"}
    BY <1>2, Zenon DEF Claim, ClaimSync, ClaimFail
  <2>5. ASSUME NEW e \in Executions, NEW f \in {disk[e], stable[e]}
        PROVE  GoodFile(e, f)'
    <3>1. f \in Files \cup {Absent} /\ GoodFile(e, f)
      BY <1>t, <1>g, Zenon
    <3>2. f # Absent => f.owner \in Attempts
      BY <3>1, Zenon DEF Files
    <3>. QED
      BY <1>t, <2>2, <2>3, <2>4, <3>1, <3>2, Zenon DEF GoodFile, Goto
  <2>6. GoodFile(IdOf[p], File(p, state))'
    BY Zenon DEF GoodFile, File
  <2>7. ASSUME NEW e \in Executions PROVE GoodFile(e, disk[e])' /\ GoodFile(e, stable[e])'
    <3>1. disk'[e] \in {disk[e], stable[e]} \/ (e = IdOf[p] /\ disk'[e] = File(p, state))
      BY <1>t, <2>1, Zenon
    <3>2. stable'[e] \in {disk[e], stable[e]} \/ (e = IdOf[p] /\ stable'[e] = File(p, state))
      BY <1>t, <2>1, Zenon
    <3>3. \A f \in {disk[e], stable[e]} : GoodFile(e, f)'
      BY <2>5, Zenon
    <3>. QED
      BY <2>6, <3>1, <3>2, <3>3, Zenon DEF GoodFile
  <2>8. ASSUME NEW e \in Executions, records'[e] = "running"
        PROVE  disk'[e] # Absent /\ disk'[e].owner \in started'
    <3>1. records[e] = "running" /\ e # IdOf[p]
      <4>1. CASE Claim(p) \/ (\E st \in {"torn", "claimed"} : ClaimFail(p, st))
        BY <1>t, <2>8, <4>1, Zenon DEF Claim, ClaimFail
      <4>2. CASE ClaimSync(p)
        <5>1. records' = records /\ phase[p] = "claiming"
          BY <4>2, Zenon DEF ClaimSync
        <5>2. Owns(p) /\ p \notin started
          BY <5>1, Zenon DEF OwnInv, AfterLaunch, Runs
        <5>. QED
          BY <1>r, <2>8, <5>1, <5>2, Zenon DEF Owns
      <4>. QED
        BY <1>2, <4>1, <4>2, Zenon
    <3>. QED
      BY <1>t, <1>r, <2>1, <2>2, <3>1, Zenon
  <2>9. \A q \in Attempts : phase'[q] \in {"exited", "recorded"} => q \notin alive'
    BY <1>t, <1>x, <2>2, <2>3, Zenon DEF Goto
  <2>. QED
    BY <2>7, <2>8, <2>9, Zenon DEF TruthInv
<1>3. CASE Launch(p)
  <2>1. /\ phase[p] = "authorized" /\ Goto(p, "started")
        /\ started' = started \cup {p} /\ alive' = alive \cup {p}
        /\ UNCHANGED <<disk, stable, records>>
    BY <1>3, Zenon DEF Launch, journalVars
  <2>2. ASSUME NEW e \in Executions, NEW f \in {disk[e], stable[e]}
        PROVE  GoodFile(e, f)'
    <3>1. f \in Files \cup {Absent} /\ GoodFile(e, f)
      BY <1>t, <1>g, Zenon
    <3>2. f # Absent => f.owner \in Attempts
      BY <3>1, ZenonT(30) DEF Files
    <3>. QED
      BY <1>t, <2>1, <3>1, <3>2, Zenon DEF GoodFile, Goto
  <2>3. \A e \in Executions : GoodFile(e, disk[e])' /\ GoodFile(e, stable[e])'
    BY <2>1, <2>2, Zenon
  <2>4. \A q \in Attempts : phase'[q] \in {"exited", "recorded"} => q \notin alive'
    BY <1>t, <1>x, <2>1, Zenon DEF Goto
  <2>5. \A e \in Executions : records'[e] = "running" => disk'[e] # Absent /\ disk'[e].owner \in started'
    BY <1>r, <2>1, Zenon
  <2>. QED
    BY <2>3, <2>4, <2>5, Zenon DEF TruthInv
<1>4. CASE UpdateRename(p)
  <2>1. /\ phase[p] \in {"started", "failing", "exited"}
        /\ disk' = [disk EXCEPT ![IdOf[p]] = File(p, Recorded[phase[p]])]
        /\ UNCHANGED <<stable, records, started, alive, phase>>
    BY <1>4, Zenon DEF UpdateRename, processVars, attemptVars, Recorded
  <2>2. Owns(p)
    BY <2>1, Zenon DEF OwnInv, Owning
  <2>3. GoodFile(IdOf[p], File(p, Recorded[phase[p]]))'
    <3>1. phase[p] = "failing" => p \notin started
      BY Zenon DEF OwnInv, AfterLaunch, Runs
    <3>2. phase[p] = "exited" => p \in started \ alive
      BY <1>x, Zenon DEF OwnInv
    <3>. QED
      BY <2>1, <3>1, <3>2, SMTT(30) DEF GoodFile, File, Recorded
  <2>4. ASSUME NEW e \in Executions PROVE GoodFile(e, disk[e])' /\ GoodFile(e, stable[e])'
    <3>1. disk'[e] = disk[e] \/ (e = IdOf[p] /\ disk'[e] = File(p, Recorded[phase[p]]))
      BY <1>t, <2>1, Zenon
    <3>a. \A f \in {disk[e], stable[e]} : GoodFile(e, f)
      BY <1>g, Zenon
    <3>2. \A f \in {disk[e], stable[e]} : GoodFile(e, f)'
      BY <2>1, <3>a, Zenon DEF GoodFile
    <3>3. stable'[e] = stable[e]
      BY <2>1, Zenon
    <3>4. GoodFile(e, disk[e])'
      BY <2>1, <2>3, <3>1, <3>2, Zenon
    <3>5. GoodFile(e, stable[e])'
      BY <3>2, <3>3, Zenon
    <3>. QED
      BY <3>4, <3>5, Zenon
  <2>5. ASSUME NEW e \in Executions, records'[e] = "running"
        PROVE  disk'[e] # Absent /\ disk'[e].owner \in started'
    <3>1. disk[e] # Absent /\ disk[e].owner \in started
      BY <1>r, <2>1, <2>5, Zenon
    <3>2. disk'[e] = disk[e] \/ (e = IdOf[p] /\ disk'[e] = File(p, Recorded[phase[p]]))
      BY <1>t, <2>1, Zenon
    <3>3. File(p, Recorded[phase[p]]) # Absent /\ File(p, Recorded[phase[p]]).owner = p
      BY <2>1, AbsentIsNoFile, SMTT(30) DEF File, Files, FileStates, Recorded
    <3>. QED
      BY <2>1, <2>2, <3>1, <3>2, <3>3, SMTT(30) DEF Owns
  <2>6. \A q \in Attempts : phase'[q] \in {"exited", "recorded"} => q \notin alive'
    BY <1>x, <2>1, Zenon
  <2>. QED
    BY <2>4, <2>5, <2>6, Zenon DEF TruthInv
<1>5. CASE UpdateSync(p) \/ UpdateFail(p)
  <2>1. /\ phase[p] \in {"started", "failing", "exited"}
        /\ stable' = stable \/ stable' = [stable EXCEPT ![IdOf[p]] = disk[IdOf[p]]]
        /\ UNCHANGED <<disk, started, alive>>
        /\ Goto(p, AfterUpdate[phase[p]]) \/ Goto(p, AfterFailure[phase[p]])
    BY <1>5, ZenonT(30) DEF UpdateSync, UpdateFail, Recorded, processVars
  <2>2. PICK next \in {"running", "unwinding", "recorded", "killing"} :
          /\ Goto(p, next)
          /\ phase[p] = "started" => next \in {"running", "killing"}
          /\ phase[p] = "failing" => next = "unwinding"
          /\ phase[p] = "exited" => next = "recorded"
    <3>1. CASE phase[p] = "started"
      BY <2>1, <3>1, SMTT(30) DEF AfterUpdate, AfterFailure
    <3>2. CASE phase[p] = "failing"
      BY <2>1, <3>2, SMTT(30) DEF AfterUpdate, AfterFailure
    <3>3. CASE phase[p] = "exited"
      BY <2>1, <3>3, SMTT(30) DEF AfterUpdate, AfterFailure
    <3>. QED
      BY <2>1, <3>1, <3>2, <3>3, Zenon
  <2>3. ASSUME NEW e \in Executions, NEW f \in {disk[e], stable[e]}
        PROVE  GoodFile(e, f)'
    <3>1. f \in Files \cup {Absent} /\ GoodFile(e, f)
      BY <1>t, <1>g, Zenon
    <3>2. f # Absent => f.owner \in Attempts
      BY <3>1, Zenon DEF Files
    <3>. QED
      BY <1>t, <2>1, <2>2, <3>1, <3>2, Zenon DEF GoodFile, Goto
  <2>4. ASSUME NEW e \in Executions PROVE GoodFile(e, disk[e])' /\ GoodFile(e, stable[e])'
    <3>1. disk'[e] = disk[e] /\ stable'[e] \in {disk[e], stable[e]}
      BY <1>t, <2>1, Zenon
    <3>2. \A f \in {disk[e], stable[e]} : GoodFile(e, f)'
      BY <2>3, Zenon
    <3>. QED
      BY <3>1, <3>2, Zenon
  <2>5. ASSUME NEW e \in Executions, records'[e] = "running"
        PROVE  disk'[e] # Absent /\ disk'[e].owner \in started'
    <3>1. records[e] = "running" \/ (e = IdOf[p] /\ phase[p] = "started")
      BY <1>t, <1>5, <2>5, Zenon DEF UpdateSync, UpdateFail
    <3>2. phase[p] = "started" => Owns(p) /\ p \in started
      BY Zenon DEF OwnInv, Owning
    <3>. QED
      BY <1>r, <2>1, <3>1, <3>2, Zenon DEF Owns
  <2>6. \A q \in Attempts : phase'[q] \in {"exited", "recorded"} => q \notin alive'
    BY <1>t, <1>x, <2>1, <2>2, Zenon DEF Goto
  <2>. QED
    BY <2>4, <2>5, <2>6, Zenon DEF TruthInv
<1>. HIDE DEF TruthInv
<1>. QED
  BY <1>1, <1>2, <1>3, <1>4, <1>5, ZenonT(30) DEF LaunchStep

\* A run is reaped only when its process is gone.
LEMMA TruthRun ==
  ASSUME TypeInv, OwnInv, TruthInv, NEW p \in Attempts, RunStep(p)
  PROVE  TruthInv'
<1>t. /\ phase \in [Attempts -> Phases] /\ records \in [Executions -> {"none", "claimed", "running"}]
      /\ disk \in [Executions -> Files \cup {Absent}] /\ stable \in [Executions -> Files \cup {Absent}]
  BY JournalFacts, Zenon
<1>g. \A e \in Executions : GoodFile(e, disk[e]) /\ GoodFile(e, stable[e])
  BY JournalFacts, Zenon
<1>r. \A e \in Executions : records[e] = "running" => disk[e] # Absent /\ disk[e].owner \in started
  BY JournalFacts, Zenon
<1>x. \A q \in Attempts : phase[q] \in {"exited", "recorded"} => q \notin alive
  BY JournalFacts, Zenon
<1>1. UNCHANGED <<disk, stable, records, started>> /\ alive' \subseteq alive
  BY Zenon DEF RunStep, ProcessExit, Reap, finish, Cancel, Withdraw, journalVars, processVars
<1>2. PICK next : /\ phase' = [phase EXCEPT ![p] = next]
                  /\ \/ next = phase[p]
                     \/ phase[p] = "running" /\ p \notin alive /\ next = "exited"
                     \/ phase[p] \in {"recorded", "prepared"} /\ next = "gone"
  BY <1>t, Zenon DEF RunStep, ProcessExit, Reap, finish, Cancel, Withdraw, Goto, attemptVars
<1>3. \A e \in Executions : GoodFile(e, disk[e])' /\ GoodFile(e, stable[e])'
  BY <1>t, <1>1, <1>2, FilesStayGood, Zenon
<1>4. \A q \in Attempts : phase'[q] \in {"exited", "recorded"} => q \notin alive'
  BY <1>t, <1>x, <1>1, <1>2, Zenon
<1>5. \A e \in Executions : records'[e] = "running" => disk'[e] # Absent /\ disk'[e].owner \in started'
  BY <1>r, <1>1, Zenon
<1>. QED
  BY <1>3, <1>4, <1>5, Zenon DEF TruthInv

\* The manager's life leaves the files alone, and a crash brings back only
\* files that were good.
LEMMA TruthManager ==
  ASSUME TypeInv, OwnInv, TruthInv, ManagerStep
  PROVE  TruthInv'
<1>1. CASE CloseBegin \/ CloseCancel \/ CloseEnd \/ TerminalOpen \/ TerminalClose
           \/ TryMaintenance \/ EndMaintenance \/ NewManager
  <2>1. UNCHANGED <<disk, stable, started, alive>>
    BY <1>1, Zenon
    DEF CloseBegin, CloseCancel, CloseEnd, TerminalOpen, TerminalClose, TryMaintenance,
                EndMaintenance, NewManager, journalVars, processVars
  <2>2. \A e \in Executions : records'[e] = records[e] \/ records'[e] = "none"
    <3>1. CASE NewManager
      BY <3>1, Zenon DEF NewManager
    <3>2. CASE ~NewManager
      <4>1. records' = records
        BY <1>1, <3>2, Zenon DEF CloseBegin, CloseCancel, CloseEnd, TerminalOpen, TerminalClose,
                                 TryMaintenance, EndMaintenance, journalVars
      <4>. QED
        BY <4>1, Zenon
    <3>. QED
      BY <3>1, <3>2, Zenon
  <2>3. \A q \in Attempts : phase'[q] = phase[q] \/ (phase[q] = "prepared" /\ phase'[q] = "gone")
    <3>1. CASE CloseBegin
      BY <3>1, Zenon DEF CloseBegin
    <3>2. CASE ~CloseBegin
      <4>1. phase' = phase
        BY <1>1, <3>2, Zenon DEF CloseCancel, CloseEnd, TerminalOpen, TerminalClose,
                                 TryMaintenance, EndMaintenance, NewManager, attemptVars
      <4>. QED
        BY <4>1, Zenon
    <3>. QED
      BY <3>1, <3>2, Zenon
  <2>4. \A e \in Executions : GoodFile(e, disk[e])' /\ GoodFile(e, stable[e])'
    BY <2>1, <2>3, FilesStayGood, Zenon
  <2>5. \A q \in Attempts : phase'[q] \in {"exited", "recorded"} => q \notin alive'
    BY <2>1, <2>3, Zenon DEF TruthInv
  <2>. QED
    BY <2>1, <2>2, <2>4, <2>5, Zenon DEF TruthInv
<1>2. ASSUME NEW machine \in BOOLEAN, Crash(machine)
      PROVE  TruthInv'
  <2>1. /\ phase' = [p \in Attempts |-> IF phase[p] = "new" THEN "new" ELSE "gone"]
        /\ records' = [e \in Executions |-> "none"] /\ started' = started
    BY <1>2, Zenon DEF Crash
  <2>2. alive' \subseteq alive
    BY <1>2, Zenon DEF Crash
  <2>3. ASSUME NEW e \in Executions
        PROVE  disk'[e] \in {disk[e], stable[e]} /\ stable'[e] \in {disk[e], stable[e]}
    <3>1. CASE machine
      BY <1>2, <3>1, Zenon DEF Crash
    <3>2. CASE ~machine
      BY <1>2, <3>2, Zenon DEF Crash
    <3>. QED
      BY <3>1, <3>2, Zenon
  <2>4. ASSUME NEW e \in Executions, NEW f \in {disk[e], stable[e]}
        PROVE  GoodFile(e, f)'
    <3>1. f \in Files \cup {Absent} /\ GoodFile(e, f)
      BY Zenon DEF TypeInv, TruthInv
    <3>2. f # Absent => f.owner \in Attempts
      BY <3>1, Zenon DEF Files
    <3>. QED
      BY <2>1, <2>2, <3>1, <3>2, Zenon DEF GoodFile
  <2>5. ASSUME NEW e \in Executions PROVE GoodFile(e, disk[e])' /\ GoodFile(e, stable[e])'
    BY <2>3, <2>4, Zenon
  <2>6. \A q \in Attempts : phase'[q] \notin {"exited", "recorded"}
    BY <2>1, Zenon
  <2>. QED
    BY <2>1, <2>5, <2>6, Zenon DEF TruthInv
<1>. HIDE DEF TruthInv
<1>. QED
  BY <1>1, <1>2, ZenonT(30) DEF ManagerStep

\* Every step keeps the journal truthful.
LEMMA NextTruthInv == TypeInv /\ OwnInv /\ HoldInv /\ TruthInv /\ [Next]_vars => TruthInv'
<1>1. TypeInv /\ OwnInv /\ HoldInv /\ TruthInv /\ Next => TruthInv'
  BY TruthPrepare, TruthLaunch, TruthRun, TruthManager, Zenon DEF Next
<1>2. ASSUME TruthInv, UNCHANGED vars
      PROVE  TruthInv'
  <2>1. UNCHANGED <<phase, started, alive, disk, stable, records>>
    BY <1>2, Zenon DEF vars, attemptVars, journalVars, processVars
  <2>2. \A e \in Executions : GoodFile(e, disk[e])' /\ GoodFile(e, stable[e])'
    BY <1>2, <2>1, Zenon DEF TruthInv, GoodFile
  <2>. QED
    BY <1>2, <2>1, <2>2, Zenon DEF TruthInv
<1>. QED
  BY <1>1, <1>2, Zenon
-----------------------------------------------------------------------------
(* The theorems.                                                            *)

Inv == TypeInv /\ OwnInv /\ HoldInv /\ TruthInv

\* The inductive invariant holds in every reachable state.
THEOREM Invariance == Spec => []Inv
<1>1. Init => Inv
  BY InitTypeInv, InitOwnInv, InitHoldInv, InitTruthInv, Zenon DEF Inv
<1>2. Inv /\ [Next]_vars => Inv'
  BY NextTypeInv, NextOwnInv, NextHoldInv, NextTruthInv, Zenon DEF Inv
<1>. QED
  BY <1>1, <1>2, PTL DEF Spec

\* Every variable of the manager, the journal and the budget keeps its type.
THEOREM TypeCorrect == Spec => []TypeOK
<1>1. Inv => TypeOK
  <2>. SUFFICES ASSUME Inv PROVE TypeOK
    BY Zenon
  <2>1. used \in 0 .. Maximum /\ terminals \in 0 .. Maximum
    BY Finite, MaximumAssumption DEF Inv, HoldInv
  <2>. QED
    BY <2>1, Zenon DEF Inv, TypeInv, TypeOK
<1>. QED
  BY <1>1, Invariance, PTL

\* Manager.Start launches a submitted command at most once, and the journal
\* never forgets that it did.
THEOREM AtMostOnce == Spec => [](AtMostOneLaunch /\ LaunchedIsNeverForgotten)
<1>1. Inv => AtMostOneLaunch
  BY SMTT(90) DEF Inv, OwnInv, Owns, AtMostOneLaunch, TypeInv
<1>2. Inv => LaunchedIsNeverForgotten
  <2>. SUFFICES ASSUME Inv, NEW p \in started
                PROVE  Status(IdOf[p]) \notin {"not_found", "prepared"}
    BY Zenon DEF LaunchedIsNeverForgotten
  <2>1. p \in Attempts /\ IdOf[p] \in Executions /\ disk[IdOf[p]] # Absent
    BY IdOfAssumption, Zenon DEF Inv, TypeInv, OwnInv, Owns
  <2>2. /\ records[IdOf[p]] \in {"none", "claimed", "running"}
        /\ disk[IdOf[p]] \in Files
    BY <2>1, Zenon DEF Inv, TypeInv
  <2>3. disk[IdOf[p]].state \in FileStates
    BY <2>2, Zenon DEF Files
  <2>4. JournalStatus(IdOf[p]) \notin {"not_found", "prepared"}
    BY <2>1, <2>2, <2>3, Zenon DEF JournalStatus, FileStates
  <2>. QED
    BY <2>4, Zenon DEF Status
<1>. QED
  BY <1>1, <1>2, Invariance, PTL

\* What Journal.Status states as a fact is one.
THEOREM Truthful == Spec => []JournalTellsTheTruth
<1>1. Inv => JournalTellsTheTruth
  <2>. SUFFICES ASSUME Inv, NEW e \in Executions
                PROVE  LET mine == {p \in started : IdOf[p] = e} IN
                       /\ JournalStatus(e) = "launch_failed" => mine = {}
                       /\ JournalStatus(e) = "ended" => mine # {} /\ mine \cap alive = {}
                       /\ JournalStatus(e) = "running" => mine # {}
    BY Zenon DEF JournalTellsTheTruth
  <2>1. \A p \in started : IdOf[p] = e => disk[e] # Absent /\ disk[e].owner = p
    BY Zenon DEF Inv, TypeInv, OwnInv, Owns
  <2>2. GoodFile(e, disk[e])
    BY ZenonT(30) DEF Inv, TruthInv
  <2>3. records[e] \in {"none", "claimed", "running"}
    BY Zenon DEF Inv, TypeInv
  <2>4. records[e] = "running" => disk[e] # Absent /\ disk[e].owner \in started
    BY Zenon DEF Inv, TruthInv
  <2>. QED
    BY <2>1, <2>2, <2>3, <2>4, Zenon DEF JournalStatus, GoodFile
<1>. QED
  BY <1>1, Invariance, PTL

\* Acquire and Release balance on every path, and a live process keeps its
\* place: maintenance and the end of a session find none.
THEOREM Accounting == Spec => [](BudgetAccounting /\ ProcessesAreOwned)
<1>1. Inv => BudgetAccounting
  BY Zenon DEF Inv, HoldInv, BudgetAccounting
<1>2. Inv => ProcessesAreOwned
  <2>. SUFFICES ASSUME Inv PROVE ProcessesAreOwned
    BY Zenon
  <2>1. alive \ orphans \subseteq SlotHolders
    BY Zenon DEF Inv, TypeInv, HoldInv, SlotHolders, Holding, Launching, Runs
  <2>2. used = 0 => SlotHolders = {}
    BY Finite, FS_EmptySet DEF Inv, HoldInv
  <2>3. maintenance => SlotHolders = {}
    BY <2>2, Zenon DEF Inv, HoldInv
  <2>4. manager = "down" => SlotHolders = {}
    BY Zenon DEF Inv, HoldInv
  <2>5. SlotHolders = {} => alive \subseteq orphans
    BY <2>1, Zenon
  <2>. QED
    BY <2>1, <2>3, <2>4, <2>5, Zenon DEF ProcessesAreOwned
<1>. QED
  BY <1>1, <1>2, Invariance, PTL
-----------------------------------------------------------------------------
(* Refinement.                                                              *)

\* What is started stays started, what died stays dead, and what has reached
\* the disk stays there: an execution's outcome only advances.
LEMMA OutcomeAdvances ==
  ASSUME started' = started, alive' \subseteq alive,
         \A e \in Executions : stable[e] # Absent => stable'[e] # Absent
  PROVE  Once!OnceNext
<1>1. ASSUME NEW e \in Executions
      PROVE  /\ OutcomeOf(e)' \in {"open", "claimed", "launched", "over"}
             /\ OutcomeOf(e)' = OutcomeOf(e) \/ <<OutcomeOf(e), OutcomeOf(e)'>> \in Once!Forward
  BY Zenon DEF OutcomeOf, Once!Forward
<1>. QED
  BY <1>1, ZenonT(30) DEF Once!OnceNext

\* Every step but cmd.Start moves outcomes that way.
LEMMA StepAdvances ==
  ASSUME Inv, Next, \A p \in Attempts : ~Launch(p)
  PROVE  /\ started' = started /\ alive' \subseteq alive
         /\ \A e \in Executions : stable[e] # Absent => stable'[e] # Absent
<1>. USE IdOfAssumption DEF Inv, TypeInv, processVars, journalVars
<1>1. ASSUME NEW p \in Attempts, PrepareStep(p)
      PROVE  UNCHANGED <<started, alive, stable>>
  BY <1>1, Zenon
  DEF PrepareStep, PrepareCheck, PrepareAdmit, PrepareRefuse, PrepareInstall, PrepareFail,
         PrepareReturn, PrepareRelease, Expiry, expire, Attach, ScriptEOF, invalidateScript,
         Withdraw
<1>2. ASSUME NEW p \in Attempts, LaunchStep(p)
      PROVE  /\ started' = started /\ alive' \subseteq alive
             /\ \A e \in Executions : stable[e] # Absent => stable'[e] # Absent
  <2>1. CASE ClaimSync(p)
    <3>1. File(p, "claimed") # Absent
      BY AbsentIsNoFile DEF File, Files, FileStates
    <3>. QED
      BY <2>1, <3>1, Zenon DEF ClaimSync
  <2>2. CASE UpdateSync(p)
    <3>1. phase[p] \in Owning
      BY <2>2, ZenonT(30) DEF UpdateSync, Recorded, Owning
    <3>2. disk[IdOf[p]] # Absent
      BY <3>1, Zenon DEF OwnInv
    <3>3. /\ stable' = [stable EXCEPT ![IdOf[p]] = disk[IdOf[p]]]
          /\ UNCHANGED <<started, alive>>
      BY <2>2, Zenon DEF UpdateSync
    <3>. QED
      BY <3>2, <3>3, Zenon
  <2>3. CASE ~ClaimSync(p) /\ ~UpdateSync(p)
    <3>1. started' = started /\ stable' = stable
      BY <1>2, <2>3, ZenonT(30)
      DEF LaunchStep, Start, LaunchAbort, Claim, ClaimFail, ScriptOpenFail, Authorize,
           LaunchFail, Kill, Unwind, UpdateRename, UpdateFail
    <3>2. alive' \subseteq alive
      BY <1>2, <2>3, ZenonT(30)
      DEF LaunchStep, Start, LaunchAbort, Claim, ClaimFail, ScriptOpenFail, Authorize,
           LaunchFail, Kill, Unwind, UpdateRename, UpdateFail
    <3>. QED
      BY <3>1, <3>2, Zenon
  <2>. QED
    BY <2>1, <2>2, <2>3, Zenon
<1>3. ASSUME NEW p \in Attempts, RunStep(p)
      PROVE  started' = started /\ stable' = stable /\ alive' \subseteq alive
  <2>1. started' = started /\ stable' = stable
    BY <1>3, ZenonT(30) DEF RunStep, ProcessExit, Reap, finish, Cancel, Withdraw
  <2>2. alive' \subseteq alive
    BY <1>3, ZenonT(30) DEF RunStep, ProcessExit, Reap, finish, Cancel, Withdraw
  <2>. QED
    BY <2>1, <2>2, Zenon
<1>4. ASSUME ManagerStep
      PROVE  /\ started' = started /\ alive' \subseteq alive
             /\ \A e \in Executions : stable[e] # Absent => stable'[e] # Absent
  <2>1. CASE CloseBegin \/ CloseCancel \/ CloseEnd \/ TerminalOpen \/ TerminalClose
             \/ TryMaintenance \/ EndMaintenance \/ NewManager
    <3>1. UNCHANGED <<started, alive, stable>>
      BY <2>1, Zenon DEF CloseBegin, CloseCancel, CloseEnd, TerminalOpen, TerminalClose,
                         TryMaintenance, EndMaintenance, NewManager
    <3>. QED
      BY <3>1, Zenon
  <2>2. ASSUME NEW machine \in BOOLEAN, Crash(machine)
        PROVE  /\ started' = started /\ alive' \subseteq alive
               /\ \A e \in Executions : stable[e] # Absent => stable'[e] # Absent
    <3>1. CASE machine
      BY <2>2 DEF Crash, OwnInv
    <3>2. CASE ~machine
      BY <2>2, <3>2, Zenon DEF Crash
    <3>. QED
      BY <3>1, <3>2, Zenon
  <2>. QED
    BY <1>4, <2>1, <2>2, ZenonT(30) DEF ManagerStep
<1>. HIDE DEF Inv
<1>. QED
  BY <1>1, <1>2, <1>3, <1>4, Zenon DEF Next

\* cmd.Start launches an execution that is durably claimed and was never
\* launched before.
LEMMA LaunchAdvances ==
  ASSUME Inv, NEW p \in Attempts, Launch(p)
  PROVE  Once!OnceNext
<1>. USE IdOfAssumption
<1>1. /\ phase[p] = "authorized" /\ started' = started \cup {p} /\ alive' = alive \cup {p}
      /\ stable' = stable
  BY Zenon DEF Launch, journalVars
<1>2. Owns(p) /\ stable[IdOf[p]] # Absent /\ p \notin started
  BY <1>1, ZenonT(30) DEF Inv, OwnInv, Owning, AfterLaunch, Runs
<1>3. \A q \in started : IdOf[q] # IdOf[p]
  BY <1>2 DEF Inv, TypeInv, OwnInv, Owns
<1>4. ASSUME NEW e \in Executions, e # IdOf[p]
      PROVE  OutcomeOf(e)' = OutcomeOf(e)
  BY <1>1, <1>4, Zenon DEF OutcomeOf
<1>5. OutcomeOf(IdOf[p]) = "claimed"
  BY <1>2, <1>3, Zenon DEF OutcomeOf
<1>6. OutcomeOf(IdOf[p])' = "launched"
  <2>1. p \in {q \in started' : IdOf[q] = IdOf[p]} \cap alive'
    BY <1>1, Zenon
  <2>. QED
    BY <2>1, Zenon DEF OutcomeOf
<1>7. \A e \in Executions : OutcomeOf(e) \in {"open", "claimed", "launched", "over"}
  BY Zenon DEF OutcomeOf
<1>8. ASSUME NEW e \in Executions
      PROVE  /\ OutcomeOf(e)' \in {"open", "claimed", "launched", "over"}
             /\ OutcomeOf(e)' = OutcomeOf(e) \/ <<OutcomeOf(e), OutcomeOf(e)'>> \in Once!Forward
  BY <1>4, <1>5, <1>6, <1>7, Zenon DEF Once!Forward
<1>. QED
  BY <1>8, ZenonT(30) DEF Once!OnceNext

\* Manager, journal and crashes together implement the promise of
\* ExecutionOnce: claimed durably, then launched at most once, never undone.
THEOREM Refinement == Spec => ImplementsOnce
<1>1. Init => Once!OnceInit
  BY Zenon DEF Init, Once!OnceInit, OutcomeOf
<1>2. Inv /\ [Next]_vars => [Once!OnceNext]_([e \in Executions |-> OutcomeOf(e)])
  <2>1. Inv /\ Next => Once!OnceNext
    BY OutcomeAdvances, StepAdvances, LaunchAdvances, Zenon
  <2>2. UNCHANGED vars => UNCHANGED [e \in Executions |-> OutcomeOf(e)]
    BY Zenon DEF vars, journalVars, processVars, OutcomeOf
  <2>. QED
    BY <2>1, <2>2, Zenon
<1>. QED
  BY <1>1, <1>2, Invariance, PTL DEF Spec, ImplementsOnce, Once!OnceSpec
=============================================================================
