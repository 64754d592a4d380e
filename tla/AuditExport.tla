----------------------------- MODULE AuditExport -----------------------------
(***************************************************************************)
(* The worker that copies archived records to the search index             *)
(* (hub/internal/auditingest/exporter.go, export_index.go,                 *)
(* hub/cmd/veyport-audit-export).                                          *)
(*                                                                         *)
(* It walks the archive's event ledger in the order of event ids, a page   *)
(* at a time, keeps its place in a checkpoint file and starts over at the  *)
(* end.  Records arrive behind its place as well as ahead of it, the       *)
(* archive, the index and the checkpoint may fail at any call, the worker  *)
(* may be restarted anywhere, and the search index may lose what it had.   *)
(***************************************************************************)
EXTENDS Naturals, FiniteSets, FiniteSetsExt

CONSTANTS
    Events,         \* event ids, as numbers in their order
    PageSize,       \* records of a page
    MaxLosses,      \* bound: records the search index loses
    MaxCrashes      \* bound: restarts of the worker

VARIABLES
    ledger,     \* events/<id>: the records archived
    old,        \* records past their retention or older than seven days
    cursor,     \* Checkpoint.Cursor in memory, 0 at the start of a pass
    saved,      \* Checkpoint.Cursor in the file
    page,       \* the page being sent: [records, next]
    indexed,    \* what the search index has
    losses, crashes

vars == <<ledger, old, cursor, saved, page, indexed, losses, crashes>>

NoPage == [records |-> {}, next |-> 0, on |-> FALSE]

Init ==
    /\ ledger = {} /\ old = {}
    /\ cursor = 0 /\ saved = 0
    /\ page = NoPage
    /\ indexed = {}
    /\ losses = 0 /\ crashes = 0

\* AuditArchive: a record is archived.
Archived(e) ==
    /\ e \notin ledger
    /\ ledger' = ledger \cup {e}
    /\ UNCHANGED <<old, cursor, saved, page, indexed, losses, crashes>>

Ages(e) ==
    /\ e \in ledger \ old
    /\ old' = old \cup {e}
    /\ UNCHANGED <<ledger, cursor, saved, page, indexed, losses, crashes>>

After(c) == {e \in ledger : e > c}

\* The first PageSize of them: ExportKeys' StartAfter and MaxKeys.
First(s) == {e \in s : Cardinality({d \in s : d < e}) < PageSize}

\* A worker that stays at the end and waits for what comes after.
NextAfter_Stays(c) == IF After(c) = {} THEN c ELSE Max(First(After(c)))

\* ExportIndex's Next: the last id of a page that was cut short.
NextAfter(c) == IF First(After(c)) = After(c) THEN 0 ELSE Max(First(After(c)))

\* Step, up to the page (the back-off before it only passes time).
ReadPage ==
    /\ ~page.on
    /\ page' = [records |-> First(After(cursor)), next |-> NextAfter(cursor), on |-> TRUE]
    /\ UNCHANGED <<ledger, old, cursor, saved, indexed, losses, crashes>>

\* One record of the page: read from the archive and accepted by the index,
\* or too old and skipped.
SendRecord(e) ==
    /\ page.on /\ page.records # {} /\ e = Min(page.records)
    /\ indexed' = IF e \in old THEN indexed ELSE indexed \cup {e}
    /\ page' = [page EXCEPT !.records = @ \ {e}]
    /\ UNCHANGED <<ledger, old, cursor, saved, losses, crashes>>

\* fail: the archive or the index did not answer; the page is read again.
Fail ==
    /\ page.on /\ page.records # {}
    /\ page' = NoPage
    /\ saved' \in {saved, cursor}
    /\ UNCHANGED <<ledger, old, cursor, indexed, losses, crashes>>

\* Step's end: the cursor moves, and the checkpoint is saved or is not.
FinishPage ==
    /\ page.on /\ page.records = {}
    /\ cursor' = page.next
    /\ saved' \in {saved, page.next}
    /\ page' = NoPage
    /\ UNCHANGED <<ledger, old, indexed, losses, crashes>>

\* The worker is restarted: LoadCheckpoint.
Restart ==
    /\ crashes < MaxCrashes
    /\ crashes' = crashes + 1
    /\ cursor' = saved
    /\ page' = NoPage
    /\ UNCHANGED <<ledger, old, saved, indexed, losses>>

\* The search index, accepted or not, loses a record.
IndexLoses(e) ==
    /\ e \in indexed /\ losses < MaxLosses
    /\ losses' = losses + 1
    /\ indexed' = indexed \ {e}
    /\ UNCHANGED <<ledger, old, cursor, saved, page, crashes>>

Next ==
    \/ \E e \in Events : Archived(e) \/ Ages(e) \/ SendRecord(e) \/ IndexLoses(e)
    \/ ReadPage \/ Fail \/ FinishPage \/ Restart

\* The worker runs Step every second; a record that keeps being sent is accepted
\* in the end.
Fairness ==
    WF_vars(ReadPage \/ FinishPage) /\ \A e \in Events : SF_vars(SendRecord(e))

Spec == Init /\ [][Next]_vars /\ Fairness

-----------------------------------------------------------------------------

\* Every archived record that is recent enough is in the search index in the
\* end: one that arrives behind the cursor, one whose page failed half-way, one
\* sent before a restart or a lost checkpoint, and one the index lost again
\* (Step: "each completed pass restarts enumeration").
ArchivedIsIndexed == \A e \in Events : e \in ledger ~> e \in indexed \/ e \in old

=============================================================================
