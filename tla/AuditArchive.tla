---------------------------- MODULE AuditArchive ----------------------------
(***************************************************************************)
(* The protected archive: how a submitted record becomes a set of objects  *)
(* that are created once and never changed, and when a receipt is signed   *)
(* for it (hub/internal/auditingest/service.go, ledger.go, anchors.go,     *)
(* http.go, s3.go; the hub's side is hub/internal/auditgate/client.go).    *)
(*                                                                         *)
(* The object store offers one primitive: create a key unless it exists.   *)
(* A reply may be lost after the object was created, requests run side by  *)
(* side, and the caller repeats a record it got no receipt for.  Time is   *)
(* the time of acceptance: a record accepted at t is promised to be        *)
(* retained until t plus the retention, so retention is compared by t.     *)
(*                                                                         *)
(* The anchor a policy.anchor record leaves is part of PolicyTransition.   *)
(***************************************************************************)
EXTENDS Naturals, FiniteSets

CONSTANTS
    Requests,       \* Handler.slots and Service.slots: requests at a time
    Submitted,      \* the records callers submit: [e, kind, v]
    NoRecord,
    MaxTime         \* bound on the clock

Events == {x.e : x \in Submitted}

Buckets == {"originals", "governance"}

\* archiveFor: policy records have a bucket of their own.
ArchiveFor(x) == IF x.kind = "policy" THEN "governance" ELSE "originals"

\* A script submitted with an admission is an attachment.
PartsOf(x) == IF x.kind = "admission" THEN {"attachment", "envelope"} ELSE {"envelope"}

\* The service's ReceiptTTL, and the deadline of a prepared execution.
ReceiptTTL == 1
PreparedUntil == 2

\* Receipts for these stay fixed; the others are evidence and may be renewed.
Historical(x) == x.kind \notin {"admission", "intent"}

VARIABLES
    now,
    part,       \* attachments/<event>/<hash>/<id> and envelopes/<event>/<hash>
    manifest,   \* manifests/<event>, in either bucket
    ledger,     \* events/<event>
    req,        \* the requests being served
    receipts,   \* every receipt signed
    reads       \* every original released: [x: the intent, at]

vars == <<now, part, manifest, ledger, req, receipts, reads>>

Absent == MaxTime + 1

NoManifest == [x |-> NoRecord, at |-> 0, exp |-> 0, parts |-> <<>>]

Idle == [pc |-> "idle", x |-> NoRecord, at |-> 0, done |-> <<>>]

Init ==
    /\ now = 0
    /\ part = [x \in Submitted |-> [p \in PartsOf(x) |-> Absent]]
    /\ manifest = [b \in Buckets |-> [e \in Events |-> NoManifest]]
    /\ ledger = [e \in Events |-> NoRecord]
    /\ req = [q \in Requests |-> Idle]
    /\ receipts = {}
    /\ reads = {}

Stores == <<now, part, manifest, ledger, receipts, reads>>

To(q, pc) == req' = [req EXCEPT ![q].pc = pc]

Refuse(q) == req' = [req EXCEPT ![q] = Idle]

M(q) == manifest[ArchiveFor(req[q].x)][req[q].x.e]

-----------------------------------------------------------------------------
(* Preserve *)

\* ServeHTTP: an authenticated request is served when there is a free slot.
Slot(q) == req[q] = Idle

\* Client.Preserve: the record and its attachments are submitted.
Submit(q, x) ==
    /\ Slot(q)
    /\ req' = [req EXCEPT ![q] = [Idle EXCEPT !.pc = "ledger", !.x = x]]
    /\ UNCHANGED Stores

\* readLedger: the event is unknown, or known for exactly this record.
ReadLedger(q) ==
    /\ req[q].pc = "ledger"
    /\ IF ledger[req[q].x.e] = NoRecord THEN To(q, "find")
       ELSE IF ledger[req[q].x.e] = req[q].x THEN To(q, "reconcile")
       ELSE Refuse(q)
    /\ UNCHANGED Stores

\* Find of the manifest: an earlier attempt's, or none, and the record is
\* accepted now unless its execution's preparation is over.
FindManifest(q) ==
    /\ req[q].pc = "find"
    /\ IF M(q) # NoManifest THEN To(q, "reconcile")
       ELSE IF req[q].x.kind = "admission" /\ now >= PreparedUntil THEN Refuse(q)
       ELSE req' = [req EXCEPT ![q].pc = "protect", ![q].at = now]
    /\ UNCHANGED Stores

\* The parts in the order of the code: attachments before the envelope.
NextPart(q) ==
    IF "attachment" \in PartsOf(req[q].x) \ DOMAIN req[q].done THEN "attachment" ELSE "envelope"

With(f, k, v) == [i \in DOMAIN f \cup {k} |-> IF i = k THEN v ELSE f[i]]

\* S3Archive.Put creates a key unless it exists; what is there stays.
CreatePart(x, p, at) ==
    /\ part' = [part EXCEPT ![x][p] = IF @ = Absent THEN at ELSE @]
    /\ UNCHANGED <<now, manifest, ledger, receipts, reads>>

\* expires: a receipt's time to live, cut at the end of the preparation.
Expires(x, at) ==
    IF x.kind = "admission" /\ at + ReceiptTTL > PreparedUntil THEN PreparedUntil
    ELSE at + ReceiptTTL

CreateManifest(x, at, parts) ==
    /\ manifest' = [manifest EXCEPT ![ArchiveFor(x)][x.e] =
            IF @ = NoManifest THEN [x |-> x, at |-> at, exp |-> Expires(x, at), parts |-> parts]
            ELSE @]
    /\ UNCHANGED <<now, part, ledger, receipts, reads>>

\* S3Archive.Verify: what is in the store is retained at least that long.
RetainedUntil(object, at) == object >= at

\* protectIn: the part is created, or the one found is of the same bytes and
\* must be retained at least as long as this request promises.
Protect(q) ==
    LET s == req[q].x
        p == NextPart(q)
    IN /\ req[q].pc = "protect"
       /\ CreatePart(s, p, req[q].at)
       /\ IF ~RetainedUntil(part'[s][p], req[q].at) THEN Refuse(q)
          ELSE req' = [req EXCEPT ![q].done = With(@, p, part'[s][p]),
                         ![q].pc = IF p = "envelope" THEN "publish" ELSE "protect"]

\* Put of the manifest; whoever was first stays, and is reconciled with.
PutManifest(q) ==
    /\ req[q].pc = "publish"
    /\ CreateManifest(req[q].x, req[q].at, req[q].done)
    /\ To(q, "reconcile")

-----------------------------------------------------------------------------
(* Reconcile *)

\* Every part is retained exactly as long as the manifest says.
Intact(m) == \A p \in PartsOf(m.x) : m.parts[p] = m.at /\ part[m.x][p] = m.at

\* reconcile, up to the ledger: the manifest is of this record, a permit to
\* execute has not run out, and everything it names is in the store.
Reconcile(q) ==
    /\ req[q].pc = "reconcile"
    /\ LET m == M(q)
           s == req[q].x
       IN IF /\ m.x = s
             /\ s.kind = "admission" => now < m.exp /\ m.exp <= PreparedUntil
             /\ Intact(m)
          THEN To(q, "ensure") ELSE Refuse(q)
    /\ UNCHANGED Stores

\* A ledger that is written and not read back.
Claimed_Unread(x) == TRUE

\* ensureLedger's comparison: the event is this record's.
Claimed(x) == ledger'[x.e] = x

\* The expiry a receipt is signed with.
Validity(x, m) == IF Historical(x) THEN now + ReceiptTTL ELSE m.exp

\* ensureLedger and sign.
Sign(q) ==
    LET s == req[q].x IN
    /\ req[q].pc = "ensure"
    /\ ledger' = [ledger EXCEPT ![s.e] = IF @ = NoRecord THEN s ELSE @]
    /\ receipts' = IF Claimed(s) THEN receipts \cup {[x |-> s, exp |-> Validity(s, M(q))]}
                   ELSE receipts
    /\ Refuse(q)
    /\ UNCHANGED <<now, part, manifest, reads>>

\* Lookup: the receipt of a record whose reply was lost.
Lookup(q, e) ==
    /\ Slot(q)
    /\ ledger[e] # NoRecord
    /\ req' = [req EXCEPT ![q] = [Idle EXCEPT !.pc = "reconcile", !.x = ledger[e]]]
    /\ UNCHANGED Stores

\* A put is carried out; its reply and the look-up after it are lost.
PutLost(q) ==
    /\ \/ req[q].pc = "protect" /\ CreatePart(req[q].x, NextPart(q), req[q].at)
       \/ req[q].pc = "publish" /\ CreateManifest(req[q].x, req[q].at, req[q].done)
       \/ /\ req[q].pc = "ensure"
          /\ ledger' = [ledger EXCEPT ![req[q].x.e] = IF @ = NoRecord THEN req[q].x ELSE @]
          /\ UNCHANGED <<now, part, manifest, receipts, reads>>
    /\ Refuse(q)

\* Any other call to the store fails or times out, or the service restarts.
Unavailable(q) ==
    /\ req[q] # Idle
    /\ Refuse(q)
    /\ UNCHANGED Stores

\* Verifier.Verify: a receipt proves something until it expires.
Proves(r) == now < r.exp

\* ReadOriginal: released for a preserved intent whose receipt is valid now.
ReadOriginal(r) ==
    /\ r \in receipts /\ r.x.kind = "intent" /\ Proves(r)
    /\ manifest["originals"][r.x.e].x = r.x
    /\ part[r.x]["envelope"] # Absent
    /\ reads' = reads \cup {[x |-> r.x, at |-> now]}
    /\ UNCHANGED <<now, part, manifest, ledger, req, receipts>>

Tick ==
    /\ now < MaxTime
    /\ now' = now + 1
    /\ UNCHANGED <<part, manifest, ledger, req, receipts, reads>>

Step(q) ==
    \/ ReadLedger(q) \/ FindManifest(q) \/ Protect(q) \/ PutManifest(q)
    \/ Reconcile(q) \/ Sign(q)

Next ==
    \/ \E q \in Requests :
        \/ \E x \in Submitted : Submit(q, x)
        \/ \E e \in Events : Lookup(q, e)
        \/ Step(q) \/ PutLost(q) \/ Unavailable(q)
    \/ \E r \in receipts : ReadOriginal(r)
    \/ Tick

Spec == Init /\ [][Next]_vars

-----------------------------------------------------------------------------

\* A receipt is the store's word for good: the event belongs to exactly the
\* record signed for, in whichever bucket another record tried to take it, and
\* manifest, envelope and attachments of that record are held as long as the
\* manifest promises (Preserve, reconcile, ensureLedger).
ReceiptMeansHeld ==
    \A r \in receipts :
        /\ ledger[r.x.e] = r.x
        /\ manifest[ArchiveFor(r.x)][r.x.e].x = r.x
        /\ \A p \in PartsOf(r.x) : part[r.x][p] = manifest[ArchiveFor(r.x)][r.x.e].at

\* No retry, lost reply or later look-up extends a permit: every receipt for
\* one admission or read intent expires when the first one did, and originals
\* are released before that and not after (reconcile, Lookup, ReadOriginal).
PermitKeepsItsExpiry ==
    /\ \A r, s \in receipts : ~Historical(r.x) /\ r.x = s.x => r.exp = s.exp
    /\ \A d \in reads, r \in receipts : d.x = r.x => d.at < r.exp

=============================================================================
