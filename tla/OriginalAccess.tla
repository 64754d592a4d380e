--------------------------- MODULE OriginalAccess ---------------------------
(***************************************************************************)
(* Reading an archived original (the envelope or the script of an          *)
(* execution): the permit and its evidence in the store                    *)
(* (store/original_access.go), the requests that create and use it         *)
(* (server/original_access.go, original_download.go) and the worker that   *)
(* recovers unfinished evidence (original_recovery.go).                    *)
(*                                                                         *)
(* One operation proof, hence one permit; the requests that try to create  *)
(* it, and the downloads that present its handle, run side by side.  A     *)
(* transaction of the store is one step, a call to the archive another.    *)
(* Every record goes to the store's queue and from there to the archive.   *)
(***************************************************************************)
EXTENDS Naturals, FiniteSets, FiniteSetsExt

CONSTANTS Requests,    \* requests for a permit with the one proof
          Downloads,   \* requests that present the handle
          Bytes,       \* pieces the original is sent in
          MaxCrashes   \* bound: restarts of the Hub

VARIABLES authority,  \* the reader's account, role, person and session hold
          time,       \* how old the permit is, see the thresholds
          proof,      \* the step-up proof: "none", "issued" or "used"
          req,        \* where each request for a permit is
          row,        \* the row of original_access
          queue,      \* original_read_evidence
          confirmed,  \* original_read_confirmations
          archive,    \* the records the archive holds
          dl,         \* where each download is
          sent,       \* pieces of the original each download was sent
          worker,     \* the recovery goroutine
          crashes

vars == <<authority, time, proof, req, row, queue, confirmed, archive, dl,
          sent, worker, crashes>>
db == <<row, queue, confirmed>>

\* The permit's minute is over; a started read is abandoned; evidence is too
\* old to retry; settled rows are removed.
ExpiredAt == 1
AbandonedAt == 2
AgedAt == 3
RemovedAt == 4

NoRow == [state |-> "none", ev |-> "none", n |-> 0]
Terminal == {"completed", "interrupted", "unconfirmed", "expired"}

\* A record: which of the permit's events, what a result says, and who wrote
\* it: the time in it makes the download's record differ from the worker's.
Record(e, s, n, by) == [event |-> e, state |-> s, n |-> n, by |-> by]
Intent == Record("intent", "authorized", 0, "handler")
Started == Record("started", "started", 0, "handler")
Result(s, n, by) == Record("result", s, n, by)
Queued(r) == [rec |-> r, at |-> Min({time, AgedAt})]
Waiting == {q.rec : q \in queue}

Asleep == [pc |-> "idle", now |-> 0, saw |-> "none", due |-> {}, q |-> {}]
NoDownload == [pc |-> "idle", now |-> 0, rec |-> Intent]

TypeOK ==
    /\ authority \in BOOLEAN /\ time \in 0 .. RemovedAt
    /\ proof \in {"none", "issued", "used"}
    /\ row.state \in {"none", "pending", "authorized", "started", "removed"}
                     \cup Terminal
    /\ row.ev \in {"none", "pending", "confirmed", "unconfirmed", "permanent"}
    /\ sent \in [Downloads -> 0 .. Bytes]
    /\ Waiting \cap confirmed = {}

Init ==
    /\ authority = TRUE /\ time = 0 /\ proof = "none"
    /\ req = [q \in Requests |-> "idle"]
    /\ row = NoRow /\ queue = {} /\ confirmed = {} /\ archive = {}
    /\ dl = [d \in Downloads |-> NoDownload]
    /\ sent = [d \in Downloads |-> 0]
    /\ worker = Asleep
    /\ crashes = 0

ReqGoes(q, pc) == req' = [req EXCEPT ![q] = pc]
DlGoes(d, r) == dl' = [dl EXCEPT ![d] = r]
To(d, pc) == DlGoes(d, [NoDownload EXCEPT !.pc = pc,
                          !.rec = IF pc = "over" THEN Intent ELSE dl[d].rec])
WorkerGoes(r) == worker' = r

(***************************************************************************)
(* Transactions of the store                                               *)
(***************************************************************************)

\* The reader's account, revision, person, session and role, read inside the
\* transaction.
OriginalPrincipal == authority

\* A record is queued once, not again once it is confirmed, and never beside
\* another one of the same event.
CanQueue(r) ==
    \A o \in Waiting \cup confirmed : o.event = r.event => o = r

QueueOriginal(r) ==
    queue' = IF r \in Waiting \cup confirmed THEN queue
             ELSE queue \cup {Queued(r)}

\* The row is confirmed when its last waiting record is.
Settled_Early(r, left) ==
    IF r.state \in Terminal /\ r.ev # "permanent"
    THEN [r EXCEPT !.ev = "confirmed"] ELSE r
Settled(r, left) ==
    IF r.state \in Terminal /\ r.ev # "permanent" /\ left = {}
    THEN [r EXCEPT !.ev = "confirmed"] ELSE r

ConfirmOriginal(r, base) ==
    LET left == {q \in queue : q.rec # r} IN
    /\ confirmed' = confirmed \cup {r}
    /\ queue' = left
    /\ row' = Settled(base, left)

CanConfirm(r) == r \in Waiting \cup confirmed

\* What RecordOriginalOutcome accepts: an exact replay of a final outcome, an
\* expiry of an unused permit, anything else of a started read.
Accepts(r) ==
    /\ row.state \notin {"none", "removed"}
    /\ row.ev # "permanent"
    /\ IF row.state \in Terminal THEN r.state = row.state /\ r.n = row.n
       ELSE IF r.state = "expired" THEN row.state \in {"pending", "authorized"}
       ELSE row.state = "started"
    /\ CanQueue(r)

RecordOriginalOutcome(r) ==
    /\ Accepts(r)
    /\ QueueOriginal(r)
    /\ row' = IF row.state \in Terminal THEN row
              ELSE [state |-> r.state, n |-> r.n,
                    ev |-> IF r.state = "started" THEN "pending"
                           ELSE "unconfirmed"]
    /\ UNCHANGED confirmed

MarkOriginalPermanent ==
    /\ row' = IF row.state \in {"none", "removed"} THEN row
              ELSE [row EXCEPT !.ev = "permanent",
                      !.state = IF @ \in {"pending", "authorized"}
                                THEN "expired" ELSE @]
    /\ queue' = {}
    /\ UNCHANGED confirmed

\* The archive keeps the record, or not, and the caller learns it, or not.
\* Without a receipt the record is looked up.
PreserveOriginal(r, ok) ==
    \/ ok /\ archive' = archive \cup {r}
    \/ ~ok /\ archive' \in {archive, archive \cup {r}}

(***************************************************************************)
(* Asking for a permit                                                     *)
(***************************************************************************)

\* originalAuthority, as every handler evaluates it before it goes on.
OriginalAuthority == authority

\* Preview and step-up: the reader proves the second factor for this read.
HandleOriginalStepup ==
    /\ OriginalAuthority /\ proof = "none"
    /\ proof' = "issued"
    /\ UNCHANGED <<authority, time, req, db, archive, dl, sent, worker, crashes>>

\* The original is selected and its manifest verified while the reader holds
\* the authority.
SelectOriginal(q) ==
    /\ req[q] = "idle" /\ proof # "none" /\ OriginalAuthority
    /\ ReqGoes(q, "selected")
    /\ UNCHANGED <<authority, time, proof, db, archive, dl, sent, worker,
                   crashes>>

\* The proof is consumed, the permit and its intent are recorded together.
CreateOriginalAccess(q) ==
    /\ req[q] = "selected"
    /\ IF OriginalPrincipal /\ proof = "issued"
       THEN /\ proof' = "used"
            /\ row' = [state |-> "pending", ev |-> "pending", n |-> 0]
            /\ QueueOriginal(Intent)
            /\ ReqGoes(q, "preserve")
       ELSE ReqGoes(q, "done") /\ UNCHANGED <<proof, row, queue>>
    /\ UNCHANGED <<authority, time, confirmed, archive, dl, sent, worker,
                   crashes>>

\* The intent goes to the archive; without a live receipt the request fails.
PreserveIntent(q) ==
    /\ req[q] = "preserve"
    /\ \E ok \in BOOLEAN :
          PreserveOriginal(Intent, ok)
          /\ ReqGoes(q, IF ok /\ time < ExpiredAt THEN "authorize" ELSE "done")
    /\ UNCHANGED <<authority, time, proof, db, dl, sent, worker, crashes>>

\* Only a pending permit of a reader who still stands becomes usable.
AuthorizeOriginalAccess(q) ==
    /\ req[q] = "authorize"
    /\ IF row.state = "pending" /\ OriginalPrincipal /\ CanConfirm(Intent)
       THEN /\ ConfirmOriginal(Intent, [row EXCEPT !.state = "authorized"])
            /\ ReqGoes(q, "granted")
       ELSE UNCHANGED db /\ ReqGoes(q, "done")
    /\ UNCHANGED <<authority, time, proof, archive, dl, sent, worker, crashes>>

(***************************************************************************)
(* Downloading                                                             *)
(***************************************************************************)

\* The handler reads the clock, then its transaction waits for its turn.
HandleOriginalDownload(d) ==
    /\ dl[d].pc = "idle"
    /\ \E q \in Requests : req[q] = "granted"
    /\ OriginalAuthority
    /\ DlGoes(d, [NoDownload EXCEPT !.pc = "consume", !.now = time])
    /\ UNCHANGED <<authority, time, proof, req, db, archive, sent, worker,
                   crashes>>

Consumable == row.state = "authorized"

ConsumeOriginalAccess(d) ==
    /\ dl[d].pc = "consume"
    /\ IF Consumable /\ dl[d].now < ExpiredAt /\ OriginalPrincipal
       THEN /\ row' = [row EXCEPT !.state = "started", !.ev = "pending"]
            /\ To(d, "resolve")
       ELSE To(d, "over") /\ UNCHANGED row
    /\ UNCHANGED <<authority, time, proof, req, queue, confirmed, archive,
                   sent, worker, crashes>>

\* The record a download is about to write, and where it goes on.
Report(d, r) == DlGoes(d, [NoDownload EXCEPT !.pc = "record", !.rec = r])
Ends(d, s) == Report(d, Result(s, sent[d], "handler"))

\* The policy's archive may be out of reach.
ResolveArchive(d) ==
    /\ dl[d].pc = "resolve"
    /\ Report(d, Started) \/ Ends(d, "unconfirmed")
    /\ UNCHANGED <<authority, time, proof, req, db, archive, sent, worker,
                   crashes>>

\* recordOriginalDelivery: the outcome and its record are committed ...
RecordDelivery(d) ==
    /\ dl[d].pc = "record"
    /\ LET r == dl[d].rec IN
       IF Accepts(r)
       THEN RecordOriginalOutcome(r) /\ To(d, "preserve")
       ELSE UNCHANGED db /\ To(d, "mark")
    /\ UNCHANGED <<authority, time, proof, req, archive, sent, worker, crashes>>

\* ... or the gap is made permanent; a read that was not recorded as started
\* ends unconfirmed.
MarkDelivery(d) ==
    /\ dl[d].pc = "mark"
    /\ MarkOriginalPermanent
    /\ IF dl[d].rec = Started THEN Ends(d, "unconfirmed") ELSE To(d, "over")
    /\ UNCHANGED <<authority, time, proof, req, archive, sent, worker, crashes>>

\* The record is preserved although the client may be gone.
PreserveDelivery(d) ==
    /\ dl[d].pc = "preserve"
    /\ \E ok \in BOOLEAN :
          /\ PreserveOriginal(dl[d].rec, ok)
          /\ IF ok THEN To(d, "confirm")
             ELSE IF dl[d].rec = Started THEN Ends(d, "unconfirmed")
             ELSE To(d, "over")
    /\ UNCHANGED <<authority, time, proof, req, db, sent, worker, crashes>>

\* Without a confirmed start no byte is read.
AfterStart(d, ok) ==
    IF dl[d].rec # Started THEN To(d, "over")
    ELSE IF ok THEN To(d, "check") ELSE Ends(d, "unconfirmed")

ConfirmDelivery(d) ==
    /\ dl[d].pc = "confirm"
    /\ LET r == dl[d].rec IN
       IF CanConfirm(r) THEN ConfirmOriginal(r, row) /\ AfterStart(d, TRUE)
       ELSE UNCHANGED db /\ AfterStart(d, FALSE)
    /\ UNCHANGED <<authority, time, proof, req, archive, sent, worker, crashes>>

\* Authority and expiry are checked before the archive is asked for the body
\* and again before the first byte; the archive may refuse.
ReadOriginal(d) ==
    /\ dl[d].pc \in {"check", "open"}
    /\ \/ /\ OriginalAuthority /\ time < ExpiredAt
          /\ To(d, IF dl[d].pc = "check" THEN "open" ELSE "send")
       \/ Ends(d, "interrupted")
    /\ UNCHANGED <<authority, time, proof, req, db, archive, sent, worker,
                   crashes>>

\* A piece is written while the reader stands; the read may fail, the client
\* leave or the deadline pass at any piece.
SendPiece(d) ==
    /\ dl[d].pc = "send"
    /\ \/ /\ OriginalAuthority /\ sent[d] < Bytes
          /\ sent' = [sent EXCEPT ![d] = @ + 1]
          /\ UNCHANGED dl
       \/ /\ Ends(d, "interrupted")
          /\ UNCHANGED sent
    /\ UNCHANGED <<authority, time, proof, req, db, archive, worker, crashes>>

\* The end of the body: complete if every byte was written and the hash is
\* right.
SendEnds(d) ==
    /\ dl[d].pc = "send" /\ sent[d] = Bytes
    /\ Ends(d, "completed")
    /\ UNCHANGED <<authority, time, proof, req, db, archive, sent, worker,
                   crashes>>

(***************************************************************************)
(* Recovery                                                                *)
(***************************************************************************)

\* Which row the sweep hands to the worker.
\* Mutant: a permit that was authorized and never used is forgotten.
Stale_Unused(now) ==
    /\ row.ev # "permanent"
    /\ \/ row.state = "pending" /\ now >= ExpiredAt
       \/ row.state = "started" /\ now >= AbandonedAt
Stale(now) ==
    /\ row.ev # "permanent"
    /\ \/ row.state \in {"pending", "authorized"} /\ now >= ExpiredAt
       \/ row.state = "started" /\ now >= AbandonedAt

Removable(now) ==
    now >= RemovedAt /\ row.ev \in {"confirmed", "permanent"} /\ queue = {}

SweepOriginalAccess ==
    /\ worker.pc = "idle"
    /\ WorkerGoes([Asleep EXCEPT !.now = time,
                     !.pc = IF Stale(time) THEN "outcome" ELSE "due",
                     !.saw = IF Stale(time) THEN row.state ELSE "none"])
    /\ IF Removable(time)
       THEN row' = [NoRow EXCEPT !.state = "removed"] /\ confirmed' = {}
       ELSE UNCHANGED <<row, confirmed>>
    /\ UNCHANGED <<authority, time, proof, req, queue, archive, dl, sent,
                   crashes>>

\* A permit that ran out is recorded as expired, an abandoned read as
\* unconfirmed; if that fails the gap is made permanent.
RecoverOutcome ==
    /\ worker.pc = "outcome"
    /\ LET r == Result(IF worker.saw = "started" THEN "unconfirmed"
                       ELSE "expired", 0, "sweep") IN
       \/ /\ RecordOriginalOutcome(r)
          /\ WorkerGoes([worker EXCEPT !.pc = "due", !.saw = "none"])
       \/ /\ ~Accepts(r)
          /\ WorkerGoes([worker EXCEPT !.pc = "mark"])
          /\ UNCHANGED db
    /\ UNCHANGED <<authority, time, proof, req, archive, dl, sent, crashes>>

RecoverMark ==
    /\ worker.pc = "mark"
    /\ MarkOriginalPermanent
    /\ WorkerGoes([worker EXCEPT !.pc = "due", !.saw = "none"])
    /\ UNCHANGED <<authority, time, proof, req, archive, dl, sent, crashes>>

DueOriginalEvidence ==
    /\ worker.pc = "due"
    /\ WorkerGoes([worker EXCEPT !.pc = "next", !.due = queue])
    /\ UNCHANGED <<authority, time, proof, req, db, archive, dl, sent, crashes>>

\* The intent of a live permit is left to its request.
Due(q) == q.rec = Intent => worker.now >= ExpiredAt

TooOld(q) == worker.now >= AgedAt /\ q.at < worker.now

RecoverNext ==
    /\ worker.pc = "next"
    /\ \/ /\ worker.due = {} /\ WorkerGoes(Asleep) /\ UNCHANGED db
       \/ \E q \in worker.due :
             LET rest == worker.due \ {q} IN
             \/ /\ TooOld(q) /\ MarkOriginalPermanent
                /\ WorkerGoes([worker EXCEPT !.due = rest])
             \/ /\ ~TooOld(q) /\ UNCHANGED db
                /\ WorkerGoes(
                     IF Due(q) THEN [worker EXCEPT !.pc = "preserve",
                                       !.due = rest, !.q = {q}]
                     ELSE [worker EXCEPT !.due = rest])
    /\ UNCHANGED <<authority, time, proof, req, archive, dl, sent, crashes>>

RecoverPreserve ==
    /\ worker.pc = "preserve"
    /\ \E q \in worker.q, ok \in BOOLEAN :
          /\ PreserveOriginal(q.rec, ok)
          /\ WorkerGoes(IF ok THEN [worker EXCEPT !.pc = "confirm"]
                        ELSE [worker EXCEPT !.pc = "next", !.q = {}])
    /\ UNCHANGED <<authority, time, proof, req, db, dl, sent, crashes>>

RecoverConfirm ==
    /\ worker.pc = "confirm"
    /\ \E q \in worker.q :
          IF CanConfirm(q.rec) THEN ConfirmOriginal(q.rec, row)
          ELSE UNCHANGED db
    /\ WorkerGoes([worker EXCEPT !.pc = "next", !.q = {}])
    /\ UNCHANGED <<authority, time, proof, req, archive, dl, sent, crashes>>

(***************************************************************************)
(* Environment                                                             *)
(***************************************************************************)

\* The reader loses the role, the session or the account; a new revision of
\* the account does not revive the permit.
Revoke ==
    /\ authority /\ authority' = FALSE
    /\ UNCHANGED <<time, proof, req, db, archive, dl, sent, worker, crashes>>

Tick ==
    /\ row # NoRow /\ time < RemovedAt /\ time' = time + 1
    /\ UNCHANGED <<authority, proof, req, db, archive, dl, sent, worker,
                   crashes>>

\* The Hub restarts: its requests are gone, recovery starts over.
Restart ==
    /\ crashes < MaxCrashes /\ crashes' = crashes + 1
    /\ req' = [q \in Requests |->
                 IF req[q] \in {"idle", "granted"} THEN req[q] ELSE "done"]
    /\ dl' = [d \in Downloads |->
                IF dl[d].pc = "idle" THEN NoDownload
                ELSE [NoDownload EXCEPT !.pc = "over"]]
    /\ worker' = Asleep
    /\ UNCHANGED <<authority, time, proof, db, archive, sent>>

Request(q) ==
    SelectOriginal(q) \/ CreateOriginalAccess(q) \/ PreserveIntent(q)
    \/ AuthorizeOriginalAccess(q)

Download(d) ==
    \/ HandleOriginalDownload(d) \/ ConsumeOriginalAccess(d)
    \/ ResolveArchive(d) \/ RecordDelivery(d) \/ MarkDelivery(d)
    \/ PreserveDelivery(d) \/ ConfirmDelivery(d) \/ ReadOriginal(d)
    \/ SendPiece(d) \/ SendEnds(d)

Recovery ==
    \/ SweepOriginalAccess \/ RecoverOutcome \/ RecoverMark
    \/ DueOriginalEvidence \/ RecoverNext \/ RecoverPreserve \/ RecoverConfirm

Next ==
    \/ HandleOriginalStepup \/ Revoke \/ Tick \/ Restart \/ Recovery
    \/ \E q \in Requests : Request(q)
    \/ \E d \in Downloads : Download(d)

\* The worker runs once a minute and the clock goes on.
Fairness == WF_vars(Recovery) /\ WF_vars(Tick)
Spec == Init /\ [][Next]_vars /\ Fairness

(***************************************************************************)
(* Properties                                                              *)
(***************************************************************************)

Readers == {d \in Downloads : sent[d] > 0}

\* One handle serves one download, and no byte of an original leaves the Hub
\* before the archive holds the intent and the start of that read, whatever
\* requests race and wherever the Hub restarts (ConsumeOriginalAccess,
\* recordOriginalDelivery).
ReadIsRecorded ==
    /\ Cardinality(Readers) <= 1
    /\ Readers # {} => {Intent, Started} \subseteq archive

\* What the archive keeps of a read is what happened: complete means that all
\* of it was sent, a number of bytes is the number sent, expired means that
\* nothing was (RecordOriginalOutcome, recoverOriginalEvidence).
ResultIsTrue ==
    \A r \in archive :
        /\ r.state = "completed" => \E d \in Downloads : sent[d] = Bytes
        /\ r.state = "interrupted" =>
              \E d \in Downloads : Readers \subseteq {d} /\ r.n = sent[d]
        /\ r.state = "expired" => Readers = {}

\* A read shown as confirmed is in the archive from its intent to its result
\* (confirmOriginal).
ConfirmedIsComplete ==
    row.ev = "confirmed" =>
        /\ Intent \in archive
        /\ \E by \in {"handler", "sweep"} :
              Result(row.state, row.n, by) \in archive
        /\ Readers # {} => Started \in archive

\* Every permit's evidence is settled: confirmed, or marked as permanently
\* incomplete, also when the archive never answers (recoverOriginalEvidence).
AccessSettles ==
    row.state # "none" ~>
        row.ev \in {"confirmed", "permanent"} \/ row.state = "removed"
=============================================================================
