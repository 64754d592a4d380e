------------------------ MODULE OriginalAccessProofs ------------------------
(***************************************************************************)
(* What the evidence of a protected original is worth (OriginalAccess),    *)
(* for any number of requests, downloads, pieces and restarts: one handle  *)
(* serves one download, and what the archive says of it is what happened.  *)
(* The inductive invariant says of every record the archive has, or that   *)
(* somebody may still hand to it, that it tells the truth.                 *)
(***************************************************************************)
EXTENDS OriginalAccess, FiniteSetTheorems, TLAPS

\* Where a download writes, preserves and confirms a record.
Writing == {"record", "mark", "preserve", "confirm"}

\* A download that was let in: only ConsumeOriginalAccess does that.
Taken(d) == dl[d].pc \notin {"idle", "consume", "over"} \/ sent[d] > 0

\* A download that sends nothing any more.
Past(d) == dl[d].pc = "over" \/ (dl[d].pc \in Writing /\ dl[d].rec # Started)

\* The permit may still be used, or is not there yet.
Fresh == row.state \in {"none", "pending", "authorized"}

\* The records the recovery has read from the queue.
Held == {q.rec : q \in worker.due \cup worker.q}

\* The records the archive has or somebody may hand to it.
Known == archive \cup Waiting \cup confirmed \cup Held

\* What a record says has happened and will not change.
Truth(r) ==
    /\ r.state = "completed" => \E d \in Downloads : Past(d) /\ sent[d] = Bytes
    /\ r.state = "interrupted" =>
          \E d \in Downloads : /\ Past(d) /\ r.n = sent[d]
                               /\ \A e \in Downloads : Taken(e) => e = d
    /\ r.state = "expired" => \A d \in Downloads : ~Taken(d)
    /\ r.state \in {"completed", "interrupted", "expired"} => ~Fresh

\* The variables' fields.
Shape ==
    /\ Bytes \in Nat
    /\ sent \in [Downloads -> 0 .. Bytes]
    /\ dl = [d \in Downloads |-> dl[d]]
    /\ \A d \in Downloads : DOMAIN dl[d] = {"pc", "now", "rec"}
    /\ DOMAIN worker = {"pc", "now", "saw", "due", "q"}
    /\ DOMAIN row = {"state", "ev", "n"}
    /\ req = [q \in Requests |-> req[q]]

\* What holds of a download: one that was let in found the permit in force and
\* its intent preserved, sends only when its start is preserved, and what it is
\* about to record is true of it.
Own(d) ==
    /\ Taken(d) => ~Fresh /\ row.state # "expired" /\ Intent \in archive
    /\ dl[d].pc \in {"check", "open", "send"} \/ sent[d] > 0 => Started \in archive
    /\ sent[d] > 0 => dl[d].pc = "send" \/ Past(d)
    /\ dl[d].pc \in Writing =>
          \/ dl[d].rec = Started
          \/ /\ \E s \in {"completed", "interrupted", "unconfirmed"} :
                   dl[d].rec = Result(s, sent[d], "handler")
             /\ dl[d].rec.state = "completed" => sent[d] = Bytes
    /\ dl[d].pc = "confirm" => dl[d].rec \in archive

\* At most one download was let in.
Lone ==
    /\ \A d, e \in Downloads : Taken(d) /\ Taken(e) => d = e
    /\ \A d \in Downloads : Own(d)

\* The permit's row, its evidence and the archive agree.
Evidence ==
    /\ confirmed \subseteq archive
    /\ row.state = "authorized" => Intent \in archive
    /\ row.state \in Terminal => row.ev \in {"unconfirmed", "confirmed", "permanent"}
    /\ row.ev = "confirmed" => row.state \in Terminal
    /\ row.ev = "permanent" => row.state \notin {"pending", "authorized"}
    /\ row.state \notin {"none", "removed"} /\ row.ev # "permanent" =>
          Intent \in Waiting \cup confirmed
    /\ row.state \in Terminal /\ row.ev # "permanent" =>
          \E by \in {"handler", "sweep"} : Result(row.state, row.n, by) \in Waiting \cup confirmed
    /\ row.ev = "confirmed" =>
          /\ Intent \in archive
          /\ \E by \in {"handler", "sweep"} : Result(row.state, row.n, by) \in archive

\* There is a permit only once the proof is used, and whoever is about to confirm
\* a record has seen it preserved.
Seen ==
    /\ proof # "used" => row.state = "none" /\ row.ev = "none"
    /\ \A q \in Requests : req[q] = "authorize" => Intent \in archive
    /\ worker.pc \in {"preserve", "confirm"} => \E q \in worker.q : worker.q = {q}
    /\ worker.pc = "confirm" => \A q \in worker.q : q.rec \in archive

Told == \A r \in Known : Truth(r)

AccessInv == Shape /\ Lone /\ Evidence /\ Seen /\ Told

-----------------------------------------------------------------------------
(* The transactions of the store *)

\* What a transaction may do to the permit: it never becomes usable again, and
\* it expires only while nobody was let in.
Moves ==
    /\ ~Fresh => ~Fresh'
    /\ row'.state = "expired" => row.state \in {"expired", "pending", "authorized"}
    /\ archive \subseteq archive'

\* A record is queued unless it is there already.
LEMMA QueueAdds ==
    ASSUME NEW r, QueueOriginal(r), confirmed' = confirmed
    PROVE  Waiting' \cup confirmed' = Waiting \cup confirmed \cup {r}
<1>1. CASE r \in Waiting \cup confirmed
  BY <1>1, Zenon DEF QueueOriginal, Waiting
<1>2. CASE r \notin Waiting \cup confirmed
  <2>1. queue' = queue \cup {Queued(r)} /\ Queued(r).rec = r
    BY <1>2, Zenon DEF QueueOriginal, Queued
  <2>2. Waiting' = Waiting \cup {r}
    BY <2>1, Zenon DEF Waiting
  <2>3. QED
    BY <2>2, Zenon
<1>3. QED
  BY <1>1, <1>2, Zenon

\* RecordOriginalOutcome keeps the evidence together: with the outcome its record
\* is queued, and a final outcome stays as it is.
LEMMA OutcomeKeeps ==
    ASSUME Shape, Evidence, archive' = archive, NEW r, RecordOriginalOutcome(r),
           \/ r = Started
           \/ /\ r.state \in Terminal
              /\ \E by \in {"handler", "sweep"} : r = Result(r.state, r.n, by)
    PROVE  /\ Evidence' /\ Moves
           /\ DOMAIN row' = {"state", "ev", "n"}
           /\ Waiting' \cup confirmed' = Waiting \cup confirmed \cup {r}
           /\ r.state = "expired" => row.state \in {"expired", "pending", "authorized"}
           /\ r.state \in {"completed", "interrupted"} =>
                row.state \in {"started", "completed", "interrupted"}
           /\ r.state \in Terminal => row'.state \in Terminal
           /\ row'.state = "none" <=> row.state = "none"
<1>1. /\ Accepts(r) /\ QueueOriginal(r) /\ confirmed' = confirmed
      /\ row' = IF row.state \in Terminal THEN row
                ELSE [state |-> r.state, n |-> r.n,
                      ev |-> IF r.state = "started" THEN "pending" ELSE "unconfirmed"]
  BY Zenon DEF RecordOriginalOutcome
<1>2. Waiting' \cup confirmed' = Waiting \cup confirmed \cup {r}
  BY <1>1, QueueAdds, Zenon
<1>3. /\ r.state = "started" \/ r.state \in Terminal
      /\ r.state \in Terminal => \E by \in {"handler", "sweep"} : r = Result(r.state, r.n, by)
      /\ r.state # "started" => r.state \in Terminal
  BY DEF Started, Result, Record, Terminal
<1>4. CASE row.state \in Terminal
  <2>1. row' = row
    BY <1>1, <1>4, Zenon
  <2>2. r.state = row.state
    BY <1>1, <1>4, Zenon DEF Accepts
  <2>3. Evidence'
    BY <1>1, <1>2, <2>1, Zenon DEF Evidence
  <2>4. QED
    BY <1>2, <2>1, <2>2, <2>3, <1>4, Zenon DEF Moves, Fresh, Terminal, Shape
<1>5. CASE row.state \notin Terminal
  <2>1. /\ row.state \notin {"none", "removed"} /\ row.ev # "permanent"
        /\ r.state = "expired" => row.state \in {"pending", "authorized"}
        /\ r.state # "expired" => row.state = "started"
    BY <1>1, <1>5, Zenon DEF Accepts
  <2>2. /\ row'.state = r.state /\ row'.n = r.n /\ DOMAIN row' = {"state", "ev", "n"}
        /\ row'.ev = IF r.state = "started" THEN "pending" ELSE "unconfirmed"
    BY <1>1, <1>5, Zenon
  <2>3. Intent \in Waiting' \cup confirmed'
    BY <1>2, <2>1, Zenon DEF Evidence
  <2>4. Evidence'
    <3>1. confirmed' \subseteq archive'
      BY <1>1, Zenon DEF Evidence
    <3>2. row'.state \in Terminal =>
            \E by \in {"handler", "sweep"} : Result(row'.state, row'.n, by) \in Waiting' \cup confirmed'
      BY <1>2, <1>3, <2>2, Zenon
    <3>3. row'.state # "authorized"
      BY <1>3, <2>2, Zenon DEF Terminal
    <3>4. /\ row'.state \in Terminal => row'.ev \in {"unconfirmed", "confirmed", "permanent"}
          /\ row'.ev \notin {"confirmed", "permanent"}
      BY <1>3, <2>2, Zenon DEF Terminal
    <3>5. QED
      BY <2>3, <3>1, <3>2, <3>3, <3>4, Zenon DEF Evidence
  <2>5. QED
    BY <1>2, <1>3, <2>1, <2>2, <2>4, Zenon DEF Moves, Fresh, Terminal
<1>6. QED
  BY <1>4, <1>5, Zenon

\* MarkOriginalPermanent closes the evidence as incomplete.
LEMMA MarkKeeps ==
    ASSUME Shape, Evidence, archive' = archive, MarkOriginalPermanent
    PROVE  /\ Evidence' /\ Moves
           /\ DOMAIN row' = {"state", "ev", "n"}
           /\ Waiting' \cup confirmed' \subseteq Waiting \cup confirmed
           /\ row'.state = "none" <=> row.state = "none"
<1>1. Waiting' = {} /\ confirmed' = confirmed
  BY Zenon DEF MarkOriginalPermanent, Waiting
<1>2. CASE row.state \in {"none", "removed"}
  <2>1. row' = row
    BY <1>2, Zenon DEF MarkOriginalPermanent
  <2>2. row.state \notin Terminal
    BY <1>2, Zenon DEF Terminal
  <2>3. Evidence'
    BY <1>1, <1>2, <2>1, <2>2, Zenon DEF Evidence
  <2>4. QED
    BY <1>1, <2>1, <2>2, <2>3, Zenon DEF Moves, Fresh, Shape, Terminal
<1>3. CASE row.state \notin {"none", "removed"}
  <2>1. /\ row'.ev = "permanent" /\ DOMAIN row' = {"state", "ev", "n"}
        /\ row'.state = IF row.state \in {"pending", "authorized"} THEN "expired" ELSE row.state
    BY <1>3, Zenon DEF MarkOriginalPermanent, Shape
  <2>2. row'.state # "authorized"
    BY <2>1, Zenon
  <2>3. Evidence'
    BY <1>1, <2>1, <2>2, Zenon DEF Evidence
  <2>4. QED
    BY <1>1, <1>3, <2>1, <2>3, Zenon DEF Moves, Fresh
<1>4. QED
  BY <1>2, <1>3, Zenon

\* Confirming a preserved record: the permit's evidence is confirmed only when
\* every record of it is.
LEMMA ConfirmKeeps ==
    ASSUME Shape, Evidence, archive' = archive, NEW r, r \in archive, CanConfirm(r),
           NEW base, DOMAIN base = {"state", "ev", "n"},
           \/ base = row
           \/ /\ base.state = "authorized" /\ base.ev = row.ev
              /\ row.state = "pending" /\ r = Intent,
           ConfirmOriginal(r, base)
    PROVE  /\ Evidence' /\ Moves
           /\ DOMAIN row' = {"state", "ev", "n"}
           /\ Waiting' \cup confirmed' \subseteq Waiting \cup confirmed \cup {r}
           /\ row'.state = base.state
<1>1. /\ confirmed' = confirmed \cup {r} /\ queue' = {q \in queue : q.rec # r}
      /\ row' = Settled(base, queue')
  BY Zenon DEF ConfirmOriginal
<1>2. Waiting' = Waiting \ {r}
  BY <1>1, Zenon DEF Waiting
<1>3. Waiting' \cup confirmed' = Waiting \cup confirmed \cup {r}
  BY <1>1, <1>2, Zenon
<1>4. confirmed' \subseteq archive'
  BY <1>1, Zenon DEF Evidence
<1>5. /\ row'.state = base.state /\ row'.n = base.n /\ DOMAIN row' = {"state", "ev", "n"}
      /\ row'.ev = IF base.state \in Terminal /\ base.ev # "permanent" /\ queue' = {}
                   THEN "confirmed" ELSE base.ev
  BY <1>1, Zenon DEF Settled
<1>6. queue' = {} => Waiting' = {}
  BY Zenon DEF Waiting
<1>7. CASE base = row
  <2>1. row.state \notin {"none", "removed"} /\ row'.ev # "permanent" =>
            Intent \in Waiting' \cup confirmed'
    BY <1>3, <1>5, <1>7, Zenon DEF Evidence
  <2>2. row.state \in Terminal /\ row'.ev # "permanent" =>
            \E by \in {"handler", "sweep"} : Result(row.state, row.n, by) \in Waiting' \cup confirmed'
    BY <1>3, <1>5, <1>7, Zenon DEF Evidence
  <2>3. row'.ev = "confirmed" =>
            /\ Intent \in archive /\ row.state \in Terminal
            /\ \E by \in {"handler", "sweep"} : Result(row.state, row.n, by) \in archive
    <3>1. CASE row.ev = "confirmed"
      BY <3>1, Zenon DEF Evidence
    <3>2. CASE row.ev # "confirmed" /\ row'.ev = "confirmed"
      <4>1. row.state \in Terminal /\ queue' = {} /\ row.state \notin {"none", "removed"}
        BY <1>5, <1>7, <3>2, Zenon DEF Terminal
      <4>2. Waiting' \cup confirmed' \subseteq archive
        BY <1>4, <1>6, <4>1, Zenon
      <4>3. QED
        BY <2>1, <2>2, <3>2, <4>1, <4>2, Zenon
    <3>3. QED
      BY <3>1, <3>2, Zenon
  <2>4. /\ row'.state = "authorized" => Intent \in archive
        /\ row'.state \in Terminal => row'.ev \in {"unconfirmed", "confirmed", "permanent"}
    BY <1>5, <1>7, Zenon DEF Evidence
  <2>5. Evidence'
    BY <1>4, <1>5, <1>7, <2>1, <2>2, <2>3, <2>4, Zenon DEF Evidence
  <2>6. QED
    BY <1>3, <1>5, <1>7, <2>5, Zenon DEF Moves, Fresh
<1>8. CASE base # row
  <2>1. /\ base.state = "authorized" /\ row.state = "pending" /\ r = Intent
        /\ base.state \notin Terminal /\ row.state \notin Terminal
    BY <1>8, Zenon DEF Terminal
  <2>2. row'.ev = row.ev /\ row.ev # "confirmed" /\ row'.state = "authorized"
    BY <1>5, <1>8, <2>1, Zenon DEF Evidence
  <2>3. Intent \in Waiting' \cup confirmed'
    BY <1>3, <2>1, Zenon
  <2>4. row'.state \notin Terminal
    BY <2>2, Zenon DEF Terminal
  <2>5. Evidence'
    BY <1>4, <2>1, <2>2, <2>3, <2>4, Zenon DEF Evidence
  <2>6. QED
    BY <1>3, <1>5, <2>1, <2>5, Zenon DEF Moves, Fresh
<1>9. QED
  BY <1>7, <1>8, Zenon

\* A step that leaves the store alone; the archive only grows.
LEMMA StoreKept ==
    ASSUME Evidence, row' = row, queue' = queue, confirmed' = confirmed, archive \subseteq archive'
    PROVE  Evidence' /\ Moves /\ Waiting' = Waiting
<1>1. Waiting' = Waiting
  BY Zenon DEF Waiting
<1>2. Evidence'
  BY <1>1, Zenon DEF Evidence
<1>3. QED
  BY <1>1, <1>2, Zenon DEF Moves, Fresh

-----------------------------------------------------------------------------
(* Steps *)

\* What a record says stays true when nobody who is past sends again and nobody
\* is let in any more.
LEMMA TruthStays ==
    ASSUME NEW r, Truth(r), ~Fresh => ~Fresh',
           \A d \in Downloads : Past(d) => Past(d)' /\ sent'[d] = sent[d],
           \A d \in Downloads : Taken(d)' => Taken(d) \/ Fresh
    PROVE  Truth(r)'
<1>1. CASE r.state \in {"completed", "interrupted", "expired"}
  <2>1. ~Fresh /\ ~Fresh' /\ \A d \in Downloads : Taken(d)' => Taken(d)
    BY <1>1, Zenon DEF Truth
  <2>2. r.state = "completed" => \E d \in Downloads : Past(d)' /\ sent'[d] = Bytes
    BY Zenon DEF Truth
  <2>3. r.state = "interrupted" =>
          \E d \in Downloads : /\ Past(d)' /\ r.n = sent'[d]
                               /\ \A e \in Downloads : Taken(e)' => e = d
    BY <2>1, Zenon DEF Truth
  <2>4. r.state = "expired" => \A d \in Downloads : ~Taken(d)'
    BY <2>1, Zenon DEF Truth
  <2>5. QED
    BY <2>1, <2>2, <2>3, <2>4, Zenon DEF Truth
<1>2. CASE r.state \notin {"completed", "interrupted", "expired"}
  BY <1>2, Zenon DEF Truth
<1>3. QED
  BY <1>1, <1>2, Zenon

\* The store's, the archive's and the recovery's part of a step, in which at most
\* the record r is new.
Handles(r) ==
    /\ Evidence' /\ Moves /\ DOMAIN row' = {"state", "ev", "n"}
    /\ archive' \subseteq archive \cup {r}
    /\ Waiting' \cup confirmed' \subseteq Waiting \cup confirmed \cup {r}
    /\ DOMAIN worker' = {"pc", "now", "saw", "due", "q"}
    /\ Held' \subseteq Held \cup Waiting
    /\ req' = [q \in Requests |-> req'[q]]
    /\ Seen'

\* A step that moves no download.
LEMMA QuietStep ==
    ASSUME AccessInv, NEW r, Handles(r), dl' = dl, sent' = sent, Truth(r)'
    PROVE  AccessInv'
<1>0. Shape /\ Lone /\ Told
  BY Zenon DEF AccessInv
<1>1. \A d \in Downloads : (Taken(d)' <=> Taken(d)) /\ (Past(d)' <=> Past(d))
  BY Zenon DEF Taken, Past
<1>2. Shape'
  BY <1>0, Zenon DEF Shape, Handles
<1>3. Lone'
  <2>1. ASSUME NEW d \in Downloads PROVE Own(d)'
    <3>1. Own(d)
      BY <1>0, Zenon DEF Lone
    <3>2. Taken(d) => ~Fresh' /\ row'.state # "expired" /\ Intent \in archive'
      BY <3>1, Zenon DEF Own, Handles, Moves, Fresh
    <3>3. archive \subseteq archive'
      BY Zenon DEF Handles, Moves
    <3>4. QED
      BY <1>1, <3>1, <3>2, <3>3, Zenon DEF Own
  <2>2. QED
    BY <1>0, <1>1, <2>1, Zenon DEF Lone
<1>4. Told'
  <2>1. ASSUME NEW s \in Known' PROVE Truth(s)'
    <3>1. s \in Known \/ s = r
      BY <2>1, Zenon DEF Known, Handles
    <3>2. CASE s \in Known
      <4>1. Truth(s)
        BY <1>0, <3>2, Zenon DEF Told
      <4>2. ~Fresh => ~Fresh'
        BY Zenon DEF Handles, Moves
      <4>3. QED
        BY <1>1, <4>1, <4>2, TruthStays, Zenon
    <3>3. QED
      BY <3>1, <3>2, Zenon
  <2>2. QED
    BY <2>1, Zenon DEF Told
<1>5. QED
  BY <1>2, <1>3, <1>4, Zenon DEF AccessInv, Handles

\* A step of one download.
LEMMA DownloadStep ==
    ASSUME AccessInv, NEW r, Handles(r), Truth(r)',
           NEW d \in Downloads, NEW x, dl' = [dl EXCEPT ![d] = x],
           DOMAIN x = {"pc", "now", "rec"}, sent' \in [Downloads -> 0 .. Bytes],
           \A e \in Downloads \ {d} : sent'[e] = sent[e],
           Own(d)', Past(d) => Past(d)' /\ sent'[d] = sent[d],
           Taken(d)' => Taken(d) \/ row.state = "authorized"
    PROVE  AccessInv'
<1>0. Shape /\ Lone /\ Told
  BY Zenon DEF AccessInv
<1>1. \A e \in Downloads : e # d => /\ dl'[e] = dl[e] /\ sent'[e] = sent[e]
                                    /\ Taken(e)' <=> Taken(e)
                                    /\ Past(e)' <=> Past(e)
  BY <1>0, Zenon DEF Taken, Past, Shape
<1>2. Shape'
  BY <1>0, Zenon DEF Shape, Handles
<1>3. Lone'
  <2>1. ASSUME NEW e \in Downloads, e # d PROVE Own(e)'
    <3>1. Own(e)
      BY <1>0, Zenon DEF Lone
    <3>2. Taken(e) => ~Fresh' /\ row'.state # "expired" /\ Intent \in archive'
      BY <3>1, Zenon DEF Own, Handles, Moves, Fresh
    <3>3. archive \subseteq archive'
      BY Zenon DEF Handles, Moves
    <3>4. dl'[e] = dl[e] /\ sent'[e] = sent[e] /\ (Taken(e)' <=> Taken(e)) /\ (Past(e)' <=> Past(e))
      BY <1>1, <2>1, Zenon
    <3>5. QED
      BY <3>1, <3>2, <3>3, <3>4, Zenon DEF Own
  <2>2. \A e \in Downloads : Own(e)'
    BY <2>1, Zenon
  <2>3. ASSUME NEW e \in Downloads, NEW f \in Downloads, Taken(e)', Taken(f)' PROVE e = f
    <3>1. row.state = "authorized" => \A g \in Downloads : ~Taken(g)
      BY <1>0, Zenon DEF Lone, Own, Fresh
    <3>2. QED
      BY <1>0, <1>1, <2>3, <3>1, Zenon DEF Lone
  <2>4. QED
    BY <2>2, <2>3, Zenon DEF Lone
<1>4. Told'
  <2>1. ASSUME NEW s \in Known' PROVE Truth(s)'
    <3>1. s \in Known \/ s = r
      BY <2>1, Zenon DEF Known, Handles
    <3>2. CASE s \in Known
      <4>1. Truth(s)
        BY <1>0, <3>2, Zenon DEF Told
      <4>2. ~Fresh => ~Fresh'
        BY Zenon DEF Handles, Moves
      <4>3. \A e \in Downloads : Past(e) => Past(e)' /\ sent'[e] = sent[e]
        BY <1>1, Zenon
      <4>4. \A e \in Downloads : Taken(e)' => Taken(e) \/ Fresh
        BY <1>1, Zenon DEF Fresh
      <4>5. QED
        BY <4>1, <4>2, <4>3, <4>4, TruthStays, Zenon
    <3>3. QED
      BY <3>1, <3>2, Zenon
  <2>2. QED
    BY <2>1, Zenon DEF Told
<1>5. QED
  BY <1>2, <1>3, <1>4, Zenon DEF AccessInv, Handles

\* What remains to be shown of a step that leaves the recovery alone.
LEMMA Elsewhere ==
    ASSUME AccessInv, NEW r, Evidence', Moves, DOMAIN row' = {"state", "ev", "n"},
           archive' \subseteq archive \cup {r},
           Waiting' \cup confirmed' \subseteq Waiting \cup confirmed \cup {r},
           worker' = worker, req' = [q \in Requests |-> req'[q]],
           proof' # "used" => row'.state = "none" /\ row'.ev = "none",
           \A q \in Requests : req'[q] = "authorize" => Intent \in archive'
    PROVE  Handles(r)
<1>1. Held' = Held
  BY Zenon DEF Held
<1>2. DOMAIN worker' = {"pc", "now", "saw", "due", "q"}
  BY Zenon DEF AccessInv, Shape
<1>3. Seen'
  <2>1. Seen /\ archive \subseteq archive'
    BY Zenon DEF AccessInv, Moves
  <2>2. QED
    BY <2>1, Zenon DEF Seen
<1>4. QED
  BY <1>1, <1>2, <1>3, Zenon DEF Handles

\* The same when the store is left alone as well.
LEMMA Still ==
    ASSUME AccessInv, NEW r, UNCHANGED db, archive \subseteq archive',
           archive' \subseteq archive \cup {r},
           worker' = worker, req' = [q \in Requests |-> req'[q]],
           proof' = proof \/ proof' = "used" \/ proof = "none",
           \A q \in Requests : req'[q] = "authorize" => Intent \in archive'
    PROVE  Handles(r)
<1>1. Evidence /\ Seen /\ DOMAIN row = {"state", "ev", "n"}
  BY Zenon DEF AccessInv, Shape
<1>2. row' = row /\ queue' = queue /\ confirmed' = confirmed
  BY Zenon DEF db
<1>3. Evidence' /\ Moves /\ Waiting' = Waiting
  BY <1>1, <1>2, StoreKept, Zenon
<1>4. proof' # "used" => row'.state = "none" /\ row'.ev = "none"
  BY <1>1, <1>2, Zenon DEF Seen
<1>5. DOMAIN row' = {"state", "ev", "n"}
  BY <1>1, <1>2, Zenon
<1>6. Waiting' \cup confirmed' \subseteq Waiting \cup confirmed \cup {r}
  BY <1>2, <1>3, Zenon
<1>7. QED
  BY <1>3, <1>4, <1>5, <1>6, Elsewhere, Zenon

\* An intent and a start say nothing that could become false.
LEMMA Plain ==
    Truth(Intent)' /\ Truth(Started)'
BY Zenon DEF Truth, Intent, Started, Record

-----------------------------------------------------------------------------
(* The request for a permit, and the environment *)

\* A step of a request for a permit.
LEMMA RequestKeeps ==
    ASSUME AccessInv, NEW q \in Requests, Request(q)
    PROVE  AccessInv'
<1>0. Shape /\ Evidence /\ Seen
  BY Zenon DEF AccessInv
<1>1. dl' = dl /\ sent' = sent /\ worker' = worker
  BY Zenon
  DEF Request, SelectOriginal, CreateOriginalAccess, PreserveIntent, AuthorizeOriginalAccess
<1>2. \E pc : ReqGoes(q, pc)
  BY Zenon
  DEF Request, SelectOriginal, CreateOriginalAccess, PreserveIntent, AuthorizeOriginalAccess
<1>3. /\ req' = [p \in Requests |-> req'[p]]
      /\ \A p \in Requests : p # q => req'[p] = req[p]
      /\ \A pc : ReqGoes(q, pc) => req'[q] = pc
  BY <1>0, <1>2, Zenon DEF ReqGoes, Shape
<1>4. SUFFICES Handles(Intent)
  BY <1>1, Plain, QuietStep, Zenon
<1>5. ASSUME archive \subseteq archive', req'[q] = "authorize" => Intent \in archive'
      PROVE  \A p \in Requests : req'[p] = "authorize" => Intent \in archive'
  BY <1>0, <1>3, <1>5, Zenon DEF Seen
<1>6. CASE SelectOriginal(q)
  <2>1. UNCHANGED db /\ archive' = archive /\ proof' = proof /\ req'[q] = "selected"
    BY <1>3, <1>6, Zenon DEF SelectOriginal
  <2>2. QED
    BY <1>1, <1>3, <1>5, <2>1, Still, Zenon
<1>7. CASE CreateOriginalAccess(q)
  <2>1. confirmed' = confirmed /\ archive' = archive /\ req'[q] # "authorize"
    BY <1>3, <1>7, Zenon DEF CreateOriginalAccess
  <2>2. CASE OriginalPrincipal /\ proof = "issued"
    <3>1. /\ proof' = "used" /\ QueueOriginal(Intent)
          /\ row' = [state |-> "pending", ev |-> "pending", n |-> 0]
      BY <1>7, <2>2, Zenon DEF CreateOriginalAccess
    <3>2. Waiting' \cup confirmed' = Waiting \cup confirmed \cup {Intent}
      BY <2>1, <3>1, QueueAdds, Zenon
    <3>3. row.state = "none"
      BY <1>0, <2>2, Zenon DEF Seen
    <3>4. row'.state = "pending" /\ row'.ev = "pending" /\ DOMAIN row' = {"state", "ev", "n"}
      BY <3>1, Zenon
    <3>5. Evidence'
      BY <1>0, <2>1, <3>2, <3>4, Zenon DEF Evidence, Terminal
    <3>6. Moves
      BY <2>1, <3>3, <3>4, Zenon DEF Moves, Fresh
    <3>7. QED
      BY <1>1, <1>3, <1>5, <2>1, <3>1, <3>2, <3>4, <3>5, <3>6, Elsewhere, Zenon
  <2>3. CASE ~(OriginalPrincipal /\ proof = "issued")
    <3>1. UNCHANGED db /\ proof' = proof
      BY <1>7, <2>1, <2>3, Zenon DEF CreateOriginalAccess, db
    <3>2. QED
      BY <1>1, <1>3, <1>5, <2>1, <3>1, Still, Zenon
  <2>4. QED
    BY <2>2, <2>3, Zenon
<1>8. CASE PreserveIntent(q)
  <2>1. UNCHANGED db /\ proof' = proof /\ archive \subseteq archive'
        /\ archive' \subseteq archive \cup {Intent}
    BY <1>8, Zenon DEF PreserveIntent, PreserveOriginal
  <2>2. req'[q] = "authorize" => Intent \in archive'
    <3>1. PICK ok \in BOOLEAN :
            /\ PreserveOriginal(Intent, ok)
            /\ ReqGoes(q, IF ok /\ time < ExpiredAt THEN "authorize" ELSE "done")
      BY <1>8, Zenon DEF PreserveIntent
    <3>2. CASE ok
      BY <3>1, <3>2, Zenon DEF PreserveOriginal
    <3>3. CASE ~ok
      BY <1>3, <3>1, <3>3, Zenon
    <3>4. QED
      BY <3>2, <3>3, Zenon
  <2>3. QED
    BY <1>1, <1>3, <1>5, <2>1, <2>2, Still, Zenon
<1>9. CASE AuthorizeOriginalAccess(q)
  <2>1. archive' = archive /\ proof' = proof /\ req'[q] # "authorize" /\ Intent \in archive
    BY <1>0, <1>3, <1>9, Zenon DEF AuthorizeOriginalAccess, Seen
  <2>2. CASE row.state = "pending" /\ OriginalPrincipal /\ CanConfirm(Intent)
    <3>1. PICK base : base = [row EXCEPT !.state = "authorized"]
      BY Zenon
    <3>2. DOMAIN base = {"state", "ev", "n"} /\ base.state = "authorized" /\ base.ev = row.ev
      BY <1>0, <3>1, Zenon DEF Shape
    <3>3. ConfirmOriginal(Intent, base)
      BY <1>9, <2>2, <3>1, Zenon DEF AuthorizeOriginalAccess
    <3>4. /\ Evidence' /\ Moves /\ DOMAIN row' = {"state", "ev", "n"}
          /\ Waiting' \cup confirmed' \subseteq Waiting \cup confirmed \cup {Intent}
      BY <1>0, <2>1, <2>2, <3>2, <3>3, ConfirmKeeps, Zenon
    <3>5. proof' = "used"
      BY <1>0, <2>1, <2>2, Zenon DEF Seen
    <3>6. QED
      BY <1>1, <1>3, <1>5, <2>1, <3>4, <3>5, Elsewhere, Zenon
  <2>3. CASE ~(row.state = "pending" /\ OriginalPrincipal /\ CanConfirm(Intent))
    <3>1. UNCHANGED db
      BY <1>9, <2>3, Zenon DEF AuthorizeOriginalAccess
    <3>2. QED
      BY <1>1, <1>3, <1>5, <2>1, <3>1, Still, Zenon
  <2>4. QED
    BY <2>2, <2>3, Zenon
<1>10. QED
  BY <1>6, <1>7, <1>8, <1>9, Zenon DEF Request

\* The second factor, the loss of authority and the clock.
LEMMA OutsideKeeps ==
    ASSUME AccessInv, HandleOriginalStepup \/ Revoke \/ Tick
    PROVE  AccessInv'
<1>1. /\ dl' = dl /\ sent' = sent /\ worker' = worker /\ req' = req /\ archive' = archive
      /\ UNCHANGED db /\ (proof' = proof \/ proof = "none")
  BY Zenon DEF HandleOriginalStepup, Revoke, Tick
<1>2. /\ req' = [q \in Requests |-> req'[q]]
      /\ \A q \in Requests : req'[q] = "authorize" => Intent \in archive'
  BY <1>1, Zenon DEF AccessInv, Shape, Seen
<1>3. Handles(Intent)
  BY <1>1, <1>2, Still, Zenon
<1>4. QED
  BY <1>1, <1>3, Plain, QuietStep, Zenon

-----------------------------------------------------------------------------
(* The download *)

\* A step of a download that sends nothing and lets nobody in.
LEMMA DownloadGoes ==
    ASSUME AccessInv, NEW r, Handles(r), Truth(r)',
           NEW d \in Downloads, NEW x, dl' = [dl EXCEPT ![d] = x], sent' = sent,
           DOMAIN x = {"pc", "now", "rec"},
           Past(d) => x.pc = "over" \/ (x.pc \in Writing /\ x.rec # Started),
           x.pc \in {"idle", "consume", "over"} \/ Taken(d),
           x.pc \in {"check", "open", "send"} => Started \in archive',
           sent[d] > 0 => x.pc \in {"send", "over"} \/ (x.pc \in Writing /\ x.rec # Started),
           x.pc \in Writing =>
              \/ x.rec = Started
              \/ /\ \E s \in {"completed", "interrupted", "unconfirmed"} :
                       x.rec = Result(s, sent[d], "handler")
                 /\ x.rec.state = "completed" => sent[d] = Bytes,
           x.pc = "confirm" => x.rec \in archive'
    PROVE  AccessInv'
<1>0. Shape /\ Own(d)
  BY Zenon DEF AccessInv, Lone
<1>1. dl'[d] = x
  BY <1>0, Zenon DEF Shape
<1>2. Past(d)' <=> x.pc = "over" \/ (x.pc \in Writing /\ x.rec # Started)
  BY <1>1, Zenon DEF Past, Started, Record
<1>3. sent[d] > 0 => Taken(d)
  BY Zenon DEF Taken
<1>4. Taken(d)' => Taken(d)
  BY <1>1, <1>3, Zenon DEF Taken
<1>5. Own(d)'
  <2>1. Taken(d)' => ~Fresh' /\ row'.state # "expired" /\ Intent \in archive'
    BY <1>0, <1>4, Zenon DEF Own, Handles, Moves, Fresh
  <2>2. x.pc \in {"check", "open", "send"} \/ sent[d] > 0 => Started \in archive'
    BY <1>0, Zenon DEF Own, Handles, Moves
  <2>3. sent[d] > 0 => x.pc = "send" \/ Past(d)'
    BY <1>2, Zenon
  <2>4. QED
    BY <1>1, <2>1, <2>2, <2>3, Zenon DEF Own, Started, Result, Record
<1>6. sent' \in [Downloads -> 0 .. Bytes] /\ \A e \in Downloads : sent'[e] = sent[e]
  BY <1>0, Zenon DEF Shape
<1>7. QED
  BY <1>2, <1>4, <1>5, <1>6, DownloadStep, Zenon

\* What a download writes is true of it: it sends no more.
LEMMA SaysTrue ==
    ASSUME AccessInv, Moves, NEW d \in Downloads, dl[d].pc \in Writing,
           NEW r, r = dl[d].rec, r # Started => Past(d)',
           sent' = sent, \A e \in Downloads \ {d} : dl'[e] = dl[e]
    PROVE  Truth(r)'
<1>0. Own(d) /\ Taken(d)
  BY Zenon DEF AccessInv, Lone, Taken, Writing
<1>1. CASE r = Started
  BY <1>1, Plain, Zenon
<1>2. CASE r # Started
  <2>1. /\ r.state \in {"completed", "interrupted", "unconfirmed"} /\ r.n = sent[d]
        /\ r.state = "completed" => sent[d] = Bytes
    BY <1>0, <1>2 DEF Own, Result, Record
  <2>2. ~Fresh'
    BY <1>0, Zenon DEF Own, Moves
  <2>3. \A e \in Downloads : Taken(e)' => e = d
    <3>1. ASSUME NEW e \in Downloads, Taken(e)', e # d PROVE FALSE
      <4>1. Taken(e)
        BY <3>1, Zenon DEF Taken
      <4>2. QED
        BY <1>0, <3>1, <4>1, Zenon DEF AccessInv, Lone
    <3>2. QED
      BY <3>1, Zenon
  <2>4. QED
    BY <1>2, <2>1, <2>2, <2>3, Zenon DEF Truth
<1>3. QED
  BY <1>1, <1>2, Zenon

\* A step of a download that leaves the store and the archive alone.
LEMMA AloneHandles ==
    ASSUME AccessInv, UNCHANGED <<proof, req, row, queue, confirmed, archive, worker>>
    PROVE  Handles(Intent)
<1>1. /\ req' = [q \in Requests |-> req'[q]]
      /\ \A q \in Requests : req'[q] = "authorize" => Intent \in archive'
  BY Zenon DEF AccessInv, Shape, Seen
<1>2. QED
  BY <1>1, Still, Zenon DEF db

\* The request for a download, and its one use of the permit.
LEMMA ConsumeKeeps ==
    ASSUME AccessInv, NEW d \in Downloads, HandleOriginalDownload(d) \/ ConsumeOriginalAccess(d)
    PROVE  AccessInv'
<1>0. Shape /\ Own(d) /\ Evidence /\ Seen
  BY Zenon DEF AccessInv, Lone
<1>1. ~Past(d) /\ sent' = sent /\ sent[d] \in Nat
  BY <1>0 DEF HandleOriginalDownload, ConsumeOriginalAccess, Past, Writing, Shape
<1>2. ~(sent[d] > 0)
  BY <1>0, <1>1, Zenon DEF Own, HandleOriginalDownload, ConsumeOriginalAccess
<1>3. CASE HandleOriginalDownload(d)
  <2>1. Handles(Intent)
    BY <1>3, AloneHandles, Zenon DEF HandleOriginalDownload, db
  <2>2. PICK x : x = [NoDownload EXCEPT !.pc = "consume", !.now = time]
    BY Zenon
  <2>3. dl' = [dl EXCEPT ![d] = x] /\ x.pc = "consume" /\ DOMAIN x = {"pc", "now", "rec"}
    BY <1>3, <2>2, Zenon DEF HandleOriginalDownload, DlGoes, NoDownload
  <2>4. QED
    BY <1>1, <1>2, <2>1, <2>3, Plain, DownloadGoes, Zenon DEF Writing
<1>4. CASE ConsumeOriginalAccess(d) /\ Consumable /\ dl[d].now < ExpiredAt /\ OriginalPrincipal
  <2>1. /\ row' = [row EXCEPT !.state = "started", !.ev = "pending"] /\ To(d, "resolve")
        /\ UNCHANGED <<proof, req, queue, confirmed, archive, worker>>
    BY <1>4, Zenon DEF ConsumeOriginalAccess
  <2>2. row.state = "authorized" /\ Intent \in archive
    BY <1>0, <1>4, Zenon DEF Consumable, Evidence
  <2>3. row'.state = "started" /\ row'.ev = "pending" /\ DOMAIN row' = {"state", "ev", "n"}
    BY <1>0, <2>1, Zenon DEF Shape
  <2>4. Waiting' = Waiting
    BY <2>1, Zenon DEF Waiting
  <2>5. row.ev # "permanent" => Intent \in Waiting \cup confirmed
    BY <1>0, <2>2, Zenon DEF Evidence
  <2>6. row.ev # "permanent"
    BY <1>0, <2>2, Zenon DEF Evidence
  <2>7. Evidence'
    BY <1>0, <2>1, <2>3, <2>4, <2>5, <2>6, Zenon DEF Evidence, Terminal
  <2>8. Moves
    BY <2>1, <2>2, <2>3, Zenon DEF Moves, Fresh
  <2>9. /\ req' = [q \in Requests |-> req'[q]]
        /\ \A q \in Requests : req'[q] = "authorize" => Intent \in archive'
    BY <1>0, <2>1, Zenon DEF Shape, Seen
  <2>10. proof' = "used"
    BY <1>0, <2>1, <2>2, Zenon DEF Seen
  <2>11. Handles(Intent)
    BY <2>1, <2>3, <2>4, <2>7, <2>8, <2>9, <2>10, Elsewhere, Zenon
  <2>12. PICK x : x = [NoDownload EXCEPT !.pc = "resolve", !.rec = dl[d].rec]
    BY Zenon
  <2>13. dl' = [dl EXCEPT ![d] = x] /\ x.pc = "resolve" /\ DOMAIN x = {"pc", "now", "rec"}
    BY <2>1, <2>12, Zenon DEF To, DlGoes, NoDownload
  <2>14. dl'[d] = x
    BY <1>0, <2>13, Zenon DEF Shape
  <2>15. Own(d)'
    BY <1>1, <1>2, <2>1, <2>2, <2>3, <2>13, <2>14, Zenon DEF Own, Fresh, Writing
  <2>16. sent' \in [Downloads -> 0 .. Bytes] /\ \A e \in Downloads : sent'[e] = sent[e]
    BY <1>0, <1>1, Zenon DEF Shape
  <2>17. QED
    BY <1>1, <2>2, <2>11, <2>13, <2>15, <2>16, Plain, DownloadStep, Zenon
<1>5. CASE /\ ConsumeOriginalAccess(d)
           /\ ~(Consumable /\ dl[d].now < ExpiredAt /\ OriginalPrincipal)
  <2>1. To(d, "over") /\ UNCHANGED <<proof, req, row, queue, confirmed, archive, worker>>
    BY <1>5, Zenon DEF ConsumeOriginalAccess
  <2>2. Handles(Intent)
    BY <2>1, AloneHandles, Zenon
  <2>3. PICK x : x = [NoDownload EXCEPT !.pc = "over", !.rec = Intent]
    BY Zenon
  <2>4. dl' = [dl EXCEPT ![d] = x] /\ x.pc = "over" /\ DOMAIN x = {"pc", "now", "rec"}
    BY <2>1, <2>3, Zenon DEF To, DlGoes, NoDownload
  <2>5. QED
    BY <1>1, <2>2, <2>4, Plain, DownloadGoes, Zenon DEF Writing
<1>6. QED
  BY <1>3, <1>4, <1>5, Zenon

\* Recording the outcome, or the gap.
LEMMA RecordKeeps ==
    ASSUME AccessInv, NEW d \in Downloads, RecordDelivery(d) \/ MarkDelivery(d)
    PROVE  AccessInv'
<1>0. Shape /\ Own(d) /\ Evidence /\ Seen
  BY Zenon DEF AccessInv, Lone
<1>1. /\ sent' = sent /\ archive' = archive /\ worker' = worker /\ req' = req /\ proof' = proof
      /\ dl[d].pc \in {"record", "mark"}
  BY Zenon DEF RecordDelivery, MarkDelivery
<1>2. /\ req' = [q \in Requests |-> req'[q]]
      /\ \A q \in Requests : req'[q] = "authorize" => Intent \in archive'
  BY <1>0, <1>1, Zenon DEF Shape, Seen
<1>3. PICK r : r = dl[d].rec
  BY Zenon
<1>4. /\ Taken(d)
      /\ \/ r = Started
         \/ /\ \E s \in {"completed", "interrupted", "unconfirmed"} :
                  r = Result(s, sent[d], "handler")
            /\ r.state = "completed" => sent[d] = Bytes
      /\ Past(d) <=> r # Started
      /\ sent[d] > 0 => r # Started
  BY <1>0, <1>1, <1>3, Zenon DEF Own, Past, Taken, Writing
<1>5. CASE RecordDelivery(d) /\ Accepts(r)
  <2>1. RecordOriginalOutcome(r) /\ To(d, "preserve")
    BY <1>3, <1>5, Zenon DEF RecordDelivery
  <2>2. PICK x : x = [NoDownload EXCEPT !.pc = "preserve", !.rec = dl[d].rec]
    BY Zenon
  <2>3. /\ dl' = [dl EXCEPT ![d] = x] /\ x.pc = "preserve" /\ x.rec = r
        /\ DOMAIN x = {"pc", "now", "rec"}
    BY <1>3, <2>1, <2>2, Zenon DEF To, DlGoes, NoDownload
  <2>4. \/ r = Started
        \/ /\ r.state \in Terminal
           /\ \E by \in {"handler", "sweep"} : r = Result(r.state, r.n, by)
    BY <1>4 DEF Terminal, Result, Record
  <2>5. /\ Evidence' /\ Moves /\ DOMAIN row' = {"state", "ev", "n"}
        /\ Waiting' \cup confirmed' \subseteq Waiting \cup confirmed \cup {r}
    BY <1>0, <1>1, <2>1, <2>4, OutcomeKeeps, Zenon
  <2>6. proof' = "used"
    BY <1>0, <1>1, <1>5, Zenon DEF Seen, Accepts
  <2>7. Handles(r)
    BY <1>1, <1>2, <2>5, <2>6, Elsewhere, Zenon
  <2>8. Truth(r)'
    <3>1. \A e \in Downloads \ {d} : dl'[e] = dl[e]
      BY <1>0, <2>3, Zenon DEF Shape
    <3>2. dl'[d] = x
      BY <1>0, <2>3, Zenon DEF Shape
    <3>3. r # Started => Past(d)'
      BY <2>3, <3>2, Zenon DEF Past, Writing, Started, Record
    <3>4. dl[d].pc \in Writing
      BY <1>1, Zenon DEF Writing
    <3>5. QED
      BY <1>1, <1>3, <2>5, <3>1, <3>3, <3>4, SaysTrue, Zenon
  <2>9. x.pc \in Writing /\ x.pc \notin {"check", "open", "send", "confirm"}
    BY <2>3, Zenon DEF Writing
  <2>10. QED
    BY <1>1, <1>4, <2>3, <2>7, <2>8, <2>9, DownloadGoes, Zenon
<1>6. CASE RecordDelivery(d) /\ ~Accepts(r)
  <2>1. To(d, "mark") /\ UNCHANGED <<row, queue, confirmed>>
    BY <1>3, <1>6, Zenon DEF RecordDelivery, db
  <2>2. PICK x : x = [NoDownload EXCEPT !.pc = "mark", !.rec = dl[d].rec]
    BY Zenon
  <2>3. /\ dl' = [dl EXCEPT ![d] = x] /\ x.pc = "mark" /\ x.rec = r
        /\ DOMAIN x = {"pc", "now", "rec"}
    BY <1>3, <2>1, <2>2, Zenon DEF To, DlGoes, NoDownload
  <2>4. Handles(Intent)
    BY <1>1, <2>1, AloneHandles, Zenon
  <2>5. x.pc \in Writing /\ x.pc \notin {"check", "open", "send", "confirm"}
    BY <2>3, Zenon DEF Writing
  <2>6. QED
    BY <1>1, <1>4, <2>3, <2>4, <2>5, Plain, DownloadGoes, Zenon
<1>7. CASE MarkDelivery(d)
  <2>1. /\ MarkOriginalPermanent
        /\ IF r = Started THEN Ends(d, "unconfirmed") ELSE To(d, "over")
    BY <1>3, <1>7, Zenon DEF MarkDelivery
  <2>2. /\ Evidence' /\ Moves /\ DOMAIN row' = {"state", "ev", "n"}
        /\ Waiting' \cup confirmed' \subseteq Waiting \cup confirmed \cup {Intent}
    BY <1>0, <1>1, <2>1, MarkKeeps, Zenon
  <2>3. proof' # "used" => row'.state = "none" /\ row'.ev = "none"
    BY <1>0, <1>1, <2>1, Zenon DEF Seen, MarkOriginalPermanent
  <2>4. Handles(Intent)
    BY <1>1, <1>2, <2>2, <2>3, Elsewhere, Zenon
  <2>5. CASE r = Started
    <3>1. PICK x : x = [NoDownload EXCEPT !.pc = "record",
                          !.rec = Result("unconfirmed", sent[d], "handler")]
      BY Zenon
    <3>2. /\ dl' = [dl EXCEPT ![d] = x] /\ x.pc = "record" /\ DOMAIN x = {"pc", "now", "rec"}
          /\ x.rec = Result("unconfirmed", sent[d], "handler")
      BY <2>1, <2>5, <3>1, Zenon DEF Ends, Report, DlGoes, NoDownload
    <3>3. x.rec # Started /\ x.rec.state = "unconfirmed" /\ x.pc \in Writing
      BY <3>2 DEF Result, Started, Record, Writing
    <3>4. QED
      BY <1>1, <1>4, <2>4, <3>2, <3>3, Plain, DownloadGoes, Zenon
  <2>6. CASE r # Started
    <3>1. PICK x : x = [NoDownload EXCEPT !.pc = "over", !.rec = Intent]
      BY Zenon
    <3>2. dl' = [dl EXCEPT ![d] = x] /\ x.pc = "over" /\ DOMAIN x = {"pc", "now", "rec"}
      BY <2>1, <2>6, <3>1, Zenon DEF To, DlGoes, NoDownload
    <3>3. x.pc \notin Writing
      BY <3>2, Zenon DEF Writing
    <3>4. QED
      BY <1>1, <2>4, <3>2, <3>3, Plain, DownloadGoes, Zenon
  <2>7. QED
    BY <2>5, <2>6, Zenon
<1>8. QED
  BY <1>5, <1>6, <1>7, Zenon

\* Preserving the record and confirming it.
LEMMA ReceiptKeeps ==
    ASSUME AccessInv, NEW d \in Downloads, PreserveDelivery(d) \/ ConfirmDelivery(d)
    PROVE  AccessInv'
<1>0. Shape /\ Own(d) /\ Evidence /\ Seen
  BY Zenon DEF AccessInv, Lone
<1>1. /\ sent' = sent /\ worker' = worker /\ req' = req /\ proof' = proof
      /\ dl[d].pc \in {"preserve", "confirm"}
  BY Zenon DEF PreserveDelivery, ConfirmDelivery
<1>2. PICK r : r = dl[d].rec
  BY Zenon
<1>3. /\ Taken(d) /\ dl[d].pc \in Writing
      /\ \/ r = Started
         \/ /\ \E s \in {"completed", "interrupted", "unconfirmed"} :
                  r = Result(s, sent[d], "handler")
            /\ r.state = "completed" => sent[d] = Bytes
      /\ Past(d) <=> r # Started
      /\ sent[d] > 0 => r # Started
  BY <1>0, <1>1, <1>2, Zenon DEF Own, Past, Taken, Writing
<1>4. /\ Handles(r)
      /\ dl[d].pc = "confirm" => r \in archive
  <2>1. CASE PreserveDelivery(d)
    <3>1. /\ UNCHANGED db /\ archive \subseteq archive' /\ archive' \subseteq archive \cup {r}
          /\ dl[d].pc # "confirm"
      BY <1>2, <2>1, Zenon DEF PreserveDelivery, PreserveOriginal
    <3>2. /\ req' = [q \in Requests |-> req'[q]]
          /\ \A q \in Requests : req'[q] = "authorize" => Intent \in archive'
      BY <1>0, <1>1, <3>1, Zenon DEF Shape, Seen
    <3>3. QED
      BY <1>1, <3>1, <3>2, Still, Zenon
  <2>2. CASE ConfirmDelivery(d)
    <3>1. archive' = archive /\ r \in archive
      BY <1>0, <1>2, <2>2, Zenon DEF ConfirmDelivery, Own
    <3>2. /\ req' = [q \in Requests |-> req'[q]]
          /\ \A q \in Requests : req'[q] = "authorize" => Intent \in archive'
      BY <1>0, <1>1, <3>1, Zenon DEF Shape, Seen
    <3>3. CASE CanConfirm(r)
      <4>1. PICK base : base = row
        BY Zenon
      <4>2. ConfirmOriginal(r, base) /\ DOMAIN base = {"state", "ev", "n"}
        BY <1>0, <1>2, <2>2, <3>3, <4>1, Zenon DEF ConfirmDelivery, Shape
      <4>3. /\ Evidence' /\ Moves /\ DOMAIN row' = {"state", "ev", "n"}
            /\ Waiting' \cup confirmed' \subseteq Waiting \cup confirmed \cup {r}
        BY <1>0, <3>1, <3>3, <4>1, <4>2, ConfirmKeeps, Zenon
      <4>4. proof' # "used" => row'.state = "none" /\ row'.ev = "none"
        BY <1>0, <1>1, <4>1, <4>2, Zenon DEF Seen, ConfirmOriginal, Settled, Terminal
      <4>5. QED
        BY <1>1, <3>1, <3>2, <4>3, <4>4, Elsewhere, Zenon
    <3>4. CASE ~CanConfirm(r)
      <4>1. UNCHANGED db
        BY <1>2, <2>2, <3>4, Zenon DEF ConfirmDelivery
      <4>2. QED
        BY <1>1, <3>1, <3>2, <4>1, Still, Zenon
    <3>5. QED
      BY <3>3, <3>4, Zenon
  <2>3. QED
    BY <2>1, <2>2, Zenon
<1>5. \/ To(d, "confirm") /\ r \in archive'
      \/ r # Started /\ To(d, "over")
      \/ r = Started /\ To(d, "check") /\ Started \in archive
      \/ r = Started /\ Ends(d, "unconfirmed")
  <2>1. CASE PreserveDelivery(d)
    BY <1>2, <2>1, Zenon DEF PreserveDelivery, PreserveOriginal
  <2>2. CASE ConfirmDelivery(d)
    BY <1>2, <1>4, <2>2, Zenon DEF ConfirmDelivery, AfterStart
  <2>3. QED
    BY <2>1, <2>2, Zenon
<1>6. ASSUME NEW x, dl' = [dl EXCEPT ![d] = x], DOMAIN x = {"pc", "now", "rec"},
             \/ x.pc = "confirm" /\ x.rec = r /\ r \in archive'
             \/ x.pc = "over" /\ r # Started
             \/ x.pc = "check" /\ r = Started /\ Started \in archive
             \/ x.pc = "record" /\ r = Started /\ x.rec = Result("unconfirmed", sent[d], "handler")
      PROVE  AccessInv'
  <2>1. x.rec = Result("unconfirmed", sent[d], "handler") =>
          x.rec # Started /\ x.rec.state = "unconfirmed"
    BY DEF Result, Started, Record
  <2>2. dl'[d] = x /\ \A e \in Downloads \ {d} : dl'[e] = dl[e]
    BY <1>0, <1>6, Zenon DEF Shape
  <2>3. r # Started => Past(d)'
    BY <1>6, <2>2, Zenon DEF Past, Writing, Started, Record
  <2>4. Truth(r)'
    <3>1. Moves
      BY <1>4, Zenon DEF Handles
    <3>2. QED
      BY <1>1, <1>2, <1>3, <2>2, <2>3, <3>1, SaysTrue, Zenon
  <2>5. Started \in archive => Started \in archive'
    BY <1>4, Zenon DEF Handles, Moves
  <2>6. QED
    BY <1>1, <1>3, <1>4, <1>6, <2>1, <2>4, <2>5, DownloadGoes, Zenon DEF Writing
<1>7. ASSUME NEW pc, To(d, pc)
      PROVE  \E x : /\ dl' = [dl EXCEPT ![d] = x] /\ DOMAIN x = {"pc", "now", "rec"} /\ x.pc = pc
                    /\ x.rec = IF pc = "over" THEN Intent ELSE r
  <2>1. PICK x : x = [NoDownload EXCEPT !.pc = pc,
                        !.rec = IF pc = "over" THEN Intent ELSE dl[d].rec]
    BY Zenon
  <2>2. dl' = [dl EXCEPT ![d] = x]
    BY <1>7, <2>1, Zenon DEF To, DlGoes
  <2>3. /\ DOMAIN x = {"pc", "now", "rec"} /\ x.pc = pc
        /\ x.rec = IF pc = "over" THEN Intent ELSE r
    BY <1>2, <2>1, Zenon DEF NoDownload
  <2>4. QED
    BY <2>2, <2>3, Zenon
<1>8. ASSUME Ends(d, "unconfirmed")
      PROVE  \E x : /\ dl' = [dl EXCEPT ![d] = x] /\ DOMAIN x = {"pc", "now", "rec"}
                    /\ x.pc = "record" /\ x.rec = Result("unconfirmed", sent[d], "handler")
  <2>1. PICK x : x = [NoDownload EXCEPT !.pc = "record",
                        !.rec = Result("unconfirmed", sent[d], "handler")]
    BY Zenon
  <2>2. dl' = [dl EXCEPT ![d] = x]
    BY <1>8, <2>1, Zenon DEF Ends, Report, DlGoes
  <2>3. /\ DOMAIN x = {"pc", "now", "rec"} /\ x.pc = "record"
        /\ x.rec = Result("unconfirmed", sent[d], "handler")
    BY <2>1, Zenon DEF NoDownload
  <2>4. QED
    BY <2>2, <2>3, Zenon
<1>9. QED
  BY <1>5, <1>6, <1>7, <1>8

\* Resolving the archive, reading and sending.
LEMMA SendKeeps ==
    ASSUME AccessInv, NEW d \in Downloads,
           ResolveArchive(d) \/ ReadOriginal(d) \/ SendPiece(d) \/ SendEnds(d)
    PROVE  AccessInv'
<1>0. Shape /\ Own(d) /\ Evidence /\ Seen
  BY Zenon DEF AccessInv, Lone
<1>1. /\ UNCHANGED <<proof, req, row, queue, confirmed, archive, worker>>
      /\ dl[d].pc \in {"resolve", "check", "open", "send"}
  BY Zenon DEF ResolveArchive, ReadOriginal, SendPiece, SendEnds, db
<1>2. Handles(Intent)
  BY <1>1, AloneHandles, Zenon
<1>3. /\ Taken(d) /\ ~Past(d)
      /\ sent[d] > 0 => dl[d].pc = "send"
      /\ dl[d].pc # "resolve" => Started \in archive'
  BY <1>0, <1>1, Zenon DEF Own, Past, Taken, Writing
<1>4. ASSUME NEW s \in {"completed", "interrupted", "unconfirmed"}, Ends(d, s), sent' = sent,
             s = "completed" => sent[d] = Bytes
      PROVE  AccessInv'
  <2>1. PICK x : x = [NoDownload EXCEPT !.pc = "record", !.rec = Result(s, sent[d], "handler")]
    BY Zenon
  <2>2. dl' = [dl EXCEPT ![d] = x]
    BY <1>4, <2>1, Zenon DEF Ends, Report, DlGoes
  <2>3. /\ DOMAIN x = {"pc", "now", "rec"} /\ x.pc = "record"
        /\ x.rec = Result(s, sent[d], "handler")
    BY <2>1, Zenon DEF NoDownload
  <2>4. x.rec # Started /\ x.rec.state = s /\ x.pc \in Writing
    BY <2>3 DEF Result, Started, Record, Writing
  <2>5. QED
    BY <1>2, <1>3, <1>4, <2>2, <2>3, <2>4, Plain, DownloadGoes, Zenon
<1>5. CASE ResolveArchive(d) /\ Report(d, Started)
  <2>1. PICK x : x = [NoDownload EXCEPT !.pc = "record", !.rec = Started]
    BY Zenon
  <2>2. dl' = [dl EXCEPT ![d] = x] /\ sent' = sent /\ dl[d].pc = "resolve"
    BY <1>5, <2>1, Zenon DEF ResolveArchive, Report, DlGoes
  <2>3. DOMAIN x = {"pc", "now", "rec"} /\ x.pc = "record" /\ x.rec = Started
    BY <2>1, Zenon DEF NoDownload
  <2>4. QED
    BY <1>2, <1>3, <2>2, <2>3, Plain, DownloadGoes, Zenon
<1>6. CASE ReadOriginal(d) /\ To(d, IF dl[d].pc = "check" THEN "open" ELSE "send")
  <2>1. PICK pc \in {"open", "send"} : To(d, pc)
    BY <1>6, Zenon
  <2>2. PICK x : x = [NoDownload EXCEPT !.pc = pc, !.rec = dl[d].rec]
    BY Zenon
  <2>3. dl' = [dl EXCEPT ![d] = x] /\ sent' = sent /\ dl[d].pc \in {"check", "open"}
    BY <1>6, <2>1, <2>2, Zenon DEF ReadOriginal, To, DlGoes
  <2>4. DOMAIN x = {"pc", "now", "rec"} /\ x.pc = pc /\ x.pc \notin Writing
    BY <2>1, <2>2, Zenon DEF NoDownload, Writing
  <2>5. QED
    BY <1>2, <1>3, <2>1, <2>3, <2>4, Plain, DownloadGoes, Zenon
<1>7. CASE SendPiece(d) /\ dl' = dl
  <2>1. PICK x : x = dl[d]
    BY Zenon
  <2>2. /\ dl' = [dl EXCEPT ![d] = x] /\ DOMAIN x = {"pc", "now", "rec"} /\ x.pc = "send"
        /\ dl'[d] = x
    BY <1>0, <1>7, <2>1, Zenon DEF SendPiece, Shape
  <2>3. /\ sent[d] < Bytes /\ sent' = [sent EXCEPT ![d] = @ + 1]
        \/ sent' = sent
    BY <1>7, Zenon DEF SendPiece
  <2>4. sent' \in [Downloads -> 0 .. Bytes] /\ \A e \in Downloads \ {d} : sent'[e] = sent[e]
    BY <1>0, <2>3 DEF Shape
  <2>5. Own(d)'
    BY <1>0, <1>1, <1>3, <2>1, <2>2, Zenon DEF Own, Taken, Fresh, Writing
  <2>6. QED
    BY <1>2, <1>3, <2>2, <2>4, <2>5, Plain, DownloadStep, Zenon
<1>8. QED
  <2>1. CASE ResolveArchive(d)
    BY <1>4, <1>5, <2>1, Zenon DEF ResolveArchive
  <2>2. CASE ReadOriginal(d)
    BY <1>4, <1>6, <2>2, Zenon DEF ReadOriginal
  <2>3. CASE SendPiece(d)
    BY <1>4, <1>7, <2>3, Zenon DEF SendPiece
  <2>4. CASE SendEnds(d)
    BY <1>4, <2>4, Zenon DEF SendEnds
  <2>5. QED
    BY <2>1, <2>2, <2>3, <2>4, Zenon

-----------------------------------------------------------------------------
(* Recovery and restart *)

\* What remains to be shown of a step of the recovery.
LEMMA RecoveryHandles ==
    ASSUME AccessInv, NEW r, Evidence', Moves, DOMAIN row' = {"state", "ev", "n"},
           archive' \subseteq archive \cup {r},
           Waiting' \cup confirmed' \subseteq Waiting \cup confirmed \cup {r},
           UNCHANGED <<dl, sent, req, proof>>,
           proof # "used" => row'.state = "none" /\ row'.ev = "none",
           DOMAIN worker' = {"pc", "now", "saw", "due", "q"},
           worker'.due \subseteq worker.due \cup queue,
           worker'.q \subseteq worker.q \cup worker.due,
           worker'.pc \in {"preserve", "confirm"} => \E q \in worker'.q : worker'.q = {q},
           worker'.pc = "confirm" => \A q \in worker'.q : q.rec \in archive',
           Truth(r)'
    PROVE  AccessInv'
<1>1. Shape /\ Seen /\ archive \subseteq archive'
  BY Zenon DEF AccessInv, Moves
<1>2. Held' \subseteq Held \cup Waiting
  BY Zenon DEF Held, Waiting
<1>3. req' = [q \in Requests |-> req'[q]]
  BY <1>1, Zenon DEF Shape
<1>4. Seen'
  BY <1>1, Zenon DEF Seen
<1>5. Handles(r)
  BY <1>2, <1>3, <1>4, Zenon DEF Handles
<1>6. QED
  BY <1>5, QuietStep, Zenon

\* The sweep and the worker's reading of the queue.
LEMMA SweepKeeps ==
    ASSUME AccessInv, SweepOriginalAccess \/ DueOriginalEvidence
    PROVE  AccessInv'
<1>0. Shape /\ Evidence /\ Seen
  BY Zenon DEF AccessInv
<1>1. UNCHANGED <<dl, sent, req, proof, queue, archive>> /\ Waiting' = Waiting
  BY Zenon DEF SweepOriginalAccess, DueOriginalEvidence, db, Waiting
<1>2. /\ DOMAIN worker' = {"pc", "now", "saw", "due", "q"}
      /\ worker'.due \subseteq worker.due \cup queue /\ worker'.q \subseteq worker.q \cup worker.due
      /\ worker'.pc \notin {"preserve", "confirm"}
  <2>1. CASE SweepOriginalAccess
    BY <2>1, Zenon DEF SweepOriginalAccess, WorkerGoes, Asleep
  <2>2. CASE DueOriginalEvidence
    BY <1>0, <2>2, Zenon DEF DueOriginalEvidence, WorkerGoes, Shape
  <2>3. QED
    BY <2>1, <2>2, Zenon
<1>3. CASE SweepOriginalAccess /\ Removable(time)
  <2>1. row' = [NoRow EXCEPT !.state = "removed"] /\ confirmed' = {}
    BY <1>3, Zenon DEF SweepOriginalAccess
  <2>2. row'.state = "removed" /\ row'.ev = "none" /\ DOMAIN row' = {"state", "ev", "n"}
    BY <2>1, Zenon DEF NoRow
  <2>3. Evidence'
    BY <2>1, <2>2, Zenon DEF Evidence, Terminal
  <2>4. Moves
    BY <1>1, <2>2, Zenon DEF Moves, Fresh
  <2>5. proof = "used"
    BY <1>0, <1>3, Zenon DEF Removable, Seen
  <2>6. QED
    BY <1>1, <1>2, <2>1, <2>2, <2>3, <2>4, <2>5, Plain, RecoveryHandles, Zenon
<1>4. CASE row' = row /\ confirmed' = confirmed
  <2>1. Evidence' /\ Moves
    BY <1>0, <1>1, <1>4, StoreKept, Zenon
  <2>2. DOMAIN row' = {"state", "ev", "n"}
    BY <1>0, <1>4, Zenon DEF Shape
  <2>3. proof # "used" => row'.state = "none" /\ row'.ev = "none"
    BY <1>0, <1>4, Zenon DEF Seen
  <2>4. QED
    BY <1>1, <1>2, <1>4, <2>1, <2>2, <2>3, Plain, RecoveryHandles, Zenon
<1>5. QED
  BY <1>3, <1>4, Zenon DEF SweepOriginalAccess, DueOriginalEvidence, db

\* The worker records an outcome or marks the gap, and goes on to the next record.
LEMMA RecoverKeeps ==
    ASSUME AccessInv, RecoverOutcome \/ RecoverMark \/ RecoverNext
    PROVE  AccessInv'
<1>0. Shape /\ Evidence /\ Seen /\ Lone
  BY Zenon DEF AccessInv
<1>1. UNCHANGED <<dl, sent, req, proof, archive>>
  BY Zenon DEF RecoverOutcome, RecoverMark, RecoverNext
<1>2. /\ DOMAIN worker' = {"pc", "now", "saw", "due", "q"}
      /\ worker'.due \subseteq worker.due \cup queue /\ worker'.q \subseteq worker.q \cup worker.due
      /\ worker'.pc \in {"preserve", "confirm"} => \E q \in worker'.q : worker'.q = {q}
      /\ worker'.pc # "confirm"
  <2>1. CASE RecoverOutcome \/ RecoverMark
    BY <1>0, <2>1, Zenon DEF RecoverOutcome, RecoverMark, WorkerGoes, Shape
  <2>2. CASE RecoverNext
    <3>1. worker.pc = "next" /\ DOMAIN worker = {"pc", "now", "saw", "due", "q"}
      BY <1>0, <2>2, Zenon DEF RecoverNext, Shape
    <3>2. CASE worker' = Asleep
      BY <3>2, Zenon DEF Asleep
    <3>3. CASE \E q \in worker.due : worker' = [worker EXCEPT !.due = worker.due \ {q}]
      BY <3>1, <3>3, Zenon
    <3>4. CASE \E q \in worker.due :
                 worker' = [worker EXCEPT !.pc = "preserve", !.due = worker.due \ {q}, !.q = {q}]
      <4>1. PICK q \in worker.due :
              worker' = [worker EXCEPT !.pc = "preserve", !.due = worker.due \ {q}, !.q = {q}]
        BY <3>4, Zenon
      <4>2. /\ DOMAIN worker' = {"pc", "now", "saw", "due", "q"} /\ worker'.pc = "preserve"
            /\ worker'.due = worker.due \ {q} /\ worker'.q = {q}
        BY <3>1, <4>1, Zenon
      <4>3. QED
        BY <4>2, Zenon
    <3>5. QED
      BY <2>2, <3>2, <3>3, <3>4, Zenon DEF RecoverNext, WorkerGoes
  <2>3. QED
    BY <2>1, <2>2, Zenon
<1>3. CASE RecoverOutcome /\ ~UNCHANGED db
  <2>1. PICK r : r = Result(IF worker.saw = "started" THEN "unconfirmed" ELSE "expired", 0, "sweep")
    BY Zenon
  <2>2. RecordOriginalOutcome(r)
    BY <1>3, <2>1, Zenon DEF RecoverOutcome
  <2>3. /\ r.state \in {"unconfirmed", "expired"} /\ r.state \in Terminal
        /\ r = Result(r.state, r.n, "sweep")
    BY <2>1, Zenon DEF Result, Record, Terminal
  <2>4. /\ Evidence' /\ Moves /\ DOMAIN row' = {"state", "ev", "n"}
        /\ Waiting' \cup confirmed' \subseteq Waiting \cup confirmed \cup {r}
        /\ r.state = "expired" => row.state \in {"expired", "pending", "authorized"}
        /\ row'.state \in Terminal
    BY <1>0, <1>1, <2>2, <2>3, OutcomeKeeps, Zenon
  <2>5. proof = "used"
    BY <1>0, <2>2, Zenon DEF Seen, RecordOriginalOutcome, Accepts
  <2>6. Truth(r)'
    <3>1. r.state = "expired" => \A d \in Downloads : ~Taken(d)'
      BY <1>0, <1>1, <2>4, Zenon DEF Lone, Own, Fresh, Taken
    <3>2. ~Fresh'
      BY <2>4, Zenon DEF Fresh, Terminal
    <3>3. QED
      BY <2>3, <3>1, <3>2, Zenon DEF Truth
  <2>7. QED
    BY <1>1, <1>2, <2>4, <2>5, <2>6, RecoveryHandles, Zenon
<1>4. CASE MarkOriginalPermanent
  <2>1. /\ Evidence' /\ Moves /\ DOMAIN row' = {"state", "ev", "n"}
        /\ Waiting' \cup confirmed' \subseteq Waiting \cup confirmed
    BY <1>0, <1>1, <1>4, MarkKeeps, Zenon
  <2>2. proof # "used" => row'.state = "none" /\ row'.ev = "none"
    BY <1>0, <1>4, Zenon DEF Seen, MarkOriginalPermanent
  <2>3. QED
    BY <1>1, <1>2, <2>1, <2>2, Plain, RecoveryHandles, Zenon
<1>5. CASE UNCHANGED db
  <2>1. row' = row /\ queue' = queue /\ confirmed' = confirmed
    BY <1>5, Zenon DEF db
  <2>2. Evidence' /\ Moves /\ Waiting' = Waiting
    BY <1>0, <1>1, <2>1, StoreKept, Zenon
  <2>3. DOMAIN row' = {"state", "ev", "n"}
    BY <1>0, <2>1, Zenon DEF Shape
  <2>4. proof # "used" => row'.state = "none" /\ row'.ev = "none"
    BY <1>0, <2>1, Zenon DEF Seen
  <2>5. QED
    BY <1>1, <1>2, <2>1, <2>2, <2>3, <2>4, Plain, RecoveryHandles, Zenon
<1>6. QED
  BY <1>3, <1>4, <1>5, Zenon DEF RecoverMark, RecoverNext

\* The worker preserves a record again and confirms it.
LEMMA RetryKeeps ==
    ASSUME AccessInv, RecoverPreserve \/ RecoverConfirm
    PROVE  AccessInv'
<1>0. Shape /\ Evidence /\ Seen /\ Told
  BY Zenon DEF AccessInv
<1>1. UNCHANGED <<dl, sent, req, proof>> /\ worker.pc \in {"preserve", "confirm"}
  BY Zenon DEF RecoverPreserve, RecoverConfirm
<1>2. PICK q \in worker.q : worker.q = {q}
  BY <1>0, <1>1, Zenon DEF Seen
<1>3. PICK r : r = q.rec
  BY Zenon
<1>4. Truth(r)
  BY <1>0, <1>2, <1>3, Zenon DEF Told, Known, Held
<1>5. ASSUME Moves PROVE Truth(r)'
  <2>1. \A d \in Downloads : (Taken(d)' => Taken(d)) /\ (Past(d) => Past(d)' /\ sent'[d] = sent[d])
    BY <1>1, Zenon DEF Taken, Past
  <2>2. ~Fresh => ~Fresh'
    BY <1>5, Zenon DEF Moves
  <2>3. QED
    BY <1>4, <2>1, <2>2, TruthStays, Zenon
<1>6. CASE RecoverPreserve
  <2>1. PICK ok \in BOOLEAN :
          /\ PreserveOriginal(r, ok)
          /\ WorkerGoes(IF ok THEN [worker EXCEPT !.pc = "confirm"]
                        ELSE [worker EXCEPT !.pc = "next", !.q = {}])
    BY <1>2, <1>3, <1>6, Zenon DEF RecoverPreserve
  <2>2. row' = row /\ queue' = queue /\ confirmed' = confirmed
    BY <1>6, Zenon DEF RecoverPreserve, db
  <2>3. archive \subseteq archive' /\ archive' \subseteq archive \cup {r}
    BY <2>1, Zenon DEF PreserveOriginal
  <2>4. Evidence' /\ Moves /\ Waiting' = Waiting
    BY <1>0, <2>2, <2>3, StoreKept, Zenon
  <2>5. DOMAIN row' = {"state", "ev", "n"}
    BY <1>0, <2>2, Zenon DEF Shape
  <2>6. proof # "used" => row'.state = "none" /\ row'.ev = "none"
    BY <1>0, <2>2, Zenon DEF Seen
  <2>7. /\ DOMAIN worker' = {"pc", "now", "saw", "due", "q"} /\ worker'.due = worker.due
        /\ worker'.q \subseteq worker.q
        /\ ok => worker'.q = worker.q
        /\ ~ok => worker'.pc = "next"
    BY <1>0, <2>1, Zenon DEF WorkerGoes, Shape
  <2>8. ok => r \in archive'
    BY <2>1, Zenon DEF PreserveOriginal
  <2>9. /\ worker'.pc \in {"preserve", "confirm"} => \E t \in worker'.q : worker'.q = {t}
        /\ worker'.pc = "confirm" => \A t \in worker'.q : t.rec \in archive'
    BY <1>2, <1>3, <2>7, <2>8, Zenon
  <2>10. QED
    BY <1>1, <1>5, <2>2, <2>3, <2>4, <2>5, <2>6, <2>7, <2>9, RecoveryHandles, Zenon
<1>7. CASE RecoverConfirm
  <2>1. /\ IF CanConfirm(r) THEN ConfirmOriginal(r, row) ELSE UNCHANGED db
        /\ worker' = [worker EXCEPT !.pc = "next", !.q = {}]
        /\ archive' = archive /\ r \in archive
    BY <1>0, <1>2, <1>3, <1>7, Zenon DEF RecoverConfirm, WorkerGoes, Seen
  <2>2. /\ DOMAIN worker' = {"pc", "now", "saw", "due", "q"} /\ worker'.due = worker.due
        /\ worker'.q = {} /\ worker'.pc = "next"
    BY <1>0, <2>1, Zenon DEF Shape
  <2>3. PICK base : base = row
    BY Zenon
  <2>4. CASE CanConfirm(r)
    <3>1. ConfirmOriginal(r, base) /\ DOMAIN base = {"state", "ev", "n"}
      BY <1>0, <2>1, <2>3, <2>4, Zenon DEF Shape
    <3>2. /\ Evidence' /\ Moves /\ DOMAIN row' = {"state", "ev", "n"}
          /\ Waiting' \cup confirmed' \subseteq Waiting \cup confirmed \cup {r}
      BY <1>0, <2>1, <2>3, <2>4, <3>1, ConfirmKeeps, Zenon
    <3>3. proof # "used" => row'.state = "none" /\ row'.ev = "none"
      BY <1>0, <2>3, <3>1, Zenon DEF Seen, ConfirmOriginal, Settled, Terminal
    <3>4. QED
      BY <1>1, <1>5, <2>1, <2>2, <3>2, <3>3, RecoveryHandles, Zenon
  <2>5. CASE ~CanConfirm(r)
    <3>1. row' = row /\ queue' = queue /\ confirmed' = confirmed
      BY <2>1, <2>5, Zenon DEF db
    <3>2. Evidence' /\ Moves /\ Waiting' = Waiting
      BY <1>0, <2>1, <3>1, StoreKept, Zenon
    <3>3. DOMAIN row' = {"state", "ev", "n"}
      BY <1>0, <3>1, Zenon DEF Shape
    <3>4. proof # "used" => row'.state = "none" /\ row'.ev = "none"
      BY <1>0, <3>1, Zenon DEF Seen
    <3>5. QED
      BY <1>1, <1>5, <2>1, <2>2, <3>1, <3>2, <3>3, <3>4, RecoveryHandles, Zenon
  <2>6. QED
    BY <2>4, <2>5, Zenon
<1>8. QED
  BY <1>6, <1>7, Zenon

\* The Hub restarts: every download is over, and those that were let in stay so.
LEMMA RestartKeeps ==
    ASSUME AccessInv, Restart
    PROVE  AccessInv'
<1>0. Shape /\ Lone /\ Evidence /\ Seen /\ Told
  BY Zenon DEF AccessInv
<1>1. /\ UNCHANGED <<proof, row, queue, confirmed, archive, sent>> /\ worker' = Asleep
      /\ req' = [q \in Requests |-> IF req[q] \in {"idle", "granted"} THEN req[q] ELSE "done"]
      /\ dl' = [d \in Downloads |-> IF dl[d].pc = "idle" THEN NoDownload
                                    ELSE [NoDownload EXCEPT !.pc = "over"]]
  BY Zenon DEF Restart, db
<1>2. Evidence' /\ Moves /\ Waiting' = Waiting
  BY <1>0, <1>1, StoreKept, Zenon
<1>3. ASSUME NEW d \in Downloads
      PROVE  /\ DOMAIN dl'[d] = {"pc", "now", "rec"}
             /\ dl'[d].pc = IF dl[d].pc = "idle" THEN "idle" ELSE "over"
             /\ Taken(d)' => Taken(d) /\ sent[d] > 0
             /\ Past(d) => Past(d)'
             /\ sent[d] > 0 => Past(d)'
  <2>1. DOMAIN dl'[d] = {"pc", "now", "rec"} /\ dl'[d].pc = IF dl[d].pc = "idle" THEN "idle" ELSE "over"
    BY <1>1, Zenon DEF NoDownload
  <2>2. Own(d) /\ sent'[d] = sent[d]
    BY <1>0, <1>1, Zenon DEF Lone
  <2>3. Taken(d)' => Taken(d) /\ sent[d] > 0
    BY <2>1, <2>2, Zenon DEF Taken
  <2>4. Past(d) => dl[d].pc # "idle"
    BY Zenon DEF Past, Writing
  <2>5. sent[d] > 0 => dl[d].pc # "idle"
    BY <2>2, <2>4, Zenon DEF Own
  <2>6. dl[d].pc # "idle" => Past(d)'
    BY <2>1, Zenon DEF Past
  <2>7. QED
    BY <2>1, <2>3, <2>4, <2>5, <2>6, Zenon
<1>4. Shape'
  <2>1. dl' = [d \in Downloads |-> dl'[d]] /\ req' = [q \in Requests |-> req'[q]]
    BY <1>1, Zenon
  <2>2. DOMAIN worker' = {"pc", "now", "saw", "due", "q"}
    BY <1>1, Zenon DEF Asleep
  <2>3. QED
    BY <1>0, <1>1, <1>3, <2>1, <2>2, Zenon DEF Shape
<1>5. Lone'
  <2>1. ASSUME NEW d \in Downloads PROVE Own(d)'
    <3>1. Own(d) /\ sent'[d] = sent[d] /\ archive' = archive /\ row' = row
      BY <1>0, <1>1, Zenon DEF Lone
    <3>2. dl'[d].pc \in {"idle", "over"}
      BY <1>3, Zenon
    <3>3. Taken(d)' => ~Fresh' /\ row'.state # "expired" /\ Intent \in archive'
      BY <1>3, <3>1, Zenon DEF Own, Fresh
    <3>4. sent[d] > 0 => Started \in archive' /\ Past(d)'
      BY <1>3, <3>1, Zenon DEF Own
    <3>5. QED
      BY <3>1, <3>2, <3>3, <3>4, Zenon DEF Own, Writing
  <2>2. \A d, e \in Downloads : Taken(d)' /\ Taken(e)' => d = e
    BY <1>0, <1>3, Zenon DEF Lone
  <2>3. QED
    BY <2>1, <2>2, Zenon DEF Lone
<1>6. Seen'
  <2>1. worker'.pc = "idle"
    BY <1>1, Zenon DEF Asleep
  <2>2. \A q \in Requests : req'[q] # "authorize"
    BY <1>1, Zenon
  <2>3. QED
    BY <1>0, <1>1, <2>1, <2>2, Zenon DEF Seen
<1>7. Told'
  <2>1. Held' = {}
    BY <1>1, Zenon DEF Held, Asleep
  <2>2. ASSUME NEW r \in Known' PROVE Truth(r)'
    <3>1. Truth(r)
      BY <1>0, <1>1, <1>2, <2>1, Zenon DEF Told, Known
    <3>2. ~Fresh => ~Fresh'
      BY <1>2, Zenon DEF Moves
    <3>3. \A d \in Downloads : /\ Past(d) => Past(d)' /\ sent'[d] = sent[d]
                               /\ Taken(d)' => Taken(d)
      BY <1>1, <1>3, Zenon
    <3>4. QED
      BY <3>1, <3>2, <3>3, TruthStays, Zenon
  <2>3. QED
    BY <2>2, Zenon DEF Told
<1>8. QED
  BY <1>2, <1>4, <1>5, <1>6, <1>7, Zenon DEF AccessInv

-----------------------------------------------------------------------------
(* The theorem *)

\* Nothing was asked for, recorded or sent initially.
LEMMA AccessInit ==
    ASSUME Bytes \in Nat, Init
    PROVE  AccessInv
<1>1. /\ proof = "none" /\ req = [q \in Requests |-> "idle"] /\ row = NoRow /\ queue = {}
      /\ confirmed = {} /\ archive = {} /\ dl = [d \in Downloads |-> NoDownload]
      /\ sent = [d \in Downloads |-> 0] /\ worker = Asleep
  BY Zenon DEF Init
<1>2. row.state = "none" /\ row.ev = "none" /\ DOMAIN row = {"state", "ev", "n"}
  BY <1>1, Zenon DEF NoRow
<1>3. worker.pc = "idle" /\ DOMAIN worker = {"pc", "now", "saw", "due", "q"} /\ Held = {}
  BY <1>1, Zenon DEF Asleep, Held
<1>4. \A d \in Downloads : /\ dl[d].pc = "idle" /\ DOMAIN dl[d] = {"pc", "now", "rec"}
                           /\ sent[d] = 0 /\ ~Taken(d)
  BY <1>1 DEF NoDownload, Taken
<1>5. Shape
  BY <1>1, <1>2, <1>3, <1>4 DEF Shape
<1>6. Lone
  BY <1>4 DEF Lone, Own, Writing
<1>7. Evidence
  BY <1>1, <1>2, Zenon DEF Evidence, Terminal
<1>8. Seen
  BY <1>1, <1>2, <1>3, Zenon DEF Seen
<1>9. Told
  BY <1>1, <1>3, Zenon DEF Told, Known, Waiting
<1>10. QED
  BY <1>5, <1>6, <1>7, <1>8, <1>9, Zenon DEF AccessInv

\* Every step keeps the invariant.
LEMMA AccessKeeps ==
    ASSUME AccessInv, [Next]_vars
    PROVE  AccessInv'
<1>1. CASE UNCHANGED vars
  <2>1. /\ UNCHANGED <<proof, req, row, queue, confirmed, archive, worker>>
        /\ dl' = dl /\ sent' = sent
    BY <1>1, Zenon DEF vars
  <2>2. Handles(Intent)
    BY <2>1, AloneHandles, Zenon
  <2>3. QED
    BY <2>1, <2>2, Plain, QuietStep, Zenon
<1>2. ASSUME NEW d \in Downloads, Download(d) PROVE AccessInv'
  BY <1>2, ConsumeKeeps, RecordKeeps, ReceiptKeeps, SendKeeps, Zenon DEF Download
<1>3. CASE Recovery
  BY <1>3, SweepKeeps, RecoverKeeps, RetryKeeps, Zenon DEF Recovery
<1>4. QED
  BY <1>1, <1>2, <1>3, RequestKeeps, OutsideKeeps, RestartKeeps, Zenon DEF Next

\* The three promises follow from the invariant.
LEMMA AccessPromises ==
    ASSUME AccessInv
    PROVE  ReadIsRecorded /\ ResultIsTrue /\ ConfirmedIsComplete
<1>0. Shape /\ Lone /\ Evidence /\ Told
  BY Zenon DEF AccessInv
<1>1. \A d \in Readers : d \in Downloads /\ Taken(d) /\ {Intent, Started} \subseteq archive
  BY <1>0, Zenon DEF Readers, Taken, Lone, Own
<1>2. \A d, e \in Readers : d = e
  BY <1>0, <1>1, Zenon DEF Lone
<1>3. Cardinality(Readers) <= 1
  <2>1. CASE Readers = {}
    BY <2>1, FS_EmptySet
  <2>2. CASE Readers # {}
    <3>1. PICK d : Readers = {d}
      BY <1>2, <2>2
    <3>2. Cardinality({d}) = 1
      BY FS_Singleton, Zenon
    <3>3. QED
      BY <3>1, <3>2
  <2>3. QED
    BY <2>1, <2>2, Zenon
<1>4. ReadIsRecorded
  BY <1>1, <1>3, Zenon DEF ReadIsRecorded
<1>5. ASSUME NEW r \in archive
      PROVE  /\ r.state = "completed" => \E d \in Downloads : sent[d] = Bytes
             /\ r.state = "interrupted" => \E d \in Downloads : Readers \subseteq {d} /\ r.n = sent[d]
             /\ r.state = "expired" => Readers = {}
  <2>1. Truth(r)
    BY <1>0, Zenon DEF Told, Known
  <2>2. QED
    BY <1>1, <2>1, Zenon DEF Truth
<1>6. ResultIsTrue
  BY <1>5, Zenon DEF ResultIsTrue
<1>7. ConfirmedIsComplete
  BY <1>0, <1>1, Zenon DEF ConfirmedIsComplete, Evidence
<1>8. QED
  BY <1>4, <1>6, <1>7, Zenon

\* One handle serves one download and no byte leaves before intent and start are
\* archived, what the archive says of a read is what happened, and what is shown as
\* confirmed is complete: for every number of requests, downloads, pieces and
\* restarts (ConsumeOriginalAccess, recordOriginalDelivery, RecordOriginalOutcome,
\* confirmOriginal).
THEOREM OriginalsAreAccountedFor ==
    Bytes \in Nat /\ Spec => [](ReadIsRecorded /\ ResultIsTrue /\ ConfirmedIsComplete)
<1>1. Bytes \in Nat /\ Init => AccessInv
  BY AccessInit, Zenon
<1>2. AccessInv /\ [Next]_vars => AccessInv'
  BY AccessKeeps, Zenon
<1>3. AccessInv => ReadIsRecorded /\ ResultIsTrue /\ ConfirmedIsComplete
  BY AccessPromises, Zenon
<1>4. QED
  BY <1>1, <1>2, <1>3, PTL DEF Spec

=============================================================================
