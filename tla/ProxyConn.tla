----------------------------- MODULE ProxyConn ------------------------------
(***************************************************************************)
(* One direction of the byte stream of an application                        *)
(* (proto/applicationproxy/conn.go): the Conn of the side that writes, the   *)
(* RPC, and the Conn of the side that reads.  Calls of Write and CloseWrite  *)
(* put one frame at a time into the slot of the sender, and wait for its     *)
(* result; the owner of the RPC's receive loop delivers frames, one ahead of *)
(* the reader.  Any failure closes a Conn, which cancels the RPC.            *)
(* A frame is its sequence number, the call it is of, and whether it is the  *)
(* end; how many bytes it holds is left out, that a Read may take only a     *)
(* part of them is not.                                                      *)
(***************************************************************************)
EXTENDS Naturals, Sequences

CONSTANTS Writers,   \* calls of Write
          Closer,    \* the call of CloseWrite
          Frames,    \* frames of a Write
          Reads      \* calls of Read that a frame takes

Calls == Writers \cup {Closer}

VARIABLES
  closed,     \* the sides whose Conn is closed
  rpc,        \* the RPC has not been cancelled
  call,       \* the calls: where they are, frames left, the result sent to them
  outgoing,   \* the slot of the sender
  sender,     \* sendLoop: "loop", a frame being sent, "failed", "ended"
  sendSequence, writeEOF,
  wire,       \* frames the RPC has taken
  incoming,   \* the slot of the reader
  receiveSequence, receiveEOF,
  reading,    \* Reads left of the reader's frame, of which call, end seen
  got,        \* the calls whose frames were read, in order
  accepted    \* the calls whose frames were reported as written, in order

writing == <<call, outgoing, sender, sendSequence, writeEOF, accepted>>
receiving == <<incoming, receiveSequence, receiveEOF, reading, got>>
vars == <<closed, rpc, wire, writing, receiving>>
-----------------------------------------------------------------------------
Nothing == <<>>

\* NewConn on both sides.
Init ==
  /\ closed = {} /\ rpc = TRUE /\ wire = <<>>
  /\ call = [w \in Calls |-> [at |-> "idle", left |-> IF w = Closer THEN 1 ELSE Frames,
                              result |-> "none"]]
  /\ outgoing = Nothing /\ sender = [at |-> "loop", frame |-> Nothing]
  /\ sendSequence = 0 /\ writeEOF = FALSE /\ accepted = <<>>
  /\ incoming = Nothing /\ receiveSequence = 0 /\ receiveEOF = FALSE
  /\ reading = [left |-> 0, end |-> FALSE, told |-> "none"] /\ got = <<>>
-----------------------------------------------------------------------------
\* Close: once, and it cancels the RPC.
Close(side) ==
  closed' = closed \cup {side} /\ rpc' = (rpc /\ side \in closed)

\* The RPC is over, or whoever owns a Conn closes it.
CloseConn(side) ==
  /\ side \notin closed /\ Close(side)
  /\ UNCHANGED <<wire, writing, receiving>>

\* writeMu is held from the start of a call to its return.
Locked == \E w \in Calls : call[w].at \in {"frame", "queued"}

Return(w, result) == call' = [call EXCEPT ![w].at = result]

Begin(w) ==
  /\ call[w].at = "idle" /\ ~Locked
  /\ Return(w, IF writeEOF THEN (IF w = Closer THEN "ok" ELSE "failed") ELSE "frame")
  /\ UNCHANGED <<closed, rpc, wire, outgoing, sender, sendSequence, writeEOF, accepted,
                 receiving>>

\* writeFrame puts the frame into the slot of the sender.
Queue(w) ==
  /\ call[w].at = "frame" /\ outgoing = Nothing
  /\ outgoing' = <<[seq |-> sendSequence, of |-> w, end |-> w = Closer]>>
  /\ call' = [call EXCEPT ![w].at = "queued", ![w].result = "none"]
  /\ UNCHANGED <<closed, rpc, wire, sender, sendSequence, writeEOF, accepted, receiving>>

\* The result of the sender.
Result(w) ==
  /\ call[w].at = "queued" /\ call[w].result # "none"
  /\ IF call[w].result = "ok"
     THEN /\ sendSequence' = sendSequence + 1 /\ writeEOF' = (w = Closer)
          /\ accepted' = Append(accepted, w)
          /\ call' = [call EXCEPT ![w].left = @ - 1,
                                  ![w].at = IF call[w].left > 1 THEN "frame" ELSE "ok"]
     ELSE Return(w, "failed") /\ UNCHANGED <<sendSequence, writeEOF, accepted>>
  /\ UNCHANGED <<closed, rpc, wire, outgoing, sender, receiving>>

\* writeFrame gives up: the Conn is closed, or it closes it at the deadline.
GiveUp(w) ==
  /\ call[w].at \in {"frame", "queued"}
  /\ \/ "writer" \in closed /\ UNCHANGED <<closed, rpc>>
     \/ "writer" \notin closed /\ Close("writer")
  /\ Return(w, "failed")
  /\ UNCHANGED <<wire, outgoing, sender, sendSequence, writeEOF, accepted, receiving>>

\* sendLoop takes a frame; one it finds after the close is refused.
Take ==
  /\ sender.at = "loop" /\ outgoing # Nothing /\ outgoing' = Nothing
  /\ IF "writer" \in closed
     THEN /\ call' = [call EXCEPT ![outgoing[1].of].result = "failed"]
          /\ sender' = [sender EXCEPT !.at = "ended"]
     ELSE sender' = [at |-> "send", frame |-> outgoing] /\ UNCHANGED call
  /\ UNCHANGED <<closed, rpc, wire, sendSequence, writeEOF, accepted, receiving>>

\* The RPC takes the frame, or fails, with or without having sent it.
SendFrame(fails) ==
  /\ sender.at = "send" /\ (fails \/ rpc)
  /\ \/ rpc /\ wire' = wire \o sender.frame
     \/ fails /\ UNCHANGED wire
  /\ call' = [call EXCEPT ![sender.frame[1].of].result = IF fails THEN "failed" ELSE "ok"]
  /\ sender' = [at |-> IF fails THEN "failed" ELSE "loop", frame |-> Nothing]
  /\ UNCHANGED <<closed, rpc, outgoing, sendSequence, writeEOF, accepted, receiving>>

\* After a failure, or once the Conn is closed, the sender ends.
SenderEnds ==
  /\ \/ sender.at = "failed" /\ Close("writer")
     \/ sender.at = "loop" /\ "writer" \in closed /\ UNCHANGED <<closed, rpc>>
  /\ sender' = [sender EXCEPT !.at = "ended"]
  /\ UNCHANGED <<wire, call, outgoing, sendSequence, writeEOF, accepted, receiving>>

\* Deliver: a frame out of order closes the Conn; a full slot holds the RPC back.
Deliver ==
  /\ wire # <<>> /\ wire' = Tail(wire)
  /\ LET frame == Head(wire) IN
     \/ /\ receiveEOF \/ frame.seq # receiveSequence
        /\ Close("reader") /\ UNCHANGED receiving
     \/ /\ ~receiveEOF /\ frame.seq = receiveSequence /\ incoming = Nothing
        /\ incoming' = <<frame>> /\ receiveSequence' = receiveSequence + 1
        /\ receiveEOF' = frame.end
        /\ UNCHANGED <<closed, rpc, reading, got>>
     \/ "reader" \in closed /\ UNCHANGED <<closed, rpc, receiving>>
  /\ UNCHANGED writing

Told(isClosed) == IF isClosed THEN "closed" ELSE "eof"

\* Read: the close first, then what is left of the frame, then the end, and only
\* then the next frame.
Read ==
  /\ reading.told = "none"
  /\ \/ /\ "reader" \in closed \/ (reading.left = 0 /\ reading.end)
        /\ reading' = [reading EXCEPT !.told = Told("reader" \in closed)]
        /\ UNCHANGED <<incoming, got>>
     \/ /\ "reader" \notin closed /\ reading.left > 0
        /\ reading' = [reading EXCEPT !.left = @ - 1] /\ UNCHANGED <<incoming, got>>
     \/ /\ reading.left = 0 /\ ~reading.end /\ incoming # Nothing
        /\ incoming' = Nothing
        /\ reading' = [reading EXCEPT !.end = incoming[1].end,
                                      !.left = IF incoming[1].end THEN 0 ELSE Reads]
        /\ got' = IF incoming[1].end THEN got ELSE Append(got, incoming[1].of)
  /\ UNCHANGED <<closed, rpc, wire, writing, receiveSequence, receiveEOF>>
-----------------------------------------------------------------------------
Next ==
  \/ \E side \in {"writer", "reader"} : CloseConn(side)
  \/ \E w \in Calls : Begin(w) \/ Queue(w) \/ Result(w) \/ GiveUp(w)
  \/ Take \/ \E fails \in BOOLEAN : SendFrame(fails)
  \/ SenderEnds \/ Deliver \/ Read

\* The goroutines do not all stop: a cancelled RPC fails the send and is noticed on
\* both sides, and a call that waits has its stall timer.
Fairness ==
  WF_vars(\/ \E w \in Calls : Queue(w) \/ Result(w) \/ GiveUp(w)
          \/ Take \/ SenderEnds \/ Read
          \/ ~rpc /\ (SendFrame(TRUE) \/ \E side \in {"writer", "reader"} : CloseConn(side)))

Spec == Init /\ [][Next]_vars /\ Fairness
-----------------------------------------------------------------------------
TypeOK ==
  /\ closed \subseteq {"writer", "reader"} /\ sendSequence \in 0 .. Len(accepted)
  /\ \A w \in Calls : call[w].left \in 0 .. Frames
  /\ reading.left \in 0 .. Reads

Data(s) == SelectSeq(s, LAMBDA w : w # Closer)

\* The end of the stream is read only after every frame that was reported as
\* written: no failure, timeout or close on the way looks like the end
\* (writeFrame, Deliver, Read).
EndIsWhole == reading.told = "eof" => got = Data(accepted)

\* Deliver never refuses a frame of a peer that runs this code: a sequence number
\* goes to the RPC once, although a call that failed leaves it to the next, and
\* nothing goes after the end (writeFrame, sendLoop).
FramesAreInOrder ==
  "reader" \notin closed =>
    \A i \in 1 .. Len(wire) : wire[i].seq = receiveSequence + i - 1 /\ ~receiveEOF

\* Every Write and CloseWrite returns, and the sender of a closed Conn ends.
CallsReturn ==
  /\ \A w \in Calls : call[w].at \in {"frame", "queued"} ~> call[w].at \in {"ok", "failed"}
  /\ "writer" \in closed ~> sender.at = "ended"
=============================================================================
