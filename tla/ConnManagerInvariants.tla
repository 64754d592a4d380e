----------------------- MODULE ConnManagerInvariants ------------------------
(***************************************************************************)
(* The inductive invariant of ConnManager.  None of its safety properties  *)
(* is inductive alone.  The layers are the types (with activityNodes only  *)
(* known to be an integer), the life of a generation, the generation and   *)
(* the maintenance of recorded work, and the arithmetic of the ledger,     *)
(* which needs them.                                                       *)
(***************************************************************************)
EXTENDS ConnManager

\* The types; that activityNodes never becomes negative is LedgerAccounting's.
TypeInv ==
  /\ handler \in [Conns -> {"idle", "registering", "connected", "returned"}]
  /\ streams \in [Nodes -> Conns \cup {None}]
  /\ retiring \in [Nodes -> Conns \cup {None}]
  /\ done \in SUBSET Conns
  /\ finishers \in SUBSET Conns
  /\ delivering \in SUBSET Conns
  /\ sender \in [Senders -> SenderStates]
  /\ reserving \in [Conns -> Reservations \cup {None}]
  /\ maintenance \in [Nodes -> Ops \cup {None}]
  /\ record \in [Keys -> {"absent", "admitted", "dispatched", "abandoned"}]
  /\ uncertain \in SUBSET Nodes
  /\ activityNodes \in [Nodes -> Int]
  /\ activityCounts \in [Conns -> Nat]

\* A retiring generation is installed and closed; an installed generation
\* serves its own server; a generation that was installed and is not closed is
\* still installed; sends go to generations that were installed; SendMu excludes
\* a reservation from the sends of its generation.
GenerationInv ==
  /\ \A n \in Nodes : retiring[n] # None => streams[n] = retiring[n] /\ retiring[n] \in done
  /\ \A n \in Nodes : streams[n] # None => ServerOf[streams[n]] = n
  /\ \A c \in Conns : Installed(c) /\ c \notin done => streams[ServerOf[c]] = c
  /\ \A s \in Senders : sender[s].pc # "idle" => Installed(sender[s].conn)
  /\ \A c \in Conns : reserving[c] # None => GenerationMuFree(c)

GInv == GenerationInv /\ SendOnInstalledGeneration /\ DeliveryOnCurrentGeneration

\* LedgerOfCurrentGeneration and MaintenanceExcludesWork, record by record.
WorkInv ==
  /\ \A c \in Conns, i \in Ids : record[<<c, i>>] # "absent" =>
       /\ streams[ServerOf[c]] = c
       /\ retiring[ServerOf[c]] # c
       /\ maintenance[ServerOf[c]] = None
  /\ \A c \in Conns : activityCounts[c] > 0 =>
       streams[ServerOf[c]] = c /\ retiring[ServerOf[c]] # c
  /\ \A s \in Senders : sender[s].pc = "sending" /\ sender[s].msg.kind # "plain" =>
       maintenance[ServerOf[sender[s].conn]] = None

\* The arithmetic of the ledger.
AccInv == LedgerAccounting /\ LedgerBounds

\* The inductive invariant.
IInv == TypeInv /\ GInv /\ WorkInv /\ AccInv

=============================================================================
