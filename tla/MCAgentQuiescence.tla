------------------------- MODULE MCAgentQuiescence -------------------------
(* Small instances for TLC of one server's generations.  Each behaviour is   *)
(* one of the Hub alone, with any agent and a ledger of one place, or of the *)
(* Hub with an agent; Init chooses which.                                    *)
EXTENDS AgentQuiescence, TLC

CONSTANT n1

VARIABLE component   \* "hub" or "agent"

OneServer == [c \in Conns |-> n1]

FullLedger == INSTANCE ConnManager WITH MaxNodeActivities <- 1, MaxActivities <- 1

MCInit ==
  \/ component = "hub" /\ FullLedger!Init /\ AgentInit
  \/ component = "agent" /\ QInit

MCNext ==
  /\ \/ /\ component = "hub" /\ FullLedger!Next
        /\ UNCHANGED <<agentVars, fresh, observed, late, crashes>>
     \/ component = "agent" /\ QNext
  /\ UNCHANGED component

Symmetry == Permutations(Conns) \cup Permutations(Ids)
=============================================================================
