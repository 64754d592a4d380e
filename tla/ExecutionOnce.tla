---------------------------- MODULE ExecutionOnce ----------------------------
(***************************************************************************)
(* What the agent promises of a submitted command: it is durably claimed     *)
(* before it is launched, launched at most once, and never taken back.       *)
(* Executions advance independently, and one event (the loss of the machine) *)
(* may advance several.                                                     *)
(***************************************************************************)
CONSTANT Executions
VARIABLE outcome

Forward == {<<"open", "claimed">>, <<"claimed", "launched">>, <<"launched", "over">>}

OnceInit == outcome = [e \in Executions |-> "open"]

OnceNext ==
  /\ outcome' \in [Executions -> {"open", "claimed", "launched", "over"}]
  /\ \A e \in Executions :
       outcome'[e] = outcome[e] \/ <<outcome[e], outcome'[e]>> \in Forward

OnceSpec == OnceInit /\ [][OnceNext]_outcome
=============================================================================
