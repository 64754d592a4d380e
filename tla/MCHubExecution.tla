--------------------------- MODULE MCHubExecution ---------------------------
(* Model-checking instances of HubExecution.                                *)
EXTENDS HubExecution

Standard == {"standard"}
Enhanced == {"enhanced"}
OneOutput == {"stdout"}
=============================================================================
