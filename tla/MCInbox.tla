-------------------------------- MODULE MCInbox --------------------------------
(* Model checking of AgentInbox. *)
EXTENDS AgentInbox
=================================================================================
