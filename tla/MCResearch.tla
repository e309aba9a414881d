------------------------------ MODULE MCResearch ------------------------------
(* Model checking of ResearchProtocol; the constants are in the .cfg files. *)
EXTENDS ResearchProtocol
=============================================================================
