-------------------------------- MODULE MCBudget --------------------------------
(* Model checking of SessionBudget. *)
EXTENDS SessionBudget
=================================================================================
