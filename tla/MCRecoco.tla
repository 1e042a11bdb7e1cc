------------------------------ MODULE MCRecoco ------------------------------
(* Names for the tasks and threads of the run. *)
EXTENDS Recoco

CONSTANTS w1, x1, x2
=============================================================================
