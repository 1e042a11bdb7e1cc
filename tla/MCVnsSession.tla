---------------------------- MODULE MCVnsSession ----------------------------
(* Two vhosts with one interface each, at different ports of their switch. *)
EXTENDS VnsSession, TLC

CONSTANTS v1, v2, e1

PortNumbers == (v1 :> (e1 :> 1)) @@ (v2 :> (e1 :> 2))
=============================================================================
