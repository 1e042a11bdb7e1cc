-------------------------- MODULE MCDeferredSender --------------------------
(* Two connections: both threads write to c1, as they do when frames are   *)
(* relayed both ways; only the POX thread to c2.                           *)
EXTENDS DeferredSender, TLC

CONSTANTS pox, reactor, c1, c2

SharedAndOwn == (pox :> {c1, c2}) @@ (reactor :> {c1})
=============================================================================
