---------------------------- MODULE MCSrArpCache ----------------------------
(* Small instances of SrArpCache: one host behind a gateway or attached,   *)
(* one more host, and fewer cache slots than addresses.                    *)
EXTENDS SrArpCache, TLC

CONSTANTS p1, p2, h1, h2, g1, m1, i1, i2

MCDst == (p1 :> h1) @@ (p2 :> h2)
=============================================================================
