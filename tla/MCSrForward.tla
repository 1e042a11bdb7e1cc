---------------------------- MODULE MCSrForward ----------------------------
(* The triangle of lab5 with the client's and one server's subnet.         *)
EXTENDS SrForward, TLC

CONSTANTS v1, v2, v3, c, w, s1, s2, l12, l13, l23,
          e1, e2, e12, e21, e13, e31, e23, e32

TriOwner == (e1 :> v1) @@ (e12 :> v1) @@ (e13 :> v1) @@ (e2 :> v2)
            @@ (e21 :> v2) @@ (e23 :> v2) @@ (e31 :> v3) @@ (e32 :> v3)
TriNet == (e1 :> s1) @@ (e12 :> l12) @@ (e13 :> l13) @@ (e2 :> s2)
          @@ (e21 :> l12) @@ (e23 :> l23) @@ (e31 :> l13) @@ (e32 :> l23)
          @@ (c :> s1) @@ (w :> s2)
TriPeer == (e1 :> c) @@ (e2 :> w) @@ (e12 :> e21) @@ (e21 :> e12)
           @@ (e13 :> e31) @@ (e31 :> e13) @@ (e23 :> e32) @@ (e32 :> e23)

(* Straight routes, but for those of v1 and v3 to the server's subnet: v1  *)
(* may go round through v3, and v3 through v1.                             *)
TriRoutes(a, b) ==
    (v1 :> ((s1 :> e1) @@ (s2 :> a) @@ (l12 :> e12) @@ (l13 :> e13) @@ (l23 :> e12)))
    @@ (v2 :> ((s1 :> e21) @@ (s2 :> e2) @@ (l12 :> e21) @@ (l13 :> e21) @@ (l23 :> e23)))
    @@ (v3 :> ((s1 :> e31) @@ (s2 :> b) @@ (l12 :> e31) @@ (l13 :> e31) @@ (l23 :> e32)))
TriAnyRoutes == {TriRoutes(a, b) : a \in {e12, e13}, b \in {e31, e32}}
=============================================================================
