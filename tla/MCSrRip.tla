------------------------------ MODULE MCSrRip ------------------------------
(* Topologies for SrRip.  A "line" is two routers and one stub subnet; the *)
(* "triangle" is the topology of lab5 with the client's subnet and the     *)
(* three links.                                                            *)
EXTENDS SrRip, TLC

CONSTANTS v1, v2, v3, s, l12, l13, l23,
          e1, e12, e21, e13, e31, e23, e32

LineOwner == (e1 :> v1) @@ (e12 :> v1) @@ (e21 :> v2)
LineNet == (e1 :> s) @@ (e12 :> l12) @@ (e21 :> l12)
LinePeer == (e1 :> NoIface) @@ (e12 :> e21) @@ (e21 :> e12)
LineDist == (v1 :> ((s :> 0) @@ (l12 :> 0)))
            @@ (v2 :> ((s :> 1) @@ (l12 :> 0)))

TriOwner == (e1 :> v1) @@ (e12 :> v1) @@ (e13 :> v1) @@ (e21 :> v2)
            @@ (e23 :> v2) @@ (e31 :> v3) @@ (e32 :> v3)
TriNet == (e1 :> s) @@ (e12 :> l12) @@ (e13 :> l13) @@ (e21 :> l12)
          @@ (e23 :> l23) @@ (e31 :> l13) @@ (e32 :> l23)
TriPeer == (e1 :> NoIface) @@ (e12 :> e21) @@ (e21 :> e12) @@ (e13 :> e31)
           @@ (e31 :> e13) @@ (e23 :> e32) @@ (e32 :> e23)
TriDist == (v1 :> (s :> 0)) @@ (v2 :> (s :> 1)) @@ (v3 :> (s :> 1))
(* The state the triangle is in once ConvergesToShortest is reached and a  *)
(* new period begins; what happens after failures starts there.            *)
TriTable == (v1 :> (s :> Direct(e1)))
            @@ (v2 :> (s :> Learned(1, e21, e12)))
            @@ (v3 :> (s :> Learned(1, e31, e13)))

TriConverged ==
    /\ table = TriTable
    /\ status = [i \in Ifaces |-> TRUE]
    /\ started = [r \in Routers |-> TRUE]
    /\ ticked = [r \in Routers |-> FALSE]
    /\ chan = [i \in Ifaces |-> <<>>]
    /\ notice = [i \in Ifaces |-> <<>>]
    /\ link = [n \in Nets |-> TRUE]
    /\ flaps = 0

ConvergedFairSpec == TriConverged /\ [][Next]_vars /\ Fairness
=============================================================================
