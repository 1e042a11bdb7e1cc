---------------------------- MODULE NextHopQueue ----------------------------
(***************************************************************************)
(* What the ARP cache promises to the packets the router forwards: one     *)
(* first-in first-out line per next hop.  A packet looks its next hop up   *)
(* in its route.  It goes out at once only when nobody waits in the line   *)
(* of that next hop, a packet that has to wait goes out in its turn, and   *)
(* the packets of a line that is given up are all refused together.  No    *)
(* packet is lost, and none goes out twice.                                *)
(*                                                                         *)
(* Routes may change at any time, also between looking the next hop up and *)
(* joining a line.  A packet that joins another line than the one it       *)
(* looked at is a stray; strays may be passed by, others may not.  While a *)
(* route changes it may read as address zero.                              *)
(***************************************************************************)
EXTENDS Naturals, Sequences

CONSTANTS Packets, NextHops,
          Zero,    \* address zero, a member of NextHops
          NoHop    \* the next hop was not looked up

VARIABLES route,   \* route[p]: the next hop of packet p, as of now
          hop,     \* hop[p]: the next hop looked up for p while it is "in"
          line,    \* line[a]: the packets that wait for next hop a
          status,  \* where each packet is
          stray    \* packets that wait in another line than that of hop[p]

nhqVars == <<route, hop, line, status, stray>>

Waiting(a) == {line[a][k] : k \in 1 .. Len(line[a])}

NHQInit ==
    /\ route \in [Packets -> NextHops]
    /\ hop = [p \in Packets |-> NoHop]
    /\ line = [a \in NextHops |-> <<>>]
    /\ status = [p \in Packets |-> "out"]
    /\ stray = {}

Reroute ==
    /\ route' \in [Packets -> NextHops]
    /\ UNCHANGED <<hop, line, status, stray>>

(* A packet is "out" before it arrives and once it has left; it arrives.   *)
Arrive(p) ==
    /\ status[p] = "out"
    /\ status' = [status EXCEPT ![p] = "in"]
    /\ UNCHANGED <<route, hop, line, stray>>

LookUp(p, a) ==
    /\ status[p] = "in" /\ hop[p] = NoHop
    /\ a \in {route[p], Zero}
    /\ hop' = [hop EXCEPT ![p] = a]
    /\ UNCHANGED <<route, line, status, stray>>

PassThrough(p) ==
    /\ status[p] = "in" /\ hop[p] # NoHop
    /\ Waiting(hop[p]) \subseteq stray
    /\ status' = [status EXCEPT ![p] = "out"]
    /\ hop' = [hop EXCEPT ![p] = NoHop]
    /\ UNCHANGED <<route, line, stray>>

JoinLine(p, a) ==
    /\ status[p] = "in" /\ hop[p] # NoHop
    /\ a \in {route[p], Zero}
    /\ status' = [status EXCEPT ![p] = "waiting"]
    /\ line' = [line EXCEPT ![a] = Append(@, p)]
    /\ stray' = IF a = hop[p] THEN stray ELSE stray \cup {p}
    /\ hop' = [hop EXCEPT ![p] = NoHop]
    /\ UNCHANGED route

LeaveInTurn(a) ==
    /\ line[a] # <<>>
    /\ line' = [line EXCEPT ![a] = Tail(@)]
    /\ status' = [status EXCEPT ![Head(line[a])] = "out"]
    /\ stray' = stray \ {Head(line[a])}
    /\ UNCHANGED <<route, hop>>

(* A sweep may give up several lines at once.                              *)
Refuse(A) ==
    /\ line' = [a \in NextHops |-> IF a \in A THEN <<>> ELSE line[a]]
    /\ status' = [p \in Packets |->
                    IF \E a \in A : p \in Waiting(a) THEN "out" ELSE status[p]]
    /\ stray' = {p \in stray : ~\E a \in A : p \in Waiting(a)}
    /\ UNCHANGED <<route, hop>>

NHQNext ==
    \/ Reroute
    \/ \E p \in Packets : Arrive(p) \/ PassThrough(p)
    \/ \E p \in Packets, a \in NextHops : LookUp(p, a) \/ JoinLine(p, a)
    \/ \E a \in NextHops : LeaveInTurn(a)
    \/ \E A \in SUBSET NextHops : Refuse(A)

NHQSpec == NHQInit /\ [][NHQNext]_nhqVars
=============================================================================
