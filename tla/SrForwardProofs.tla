-------------------------- MODULE SrForwardProofs --------------------------
(* Type correctness of SrForward for every network; with it, that no       *)
(* router ever sends a packet with TTL 0.                                  *)
EXTENDS SrForward, TLAPS

JourneyOK ==
    /\ stage \in {"wire", "queue", "ended"}
    /\ at \in Ifaces \cup Hosts
    /\ hop \in Addresses
    /\ pkt \in Packet
    /\ outcome \in {"none", "delivered", "told", "lost"}

(* Ending the journey, and sending a packet from an interface, keep the    *)
(* types.                                                                  *)
LEMMA EndedType ==
    ASSUME JourneyOK, NEW o \in {"delivered", "told", "lost"}, Ended(o)
    PROVE  JourneyOK'
BY DEF JourneyOK, Ended

LEMMA SendType ==
    ASSUME JourneyOK, NEW p \in Packet, NEW i \in Ifaces, sr_send_packet(p, i)
    PROVE  JourneyOK'
<1>1. CASE link[Net[i]]
  BY <1>1, ForwardConstants DEF sr_send_packet, JourneyOK, Addresses
<1>2. CASE ~link[Net[i]]
  <2>1. Ended("lost")
    BY <1>2 DEF sr_send_packet
  <2> QED
    BY <2>1, EndedType
<1> QED
  BY <1>1, <1>2

(* An ICMP error is a packet: its TTL is ipttl.                            *)
LEMMA ErrorType ==
    ASSUME JourneyOK, NEW i \in Ifaces, NEW kind \in {"time", "net", "port"}
    PROVE  Error(kind, i) \in Packet
BY ForwardConstants DEF JourneyOK, Error, Packet, Icmp, Addresses

LEMMA UnreachableType ==
    ASSUME JourneyOK, NEW i \in Ifaces, NEW kind \in {"net", "port"},
           icmp_unreachable(kind, i)
    PROVE  JourneyOK'
BY ErrorType, SendType DEF icmp_unreachable

(* An echo reply keeps the TTL of the request; it has a source because     *)
(* the request was addressed to one of the router's interfaces.            *)
LEMMA IcmpType ==
    ASSUME JourneyOK, NEW i \in Ifaces, pkt.dst \in Ifaces, handle_icmp(i)
    PROVE  JourneyOK'
<1>1. CASE pkt.kind = "echo"
  <2> DEFINE p == [pkt EXCEPT !.kind = "reply", !.src = pkt.dst, !.dst = pkt.src]
  <2>1. p \in Packet
    BY DEF JourneyOK, Packet, Icmp, Addresses
  <2>2. sr_send_packet(p, i)
    BY <1>1 DEF handle_icmp, sr_icmp_send_message
  <2> QED
    BY <2>1, <2>2, SendType
<1>2. CASE pkt.kind # "echo"
  <2>1. Ended("lost")
    BY <1>2 DEF handle_icmp
  <2> QED
    BY <2>1, EndedType
<1> QED
  BY <1>1, <1>2

(* Forwarding: the TTL was not 1, so one less is not 0; the next hop has   *)
(* an address because an entry was found.                                  *)
LEMMA TransitType ==
    ASSUME TypeOK, JourneyOK, NEW i \in Ifaces, Transit(i)
    PROVE  JourneyOK'
<1> DEFINE out == prefix_match(Owner[i], pkt.dst)
<1>1. CASE TtlIsOver
  <2>1. sr_send_packet(Error("time", i), i)
    BY <1>1 DEF Transit, icmp_time
  <2> QED
    BY <2>1, ErrorType, SendType
<1>2. CASE ~TtlIsOver /\ (out = Nowhere \/ ~status[out])
  <2>1. icmp_unreachable("net", i)
    BY <1>2 DEF Transit
  <2> QED
    BY <2>1, UnreachableType
<1>3. CASE ~TtlIsOver /\ out # Nowhere /\ status[out]
  <2>1. stage' = "queue" /\ at' = out /\ hop' = NextHop(out)
        /\ pkt' = Decremented /\ outcome' = outcome
    BY <1>3 DEF Transit
  <2>2. pkt.dst \in Ifaces \cup Hosts
    BY <1>3 DEF Transit, JourneyOK, Packet, Addresses, prefix_match
  <2>3. out \in Ifaces
    BY <1>3, <2>2, ForwardConstants DEF TypeOK, prefix_match
  <2>4. NextHop(out) \in Addresses
    BY <2>2, <2>3, ForwardConstants DEF NextHop, Addresses
  <2>5. Decremented \in Packet
    BY <1>3, ForwardConstants DEF JourneyOK, Packet, Decremented, TtlIsOver
  <2> QED
    BY <2>1, <2>3, <2>4, <2>5 DEF JourneyOK
<1> QED
  BY <1>1, <1>2, <1>3

LEMMA WorkType ==
    ASSUME TypeOK, Work
    PROVE  TypeOK'
<1>1. JourneyOK
  BY DEF TypeOK, JourneyOK
<1>2. ASSUME NEW i \in Ifaces, HandleBroadcast(i)
      PROVE  JourneyOK'
  BY <1>1, <1>2, UnreachableType, EndedType DEF HandleBroadcast
<1>3. ASSUME NEW i \in Ifaces, HandleOwn(i)
      PROVE  JourneyOK'
  BY <1>1, <1>3, UnreachableType, IcmpType DEF HandleOwn, is_own_ip
<1>4. ASSUME NEW i \in Ifaces, Transit(i)
      PROVE  JourneyOK'
  BY <1>1, <1>4, TransitType
<1>5. ASSUME NEW i \in Ifaces, Forward(i)
      PROVE  JourneyOK'
  <2>1. pkt \in Packet /\ sr_send_packet(pkt, i)
    BY <1>5 DEF Forward, TypeOK
  <2> QED
    BY <1>1, <2>1, SendType
<1>6. ASSUME NEW i \in Ifaces, send_unreachable_to_queued(i)
      PROVE  JourneyOK'
  BY <1>1, <1>6, UnreachableType DEF send_unreachable_to_queued
<1>7. ASSUME NEW h \in Hosts, HostReceives(h)
      PROVE  JourneyOK'
  BY <1>1, <1>7, EndedType DEF HostReceives
<1>8. JourneyOK'
  BY <1>2, <1>3, <1>4, <1>5, <1>6, <1>7 DEF Work
<1>9. UNCHANGED <<sender, network>>
  BY DEF Work, HandleBroadcast, HandleOwn, Transit, Forward,
         send_unreachable_to_queued, HostReceives
<1> QED
  BY <1>8, <1>9 DEF TypeOK, JourneyOK, network

LEMMA TimeoutType ==
    ASSUME TypeOK, NEW r \in Routers, sr_rip_timeout(r)
    PROVE  route' \in [Routers -> [Nets -> Ifaces \cup {Nowhere}]]
<1> DEFINE e(n) == IF \E i \in Attached[r][n] : status[i]
                   THEN CHOOSE i \in Attached[r][n] : status[i]
                   ELSE IF route[r][n] = Nowhere THEN Nowhere
                   ELSE IF ~status[route[r][n]] THEN Nowhere
                   ELSE route[r][n]
<1>1. \A n \in Nets : Attached[r][n] \subseteq Ifaces
  BY DEF Attached
<1>2. ASSUME NEW n \in Nets
      PROVE  e(n) \in Ifaces \cup {Nowhere}
  <2>1. CASE \E i \in Attached[r][n] : status[i]
    <3>1. (CHOOSE i \in Attached[r][n] : status[i]) \in Attached[r][n]
      BY <2>1
    <3> QED
      BY <1>1, <2>1, <3>1
  <2>2. CASE ~\E i \in Attached[r][n] : status[i]
    BY <2>2 DEF TypeOK
  <2> QED
    BY <2>1, <2>2
<1>3. route' = [route EXCEPT ![r] = [n \in Nets |-> e(n)]]
  BY DEF sr_rip_timeout
<1> HIDE DEF e
<1> QED
  BY <1>2, <1>3 DEF TypeOK

(* Every router keeps its packets, routes and interface states typed, and  *)
(* no packet with TTL 0 is ever sent (TypeOK of SrForward), whatever the   *)
(* topology, the routes and the failures.                                  *)
THEOREM ForwardTypes == Spec => []TypeOK
<1>1. Init => TypeOK
  <2> SUFFICES ASSUME Init PROVE TypeOK
    OBVIOUS
  <2>1. sender \in Hosts
    BY ForwardConstants DEF Init
  <2> QED
    BY <2>1, ForwardConstants, RoutesAssumption DEF Init, TypeOK, Addresses
<1>2. TypeOK /\ [Next]_vars => TypeOK'
  <2> SUFFICES ASSUME TypeOK, [Next]_vars PROVE TypeOK'
    OBVIOUS
  <2>1. CASE Work
    BY <2>1, WorkType
  <2>2. ASSUME NEW n \in Nets, LinkChange(n)
        PROVE  TypeOK'
    BY <2>2, ForwardConstants DEF TypeOK, LinkChange, journey
  <2>3. ASSUME NEW i \in Ifaces, sr_update_interface_status(i)
        PROVE  TypeOK'
    BY <2>3, ForwardConstants DEF TypeOK, sr_update_interface_status, journey
  <2>4. ASSUME NEW r \in Routers, sr_rip_timeout(r)
        PROVE  TypeOK'
    <3>1. route' \in [Routers -> [Nets -> Ifaces \cup {Nowhere}]]
      BY <2>4, TimeoutType
    <3> QED
      BY <2>4, <3>1 DEF TypeOK, sr_rip_timeout, journey
  <2>5. ASSUME NEW i \in Ifaces, NEW n \in Nets, update_route_table(i, n)
        PROVE  TypeOK'
    BY <2>5, ForwardConstants DEF TypeOK, update_route_table, journey
  <2>6. CASE UNCHANGED vars
    BY <2>6 DEF TypeOK, vars, journey, network
  <2> QED
    BY <2>1, <2>2, <2>3, <2>4, <2>5, <2>6 DEF Next, Settle
<1> QED
  BY <1>1, <1>2, PTL DEF Spec
=============================================================================
