----------------------------- MODULE SrForward -----------------------------
(***************************************************************************)
(* What becomes of one IP packet that a host sends into a network of       *)
(* routers: sr_handle_ip of lab4/router/sr_router.c at every hop, with the *)
(* ICMP messages it sends.  Handling a packet sends at most one packet on, *)
(* so at any time there is one: the host's, or what was sent because of    *)
(* it.                                                                     *)
(*                                                                         *)
(* Abstracted: an address is the interface or the host that has it; the    *)
(* subnets are disjoint, as in the topologies of lab4 and lab5, so the     *)
(* entry prefix_match finds is that of the destination's subnet; packets   *)
(* are not corrupted; of the ARP cache (module SrArpCache) is left that a  *)
(* packet waits until it is sent or refused; routes change as module SrRip *)
(* lets them, RIP packets themselves are modelled there.                   *)
(***************************************************************************)
EXTENDS Naturals

CONSTANTS
    Routers, Ifaces, Hosts, Nets,
    Owner,       \* Owner[i]: the router interface i belongs to
    Net,         \* Net[x]: the subnet of interface or host x
    Peer,        \* Peer[i]: the interface or host at the other end of i's link
    Nowhere,     \* an address in no subnet; as a route: none, or INFINITY
    Broadcast,   \* 255.255.255.255
    Silent,      \* hosts that do not answer ARP requests
    Senders,     \* the hosts that send
    Targets,     \* the addresses they send to
    InitRoutes,  \* the routes the network starts with
    ipttl,       \* the TTL of ICMP errors: 100 in sr_router.h
    MaxChanges   \* bound: link failures and repairs, routes learned

ASSUME ForwardConstants ==
    /\ ipttl \in Nat \ {0} /\ MaxChanges \in Nat
    /\ Owner \in [Ifaces -> Routers]
    /\ Net \in [Ifaces \cup Hosts -> Nets]
    /\ Peer \in [Ifaces -> Ifaces \cup Hosts]
    /\ Silent \subseteq Hosts /\ Senders \subseteq Hosts
    /\ Targets \subseteq Ifaces \cup Hosts \cup {Nowhere, Broadcast}
    /\ Ifaces \cap Hosts = {}
    /\ {Nowhere, Broadcast} \cap (Ifaces \cup Hosts) = {} /\ Nowhere # Broadcast

(* Attached[r][n]: the interface of r in subnet n, as a set.               *)
Attached ==
    [r \in Routers |->
       [n \in Nets |-> {i \in Ifaces : Owner[i] = r /\ Net[i] = n}]]

(* A direct route to a router's own subnets; to any other a route through  *)
(* a router at the other end of one of its links, or none (NextHopOnLink   *)
(* of SrRip).  Loops are not excluded.                                     *)
ASSUME RoutesAssumption ==
    \A t \in InitRoutes :
      /\ t \in [Routers -> [Nets -> Ifaces \cup {Nowhere}]]
      /\ \A r \in Routers, n \in Nets :
           IF Attached[r][n] # {} THEN t[r][n] \in Attached[r][n]
           ELSE t[r][n] # Nowhere =>
                  Owner[t[r][n]] = r /\ Peer[t[r][n]] \in Ifaces

VARIABLES
    stage,     \* "wire", "queue" (in an ARP queue) or "ended"
    at,        \* wire: where the frame arrives; queue: the interface out
    hop,       \* queue: the next hop's address
    pkt,       \* the packet
    sender,    \* the host that sent the first packet
    outcome,   \* how it ended
    route,     \* route[r][n]: the interface of the entry for n, or Nowhere
    status,    \* status[i]: sr->if_cache, what the router was told of i
    link,      \* link[n]: the link is up
    changes    \* link failures and repairs, and routes learned, so far

journey == <<stage, at, hop, pkt, outcome>>
network == <<route, status, link, changes>>
vars == <<journey, sender, network>>

Addresses == Ifaces \cup Hosts \cup {Nowhere, Broadcast}

Icmp == {"echo", "reply", "time", "net", "port"}

Packet == [kind : Icmp \cup {"udp"}, src : Ifaces \cup Hosts,
           dst : Addresses, ttl : 1 .. ipttl]

(* The packet's TTL is at least 1 wherever it is: 0 is never put on a wire *)
(* or in a queue, and so ip_ttl is never decremented to 255.               *)
TypeOK ==
    /\ stage \in {"wire", "queue", "ended"}
    /\ at \in Ifaces \cup Hosts
    /\ hop \in Addresses
    /\ pkt \in Packet
    /\ sender \in Hosts
    /\ outcome \in {"none", "delivered", "told", "lost"}
    /\ route \in [Routers -> [Nets -> Ifaces \cup {Nowhere}]]
    /\ status \in [Ifaces -> BOOLEAN]
    /\ link \in [Nets -> BOOLEAN]
    /\ changes \in 0 .. MaxChanges

(* A host sends a packet to its router.                                    *)
Init ==
    /\ route \in InitRoutes
    /\ status = [i \in Ifaces |-> TRUE]
    /\ link = [n \in Nets |-> TRUE]
    /\ changes = 0
    /\ sender \in Senders
    /\ pkt \in {p \in Packet : p.kind \in {"echo", "udp"} /\ p.src = sender
                                 /\ p.dst \in Targets \ {sender}}
    /\ stage = "wire" /\ at \in {i \in Ifaces : Peer[i] = sender}
    /\ hop = Nowhere
    /\ outcome = "none"

-----------------------------------------------------------------------------
(* Sending                                                                 *)

Ended(o) ==
    /\ stage' = "ended" /\ outcome' = o
    /\ UNCHANGED <<at, hop, pkt>>

(* Packet p leaves through interface i: what is at the other end of the    *)
(* link gets it, whatever the Ethernet destination (the sender's address   *)
(* in the ARP cache, or else broadcast).                                   *)
sr_send_packet(p, i) ==
    IF link[Net[i]]
    THEN /\ stage' = "wire" /\ at' = Peer[i] /\ pkt' = p
         /\ hop' = Nowhere /\ outcome' = outcome
    ELSE Ended("lost")

(* Mutant: an error takes over the TTL of the packet it is about.          *)
ErrorKeepsTtl(kind, i) ==
    [kind |-> kind, src |-> i, dst |-> pkt.src, ttl |-> pkt.ttl]

(* icmp_time and icmp_unreachable: about pkt, from interface i.            *)
Error(kind, i) == [kind |-> kind, src |-> i, dst |-> pkt.src, ttl |-> ipttl]

icmp_time(i) == sr_send_packet(Error("time", i), i)

icmp_unreachable(kind, i) == sr_send_packet(Error(kind, i), i)

(* The reply is the request with the addresses exchanged: its TTL is what  *)
(* is left of the request's.                                               *)
sr_icmp_send_message(i) ==
    sr_send_packet([pkt EXCEPT !.kind = "reply", !.src = pkt.dst,
                               !.dst = pkt.src], i)

handle_icmp(i) ==
    IF pkt.kind = "echo" THEN sr_icmp_send_message(i) ELSE Ended("lost")

-----------------------------------------------------------------------------
(* sr_handle_ip, for a packet that came in on interface i                  *)

Arrives(i) == stage = "wire" /\ at = i

(* RIP packets are left to SrRip.                                          *)
HandleBroadcast(i) ==
    /\ Arrives(i) /\ pkt.dst = Broadcast
    /\ IF pkt.kind = "udp" THEN icmp_unreachable("port", i) ELSE Ended("lost")
    /\ UNCHANGED <<sender, network>>

is_own_ip(r, d) == d \in Ifaces /\ Owner[d] = r

HandleOwn(i) ==
    /\ Arrives(i) /\ is_own_ip(Owner[i], pkt.dst)
    /\ IF ~status[pkt.dst] \/ ~status[i] THEN icmp_unreachable("net", i)
       ELSE IF pkt.kind \in Icmp THEN handle_icmp(i)
       ELSE icmp_unreachable("port", i)
    /\ UNCHANGED <<sender, network>>

(* Mutants: TTL 1 is forwarded; the TTL is not decremented.                *)
TtlCheckedLate == pkt.ttl = 0
TtlKept == pkt

TtlIsOver == pkt.ttl = 1

Decremented == [pkt EXCEPT !.ttl = @ - 1]

prefix_match(r, d) == IF d = Nowhere THEN Nowhere ELSE route[r][Net[d]]

(* The gateway, or for a direct route the destination itself.              *)
NextHop(out) == IF Net[out] = Net[pkt.dst] THEN pkt.dst ELSE Peer[out]

Transit(i) ==
    /\ Arrives(i) /\ pkt.dst # Broadcast /\ ~is_own_ip(Owner[i], pkt.dst)
    /\ LET out == prefix_match(Owner[i], pkt.dst)
       IN IF TtlIsOver THEN icmp_time(i)
          ELSE IF out = Nowhere THEN icmp_unreachable("net", i)
          ELSE IF ~status[out] THEN icmp_unreachable("net", i)
          ELSE /\ stage' = "queue" /\ at' = out /\ hop' = NextHop(out)
               /\ pkt' = Decremented
               /\ UNCHANGED outcome
    /\ UNCHANGED <<sender, network>>

-----------------------------------------------------------------------------
(* The ARP cache                                                           *)

(* The next hop's hardware address is in the cache, or the next hop        *)
(* answers.  A cached address may be used after the link has failed.       *)
Forward(i) ==
    /\ stage = "queue" /\ at = i
    /\ hop = Peer[i] /\ hop \notin Silent
    /\ sr_send_packet(pkt, i)
    /\ UNCHANGED <<sender, network>>

(* The sweeper gives up: nobody has answered.                              *)
send_unreachable_to_queued(i) ==
    /\ stage = "queue" /\ at = i
    /\ hop # Peer[i] \/ hop \in Silent \/ ~link[Net[i]]
    /\ icmp_unreachable("port", i)
    /\ UNCHANGED <<sender, network>>

-----------------------------------------------------------------------------
(* The environment                                                         *)

(* A host takes what is addressed to it and drops anything else.           *)
HostReceives(h) ==
    /\ Arrives(h)
    /\ Ended(IF pkt.dst # h THEN "lost"
             ELSE IF h = sender THEN "told" ELSE "delivered")
    /\ UNCHANGED <<sender, network>>

LinkChange(n) ==
    /\ changes < MaxChanges /\ stage # "ended"
    /\ changes' = changes + 1
    /\ link' = [link EXCEPT ![n] = ~@]
    /\ UNCHANGED <<journey, sender, route, status>>

sr_update_interface_status(i) ==
    /\ status[i] # link[Net[i]]
    /\ status' = [status EXCEPT ![i] = link[Net[i]]]
    /\ UNCHANGED <<journey, sender, route, link, changes>>

(* sr_rip_timeout: the subnet of an interface that is up becomes a direct  *)
(* route, routes through an interface that is down are lost.               *)
sr_rip_timeout(r) ==
    /\ route' = [route EXCEPT ![r] =
         [n \in Nets |->
            IF \E i \in Attached[r][n] : status[i]
            THEN CHOOSE i \in Attached[r][n] : status[i]
            ELSE IF route[r][n] = Nowhere THEN Nowhere
            ELSE IF ~status[route[r][n]] THEN Nowhere
            ELSE route[r][n]]]
    /\ UNCHANGED <<journey, sender, status, link, changes>>

(* update_route_table: on interface i, a neighbour's INFINITY withdraws    *)
(* the route through i, a direct route too; its offer replaces a route     *)
(* through another interface, but does not beat a direct one.              *)
update_route_table(i, n) ==
    /\ changes < MaxChanges /\ stage # "ended"
    /\ changes' = changes + 1
    /\ Peer[i] \in Ifaces /\ link[Net[i]]
    /\ route[Owner[i]][n] = i \/ route[Owner[i]][n] \notin Attached[Owner[i]][n]
    /\ route' = [route EXCEPT ![Owner[i]][n] = IF @ = i THEN Nowhere ELSE i]
    /\ UNCHANGED <<journey, sender, status, link>>

-----------------------------------------------------------------------------
Work ==
    \/ \E i \in Ifaces : \/ HandleBroadcast(i)
                         \/ HandleOwn(i)
                         \/ Transit(i)
                         \/ Forward(i)
                         \/ send_unreachable_to_queued(i)
    \/ \E h \in Hosts : HostReceives(h)

Settle ==
    \/ \E i \in Ifaces : sr_update_interface_status(i)
    \/ \E r \in Routers : sr_rip_timeout(r)

Next ==
    \/ Work
    \/ Settle
    \/ \E n \in Nets : LinkChange(n)
    \/ \E i \in Ifaces, n \in Nets : update_route_table(i, n)

(* Routers and hosts handle what arrives, the sweeper gives up in the end, *)
(* status messages arrive and the RIP threads run; between two changes     *)
(* they only have so much to do.                                           *)
Fairness == WF_vars(Work) /\ WF_vars(Settle)

Spec == Init /\ [][Next]_vars /\ Fairness

-----------------------------------------------------------------------------
(* Properties                                                              *)

(* Every packet comes to an end, loops in the routes or not: TTLs run out, *)
(* and the errors about errors that sr_handle_ip sends (it does not look   *)
(* what kind of packet it refuses) do not chase each other for ever.       *)
PacketsEnd == <>(stage = "ended")

(* Two hops along the routes lead from every router to the sender's: all   *)
(* there can be among three routers.                                       *)
Home(r) == Attached[r][Net[sender]] # {}

Towards(r) ==
    IF Home(r) \/ route[r][Net[sender]] = Nowhere THEN r
    ELSE Owner[Peer[route[r][Net[sender]]]]

RoutesBack == \A r \in Routers : Home(Towards(Towards(r)))

(* While nothing changes and the routes lead back to the sender, it hears  *)
(* of every packet that does not get through, wherever the packet's own    *)
(* route ends or circles: errors go back the way the packet came.          *)
SenderIsTold ==
    /\ RoutesBack /\ pkt.kind = "udp" /\ Silent = {}
    /\ [](changes = 0)
    => <>(outcome \in {"delivered", "told"})
=============================================================================
