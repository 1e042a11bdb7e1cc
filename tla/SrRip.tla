------------------------------- MODULE SrRip -------------------------------
(***************************************************************************)
(* The distance-vector protocol of lab4/router/sr_rt.c, run by a network   *)
(* of routers.  In each router the RIP thread (sr_rip_timeout, every five  *)
(* seconds) and the main thread (sr_handle_ip, which answers RIP requests  *)
(* and applies RIP responses) change the routing table under rt_locker,    *)
(* held for the whole operation, so each operation is one step.            *)
(*                                                                         *)
(* Abstracted: a subnet is an identity (dest & mask), so the table is a    *)
(* function of the subnet; time is counted in RIP periods; a link joins at *)
(* most two interfaces, as in the topologies of lab4 and lab5; what a      *)
(* router receives on one interface arrives in the order it was sent (it   *)
(* travels over one switch and one connection), what it receives on        *)
(* different interfaces is handled in any order.                           *)
(***************************************************************************)
EXTENDS Naturals, Sequences

CONSTANTS
    Routers, Ifaces, Nets,
    Subnets,     \* the subnets whose routes are followed: all, or some of Nets
    Owner,       \* Owner[i]: the router interface i belongs to
    Net,         \* Net[i]: the subnet i is attached to, ip & mask
    Peer,        \* Peer[i]: the interface at the other end, or NoIface
    NoIface,     \* no peer; as a gateway: gw.s_addr = 0
    INFINITY,    \* 16 in sr_rt.h
    ExpireAge,   \* 20 seconds, in RIP periods of 5 seconds: 4
    MaxFlaps,    \* bound: how often links fail or are repaired
    FlapNets,    \* the links that may fail
    ChanCap,     \* bound: frames that may wait at an interface before
                 \* a router sends more of its own accord
    Dist         \* Dist[r][n]: hops from r to n with every link up

ASSUME RipConstants ==
    /\ INFINITY \in Nat \ {0}
    /\ ExpireAge \in Nat /\ MaxFlaps \in Nat /\ ChanCap \in Nat \ {0}
    /\ Subnets \subseteq Nets /\ FlapNets \subseteq Nets
    /\ NoIface \notin Ifaces
    /\ Owner \in [Ifaces -> Routers] /\ Net \in [Ifaces -> Nets]
    /\ Peer \in [Ifaces -> Ifaces \cup {NoIface}]
    /\ \A i \in Ifaces : Peer[i] # NoIface =>
         Peer[Peer[i]] = i /\ Net[Peer[i]] = Net[i] /\ Owner[Peer[i]] # Owner[i]
    /\ \A i, j \in Ifaces : Owner[i] = Owner[j] /\ Net[i] = Net[j] => i = j

(* Dist is a lower bound on hop counts: no hop shortens the way by more    *)
(* than one.                                                               *)
ASSUME DistAssumption ==
    /\ Dist \in [Routers -> [Subnets -> Nat]]
    /\ \A i \in Ifaces : Net[i] \in Subnets => Dist[Owner[i]][Net[i]] = 0
    /\ \A i \in Ifaces, n \in Subnets : Peer[i] # NoIface =>
         Dist[Owner[i]][n] <= Dist[Owner[Peer[i]]][n] + 1

VARIABLES
    table,     \* table[r][n]: the entry of sr->routing_table for n
    status,    \* status[i]: sr->if_cache, what the router was told of i
    notice,    \* notice[i]: "up" and "down" messages on their way to i's router
    started,   \* started[r]: VNSHWINFO was handled
    ticked,    \* ticked[r]: sr_rip_timeout ran in this period
    chan,      \* chan[i]: RIP frames on their way to interface i
    link,      \* link[n]: the link is up
    flaps      \* links failed or repaired so far

vars == <<table, status, notice, started, ticked, chan, link, flaps>>

Entry == [present : BOOLEAN, metric : 0 .. INFINITY,
          iface : Ifaces \cup {NoIface}, gw : Ifaces \cup {NoIface},
          age : 0 .. ExpireAge + 1]

NoEntry == [present |-> FALSE, metric |-> INFINITY,
            iface |-> NoIface, gw |-> NoIface, age |-> 0]

Message == [command : {1, 2}, src : Ifaces,
            entries : UNION {[S -> 0 .. INFINITY] : S \in SUBSET Subnets}]

TypeOK ==
    /\ table \in [Routers -> [Subnets -> Entry]]
    /\ status \in [Ifaces -> BOOLEAN]
    /\ notice \in [Ifaces -> Seq({"up", "down"})]
    /\ started \in [Routers -> BOOLEAN]
    /\ ticked \in [Routers -> BOOLEAN]
    /\ chan \in [Ifaces -> Seq(Message)]
    /\ link \in [Nets -> BOOLEAN]
    /\ flaps \in 0 .. MaxFlaps

Init ==
    /\ table = [r \in Routers |-> [n \in Subnets |-> NoEntry]]
    /\ status = [i \in Ifaces |-> TRUE]
    /\ notice = [i \in Ifaces |-> <<>>]
    /\ started = [r \in Routers |-> FALSE]
    /\ ticked = [r \in Routers |-> FALSE]
    /\ chan = [i \in Ifaces |-> <<>>]
    /\ link = [n \in Nets |-> TRUE]
    /\ flaps = 0

-----------------------------------------------------------------------------
(* Sending                                                                 *)

(* A frame r broadcasts reaches interface j: j is at the other end of one  *)
(* of r's links, the link is up and j's router is connected.               *)
Reaches(r, j) ==
    /\ Peer[j] # NoIface
    /\ Owner[Peer[j]] = r
    /\ link[Net[j]]
    /\ started[Owner[j]]

(* The bound on frames under way: a router that is not answering a frame   *)
(* waits rather than exceed it.                                            *)
Room(r) == \A j \in Ifaces : Reaches(r, j) => Len(chan[j]) < ChanCap

(* Split horizon: entries whose interface is i are left out; entries with  *)
(* metric INFINITY are sent like the others.                               *)
Response(t, i) ==
    [command |-> 2, src |-> i,
     entries |-> [n \in {k \in Subnets : t[k].present /\ t[k].iface # i}
                    |-> t[n].metric]]

send_rip_response(c, r, t) ==
    chan' = [j \in Ifaces |->
               IF Reaches(r, j) THEN Append(c[j], Response(t, Peer[j]))
                                ELSE c[j]]

Request(i) == [command |-> 1, src |-> i, entries |-> [n \in {} |-> 0]]

send_rip_request(r) ==
    chan' = [j \in Ifaces |->
               IF Reaches(r, j) THEN Append(chan[j], Request(Peer[j]))
                                ELSE chan[j]]

-----------------------------------------------------------------------------
(* Start-up: the handler of VNSHWINFO in sr_vns_comm.c                     *)

Direct(i) == [present |-> TRUE, metric |-> 0,
              iface |-> i, gw |-> NoIface, age |-> 0]

sr_build_rt(r) ==
    [n \in Subnets |->
       IF \E i \in Ifaces : Owner[i] = r /\ Net[i] = n
       THEN Direct(CHOOSE i \in Ifaces : Owner[i] = r /\ Net[i] = n)
       ELSE table[r][n]]

Start(r) ==
    /\ ~started[r] /\ Room(r)
    /\ started' = [started EXCEPT ![r] = TRUE]
    /\ table' = [table EXCEPT ![r] = sr_build_rt(r)]
    /\ send_rip_request(r)
    /\ UNCHANGED <<status, notice, ticked, link, flaps>>

-----------------------------------------------------------------------------
(* The RIP thread                                                          *)

Expired(e) ==
    IF e.present /\ e.age > ExpireAge THEN [e EXCEPT !.metric = INFINITY] ELSE e

(* The subnet of an interface that is up becomes a direct route, whatever  *)
(* the entry said; other entries through an interface that is down are     *)
(* unreachable.                                                            *)
Checked(r, n, e) ==
    IF \E i \in Ifaces : Owner[i] = r /\ Net[i] = n /\ status[i]
    THEN Direct(CHOOSE i \in Ifaces : Owner[i] = r /\ Net[i] = n)
    ELSE IF e.present /\ ~status[e.iface]
         THEN [e EXCEPT !.metric = INFINITY]
         ELSE e

sr_rip_timeout(r) ==
    /\ started[r] /\ ~ticked[r] /\ Room(r)
    /\ LET t == [n \in Subnets |-> Checked(r, n, Expired(table[r][n]))]
       IN /\ table' = [table EXCEPT ![r] = t]
          /\ send_rip_response(chan, r, t)
    /\ ticked' = [ticked EXCEPT ![r] = TRUE]
    /\ UNCHANGED <<status, notice, started, link, flaps>>

-----------------------------------------------------------------------------
(* The main thread                                                         *)

(* Mutants: the hop is not counted; the count is not capped.               *)
HopNotCounted(m) == m
HopUncapped(m) == m + 1

Hop(m) == IF m + 1 < INFINITY THEN m + 1 ELSE INFINITY

Learned(m, i, g) ==
    [present |-> TRUE, metric |-> m, iface |-> i, gw |-> g, age |-> 0]

(* Mutant: the interface of an entry that is replaced is not copied.       *)
UpdatedKeepsIface(e, m, i, g) ==
    IF ~e.present THEN Learned(m, i, g)
    ELSE IF e.iface = i
         THEN [e EXCEPT !.age = 0,
                        !.metric = IF m = INFINITY THEN INFINITY ELSE @]
         ELSE IF m < e.metric THEN Learned(m, e.iface, g) ELSE e

(* Mutant: another gateway replaces an entry whatever its metric.          *)
UpdatedByLonger(e, m, i, g) ==
    IF ~e.present THEN Learned(m, i, g)
    ELSE IF e.iface = i
         THEN [e EXCEPT !.age = 0,
                        !.metric = IF m = INFINITY THEN INFINITY ELSE @]
         ELSE Learned(m, i, g)

(* Mutant: an entry is never replaced by a shorter route.                  *)
UpdatedKeepsFirst(e, m, i, g) ==
    IF ~e.present THEN Learned(m, i, g)
    ELSE IF e.iface = i
         THEN [e EXCEPT !.age = 0,
                        !.metric = IF m = INFINITY THEN INFINITY ELSE @]
         ELSE e

(* Mutant: INFINITY from an entry's own gateway does not delete the entry. *)
UpdatedNotPoisoned(e, m, i, g) ==
    IF ~e.present THEN Learned(m, i, g)
    ELSE IF e.iface = i THEN [e EXCEPT !.age = 0]
         ELSE IF m < e.metric THEN Learned(m, i, g) ELSE e

(* Entry e after the metric m of a response that came in on interface i    *)
(* from address g: an entry that uses i is refreshed, and lost if the      *)
(* metric is INFINITY; any other entry is replaced by a smaller metric.    *)
Updated(e, m, i, g) ==
    IF ~e.present THEN Learned(m, i, g)
    ELSE IF e.iface = i
         THEN [e EXCEPT !.age = 0,
                        !.metric = IF m = INFINITY THEN INFINITY ELSE @]
         ELSE IF m < e.metric THEN Learned(m, i, g) ELSE e

update_route_table(t, msg, i) ==
    [n \in Subnets |->
       IF n \in DOMAIN msg.entries
       THEN Updated(t[n], Hop(msg.entries[n]), i, msg.src)
       ELSE t[n]]

(* A refreshed age alone is not a change that is sent on.                  *)
Changed(t, u) ==
    \E n \in Subnets : [u[n] EXCEPT !.age = 0] # [t[n] EXCEPT !.age = 0]

RecvResponse(i) ==
    LET r == Owner[i]
        msg == Head(chan[i])
        t == update_route_table(table[r], msg, i)
        rest == [chan EXCEPT ![i] = Tail(@)]
    IN /\ chan[i] # <<>> /\ msg.command = 2
       /\ table' = [table EXCEPT ![r] = t]
       /\ IF Changed(table[r], t) THEN send_rip_response(rest, r, t)
                                  ELSE chan' = rest
       /\ UNCHANGED <<status, notice, started, ticked, link, flaps>>

RecvRequest(i) ==
    /\ chan[i] # <<>> /\ Head(chan[i]).command = 1
    /\ send_rip_response([chan EXCEPT ![i] = Tail(@)], Owner[i], table[Owner[i]])
    /\ UNCHANGED <<table, status, notice, started, ticked, link, flaps>>

(* The controller's "up" or "down" message for i reaches the router.       *)
sr_update_interface_status(i) ==
    /\ notice[i] # <<>>
    /\ status' = [status EXCEPT ![i] = (Head(notice[i]) = "up")]
    /\ notice' = [notice EXCEPT ![i] = Tail(@)]
    /\ UNCHANGED <<table, started, ticked, chan, link, flaps>>

-----------------------------------------------------------------------------
(* The environment                                                         *)

(* The controller tells the routers at both ends, if they are connected    *)
(* (send_to_vhost); a router that starts later takes its interfaces to be  *)
(* up.                                                                     *)
LinkChange(n) ==
    /\ flaps < MaxFlaps
    /\ flaps' = flaps + 1
    /\ link' = [link EXCEPT ![n] = ~@]
    /\ notice' = [i \in Ifaces |->
                    IF Net[i] = n /\ started[Owner[i]]
                    THEN Append(notice[i], IF link[n] THEN "down" ELSE "up")
                    ELSE notice[i]]
    /\ UNCHANGED <<table, status, started, ticked, chan>>

Aged(e) ==
    IF e.present /\ e.age <= ExpireAge THEN [e EXCEPT !.age = @ + 1] ELSE e

(* Five seconds pass: every RIP thread has run, and no frame or status     *)
(* message takes that long.                                                *)
NewPeriod ==
    /\ \A r \in Routers : started[r] => ticked[r]
    /\ \A i \in Ifaces : chan[i] = <<>> /\ notice[i] = <<>>
    /\ ticked' = [r \in Routers |-> FALSE]
    /\ table' = [r \in Routers |-> [n \in Subnets |-> Aged(table[r][n])]]
    /\ UNCHANGED <<status, notice, started, chan, link, flaps>>

-----------------------------------------------------------------------------
Work ==
    \/ \E r \in Routers : sr_rip_timeout(r)
    \/ \E i \in Ifaces : \/ RecvResponse(i)
                         \/ RecvRequest(i)
                         \/ sr_update_interface_status(i)
    \/ NewPeriod

Next ==
    \/ \E r \in Routers : Start(r)
    \/ Work
    \/ \E n \in FlapNets : LinkChange(n)

Spec == Init /\ [][Next]_vars

(* Every router is started, and the network does not stand still.  More is *)
(* not needed: a period ends only when every RIP thread has run and every  *)
(* frame and status message was handled (NewPeriod), and a period holds    *)
(* finitely many steps.  Links need neither fail nor be repaired.          *)
Fairness ==
    /\ \A r \in Routers : WF_vars(Start(r))
    /\ WF_vars(Work)

FairSpec == Spec /\ Fairness

-----------------------------------------------------------------------------
(* Properties                                                              *)

(* An entry without gateway is a direct route of one of the router's own   *)
(* interfaces; any other entry names a gateway at the other end of the     *)
(* link its interface is attached to, so sr_handle_ip never asks for a     *)
(* gateway on a link that does not have it.                                *)
NextHopOnLink ==
    \A r \in Routers, n \in Subnets :
      LET e == table[r][n]
      IN e.present =>
           /\ e.iface \in Ifaces /\ Owner[e.iface] = r
           /\ e.gw = NoIface => Net[e.iface] = n /\ e.metric \in {0, INFINITY}
           /\ e.gw # NoIface => e.gw = Peer[e.iface] /\ e.metric > 0

(* No router, and no response still under way, claims a subnet is nearer   *)
(* than the topology allows, whatever fails, expires or is reordered:      *)
(* every hop adds one and only a router that is attached says 0.           *)
NoUnderestimate ==
    /\ \A r \in Routers, n \in Subnets :
         table[r][n].metric = INFINITY \/ table[r][n].metric >= Dist[r][n]
    /\ \A j \in Ifaces : \A k \in 1 .. Len(chan[j]) :
         \A n \in DOMAIN chan[j][k].entries :
           \/ chan[j][k].entries[n] = INFINITY
           \/ chan[j][k].entries[n] >= Dist[Owner[chan[j][k].src]][n]

(* What is under way to an interface came from the other end of its link.  *)
FramesFromPeer ==
    \A j \in Ifaces : \A k \in 1 .. Len(chan[j]) :
      Peer[j] # NoIface /\ chan[j][k].src = Peer[j]

(* Metrics do not creep up: a metric that rises rises to INFINITY at once; *)
(* a longer route is taken only after that (update_route_table).           *)
NoCountingUp ==
    [][\A r \in Routers, n \in Subnets :
         table'[r][n].metric > table[r][n].metric
           => table'[r][n].metric = INFINITY]_vars

(* While no link fails, every router ends up with the shortest route to    *)
(* every subnet and keeps it: no route expires while it is announced.      *)
ConvergesToShortest ==
    [](\A n \in Nets : link[n])
      => <>[](\A r \in Routers, n \in Subnets : table[r][n].metric = Dist[r][n])

(* When a subnet stays down and no other link is repaired, every router    *)
(* gives its routes to the subnet up, also those that routers taught each  *)
(* other from responses sent before the failure.                           *)
FailuresForgotten ==
    \A n \in Subnets :
      /\ \A k \in FlapNets \ {n} : [](~link[k] => [](~link[k]))
      /\ <>[](~link[n])
      => <>[](\A r \in Routers : table[r][n].metric = INFINITY)

(* lab5/testcases.py, test cases 13 and 14: when a subnet stays down, no   *)
(* router keeps a route to it, whatever other links do meanwhile.          *)
StaleRoutesDie ==
    \A n \in Subnets :
      <>[](~link[n]) => <>[](\A r \in Routers : table[r][n].metric = INFINITY)

(* lab5/testcases.py, test case 15: once every interface is up             *)
(* again, every router reaches every subnet again.                         *)
RecoversWhenUp ==
    <>[](\A n \in Nets : link[n])
      => <>[](\A r \in Routers, n \in Subnets : table[r][n].metric < INFINITY)
=============================================================================
