----------------------------- MODULE VnsSession -----------------------------
(***************************************************************************)
(* The session between the routers (lab4/router/sr_vns_comm.c) and the     *)
(* controller (lab5/pox_module/pwospf: srhandler.py and ofhandler.py).     *)
(*                                                                         *)
(* Two threads of the controller share the tables of SRServerListener      *)
(* without a lock: the reactor thread handles the routers' commands, the   *)
(* POX thread relays what the switches report.  A router authenticates,    *)
(* opens its virtual host, is told its interfaces (VNSHWINFO) and from     *)
(* then on sends and receives packets; a packet whose data is "up" or      *)
(* "down" reports the state of an interface.  Every start of a router      *)
(* takes a new connection.                                                 *)
(*                                                                         *)
(* Abstracted: a command is a record (the byte stream is module            *)
(* LtProtocol); a frame is "frame"; keys and salts are good, so            *)
(* authentication succeeds; the rtable file fits the interfaces; what a    *)
(* router does with a frame is modules SrForward, SrArpCache and SrRip,    *)
(* here it may send frames at any time once it has interfaces.             *)
(***************************************************************************)
EXTENDS Integers, Sequences, SequencesExt, FiniteSets

CONSTANTS
    Vhosts,     \* virtual hosts: one router and one switch each
    Intfs,      \* interface names, the same at every router
    Port,       \* Port[v][i]: the port of i at the switch of v
    NoVhost, NoIntf,
    Templates,  \* FALSE: a router sends VNSOPEN; TRUE: VNS_OPEN_TEMPLATE (-T)
    MaxConns,   \* bound: starts of routers
    MaxUps,     \* bound: OpenFlow connections of the switches
    MaxEvents,  \* bound: frames and changes of interfaces
    QueueCap    \* bound: commands under way when a router sends a frame

ASSUME SessionAssumption ==
    /\ {MaxConns, MaxUps, MaxEvents, QueueCap} \subseteq Nat
    /\ NoVhost \notin Vhosts /\ NoIntf \notin Intfs
    /\ IsFiniteSet(Intfs)
    /\ Templates \subseteq BOOLEAN
    /\ Port \in [Vhosts -> [Intfs -> Nat]]
    /\ \A v \in Vhosts : \A i, j \in Intfs : Port[v][i] = Port[v][j] => i = j

Conns == 1 .. MaxConns
NoConn == 0

VARIABLES
    (* The controller *)
    interfaces,         \* vhosts whose interfaces and port maps are stored
    srclients,          \* srclients[v]: the connection v was last opened on
    srclients_reverse,  \* srclients_reverse[c]: the vhost opened on c
    opening,            \* the connection handle_open_msg is working on
    relay,              \* what send_to_vhost is about to send, as a sequence
    ofhandlers,         \* the OFHandler objects, <<vhost, number>>
    live,               \* those whose OpenFlow connection is up
    cstate,             \* the controller's view of each connection
    (* The routers *)
    router,             \* router[v]: process state, see RouterState
    owner,              \* owner[c]: the router that made connection c
    (* The network *)
    toRouter, toServer, \* commands under way on each connection
    link,               \* link[v][i]: the state of the port of i
    out,                \* what this step made the switches send
    events,             \* how many frames and changes there were
    (* History *)
    told                \* told[v]: interfaces whose last change was reported
                        \* after the router of v had handled VNSHWINFO

vars == <<interfaces, srclients, srclients_reverse, opening, relay, ofhandlers,
          live, cstate, router, owner, toRouter, toServer, link, out, events,
          told>>

switchVars == <<ofhandlers, live, interfaces, link>>

RouterState ==
    [pc : {"off", "auth", "status", "rtable", "run",
           "failed", "crashed", "spinning"},
     conn : Conns \cup {NoConn},
     template : BOOLEAN,
     hw : BOOLEAN,                        \* VNSHWINFO was handled
     status : [Intfs -> {"up", "down"}]]  \* sr_if_status_cache

Command(t, v) == [type |-> t, vhost |-> v, intf |-> NoIntf, data |-> "none"]
(* vhost: where the packet comes from; the code does not send it.          *)
Packet(v, i, d) == [type |-> "PACKET", vhost |-> v, intf |-> i, data |-> d]

Off == [pc |-> "off", conn |-> NoConn, template |-> FALSE, hw |-> FALSE,
        status |-> [i \in Intfs |-> "up"]]

(* The router's end of the connection is open.                             *)
Alive(c) ==
    /\ owner[c] # NoVhost
    /\ router[owner[c]].conn = c
    /\ router[owner[c]].pc \notin {"failed", "crashed"}

(* transport.write: what is written to a connection that is lost, or whose *)
(* router is gone, reaches nobody.                                         *)
Write(c, m) ==
    toRouter' = IF cstate[c] = "up" /\ Alive(c)
                THEN [toRouter EXCEPT ![c] = Append(@, m)] ELSE toRouter

Init ==
    /\ interfaces = {}
    /\ srclients = [v \in Vhosts |-> NoConn]
    /\ srclients_reverse = [c \in Conns |-> NoVhost]
    /\ opening = NoConn
    /\ relay = <<>>
    /\ ofhandlers = {} /\ live = {}
    /\ cstate = [c \in Conns |-> "unused"]
    /\ router = [v \in Vhosts |-> Off]
    /\ owner = [c \in Conns |-> NoVhost]
    /\ toRouter = [c \in Conns |-> <<>>]
    /\ toServer = [c \in Conns |-> <<>>]
    /\ link = [v \in Vhosts |-> [i \in Intfs |-> "up"]]
    /\ out = {}
    /\ events = 0
    /\ told = [v \in Vhosts |-> {}]

-----------------------------------------------------------------------------
(* The POX thread: it runs one handler at a time                           *)

(* A switch is connected: a new OFHandler subscribes to it and to the      *)
(* routers' packets (the handlers of earlier connections stay subscribed), *)
(* and raises RouterInfo, whose handler stores interfaces and port maps.   *)
handle_ConnectionUp(v) ==
    LET n == Cardinality({h \in ofhandlers : h[1] = v}) + 1
    IN /\ relay = <<>>
       /\ Cardinality(ofhandlers) < MaxUps
       /\ ~ \E h \in live : h[1] = v
       /\ ofhandlers' = ofhandlers \cup {<<v, n>>}
       /\ live' = live \cup {<<v, n>>}
       /\ interfaces' = interfaces \cup {v}
       /\ out' = {}
       /\ UNCHANGED <<srclients, srclients_reverse, opening, relay, cstate,
                      router, owner, toRouter, toServer, link, events, told>>

(* The switch goes away; nothing here listens to ConnectionDown.           *)
ConnectionDown(v) ==
    /\ relay = <<>>
    /\ \E h \in live : h[1] = v /\ live' = live \ {h}
    /\ out' = {}
    /\ UNCHANGED <<interfaces, srclients, srclients_reverse, opening, relay,
                   ofhandlers, cstate, router, owner, toRouter, toServer,
                   link, events, told>>

(* The first half of send_to_vhost: the connection is looked up.           *)
send_to_vhost(m, v) ==
    relay' = IF srclients[v] # NoConn
             THEN <<[conn |-> srclients[v], msg |-> m]>> ELSE <<>>

(* Mutant: the router is told the number of the port.                      *)
SRPacketInByPort(v, p, data) ==
    IF v \in interfaces THEN send_to_vhost(Packet(v, p, data), v)
    ELSE UNCHANGED relay

(* SRPacketIn(data, port, v) is raised: the port is mapped to a name.      *)
handle_SRPacketIn(v, p, data) ==
    IF v \in interfaces /\ \E i \in Intfs : Port[v][i] = p
    THEN send_to_vhost(Packet(v, CHOOSE i \in Intfs : Port[v][i] = p, data), v)
    ELSE UNCHANGED relay

(* A frame arrives at the switch (the buffered copy is dropped there).     *)
handle_PacketIn(v, i) ==
    /\ relay = <<>> /\ events < MaxEvents
    /\ \E h \in live : h[1] = v
    /\ handle_SRPacketIn(v, Port[v][i], "frame")
    /\ events' = events + 1
    /\ out' = {}
    /\ UNCHANGED <<switchVars, srclients, srclients_reverse, opening, cstate,
                   router, owner, toRouter, toServer, told>>

(* The switch reports that the interface changed.                          *)
handle_PortStatus(v, i) ==
    LET s == IF link[v][i] = "up" THEN "down" ELSE "up"
    IN /\ relay = <<>> /\ events < MaxEvents
       /\ \E h \in live : h[1] = v
       /\ link' = [link EXCEPT ![v][i] = s]
       /\ handle_SRPacketIn(v, Port[v][i], s)
       /\ told' = IF router[v].hw THEN [told EXCEPT ![v] = @ \cup {i}] ELSE told
       /\ events' = events + 1
       /\ out' = {}
       /\ UNCHANGED <<interfaces, srclients, srclients_reverse, opening,
                      ofhandlers, live, cstate, router, owner, toRouter,
                      toServer>>

(* An interface changes while its switch is not connected: a features      *)
(* reply tells of it, but OFHandler passes on the names of ports only.     *)
UnseenChange(v, i) ==
    /\ events < MaxEvents
    /\ ~ \E h \in live : h[1] = v
    /\ link' = [link EXCEPT ![v][i] = IF @ = "up" THEN "down" ELSE "up"]
    /\ told' = [told EXCEPT ![v] = @ \ {i}]
    /\ events' = events + 1
    /\ out' = {}
    /\ UNCHANGED <<interfaces, srclients, srclients_reverse, opening, relay,
                   ofhandlers, live, cstate, router, owner, toRouter, toServer>>

(* The second half of send_to_vhost.                                       *)
vhost_conn_send ==
    /\ relay # <<>>
    /\ Write(relay[1].conn, relay[1].msg)
    /\ relay' = <<>>
    /\ out' = {}
    /\ UNCHANGED <<switchVars, srclients, srclients_reverse, opening, cstate,
                   router, owner, toServer, events, told>>

-----------------------------------------------------------------------------
(* The reactor thread: it runs one callback at a time                      *)

Reads(c, t) ==
    /\ opening = NoConn /\ cstate[c] = "up"
    /\ toServer[c] # <<>> /\ Head(toServer[c]).type = t

(* An exception in a callback makes twisted close the connection.          *)
LoseConnection(c) ==
    /\ cstate' = [cstate EXCEPT ![c] = "lost"]
    /\ toServer' = [toServer EXCEPT ![c] = <<>>]

handle_new_client(c) ==
    /\ opening = NoConn /\ cstate[c] = "connecting"
    /\ cstate' = [cstate EXCEPT ![c] = "up"]
    /\ toRouter' = IF Alive(c)
                   THEN [toRouter EXCEPT ![c] = Append(@, Command("AUTH_REQUEST", NoVhost))]
                   ELSE toRouter
    /\ out' = {}
    /\ UNCHANGED <<switchVars, srclients, srclients_reverse, opening, relay,
                   router, owner, toServer, events, told>>

(* Always authenticated.                                                   *)
handle_auth_reply(c) ==
    /\ Reads(c, "AUTH_REPLY")
    /\ toServer' = [toServer EXCEPT ![c] = Tail(@)]
    /\ Write(c, Command("AUTH_STATUS", NoVhost))
    /\ out' = {}
    /\ UNCHANGED <<switchVars, srclients, srclients_reverse, opening, relay,
                   cstate, router, owner, events, told>>

(* Mutant: a vhost that was opened before keeps its connection.            *)
OpenKeepsFirst(c) ==
    /\ Reads(c, "OPEN")
    /\ LET v == Head(toServer[c]).vhost
       IN /\ srclients' = [srclients EXCEPT ![v] = IF @ = NoConn THEN c ELSE @]
          /\ srclients_reverse' = [srclients_reverse EXCEPT ![c] = v]
    /\ opening' = c
    /\ toServer' = [toServer EXCEPT ![c] = Tail(@)]
    /\ out' = {}
    /\ UNCHANGED <<switchVars, relay, cstate, router, owner, toRouter, events, told>>

(* From here on the POX thread sends to this connection ...                *)
handle_open_msg(c) ==
    /\ Reads(c, "OPEN")
    /\ LET v == Head(toServer[c]).vhost
       IN /\ srclients' = [srclients EXCEPT ![v] = c]
          /\ srclients_reverse' = [srclients_reverse EXCEPT ![c] = v]
    /\ opening' = c
    /\ toServer' = [toServer EXCEPT ![c] = Tail(@)]
    /\ out' = {}
    /\ UNCHANGED <<switchVars, relay, cstate, router, owner, toRouter, events, told>>

(* Mutant: the interfaces are sent only while the switch is connected.     *)
HardwareInfoIfLive ==
    /\ opening # NoConn
    /\ IF \E h \in live : h[1] = srclients_reverse[opening]
       THEN Write(opening, Command("HWINFO", NoVhost))
       ELSE UNCHANGED toRouter
    /\ opening' = NoConn
    /\ out' = {}
    /\ UNCHANGED <<switchVars, srclients, srclients_reverse, relay, cstate,
                   router, owner, toServer, events, told>>

(* ... and only now the interfaces are sent, if they are known yet.        *)
send_hardware_info ==
    /\ opening # NoConn
    /\ IF srclients_reverse[opening] \in interfaces
       THEN Write(opening, Command("HWINFO", NoVhost))
       ELSE UNCHANGED toRouter
    /\ opening' = NoConn
    /\ out' = {}
    /\ UNCHANGED <<switchVars, srclients, srclients_reverse, relay, cstate,
                   router, owner, toServer, events, told>>

(* The method lacks its self parameter: calling it raises TypeError.       *)
handle_open_template_msg(c) ==
    /\ Reads(c, "OPEN_TEMPLATE")
    /\ LoseConnection(c)
    /\ out' = {}
    /\ UNCHANGED <<switchVars, srclients, srclients_reverse, opening, relay,
                   router, owner, toRouter, events, told>>

(* Mutant: every switch sends it.                                          *)
PacketToAll(c) ==
    LET v == srclients_reverse[c]
        m == Head(toServer[c])
    IN /\ Reads(c, "PACKET")
       /\ v \in interfaces
       /\ out' = {[switch |-> h, port |-> Port[v][m.intf], msg |-> m] : h \in live}
       /\ toServer' = [toServer EXCEPT ![c] = Tail(@)]
       /\ UNCHANGED <<switchVars, srclients, srclients_reverse, opening, relay,
                      cstate, router, owner, toRouter, events, told>>

(* A frame of a router: SRPacketOut is raised, and every OFHandler of the  *)
(* vhost passes it to its switch.  On a connection without vhost, or for   *)
(* an interface without port, an exception is raised.                      *)
handle_packet_msg(c) ==
    LET v == srclients_reverse[c]
        m == Head(toServer[c])
    IN /\ Reads(c, "PACKET")
       /\ IF v \in interfaces /\ m.intf \in Intfs
          THEN /\ out' = {[switch |-> h, port |-> Port[v][m.intf], msg |-> m] :
                            h \in {k \in ofhandlers \cap live : k[1] = v}}
               /\ toServer' = [toServer EXCEPT ![c] = Tail(@)]
               /\ UNCHANGED cstate
          ELSE LoseConnection(c) /\ out' = {}
       /\ UNCHANGED <<switchVars, srclients, srclients_reverse, opening, relay,
                      router, owner, toRouter, events, told>>

(* The router has gone and all it sent was read.  srclients is left alone. *)
handle_client_disconnected(c) ==
    /\ opening = NoConn /\ cstate[c] = "up"
    /\ ~ Alive(c) /\ toServer[c] = <<>>
    /\ cstate' = [cstate EXCEPT ![c] = "lost"]
    /\ out' = {}
    /\ UNCHANGED <<switchVars, srclients, srclients_reverse, opening, relay,
                   router, owner, toRouter, toServer, events, told>>

-----------------------------------------------------------------------------
(* The routers                                                             *)

(* sr_connect_to_server: the process of v is started and connects.  It is  *)
(* started by hand, long after the reactor has read what an earlier        *)
(* process of the vhost sent.                                              *)
sr_connect_to_server(v, template) ==
    \E c \in Conns :
      /\ router[v].pc = "off"
      /\ cstate[c] = "unused" /\ \A d \in 1 .. c - 1 : cstate[d] # "unused"
      /\ \A d \in Conns : owner[d] = v => toServer[d] = <<>> /\ opening # d
      /\ router' = [router EXCEPT ![v] =
                      [Off EXCEPT !.pc = "auth", !.conn = c, !.template = template]]
      /\ owner' = [owner EXCEPT ![c] = v]
      /\ cstate' = [cstate EXCEPT ![c] = "connecting"]
      /\ out' = {}
      /\ UNCHANGED <<switchVars, srclients, srclients_reverse, opening, relay,
                     toRouter, toServer, events, told>>

(* The command sr_read_from_server_expect returns next to the router of v. *)
Received(v) == Head(toRouter[router[v].conn])

CanRead(v) ==
    router[v].conn # NoConn /\ toRouter[router[v].conn] # <<>>

Take(v) == toRouter' = [toRouter EXCEPT ![router[v].conn] = Tail(@)]

SendToServer(v, s) ==
    toServer' = IF cstate[router[v].conn] = "lost" THEN toServer
                ELSE [toServer EXCEPT ![router[v].conn] = @ \o s]

(* The three commands a router waits for before the main loop; any other   *)
(* makes sr_connect_to_server fail and the process end.                    *)
Expected == [auth |-> "AUTH_REQUEST", status |-> "AUTH_STATUS", rtable |-> "RTABLE"]

(* Mutant: a routing table is waited for without a template, too.          *)
StageRtable(r) ==
    CASE r.pc = "auth" -> "status" [] r.pc = "status" -> "rtable" [] OTHER -> "run"

(* What comes after the command: a routing table only with a template.     *)
Stage(r) ==
    CASE r.pc = "auth" -> "status"
      [] r.pc = "status" /\ r.template -> "rtable"
      [] OTHER -> "run"

Expect(v) ==
    LET r == router[v]
        ok == Received(v).type = Expected[r.pc]
        reply == IF r.pc = "auth" THEN <<Command("AUTH_REPLY", NoVhost)>>
                 ELSE IF r.pc = "rtable" THEN <<>>
                 ELSE <<Command(IF r.template THEN "OPEN_TEMPLATE" ELSE "OPEN", v)>>
    IN /\ r.pc \in DOMAIN Expected /\ CanRead(v)
       /\ router' = [router EXCEPT ![v].pc = IF ok THEN Stage(r) ELSE "failed"]
       /\ SendToServer(v, IF ok THEN reply ELSE <<>>)
       /\ Take(v)
       /\ out' = {}
       /\ UNCHANGED <<switchVars, srclients, srclients_reverse, opening, relay,
                      cstate, owner, events, told>>

(* VNSHWINFO in the main loop: the interfaces are added, all up, and a RIP *)
(* request goes out of each (send_rip_request).                            *)
sr_handle_hwinfo(v) ==
    /\ router[v].pc = "run" /\ CanRead(v) /\ Received(v).type = "HWINFO"
    /\ router' = [router EXCEPT ![v].hw = TRUE,
                                ![v].status = [i \in Intfs |-> "up"]]
    /\ told' = [told EXCEPT ![v] = {}]
    /\ LET ifs == SetToSeq(Intfs)
       IN SendToServer(v, [k \in 1 .. Len(ifs) |-> Packet(v, ifs[k], "frame")])
    /\ Take(v)
    /\ out' = {}
    /\ UNCHANGED <<switchVars, srclients, srclients_reverse, opening, relay,
                   cstate, owner, events>>

(* VNSPACKET in the main loop.  A status message changes the entry of the  *)
(* interface, if there is one.  Any other frame is looked at first by      *)
(* sr_arp_req_not_for_us, which asserts that the interface is known.       *)
sr_handle_packet(v) ==
    LET m == Received(v)
    IN /\ router[v].pc = "run" /\ CanRead(v) /\ m.type = "PACKET"
       /\ router' =
            IF m.data \in {"up", "down"}
            THEN IF router[v].hw
                 THEN [router EXCEPT ![v].status[m.intf] = m.data] ELSE router
            ELSE IF router[v].hw
                 THEN router ELSE [router EXCEPT ![v].pc = "crashed"]
       /\ Take(v)
       /\ out' = {}
       /\ UNCHANGED <<switchVars, srclients, srclients_reverse, opening, relay,
                      cstate, owner, toServer, events, told>>

(* Any of its threads sends a frame out of one of its interfaces.          *)
sr_send_packet(v, i) ==
    /\ router[v].pc = "run" /\ router[v].hw
    /\ events < MaxEvents /\ Len(toServer[router[v].conn]) < QueueCap
    /\ SendToServer(v, <<Packet(v, i, "frame")>>)
    /\ events' = events + 1
    /\ out' = {}
    /\ UNCHANGED <<switchVars, srclients, srclients_reverse, opening, relay,
                   cstate, router, owner, toRouter, told>>

(* The controller has closed the connection: recv and read return 0, and   *)
(* the loops around them add 0 to bytes_read for ever.                     *)
Spin(v) ==
    /\ router[v].pc \in {"auth", "status", "rtable", "run"}
    /\ cstate[router[v].conn] = "lost" /\ ~ CanRead(v)
    /\ router' = [router EXCEPT ![v].pc = "spinning"]
    /\ out' = {}
    /\ UNCHANGED <<switchVars, srclients, srclients_reverse, opening, relay,
                   cstate, owner, toRouter, toServer, events, told>>

(* The process ends: it is killed, or it has failed or crashed.            *)
Stop(v) ==
    /\ router[v].pc # "off"
    /\ toRouter' = [toRouter EXCEPT ![router[v].conn] = <<>>]
    /\ router' = [router EXCEPT ![v] = Off]
    /\ told' = [told EXCEPT ![v] = {}]
    /\ out' = {}
    /\ UNCHANGED <<switchVars, srclients, srclients_reverse, opening, relay,
                   cstate, owner, toServer, events>>

-----------------------------------------------------------------------------
Pox ==
    \/ \E v \in Vhosts : \/ handle_ConnectionUp(v)
                        \/ ConnectionDown(v)
                        \/ \E i \in Intfs : \/ handle_PacketIn(v, i)
                                           \/ handle_PortStatus(v, i)
    \/ vhost_conn_send

Ports == \E v \in Vhosts, i \in Intfs : UnseenChange(v, i)

Reactor ==
    \/ \E c \in Conns : \/ handle_new_client(c)
                       \/ handle_auth_reply(c)
                       \/ handle_open_msg(c)
                       \/ handle_open_template_msg(c)
                       \/ handle_packet_msg(c)
                       \/ handle_client_disconnected(c)
    \/ send_hardware_info

RouterReads(v) ==
    \/ Expect(v)
    \/ sr_handle_hwinfo(v)
    \/ sr_handle_packet(v)
    \/ Spin(v)

Router(v) ==
    \/ \E t \in Templates : sr_connect_to_server(v, t)
    \/ RouterReads(v)
    \/ \E i \in Intfs : sr_send_packet(v, i)
    \/ Stop(v)

Next == Pox \/ Ports \/ Reactor \/ \E v \in Vhosts : Router(v)

Spec == Init /\ [][Next]_vars

(* The reactor and the POX thread go on, and a router reads what arrives.  *)
(* Nothing says that switches or routers are started.                      *)
Fairness ==
    /\ WF_vars(Reactor)
    /\ WF_vars(vhost_conn_send)
    /\ \A v \in Vhosts : WF_vars(RouterReads(v))

FairSpec == Spec /\ Fairness

-----------------------------------------------------------------------------
(* Properties                                                              *)

Messages == [type : {"AUTH_REQUEST", "AUTH_REPLY", "AUTH_STATUS", "OPEN",
                     "OPEN_TEMPLATE", "HWINFO", "PACKET"},
             vhost : Vhosts \cup {NoVhost},
             intf : Intfs \cup {NoIntf},
             data : {"none", "frame", "up", "down"}]

TypeOK ==
    /\ interfaces \subseteq Vhosts
    /\ srclients \in [Vhosts -> Conns \cup {NoConn}]
    /\ srclients_reverse \in [Conns -> Vhosts \cup {NoVhost}]
    /\ opening \in Conns \cup {NoConn}
    /\ relay = <<>> \/ \E c \in Conns, m \in Messages :
                         relay = <<[conn |-> c, msg |-> m]>>
    /\ ofhandlers \subseteq Vhosts \X (1 .. MaxUps) /\ live \subseteq ofhandlers
    /\ cstate \in [Conns -> {"unused", "connecting", "up", "lost"}]
    /\ router \in [Vhosts -> RouterState]
    /\ owner \in [Conns -> Vhosts \cup {NoVhost}]
    /\ toRouter \in [Conns -> Seq(Messages)]
    /\ toServer \in [Conns -> Seq(Messages)]
    /\ link \in [Vhosts -> [Intfs -> {"up", "down"}]]
    /\ events \in 0 .. MaxEvents
    /\ told \in [Vhosts -> SUBSET Intfs]

(* A session that has begun lasts.  sr_connect_to_server never meets a     *)
(* command it does not expect, whatever the POX thread relays meanwhile:   *)
(* nothing is sent to a connection before its VNSOPEN but the two commands *)
(* of the authentication.  The controller never drops the connection of a  *)
(* running router (which would then spin in its read loop):                *)
(* _handle_packet_msg always finds the vhost of the connection and the     *)
(* port of the interface.  Only VNS_OPEN_TEMPLATE, which the controller    *)
(* cannot handle, ends that way.                                           *)
SessionsLast ==
    \A v \in Vhosts :
      /\ router[v].pc # "failed"
      /\ router[v].pc = "spinning" => router[v].template
      /\ router[v].hw => cstate[router[v].conn] = "up"

(* Frames stay with their vhost: what is under way to a router came from   *)
(* its own switch, and what a router sends leaves its own switch, once,    *)
(* by the port of the interface it named, also after routers and switches  *)
(* have reconnected and old handlers and connections are still registered. *)
FramesStayWithVhost ==
    /\ \A c \in Conns : \A k \in 1 .. Len(toRouter[c]) :
         toRouter[c][k].type = "PACKET" => toRouter[c][k].vhost = owner[c]
    /\ \A o, p \in out : o = p
    /\ \A o \in out : o.switch[1] = o.msg.vhost
                      /\ o.port = Port[o.msg.vhost][o.msg.intf]

(* The positions in s of the status messages for interface i; and whether  *)
(* send_to_vhost is about to send one to the router of v.                  *)
IsReport(m, i) == m.type = "PACKET" /\ m.intf = i /\ m.data \in {"up", "down"}
Reports(s, i) == {k \in 1 .. Len(s) : IsReport(s[k], i)}
Relaying(v, i) ==
    relay # <<>> /\ relay[1].conn = router[v].conn /\ IsReport(relay[1].msg, i)

(* A router that has its interfaces learns every later change its switch   *)
(* reports: the last report under way, or else what the router knows, is   *)
(* the state of the port.  A change before VNSHWINFO is handled is lost,   *)
(* and so is one while the switch is away, which the router learns only    *)
(* with the next change.                                                   *)
StatusFollows ==
    \A v \in Vhosts : \A i \in told[v] :
      router[v].pc = "run" =>
        LET s == toRouter[router[v].conn]
        IN IF Relaying(v, i) THEN link[v][i] = relay[1].msg.data
           ELSE /\ Reports(s, i) = {} => link[v][i] = router[v].status[i]
                /\ \A k \in Reports(s, i) :
                     (\A j \in Reports(s, i) : j <= k) => link[v][i] = s[k].data

(* assert(iface) in sr_arp_req_not_for_us holds: no router is given a      *)
(* frame before its interfaces.                                            *)
AssertIface == \A v \in Vhosts : router[v].pc # "crashed"

(* A router that is started when its switch has been announced gets its    *)
(* interfaces, unless it is stopped, or crashes on an early frame.         *)
GetsInterfaces ==
    \A v \in Vhosts :
      (router[v].pc = "auth" /\ ~ router[v].template /\ v \in interfaces)
        ~> (router[v].hw \/ router[v].pc \in {"off", "crashed"})
=============================================================================
