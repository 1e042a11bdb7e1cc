-------------------------- MODULE VnsSessionProofs --------------------------
(***************************************************************************)
(* Proofs about module VnsSession, for any vhosts, interfaces and ports    *)
(* and any number of starts, connections and frames: its types, that the   *)
(* controller drops no running router, that frames stay with their vhost,  *)
(* and that routers learn of every change of an interface they have.       *)
(*                                                                         *)
(* The inductive invariant SessionInv says what may be under way at each   *)
(* stage of sr_connect_to_server (StageOK), what the handler's tables say  *)
(* of a connection (TablesOK, ConnOK), and that the last VNSOPEN of a      *)
(* vhost is that of its running router (LatestOK).                         *)
(***************************************************************************)
EXTENDS VnsSession, TLAPS, SequenceTheorems, FiniteSetTheorems

(* The OFHandlers are numbered within the bound on connections.            *)
HandlersCounted == IsFiniteSet(ofhandlers)

LEMMA NumberInBound ==
    ASSUME TypeOK, HandlersCounted, NEW v, Cardinality(ofhandlers) < MaxUps
    PROVE  Cardinality({h \in ofhandlers : h[1] = v}) + 1 \in 1 .. MaxUps
  <1> DEFINE H == {h \in ofhandlers : h[1] = v}
  <1>1. IsFiniteSet(H) /\ Cardinality(H) <= Cardinality(ofhandlers)
    BY FS_Subset DEF HandlersCounted
  <1>2. Cardinality(H) \in Nat /\ Cardinality(ofhandlers) \in Nat /\ MaxUps \in Nat
    BY <1>1, FS_CardinalityType, SessionAssumption DEF HandlersCounted
  <1> HIDE DEF H
  <1>3. Cardinality(H) + 1 \in 1 .. MaxUps
    BY <1>1, <1>2
  <1>4. QED
    BY <1>3 DEF H

LEMMA InterfaceList ==
    SetToSeq(Intfs) \in Seq(Intfs)
  <1> DEFINE n == Cardinality(Intfs)
  <1>1. n \in Nat /\ ExistsBijection(1 .. n, Intfs)
    BY SessionAssumption, FS_CardinalityType
  <1>2. PICK f \in Bijection(1 .. n, Intfs) : TRUE
    BY <1>1 DEF ExistsBijection
  <1>3. f \in [1 .. n -> Intfs] /\ IsInjective(f)
    BY <1>2 DEF Bijection, Injection, IsInjective
  <1>4. SetToSeq(Intfs) \in [1 .. n -> Intfs]
    BY <1>3 DEF SetToSeq
  <1>5. QED
    BY <1>1, <1>4

LEMMA CommandTypes ==
    /\ \A t \in {"AUTH_REQUEST", "AUTH_REPLY", "AUTH_STATUS", "OPEN", "OPEN_TEMPLATE", "HWINFO"} :
         \A v \in Vhosts \cup {NoVhost} : Command(t, v) \in Messages
    /\ \A v \in Vhosts, i \in Intfs, d \in {"frame", "up", "down"} : Packet(v, i, d) \in Messages
  BY DEF Command, Packet, Messages

LEMMA WriteType ==
    ASSUME TypeOK, NEW c \in Conns, NEW m \in Messages, Write(c, m)
    PROVE  toRouter' \in [Conns -> Seq(Messages)]
  BY DEF Write, TypeOK

(* A router that keeps to its states                                       *)
LEMMA RouterType ==
    ASSUME TypeOK, NEW v \in Vhosts, NEW r \in RouterState, router' = [router EXCEPT ![v] = r]
    PROVE  router' \in [Vhosts -> RouterState]
  BY DEF TypeOK

LEMMA PcType ==
    ASSUME NEW r \in RouterState,
           NEW q \in {"off", "auth", "status", "rtable", "run", "failed", "crashed", "spinning"}
    PROVE  [r EXCEPT !.pc = q] \in RouterState
  BY DEF RouterState

LEMMA TakeType ==
    ASSUME TypeOK, NEW v \in Vhosts, CanRead(v), Take(v)
    PROVE  /\ toRouter' \in [Conns -> Seq(Messages)] /\ router[v].conn \in Conns
           /\ Received(v) \in Messages
  BY DEF Take, CanRead, Received, TypeOK, RouterState

LEMMA SendToServerType ==
    ASSUME TypeOK, NEW v \in Vhosts, NEW s \in Seq(Messages), SendToServer(v, s)
    PROVE  toServer' \in [Conns -> Seq(Messages)]
  <1>1. CASE router[v].conn \in Conns
    <2>1. toServer[router[v].conn] \o s \in Seq(Messages)
      BY <1>1, ConcatProperties DEF TypeOK
    <2>2. QED
      BY <1>1, <2>1 DEF SendToServer, TypeOK
  <1>2. CASE router[v].conn \notin Conns
    BY <1>2 DEF SendToServer, TypeOK
  <1>3. QED
    BY <1>1, <1>2

LEMMA RelayType ==
    ASSUME TypeOK, NEW v \in Vhosts, NEW p, NEW d \in {"frame", "up", "down"}, relay = <<>>,
           handle_SRPacketIn(v, p, d)
    PROVE  relay' = <<>> \/ \E c \in Conns, m \in Messages : relay' = <<[conn |-> c, msg |-> m]>>
  <1>1. CASE v \in interfaces /\ (\E i \in Intfs : Port[v][i] = p) /\ srclients[v] # NoConn
    <2>1. PICK i \in Intfs : i = CHOOSE j \in Intfs : Port[v][j] = p
      BY <1>1
    <2>2. Packet(v, i, d) \in Messages
      BY CommandTypes
    <2>3. srclients[v] \in Conns
      BY <1>1 DEF TypeOK
    <2>4. relay' = <<[conn |-> srclients[v], msg |-> Packet(v, i, d)]>>
      BY <1>1, <2>1 DEF handle_SRPacketIn, send_to_vhost
    <2>5. QED
      BY <2>2, <2>3, <2>4
  <1>2. CASE ~(v \in interfaces /\ (\E i \in Intfs : Port[v][i] = p) /\ srclients[v] # NoConn)
    BY <1>2 DEF handle_SRPacketIn, send_to_vhost
  <1>3. QED
    BY <1>1, <1>2

(* The types of everything a step leaves alone                             *)
LEMMA TypesNext ==
    ASSUME TypeOK, HandlersCounted, [Next]_vars
    PROVE  TypeOK' /\ HandlersCounted'
  <1> USE DEF switchVars
  <1>1. ASSUME NEW v \in Vhosts, handle_ConnectionUp(v) PROVE TypeOK' /\ HandlersCounted'
    <2>1. PICK n \in 1 .. MaxUps : n = Cardinality({h \in ofhandlers : h[1] = v}) + 1
      BY <1>1, NumberInBound DEF handle_ConnectionUp
    <2>2. /\ ofhandlers' = ofhandlers \cup {<<v, n>>} /\ live' = live \cup {<<v, n>>}
          /\ interfaces' = interfaces \cup {v}
      BY <1>1, <2>1 DEF handle_ConnectionUp
    <2>3. HandlersCounted'
      BY <2>2, FS_AddElement DEF HandlersCounted
    <2>4. QED
      BY <1>1, <2>2, <2>3 DEF handle_ConnectionUp, TypeOK
  <1>2. ASSUME NEW v \in Vhosts, ConnectionDown(v) PROVE TypeOK' /\ HandlersCounted'
    BY <1>2 DEF ConnectionDown, TypeOK, HandlersCounted
  <1>3. ASSUME NEW v \in Vhosts, NEW i \in Intfs, handle_PacketIn(v, i)
        PROVE  TypeOK' /\ HandlersCounted'
    <2>1. relay' = <<>> \/ \E c \in Conns, m \in Messages : relay' = <<[conn |-> c, msg |-> m]>>
      BY <1>3, RelayType DEF handle_PacketIn
    <2>2. events' \in 0 .. MaxEvents
      BY <1>3, SessionAssumption DEF handle_PacketIn, TypeOK
    <2>3. QED
      BY <1>3, <2>1, <2>2 DEF handle_PacketIn, TypeOK, HandlersCounted
  <1>4. ASSUME NEW v \in Vhosts, NEW i \in Intfs, handle_PortStatus(v, i)
        PROVE  TypeOK' /\ HandlersCounted'
    <2>1. PICK d \in {"up", "down"} :
            link' = [link EXCEPT ![v][i] = d] /\ handle_SRPacketIn(v, Port[v][i], d)
      BY <1>4 DEF handle_PortStatus
    <2>2. relay' = <<>> \/ \E c \in Conns, m \in Messages : relay' = <<[conn |-> c, msg |-> m]>>
      BY <1>4, <2>1, RelayType DEF handle_PortStatus
    <2>3. link' \in [Vhosts -> [Intfs -> {"up", "down"}]]
      BY <2>1 DEF TypeOK
    <2>4. events' \in 0 .. MaxEvents /\ told' \in [Vhosts -> SUBSET Intfs]
      BY <1>4, SessionAssumption DEF handle_PortStatus, TypeOK
    <2>5. QED
      BY <1>4, <2>2, <2>3, <2>4 DEF handle_PortStatus, TypeOK, HandlersCounted
  <1>4a. ASSUME NEW v \in Vhosts, NEW i \in Intfs, UnseenChange(v, i)
         PROVE  TypeOK' /\ HandlersCounted'
    <2>1. PICK d \in {"up", "down"} : link' = [link EXCEPT ![v][i] = d]
      BY <1>4a DEF UnseenChange, TypeOK
    <2>2. link' \in [Vhosts -> [Intfs -> {"up", "down"}]]
      BY <2>1 DEF TypeOK
    <2>3. events' \in 0 .. MaxEvents /\ told' \in [Vhosts -> SUBSET Intfs]
      BY <1>4a, SessionAssumption DEF UnseenChange, TypeOK
    <2> QED
      BY <1>4a, <2>2, <2>3 DEF UnseenChange, TypeOK, HandlersCounted
  <1>5. CASE vhost_conn_send
    <2>1. PICK c \in Conns, m \in Messages : relay = <<[conn |-> c, msg |-> m]>>
      BY <1>5 DEF vhost_conn_send, TypeOK
    <2>2. Write(c, m)
      BY <1>5, <2>1 DEF vhost_conn_send
    <2>3. toRouter' \in [Conns -> Seq(Messages)]
      BY <2>2, WriteType
    <2>4. QED
      BY <1>5, <2>3 DEF vhost_conn_send, TypeOK, HandlersCounted
  <1>6. ASSUME NEW c \in Conns, handle_new_client(c) PROVE TypeOK' /\ HandlersCounted'
    <2>1. Command("AUTH_REQUEST", NoVhost) \in Messages
      BY CommandTypes
    <2>2. toRouter' \in [Conns -> Seq(Messages)]
      BY <1>6, <2>1 DEF handle_new_client, TypeOK
    <2>3. QED
      BY <1>6, <2>2 DEF handle_new_client, TypeOK, HandlersCounted
  <1>7. ASSUME NEW c \in Conns, handle_auth_reply(c) PROVE TypeOK' /\ HandlersCounted'
    <2>1. toRouter' \in [Conns -> Seq(Messages)]
      BY <1>7, WriteType, CommandTypes DEF handle_auth_reply
    <2>2. toServer' \in [Conns -> Seq(Messages)]
      BY <1>7 DEF handle_auth_reply, Reads, TypeOK
    <2>3. QED
      BY <1>7, <2>1, <2>2 DEF handle_auth_reply, TypeOK, HandlersCounted
  <1>8. ASSUME NEW c \in Conns, handle_open_msg(c) PROVE TypeOK' /\ HandlersCounted'
    <2>1. Head(toServer[c]) \in Messages
      BY <1>8 DEF handle_open_msg, Reads, TypeOK
    <2>2. toServer' \in [Conns -> Seq(Messages)]
      BY <1>8 DEF handle_open_msg, Reads, TypeOK
    <2>3. PICK w \in Vhosts \cup {NoVhost} : w = Head(toServer[c]).vhost
      BY <2>1 DEF Messages
    <2>4. srclients' \in [Vhosts -> Conns \cup {NoConn}] /\ srclients_reverse' \in [Conns -> Vhosts \cup {NoVhost}]
      BY <1>8, <2>3 DEF handle_open_msg, TypeOK
    <2>5. QED
      BY <1>8, <2>2, <2>4 DEF handle_open_msg, TypeOK, HandlersCounted
  <1>9. CASE send_hardware_info
    <2>1. opening \in Conns
      BY <1>9 DEF send_hardware_info, TypeOK
    <2>2. toRouter' \in [Conns -> Seq(Messages)]
      <3>1. CASE toRouter' = toRouter
        BY <3>1 DEF TypeOK
      <3>2. CASE Write(opening, Command("HWINFO", NoVhost))
        BY <2>1, <3>2, WriteType, CommandTypes
      <3>3. QED
        BY <1>9, <3>1, <3>2 DEF send_hardware_info
    <2>3. QED
      BY <1>9, <2>2 DEF send_hardware_info, TypeOK, HandlersCounted
  <1>10. ASSUME NEW c \in Conns, handle_open_template_msg(c) PROVE TypeOK' /\ HandlersCounted'
    BY <1>10 DEF handle_open_template_msg, LoseConnection, TypeOK, HandlersCounted
  <1>11. ASSUME NEW c \in Conns, handle_packet_msg(c) PROVE TypeOK' /\ HandlersCounted'
    <2>1. cstate' \in [Conns -> {"unused", "connecting", "up", "lost"}] /\ toServer' \in [Conns -> Seq(Messages)]
      <3>1. CASE toServer' = [toServer EXCEPT ![c] = Tail(@)] /\ cstate' = cstate
        BY <1>11, <3>1 DEF handle_packet_msg, Reads, TypeOK
      <3>2. CASE LoseConnection(c)
        BY <3>2 DEF LoseConnection, TypeOK
      <3>3. QED
        BY <1>11, <3>1, <3>2 DEF handle_packet_msg
    <2>2. QED
      BY <1>11, <2>1 DEF handle_packet_msg, TypeOK, HandlersCounted
  <1>12. ASSUME NEW c \in Conns, handle_client_disconnected(c) PROVE TypeOK' /\ HandlersCounted'
    BY <1>12 DEF handle_client_disconnected, TypeOK, HandlersCounted
  <1>13. ASSUME NEW v \in Vhosts, NEW t \in Templates, sr_connect_to_server(v, t)
         PROVE  TypeOK' /\ HandlersCounted'
    <2>1. PICK c \in Conns :
            /\ router' = [router EXCEPT ![v] = [Off EXCEPT !.pc = "auth", !.conn = c, !.template = t]]
            /\ owner' = [owner EXCEPT ![c] = v]
            /\ cstate' = [cstate EXCEPT ![c] = "connecting"]
            /\ UNCHANGED <<switchVars, srclients, srclients_reverse, opening, relay,
                           toRouter, toServer, events, told>>
      BY <1>13 DEF sr_connect_to_server
    <2>2. [Off EXCEPT !.pc = "auth", !.conn = c, !.template = t] \in RouterState
      BY SessionAssumption DEF Off, RouterState
    <2>3. router' \in [Vhosts -> RouterState]
      BY <2>1, <2>2 DEF TypeOK
    <2>4. QED
      BY <2>1, <2>3 DEF TypeOK, HandlersCounted
  <1>14. ASSUME NEW v \in Vhosts, Expect(v) PROVE TypeOK' /\ HandlersCounted'
    <2>1. toRouter' \in [Conns -> Seq(Messages)]
      BY <1>14, TakeType DEF Expect
    <2>2. PICK s \in Seq(Messages) : SendToServer(v, s)
      <3>1. /\ Command("AUTH_REPLY", NoVhost) \in Messages /\ Command("OPEN_TEMPLATE", v) \in Messages
            /\ Command("OPEN", v) \in Messages
        BY CommandTypes
      <3>2. /\ <<>> \in Seq(Messages) /\ <<Command("AUTH_REPLY", NoVhost)>> \in Seq(Messages)
            /\ <<Command("OPEN_TEMPLATE", v)>> \in Seq(Messages) /\ <<Command("OPEN", v)>> \in Seq(Messages)
        BY <3>1
      <3>3. QED
        BY <1>14, <3>2 DEF Expect
    <2>3. toServer' \in [Conns -> Seq(Messages)]
      BY <2>2, SendToServerType
    <2>4. PICK q \in {"status", "rtable", "run", "failed"} : router' = [router EXCEPT ![v].pc = q]
      BY <1>14 DEF Expect, Stage
    <2>5. router' \in [Vhosts -> RouterState]
      <3>1. router[v] \in RouterState
        BY DEF TypeOK
      <3>2. router' = [router EXCEPT ![v] = [router[v] EXCEPT !.pc = q]]
        BY <2>4
      <3>3. QED
        BY <3>1, <3>2, PcType, RouterType
    <2>6. QED
      BY <1>14, <2>1, <2>3, <2>5 DEF Expect, TypeOK, HandlersCounted
  <1>15. ASSUME NEW v \in Vhosts, sr_handle_hwinfo(v) PROVE TypeOK' /\ HandlersCounted'
    <2>1. toRouter' \in [Conns -> Seq(Messages)]
      BY <1>15, TakeType DEF sr_handle_hwinfo
    <2>2. toServer' \in [Conns -> Seq(Messages)]
      <3>1. PICK s \in Seq(Intfs) : s = SetToSeq(Intfs)
        BY InterfaceList
      <3>2. \A k \in 1 .. Len(s) : Packet(v, s[k], "frame") \in Messages
        BY CommandTypes
      <3>3. [k \in 1 .. Len(s) |-> Packet(v, s[k], "frame")] \in Seq(Messages)
        BY <3>2
      <3>4. SendToServer(v, [k \in 1 .. Len(s) |-> Packet(v, s[k], "frame")])
        BY <1>15, <3>1 DEF sr_handle_hwinfo
      <3>5. QED
        BY <3>3, <3>4, SendToServerType
    <2>3. router' \in [Vhosts -> RouterState]
      <3>1. router[v] \in RouterState
        BY DEF TypeOK
      <3>2. router' = [router EXCEPT ![v] = [router[v] EXCEPT !.hw = TRUE, !.status = [i \in Intfs |-> "up"]]]
        BY <1>15 DEF sr_handle_hwinfo, TypeOK
      <3>3. [router[v] EXCEPT !.hw = TRUE, !.status = [i \in Intfs |-> "up"]] \in RouterState
        BY <3>1 DEF RouterState
      <3>4. QED
        BY <3>2, <3>3, RouterType
    <2>4. told' \in [Vhosts -> SUBSET Intfs]
      BY <1>15 DEF sr_handle_hwinfo, TypeOK
    <2>5. QED
      BY <1>15, <2>1, <2>2, <2>3, <2>4 DEF sr_handle_hwinfo, TypeOK, HandlersCounted
  <1>16. ASSUME NEW v \in Vhosts, sr_handle_packet(v) PROVE TypeOK' /\ HandlersCounted'
    <2>1. toRouter' \in [Conns -> Seq(Messages)]
      BY <1>16, TakeType DEF sr_handle_packet
    <2>2. router' \in [Vhosts -> RouterState]
      <3>1. router[v] \in RouterState /\ Received(v) \in Messages
        BY <1>16, TakeType DEF sr_handle_packet, TypeOK
      <3>2. CASE router' = router
        BY <3>2 DEF TypeOK
      <3>3. CASE router' = [router EXCEPT ![v].pc = "crashed"]
        <4>1. router' = [router EXCEPT ![v] = [router[v] EXCEPT !.pc = "crashed"]]
          BY <3>3
        <4>2. QED
          BY <3>1, <4>1, PcType, RouterType
      <3>4. CASE Received(v).data \in {"up", "down"} /\ router' = [router EXCEPT ![v].status[Received(v).intf] = Received(v).data]
        <4>1. PICK d \in {"up", "down"}, i \in Intfs \cup {NoIntf} : d = Received(v).data /\ i = Received(v).intf
          BY <3>1, <3>4 DEF Messages
        <4>2. router' = [router EXCEPT ![v] = [router[v] EXCEPT !.status = [router[v].status EXCEPT ![i] = d]]]
          BY <3>4, <4>1
        <4>3. [router[v].status EXCEPT ![i] = d] \in [Intfs -> {"up", "down"}]
          BY <3>1 DEF RouterState
        <4>4. [router[v] EXCEPT !.status = [router[v].status EXCEPT ![i] = d]] \in RouterState
          BY <3>1, <4>3 DEF RouterState
        <4>5. QED
          BY <4>2, <4>4, RouterType
      <3>5. QED
        BY <1>16, <3>2, <3>3, <3>4 DEF sr_handle_packet
    <2>3. QED
      BY <1>16, <2>1, <2>2 DEF sr_handle_packet, TypeOK, HandlersCounted
  <1>17. ASSUME NEW v \in Vhosts, NEW i \in Intfs, sr_send_packet(v, i) PROVE TypeOK' /\ HandlersCounted'
    <2>1. Packet(v, i, "frame") \in Messages
      BY CommandTypes
    <2>2. toServer' \in [Conns -> Seq(Messages)]
      <3>1. <<Packet(v, i, "frame")>> \in Seq(Messages)
        BY <2>1
      <3>2. QED
        BY <1>17, <3>1, SendToServerType DEF sr_send_packet
    <2>3. events' \in 0 .. MaxEvents
      BY <1>17, SessionAssumption DEF sr_send_packet, TypeOK
    <2>4. QED
      BY <1>17, <2>2, <2>3 DEF sr_send_packet, TypeOK, HandlersCounted
  <1>18. ASSUME NEW v \in Vhosts, Spin(v) PROVE TypeOK' /\ HandlersCounted'
    <2>1. router[v] \in RouterState
      BY DEF TypeOK
    <2>2. router' = [router EXCEPT ![v] = [router[v] EXCEPT !.pc = "spinning"]]
      BY <1>18 DEF Spin
    <2>3. router' \in [Vhosts -> RouterState]
      BY <2>1, <2>2, PcType, RouterType
    <2>4. QED
      BY <1>18, <2>3 DEF Spin, TypeOK, HandlersCounted
  <1>19. ASSUME NEW v \in Vhosts, Stop(v) PROVE TypeOK' /\ HandlersCounted'
    <2>1. Off \in RouterState
      BY DEF Off, RouterState
    <2>2. <<>> \in Seq(Messages)
      OBVIOUS
    <2>3. QED
      BY <1>19, <2>1, <2>2 DEF Stop, TypeOK, HandlersCounted
  <1>20. CASE UNCHANGED vars
    BY <1>20 DEF vars, TypeOK, HandlersCounted
  <1>21. QED
    BY <1>1, <1>2, <1>3, <1>4, <1>4a, <1>5, <1>6, <1>7, <1>8, <1>9, <1>10, <1>11, <1>12, <1>13,
       <1>14, <1>15, <1>16, <1>17, <1>18, <1>19, <1>20
       DEF Next, Pox, Ports, Reactor, Router, RouterReads

(* What the tables and the commands under way on connection c agree on:    *)
(* whose it is, and that frames and VNSHWINFO come after VNSOPEN.          *)
ConnOK(c) ==
    /\ cstate[c] = "unused" => owner[c] = NoVhost /\ toRouter[c] = <<>> /\ toServer[c] = <<>>
    /\ srclients_reverse[c] \in {NoVhost, owner[c]}
    /\ \A m \in ToSet(toRouter[c]) :
         /\ m.type = "PACKET" => m.vhost = owner[c]
         /\ m.type = "HWINFO" => srclients_reverse[c] \in interfaces
    /\ \A m \in ToSet(toServer[c]) :
         /\ m.type \in {"OPEN", "PACKET"} => m.vhost = owner[c] /\ owner[c] \in Vhosts
         /\ m.type = "PACKET" => srclients_reverse[c] \in interfaces /\ m.intf \in Intfs

(* What the threads of the controller hold                                 *)
TablesOK ==
    /\ \A v \in Vhosts : srclients[v] # NoConn => srclients_reverse[srclients[v]] = v
    /\ opening # NoConn => srclients_reverse[opening] \in Vhosts
    /\ relay # <<>> => /\ relay[1].msg.vhost \in Vhosts /\ relay[1].msg.type = "PACKET"
                       /\ srclients_reverse[relay[1].conn] = relay[1].msg.vhost
    /\ \A h, k \in live : h[1] = k[1] => h = k

(* Where the router of v is in its session                                 *)
StageOK(v) ==
    LET r == router[v]
        c == r.conn
        up == toServer[c]
        down == toRouter[c]
    IN /\ r.pc = "off" <=> c = NoConn
       /\ c # NoConn => owner[c] = v
       /\ r.pc # "failed"
       /\ r.pc \in {"auth", "status", "rtable"} => srclients_reverse[c] = NoVhost
       /\ r.pc = "auth" =>
            /\ up = <<>>
            /\ \/ cstate[c] = "connecting" /\ down = <<>>
               \/ cstate[c] = "up" /\ down = <<Command("AUTH_REQUEST", NoVhost)>>
       /\ r.pc = "status" =>
            /\ cstate[c] = "up"
            /\ \/ up = <<Command("AUTH_REPLY", NoVhost)>> /\ down = <<>>
               \/ up = <<>> /\ down = <<Command("AUTH_STATUS", NoVhost)>>
       /\ r.pc = "rtable" =>
            /\ r.template /\ down = <<>> /\ cstate[c] # "connecting"
            /\ \A m \in ToSet(up) : m.type = "OPEN_TEMPLATE"
       /\ r.pc = "run" =>
            /\ ~ r.template /\ cstate[c] = "up"
            /\ \A m \in ToSet(up) : m.type \in {"OPEN", "PACKET"}
       /\ r.pc = "spinning" => r.template /\ cstate[c] = "lost"
       /\ r.hw => r.pc = "run" /\ srclients_reverse[c] = v /\ v \in interfaces

(* The connections an earlier process of v had are read to the end, so the *)
(* last VNSOPEN of v is that of the running process.                       *)
LatestOK(v) ==
    /\ router[v].pc # "off" =>
         \A d \in Conns \ {router[v].conn} : owner[d] = v => toServer[d] = <<>>
    /\ router[v].conn # NoConn /\ srclients_reverse[router[v].conn] = v
         => srclients[v] = router[v].conn
    /\ told[v] # {} => router[v].hw

(* A frame of a router leaves by one port of the switch of its vhost.      *)
OutOK ==
    /\ \A o, p \in out : o = p
    /\ \A o \in out : /\ o.switch[1] = o.msg.vhost
                      /\ o.port = Port[o.msg.vhost][o.msg.intf]

StateOK ==
    /\ TablesOK
    /\ \A c \in Conns : ConnOK(c)
    /\ \A v \in Vhosts : StageOK(v) /\ LatestOK(v)

SessionInv == TypeOK /\ HandlersCounted /\ StateOK /\ OutOK

-----------------------------------------------------------------------------
(* What a command added or taken does to the commands under way            *)

LEMMA ToSetAppend ==
    ASSUME NEW S, NEW s \in Seq(S), NEW m \in S
    PROVE  ToSet(Append(s, m)) = ToSet(s) \cup {m}
  <1>1. Len(s) \in Nat /\ DOMAIN s = 1 .. Len(s) /\ DOMAIN Append(s, m) = 1 .. Len(s) + 1
    OBVIOUS
  <1>2. \A k \in 1 .. Len(s) : Append(s, m)[k] = s[k]
    OBVIOUS
  <1>3. Append(s, m)[Len(s) + 1] = m
    OBVIOUS
  <1>4. \A x \in ToSet(Append(s, m)) : x \in ToSet(s) \cup {m}
    <2> SUFFICES ASSUME NEW k \in 1 .. Len(s) + 1 PROVE Append(s, m)[k] \in ToSet(s) \cup {m}
      BY <1>1 DEF ToSet
    <2> QED
      BY <1>1, <1>2, <1>3 DEF ToSet
  <1>5. \A x \in ToSet(s) : x \in ToSet(Append(s, m))
    <2> SUFFICES ASSUME NEW k \in 1 .. Len(s) PROVE s[k] \in ToSet(Append(s, m))
      BY <1>1 DEF ToSet
    <2>1. k \in 1 .. Len(s) + 1 /\ Append(s, m)[k] = s[k]
      BY <1>1, <1>2
    <2> QED
      BY <1>1, <2>1 DEF ToSet
  <1>6. m \in ToSet(Append(s, m))
    <2>1. Len(s) + 1 \in 1 .. Len(s) + 1
      BY <1>1
    <2> QED
      BY <1>1, <1>3, <2>1 DEF ToSet
  <1> QED
    BY <1>4, <1>5, <1>6

LEMMA ToSetTail ==
    ASSUME NEW S, NEW s \in Seq(S), s # <<>>
    PROVE  /\ ToSet(Tail(s)) \subseteq ToSet(s) /\ Head(s) \in ToSet(s)
           /\ Tail(s) \in Seq(S) /\ Head(s) \in S
  <1>1. /\ Tail(s) \in Seq(S) /\ Head(s) = s[1] /\ Head(s) \in S
        /\ Len(Tail(s)) = Len(s) - 1 /\ Len(s) \in Nat \ {0}
    OBVIOUS
  <1>2. \A k \in 1 .. Len(Tail(s)) : Tail(s)[k] = s[k + 1] /\ k + 1 \in 1 .. Len(s)
    BY <1>1
  <1>3. \A x \in ToSet(Tail(s)) : x \in ToSet(s)
    BY <1>1, <1>2 DEF ToSet
  <1>4. Head(s) \in ToSet(s)
    BY <1>1 DEF ToSet
  <1> QED
    BY <1>1, <1>3, <1>4

LEMMA ToSetConcat ==
    ASSUME NEW S, NEW s \in Seq(S), NEW t \in Seq(S)
    PROVE  \A x \in ToSet(s \o t) : x \in ToSet(s) \/ x \in ToSet(t)
  <1>1. DOMAIN (s \o t) = 1 .. Len(s) + Len(t) /\ Len(s) \in Nat /\ Len(t) \in Nat
    OBVIOUS
  <1> SUFFICES ASSUME NEW k \in 1 .. Len(s) + Len(t)
               PROVE  (s \o t)[k] \in ToSet(s) \/ (s \o t)[k] \in ToSet(t)
    BY <1>1 DEF ToSet
  <1>2. CASE k <= Len(s)
    <2>1. (s \o t)[k] = s[k] /\ k \in DOMAIN s
      BY <1>1, <1>2
    <2> QED
      BY <2>1 DEF ToSet
  <1>3. CASE k > Len(s)
    <2>1. (s \o t)[k] = t[k - Len(s)] /\ k - Len(s) \in DOMAIN t
      BY <1>1, <1>3
    <2> QED
      BY <2>1 DEF ToSet
  <1> QED
    BY <1>1, <1>2, <1>3

LEMMA ToSetSmall ==
    /\ ToSet(<<>>) = {}
    /\ \A m : ToSet(<<m>>) = {m}
  BY DEF ToSet

-----------------------------------------------------------------------------
(* What a step leaves alone keeps what holds of it.                        *)

LEMMA ConnFrame ==
    ASSUME NEW c \in Conns, ConnOK(c), interfaces \subseteq interfaces',
           owner'[c] = owner[c], srclients_reverse'[c] = srclients_reverse[c],
           ToSet(toRouter'[c]) \subseteq ToSet(toRouter[c]),
           ToSet(toServer'[c]) \subseteq ToSet(toServer[c]),
           cstate'[c] = "unused" => /\ cstate[c] = "unused" /\ toRouter'[c] = toRouter[c]
                                    /\ toServer'[c] = toServer[c]
    PROVE  ConnOK(c)'
  BY DEF ConnOK

LEMMA StageFrame ==
    ASSUME TypeOK, NEW v \in Vhosts, StageOK(v), router'[v] = router[v],
           interfaces \subseteq interfaces',
           LET c == router[v].conn
           IN c # NoConn => /\ owner'[c] = owner[c] /\ cstate'[c] = cstate[c]
                            /\ srclients_reverse'[c] = srclients_reverse[c]
                            /\ toRouter'[c] = toRouter[c] /\ toServer'[c] = toServer[c]
    PROVE  StageOK(v)'
  <1>1. CASE router[v].conn = NoConn
    BY <1>1 DEF StageOK
  <1>2. CASE router[v].conn # NoConn
    BY <1>2 DEF StageOK
  <1> QED
    BY <1>1, <1>2

(* Every router has a connection of its own.                               *)
LEMMA ConnsApart ==
    ASSUME StateOK, NEW v \in Vhosts, NEW w \in Vhosts, v # w, router[v].conn # NoConn
    PROVE  router[v].conn # router[w].conn
  BY DEF StateOK, StageOK

LEMMA LatestFrame ==
    ASSUME NEW v \in Vhosts, LatestOK(v), router'[v] = router[v], owner' = owner,
           \A d \in Conns : toServer[d] = <<>> => toServer'[d] = <<>>,
           srclients'[v] = srclients[v], srclients_reverse' = srclients_reverse,
           told'[v] = told[v]
    PROVE  LatestOK(v)'
  BY DEF LatestOK

-----------------------------------------------------------------------------
(* The POX thread                                                          *)

LEMMA ConnectionUpInv ==
    ASSUME SessionInv, NEW v \in Vhosts, handle_ConnectionUp(v)
    PROVE  StateOK' /\ OutOK'
  <1> USE DEF switchVars
  <1>1. TablesOK'
    BY DEF SessionInv, StateOK, TablesOK, handle_ConnectionUp
  <1>2. ASSUME NEW c \in Conns PROVE ConnOK(c)'
    BY ConnFrame DEF SessionInv, StateOK, handle_ConnectionUp
  <1>3. ASSUME NEW w \in Vhosts PROVE StageOK(w)'
    BY StageFrame DEF SessionInv, StateOK, handle_ConnectionUp
  <1>4. ASSUME NEW w \in Vhosts PROVE LatestOK(w)'
    BY LatestFrame DEF SessionInv, StateOK, handle_ConnectionUp
  <1> QED
    BY <1>1, <1>2, <1>3, <1>4 DEF StateOK, OutOK, handle_ConnectionUp

LEMMA ConnectionDownInv ==
    ASSUME SessionInv, NEW v \in Vhosts, ConnectionDown(v)
    PROVE  StateOK' /\ OutOK'
  <1>1. TablesOK'
    BY DEF SessionInv, StateOK, TablesOK, ConnectionDown
  <1>2. ASSUME NEW c \in Conns PROVE ConnOK(c)'
    BY ConnFrame DEF SessionInv, StateOK, ConnectionDown
  <1>3. ASSUME NEW w \in Vhosts PROVE StageOK(w)'
    BY StageFrame DEF SessionInv, StateOK, ConnectionDown
  <1>4. ASSUME NEW w \in Vhosts PROVE LatestOK(w)'
    BY LatestFrame DEF SessionInv, StateOK, ConnectionDown
  <1> QED
    BY <1>1, <1>2, <1>3, <1>4 DEF StateOK, OutOK, ConnectionDown

(* What is relayed goes to the connection the vhost was opened on, and the *)
(* port is mapped back to the interface it came in by.                     *)
LEMMA Relayed ==
    ASSUME SessionInv, NEW v \in Vhosts, NEW i \in Intfs, NEW d, relay = <<>>,
           handle_SRPacketIn(v, Port[v][i], d)
    PROVE  \/ relay' = <<>> /\ (v \notin interfaces \/ srclients[v] = NoConn)
           \/ /\ relay' = <<[conn |-> srclients[v], msg |-> Packet(v, i, d)]>>
              /\ srclients[v] # NoConn
  <1>1. (CHOOSE j \in Intfs : Port[v][j] = Port[v][i]) = i
    BY SessionAssumption
  <1> QED
    BY <1>1 DEF handle_SRPacketIn, send_to_vhost

LEMMA RelayedInv ==
    ASSUME SessionInv, NEW v \in Vhosts, NEW i \in Intfs, NEW d, relay = <<>>,
           handle_SRPacketIn(v, Port[v][i], d),
           UNCHANGED <<srclients, srclients_reverse, opening, live>>
    PROVE  TablesOK'
  <1>1. CASE relay' = <<>>
    BY <1>1 DEF SessionInv, StateOK, TablesOK
  <1>2. CASE relay' = <<[conn |-> srclients[v], msg |-> Packet(v, i, d)]>> /\ srclients[v] # NoConn
    BY <1>2 DEF SessionInv, StateOK, TablesOK, Packet
  <1> QED
    BY <1>1, <1>2, Relayed

LEMMA PacketInInv ==
    ASSUME SessionInv, NEW v \in Vhosts, NEW i \in Intfs, handle_PacketIn(v, i)
    PROVE  StateOK' /\ OutOK'
  <1> USE DEF switchVars
  <1>1. TablesOK'
    BY RelayedInv DEF handle_PacketIn
  <1>2. ASSUME NEW c \in Conns PROVE ConnOK(c)'
    BY ConnFrame DEF SessionInv, StateOK, handle_PacketIn
  <1>3. ASSUME NEW w \in Vhosts PROVE StageOK(w)'
    BY StageFrame DEF SessionInv, StateOK, handle_PacketIn
  <1>4. ASSUME NEW w \in Vhosts PROVE LatestOK(w)'
    BY LatestFrame DEF SessionInv, StateOK, handle_PacketIn
  <1> QED
    BY <1>1, <1>2, <1>3, <1>4 DEF StateOK, OutOK, handle_PacketIn

LEMMA PortStatusInv ==
    ASSUME SessionInv, NEW v \in Vhosts, NEW i \in Intfs, handle_PortStatus(v, i)
    PROVE  StateOK' /\ OutOK'
  <1>1. TablesOK'
    BY RelayedInv DEF handle_PortStatus
  <1>2. ASSUME NEW c \in Conns PROVE ConnOK(c)'
    BY ConnFrame DEF SessionInv, StateOK, handle_PortStatus
  <1>3. ASSUME NEW w \in Vhosts PROVE StageOK(w)'
    BY StageFrame DEF SessionInv, StateOK, handle_PortStatus
  <1>4. ASSUME NEW w \in Vhosts PROVE LatestOK(w)'
    BY DEF SessionInv, StateOK, LatestOK, handle_PortStatus, TypeOK
  <1> QED
    BY <1>1, <1>2, <1>3, <1>4 DEF StateOK, OutOK, handle_PortStatus

LEMMA UnseenInv ==
    ASSUME SessionInv, NEW v \in Vhosts, NEW i \in Intfs, UnseenChange(v, i)
    PROVE  StateOK' /\ OutOK'
  <1>1. TablesOK'
    BY DEF SessionInv, StateOK, TablesOK, UnseenChange
  <1>2. ASSUME NEW c \in Conns PROVE ConnOK(c)'
    BY ConnFrame DEF SessionInv, StateOK, UnseenChange
  <1>3. ASSUME NEW w \in Vhosts PROVE StageOK(w)'
    BY StageFrame DEF SessionInv, StateOK, UnseenChange
  <1>4. ASSUME NEW w \in Vhosts PROVE LatestOK(w)'
    BY DEF SessionInv, StateOK, LatestOK, UnseenChange, TypeOK
  <1> QED
    BY <1>1, <1>2, <1>3, <1>4 DEF StateOK, OutOK, UnseenChange

(* A command written to a connection that has a vhost                      *)
LEMMA WriteInv ==
    ASSUME SessionInv, NEW c \in Conns, NEW m \in Messages, Write(c, m),
           srclients_reverse[c] \in Vhosts,
           m.type = "PACKET" => m.vhost = owner[c],
           m.type = "HWINFO" => srclients_reverse[c] \in interfaces,
           UNCHANGED <<owner, cstate, srclients, srclients_reverse, interfaces, toServer, router, told>>
    PROVE  /\ \A d \in Conns : ConnOK(d)'
           /\ \A w \in Vhosts : StageOK(w)' /\ LatestOK(w)'
  <1>1. ASSUME NEW d \in Conns PROVE ConnOK(d)'
    <2>1. CASE toRouter'[d] = toRouter[d]
      BY <2>1, ConnFrame DEF SessionInv, StateOK
    <2>2. CASE toRouter'[d] # toRouter[d]
      <3>1. d = c /\ toRouter'[c] = Append(toRouter[c], m) /\ cstate[c] = "up"
        BY <2>2 DEF Write, SessionInv, TypeOK
      <3>2. ToSet(toRouter'[c]) = ToSet(toRouter[c]) \cup {m}
        BY <3>1, ToSetAppend DEF SessionInv, TypeOK
      <3> QED
        BY <3>1, <3>2 DEF ConnOK, SessionInv, StateOK
    <2> QED
      BY <2>1, <2>2
  <1>2. ASSUME NEW w \in Vhosts PROVE StageOK(w)'
    <2>1. CASE router[w].conn # c
      <3>1. toRouter'[router[w].conn] = toRouter[router[w].conn] \/ router[w].conn = NoConn
        BY <2>1 DEF Write, SessionInv, TypeOK, RouterState
      <3> QED
        BY <3>1, StageFrame DEF SessionInv, StateOK
    <2>2. CASE router[w].conn = c
      <3>1. router[w].pc \notin {"auth", "status", "rtable"}
        BY <2>2, SessionAssumption DEF SessionInv, StateOK, StageOK
      <3> QED
        BY <2>2, <3>1 DEF SessionInv, StateOK, StageOK
    <2> QED
      BY <2>1, <2>2
  <1>3. ASSUME NEW w \in Vhosts PROVE LatestOK(w)'
    BY LatestFrame DEF SessionInv, StateOK
  <1> QED
    BY <1>1, <1>2, <1>3

LEMMA ConnSendInv ==
    ASSUME SessionInv, vhost_conn_send
    PROVE  StateOK' /\ OutOK'
  <1> USE DEF switchVars
  <1>1. PICK c \in Conns : \E m \in Messages : relay = <<[conn |-> c, msg |-> m]>>
    BY DEF vhost_conn_send, SessionInv, TypeOK
  <1>2. PICK m \in Messages : relay = <<[conn |-> c, msg |-> m]>>
    BY <1>1
  <1>3. relay[1].conn = c /\ relay[1].msg = m /\ relay # <<>>
    BY <1>2
  <1>4. m.vhost \in Vhosts /\ m.type = "PACKET" /\ srclients_reverse[c] = m.vhost
    BY <1>3 DEF SessionInv, StateOK, TablesOK
  <1>5. owner[c] = m.vhost
    BY <1>4, SessionAssumption DEF SessionInv, StateOK, ConnOK
  <1>6. Write(c, m)
    BY <1>3 DEF vhost_conn_send
  <1>7. /\ \A d \in Conns : ConnOK(d)'
        /\ \A w \in Vhosts : StageOK(w)' /\ LatestOK(w)'
    BY <1>4, <1>5, <1>6, WriteInv DEF vhost_conn_send
  <1>8. TablesOK'
    BY DEF TablesOK, vhost_conn_send, SessionInv, StateOK
  <1> QED
    BY <1>7, <1>8 DEF StateOK, OutOK, vhost_conn_send

-----------------------------------------------------------------------------
(* The reactor thread                                                      *)

LEMMA HardwareInfoInv ==
    ASSUME SessionInv, send_hardware_info
    PROVE  StateOK' /\ OutOK'
  <1> USE DEF switchVars
  <1>1. opening \in Conns /\ srclients_reverse[opening] \in Vhosts
    BY DEF send_hardware_info, SessionInv, TypeOK, StateOK, TablesOK
  <1>2. TablesOK'
    BY DEF TablesOK, send_hardware_info, SessionInv, StateOK
  <1>3. /\ \A d \in Conns : ConnOK(d)'
        /\ \A w \in Vhosts : StageOK(w)' /\ LatestOK(w)'
    <2>1. CASE Write(opening, Command("HWINFO", NoVhost)) /\ srclients_reverse[opening] \in interfaces
      <3>1. Command("HWINFO", NoVhost) \in Messages /\ Command("HWINFO", NoVhost).type = "HWINFO"
        BY CommandTypes DEF Command
      <3> QED
        BY <1>1, <2>1, <3>1, WriteInv DEF send_hardware_info
    <2>2. CASE toRouter' = toRouter
      <3>1. ASSUME NEW c \in Conns PROVE ConnOK(c)'
        BY <2>2, ConnFrame DEF SessionInv, StateOK, send_hardware_info
      <3>2. ASSUME NEW w \in Vhosts PROVE StageOK(w)'
        BY <2>2, StageFrame DEF SessionInv, StateOK, send_hardware_info
      <3>3. ASSUME NEW w \in Vhosts PROVE LatestOK(w)'
        BY LatestFrame DEF SessionInv, StateOK, send_hardware_info
      <3> QED
        BY <3>1, <3>2, <3>3
    <2> QED
      BY <2>1, <2>2 DEF send_hardware_info
  <1> QED
    BY <1>2, <1>3 DEF StateOK, OutOK, send_hardware_info

LEMMA NewClientInv ==
    ASSUME SessionInv, NEW c \in Conns, handle_new_client(c)
    PROVE  StateOK' /\ OutOK'
  <1> USE DEF switchVars
  <1> DEFINE m == Command("AUTH_REQUEST", NoVhost)
  <1>1. /\ cstate[c] = "connecting" /\ cstate'[c] = "up"
        /\ \A d \in Conns \ {c} : cstate'[d] = cstate[d] /\ toRouter'[d] = toRouter[d]
        /\ toRouter'[c] = IF Alive(c) THEN Append(toRouter[c], m) ELSE toRouter[c]
        /\ UNCHANGED <<interfaces, live, srclients, srclients_reverse, opening, relay, router, owner, toServer, told>>
    BY DEF handle_new_client, SessionInv, TypeOK
  <1>2. TablesOK'
    BY <1>1 DEF TablesOK, SessionInv, StateOK
  <1>3. ASSUME NEW d \in Conns PROVE ConnOK(d)'
    <2>1. CASE toRouter'[d] = toRouter[d]
      BY <1>1, <2>1, ConnFrame DEF SessionInv, StateOK
    <2>2. CASE d = c /\ toRouter'[c] = Append(toRouter[c], m)
      <3>1. ToSet(toRouter'[c]) = ToSet(toRouter[c]) \cup {m} /\ m.type = "AUTH_REQUEST"
        BY <2>2, ToSetAppend, CommandTypes DEF SessionInv, TypeOK, Command
      <3> QED
        BY <1>1, <2>2, <3>1 DEF ConnOK, SessionInv, StateOK
    <2> QED
      BY <1>1, <2>1, <2>2
  <1>4. ASSUME NEW w \in Vhosts PROVE StageOK(w)'
    <2>1. CASE router[w].conn # c
      <3>1. router[w].conn \in Conns \cup {NoConn}
        BY DEF SessionInv, TypeOK, RouterState
      <3> QED
        BY <1>1, <2>1, <3>1, StageFrame DEF SessionInv, StateOK
    <2>2. CASE router[w].conn = c
      <3>1. StageOK(w) /\ c # NoConn
        BY DEF SessionInv, StateOK, Conns, NoConn
      <3>2. router[w].pc \in {"auth", "crashed"} /\ owner[c] = w
        BY <1>1, <2>2, <3>1 DEF StageOK, SessionInv, TypeOK, RouterState
      <3>3. CASE router[w].pc = "auth"
        <4>1. toRouter[c] = <<>> /\ toServer[c] = <<>> /\ Alive(c)
          BY <1>1, <2>2, <3>1, <3>2, <3>3, SessionAssumption DEF StageOK, Alive
        <4>2. toRouter'[c] = <<m>>
          BY <1>1, <4>1
        <4> QED
          BY <1>1, <2>2, <3>1, <3>3, <4>1, <4>2 DEF StageOK
      <3>4. CASE router[w].pc = "crashed"
        BY <1>1, <2>2, <3>1, <3>4 DEF StageOK
      <3> QED
        BY <3>2, <3>3, <3>4
    <2> QED
      BY <2>1, <2>2
  <1>5. ASSUME NEW w \in Vhosts PROVE LatestOK(w)'
    BY <1>1, LatestFrame DEF SessionInv, StateOK
  <1> QED
    BY <1>2, <1>3, <1>4, <1>5 DEF StateOK, OutOK, handle_new_client

LEMMA AuthReplyInv ==
    ASSUME SessionInv, NEW c \in Conns, handle_auth_reply(c)
    PROVE  StateOK' /\ OutOK'
  <1> USE DEF switchVars
  <1> DEFINE m == Command("AUTH_STATUS", NoVhost)
  <1>1. /\ cstate[c] = "up"
        /\ \A d \in Conns \ {c} : toServer'[d] = toServer[d] /\ toRouter'[d] = toRouter[d]
        /\ toRouter'[c] = IF Alive(c) THEN Append(toRouter[c], m) ELSE toRouter[c]
        /\ toServer'[c] = Tail(toServer[c]) /\ toServer[c] # <<>>
        /\ Head(toServer[c]).type = "AUTH_REPLY"
        /\ UNCHANGED <<interfaces, live, srclients, srclients_reverse, opening, relay, router, owner, cstate, told>>
    BY DEF handle_auth_reply, Reads, Write, SessionInv, TypeOK
  <1>2. TablesOK'
    BY <1>1 DEF TablesOK, SessionInv, StateOK
  <1>3. /\ ToSet(Tail(toServer[c])) \subseteq ToSet(toServer[c])
        /\ Head(toServer[c]) \in ToSet(toServer[c])
    BY <1>1, ToSetTail DEF SessionInv, TypeOK
  <1>4. ASSUME NEW d \in Conns PROVE ConnOK(d)'
    <2>1. CASE toRouter'[d] = toRouter[d]
      BY <1>1, <1>3, <2>1, ConnFrame DEF SessionInv, StateOK
    <2>2. CASE d = c /\ toRouter'[c] = Append(toRouter[c], m)
      <3>1. ToSet(toRouter'[c]) = ToSet(toRouter[c]) \cup {m} /\ m.type = "AUTH_STATUS"
        BY <2>2, ToSetAppend, CommandTypes DEF SessionInv, TypeOK, Command
      <3> QED
        BY <1>1, <1>3, <2>2, <3>1 DEF ConnOK, SessionInv, StateOK
    <2> QED
      BY <1>1, <2>1, <2>2
  <1>5. ASSUME NEW w \in Vhosts PROVE StageOK(w)'
    <2>1. CASE router[w].conn # c
      <3>1. router[w].conn \in Conns \cup {NoConn}
        BY DEF SessionInv, TypeOK, RouterState
      <3> QED
        BY <1>1, <2>1, <3>1, StageFrame DEF SessionInv, StateOK
    <2>2. CASE router[w].conn = c
      <3>1. StageOK(w) /\ c # NoConn
        BY DEF SessionInv, StateOK, Conns, NoConn
      <3>2. router[w].pc \in {"status", "crashed"} /\ owner[c] = w
        BY <1>1, <1>3, <2>2, <3>1 DEF StageOK, SessionInv, TypeOK, RouterState
      <3>3. CASE router[w].pc = "status"
        <4>0. toRouter[c] = <<>> /\ toServer[c] = <<Command("AUTH_REPLY", NoVhost)>>
          BY <1>1, <2>2, <3>1, <3>2, <3>3 DEF StageOK
        <4>1. toRouter[c] = <<>> /\ Tail(toServer[c]) = <<>> /\ Alive(c)
          BY <2>2, <3>2, <3>3, <4>0, SessionAssumption DEF Alive
        <4>2. toRouter'[c] = <<m>>
          BY <1>1, <4>1
        <4> QED
          BY <1>1, <2>2, <3>1, <3>3, <4>1, <4>2 DEF StageOK
      <3>4. CASE router[w].pc = "crashed"
        BY <1>1, <2>2, <3>1, <3>4 DEF StageOK
      <3> QED
        BY <3>2, <3>3, <3>4
    <2> QED
      BY <2>1, <2>2
  <1>6. ASSUME NEW w \in Vhosts PROVE LatestOK(w)'
    <2>1. \A d \in Conns : toServer[d] = <<>> => toServer'[d] = <<>>
      BY <1>1
    <2> QED
      BY <1>1, <2>1, LatestFrame DEF SessionInv, StateOK
  <1> QED
    BY <1>2, <1>4, <1>5, <1>6 DEF StateOK, OutOK, handle_auth_reply

LEMMA OpenInv ==
    ASSUME SessionInv, NEW c \in Conns, handle_open_msg(c)
    PROVE  StateOK' /\ OutOK'
  <1> USE DEF switchVars
  <1>1. /\ cstate[c] = "up" /\ toServer[c] # <<>> /\ Head(toServer[c]).type = "OPEN"
        /\ \A d \in Conns \ {c} : toServer'[d] = toServer[d]
        /\ toServer'[c] = Tail(toServer[c])
        /\ UNCHANGED <<interfaces, live, relay, router, owner, cstate, toRouter, told>>
    BY DEF handle_open_msg, Reads, SessionInv, TypeOK
  <1>2. /\ ToSet(Tail(toServer[c])) \subseteq ToSet(toServer[c])
        /\ Head(toServer[c]) \in ToSet(toServer[c])
    BY <1>1, ToSetTail DEF SessionInv, TypeOK
  <1>3. PICK v \in Vhosts : v = owner[c] /\ Head(toServer[c]).vhost = v
    BY <1>1, <1>2 DEF ConnOK, SessionInv, StateOK
  <1>4. /\ srclients' = [srclients EXCEPT ![v] = c]
        /\ srclients_reverse' = [srclients_reverse EXCEPT ![c] = v]
        /\ opening' = c
    BY <1>3 DEF handle_open_msg
  <1>5. /\ srclients'[v] = c /\ \A w \in Vhosts \ {v} : srclients'[w] = srclients[w]
        /\ srclients_reverse'[c] = v
        /\ \A d \in Conns \ {c} : srclients_reverse'[d] = srclients_reverse[d]
    BY <1>4 DEF SessionInv, TypeOK
  <1>6. srclients_reverse[c] \in {NoVhost, v} /\ NoVhost \notin Vhosts
    BY <1>3, SessionAssumption DEF ConnOK, SessionInv, StateOK
  <1>7. TablesOK'
    <2>1. ASSUME NEW w \in Vhosts, srclients'[w] # NoConn PROVE srclients_reverse'[srclients'[w]] = w
      <3>1. srclients'[w] \in Conns
        BY <1>5, <2>1 DEF SessionInv, TypeOK
      <3> QED
        BY <1>5, <1>6, <2>1, <3>1 DEF SessionInv, StateOK, TablesOK
    <2>2. ASSUME relay' # <<>>
          PROVE  /\ relay'[1].msg.vhost \in Vhosts /\ relay'[1].msg.type = "PACKET"
                 /\ srclients_reverse'[relay'[1].conn] = relay'[1].msg.vhost
      <3>1. relay # <<>> /\ relay[1].conn \in Conns
        BY <1>1, <2>2 DEF SessionInv, TypeOK
      <3> QED
        BY <1>1, <1>5, <1>6, <3>1 DEF SessionInv, StateOK, TablesOK
    <2>3. srclients_reverse'[opening'] \in Vhosts
      BY <1>4, <1>5
    <2> QED
      BY <1>1, <2>1, <2>2, <2>3 DEF SessionInv, StateOK, TablesOK
  <1>8. ASSUME NEW d \in Conns PROVE ConnOK(d)'
    <2>1. CASE d # c
      BY <1>1, <1>5, <2>1, ConnFrame DEF SessionInv, StateOK
    <2>2. CASE d = c
      <3>1. ConnOK(c) /\ interfaces \subseteq Vhosts
        BY DEF SessionInv, StateOK, TypeOK
      <3> QED
        BY <1>1, <1>2, <1>3, <1>5, <1>6, <2>2, <3>1 DEF ConnOK
    <2> QED
      BY <2>1, <2>2
  <1>9. ASSUME NEW w \in Vhosts PROVE StageOK(w)' /\ LatestOK(w)'
    <2>0. StageOK(w) /\ LatestOK(w) /\ router[w].conn \in Conns \cup {NoConn} /\ NoConn \notin Conns
      BY DEF SessionInv, StateOK, TypeOK, RouterState, Conns, NoConn
    <2>1. CASE router[w].conn # c
      <3>1. StageOK(w)'
        BY <1>1, <1>5, <2>0, <2>1, StageFrame DEF SessionInv
      <3>2. CASE w = v
        <4>1. router[w].pc = "off" /\ router[w].conn = NoConn
          BY <1>1, <1>3, <2>0, <2>1, <3>2 DEF LatestOK, StageOK
        <4> QED
          BY <1>1, <2>0, <3>1, <4>1 DEF LatestOK
      <3>3. CASE w # v
        BY <1>1, <1>5, <2>0, <2>1, <3>1, <3>3 DEF LatestOK
      <3> QED
        BY <3>2, <3>3
    <2>2. CASE router[w].conn = c
      <3>1. w = v /\ router[w].pc \in {"run", "crashed"}
        BY <1>1, <1>2, <1>3, <2>0, <2>2 DEF StageOK, SessionInv, TypeOK, RouterState, Command
      <3>2. StageOK(w)'
        BY <1>1, <1>2, <1>3, <1>5, <2>0, <2>2, <3>1 DEF StageOK
      <3>3. LatestOK(w)'
        BY <1>1, <1>5, <2>0, <2>2, <3>1 DEF LatestOK
      <3> QED
        BY <3>2, <3>3
    <2> QED
      BY <2>1, <2>2
  <1> QED
    BY <1>7, <1>8, <1>9 DEF StateOK, OutOK, handle_open_msg

LEMMA OpenTemplateInv ==
    ASSUME SessionInv, NEW c \in Conns, handle_open_template_msg(c)
    PROVE  StateOK' /\ OutOK'
  <1> USE DEF switchVars
  <1>1. /\ cstate[c] = "up" /\ toServer[c] # <<>> /\ Head(toServer[c]).type = "OPEN_TEMPLATE"
        /\ \A d \in Conns \ {c} : toServer'[d] = toServer[d] /\ cstate'[d] = cstate[d]
        /\ toServer'[c] = <<>> /\ cstate'[c] = "lost"
        /\ UNCHANGED <<interfaces, live, srclients, srclients_reverse, opening, relay, router, owner, toRouter, told>>
    BY DEF handle_open_template_msg, LoseConnection, Reads, SessionInv, TypeOK
  <1>2. Head(toServer[c]) \in ToSet(toServer[c]) /\ ToSet(<<>>) = {}
    BY <1>1, ToSetTail, ToSetSmall DEF SessionInv, TypeOK
  <1>3. TablesOK'
    BY <1>1 DEF TablesOK, SessionInv, StateOK
  <1>4. ASSUME NEW d \in Conns PROVE ConnOK(d)'
    BY <1>1, <1>2, ConnFrame DEF SessionInv, StateOK
  <1>5. ASSUME NEW w \in Vhosts PROVE StageOK(w)'
    <2>0. StageOK(w) /\ router[w].conn \in Conns \cup {NoConn}
      BY DEF SessionInv, StateOK, TypeOK, RouterState
    <2>1. CASE router[w].conn # c
      BY <1>1, <2>0, <2>1, StageFrame DEF SessionInv, StateOK
    <2>2. CASE router[w].conn = c
      <3>0. router[w].pc # "status"
        BY <1>1, <2>0, <2>2 DEF StageOK, Command
      <3>1. router[w].pc \in {"off", "rtable", "crashed"}
        BY <1>1, <1>2, <2>0, <2>2, <3>0 DEF StageOK, SessionInv, TypeOK, RouterState
      <3> QED
        BY <1>1, <1>2, <2>0, <2>2, <3>1 DEF StageOK
    <2> QED
      BY <2>1, <2>2
  <1>6. ASSUME NEW w \in Vhosts PROVE LatestOK(w)'
    <2>1. \A d \in Conns : toServer[d] = <<>> => toServer'[d] = <<>>
      BY <1>1
    <2> QED
      BY <1>1, <2>1, LatestFrame DEF SessionInv, StateOK
  <1> QED
    BY <1>3, <1>4, <1>5, <1>6 DEF StateOK, OutOK, handle_open_template_msg

(* A frame of a router always finds its vhost and its port; it leaves by   *)
(* one OFHandler, since only one is connected.                             *)
LEMMA PacketMsgInv ==
    ASSUME SessionInv, NEW c \in Conns, handle_packet_msg(c)
    PROVE  StateOK' /\ OutOK'
  <1> USE DEF switchVars
  <1> DEFINE m == Head(toServer[c])
             v == srclients_reverse[c]
  <1>1. cstate[c] = "up" /\ toServer[c] # <<>> /\ m.type = "PACKET"
    BY DEF handle_packet_msg, Reads
  <1>2. ToSet(Tail(toServer[c])) \subseteq ToSet(toServer[c]) /\ m \in ToSet(toServer[c])
    BY <1>1, ToSetTail DEF SessionInv, TypeOK
  <1>3. v \in interfaces /\ m.intf \in Intfs /\ m.vhost = owner[c] /\ owner[c] = v
    BY <1>1, <1>2, SessionAssumption DEF SessionInv, StateOK, ConnOK, TypeOK
  <1>4. /\ \A d \in Conns \ {c} : toServer'[d] = toServer[d]
        /\ toServer'[c] = Tail(toServer[c])
        /\ out' = {[switch |-> h, port |-> Port[v][m.intf], msg |-> m] :
                     h \in {k \in ofhandlers \cap live : k[1] = v}}
        /\ UNCHANGED <<interfaces, live, srclients, srclients_reverse, opening, relay, router, owner, cstate, toRouter, told>>
    BY <1>3 DEF handle_packet_msg, SessionInv, TypeOK
  <1>5. TablesOK'
    BY <1>4 DEF TablesOK, SessionInv, StateOK
  <1>6. ASSUME NEW d \in Conns PROVE ConnOK(d)'
    BY <1>1, <1>2, <1>4, ConnFrame DEF SessionInv, StateOK
  <1>7. ASSUME NEW w \in Vhosts PROVE StageOK(w)'
    <2>0. StageOK(w) /\ router[w].conn \in Conns \cup {NoConn}
      BY DEF SessionInv, StateOK, TypeOK, RouterState
    <2>1. CASE router[w].conn # c
      BY <1>4, <2>0, <2>1, StageFrame DEF SessionInv, StateOK
    <2>2. CASE router[w].conn = c
      <3>1. router[w].pc \in {"off", "run", "crashed"}
        BY <1>1, <1>2, <2>0, <2>2 DEF StageOK, SessionInv, TypeOK, RouterState, Command
      <3> QED
        BY <1>1, <1>2, <1>4, <2>0, <2>2, <3>1 DEF StageOK
    <2> QED
      BY <2>1, <2>2
  <1>8. ASSUME NEW w \in Vhosts PROVE LatestOK(w)'
    <2>1. \A d \in Conns : toServer[d] = <<>> => toServer'[d] = <<>>
      BY <1>1, <1>4
    <2> QED
      BY <1>4, <2>1, LatestFrame DEF SessionInv, StateOK
  <1>9. OutOK'
    <2>1. \A o \in out' : \E h \in live : h[1] = v /\ o = [switch |-> h, port |-> Port[v][m.intf], msg |-> m]
      BY <1>4
    <2>2. \A h, k \in live : h[1] = k[1] => h = k
      BY DEF SessionInv, StateOK, TablesOK
    <2> HIDE DEF m, v
    <2>3. \A o, p \in out' : o = p
      BY <2>1, <2>2
    <2>4. \A o \in out' : o.switch[1] = o.msg.vhost /\ o.port = Port[o.msg.vhost][o.msg.intf]
      BY <1>3, <2>1
    <2> QED
      BY <2>3, <2>4 DEF OutOK
  <1> QED
    BY <1>5, <1>6, <1>7, <1>8, <1>9 DEF StateOK

LEMMA DisconnectedInv ==
    ASSUME SessionInv, NEW c \in Conns, handle_client_disconnected(c)
    PROVE  StateOK' /\ OutOK'
  <1> USE DEF switchVars
  <1>1. /\ cstate[c] = "up" /\ ~ Alive(c) /\ cstate'[c] = "lost"
        /\ \A d \in Conns \ {c} : cstate'[d] = cstate[d]
        /\ UNCHANGED <<interfaces, live, srclients, srclients_reverse, opening, relay, router, owner, toRouter, toServer, told>>
    BY DEF handle_client_disconnected, SessionInv, TypeOK
  <1>2. TablesOK'
    BY <1>1 DEF TablesOK, SessionInv, StateOK
  <1>3. ASSUME NEW d \in Conns PROVE ConnOK(d)'
    BY <1>1, ConnFrame DEF SessionInv, StateOK
  <1>4. ASSUME NEW w \in Vhosts PROVE StageOK(w)'
    <2>0. StageOK(w) /\ router[w].conn \in Conns \cup {NoConn} /\ c # NoConn
      BY DEF SessionInv, StateOK, TypeOK, RouterState, Conns, NoConn
    <2>1. CASE router[w].conn # c
      BY <1>1, <2>0, <2>1, StageFrame DEF SessionInv, StateOK
    <2>2. CASE router[w].conn = c
      <3>1. router[w].pc = "crashed"
        BY <1>1, <2>0, <2>2, SessionAssumption DEF StageOK, Alive
      <3> QED
        BY <1>1, <2>0, <2>2, <3>1 DEF StageOK
    <2> QED
      BY <2>1, <2>2
  <1>5. ASSUME NEW w \in Vhosts PROVE LatestOK(w)'
    BY <1>1, LatestFrame DEF SessionInv, StateOK
  <1> QED
    BY <1>2, <1>3, <1>4, <1>5 DEF StateOK, OutOK, handle_client_disconnected

-----------------------------------------------------------------------------
(* The routers                                                             *)

LEMMA ConnectInv ==
    ASSUME SessionInv, NEW v \in Vhosts, NEW t \in Templates, sr_connect_to_server(v, t)
    PROVE  StateOK' /\ OutOK'
  <1> USE DEF switchVars
  <1>1. PICK c \in Conns :
          /\ router[v].pc = "off" /\ cstate[c] = "unused"
          /\ \A d \in Conns : owner[d] = v => toServer[d] = <<>>
          /\ router' = [router EXCEPT ![v] = [Off EXCEPT !.pc = "auth", !.conn = c, !.template = t]]
          /\ owner' = [owner EXCEPT ![c] = v]
          /\ cstate' = [cstate EXCEPT ![c] = "connecting"]
          /\ out' = {}
          /\ UNCHANGED <<switchVars, srclients, srclients_reverse, opening, relay,
                         toRouter, toServer, events, told>>
    BY DEF sr_connect_to_server
  <1>2. /\ router'[v].pc = "auth" /\ router'[v].conn = c /\ router'[v].hw = FALSE
        /\ \A w \in Vhosts \ {v} : router'[w] = router[w]
        /\ owner'[c] = v /\ cstate'[c] = "connecting"
        /\ \A d \in Conns \ {c} : owner'[d] = owner[d] /\ cstate'[d] = cstate[d]
    BY <1>1 DEF Off, SessionInv, TypeOK
  <1>3. /\ owner[c] = NoVhost /\ toRouter[c] = <<>> /\ toServer[c] = <<>>
        /\ srclients_reverse[c] = NoVhost
    BY <1>1 DEF SessionInv, StateOK, ConnOK
  <1>4. TablesOK'
    BY <1>1 DEF TablesOK, SessionInv, StateOK
  <1>5. ASSUME NEW d \in Conns PROVE ConnOK(d)'
    <2>1. CASE d = c
      BY <1>1, <1>2, <1>3, <2>1, ToSetSmall DEF ConnOK
    <2>2. CASE d # c
      BY <1>1, <1>2, <2>2, ConnFrame DEF SessionInv, StateOK
    <2> QED
      BY <2>1, <2>2
  <1>6. ASSUME NEW w \in Vhosts PROVE StageOK(w)' /\ LatestOK(w)'
    <2>0. /\ StageOK(w) /\ LatestOK(w) /\ router[w].conn \in Conns \cup {NoConn}
          /\ NoConn \notin Conns /\ NoVhost \notin Vhosts
      BY SessionAssumption DEF SessionInv, StateOK, TypeOK, RouterState, Conns, NoConn
    <2>1. CASE w = v
      <3>1. StageOK(w)'
        BY <1>1, <1>2, <1>3, <2>0, <2>1 DEF StageOK
      <3>2. told[w] = {}
        BY <1>1, <2>0, <2>1 DEF StageOK, LatestOK
      <3>3. LatestOK(w)'
        BY <1>1, <1>2, <1>3, <2>0, <2>1, <3>2 DEF LatestOK
      <3> QED
        BY <3>1, <3>3
    <2>2. CASE w # v
      <3>0. router[w].conn # c
        BY <1>3, <2>0 DEF StageOK
      <3>1. StageOK(w)'
        BY <1>1, <1>2, <2>0, <2>2, <3>0, StageFrame DEF SessionInv
      <3>2. LatestOK(w)'
        BY <1>1, <1>2, <2>0, <2>2, <3>0 DEF LatestOK
      <3> QED
        BY <3>1, <3>2
    <2> QED
      BY <2>1, <2>2
  <1> QED
    BY <1>1, <1>4, <1>5, <1>6 DEF StateOK, OutOK

(* A router that reads a command, and sends s, disturbs nothing but its    *)
(* own session.                                                            *)
LEMMA RouterFrame ==
    ASSUME SessionInv, NEW v \in Vhosts, NEW c \in Conns, c = router[v].conn,
           interfaces' = interfaces, live' = live,
           UNCHANGED <<srclients, srclients_reverse, opening, relay, cstate, owner>>,
           \A d \in Conns \ {c} : toRouter'[d] = toRouter[d] /\ toServer'[d] = toServer[d],
           \A w \in Vhosts \ {v} : router'[w] = router[w] /\ told'[w] = told[w],
           ConnOK(c)', StageOK(v)', LatestOK(v)'
    PROVE  StateOK'
  <1>1. TablesOK'
    BY DEF TablesOK, SessionInv, StateOK
  <1>2. ASSUME NEW d \in Conns PROVE ConnOK(d)'
    BY ConnFrame DEF SessionInv, StateOK
  <1>3. ASSUME NEW w \in Vhosts PROVE StageOK(w)' /\ LatestOK(w)'
    <2>1. CASE w = v
      BY <2>1
    <2>2. CASE w # v
      <3>0. /\ StageOK(w) /\ LatestOK(w) /\ StageOK(v) /\ router[w].conn \in Conns \cup {NoConn}
            /\ NoConn \notin Conns
        BY DEF SessionInv, StateOK, TypeOK, RouterState, Conns, NoConn
      <3>1. router[w].conn # c
        BY <2>2, <3>0 DEF StageOK
      <3>2. StageOK(w)'
        BY <2>2, <3>0, <3>1, StageFrame DEF SessionInv
      <3>3. owner[c] # w
        BY <2>2, <3>0 DEF StageOK
      <3>4. LatestOK(w)'
        BY <2>2, <3>0, <3>1, <3>3 DEF LatestOK
      <3> QED
        BY <3>2, <3>4
    <2> QED
      BY <2>1, <2>2
  <1> QED
    BY <1>1, <1>2, <1>3 DEF StateOK

(* Reading takes the first command away, and changes nothing else.         *)
LEMMA TakeConn ==
    ASSUME TypeOK, NEW v \in Vhosts, CanRead(v), Take(v)
    PROVE  /\ router[v].conn \in Conns
           /\ toRouter[router[v].conn] # <<>>
           /\ toRouter'[router[v].conn] = Tail(toRouter[router[v].conn])
           /\ ToSet(toRouter'[router[v].conn]) \subseteq ToSet(toRouter[router[v].conn])
           /\ Received(v) \in ToSet(toRouter[router[v].conn]) /\ Received(v) \in Messages
           /\ \A d \in Conns \ {router[v].conn} : toRouter'[d] = toRouter[d]
  <1>1. /\ router[v].conn \in Conns /\ toRouter[router[v].conn] # <<>>
        /\ toRouter[router[v].conn] \in Seq(Messages)
    BY DEF TypeOK, CanRead, RouterState
  <1>2. /\ toRouter'[router[v].conn] = Tail(toRouter[router[v].conn])
        /\ \A d \in Conns \ {router[v].conn} : toRouter'[d] = toRouter[d]
    BY <1>1 DEF Take, TypeOK
  <1> QED
    BY <1>1, <1>2, ToSetTail DEF Received

LEMMA SendConn ==
    ASSUME TypeOK, NEW v \in Vhosts, router[v].conn \in Conns,
           cstate[router[v].conn] # "lost", NEW s \in Seq(Messages), SendToServer(v, s)
    PROVE  /\ toServer'[router[v].conn] = toServer[router[v].conn] \o s
           /\ \A x \in ToSet(toServer'[router[v].conn]) :
                x \in ToSet(toServer[router[v].conn]) \/ x \in ToSet(s)
           /\ \A d \in Conns \ {router[v].conn} : toServer'[d] = toServer[d]
  <1>1. /\ toServer'[router[v].conn] = toServer[router[v].conn] \o s
        /\ \A d \in Conns \ {router[v].conn} : toServer'[d] = toServer[d]
    BY DEF SendToServer, TypeOK
  <1>2. toServer[router[v].conn] \in Seq(Messages)
    BY DEF TypeOK
  <1> QED
    BY <1>1, <1>2, ToSetConcat

(* Before the main loop a router only meets the commands it waits for.     *)
LEMMA ExpectInv ==
    ASSUME SessionInv, NEW v \in Vhosts, Expect(v)
    PROVE  StateOK' /\ OutOK'
  <1> USE DEF switchVars
  <1>0. PICK c \in Conns \cup {NoConn} : c = router[v].conn
    BY DEF SessionInv, TypeOK, RouterState
  <1> USE <1>0
  <1> DEFINE r == router[v]
             OPEN == Command(IF r.template THEN "OPEN_TEMPLATE" ELSE "OPEN", v)
  <1>1. /\ r.pc \in {"auth", "status", "rtable"} /\ CanRead(v) /\ Take(v)
        /\ UNCHANGED <<interfaces, live, srclients, srclients_reverse, opening, relay, cstate, owner, told>>
        /\ out' = {}
    BY DEF Expect, Expected
  <1>2. /\ c \in Conns /\ toRouter[c] # <<>> /\ toRouter'[c] = Tail(toRouter[c])
        /\ ToSet(toRouter'[c]) \subseteq ToSet(toRouter[c])
        /\ \A d \in Conns \ {c} : toRouter'[d] = toRouter[d]
    BY <1>1, TakeConn DEF SessionInv
  <1>3. StageOK(v) /\ LatestOK(v) /\ ConnOK(c) /\ r \in RouterState /\ TypeOK
    BY <1>2 DEF SessionInv, StateOK, TypeOK
  <1>4. /\ cstate[c] = "up" /\ toServer[c] = <<>> /\ owner[c] = v /\ srclients_reverse[c] = NoVhost
        /\ \/ r.pc = "auth" /\ toRouter[c] = <<Command("AUTH_REQUEST", NoVhost)>>
           \/ r.pc = "status" /\ toRouter[c] = <<Command("AUTH_STATUS", NoVhost)>>
    BY <1>1, <1>2, <1>3 DEF StageOK, Conns, NoConn
  <1>5. toRouter'[c] = <<>> /\ Received(v).type = Expected[r.pc]
    <2>1. CASE r.pc = "auth" /\ toRouter[c] = <<Command("AUTH_REQUEST", NoVhost)>>
      BY <1>2, <2>1 DEF Received, Command, Expected
    <2>2. CASE r.pc = "status" /\ toRouter[c] = <<Command("AUTH_STATUS", NoVhost)>>
      BY <1>2, <2>2 DEF Received, Command, Expected
    <2> QED
      BY <1>4, <2>1, <2>2
  <1>6. r.template \in BOOLEAN /\ OPEN \in Messages /\ Command("AUTH_REPLY", NoVhost) \in Messages
    BY <1>3, CommandTypes DEF RouterState
  <1>7. /\ \A w \in Vhosts \ {v} : router'[w] = router[w]
        /\ router'[v].conn = c /\ router'[v].template = r.template /\ router'[v].hw = r.hw
        /\ router'[v].pc = Stage(r)
    BY <1>5 DEF Expect, SessionInv, TypeOK, RouterState
  <1>8. r.hw = FALSE
    BY <1>1, <1>3 DEF StageOK, RouterState
  <1>9. CASE r.pc = "auth"
    <2>1. SendToServer(v, <<Command("AUTH_REPLY", NoVhost)>>)
      BY <1>5, <1>9 DEF Expect
    <2>2. <<Command("AUTH_REPLY", NoVhost)>> \in Seq(Messages)
      BY <1>6
    <2>3. /\ toServer'[c] = <<>> \o <<Command("AUTH_REPLY", NoVhost)>>
          /\ \A d \in Conns \ {c} : toServer'[d] = toServer[d]
      BY <1>2, <1>3, <1>4, <2>1, <2>2, SendConn
    <2>4. toServer'[c] = <<Command("AUTH_REPLY", NoVhost)>>
      BY <2>3
    <2>5. router'[v].pc = "status"
      BY <1>7, <1>9 DEF Stage
    <2>6. ConnOK(c)'
      BY <1>1, <1>3, <1>4, <1>5, <2>4, ToSetSmall DEF ConnOK, Command
    <2>7. StageOK(v)'
      BY <1>1, <1>2, <1>3, <1>4, <1>5, <1>7, <1>8, <2>4, <2>5 DEF StageOK, Conns, NoConn
    <2>8. LatestOK(v)'
      BY <1>1, <1>2, <1>3, <1>7, <1>9, <2>3, <2>5 DEF LatestOK
    <2>9. StateOK'
      BY <1>1, <1>2, <1>7, <2>3, <2>6, <2>7, <2>8, RouterFrame
    <2> QED
      BY <1>1, <2>9 DEF OutOK
  <1>10. CASE r.pc = "status"
    <2>1. SendToServer(v, <<OPEN>>)
      BY <1>5, <1>10 DEF Expect
    <2>2. <<OPEN>> \in Seq(Messages)
      BY <1>6
    <2>3. /\ toServer'[c] = <<>> \o <<OPEN>>
          /\ \A d \in Conns \ {c} : toServer'[d] = toServer[d]
      BY <1>2, <1>3, <1>4, <2>1, <2>2, SendConn
    <2>4. toServer'[c] = <<OPEN>> /\ ToSet(toServer'[c]) = {OPEN}
      BY <2>3, ToSetSmall
    <2>5. router'[v].pc = IF r.template THEN "rtable" ELSE "run"
      BY <1>7, <1>10 DEF Stage
    <2>6. OPEN.vhost = v /\ OPEN.type = IF r.template THEN "OPEN_TEMPLATE" ELSE "OPEN"
      BY DEF Command
    <2> HIDE DEF OPEN
    <2>7. ConnOK(c)'
      BY <1>1, <1>3, <1>4, <1>5, <2>4, <2>6, ToSetSmall DEF ConnOK
    <2>8. StageOK(v)'
      BY <1>1, <1>2, <1>3, <1>4, <1>5, <1>6, <1>7, <1>8, <2>4, <2>5, <2>6 DEF StageOK, Conns, NoConn
    <2>9. LatestOK(v)'
      BY <1>1, <1>2, <1>3, <1>7, <1>10, <2>3, <2>5 DEF LatestOK
    <2>10. StateOK'
      BY <1>1, <1>2, <1>7, <2>3, <2>7, <2>8, <2>9, RouterFrame
    <2> QED
      BY <1>1, <2>10 DEF OutOK
  <1> QED
    BY <1>4, <1>9, <1>10

LEMMA HwinfoInv ==
    ASSUME SessionInv, NEW v \in Vhosts, sr_handle_hwinfo(v)
    PROVE  StateOK' /\ OutOK'
  <1> USE DEF switchVars
  <1>0. PICK c \in Conns \cup {NoConn} : c = router[v].conn
    BY DEF SessionInv, TypeOK, RouterState
  <1> USE <1>0
  <1>1. /\ router[v].pc = "run" /\ CanRead(v) /\ Take(v) /\ Received(v).type = "HWINFO"
        /\ UNCHANGED <<interfaces, live, srclients, srclients_reverse, opening, relay, cstate, owner>>
        /\ out' = {}
    BY DEF sr_handle_hwinfo
  <1>2. /\ c \in Conns /\ Received(v) \in ToSet(toRouter[c])
        /\ ToSet(toRouter'[c]) \subseteq ToSet(toRouter[c])
        /\ \A d \in Conns \ {c} : toRouter'[d] = toRouter[d]
    BY <1>1, TakeConn DEF SessionInv
  <1>3. StageOK(v) /\ LatestOK(v) /\ ConnOK(c) /\ TypeOK /\ NoConn \notin Conns /\ NoVhost \notin Vhosts
    BY <1>2, SessionAssumption DEF SessionInv, StateOK, Conns, NoConn
  <1>4. /\ cstate[c] = "up" /\ owner[c] = v /\ v \in interfaces /\ srclients_reverse[c] = v
    BY <1>1, <1>2, <1>3 DEF StageOK, ConnOK, TypeOK
  <1>5. PICK s \in Seq(Intfs) : s = SetToSeq(Intfs)
    BY InterfaceList
  <1> DEFINE ps == [k \in 1 .. Len(s) |-> Packet(v, s[k], "frame")]
  <1>6. ps \in Seq(Messages)
    <2>1. \A k \in 1 .. Len(s) : Packet(v, s[k], "frame") \in Messages
      BY CommandTypes
    <2> QED
      BY <2>1
  <1>7. SendToServer(v, ps)
    BY <1>5 DEF sr_handle_hwinfo
  <1>8. \A m \in ToSet(ps) : m.type = "PACKET" /\ m.vhost = v /\ m.intf \in Intfs
    <2>1. \A k \in 1 .. Len(s) : ps[k].type = "PACKET" /\ ps[k].vhost = v /\ ps[k].intf \in Intfs
      BY DEF Packet
    <2>2. DOMAIN ps = 1 .. Len(s)
      OBVIOUS
    <2> HIDE DEF ps
    <2> QED
      BY <2>1, <2>2 DEF ToSet
  <1> HIDE DEF ps
  <1>9. /\ \A x \in ToSet(toServer'[c]) : x \in ToSet(toServer[c]) \/ x \in ToSet(ps)
        /\ \A d \in Conns \ {c} : toServer'[d] = toServer[d]
    BY <1>2, <1>3, <1>4, <1>6, <1>7, SendConn
  <1>10. /\ \A w \in Vhosts \ {v} : router'[w] = router[w] /\ told'[w] = told[w]
         /\ router'[v].conn = c /\ router'[v].template = router[v].template /\ router'[v].hw = TRUE
         /\ router'[v].pc = "run" /\ told'[v] = {}
    BY <1>1 DEF sr_handle_hwinfo, SessionInv, TypeOK, RouterState
  <1>11. ConnOK(c)'
    BY <1>1, <1>2, <1>3, <1>4, <1>8, <1>9 DEF ConnOK
  <1>12. StageOK(v)'
    BY <1>1, <1>2, <1>3, <1>4, <1>8, <1>9, <1>10 DEF StageOK
  <1>13. LatestOK(v)'
    BY <1>1, <1>2, <1>3, <1>9, <1>10 DEF LatestOK
  <1>14. StateOK'
    BY <1>1, <1>2, <1>9, <1>10, <1>11, <1>12, <1>13, RouterFrame
  <1> QED
    BY <1>1, <1>14 DEF OutOK

LEMMA HandlePacketInv ==
    ASSUME SessionInv, NEW v \in Vhosts, sr_handle_packet(v)
    PROVE  StateOK' /\ OutOK'
  <1> USE DEF switchVars
  <1>0. PICK c \in Conns \cup {NoConn} : c = router[v].conn
    BY DEF SessionInv, TypeOK, RouterState
  <1> USE <1>0
  <1>1. /\ router[v].pc = "run" /\ CanRead(v) /\ Take(v)
        /\ UNCHANGED <<interfaces, live, srclients, srclients_reverse, opening, relay, cstate, owner, toServer, told>>
        /\ out' = {}
    BY DEF sr_handle_packet
  <1>2. /\ c \in Conns /\ ToSet(toRouter'[c]) \subseteq ToSet(toRouter[c])
        /\ \A d \in Conns \ {c} : toRouter'[d] = toRouter[d]
    BY <1>1, TakeConn DEF SessionInv
  <1>3. StageOK(v) /\ LatestOK(v) /\ ConnOK(c) /\ TypeOK /\ NoConn \notin Conns /\ NoVhost \notin Vhosts
    BY <1>2, SessionAssumption DEF SessionInv, StateOK, Conns, NoConn
  <1>4. /\ \A w \in Vhosts \ {v} : router'[w] = router[w]
        /\ router'[v].conn = c /\ router'[v].template = router[v].template /\ router'[v].hw = router[v].hw
        /\ router[v].hw => router'[v].pc = "run"
        /\ router'[v].pc \in {"run", "crashed"}
    BY <1>1 DEF sr_handle_packet, SessionInv, TypeOK, RouterState
  <1>5. cstate[c] = "up" /\ owner[c] = v
    BY <1>1, <1>2, <1>3 DEF StageOK
  <1>6. ConnOK(c)'
    BY <1>1, <1>2, <1>3, <1>5, ConnFrame
  <1>7. StageOK(v)'
    BY <1>1, <1>2, <1>3, <1>4 DEF StageOK
  <1>8. LatestOK(v)'
    BY <1>1, <1>2, <1>3, <1>4 DEF LatestOK
  <1>9. StateOK'
    BY <1>1, <1>2, <1>4, <1>6, <1>7, <1>8, RouterFrame
  <1> QED
    BY <1>1, <1>9 DEF OutOK

LEMMA SendPacketInv ==
    ASSUME SessionInv, NEW v \in Vhosts, NEW i \in Intfs, sr_send_packet(v, i)
    PROVE  StateOK' /\ OutOK'
  <1> USE DEF switchVars
  <1>0. PICK c \in Conns \cup {NoConn} : c = router[v].conn
    BY DEF SessionInv, TypeOK, RouterState
  <1> USE <1>0
  <1> DEFINE m == Packet(v, i, "frame")
  <1>1. /\ router[v].pc = "run" /\ router[v].hw /\ SendToServer(v, <<m>>)
        /\ UNCHANGED <<interfaces, live, srclients, srclients_reverse, opening, relay, cstate, owner,
                       router, toRouter, told>>
        /\ out' = {}
    BY DEF sr_send_packet
  <1>2. /\ StageOK(v) /\ LatestOK(v) /\ TypeOK /\ NoConn \notin Conns
        /\ c \in Conns \cup {NoConn}
    BY DEF SessionInv, StateOK, Conns, NoConn, TypeOK, RouterState
  <1>3. /\ c \in Conns /\ cstate[c] = "up" /\ owner[c] = v /\ v \in interfaces /\ srclients_reverse[c] = v
    BY <1>1, <1>2 DEF StageOK
  <1>4. ConnOK(c)
    BY <1>3 DEF SessionInv, StateOK
  <1>5. <<m>> \in Seq(Messages) /\ ToSet(<<m>>) = {m} /\ m.type = "PACKET" /\ m.vhost = v /\ m.intf = i
    <2>1. m \in Messages
      BY CommandTypes
    <2> QED
      BY <2>1, ToSetSmall DEF Packet
  <1> HIDE DEF m
  <1>6. /\ \A x \in ToSet(toServer'[c]) : x \in ToSet(toServer[c]) \/ x = m
        /\ \A d \in Conns \ {c} : toServer'[d] = toServer[d]
    BY <1>1, <1>2, <1>3, <1>5, SendConn
  <1>7. ConnOK(c)'
    BY <1>1, <1>3, <1>4, <1>5, <1>6 DEF ConnOK
  <1>8. StageOK(v)'
    BY <1>1, <1>2, <1>3, <1>5, <1>6 DEF StageOK
  <1>9. LatestOK(v)'
    BY <1>1, <1>2, <1>6 DEF LatestOK
  <1>10. StateOK'
    BY <1>1, <1>3, <1>6, <1>7, <1>8, <1>9, RouterFrame
  <1> QED
    BY <1>1, <1>10 DEF OutOK

(* Only a router with a template is left with a closed connection.         *)
LEMMA SpinInv ==
    ASSUME SessionInv, NEW v \in Vhosts, Spin(v)
    PROVE  StateOK' /\ OutOK'
  <1> USE DEF switchVars
  <1>0. PICK c \in Conns \cup {NoConn} : c = router[v].conn
    BY DEF SessionInv, TypeOK, RouterState
  <1> USE <1>0
  <1>1. /\ router[v].pc \in {"auth", "status", "rtable", "run"} /\ cstate[c] = "lost"
        /\ UNCHANGED <<interfaces, live, srclients, srclients_reverse, opening, relay, cstate, owner,
                       toRouter, toServer, told>>
        /\ out' = {}
    BY DEF Spin
  <1>2. /\ StageOK(v) /\ LatestOK(v) /\ TypeOK /\ NoConn \notin Conns
        /\ c \in Conns \cup {NoConn}
    BY DEF SessionInv, StateOK, Conns, NoConn, TypeOK, RouterState
  <1>3. c \in Conns /\ router[v].pc = "rtable"
    BY <1>1, <1>2 DEF StageOK
  <1>4. /\ \A w \in Vhosts \ {v} : router'[w] = router[w]
        /\ router'[v].conn = c /\ router'[v].template = router[v].template /\ router'[v].hw = router[v].hw
        /\ router'[v].pc = "spinning"
    BY DEF Spin, SessionInv, TypeOK, RouterState
  <1>5. ConnOK(c)'
    BY <1>1, <1>3, ConnFrame DEF SessionInv, StateOK
  <1>6. StageOK(v)'
    BY <1>1, <1>2, <1>3, <1>4 DEF StageOK
  <1>7. LatestOK(v)'
    BY <1>1, <1>2, <1>3, <1>4 DEF LatestOK
  <1>8. StateOK'
    BY <1>1, <1>3, <1>4, <1>5, <1>6, <1>7, RouterFrame
  <1> QED
    BY <1>1, <1>8 DEF OutOK

LEMMA StopInv ==
    ASSUME SessionInv, NEW v \in Vhosts, Stop(v)
    PROVE  StateOK' /\ OutOK'
  <1> USE DEF switchVars
  <1>0. PICK c \in Conns \cup {NoConn} : c = router[v].conn
    BY DEF SessionInv, TypeOK, RouterState
  <1> USE <1>0
  <1>1. /\ router[v].pc # "off"
        /\ UNCHANGED <<interfaces, live, srclients, srclients_reverse, opening, relay, cstate, owner, toServer>>
        /\ out' = {}
    BY DEF Stop
  <1>2. /\ StageOK(v) /\ LatestOK(v) /\ TypeOK /\ NoConn \notin Conns
        /\ c \in Conns \cup {NoConn}
    BY DEF SessionInv, StateOK, Conns, NoConn, TypeOK, RouterState
  <1>3. c \in Conns
    BY <1>1, <1>2 DEF StageOK
  <1>4. /\ \A w \in Vhosts \ {v} : router'[w] = router[w] /\ told'[w] = told[w]
        /\ router'[v] = Off /\ told'[v] = {}
        /\ toRouter'[c] = <<>> /\ \A d \in Conns \ {c} : toRouter'[d] = toRouter[d]
    BY <1>3 DEF Stop, SessionInv, TypeOK
  <1>5. ConnOK(c)'
    <2>1. ConnOK(c)
      BY <1>3 DEF SessionInv, StateOK
    <2> QED
      BY <1>1, <1>3, <1>4, <2>1, ToSetSmall, ConnFrame DEF ConnOK
  <1>6. StageOK(v)'
    BY <1>4 DEF StageOK, Off
  <1>7. LatestOK(v)'
    BY <1>4 DEF LatestOK, Off
  <1>8. StateOK'
    BY <1>1, <1>3, <1>4, <1>5, <1>6, <1>7, RouterFrame
  <1> QED
    BY <1>1, <1>8 DEF OutOK

-----------------------------------------------------------------------------
(* The invariant of the session                                            *)

LEMMA InitInv ==
    ASSUME Init PROVE SessionInv
  <1>1. Off \in RouterState /\ <<>> \in Seq(Messages) /\ MaxEvents \in Nat
    BY SessionAssumption DEF Off, RouterState
  <1>2. TypeOK
    BY <1>1 DEF Init, TypeOK
  <1>3. HandlersCounted
    BY FS_EmptySet DEF Init, HandlersCounted
  <1>4. StateOK /\ OutOK
    BY ToSetSmall DEF Init, StateOK, OutOK, TablesOK, ConnOK, StageOK, LatestOK, Off
  <1> QED
    BY <1>2, <1>3, <1>4 DEF SessionInv

LEMMA StateUnchanged ==
    ASSUME SessionInv, UNCHANGED vars PROVE StateOK' /\ OutOK'
  <1>1. TablesOK'
    BY DEF TablesOK, SessionInv, StateOK, vars
  <1>2. ASSUME NEW c \in Conns PROVE ConnOK(c)'
    BY ConnFrame DEF SessionInv, StateOK, vars
  <1>3. ASSUME NEW w \in Vhosts PROVE StageOK(w)' /\ LatestOK(w)'
    BY StageFrame, LatestFrame DEF SessionInv, StateOK, vars
  <1> QED
    BY <1>1, <1>2, <1>3 DEF StateOK, OutOK, SessionInv, vars

LEMMA NextInv ==
    ASSUME SessionInv, [Next]_vars PROVE SessionInv'
  <1>1. TypeOK' /\ HandlersCounted'
    BY TypesNext DEF SessionInv
  <1>2. StateOK' /\ OutOK'
    BY ConnectionUpInv, ConnectionDownInv, PacketInInv, PortStatusInv, UnseenInv, ConnSendInv, HardwareInfoInv,
       NewClientInv, AuthReplyInv, OpenInv, OpenTemplateInv, PacketMsgInv, DisconnectedInv, ConnectInv,
       ExpectInv, HwinfoInv, HandlePacketInv, SendPacketInv, SpinInv, StopInv, StateUnchanged
       DEF Next, Pox, Ports, Reactor, Router, RouterReads
  <1> QED
    BY <1>1, <1>2 DEF SessionInv

(* The tables of SRServerListener, the commands under way and the stages   *)
(* of sr_connect_to_server always agree: SessionInv.                       *)
THEOREM SessionInvariant == Spec => []SessionInv
  <1>1. Init => SessionInv
    BY InitInv
  <1>2. SessionInv /\ [Next]_vars => SessionInv'
    BY NextInv
  <1> QED
    BY <1>1, <1>2, PTL DEF Spec

(* Every table of SRServerListener, every command and every router process *)
(* keeps its type, however often routers and switches come and go.         *)
THEOREM SessionTypes == Spec => []TypeOK
  <1>1. SessionInv => TypeOK
    BY DEF SessionInv
  <1> QED
    BY <1>1, SessionInvariant, PTL

(* sr_connect_to_server never meets a command it does not expect, and the  *)
(* controller never drops the connection of a router that opened its vhost *)
(* without a template.                                                     *)
THEOREM SessionsDoLast == Spec => []SessionsLast
  <1>1. SessionInv => SessionsLast
    BY DEF SessionInv, StateOK, StageOK, SessionsLast
  <1> QED
    BY <1>1, SessionInvariant, PTL

(* send_to_vhost and _handle_packet_msg keep the vhosts apart: a router is *)
(* only sent what came from its switch, and what it sends leaves that      *)
(* switch once, by the port of the interface it named.                     *)
THEOREM SessionFramesStay == Spec => []FramesStayWithVhost
  <1>1. SessionInv => FramesStayWithVhost
    <2> SUFFICES ASSUME SessionInv PROVE FramesStayWithVhost
      OBVIOUS
    <2>1. ASSUME NEW c \in Conns, NEW k \in 1 .. Len(toRouter[c]), toRouter[c][k].type = "PACKET"
          PROVE  toRouter[c][k].vhost = owner[c]
      <3>1. toRouter[c][k] \in ToSet(toRouter[c])
        BY DEF ToSet, SessionInv, TypeOK
      <3> QED
        BY <2>1, <3>1 DEF SessionInv, StateOK, ConnOK
    <2> QED
      BY <2>1 DEF SessionInv, OutOK, FramesStayWithVhost
  <1> QED
    BY <1>1, SessionInvariant, PTL

-----------------------------------------------------------------------------
(* The reports of interfaces: what StatusFollows says of one of them       *)
Follows(v, i) ==
    LET s == toRouter[router[v].conn]
    IN IF Relaying(v, i) THEN link[v][i] = relay[1].msg.data
       ELSE /\ Reports(s, i) = {} => link[v][i] = router[v].status[i]
            /\ \A k \in Reports(s, i) :
                 (\A j \in Reports(s, i) : j <= k) => link[v][i] = s[k].data

LEMMA ReportsAppend ==
    ASSUME NEW s \in Seq(Messages), NEW m \in Messages, NEW i
    PROVE  /\ IsReport(m, i) => /\ Len(s) + 1 \in Reports(Append(s, m), i)
                                /\ \A k \in Reports(Append(s, m), i) : k <= Len(s) + 1
           /\ Append(s, m)[Len(s) + 1] = m
  <1>1. /\ Len(Append(s, m)) = Len(s) + 1 /\ Len(s) \in Nat
        /\ Append(s, m)[Len(s) + 1] = m
        /\ \A k \in 1 .. Len(s) : Append(s, m)[k] = s[k]
    OBVIOUS
  <1> QED
    BY <1>1 DEF Reports

LEMMA ReportsAppendOther ==
    ASSUME NEW s \in Seq(Messages), NEW m \in Messages, NEW i, ~ IsReport(m, i)
    PROVE  /\ Reports(Append(s, m), i) = Reports(s, i)
           /\ \A k \in Reports(s, i) : Append(s, m)[k] = s[k]
  <1>1. /\ Len(Append(s, m)) = Len(s) + 1 /\ Len(s) \in Nat
        /\ Append(s, m)[Len(s) + 1] = m
        /\ \A k \in 1 .. Len(s) : Append(s, m)[k] = s[k]
    OBVIOUS
  <1> QED
    BY <1>1 DEF Reports

LEMMA ReportsTail ==
    ASSUME NEW s \in Seq(Messages), s # <<>>, NEW i
    PROVE  /\ \A k \in Reports(Tail(s), i) : k + 1 \in Reports(s, i) /\ Tail(s)[k] = s[k + 1] /\ k \in Nat
           /\ \A k \in Reports(s, i) : k \in Nat /\ (k # 1 => k - 1 \in Reports(Tail(s), i))
           /\ 1 \in Reports(s, i) <=> IsReport(Head(s), i)
  <1>1. /\ Len(Tail(s)) = Len(s) - 1 /\ Len(s) \in Nat \ {0} /\ Head(s) = s[1]
        /\ \A k \in 1 .. Len(Tail(s)) : Tail(s)[k] = s[k + 1]
    OBVIOUS
  <1>2. \A k \in Reports(Tail(s), i) : k + 1 \in Reports(s, i) /\ Tail(s)[k] = s[k + 1] /\ k \in Nat
    BY <1>1 DEF Reports
  <1>3. ASSUME NEW k \in Reports(s, i), k # 1 PROVE k - 1 \in Reports(Tail(s), i)
    <2>1. k - 1 \in 1 .. Len(Tail(s)) /\ (k - 1) + 1 = k
      BY <1>1, <1>3 DEF Reports
    <2>2. Tail(s)[k - 1] = s[k]
      BY <1>1, <2>1
    <2> QED
      BY <1>3, <2>1, <2>2 DEF Reports
  <1>4. \A k \in Reports(s, i) : k \in Nat
    BY <1>1 DEF Reports
  <1>5. 1 \in Reports(s, i) <=> IsReport(Head(s), i)
    BY <1>1 DEF Reports
  <1> QED
    BY <1>2, <1>3, <1>4, <1>5

(* A step that sends the router no report of i                             *)
LEMMA FollowsKept ==
    ASSUME TypeOK, NEW v \in Vhosts, NEW i, router[v].conn \in Conns, Follows(v, i),
           router'[v] = router[v], link'[v][i] = link[v][i],
           relay' = relay \/ (~ Relaying(v, i) /\ ~ Relaying(v, i)'),
           \/ toRouter'[router[v].conn] = toRouter[router[v].conn]
           \/ \E m \in Messages :
                ~ IsReport(m, i) /\ toRouter'[router[v].conn] = Append(toRouter[router[v].conn], m)
    PROVE  Follows(v, i)'
  <1>0. PICK s \in Seq(Messages) : s = toRouter[router[v].conn]
    BY DEF TypeOK
  <1>1. /\ Reports(toRouter'[router[v].conn], i) = Reports(s, i)
        /\ \A k \in Reports(s, i) : toRouter'[router[v].conn][k] = s[k]
    <2>1. CASE toRouter'[router[v].conn] = s
      BY <2>1
    <2>2. ASSUME NEW m \in Messages, ~ IsReport(m, i), toRouter'[router[v].conn] = Append(s, m)
          PROVE  /\ Reports(toRouter'[router[v].conn], i) = Reports(s, i)
                 /\ \A k \in Reports(s, i) : toRouter'[router[v].conn][k] = s[k]
      <3>1. Reports(Append(s, m), i) = Reports(s, i) /\ \A k \in Reports(s, i) : Append(s, m)[k] = s[k]
        BY <2>2, ReportsAppendOther, Zenon
      <3> QED
        BY <2>2, <3>1
    <2> QED
      BY <1>0, <2>1, <2>2
  <1>2. Relaying(v, i)' <=> Relaying(v, i)
    BY DEF Relaying
  <1> QED
    BY <1>0, <1>1, <1>2 DEF Follows

(* Reading takes the first command, and what it reports is then known.     *)
LEMMA FollowsRead ==
    ASSUME SessionInv, NEW v \in Vhosts, NEW i \in Intfs, sr_handle_packet(v), router[v].hw, Follows(v, i)
    PROVE  Follows(v, i)'
  <1>0. PICK c \in Conns \cup {NoConn} : c = router[v].conn
    BY DEF SessionInv, TypeOK, RouterState
  <1>1. /\ CanRead(v) /\ Take(v) /\ relay' = relay /\ link' = link /\ Received(v).type = "PACKET"
    BY DEF sr_handle_packet, switchVars
  <1>2. /\ c \in Conns /\ toRouter[c] # <<>> /\ toRouter'[c] = Tail(toRouter[c])
        /\ Received(v) = Head(toRouter[c]) /\ Received(v) \in Messages
    BY <1>0, <1>1, TakeConn DEF SessionInv, Received
  <1>3. PICK s \in Seq(Messages) : s = toRouter[c]
    BY <1>2 DEF SessionInv, TypeOK
  <1>4. router'[v].conn = c
    BY <1>0 DEF sr_handle_packet, SessionInv, TypeOK, RouterState
  <1>5. router'[v].status[i] = IF IsReport(Head(s), i) THEN Head(s).data ELSE router[v].status[i]
    <2>1. CASE Head(s).data \in {"up", "down"}
      <3>1. router' = [router EXCEPT ![v].status[Head(s).intf] = Head(s).data]
        BY <1>2, <1>3, <2>1 DEF sr_handle_packet
      <3>2. router[v].status \in [Intfs -> {"up", "down"}]
        BY DEF SessionInv, TypeOK, RouterState
      <3>3. router'[v].status = [router[v].status EXCEPT ![Head(s).intf] = Head(s).data]
        BY <3>1 DEF SessionInv, TypeOK, RouterState
      <3> QED
        BY <1>1, <1>2, <1>3, <2>1, <3>2, <3>3 DEF IsReport
    <2>2. CASE Head(s).data \notin {"up", "down"}
      BY <1>2, <1>3, <2>2 DEF sr_handle_packet, IsReport
    <2> QED
      BY <2>1, <2>2
  <1>6. Relaying(v, i)' <=> Relaying(v, i)
    BY <1>0, <1>1, <1>4 DEF Relaying
  <1>7. CASE Relaying(v, i)
    BY <1>1, <1>6, <1>7 DEF Follows
  <1>8. CASE ~ Relaying(v, i)
    <2>0. /\ Reports(s, i) = {} => link[v][i] = router[v].status[i]
          /\ \A k \in Reports(s, i) :
               (\A j \in Reports(s, i) : j <= k) => link[v][i] = s[k].data
      BY <1>0, <1>3, <1>8 DEF Follows
    <2>1. ASSUME Reports(Tail(s), i) = {} PROVE link[v][i] = router'[v].status[i]
      <3>1. \A k \in Reports(s, i) : k = 1
        BY <1>2, <1>3, <2>1, ReportsTail
      <3>2. CASE IsReport(Head(s), i)
        <4>1. 1 \in Reports(s, i) /\ s[1] = Head(s)
          BY <1>2, <1>3, <3>2, ReportsTail
        <4> QED
          BY <1>5, <2>0, <3>1, <3>2, <4>1
      <3>3. CASE ~ IsReport(Head(s), i)
        <4>1. Reports(s, i) = {}
          BY <1>2, <1>3, <3>1, <3>3, ReportsTail
        <4> QED
          BY <1>5, <2>0, <3>3, <4>1
      <3> QED
        BY <3>2, <3>3
    <2>2. ASSUME NEW k \in Reports(Tail(s), i), \A j \in Reports(Tail(s), i) : j <= k
          PROVE  link[v][i] = Tail(s)[k].data
      <3>1. k + 1 \in Reports(s, i) /\ Tail(s)[k] = s[k + 1] /\ k \in Nat
        BY <1>2, <1>3, ReportsTail
      <3>2. ASSUME NEW j \in Reports(s, i) PROVE j <= k + 1
        <4>1. j \in Nat /\ (j # 1 => j - 1 <= k)
          BY <1>2, <1>3, <2>2, ReportsTail
        <4> QED
          BY <3>1, <4>1
      <3> QED
        BY <2>0, <3>1, <3>2
    <2> QED
      BY <1>1, <1>2, <1>3, <1>4, <1>6, <1>8, <2>1, <2>2 DEF Follows
  <1> QED
    BY <1>7, <1>8

(* The relayed report is added behind the others, or is of another         *)
(* interface, or goes to another router.                                   *)
LEMMA FollowsSent ==
    ASSUME SessionInv, NEW v \in Vhosts, NEW i \in Intfs, vhost_conn_send, Follows(v, i),
           router[v].pc = "run", router[v].conn \in Conns
    PROVE  Follows(v, i)'
  <1> USE DEF switchVars
  <1>1. PICK c \in Conns : \E m \in Messages : relay = <<[conn |-> c, msg |-> m]>>
    BY DEF vhost_conn_send, SessionInv, TypeOK
  <1>2. PICK m \in Messages : relay = <<[conn |-> c, msg |-> m]>>
    BY <1>1
  <1>3. relay[1].conn = c /\ relay[1].msg = m /\ relay # <<>>
    BY <1>2
  <1>4. Write(c, m) /\ relay' = <<>> /\ router' = router /\ link' = link
    BY <1>3 DEF vhost_conn_send
  <1>5. ~ Relaying(v, i)'
    BY <1>4 DEF Relaying
  <1>6. CASE router[v].conn # c
    <2>1. toRouter'[router[v].conn] = toRouter[router[v].conn] /\ ~ Relaying(v, i)
      BY <1>3, <1>4, <1>6 DEF Write, Relaying, SessionInv, TypeOK
    <2> QED
      BY <1>4, <1>5, <2>1, FollowsKept DEF SessionInv
  <1>7. CASE router[v].conn = c
    <2>1. cstate[c] = "up" /\ Alive(c)
      <3>1. StageOK(v) /\ NoConn \notin Conns /\ NoVhost \notin Vhosts
        BY SessionAssumption DEF SessionInv, StateOK, Conns, NoConn
      <3> QED
        BY <1>7, <3>1 DEF StageOK, Alive
    <2>2. toRouter'[c] = Append(toRouter[c], m)
      BY <1>4, <2>1 DEF Write, SessionInv, TypeOK
    <2>3. CASE ~ IsReport(m, i)
      <3>1. ~ Relaying(v, i)
        BY <1>3, <2>3 DEF Relaying
      <3> QED
        BY <1>4, <1>5, <1>7, <2>2, <2>3, <3>1, FollowsKept DEF SessionInv
    <2>4. CASE IsReport(m, i)
      <3>1. link[v][i] = m.data
        BY <1>3, <1>7, <2>4 DEF Follows, Relaying
      <3>2. PICK s \in Seq(Messages) : s = toRouter[c]
        BY DEF SessionInv, TypeOK
      <3>3. /\ Len(s) + 1 \in Reports(Append(s, m), i)
            /\ \A k \in Reports(Append(s, m), i) : k <= Len(s) + 1
            /\ Append(s, m)[Len(s) + 1] = m
        BY <2>4, ReportsAppend
      <3>4. \A k \in Reports(Append(s, m), i) : k \in Nat
        BY DEF Reports
      <3>5. ASSUME NEW k \in Reports(Append(s, m), i), \A j \in Reports(Append(s, m), i) : j <= k
            PROVE  link[v][i] = Append(s, m)[k].data
        <4>1. k = Len(s) + 1
          BY <3>3, <3>4, <3>5
        <4> QED
          BY <3>1, <3>3, <4>1
      <3> QED
        BY <1>4, <1>5, <1>7, <2>2, <3>2, <3>3, <3>5 DEF Follows
    <2> QED
      BY <2>3, <2>4
  <1> QED
    BY <1>6, <1>7

(* A change of the interface is relayed to the router that knows it.       *)
LEMMA FollowsChange ==
    ASSUME SessionInv, StatusFollows, NEW u \in Vhosts, NEW j \in Intfs, handle_PortStatus(u, j),
           NEW v \in Vhosts, NEW i \in told'[v], router'[v].pc = "run"
    PROVE  Follows(v, i)'
  <1>1. PICK d \in {"up", "down"} :
          link' = [link EXCEPT ![u][j] = d] /\ handle_SRPacketIn(u, Port[u][j], d)
    BY DEF handle_PortStatus
  <1>2. /\ relay = <<>> /\ router' = router /\ toRouter' = toRouter
        /\ told' = IF router[u].hw THEN [told EXCEPT ![u] = @ \cup {j}] ELSE told
    BY DEF handle_PortStatus
  <1>3. \/ relay' = <<>> /\ (u \notin interfaces \/ srclients[u] = NoConn)
        \/ /\ relay' = <<[conn |-> srclients[u], msg |-> Packet(u, j, d)]>>
           /\ srclients[u] # NoConn
    BY <1>1, <1>2, Relayed
  <1>4. router[v].hw
    BY <1>2 DEF SessionInv, StateOK, LatestOK, TypeOK
  <1>5. /\ router[v].conn \in Conns /\ srclients_reverse[router[v].conn] = v /\ v \in interfaces
        /\ srclients[v] = router[v].conn /\ i \in Intfs
    <2>1. StageOK(v) /\ LatestOK(v) /\ router[v].conn \in Conns \cup {NoConn} /\ NoConn \notin Conns
      BY DEF SessionInv, StateOK, TypeOK, RouterState, Conns, NoConn
    <2>2. i \in Intfs
      BY <1>2 DEF SessionInv, TypeOK
    <2> QED
      BY <1>4, <2>1, <2>2 DEF StageOK, LatestOK
  <1>6. CASE v = u /\ i = j
    <2>1. relay' = <<[conn |-> srclients[u], msg |-> Packet(u, j, d)]>>
      BY <1>3, <1>5, <1>6 DEF Conns, NoConn
    <2>2. Relaying(v, i)' /\ relay'[1].msg.data = d
      BY <1>2, <1>5, <1>6, <2>1 DEF Relaying, IsReport, Packet
    <2>3. link'[v][i] = d
      BY <1>1, <1>6 DEF SessionInv, TypeOK
    <2> QED
      BY <2>2, <2>3 DEF Follows
  <1>7. CASE ~ (v = u /\ i = j)
    <2>1. ~ Relaying(v, i)
      BY <1>2 DEF Relaying
    <2>2. ~ Relaying(v, i)'
      <3>1. CASE relay' = <<>>
        BY <3>1 DEF Relaying
      <3>2. CASE relay' = <<[conn |-> srclients[u], msg |-> Packet(u, j, d)]>> /\ srclients[u] # NoConn
        <4>1. srclients_reverse[srclients[u]] = u
          BY <3>2 DEF SessionInv, StateOK, TablesOK
        <4> QED
          BY <1>2, <1>5, <1>7, <3>2, <4>1 DEF Relaying, IsReport, Packet
      <3> QED
        BY <1>3, <3>1, <3>2
    <2>3. i \in told[v]
      BY <1>2, <1>7 DEF SessionInv, TypeOK
    <2>4. Follows(v, i)
      BY <1>2, <2>3 DEF StatusFollows, Follows
    <2>5. link'[v][i] = link[v][i]
      BY <1>1, <1>5, <1>7 DEF SessionInv, TypeOK
    <2> QED
      BY <1>2, <1>5, <2>1, <2>2, <2>4, <2>5, FollowsKept DEF SessionInv
  <1> QED
    BY <1>6, <1>7

(* The steps that relay nothing and read nothing for v                     *)
LEMMA FollowsFrame ==
    ASSUME SessionInv, StatusFollows, NEW v \in Vhosts, NEW i \in told'[v], router'[v].pc = "run",
           told'[v] = told[v], router'[v] = router[v], link' = link, relay' = relay,
           \/ toRouter'[router[v].conn] = toRouter[router[v].conn]
           \/ \E m \in Messages :
                /\ m.type # "PACKET"
                /\ toRouter'[router[v].conn] = Append(toRouter[router[v].conn], m)
    PROVE  Follows(v, i)'
  <1>1. Follows(v, i)
    BY DEF StatusFollows, Follows
  <1>2. router[v].conn \in Conns
    BY DEF SessionInv, StateOK, StageOK, TypeOK, RouterState
  <1>3. \/ toRouter'[router[v].conn] = toRouter[router[v].conn]
        \/ \E m \in Messages :
             ~ IsReport(m, i) /\ toRouter'[router[v].conn] = Append(toRouter[router[v].conn], m)
    BY DEF IsReport
  <1> QED
    BY <1>1, <1>2, <1>3, FollowsKept DEF SessionInv

LEMMA FollowsWrite ==
    ASSUME SessionInv, StatusFollows, NEW v \in Vhosts, NEW i \in told'[v], router'[v].pc = "run",
           told'[v] = told[v], router'[v] = router[v], link' = link, relay' = relay,
           NEW c \in Conns, NEW m \in Messages, m.type # "PACKET",
           toRouter' = toRouter \/ toRouter' = [toRouter EXCEPT ![c] = Append(@, m)]
    PROVE  Follows(v, i)'
  <1>1. router[v].conn \in Conns
    BY DEF SessionInv, StateOK, StageOK, TypeOK, RouterState
  <1>2. \/ toRouter'[router[v].conn] = toRouter[router[v].conn]
        \/ toRouter'[router[v].conn] = Append(toRouter[router[v].conn], m)
    BY <1>1 DEF SessionInv, TypeOK
  <1> QED
    BY <1>2, FollowsFrame

LEMMA FollowsNext ==
    ASSUME SessionInv, StatusFollows, [Next]_vars,
           NEW v \in Vhosts, NEW i \in told'[v], router'[v].pc = "run"
    PROVE  Follows(v, i)'
  <1> USE DEF switchVars
  <1>0. Command("AUTH_REQUEST", NoVhost) \in Messages /\ Command("AUTH_STATUS", NoVhost) \in Messages
        /\ Command("HWINFO", NoVhost) \in Messages
        /\ \A t : Command(t, NoVhost).type = t
    BY CommandTypes DEF Command
  <1>1. ASSUME NEW u \in Vhosts, handle_ConnectionUp(u) PROVE Follows(v, i)'
    BY <1>1, FollowsFrame DEF handle_ConnectionUp
  <1>2. ASSUME NEW u \in Vhosts, ConnectionDown(u) PROVE Follows(v, i)'
    BY <1>2, FollowsFrame DEF ConnectionDown
  <1>3. ASSUME NEW u \in Vhosts, NEW j \in Intfs, handle_PacketIn(u, j) PROVE Follows(v, i)'
    <2>1. /\ relay = <<>> /\ handle_SRPacketIn(u, Port[u][j], "frame")
          /\ UNCHANGED <<link, router, toRouter, told>>
      BY <1>3 DEF handle_PacketIn
    <2>2. \/ relay' = <<>>
          \/ relay' = <<[conn |-> srclients[u], msg |-> Packet(u, j, "frame")]>>
      BY <2>1, Relayed
    <2>3. ~ Relaying(v, i) /\ ~ Relaying(v, i)'
      BY <2>1, <2>2 DEF Relaying, IsReport, Packet
    <2>4. router[v].conn \in Conns
      BY <2>1 DEF SessionInv, StateOK, StageOK, TypeOK, RouterState
    <2>5. Follows(v, i)
      BY <2>1 DEF StatusFollows, Follows
    <2> QED
      BY <2>1, <2>3, <2>4, <2>5, FollowsKept DEF SessionInv
  <1>4. ASSUME NEW u \in Vhosts, NEW j \in Intfs, handle_PortStatus(u, j) PROVE Follows(v, i)'
    BY <1>4, FollowsChange
  <1>4a. ASSUME NEW u \in Vhosts, NEW j \in Intfs, UnseenChange(u, j) PROVE Follows(v, i)'
    <2>1. PICK d : link' = [link EXCEPT ![u][j] = d]
      BY <1>4a DEF UnseenChange
    <2>2. told' = [told EXCEPT ![u] = @ \ {j}] /\ UNCHANGED <<router, relay, toRouter>>
      BY <1>4a DEF UnseenChange
    <2>3. i \in told[v] /\ (v # u \/ i # j)
      BY <2>2 DEF SessionInv, TypeOK
    <2>4. link'[v][i] = link[v][i]
      BY <2>1, <2>3 DEF SessionInv, TypeOK
    <2>5. Follows(v, i)
      BY <2>2, <2>3 DEF StatusFollows, Follows
    <2> QED
      BY <2>2, <2>4, <2>5 DEF Follows, Relaying
  <1>5. CASE vhost_conn_send
    <2>1. router' = router /\ told' = told
      BY <1>5 DEF vhost_conn_send
    <2>2. router[v].conn \in Conns /\ i \in Intfs
      BY <2>1 DEF SessionInv, StateOK, StageOK, TypeOK, RouterState
    <2>3. Follows(v, i)
      BY <2>1 DEF StatusFollows, Follows
    <2> QED
      BY <1>5, <2>1, <2>2, <2>3, FollowsSent
  <1>6. ASSUME NEW c \in Conns, handle_new_client(c) PROVE Follows(v, i)'
    <2>1. /\ UNCHANGED <<told, router, link, relay>>
          /\ \/ toRouter' = toRouter
             \/ toRouter' = [toRouter EXCEPT ![c] = Append(@, Command("AUTH_REQUEST", NoVhost))]
      BY <1>6 DEF handle_new_client
    <2>2. Command("AUTH_REQUEST", NoVhost).type # "PACKET"
      BY DEF Command
    <2> QED
      BY <1>0, <2>1, <2>2, FollowsWrite
  <1>7. ASSUME NEW c \in Conns, handle_auth_reply(c) PROVE Follows(v, i)'
    BY <1>0, <1>7, FollowsWrite DEF handle_auth_reply, Write
  <1>8. ASSUME NEW c \in Conns, handle_open_msg(c) PROVE Follows(v, i)'
    BY <1>8, FollowsFrame DEF handle_open_msg
  <1>9. CASE send_hardware_info
    <2>1. opening \in Conns
      BY <1>9 DEF send_hardware_info, SessionInv, TypeOK
    <2> QED
      BY <1>0, <1>9, <2>1, FollowsWrite DEF send_hardware_info, Write
  <1>10. ASSUME NEW c \in Conns, handle_open_template_msg(c) PROVE Follows(v, i)'
    BY <1>10, FollowsFrame DEF handle_open_template_msg
  <1>11. ASSUME NEW c \in Conns, handle_packet_msg(c) PROVE Follows(v, i)'
    BY <1>11, FollowsFrame DEF handle_packet_msg
  <1>12. ASSUME NEW c \in Conns, handle_client_disconnected(c) PROVE Follows(v, i)'
    BY <1>12, FollowsFrame DEF handle_client_disconnected
  <1>13. ASSUME NEW u \in Vhosts, NEW t \in Templates, sr_connect_to_server(u, t) PROVE Follows(v, i)'
    <2>1. router'[v] = router[v]
      BY <1>13 DEF sr_connect_to_server, Off, SessionInv, TypeOK
    <2> QED
      BY <1>13, <2>1, FollowsFrame DEF sr_connect_to_server
  <1>14. ASSUME NEW u \in Vhosts, v # u, CanRead(u), Take(u) PROVE toRouter'[router[v].conn] = toRouter[router[v].conn]
    <2>1. router[u].conn \in Conns /\ router[u].conn # NoConn
      BY <1>14 DEF CanRead, SessionInv, TypeOK, RouterState
    <2>2. router[u].conn # router[v].conn
      BY <1>14, <2>1, ConnsApart DEF SessionInv
    <2> QED
      BY <1>14, <2>1, <2>2 DEF Take, SessionInv, TypeOK
  <1>15. ASSUME NEW u \in Vhosts, Expect(u) PROVE Follows(v, i)'
    <2>1. CASE u = v
      <3>1. told[v] # {} /\ router[v].pc # "run"
        BY <1>15, <2>1 DEF Expect, Expected
      <3> QED
        BY <3>1 DEF SessionInv, StateOK, LatestOK, StageOK
    <2>2. CASE u # v
      BY <1>14, <1>15, <2>2, FollowsFrame DEF Expect, SessionInv, TypeOK
    <2> QED
      BY <2>1, <2>2
  <1>16. ASSUME NEW u \in Vhosts, sr_handle_hwinfo(u) PROVE Follows(v, i)'
    <2>1. CASE u = v
      BY <1>16, <2>1 DEF sr_handle_hwinfo, SessionInv, TypeOK
    <2>2. CASE u # v
      BY <1>14, <1>16, <2>2, FollowsFrame DEF sr_handle_hwinfo, SessionInv, TypeOK
    <2> QED
      BY <2>1, <2>2
  <1>17. ASSUME NEW u \in Vhosts, sr_handle_packet(u) PROVE Follows(v, i)'
    <2>1. CASE u = v
      <3>1. told' = told /\ router[v].pc = "run"
        BY <1>17, <2>1 DEF sr_handle_packet
      <3>2. router[v].hw /\ i \in Intfs
        BY <3>1 DEF SessionInv, StateOK, LatestOK, TypeOK
      <3>3. Follows(v, i)
        BY <3>1 DEF StatusFollows, Follows
      <3> QED
        BY <1>17, <2>1, <3>2, <3>3, FollowsRead
    <2>2. CASE u # v
      BY <1>14, <1>17, <2>2, FollowsFrame DEF sr_handle_packet, SessionInv, TypeOK
    <2> QED
      BY <2>1, <2>2
  <1>18. ASSUME NEW u \in Vhosts, NEW j \in Intfs, sr_send_packet(u, j) PROVE Follows(v, i)'
    BY <1>18, FollowsFrame DEF sr_send_packet
  <1>19. ASSUME NEW u \in Vhosts, Spin(u) PROVE Follows(v, i)'
    <2>1. router'[v] = router[v]
      BY <1>19 DEF Spin, SessionInv, TypeOK, RouterState
    <2> QED
      BY <1>19, <2>1, FollowsFrame DEF Spin
  <1>20. ASSUME NEW u \in Vhosts, Stop(u) PROVE Follows(v, i)'
    <2>1. CASE u = v
      BY <1>20, <2>1 DEF Stop, SessionInv, TypeOK
    <2>2. CASE u # v
      <3>1. router[u].conn \in Conns /\ router[u].conn # NoConn
        BY <1>20 DEF Stop, SessionInv, StateOK, StageOK, TypeOK, RouterState
      <3>2. toRouter'[router[v].conn] = toRouter[router[v].conn]
        BY <1>20, <2>2, <3>1, ConnsApart DEF Stop, SessionInv, TypeOK
      <3> QED
        BY <1>20, <2>2, <3>2, FollowsFrame DEF Stop, SessionInv, TypeOK
    <2> QED
      BY <2>1, <2>2
  <1>21. CASE UNCHANGED vars
    BY <1>21, FollowsFrame DEF vars
  <1> QED
    BY <1>1, <1>2, <1>3, <1>4, <1>4a, <1>5, <1>6, <1>7, <1>8, <1>9, <1>10, <1>11, <1>12, <1>13,
       <1>15, <1>16, <1>17, <1>18, <1>19, <1>20, <1>21
       DEF Next, Pox, Ports, Reactor, Router, RouterReads

(* A router that has its interfaces learns every later change a switch     *)
(* reports (_handle_PortStatus), in order and on the connection it reads,  *)
(* although send_to_vhost looks the connection up before it writes to it.  *)
THEOREM SessionStatusFollows == Spec => []StatusFollows
  <1>1. Init => StatusFollows
    BY DEF Init, StatusFollows
  <1>2. SessionInv /\ StatusFollows /\ [Next]_vars => StatusFollows'
    <2> SUFFICES ASSUME SessionInv, StatusFollows, [Next]_vars,
                        NEW v \in Vhosts, NEW i \in told'[v], router'[v].pc = "run"
                 PROVE  Follows(v, i)'
      BY DEF StatusFollows, Follows
    <2> QED
      BY FollowsNext
  <1> QED
    BY <1>1, <1>2, SessionInvariant, PTL DEF Spec

=============================================================================
