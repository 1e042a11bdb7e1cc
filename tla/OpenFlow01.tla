----------------------------- MODULE OpenFlow01 -----------------------------
(***************************************************************************)
(* The controller's connections to the switches                            *)
(* (lab5/pox/pox/openflow/of_01.py: Connection, the handshake and default  *)
(* handlers, PortCollection, OpenFlow_01_Task; openflow/__init__.py: the   *)
(* nexus), under the handlers of module VnsSession.                        *)
(*                                                                         *)
(* A connection takes hello, features and barrier before it is announced   *)
(* with ConnectionUp.  Port status messages may come at any time: before   *)
(* the features they are dropped, between features and barrier they are    *)
(* kept for later, from then on they are raised as events.  A switch may   *)
(* leave and come back on a new connection before the end of the old one   *)
(* is noticed.                                                             *)
(*                                                                         *)
(* One message is one step of the task that reads.  The thread that sends  *)
(* what could not be written at once (module DeferredSender) disconnects a *)
(* connection itself when its socket fails, while the task may still read  *)
(* what the switch sent before: Connection.disconnect, run by either, is   *)
(* cut where the other can come in between.  Abstracted: bytes, SSL,       *)
(* statistics, echo; a port is its number and whether its link is up; what *)
(* waits to be sent counts as sent.                                        *)
(***************************************************************************)
EXTENDS Integers, Sequences, SequencesExt

CONSTANTS
    Switches,   \* datapath ids
    PortNos,    \* numbers ports may have
    NoDpid,
    MaxConns,   \* bound: connections the switches make
    MaxChanges  \* bound: changes of ports

ASSUME OfAssumption ==
    /\ {MaxConns, MaxChanges} \subseteq Nat
    /\ NoDpid \notin Switches

Conns == 1 .. MaxConns
NoConn == 0
PortState == {"none", "up", "down"}
Ports == [PortNos -> PortState]
NoPorts == [p \in PortNos |-> "none"]

VARIABLES
    conn,           \* conn[c]: the Connection object, see Connection
    connections,    \* the nexus: the connection of each datapath id
    ports,          \* ports[d]: the ports switch d has
    swconn,         \* swconn[d]: the connection switch d uses
    gone,           \* connections the switch has closed
    toSwitch, toController,
    changes,
    (* History *)
    log,            \* log[c]: the events raised about connection c
    known           \* known[c]: the ports as a listener to c knows them

vars == <<conn, connections, ports, swconn, gone, toSwitch, toController,
          changes, log, known>>
switchVars == <<ports, swconn, gone, changes>>

Status == [type : {"PORT_STATUS"}, port : PortNos, state : PortState]

Connection ==
    [stage : {"free", "incoming", "handshake", "connected", "closing", "closed"},
     dpid : Switches \cup {NoDpid},
     asked : BOOLEAN,           \* _features_request_sent
     barrier : BOOLEAN,         \* _barrier is not None
     original : Ports,          \* original_ports
     delta : Ports, masks : SUBSET PortNos,                    \* ports
     deferred : Seq(Status),    \* _deferred_port_status
     disconnected : BOOLEAN,
     raised : BOOLEAN,          \* disconnection_raised
     sender : {"idle", "disconnected", "raising", "done"}]
                                \* DeferredSender.run, in its disconnect()

Fresh == [stage |-> "free", dpid |-> NoDpid, asked |-> FALSE,
          barrier |-> FALSE, original |-> NoPorts, delta |-> NoPorts,
          masks |-> {}, deferred |-> <<>>, disconnected |-> FALSE,
          raised |-> FALSE, sender |-> "idle"]

Msg(t) == [type |-> t]
ToSwitch == {Msg("HELLO"), Msg("FEATURES_REQUEST"), Msg("BARRIER_REQUEST")}
ToController ==
    {Msg("HELLO"), Msg("BARRIER_REPLY"), Msg("ERROR")} \cup Status
      \cup [type : {"FEATURES_REPLY"}, dpid : Switches, ports : Ports]

Init ==
    /\ conn = [c \in Conns |-> Fresh]
    /\ connections = [d \in Switches |-> NoConn]
    /\ ports \in [Switches -> [PortNos -> {"none", "up"}]]
    /\ swconn = [d \in Switches |-> NoConn]
    /\ gone = {}
    /\ toSwitch = [c \in Conns |-> <<>>]
    /\ toController = [c \in Conns |-> <<>>]
    /\ changes = 0
    /\ log = [c \in Conns |-> <<>>]
    /\ known = [c \in Conns |-> NoPorts]

-----------------------------------------------------------------------------
(* PortCollection: changes over the original ports                         *)

(* values(): what a user of con.ports sees                                 *)
View(r) ==
    [p \in PortNos |-> IF r.delta[p] # "none" THEN r.delta[p]
                       ELSE IF p \in r.masks THEN "none" ELSE r.original[p]]

(* Mutant: a removed port stays among the ports, marked.                   *)
ForgetMarks(r, p) == [r EXCEPT !.delta[p] = "deleted"]

forget(r, p) ==
    [r EXCEPT !.masks = @ \cup {p}, !.delta[p] = "none"]

update(r, p, s) ==
    [r EXCEPT !.masks = @ \ {p}, !.delta[p] = s]

(* DefaultOpenFlowHandlers.handle_PORT_STATUS, without its event           *)
Tracked(r, m) ==
    IF m.state = "none" THEN forget(r, m.port) ELSE update(r, m.port, m.state)

-----------------------------------------------------------------------------
(* Connection: sending and the end                                         *)

(* nexus._disconnect, of whichever connection has that datapath id         *)
Without(nexus, d) ==
    IF d \in Switches THEN [nexus EXCEPT ![d] = NoConn] ELSE nexus

(* Connection.send, when the object has become r and the nexus n: to a     *)
(* switch that has gone the write is lost or fails, and a write that fails *)
(* disconnects without telling anyone yet (defer_event).                   *)
send(c, r, n, msgs) ==
    \/ /\ conn' = [conn EXCEPT ![c] = r]
       /\ connections' = n
       /\ toSwitch' = IF r.disconnected \/ c \in gone THEN toSwitch
                      ELSE [toSwitch EXCEPT ![c] = @ \o msgs]
    \/ /\ c \in gone /\ ~ r.disconnected
       /\ conn' = [conn EXCEPT ![c] = [r EXCEPT !.disconnected = TRUE]]
       /\ connections' = Without(n, r.dpid)
       /\ UNCHANGED toSwitch

(* disconnect() finds that ConnectionDown is to be raised.                 *)
Tells(r) == r.dpid # NoDpid /\ ~ r.raised

(* The task has nothing under way: it is not within close().               *)
Reading == \A b \in Conns : conn[b].stage # "closing"

(* Mutants: the nexus is not told; ConnectionDown is not raised once a     *)
(* write has failed.                                                       *)
CloseKeepsNexus(c) ==
    LET r == conn[c]
    IN /\ r.stage \in {"handshake", "connected"} /\ c \in gone /\ Reading
       /\ conn' = [conn EXCEPT ![c] = [r EXCEPT !.disconnected = TRUE,
                      !.stage = IF Tells(r) THEN "closing" ELSE "closed"]]
       /\ toController' = [toController EXCEPT ![c] = <<>>]
       /\ UNCHANGED <<connections, switchVars, toSwitch, log, known>>

CloseSilentAfterError(c) ==
    LET r == conn[c]
    IN /\ r.stage \in {"handshake", "connected"} /\ c \in gone /\ Reading
       /\ conn' = [conn EXCEPT ![c] = [r EXCEPT !.disconnected = TRUE,
                      !.stage = IF Tells(r) /\ ~ r.disconnected
                                THEN "closing" ELSE "closed"]]
       /\ connections' = Without(connections, r.dpid)
       /\ toController' = [toController EXCEPT ![c] = <<>>]
       /\ UNCHANGED <<switchVars, toSwitch, log, known>>

(* read() returns False, after the last message or, when the switch reset  *)
(* the connection, before: close, and the socket is selected on no more.   *)
close(c) ==
    LET r == conn[c]
    IN /\ r.stage \in {"handshake", "connected"} /\ c \in gone /\ Reading
       /\ conn' = [conn EXCEPT ![c] = [r EXCEPT !.disconnected = TRUE,
                      !.stage = IF Tells(r) THEN "closing" ELSE "closed"]]
       /\ connections' = Without(connections, r.dpid)
       /\ toController' = [toController EXCEPT ![c] = <<>>]
       /\ UNCHANGED <<switchVars, toSwitch, log, known>>

(* ... and raises ConnectionDown.                                          *)
RaiseDown(c) ==
    /\ conn[c].stage = "closing"
    /\ conn' = [conn EXCEPT ![c].raised = TRUE, ![c].stage = "closed"]
    /\ log' = [log EXCEPT ![c] = Append(@, "down")]
    /\ UNCHANGED <<connections, switchVars, toSwitch, toController, known>>

(* The sender's thread: the socket of c, which has data waiting, fails.    *)
SenderDisconnects(c) ==
    /\ conn[c].stage \notin {"free", "incoming"} /\ c \in gone
    /\ conn[c].sender = "idle"
    /\ \A b \in Conns : conn[b].sender \in {"idle", "done"}
    /\ conn' = [conn EXCEPT ![c].disconnected = TRUE, ![c].sender = "disconnected"]
    /\ connections' = Without(connections, conn[c].dpid)
    /\ UNCHANGED <<switchVars, toSwitch, toController, log, known>>

SenderTests(c) ==
    /\ conn[c].sender = "disconnected"
    /\ conn' = [conn EXCEPT ![c].sender =
                  IF Tells(conn[c]) THEN "raising" ELSE "done"]
    /\ UNCHANGED <<connections, switchVars, toSwitch, toController, log, known>>

SenderRaises(c) ==
    /\ conn[c].sender = "raising"
    /\ conn' = [conn EXCEPT ![c].raised = TRUE, ![c].sender = "done"]
    /\ log' = [log EXCEPT ![c] = Append(@, "down")]
    /\ UNCHANGED <<connections, switchVars, toSwitch, toController, known>>

(* A component writes to a connection it was told of.                      *)
ComponentSends(c) ==
    /\ conn[c].stage = "connected" /\ ~ conn[c].disconnected
    /\ send(c, conn[c], connections, <<>>)
    /\ UNCHANGED <<switchVars, toController, log, known>>

-----------------------------------------------------------------------------
(* OpenFlow_01_Task and the handlers                                       *)

accept(c) ==
    /\ conn[c].stage = "incoming" /\ Reading
    /\ send(c, [conn[c] EXCEPT !.stage = "handshake"], connections, <<Msg("HELLO")>>)
    /\ UNCHANGED <<switchVars, toController, log, known>>

(* The next message on c is of type t and comes at this stage.             *)
Receives(c, t, stage) ==
    /\ conn[c].stage = stage /\ Reading
    /\ toController[c] # <<>> /\ Head(toController[c]).type = t

Read(c) == toController' = [toController EXCEPT ![c] = Tail(@)]

handle_HELLO(c) ==
    /\ Receives(c, "HELLO", "handshake") /\ Read(c)
    /\ send(c, [conn[c] EXCEPT !.asked = TRUE], connections,
            IF conn[c].asked THEN <<>> ELSE <<Msg("FEATURES_REQUEST")>>)
    /\ UNCHANGED <<switchVars, log, known>>

handle_FEATURES_REPLY(c) ==
    LET m == Head(toController[c])
    IN /\ Receives(c, "FEATURES_REPLY", "handshake") /\ Read(c)
       /\ send(c, [conn[c] EXCEPT !.dpid = m.dpid, !.original = m.ports,
                                  !.delta = NoPorts, !.masks = {},
                                  !.deferred = <<>>, !.barrier = TRUE],
               connections, <<Msg("BARRIER_REQUEST")>>)
       /\ UNCHANGED <<switchVars, log, known>>

(* Mutant: only those already connected hear of the port.                  *)
EarlyPortStatusDropped(c) ==
    /\ Receives(c, "PORT_STATUS", "handshake") /\ Read(c)
    /\ UNCHANGED <<conn, connections, switchVars, toSwitch, log, known>>

(* During the handshake: dropped before the features, kept after them.     *)
EarlyPortStatus(c) ==
    LET m == Head(toController[c])
    IN /\ Receives(c, "PORT_STATUS", "handshake") /\ Read(c)
       /\ conn' = IF conn[c].dpid = NoDpid THEN conn
                  ELSE [conn EXCEPT ![c].deferred = Append(@, m)]
       /\ UNCHANGED <<connections, switchVars, toSwitch, log, known>>

(* What one who knew the ports v knows once the messages have told of the  *)
(* changes: the latest of each port counts.                                *)
After(v, msgs) ==
    [p \in PortNos |->
       LET about == {k \in DOMAIN msgs : /\ msgs[k].type = "PORT_STATUS"
                                         /\ msgs[k].port = p}
       IN IF about = {} THEN v[p] ELSE msgs[Max(about)].state]

(* Mutant: what was kept is raised before ConnectionUp.                    *)
FinishKeptFirst(c) ==
    LET r == [conn[c] EXCEPT !.stage = "connected"]
        kept == r.deferred
        up == FoldLeft(Tracked, [r EXCEPT !.deferred = <<>>], kept)
    IN /\ send(c, up, [connections EXCEPT ![r.dpid] = c], <<>>)
       /\ log' = [log EXCEPT ![c] = @ \o [k \in 1 .. Len(kept) |-> "status"] \o <<"up">>]
       /\ known' = [known EXCEPT ![c] = View(up)]

(* _finish_connecting: the connection is entered in the nexus and          *)
(* announced (whose listeners write to it); then what was kept is handled. *)
finish_connecting(c) ==
    LET r == [conn[c] EXCEPT !.stage = "connected"]
        kept == r.deferred
        up == FoldLeft(Tracked, [r EXCEPT !.deferred = <<>>], kept)
    IN /\ send(c, up, [connections EXCEPT ![r.dpid] = c], <<>>)
       /\ log' = [log EXCEPT ![c] = @ \o <<"up">> \o [k \in 1 .. Len(kept) |-> "status"]]
       /\ known' = [known EXCEPT ![c] = After(r.original, kept)]

handle_BARRIER_REPLY(c) ==
    /\ Receives(c, "BARRIER_REPLY", "handshake") /\ Read(c)
    /\ conn[c].barrier
    /\ finish_connecting(c)
    /\ UNCHANGED switchVars

(* Mutant: any error is passed over.                                       *)
ErrorIgnored(c) ==
    /\ Receives(c, "ERROR", "handshake") /\ Read(c)
    /\ UNCHANGED <<conn, connections, switchVars, toSwitch, log, known>>

(* The barrier is refused as a bad type: it is done without.               *)
handle_ERROR(c) ==
    /\ Receives(c, "ERROR", "handshake") /\ Read(c)
    /\ conn[c].barrier
    /\ finish_connecting(c)
    /\ UNCHANGED switchVars

handle_PORT_STATUS(c) ==
    LET m == Head(toController[c])
    IN /\ Receives(c, "PORT_STATUS", "connected") /\ Read(c)
       /\ conn' = [conn EXCEPT ![c] = Tracked(@, m)]
       /\ log' = [log EXCEPT ![c] = Append(@, "status")]
       /\ known' = [known EXCEPT ![c][m.port] = m.state]
       /\ UNCHANGED <<connections, switchVars, toSwitch>>

-----------------------------------------------------------------------------
(* The switches                                                            *)

(* A switch opens a connection when it has none.                           *)
Connect(d, c) ==
    /\ swconn[d] = NoConn
    /\ conn[c].stage = "free" /\ \A b \in 1 .. c - 1 : conn[b].stage # "free"
    /\ swconn' = [swconn EXCEPT ![d] = c]
    /\ conn' = [conn EXCEPT ![c].stage = "incoming"]
    /\ toController' = [toController EXCEPT ![c] = <<Msg("HELLO")>>]
    /\ UNCHANGED <<connections, ports, gone, toSwitch, changes, log, known>>

Leave(d) ==
    /\ swconn[d] # NoConn
    /\ gone' = gone \cup {swconn[d]}
    /\ toSwitch' = [toSwitch EXCEPT ![swconn[d]] = <<>>]
    /\ swconn' = [swconn EXCEPT ![d] = NoConn]
    /\ UNCHANGED <<conn, connections, ports, toController, changes, log, known>>

(* A port is added, changes or is removed.                                 *)
PortChange(d, p, s) ==
    /\ changes < MaxChanges /\ ports[d][p] # s
    /\ ports' = [ports EXCEPT ![d][p] = s]
    /\ toController' =
         IF swconn[d] = NoConn THEN toController
         ELSE [toController EXCEPT ![swconn[d]] =
                 Append(@, [type |-> "PORT_STATUS", port |-> p, state |-> s])]
    /\ changes' = changes + 1
    /\ UNCHANGED <<conn, connections, swconn, gone, toSwitch, log, known>>

(* The switch handles a request; some do not know barriers.                *)
Answer(d) ==
    LET c == swconn[d]
        answers == [HELLO |-> {}, FEATURES_REQUEST |->
                      {[type |-> "FEATURES_REPLY", dpid |-> d, ports |-> ports[d]]},
                    BARRIER_REQUEST |-> {Msg("BARRIER_REPLY"), Msg("ERROR")}]
        a == answers[Head(toSwitch[c]).type]
    IN /\ c # NoConn /\ toSwitch[c] # <<>>
       /\ toSwitch' = [toSwitch EXCEPT ![c] = Tail(@)]
       /\ \/ a = {} /\ UNCHANGED toController
          \/ \E m \in a : toController' = [toController EXCEPT ![c] = Append(@, m)]
       /\ UNCHANGED <<conn, connections, switchVars, log, known>>

-----------------------------------------------------------------------------
Handle(c) ==
    \/ accept(c)
    \/ handle_HELLO(c)
    \/ handle_FEATURES_REPLY(c)
    \/ EarlyPortStatus(c)
    \/ handle_BARRIER_REPLY(c)
    \/ handle_ERROR(c)
    \/ handle_PORT_STATUS(c)
    \/ close(c)
    \/ RaiseDown(c)

Sender(c) == SenderDisconnects(c) \/ SenderTests(c) \/ SenderRaises(c)

Next ==
    \/ \E c \in Conns : Handle(c) \/ Sender(c) \/ ComponentSends(c)
    \/ \E d \in Switches :
         \/ \E c \in Conns : Connect(d, c)
         \/ Leave(d)
         \/ Answer(d)
         \/ \E p \in PortNos, s \in PortState : PortChange(d, p, s)

Spec == Init /\ [][Next]_vars

(* The task goes on reading, and a switch answers while it is there.       *)
Fairness ==
    /\ \A c \in Conns : WF_vars(Handle(c))
    /\ \A d \in Switches : WF_vars(Answer(d))

FairSpec == Spec /\ Fairness

-----------------------------------------------------------------------------
(* Properties                                                              *)

TypeOK ==
    /\ conn \in [Conns -> Connection]
    /\ connections \in [Switches -> Conns \cup {NoConn}]
    /\ ports \in [Switches -> Ports]
    /\ swconn \in [Switches -> Conns \cup {NoConn}]
    /\ gone \subseteq Conns
    /\ toSwitch \in [Conns -> Seq(ToSwitch)]
    /\ toController \in [Conns -> Seq(ToController)]
    /\ changes \in 0 .. MaxChanges
    /\ log \in [Conns -> Seq({"up", "status", "down"})]
    /\ known \in [Conns -> Ports]

(* No change of a port is lost or overtaken, before, during or after the   *)
(* handshake: what con.ports and the listeners to a connection know, and   *)
(* what is still on its way, add up to the ports the switch has.           *)
PortsFollow ==
    \A d \in Switches :
      LET c == swconn[d] IN
      c # NoConn =>
        /\ conn[c].stage = "connected" =>
             /\ After(View(conn[c]), toController[c]) = ports[d]
             /\ After(known[c], toController[c]) = ports[d]
        /\ conn[c].stage = "handshake" /\ conn[c].barrier =>
             After(After(conn[c].original, conn[c].deferred), toController[c]) = ports[d]

(* Listeners hear of a connection in order: ConnectionUp at most once, and *)
(* of ports only after it.  Unless the sender's thread has disconnected it *)
(* ConnectionUp is first and ConnectionDown last, also when a write had    *)
(* failed before (it may be alone: the switch has left between features    *)
(* and barrier).  ConnectionDown comes a second time only when both        *)
(* threads disconnect and each found disconnection_raised not yet set.     *)
EventsInOrder ==
    \A c \in Conns : \A j, k \in 1 .. Len(log[c]) :
      /\ log[c][j] = "up" /\ log[c][k] = "up" => j = k
      /\ log[c][k] = "status" => \E i \in 1 .. k - 1 : log[c][i] = "up"
      /\ conn[c].sender = "idle" =>
           /\ log[c][k] = "up" => k = 1
           /\ log[c][k] = "down" => k = Len(log[c])
      /\ log[c][j] = "down" /\ log[c][k] = "down" /\ j # k =>
           conn[c].stage = "closed" /\ conn[c].sender = "done"

(* What sendToDPID finds in the nexus is a connection of that switch that  *)
(* was announced, never one that was closed, and one taken back only when  *)
(* the sender's thread did so; and a switch with a single connection is    *)
(* found.  (When a switch has come back the late end of its old connection *)
(* takes the entry of the new one.)                                        *)
NexusAccurate ==
    \A d \in Switches :
      LET c == connections[d]
          of(b) == conn[b].dpid = d
      IN /\ c # NoConn =>
              /\ conn[c].stage = "connected" /\ of(c)
              /\ \E k \in 1 .. Len(log[c]) : log[c][k] = "up"
              /\ conn[c].sender = "idle" =>
                   \A k \in 1 .. Len(log[c]) : log[c][k] # "down"
         /\ \A b \in Conns :
              /\ of(b) /\ \A a \in Conns \ {b} : ~ of(a)
              /\ conn[b].stage = "connected" /\ ~ conn[b].disconnected
              => c = b

(* A switch that stays is announced, whatever its ports do meanwhile and   *)
(* whether or not it knows barriers.                                       *)
ComesUp ==
    \A d \in Switches, c \in Conns :
      swconn[d] = c ~> (swconn[d] # c \/ log[c] # <<>>)

(* A switch that was announced and has left is taken back, whichever       *)
(* thread notices.                                                         *)
GoesDown ==
    \A c \in Conns :
      (c \in gone /\ log[c] # <<>>)
        ~> \E k \in 1 .. Len(log[c]) : /\ log[c][k] = "down"
                                       /\ conn[c].sender = "idle" => k = Len(log[c])
=============================================================================
